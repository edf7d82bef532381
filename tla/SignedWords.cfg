SPECIFICATION Spec
CONSTANT WORD_LEN = 8
INVARIANT OnesDecodedAsOrig
CHECK_DEADLOCK FALSE
