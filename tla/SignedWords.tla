----------------------------- MODULE SignedWords ------------------------------
(***************************************************************************)
(* The programs encode, decode and add of representing-signed-integers: a  *)
(* signed word in sign-magnitude, ones' complement and two's complement.   *)
(* A bin (std::bitset) is the set of its bits that are 1.                  *)
(***************************************************************************)
EXTENDS Integers

CONSTANT WORD_LEN       \* bits of a word: 8 in the code

TRUE_VALUE_LEN == WORD_LEN - 1
SIGN_INDEX == TRUE_VALUE_LEN

\* 1 << i
Power[i \in 0 .. WORD_LEN] == IF i = 0 THEN 1 ELSE 2 * Power[i - 1]
Half == Power[TRUE_VALUE_LEN]

Bits == 0 .. WORD_LEN - 1
Magnitude == 0 .. TRUE_VALUE_LEN - 1
Words == -Half .. Half - 1

VARIABLES job,          \* the arguments of the program
          answer        \* what it has printed

vars == <<job, answer>>

Abs(n) == IF n < 0 THEN -n ELSE n
Wrap(n) == ((n + Half) % (2 * Half)) - Half         \* an int stored in a word

\* Weights(code)[k] is what the bits of code below k count.
Weights(code) == LET w[k \in 0 .. WORD_LEN] ==
                         IF k = 0 THEN 0
                         ELSE w[k - 1] + IF k - 1 \in code THEN Power[k - 1] ELSE 0
                 IN w
Weight(code) == Weights(code)[WORD_LEN]

-----------------------------------------------------------------------------
\* fake_add: one bit with its carry, and whole words
Bit(x) == IF x THEN 1 ELSE 0

\* A faulty variant: the carry does not count.
FakeAddBitsHalf(a, b, c) == [sum |-> a # b, carry |-> a /\ b]

FakeAddBits(a, b, c) ==
    LET ones == Bit(a) + Bit(b) + Bit(c) IN [sum |-> ones \in {1, 3}, carry |-> ones >= 2]

\* The carry into each bit
Carries(a, b) == LET carry[i \in 0 .. WORD_LEN] ==
                         IF i = 0 THEN FALSE
                         ELSE FakeAddBits(i - 1 \in a, i - 1 \in b, carry[i - 1]).carry
                 IN carry

FakeAdd(a, b) == [sum |-> {i \in Bits : FakeAddBits(i \in a, i \in b, Carries(a, b)[i]).sum},
                  carry |-> Carries(a, b)[WORD_LEN]]

detect_overflow(as, bs, ss) == \/ ~as /\ ~bs /\ ss
                               \/ as /\ bs /\ ~ss

\* n >> i, an int rounded down; its last bit is n & (1 << i).
Shifted(n) == LET s[i \in 0 .. WORD_LEN] == IF i = 0 THEN n ELSE s[i - 1] \div 2 IN s

\* The low bits of an int; also what bin(n) is.
word_to_machine(n) == {i \in Bits : Shifted(n)[i] % 2 = 1}

\* |n| as a word, halved k times: / rounds towards 0.
Halved(n) == LET h[k \in 0 .. TRUE_VALUE_LEN] ==
                     IF k = 0 THEN Wrap(Abs(n))
                     ELSE LET x == h[k - 1] IN IF x < 0 THEN -(Abs(x) \div 2) ELSE x \div 2
             IN h

\* std::overflow_error is thrown.
Overflows(n) == Halved(n)[TRUE_VALUE_LEN] # 0

word_to_original_code(n) == {i \in Magnitude : Abs(Halved(n)[i]) % 2 = 1}
                            \cup {i \in {SIGN_INDEX} : n < 0}

word_to_ones_complement(n) ==
    LET code == word_to_original_code(n)
    IN IF n < 0 THEN {SIGN_INDEX} \cup (Magnitude \ code) ELSE code

word_to_ones_complement1(n) ==
    LET code == word_to_machine(Abs(n)) IN IF n >= 0 THEN code ELSE Bits \ code

word_to_twos_complement(n) ==
    LET code == word_to_ones_complement(n)
    IN IF n < 0 THEN FakeAdd(code, {0}).sum ELSE code

word_to_twos_complement1(n) ==
    IF n < 0 THEN word_to_machine(Half - Abs(n)) \cup {SIGN_INDEX} ELSE word_to_original_code(n)

twos_complement_to_word(twos) ==
    Weight(twos \cap Magnitude) - (IF SIGN_INDEX \in twos THEN Half ELSE 0)

orig_code_to_word(orig) ==
    LET n == Weight(orig \cap Magnitude) IN IF SIGN_INDEX \in orig THEN -n ELSE n

\* The bits that are 0 count, whatever the sign.
ones_complement_to_word(ones) ==
    LET n == Weight(Magnitude \ ones) IN IF SIGN_INDEX \in ones THEN -n ELSE n

-----------------------------------------------------------------------------
\* The arguments reach one number past what a word holds, on both sides.
Init == /\ \/ job \in {"encode"} \X (-Half - 1 .. Half)
           \/ job \in {"decode"} \X {"twos", "orig", "ones"} \X (SUBSET Bits)
           \/ job \in {"add"} \X (SUBSET Bits) \X (SUBSET Bits)
        /\ answer = <<>>

Encode(n) ==
    IF n < -Half \/ n > Half - 1 THEN <<"invalid_argument">>
    ELSE IF Overflows(n) THEN <<"overflow_error">>
    ELSE <<"ok", [orig |-> word_to_original_code(n),
                  ones |-> word_to_ones_complement(n), ones1 |-> word_to_ones_complement1(n),
                  twos |-> word_to_twos_complement(n), twos1 |-> word_to_twos_complement1(n),
                  mac |-> word_to_machine(n)]>>

decoders(mode, code) == CASE mode = "twos" -> twos_complement_to_word(code)
                          [] mode = "ones" -> ones_complement_to_word(code)
                          [] mode = "orig" -> orig_code_to_word(code)

Decode(mode, code) == <<"ok", decoders(mode, code)>>

Add(a, b) ==
    LET r == FakeAdd(a, b)
    IN <<"ok", [sum |-> r.sum, carry |-> r.carry,
                overflow |-> detect_overflow(SIGN_INDEX \in a, SIGN_INDEX \in b, SIGN_INDEX \in r.sum)]>>

Main == /\ answer = <<>>
        /\ answer' = CASE job[1] = "encode" -> Encode(job[2])
                       [] job[1] = "decode" -> Decode(job[2], job[3])
                       [] job[1] = "add" -> Add(job[2], job[3])
        /\ UNCHANGED job

Spec == Init /\ [][Main]_vars

Ended == answer # <<>>

-----------------------------------------------------------------------------
\* The assertions of encode.cpp:32-35: the two algorithms for ones' complement
\* agree, those for two's complement agree with the machine's word, and decode gives
\* back the number.  Of the arguments encode accepts, the smallest has no
\* sign-magnitude code, and only it ends in overflow_error.
EncodingsAgree ==
    /\ Ended /\ job[1] = "encode" /\ answer[1] # "invalid_argument" =>
           LET n == job[2]
               codes == answer[2]
           IN IF n = -Half THEN answer[1] = "overflow_error"
              ELSE /\ codes.ones = codes.ones1
                   /\ codes.mac = codes.twos /\ codes.mac = codes.twos1
                   /\ orig_code_to_word(codes.orig) = n
                   /\ twos_complement_to_word(codes.twos) = n
    /\ Ended /\ job[1] = "decode" /\ job[2] = "twos" => word_to_machine(answer[2]) = job[3]

\* fake_add adds modulo 2^WORD_LEN and carries what is beyond; detect_overflow says
\* yes exactly if the sum of the two signed words is none.
AddsModulo ==
    Ended /\ job[1] = "add" =>
        LET a == job[2]
            b == job[3]
            signed == twos_complement_to_word(a) + twos_complement_to_word(b)
            sum == answer[2].sum
        IN /\ Weight(sum) + (IF answer[2].carry THEN 2 * Half ELSE 0) = Weight(a) + Weight(b)
           /\ answer[2].overflow <=> signed \notin Words
           /\ ~answer[2].overflow => twos_complement_to_word(sum) = signed

\* common.cpp:102: the ones' complement of a number that is not negative is its
\* sign-magnitude code, so that decode reads both alike.  It does not.
OnesDecodedAsOrig ==
    Ended /\ job[1] = "decode" /\ job[2] = "ones" /\ SIGN_INDEX \notin job[3] =>
        answer[2] = orig_code_to_word(job[3])
=============================================================================
