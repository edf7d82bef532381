SPECIFICATION FairSpec
PROPERTY ReadySeen
CHECK_DEADLOCK FALSE
