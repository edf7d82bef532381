SPECIFICATION FairSpec
INVARIANTS OutputAsShown ScopesRespected OrderedAsShown NoDataRace
PROPERTY ProgramEnds
CHECK_DEADLOCK FALSE
