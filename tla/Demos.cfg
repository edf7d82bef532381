SPECIFICATION FairSpec
CONSTANTS
    Tasks = {t1, t2}
    Threads = {1, 2, 3, 4}
    Rounds = 3
    Printers = {p1, p2, p3}
    Loops = 2
    Slots = {"s1", "s2", "s3"}
    WidgetIDs = {0, 1}
    WORD_LEN = 6
INVARIANTS PrintsInOrder NobodyGoesEarly WidgetsShared LeaksAsShown CodesAgree
PROPERTIES ImplementsStages ProgramEnds
CHECK_DEADLOCK FALSE
