\* Two tasks in both builds, with a recursion two calls deep.
SPECIFICATION Spec
CONSTANTS
    Tasks = {t1, t2}
    Main = Main
    Null = Null
    Words = 11
INVARIANTS
    TypeOK
    RunsOnOwnStack
    LoopKeepsItsFrame
    UsageNeverTooLow
PROPERTIES
    ResumesAsItLeft
    FinishMarksItself
    TakesTurns
