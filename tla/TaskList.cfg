\* Up to four live tasks at a time, created by main or by a task, in any of the
\* three builds.
SPECIFICATION Spec
CONSTANTS
    Items = {i1, i2, i3, i4}
    Null = Null
    Discipline = TRUE
INVARIANTS
    TypeInv
    ListHoldsLiveTasks
    ChooseNeverSpins
    FinishedIsCurrent
PROPERTIES
    TakesTurns
    TurnsGoOn
    EveryTaskRuns
