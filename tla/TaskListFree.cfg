\* Tasks that create tasks and may finish in the same turn.
SPECIFICATION Spec
CONSTANTS
    Items = {i1, i2, i3, i4}
    Null = Null
    Discipline = FALSE
PROPERTIES
    OnlyCreatorsAreStranded
\* with a freed node at the head the model stops: choose_task would read it
CHECK_DEADLOCK FALSE
