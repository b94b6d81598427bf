\* What the measure of a painted stack reports, against the measure spelled out
\* in the comment of stat.c.
SPECIFICATION Spec
CONSTANTS
    Tasks = {t1, t2}
    Main = Main
    Null = Null
    Words = 11
INVARIANT UsageIsExact
