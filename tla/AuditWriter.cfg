\* A queue of two lines and five append calls, so that lines are dropped, a
\* batch is written while the next one fills, and writes fail part of the way.
CONSTANTS
    Capacity = 2
    MaxLines = 5
SPECIFICATION FairSpec
INVARIANTS CallsAccounted FileHasNoGap LossReported
PROPERTIES WriterProgresses
CHECK_DEADLOCK FALSE
