\* Two events, so that the model is asked twice over one connection, and two
\* signals at any time on any threads: the second may come when the first has
\* already stopped the feed.
CONSTANTS
    None = None
    MaxEvents = 2
    MaxSignals = 2
    MaxDelay = 3
SPECIFICATION ProcessSpec
INVARIANTS NothingUsedAfterDestruction AnswersOwnQuestion
PROPERTIES StopEndsProcess
CHECK_DEADLOCK FALSE
