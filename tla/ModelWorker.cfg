\* Four submissions: one in the decision function, one that waits, one that
\* replaces it and one more after that.
CONSTANTS
    None = None
    Outcomes = {answer, failure}
    MaxSequence = 4
SPECIFICATION FairSpec
INVARIANT RequestsAccounted
PROPERTIES ImplementsAnswerStream PendingServed DestructorReturns
CHECK_DEADLOCK FALSE
