SPECIFICATION QueueSpec
CONSTANTS
    Queue = {wait, ready}
    Tcb = {t1, t2, t3, t4}
    NULL = NULL
INVARIANT
    WellLinked
PROPERTY
    ImplementsSequences
