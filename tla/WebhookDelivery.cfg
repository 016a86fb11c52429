\* One notification, contended by its immediate sender and two overlapping runs
\* of the task.
SPECIFICATION FairSpec
CONSTANTS
    n1 = n1
    t1 = t1
    t2 = t2
    Notifications = {n1}
    TaskRuns = {t1, t2}
    NoJob = NoJob
    MaxAttempts = 3
    Interval = 1
    Factor = 2
    MaxLate = 1
    MaxFaults = 2
INVARIANTS
    NeverAnnouncedEarly
    RowOrFinalEntry
    TxChangeIsAnnounced
    AttemptsBounded
    DeliveredWasAccepted
    IInv
PROPERTIES
    EventuallySettled
    ImplementsContract
CHECK_DEADLOCK FALSE
