SPECIFICATION FairQueueSpec
CONSTANTS
    Jobs <- MCJobs
    Deletions <- MCDeletions
    DocumentOf <- MCDocumentOf
    Callers = {c1}
    MaxRetry = 1
    Absent = Absent
    DeletionFirst = TRUE
    JobCount = 2
INVARIANTS
    QueueTypeOK
    QueueInv
PROPERTIES
    DurableSpec
    PendingIsClaimed
    StaleClaimRecovered
