SPECIFICATION FairQueueSpec
CONSTANTS
    Jobs <- MCJobs
    Deletions <- MCDeletions
    DocumentOf <- MCDocumentOf
    Callers = {c1}
    MaxRetry = 1
    Absent = Absent
    DeletionFirst = FALSE
    JobCount = 1
PROPERTIES
    InterruptedJobRepeated
