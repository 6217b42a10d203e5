SPECIFICATION QueueSpec
CONSTANTS
    Jobs <- MCJobs
    Deletions <- MCDeletions
    DocumentOf <- MCDocumentOf
    Callers = {c1}
    MaxRetry = 2
    Absent = Absent
    DeletionFirst = FALSE
    JobCount = 1
INVARIANTS
    ExhaustedJobsLeave
