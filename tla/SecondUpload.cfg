SPECIFICATION Spec
CONSTANTS
    Documents <- MCDocuments
    Jobs <- MCJobs
    Deletions <- MCDeletions
    DocumentOf <- MCDocumentOf
    IngestJob <- MCIngestJob
    DeleteJob <- MCDeleteJob
    DocumentCount = 1
    Callers = {c1, c2}
    MaxRetry = 0
    Absent = Absent
    Unparsable = {}
    Blank = {}
    MaxRequests = 2
    MaxKills = 0
    Kinds = {"upload"}
    Aborts = FALSE
INVARIANTS
    AcceptedIsQueued
CHECK_DEADLOCK FALSE
