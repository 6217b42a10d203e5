SPECIFICATION FairSpec
CONSTANTS
    Documents <- MCDocuments
    Jobs <- MCJobs
    Deletions <- MCDeletions
    DocumentOf <- MCDocumentOf
    IngestJob <- MCIngestJob
    DeleteJob <- MCDeleteJob
    DocumentCount = 2
    Callers = {c1}
    MaxRetry = 0
    Absent = Absent
    Unparsable = {}
    Blank = {2}
    MaxRequests = 4
    MaxKills = 0
    Kinds = {"upload", "delete"}
    Aborts = FALSE
INVARIANTS
    AcceptedIsQueued
PROPERTIES
    AcceptedIsSettled
CHECK_DEADLOCK FALSE
