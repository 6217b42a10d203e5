SPECIFICATION Spec
CONSTANTS
    Documents <- MCDocuments
    Jobs <- MCJobs
    Deletions <- MCDeletions
    DocumentOf <- MCDocumentOf
    IngestJob <- MCIngestJob
    DeleteJob <- MCDeleteJob
    DocumentCount = 1
    Callers = {c1}
    MaxRetry = 1
    Absent = Absent
    Unparsable = {}
    Blank = {}
    MaxRequests = 1
    MaxKills = 1
    Kinds = {"upload"}
    Aborts = FALSE
INVARIANTS
    RedeliveryIsIdempotent
CHECK_DEADLOCK FALSE
