SPECIFICATION FairSpec
CONSTANTS
    Documents <- MCDocuments
    Jobs <- MCJobs
    Deletions <- MCDeletions
    DocumentOf <- MCDocumentOf
    IngestJob <- MCIngestJob
    DeleteJob <- MCDeleteJob
    DocumentCount = 1
    Callers = {c1}
    MaxRetry = 0
    Absent = Absent
    Unparsable = {}
    Blank = {}
    MaxRequests = 2
    MaxKills = 0
    Kinds = {"upload", "delete"}
    Aborts = FALSE
PROPERTIES
    DeletionTerminates
CHECK_DEADLOCK FALSE
