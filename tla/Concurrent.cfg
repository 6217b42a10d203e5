SPECIFICATION Spec
CONSTANTS
    Documents <- MCDocuments
    Jobs <- MCJobs
    Deletions <- MCDeletions
    DocumentOf <- MCDocumentOf
    IngestJob <- MCIngestJob
    DeleteJob <- MCDeleteJob
    DocumentCount = 1
    Callers = {c1, c2}
    MaxRetry = 1
    Absent = Absent
    Unparsable = {}
    Blank = {}
    MaxRequests = 3
    MaxKills = 2
    Kinds = {"upload", "reindex", "delete"}
    Aborts = TRUE
SYMMETRY CallerSymmetry
INVARIANTS
    IngestionTypeOK
    JobHasRecord
    ClaimKeepsManifest
    DeletedIsErased
    DerivedIsTraceable
PROPERTIES
    ReadyIsComplete
    OutcomeIsHonest
    DurableSpec
CHECK_DEADLOCK FALSE
