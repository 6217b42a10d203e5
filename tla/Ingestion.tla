------------------------------ MODULE Ingestion ------------------------------
(***************************************************************************)
(* The ingestion control plane: DocumentService's upload and delete        *)
(* requests in the API process (app/application/documents.py), the         *)
(* WorkerPipeline in the worker process (app/application/                  *)
(* worker_pipeline.py), and what they share: the lifecycle records in      *)
(* Qdrant (qdrant_documents.py), the document directories                  *)
(* (document_storage.py) and the job queue (ManifestQueue).                *)
(*                                                                         *)
(* Each await of a handler is a point where other requests and the other   *)
(* process run, so a set_status is two steps: the read that validates the  *)
(* transition, and the upsert of the copy.                                 *)
(***************************************************************************)
EXTENDS ManifestQueue, Lifecycle

CONSTANTS
    Documents,   \* document ids (hash of tenant, content, versions), positive numbers
    IngestJob,   \* ingestion_job_id(document)
    DeleteJob,   \* deletion_job_id(document)
    Unparsable,  \* documents whose parser raises ProcessingError
    Blank,       \* documents that parse to no chunk
    MaxRequests, \* bound: how many requests arrive in a behaviour
    Kinds,       \* the requests clients make: "upload", "reindex", "delete"
    Aborts,      \* requests can be cut short (timeout, API process dies)
    MaxKills     \* bound: how often the worker process is killed

ASSUME IngestionAssumption ==
    /\ Documents \subseteq Nat \ {0}
    /\ IngestJob \in [Documents -> Jobs]
    /\ DeleteJob \in [Documents -> Jobs]
    /\ \A d \in Documents : /\ IngestJob[d] \notin Deletions
                            /\ DeleteJob[d] \in Deletions
                            /\ DocumentOf[IngestJob[d]] = d
                            /\ DocumentOf[DeleteJob[d]] = d
    /\ \A j \in Jobs : /\ DocumentOf[j] \in Documents
                       /\ j \in {IngestJob[DocumentOf[j]], DeleteJob[DocumentOf[j]]}
    /\ MaxRequests \in Nat
    /\ Kinds \subseteq {"upload", "reindex", "delete"}
    /\ Aborts \in BOOLEAN /\ MaxKills \in Nat

VARIABLES
    record,   \* record[d]: the status in d's control record, or "none"
    stored,   \* stored[d]: what exists on disk for d ("root": its directory)
    request,  \* request[c]: the HTTP request that runs publish call c
    pipeline, \* process_one between claim_next and the queue's outcome
    arrived,  \* how many requests have arrived
    killed    \* how often the worker was killed

controlVars == <<record, stored, request, pipeline>>
bounds == <<arrived, killed>>
vars == <<queueVars, controlVars, bounds>>

Derived == {"elements", "chunks", "index"}
Artifacts == {"root", "source"} \cup Derived

RequestPC == {"idle", "lookup", "mkdir", "promote", "move", "accept",
              "check", "mark", "publish", "publishing"}
NoDocument == 0
IdleRequest == [pc |-> "idle", kind |-> "none", doc |-> NoDocument]

PipelinePC == {"none", "get", "put", "act", "rmtree", "purge", "outcome", "exit"}
Pipeline(pc, target) ==
    [pc |-> pc, target |-> target, todo |-> {}, exiting |-> FALSE]
NoPipeline == Pipeline("none", "none")

IngestionTypeOK ==
    /\ QueueTypeOK
    /\ record \in [Documents -> DocumentStatus \cup {"none"}]
    /\ stored \in [Documents -> SUBSET Artifacts]
    /\ request \in [Callers -> [pc : RequestPC, kind : Kinds \cup {"none"},
                                doc : Documents \cup {NoDocument}]]
    /\ pipeline \in [pc : PipelinePC, target : DocumentStatus \cup {"none"},
                     todo : SUBSET Artifacts, exiting : BOOLEAN]
    /\ arrived \in 0 .. MaxRequests
    /\ killed \in 0 .. MaxKills

Init ==
    /\ QueueInit
    /\ record = [d \in Documents |-> "none"]
    /\ stored = [d \in Documents |-> {}]
    /\ request = [c \in Callers |-> IdleRequest]
    /\ pipeline = NoPipeline
    /\ arrived = 0
    /\ killed = 0

-----------------------------------------------------------------------------
(* Requests.  What precedes the first shared state (authentication, scopes, *)
(* staging in quarantine, validation) has no effect on another request.     *)

Step(c, pc) == request' = [request EXCEPT ![c].pc = pc]
Respond(c) == request' = [request EXCEPT ![c] = IdleRequest]
SetRecord(d, status) == record' = [record EXCEPT ![d] = status]
Store(d, set) == stored' = [stored EXCEPT ![d] = @ \cup set]

Begin(c, kind, d) ==
    /\ request[c].pc = "idle" /\ arrived < MaxRequests
    /\ arrived' = arrived + 1
    /\ request' = [request EXCEPT ![c] = [pc |-> "lookup", kind |-> kind, doc |-> d]]
    /\ UNCHANGED <<queueVars, record, stored, pipeline, killed>>

\* upload: an existing document answers, unless it is deleted or forced.
UploadKnown(c) ==
    /\ request[c].pc = "lookup" /\ request[c].kind = "upload"
    /\ record[request[c].doc] \notin {"none", "deleted"}
    /\ Respond(c)
    /\ UNCHANGED <<queueVars, record, stored, pipeline, bounds>>

UploadNew(c) ==
    /\ request[c].pc = "lookup" /\ request[c].kind \in {"upload", "reindex"}
    /\ request[c].kind = "upload" => record[request[c].doc] \in {"none", "deleted"}
    /\ Step(c, "mkdir")
    /\ UNCHANGED <<queueVars, record, stored, pipeline, bounds>>

\* promote: mkdir, then keep an existing source or rename the staged file.
PromoteMkdir(c) ==
    /\ request[c].pc = "mkdir"
    /\ Store(request[c].doc, {"root"})
    /\ Step(c, "promote")
    /\ UNCHANGED <<queueVars, record, pipeline, bounds>>

\* The destination carries the suffix of the upload's name; with one name for a content
\* there is one source.
PromoteCheck(c) ==
    /\ request[c].pc = "promote"
    /\ Step(c, IF "source" \in stored[request[c].doc] THEN "accept" ELSE "move")
    /\ UNCHANGED <<queueVars, record, stored, pipeline, bounds>>

\* Mutant of PromoteMove: the job is published before the record is written.
PromoteMovePublishes(c) ==
    /\ request[c].pc = "move"
    /\ "root" \in stored[request[c].doc]
    /\ Store(request[c].doc, {"source"})
    /\ Step(c, "publish")
    /\ UNCHANGED <<queueVars, record, pipeline, bounds>>

PromoteMove(c) ==
    /\ request[c].pc = "move"
    /\ "root" \in stored[request[c].doc]
    /\ Store(request[c].doc, {"source"})
    /\ Step(c, "accept")
    /\ UNCHANGED <<queueVars, record, pipeline, bounds>>

\* A deletion has removed the directory: os.replace raises.
PromoteRaises(c) ==
    /\ request[c].pc = "move"
    /\ "root" \notin stored[request[c].doc]
    /\ Respond(c)
    /\ UNCHANGED <<queueVars, record, stored, pipeline, bounds>>

\* The new record is upserted over whatever is there.
Accept(c) ==
    /\ request[c].pc = "accept"
    /\ SetRecord(request[c].doc, "accepted")
    /\ Step(c, "publish")
    /\ UNCHANGED <<queueVars, stored, pipeline, bounds>>

\* delete: not found, or already deleting or deleted, answers at once.
DeleteDone(c) ==
    /\ request[c].pc = "lookup" /\ request[c].kind = "delete"
    /\ record[request[c].doc] \in {"none", "deleting", "deleted"}
    /\ Respond(c)
    /\ UNCHANGED <<queueVars, record, stored, pipeline, bounds>>

DeleteWanted(c) ==
    /\ request[c].pc = "lookup" /\ request[c].kind = "delete"
    /\ record[request[c].doc] \notin {"none", "deleting", "deleted"}
    /\ Step(c, "check")
    /\ UNCHANGED <<queueVars, record, stored, pipeline, bounds>>

\* set_status(DELETING): its own read, then the upsert.
DeleteCheck(c) ==
    /\ request[c].pc = "check"
    /\ IF CanTransition(record[request[c].doc], "deleting")
       THEN Step(c, "mark") ELSE Respond(c)
    /\ UNCHANGED <<queueVars, record, stored, pipeline, bounds>>

DeleteMark(c) ==
    /\ request[c].pc = "mark"
    /\ SetRecord(request[c].doc, "deleting")
    /\ Step(c, "publish")
    /\ UNCHANGED <<queueVars, stored, pipeline, bounds>>

BeginPublish(c) ==
    LET r == request[c] IN
    /\ r.pc = "publish"
    /\ PublishCall(c, IF r.kind = "delete" THEN DeleteJob[r.doc] ELSE IngestJob[r.doc],
                   r.kind = "reindex")
    /\ Step(c, "publishing")
    /\ UNCHANGED <<record, stored, pipeline, bounds>>

\* The request ends when its publish call returns or raises.
PublishStep(c) ==
    /\ request[c].pc = "publishing"
    /\ CallStep(c)
    /\ IF call'[c].pc = "idle" THEN Respond(c) ELSE UNCHANGED request
    /\ UNCHANGED <<record, stored, pipeline, bounds>>

\* The request is cut short between two of its steps.
Abort(c) ==
    /\ Aborts /\ request[c].pc # "idle"
    /\ Respond(c)
    /\ Abandon(c)
    /\ UNCHANGED <<record, stored, pipeline, bounds>>

RequestStep(c) ==
    \/ UploadKnown(c) \/ UploadNew(c)
    \/ PromoteMkdir(c) \/ PromoteCheck(c) \/ PromoteMove(c) \/ PromoteRaises(c)
    \/ Accept(c)
    \/ DeleteDone(c) \/ DeleteWanted(c) \/ DeleteCheck(c) \/ DeleteMark(c)
    \/ BeginPublish(c) \/ PublishStep(c)

-----------------------------------------------------------------------------
(* The worker.                                                              *)

Subject == DocumentOf[worker.job]
\* Mutant of Raise: _mark_failed asks for a status that does not exist.
RaiseUnknownStatus == pipeline' = Pipeline("get", "error")

Raise == pipeline' = Pipeline("get", "failed")

\* Recovery and the claim, up to the return of claim_next.
ClaimStep ==
    /\ pipeline.pc = "none"
    /\ \/ Start \/ RecoverUnlink \/ RecoverDone \/ ListPending \/ StampRaises
       \/ \E j \in Jobs : \/ RecoverSkip(j) \/ RecoverWrite(j) \/ RecoverRaises(j)
                          \/ ClaimMove(j)
    /\ UNCHANGED <<record, stored, request, pipeline, bounds>>

\* Mutant of BeginJob: a deletion sets DELETED before it removes anything.
BeginJobStatusFirst ==
    /\ StampClaim
    /\ pipeline' = IF worker.job \in Deletions
                   THEN Pipeline("get", "deleted")
                   ELSE Pipeline("get", "parsing")
    /\ UNCHANGED <<record, stored, request, bounds>>

BeginJob ==
    /\ StampClaim
    /\ pipeline' = IF worker.job \in Deletions
                   THEN Pipeline("rmtree", "deleted")
                   ELSE Pipeline("get", "parsing")
    /\ UNCHANGED <<record, stored, request, bounds>>

\* set_status: read, require_transition.  No job exists without a record
\* (JobHasRecord), so the early return on a missing record is never taken.
StatusValid ==
    /\ pipeline.pc = "get"
    /\ CanTransition(record[Subject], pipeline.target)
    /\ pipeline' = [pipeline EXCEPT !.pc = "put"]
    /\ UNCHANGED <<queueVars, record, stored, request, bounds>>

\* Mutant of StatusInvalid: the error is swallowed and the job goes on.
StatusInvalidIgnored ==
    /\ pipeline.pc = "get"
    /\ ~CanTransition(record[Subject], pipeline.target)
    /\ pipeline' = [pipeline EXCEPT !.pc =
                      IF pipeline.target \in {"parsing", "chunking", "indexing"}
                      THEN "act" ELSE "outcome"]
    /\ UNCHANGED <<queueVars, record, stored, request, bounds>>

\* ValueError: _mark_failed follows, and when that is what raises, the job
\* still goes to failed/ (finally) and the exception ends the process.
StatusInvalid ==
    /\ pipeline.pc = "get"
    /\ ~CanTransition(record[Subject], pipeline.target)
    /\ IF pipeline.target = "failed"
       THEN pipeline' = [pipeline EXCEPT !.pc = "outcome", !.exiting = TRUE]
       ELSE Raise
    /\ UNCHANGED <<queueVars, record, stored, request, bounds>>

StatusPut ==
    /\ pipeline.pc = "put"
    /\ SetRecord(Subject, pipeline.target)
    /\ pipeline' = [pipeline EXCEPT !.pc =
                      IF pipeline.target \in {"parsing", "chunking", "indexing"}
                      THEN "act" ELSE "outcome"]
    /\ UNCHANGED <<queueVars, stored, request, bounds>>

Produces(artifact, next) ==
    /\ Store(Subject, {"root", artifact})
    /\ pipeline' = Pipeline("get", next)

\* Mutant of Parse: elements are persisted without the source being read.
ParseUnread ==
    /\ pipeline.pc = "act" /\ pipeline.target = "parsing"
    /\ Subject \notin Unparsable
    /\ Produces("elements", "chunking")
    /\ UNCHANGED <<queueVars, record, request, bounds>>

\* parser.parse and persist_parsed.
Parse ==
    /\ pipeline.pc = "act" /\ pipeline.target = "parsing"
    /\ "source" \in stored[Subject] /\ Subject \notin Unparsable
    /\ Produces("elements", "chunking")
    /\ UNCHANGED <<queueVars, record, request, bounds>>

ParseRaises ==
    /\ pipeline.pc = "act" /\ pipeline.target = "parsing"
    /\ "source" \notin stored[Subject] \/ Subject \in Unparsable
    /\ Raise
    /\ UNCHANGED <<queueVars, record, stored, request, bounds>>

\* Mutant of ChunkText: the chunks are not persisted.
ChunkTextUnsaved ==
    /\ pipeline.pc = "act" /\ pipeline.target = "chunking"
    /\ Subject \notin Blank
    /\ pipeline' = Pipeline("get", "indexing")
    /\ UNCHANGED <<queueVars, record, stored, request, bounds>>

\* Mutant of ChunkText: a document without chunks is accepted.
ChunkTextEmpty ==
    /\ pipeline.pc = "act" /\ pipeline.target = "chunking"
    /\ Produces("chunks", "indexing")
    /\ UNCHANGED <<queueVars, record, request, bounds>>

\* chunker.chunk and persist_chunks.
ChunkText ==
    /\ pipeline.pc = "act" /\ pipeline.target = "chunking"
    /\ Subject \notin Blank
    /\ Produces("chunks", "indexing")
    /\ UNCHANGED <<queueVars, record, request, bounds>>

ChunkRaises ==
    /\ pipeline.pc = "act" /\ pipeline.target = "chunking"
    /\ Subject \in Blank
    /\ Raise
    /\ UNCHANGED <<queueVars, record, stored, request, bounds>>

\* persist_index_manifest.
WriteIndex ==
    /\ pipeline.pc = "act" /\ pipeline.target = "indexing"
    /\ Produces("index", "ready")
    /\ UNCHANGED <<queueVars, record, request, bounds>>

\* delete_document: rmtree lists the directory, unlinks what it listed one by
\* one, and removes the directory, which raises if a file has come in since.
RmtreeList ==
    /\ pipeline.pc = "rmtree" /\ pipeline.todo = {}
    /\ pipeline' = IF "root" \in stored[Subject]
                   THEN [pipeline EXCEPT !.todo = stored[Subject]]
                   ELSE [pipeline EXCEPT !.pc = "purge"]
    /\ UNCHANGED <<queueVars, record, stored, request, bounds>>

RmtreeUnlink ==
    /\ pipeline.pc = "rmtree"
    /\ \E a \in pipeline.todo \ {"root"} :
          /\ stored' = [stored EXCEPT ![Subject] = @ \ {a}]
          /\ pipeline' = [pipeline EXCEPT !.todo = @ \ {a}]
    /\ UNCHANGED <<queueVars, record, request, bounds>>

RmtreeRmdir ==
    /\ pipeline.pc = "rmtree" /\ pipeline.todo = {"root"}
    /\ IF stored[Subject] = {"root"}
       THEN /\ stored' = [stored EXCEPT ![Subject] = {}]
            /\ pipeline' = Pipeline("purge", "deleted")
       ELSE /\ Raise
            /\ UNCHANGED stored
    /\ UNCHANGED <<queueVars, record, request, bounds>>

\* remove_for_document.
PurgeStep ==
    /\ pipeline.pc = "purge"
    /\ BeginPurge \/ PurgeNextDirectory \/ \E j \in Jobs : PurgeOne(j)
    /\ UNCHANGED <<record, stored, request, pipeline, bounds>>

PurgeReturns ==
    /\ PurgeDone
    /\ pipeline' = Pipeline("get", "deleted")
    /\ UNCHANGED <<record, stored, request, bounds>>

PurgeFails ==
    /\ \E j \in Jobs : PurgeRaises(j)
    /\ Raise
    /\ UNCHANGED <<record, stored, request, bounds>>

\* queue.complete after the last status, queue.fail after _mark_failed.
Settle ==
    /\ pipeline.pc = "outcome"
    /\ IF pipeline.target = "failed" THEN FailWrite ELSE CompleteWrite
    /\ UNCHANGED <<record, stored, request, pipeline, bounds>>

EndJob ==
    /\ Release
    /\ pipeline' = IF pipeline.exiting THEN Pipeline("exit", "none") ELSE NoPipeline
    /\ UNCHANGED <<record, stored, request, bounds>>

\* The exception of _mark_failed has left process_one.
Exit ==
    /\ pipeline.pc = "exit"
    /\ Crash
    /\ pipeline' = NoPipeline
    /\ UNCHANGED <<record, stored, request, bounds>>

Kill ==
    /\ killed < MaxKills
    /\ killed' = killed + 1
    /\ Crash
    /\ pipeline' = NoPipeline
    /\ UNCHANGED <<record, stored, request, arrived>>

PipelineStep ==
    \/ ClaimStep \/ BeginJob
    \/ StatusValid \/ StatusInvalid \/ StatusPut
    \/ Parse \/ ParseRaises \/ ChunkText \/ ChunkRaises \/ WriteIndex
    \/ RmtreeList \/ RmtreeUnlink \/ RmtreeRmdir
    \/ PurgeStep \/ PurgeReturns \/ PurgeFails
    \/ Settle \/ EndJob \/ Exit

Ageing ==
    /\ \E j \in Jobs : Age(j)
    /\ UNCHANGED <<controlVars, bounds>>

-----------------------------------------------------------------------------

BeginRequest(c) == \E kind \in Kinds, d \in Documents : Begin(c, kind, d)

Next ==
    \/ \E c \in Callers : BeginRequest(c) \/ RequestStep(c) \/ Abort(c)
    \/ PipelineStep
    \/ Kill
    \/ Ageing

Spec == Init /\ [][Next]_vars

\* As for the queue: both processes keep executing, the worker is restarted.
Fairness ==
    /\ WF_vars(PipelineStep)
    /\ \A c \in Callers : WF_vars(RequestStep(c))

FairSpec == Spec /\ Fairness

-----------------------------------------------------------------------------
(* Properties *)

\* A job is only ever published after its document's record was written, so
\* the worker never runs set_status's silent return on a missing record.
JobHasRecord ==
    \A d \in Documents :
        record[d] = "none" =>
            \A j \in {IngestJob[d], DeleteJob[d]} :
                pending[j] = Absent /\ processing[j] = Absent

\* A worker commits `ready` only while source, elements, chunks and index
\* manifest are all on disk, in whatever order uploads, deletions, crashes and
\* redeliveries came before.
ReadyIsComplete ==
    [][\A d \in Documents :
          record[d] # "ready" /\ record'[d] = "ready" => stored[d] = Artifacts]_vars

\* Once a document is `deleted` none of its derived text is left on disk, also
\* after lost updates, a half-done rmtree, a crash or a racing upload.
DeletedIsErased ==
    \A d \in Documents : record[d] = "deleted" => stored[d] \cap Derived = {}

\* Derived artifacts have the source and the earlier artifacts they came from
\* beside them, unless a deletion that will remove them is still live.
DerivedIsTraceable ==
    \A d \in Documents :
        DeleteJob[d] \notin Live =>
            /\ "elements" \in stored[d] => "source" \in stored[d]
            /\ "chunks" \in stored[d] => "elements" \in stored[d]
            /\ "index" \in stored[d] => "chunks" \in stored[d]

\* What the queue records agrees with the document: an ingest job is completed
\* only over a full set of artifacts, with the status the worker gave it or one
\* a later request put over it, and a deletion only over an erased document.
OutcomeIsHonest ==
    [][\A d \in Documents :
          /\ IngestJob[d] \in completed' \ completed =>
                stored[d] = Artifacts /\ record[d] \in {"ready", "accepted", "deleting"}
          /\ DeleteJob[d] \in completed' \ completed =>
                stored[d] \cap Derived = {} /\ record[d] \in {"deleted", "accepted", "deleting"}]_vars

\* An accepted document has a manifest that will move it on, or a request that
\* is about to publish one.
AcceptedIsQueued ==
    \A d \in Documents :
        record[d] = "accepted" =>
            \/ IngestJob[d] \in Live
            \/ \E c \in Callers : request[c].doc = d /\ request[c].pc \in {"publish", "publishing"}

\* What ingestion makes of a document's content.
Outcome(d) == IF d \in Unparsable \cup Blank THEN "failed" ELSE "ready"

\* An accepted document ends ready or failed, as its content deserves, unless
\* its deletion begins.
AcceptedIsSettled ==
    \A d \in Documents :
        record[d] = "accepted" ~> record[d] \in {Outcome(d), "deleting", "deleted"}

\* ids.py: "Identify the one idempotent deletion workflow for a
\* document."  When publish returns to a deletion, without raising, and the
\* document is still to be deleted as the request is about to answer, the job
\* is pending or claimed.
DeletionIsQueued ==
    [][\A c \in Callers :
          LET d == request[c].doc
          IN  /\ request[c].kind = "delete" /\ (ReadCoalesced(c) \/ WritePending(c))
              /\ record[d] = "deleting"
              => DeleteJob[d] \in Live']_vars

\* ARCHITECTURE.md: "Indexing is at-least-once and idempotent."  With sound
\* content and no deletion the ingest job never ends in failed/.
RedeliveryIsIdempotent ==
    \A d \in Documents : Outcome(d) = "ready" => IngestJob[d] \notin failed

\* THREAT_MODEL.md: deletion "reaches a verified terminal lifecycle state".
DeletionTerminates ==
    \A d \in Documents : record[d] = "deleting" ~> record[d] = "deleted"
=============================================================================
