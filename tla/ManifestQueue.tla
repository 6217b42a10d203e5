---------------------------- MODULE ManifestQueue ----------------------------
(***************************************************************************)
(* The filesystem job queue of app/infrastructure/filesystem/              *)
(* manifest_queue.py: one JSON manifest per job, kept in one of the four   *)
(* directories pending, processing, completed, failed.  The API process    *)
(* publishes (any number of concurrent requests), the single worker        *)
(* process claims, settles, purges and, when it starts, recovers.          *)
(*                                                                         *)
(* A step of this module is the code between two awaits, or one of several *)
(* file operations between which the other process can run.  A manifest    *)
(* write (_write_atomic: temporary name, fsync, rename) is one step, which *)
(* is what it is for a single writer of the destination.                   *)
(***************************************************************************)
EXTENDS Naturals, FiniteSets

CONSTANTS
    Jobs,        \* job ids: positive numbers, so that sorted(glob) is <
    Deletions,   \* the jobs whose operation is DELETE
    DocumentOf,  \* the document a job id is derived from
    Callers,     \* the publish() calls that can be active at once
    MaxRetry,    \* le= of retry_count in IngestionJobState (100)
    Absent       \* "no such file"

ASSUME QueueAssumption ==
    /\ Jobs \subseteq Nat \ {0}
    /\ Deletions \subseteq Jobs
    /\ MaxRetry \in Nat

NoJob == 0

\* _STATE_DIRECTORIES, in the order _find and remove_for_document visit them.
StateDirectories == <<"pending", "processing", "completed", "failed">>

\* What the queue's own code reads of a manifest: how often the job was
\* recovered, and whether updated_at is manifest_stale_seconds in the past.
Manifest == [retry : 0 .. MaxRetry + 1, old : BOOLEAN]

ASSUME AbsentAssumption == Absent \notin Manifest

VARIABLES
    pending,     \* pending[j]: the manifest in pending/, or Absent
    processing,  \* processing[j]: the manifest in processing/, or Absent
    completed,   \* jobs with a file in completed/
    failed,      \* jobs with a file in failed/
    call,        \* call[c]: the publish() call c is executing
    worker       \* the worker process, as far as the queue is concerned

files == <<pending, processing, completed, failed>>
queueVars == <<pending, processing, completed, failed, call, worker>>

CallPC == {"idle", "find", "read", "unlink", "write"}
Call == [pc : CallPC, job : Jobs \cup {NoJob}, replace : BOOLEAN, at : 1 .. 4]
IdleCall == [pc |-> "idle", job |-> NoJob, replace |-> FALSE, at |-> 1]

\* The pcs at which process_one owns a claimed job.
Holding == {"stamp", "working", "purge", "purged", "failing", "settled"}
WorkerPC == {"down", "recover", "recovered", "idle", "claim"} \cup Holding
Worker == [pc : WorkerPC, job : Jobs \cup {NoJob}, todo : SUBSET Jobs, at : 1 .. 4]
WorkerAt(pc) == [pc |-> pc, job |-> NoJob, todo |-> {}, at |-> 1]
WorkerOn(pc, j) == [WorkerAt(pc) EXCEPT !.job = j]

QueueTypeOK ==
    /\ pending \in [Jobs -> Manifest \cup {Absent}]
    /\ processing \in [Jobs -> Manifest \cup {Absent}]
    /\ completed \subseteq Jobs
    /\ failed \subseteq Jobs
    /\ call \in [Callers -> Call]
    /\ worker \in Worker

QueueInit ==
    /\ pending = [j \in Jobs |-> Absent]
    /\ processing = [j \in Jobs |-> Absent]
    /\ completed = {}
    /\ failed = {}
    /\ call = [c \in Callers |-> IdleCall]
    /\ worker = WorkerAt("down")

Fresh(n) == [retry |-> n, old |-> FALSE]

\* path.exists() for job j in the d-th directory.
Exists(d, j) ==
    \/ d = 1 /\ pending[j] # Absent
    \/ d = 2 /\ processing[j] # Absent
    \/ d = 3 /\ j \in completed
    \/ d = 4 /\ j \in failed

Listing(d) == {j \in Jobs : Exists(d, j)}

\* Mutant of Readable: no le= on retry_count.
ReadableUnvalidated(d, j) == Exists(d, j)

\* _read succeeds: the file is still there and retry_count passes validation
\* (recover_stale's model_copy writes retry_count + 1 unvalidated).
Readable(d, j) ==
    /\ Exists(d, j)
    /\ d = 1 => pending[j].retry <= MaxRetry
    /\ d = 2 => processing[j].retry <= MaxRetry

-----------------------------------------------------------------------------
(* publish(job, replace_completed), run by request c in the API process.   *)

Advance(c, pc) == call' = [call EXCEPT ![c].pc = pc]
Return(c) == call' = [call EXCEPT ![c] = IdleCall]

\* Only uploads publish with replace_completed.
PublishCall(c, j, replace) ==
    /\ call[c].pc = "idle"
    /\ replace => j \notin Deletions
    /\ call' = [call EXCEPT ![c] =
                  [pc |-> "find", job |-> j, replace |-> replace, at |-> 1]]
    /\ UNCHANGED <<files, worker>>

\* One path.exists() of _find: the worker can rename between two of them.
FindHit(c) ==
    /\ call[c].pc = "find"
    /\ Exists(call[c].at, call[c].job)
    /\ Advance(c, "read")
    /\ UNCHANGED <<files, worker>>

FindMiss(c) ==
    /\ call[c].pc = "find"
    /\ ~Exists(call[c].at, call[c].job)
    /\ IF call[c].at < 4 THEN call' = [call EXCEPT ![c].at = @ + 1]
                         ELSE Advance(c, "write")
    /\ UNCHANGED <<files, worker>>

\* The directory in which an existing manifest makes publish return at once.
Coalesces(c) == call[c].at \in {1, 2} \/ (call[c].at = 3 /\ ~call[c].replace)

ReadCoalesced(c) ==
    /\ call[c].pc = "read"
    /\ Readable(call[c].at, call[c].job)
    /\ Coalesces(c)
    /\ Return(c)
    /\ UNCHANGED <<files, worker>>

\* The file _find saw was moved or removed before it was read: publish raises.
ReadRaises(c) ==
    /\ call[c].pc = "read"
    /\ ~Readable(call[c].at, call[c].job)
    /\ Return(c)
    /\ UNCHANGED <<files, worker>>

ReadSuperseded(c) ==
    /\ call[c].pc = "read"
    /\ Readable(call[c].at, call[c].job)
    /\ ~Coalesces(c)
    /\ Advance(c, "unlink")
    /\ UNCHANGED <<files, worker>>

UnlinkExisting(c) ==
    /\ call[c].pc = "unlink"
    /\ completed' = IF call[c].at = 3 THEN completed \ {call[c].job} ELSE completed
    /\ failed' = IF call[c].at = 4 THEN failed \ {call[c].job} ELSE failed
    /\ Advance(c, "write")
    /\ UNCHANGED <<pending, processing, worker>>

WritePending(c) ==
    /\ call[c].pc = "write"
    /\ pending' = [pending EXCEPT ![call[c].job] = Fresh(0)]
    /\ Return(c)
    /\ UNCHANGED <<processing, completed, failed, worker>>

\* The request is cancelled (request_timeout_seconds) or the API process dies.
Abandon(c) ==
    /\ Return(c)
    /\ UNCHANGED <<files, worker>>

CallStep(c) ==
    \/ FindHit(c) \/ FindMiss(c)
    \/ ReadCoalesced(c) \/ ReadRaises(c) \/ ReadSuperseded(c)
    \/ UnlinkExisting(c) \/ WritePending(c)

-----------------------------------------------------------------------------
(* The worker: recover_stale at start, then claim_next and its outcome.    *)

Start ==
    /\ worker.pc = "down"
    /\ worker' = [WorkerAt("recover") EXCEPT !.todo = Listing(2)]
    /\ UNCHANGED <<files, call>>

\* Mutant of RecoverSkip: the age is not compared.
RecoverSkipAny(j) ==
    /\ worker.pc = "recover" /\ j \in worker.todo
    /\ Readable(2, j)
    /\ worker' = [worker EXCEPT !.todo = @ \ {j}]
    /\ UNCHANGED <<files, call>>

RecoverSkip(j) ==
    /\ worker.pc = "recover" /\ j \in worker.todo
    /\ Readable(2, j) /\ ~processing[j].old
    /\ worker' = [worker EXCEPT !.todo = @ \ {j}]
    /\ UNCHANGED <<files, call>>

RecoverWrite(j) ==
    /\ worker.pc = "recover" /\ j \in worker.todo
    /\ Readable(2, j) /\ processing[j].old
    /\ pending' = [pending EXCEPT ![j] = Fresh(processing[j].retry + 1)]
    /\ worker' = [worker EXCEPT !.pc = "recovered", !.job = j, !.todo = @ \ {j}]
    /\ UNCHANGED <<processing, completed, failed, call>>

RecoverUnlink ==
    /\ worker.pc = "recovered"
    /\ processing' = [processing EXCEPT ![worker.job] = Absent]
    /\ worker' = [worker EXCEPT !.pc = "recover", !.job = NoJob]
    /\ UNCHANGED <<pending, completed, failed, call>>

\* A manifest that fails validation makes startup itself raise.
RecoverRaises(j) ==
    /\ worker.pc = "recover" /\ j \in worker.todo
    /\ ~Readable(2, j)
    /\ worker' = WorkerAt("down")
    /\ UNCHANGED <<files, call>>

RecoverDone ==
    /\ worker.pc = "recover" /\ worker.todo = {}
    /\ worker' = WorkerAt("idle")
    /\ UNCHANGED <<files, call>>

\* Mutant of ListPending: nothing is claimed while processing/ is not empty.
ListPendingExclusive ==
    /\ worker.pc = "idle" /\ Listing(1) # {} /\ Listing(2) = {}
    /\ worker' = [WorkerAt("claim") EXCEPT !.todo = Listing(1)]
    /\ UNCHANGED <<files, call>>

\* claim_next: the sorted glob; with nothing pending the worker polls again.
ListPending ==
    /\ worker.pc = "idle" /\ Listing(1) # {}
    /\ worker' = [WorkerAt("claim") EXCEPT !.todo = Listing(1)]
    /\ UNCHANGED <<files, call>>

\* os.replace of the first name listed.  The worker is the only process that
\* removes files from pending/, so the file is there (QueueInv below).
ClaimMove(j) ==
    /\ worker.pc = "claim" /\ j \in worker.todo
    /\ \A k \in worker.todo : j <= k
    /\ pending[j] # Absent
    /\ processing' = [processing EXCEPT ![j] = pending[j]]
    /\ pending' = [pending EXCEPT ![j] = Absent]
    /\ worker' = WorkerOn("stamp", j)
    /\ UNCHANGED <<completed, failed, call>>

\* Read the moved manifest and write it back with a new updated_at.
StampClaim ==
    /\ worker.pc = "stamp"
    /\ Readable(2, worker.job)
    /\ processing' = [processing EXCEPT ![worker.job] =
                        Fresh(processing[worker.job].retry)]
    /\ worker' = [worker EXCEPT !.pc = "working"]
    /\ UNCHANGED <<pending, completed, failed, call>>

\* The read raises outside process_one's try: the worker process ends.
StampRaises ==
    /\ worker.pc = "stamp"
    /\ ~Readable(2, worker.job)
    /\ worker' = WorkerAt("down")
    /\ UNCHANGED <<files, call>>

\* remove_for_document(document, skip_job_id = the deletion's own id).
BeginPurge ==
    /\ worker.pc = "working" /\ worker.job \in Deletions
    /\ worker' = [worker EXCEPT !.pc = "purge",
                                !.todo = Listing(1) \ {worker.job}]
    /\ UNCHANGED <<files, call>>

Unlinked(d, j, f) == [f EXCEPT ![j] = IF d THEN Absent ELSE @]

\* Mutant of PurgeOne: every listed manifest goes, whatever its document.
PurgeOneAnyDocument(j) ==
    /\ worker.pc = "purge" /\ j \in worker.todo
    /\ Readable(worker.at, j)
    /\ pending' = Unlinked(worker.at = 1, j, pending)
    /\ processing' = Unlinked(worker.at = 2, j, processing)
    /\ completed' = completed \ {k \in {j} : worker.at = 3}
    /\ failed' = failed \ {k \in {j} : worker.at = 4}
    /\ worker' = [worker EXCEPT !.todo = @ \ {j}]
    /\ UNCHANGED call

PurgeOne(j) ==
    /\ worker.pc = "purge" /\ j \in worker.todo
    /\ Readable(worker.at, j)
    /\ LET same == DocumentOf[j] = DocumentOf[worker.job]
       IN  /\ pending' = Unlinked(same /\ worker.at = 1, j, pending)
           /\ processing' = Unlinked(same /\ worker.at = 2, j, processing)
           /\ completed' = completed \ {k \in {j} : same /\ worker.at = 3}
           /\ failed' = failed \ {k \in {j} : same /\ worker.at = 4}
    /\ worker' = [worker EXCEPT !.todo = @ \ {j}]
    /\ UNCHANGED call

\* Mutant of PurgeNextDirectory: without skip_job_id.
PurgeNextDirectoryNoSkip ==
    /\ worker.pc = "purge" /\ worker.todo = {} /\ worker.at < 4
    /\ worker' = [worker EXCEPT !.at = @ + 1, !.todo = Listing(worker.at + 1)]
    /\ UNCHANGED <<files, call>>

PurgeNextDirectory ==
    /\ worker.pc = "purge" /\ worker.todo = {} /\ worker.at < 4
    /\ worker' = [worker EXCEPT !.at = @ + 1,
                                !.todo = Listing(worker.at + 1) \ {worker.job}]
    /\ UNCHANGED <<files, call>>

PurgeDone ==
    /\ worker.pc = "purge" /\ worker.todo = {} /\ worker.at = 4
    /\ worker' = WorkerOn("purged", worker.job)
    /\ UNCHANGED <<files, call>>

\* A listed manifest was unlinked by a publisher, or fails validation.
PurgeRaises(j) ==
    /\ worker.pc = "purge" /\ j \in worker.todo
    /\ ~Readable(worker.at, j)
    /\ worker' = WorkerOn("failing", worker.job)
    /\ UNCHANGED <<files, call>>

\* Mutant of CompleteWrite: _finish unlinks the claim before the outcome exists.
CompleteUnlinkFirst ==
    /\ worker.pc = IF worker.job \in Deletions THEN "purged" ELSE "working"
    /\ processing' = [processing EXCEPT ![worker.job] = Absent]
    /\ worker' = [worker EXCEPT !.pc = "settled"]
    /\ UNCHANGED <<pending, completed, failed, call>>

\* complete and fail are _finish: write the outcome, then unlink the claim.
CompleteWrite ==
    /\ worker.pc = IF worker.job \in Deletions THEN "purged" ELSE "working"
    /\ completed' = completed \cup {worker.job}
    /\ worker' = [worker EXCEPT !.pc = "settled"]
    /\ UNCHANGED <<pending, processing, failed, call>>

FailWrite ==
    /\ worker.pc \in {"working", "purged", "failing"}
    /\ failed' = failed \cup {worker.job}
    /\ worker' = [worker EXCEPT !.pc = "settled"]
    /\ UNCHANGED <<pending, processing, completed, call>>

Release ==
    /\ worker.pc = "settled"
    /\ processing' = [processing EXCEPT ![worker.job] = Absent]
    /\ worker' = WorkerAt("idle")
    /\ UNCHANGED <<pending, completed, failed, call>>

WorkerStep ==
    \/ Start \/ RecoverUnlink \/ RecoverDone
    \/ \E j \in Jobs : RecoverSkip(j) \/ RecoverWrite(j) \/ RecoverRaises(j)
    \/ ListPending \/ \E j \in Jobs : ClaimMove(j)
    \/ StampClaim \/ StampRaises
    \/ BeginPurge \/ PurgeNextDirectory \/ PurgeDone
    \/ \E j \in Jobs : PurgeOne(j) \/ PurgeRaises(j)
    \/ CompleteWrite \/ FailWrite \/ Release

\* Kill, power loss, or an exception that leaves the worker's event loop.
Crash ==
    /\ worker.pc # "down"
    /\ worker' = WorkerAt("down")
    /\ UNCHANGED <<files, call>>

-----------------------------------------------------------------------------
(* manifest_stale_seconds have passed for a manifest in processing/.  Only  *)
(* recover_stale looks, against the one `now` it takes when the worker      *)
(* starts, so the time that passed is accounted for while the worker is     *)
(* down, whenever it passed.                                                *)

Age(j) ==
    /\ worker.pc = "down" /\ processing[j] # Absent /\ ~processing[j].old
    /\ processing' = [processing EXCEPT ![j].old = TRUE]
    /\ UNCHANGED <<pending, completed, failed, call, worker>>

-----------------------------------------------------------------------------

Publish(c) == \E j \in Jobs, replace \in BOOLEAN : PublishCall(c, j, replace)

QueueNext ==
    \/ \E c \in Callers : Publish(c) \/ CallStep(c) \/ Abandon(c)
    \/ WorkerStep
    \/ Crash
    \/ \E j \in Jobs : Age(j)

QueueSpec == QueueInit /\ [][QueueNext]_queueVars

\* A live process keeps executing; compose restarts the worker whenever it
\* ends (restart: unless-stopped).  Nothing makes a client call or time pass.
QueueFairness ==
    /\ WF_queueVars(WorkerStep)
    /\ \A c \in Callers : WF_queueVars(CallStep(c))

FairQueueSpec == QueueSpec /\ QueueFairness

-----------------------------------------------------------------------------
(* Properties *)

\* The manifest in processing/ is the evidence of a claim: from the rename to
\* the unlink after the outcome, whatever publishers do and whatever a
\* deletion purges, the job the worker is executing keeps that file (the
\* purge must skip the deletion's own manifest, _finish must write first).
ClaimKeepsManifest ==
    worker.pc \in Holding =>
        /\ worker.job \in Jobs
        /\ processing[worker.job] # Absent

\* What makes the guarantees of the queue inductive: every name claim_next
\* lists is still in pending/ when it is renamed (no publisher removes one, so
\* the FileNotFoundError branch needs a second worker), every name recover_stale
\* has yet to visit is still in processing/, a recovered job is in pending/
\* before it leaves processing/, and a purge neither runs for an ingest job nor
\* lists the deletion's own manifest.
QueueInv ==
    /\ ClaimKeepsManifest
    /\ \A c \in Callers : call[c].pc # "idle" => call[c].job \in Jobs
    /\ worker.pc = "claim" => \A j \in worker.todo : pending[j] # Absent
    /\ worker.pc \in {"recover", "recovered"} =>
          \A j \in worker.todo : processing[j] # Absent
    /\ worker.pc = "recovered" =>
          worker.job \in Jobs \ worker.todo /\ pending[worker.job] # Absent
    /\ worker.pc \in {"purge", "purged", "failing"} => worker.job \in Deletions
    /\ worker.pc = "purge" => worker.job \notin worker.todo

Live == {j \in Jobs : pending[j] # Absent \/ processing[j] # Absent}

Durable == INSTANCE DurableQueue WITH
    live <- Live,
    recorded <- completed \cup failed,
    held <- IF worker.pc \in Holding THEN worker.job ELSE NoJob,
    settled <- worker.pc = "settled"

\* The files implement the promise: whatever the two processes interleave and
\* wherever the worker dies, a job with a manifest in pending/ or processing/
\* loses it only after its outcome is written, or to a deletion.
DurableSpec == Durable!Spec

\* ARCHITECTURE.md: "Exhausted jobs enter failed".  No undelivered manifest
\* carries a retry count that its own schema rejects.
ExhaustedJobsLeave ==
    \A j \in Jobs : /\ pending[j] # Absent => pending[j].retry <= MaxRetry
                    /\ processing[j] # Absent => processing[j].retry <= MaxRetry

\* The environment settles down: from some point on no crash and no new call.
Quiet == <>[][~(Crash \/ \E c \in Callers : Publish(c))]_queueVars

\* While no manifest is exhausted, a job that is in pending/ once clients and
\* crashes stop is claimed (or withdrawn by a deletion): the worker never
\* waits on a name that does not come.
PendingIsClaimed ==
    (Quiet /\ []ExhaustedJobsLeave) =>
        \A j \in Jobs : pending[j] # Absent ~> pending[j] = Absent

\* A claim whose worker died is put back by the next start, provided that the
\* manifest is old enough by then.
StaleClaimRecovered ==
    (Quiet /\ []ExhaustedJobsLeave) =>
        \A j \in Jobs :
            (worker.pc = "down" /\ processing[j] # Absent /\ processing[j].old)
                ~> (pending[j] # Absent \/ processing[j] = Absent)

\* ARCHITECTURE.md: "resume or safely repeat work after interruption".  A job
\* left in processing/ by a crash is worked on again.
InterruptedJobRepeated ==
    (Quiet /\ []ExhaustedJobsLeave) =>
        \A j \in Jobs : processing[j] # Absent ~> processing[j] = Absent

=============================================================================
