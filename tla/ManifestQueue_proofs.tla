------------------------- MODULE ManifestQueue_proofs -------------------------
(***************************************************************************)
(* For any set of jobs, any number of concurrent publish calls and any     *)
(* retry bound: the queue is type correct, a claim keeps its manifest, and *)
(* the files implement DurableQueue.                                       *)
(***************************************************************************)
EXTENDS ManifestQueue, TLAPS

Inductive == QueueTypeOK /\ QueueInv

-----------------------------------------------------------------------------
(* Facts about the operators the actions are built from. *)

\* A manifest in one of the first two directories is one with a bounded count.
LEMMA ReadableManifest ==
    ASSUME QueueTypeOK, NEW j \in Jobs
    PROVE  /\ Readable(1, j) => pending[j] \in Manifest /\ pending[j].retry \in 0 .. MaxRetry
           /\ Readable(2, j) => processing[j] \in Manifest /\ processing[j].retry \in 0 .. MaxRetry
BY QueueAssumption DEF QueueTypeOK, Readable, Exists, Manifest

\* A rewritten manifest whose count is within bounds is a manifest.
LEMMA FreshManifest ==
    ASSUME NEW n \in 0 .. MaxRetry + 1
    PROVE  Fresh(n) \in Manifest /\ Fresh(n) # Absent
<1>1. Fresh(n) \in Manifest BY QueueAssumption DEF Fresh, Manifest
<1> QED BY <1>1, AbsentAssumption

\* A listing is a set of jobs.
LEMMA ListingJobs == \A d \in 1 .. 4 : Listing(d) \subseteq Jobs
BY DEF Listing

-----------------------------------------------------------------------------
(* Type correctness, one lemma per actor. *)

\* A publish call keeps the types.
LEMMA CallTypes ==
    ASSUME Inductive, NEW c \in Callers,
           Publish(c) \/ CallStep(c) \/ Abandon(c)
    PROVE  QueueTypeOK'
<1> USE DEF Inductive, QueueTypeOK, files, Call, CallPC, Advance, Return, IdleCall, NoJob
<1>1. CASE Publish(c) BY <1>1 DEF Publish, PublishCall
<1>2. CASE FindHit(c) BY <1>2 DEF FindHit
<1>3. CASE FindMiss(c) BY <1>3 DEF FindMiss
<1>4. CASE ReadCoalesced(c) BY <1>4 DEF ReadCoalesced
<1>5. CASE ReadRaises(c) BY <1>5 DEF ReadRaises
<1>6. CASE ReadSuperseded(c) BY <1>6 DEF ReadSuperseded
<1>7. CASE UnlinkExisting(c) BY <1>7 DEF UnlinkExisting
<1>8. CASE WritePending(c)
  <2>1. Fresh(0) \in Manifest BY FreshManifest, QueueAssumption
  <2>2. call[c].job \in Jobs BY <1>8 DEF WritePending, QueueInv
  <2> QED BY <1>8, <2>1, <2>2 DEF WritePending
<1>9. CASE Abandon(c) BY <1>9 DEF Abandon
<1> QED BY <1>1, <1>2, <1>3, <1>4, <1>5, <1>6, <1>7, <1>8, <1>9 DEF CallStep

\* The worker and its death keep the types.
LEMMA WorkerTypes ==
    ASSUME Inductive, WorkerStep \/ Crash
    PROVE  QueueTypeOK'
<1> USE DEF Inductive, QueueTypeOK, files, Worker, WorkerPC, Holding, WorkerAt, WorkerOn, NoJob
<1>1. CASE Start BY <1>1, ListingJobs DEF Start
<1>2. ASSUME NEW j \in Jobs, RecoverSkip(j) PROVE QueueTypeOK'
  BY <1>2 DEF RecoverSkip
<1>3. ASSUME NEW j \in Jobs, RecoverWrite(j) PROVE QueueTypeOK'
  <2>1. Fresh(processing[j].retry + 1) \in Manifest
    BY <1>3, ReadableManifest, FreshManifest, QueueAssumption DEF RecoverWrite
  <2> QED BY <1>3, <2>1 DEF RecoverWrite
<1>4. CASE RecoverUnlink BY <1>4 DEF RecoverUnlink
<1>5. ASSUME NEW j \in Jobs, RecoverRaises(j) PROVE QueueTypeOK'
  BY <1>5 DEF RecoverRaises
<1>6. CASE RecoverDone BY <1>6 DEF RecoverDone
<1>7. CASE ListPending BY <1>7, ListingJobs DEF ListPending
<1>8. ASSUME NEW j \in Jobs, ClaimMove(j) PROVE QueueTypeOK'
  BY <1>8 DEF ClaimMove
<1>9. CASE StampClaim
  <2>1. worker.job \in Jobs BY <1>9 DEF StampClaim, QueueInv, ClaimKeepsManifest
  <2>2. Fresh(processing[worker.job].retry) \in Manifest
    BY <1>9, <2>1, ReadableManifest, FreshManifest, QueueAssumption DEF StampClaim
  <2> QED BY <1>9, <2>2 DEF StampClaim
<1>10. CASE StampRaises BY <1>10 DEF StampRaises
<1>11. CASE BeginPurge
  <2>1. Listing(1) \subseteq Jobs BY ListingJobs
  <2>2. Listing(1) \ {worker.job} \in SUBSET Jobs BY <2>1
  <2> QED BY <1>11, <2>2 DEF BeginPurge
<1>12. ASSUME NEW j \in Jobs, PurgeOne(j) PROVE QueueTypeOK'
  BY <1>12 DEF PurgeOne, Unlinked
<1>13. CASE PurgeNextDirectory
  <2>1. worker.at + 1 \in 1 .. 4 BY <1>13 DEF PurgeNextDirectory
  <2>2. Listing(worker.at + 1) \ {worker.job} \in SUBSET Jobs BY <2>1, ListingJobs
  <2> QED BY <1>13, <2>1, <2>2 DEF PurgeNextDirectory
<1>14. CASE PurgeDone BY <1>14 DEF PurgeDone
<1>15. ASSUME NEW j \in Jobs, PurgeRaises(j) PROVE QueueTypeOK'
  BY <1>15 DEF PurgeRaises
<1>16. CASE CompleteWrite
  <2>1. worker.job \in Jobs BY <1>16 DEF CompleteWrite, QueueInv, ClaimKeepsManifest
  <2> QED BY <1>16, <2>1 DEF CompleteWrite
<1>17. CASE FailWrite
  <2>1. worker.job \in Jobs BY <1>17 DEF FailWrite, QueueInv, ClaimKeepsManifest
  <2> QED BY <1>17, <2>1 DEF FailWrite
<1>18. CASE Release
  <2>1. worker.job \in Jobs BY <1>18 DEF Release, QueueInv, ClaimKeepsManifest
  <2> QED BY <1>18, <2>1 DEF Release
<1>19. CASE Crash BY <1>19 DEF Crash
<1> QED
  BY <1>1, <1>2, <1>3, <1>4, <1>5, <1>6, <1>7, <1>8, <1>9, <1>10, <1>11, <1>12,
     <1>13, <1>14, <1>15, <1>16, <1>17, <1>18, <1>19 DEF WorkerStep

-----------------------------------------------------------------------------
(* QueueInv, one lemma per actor. *)

\* A publish call takes nothing away from the worker: processing/ is the
\* worker's alone, and pending/ only gains manifests.
LEMMA CallLeavesClaims ==
    ASSUME Inductive, NEW c \in Callers,
           Publish(c) \/ CallStep(c) \/ Abandon(c)
    PROVE  /\ UNCHANGED <<processing, worker>>
           /\ \A j \in Jobs : pending[j] # Absent => pending'[j] # Absent
<1> USE DEF files
<1>1. CASE ~WritePending(c)
  BY <1>1 DEF Publish, PublishCall, CallStep, FindHit, FindMiss, ReadCoalesced,
              ReadRaises, ReadSuperseded, UnlinkExisting, Abandon
<1>2. CASE WritePending(c)
  <2>1. Fresh(0) # Absent BY FreshManifest, QueueAssumption
  <2> QED BY <1>2, <2>1 DEF WritePending, Inductive, QueueTypeOK
<1> QED BY <1>1, <1>2

\* The job of a publish call is a job.
LEMMA CallKeepsJob ==
    ASSUME Inductive, NEW c \in Callers,
           Publish(c) \/ CallStep(c) \/ Abandon(c)
    PROVE  \A b \in Callers : call'[b].pc # "idle" => call'[b].job \in Jobs
<1> USE DEF Inductive, QueueTypeOK, QueueInv, Call, Advance, Return, IdleCall
<1>1. CASE Publish(c) BY <1>1 DEF Publish, PublishCall
<1>2. CASE FindHit(c) BY <1>2 DEF FindHit
<1>3. CASE FindMiss(c) BY <1>3 DEF FindMiss
<1>4. CASE ReadCoalesced(c) BY <1>4 DEF ReadCoalesced
<1>5. CASE ReadRaises(c) BY <1>5 DEF ReadRaises
<1>6. CASE ReadSuperseded(c) BY <1>6 DEF ReadSuperseded
<1>7. CASE UnlinkExisting(c) BY <1>7 DEF UnlinkExisting
<1>8. CASE WritePending(c) BY <1>8 DEF WritePending
<1>9. CASE Abandon(c) BY <1>9 DEF Abandon
<1> QED BY <1>1, <1>2, <1>3, <1>4, <1>5, <1>6, <1>7, <1>8, <1>9 DEF CallStep

\* A publish call, having left the claims alone, keeps the invariant.
LEMMA CallInvariant ==
    ASSUME Inductive, NEW c \in Callers,
           Publish(c) \/ CallStep(c) \/ Abandon(c)
    PROVE  QueueInv'
<1>1. /\ UNCHANGED <<processing, worker>>
      /\ \A j \in Jobs : pending[j] # Absent => pending'[j] # Absent
  BY CallLeavesClaims
<1>2. \A b \in Callers : call'[b].pc # "idle" => call'[b].job \in Jobs
  BY CallKeepsJob
<1>3. worker.todo \subseteq Jobs BY DEF Inductive, QueueTypeOK, Worker
<1> QED BY <1>1, <1>2, <1>3 DEF Inductive, QueueInv, ClaimKeepsManifest

\* The worker keeps it: it alone removes manifests from pending/ and processing/.
LEMMA WorkerInvariant ==
    ASSUME Inductive, WorkerStep \/ Crash
    PROVE  QueueInv'
<1> USE DEF Inductive, QueueTypeOK, QueueInv, ClaimKeepsManifest, files,
            Worker, WorkerPC, Holding, WorkerAt, WorkerOn, NoJob
<1>1. CASE Start BY <1>1 DEF Start, Listing, Exists
<1>2. ASSUME NEW j \in Jobs, RecoverSkip(j) PROVE QueueInv'
  BY <1>2 DEF RecoverSkip
<1>3. ASSUME NEW j \in Jobs, RecoverWrite(j) PROVE QueueInv'
  <2>1. Fresh(processing[j].retry + 1) # Absent
    BY <1>3, ReadableManifest, FreshManifest, QueueAssumption DEF RecoverWrite
  <2> QED BY <1>3, <2>1 DEF RecoverWrite
<1>4. CASE RecoverUnlink BY <1>4 DEF RecoverUnlink
<1>5. ASSUME NEW j \in Jobs, RecoverRaises(j) PROVE QueueInv'
  BY <1>5 DEF RecoverRaises
<1>6. CASE RecoverDone BY <1>6 DEF RecoverDone
<1>7. CASE ListPending BY <1>7 DEF ListPending, Listing, Exists
<1>8. ASSUME NEW j \in Jobs, ClaimMove(j) PROVE QueueInv'
  BY <1>8 DEF ClaimMove
<1>9. CASE StampClaim
  <2>1. Fresh(processing[worker.job].retry) # Absent
    BY <1>9, ReadableManifest, FreshManifest, QueueAssumption DEF StampClaim
  <2> QED BY <1>9, <2>1 DEF StampClaim
<1>10. CASE StampRaises BY <1>10 DEF StampRaises
<1>11. CASE BeginPurge BY <1>11 DEF BeginPurge
<1>12. ASSUME NEW j \in Jobs, PurgeOne(j) PROVE QueueInv'
  <2>1. j # worker.job BY <1>12 DEF PurgeOne
  <2>2. processing'[worker.job] = processing[worker.job]
    BY <1>12, <2>1 DEF PurgeOne, Unlinked
  <2>3. worker' = [worker EXCEPT !.todo = @ \ {j}] /\ worker.pc = "purge" /\ call' = call
    BY <1>12 DEF PurgeOne
  <2> QED BY <2>2, <2>3
<1>13. CASE PurgeNextDirectory BY <1>13 DEF PurgeNextDirectory
<1>14. CASE PurgeDone BY <1>14 DEF PurgeDone
<1>15. ASSUME NEW j \in Jobs, PurgeRaises(j) PROVE QueueInv'
  BY <1>15 DEF PurgeRaises
<1>16. CASE CompleteWrite BY <1>16 DEF CompleteWrite
<1>17. CASE FailWrite BY <1>17 DEF FailWrite
<1>18. CASE Release BY <1>18 DEF Release
<1>19. CASE Crash BY <1>19 DEF Crash
<1> QED
  BY <1>1, <1>2, <1>3, <1>4, <1>5, <1>6, <1>7, <1>8, <1>9, <1>10, <1>11, <1>12,
     <1>13, <1>14, <1>15, <1>16, <1>17, <1>18, <1>19 DEF WorkerStep

\* Time passes without moving a manifest.
LEMMA AgeInductive ==
    ASSUME Inductive, NEW j \in Jobs, Age(j)
    PROVE  Inductive'
<1> USE DEF Inductive, QueueTypeOK
<1>1. /\ processing[j] \in Manifest
      /\ processing' = [processing EXCEPT ![j].old = TRUE]
      /\ UNCHANGED <<pending, completed, failed, call, worker>>
      /\ worker.pc = "down"
  BY DEF Age
<1>2. [processing[j] EXCEPT !.old = TRUE] \in Manifest
  BY <1>1 DEF Manifest
<1>3. QueueTypeOK' BY <1>1, <1>2
<1>4. QueueInv' BY <1>1 DEF QueueInv, ClaimKeepsManifest, Holding
<1> QED BY <1>3, <1>4

-----------------------------------------------------------------------------
(* The inductive invariant. *)

\* Empty directories and a worker that is down satisfy the invariant.
LEMMA InductiveInit == QueueInit => Inductive
BY QueueAssumption DEF QueueInit, Inductive, QueueTypeOK, QueueInv, ClaimKeepsManifest,
   IdleCall, Call, CallPC, WorkerAt, Worker, WorkerPC, Holding, NoJob

\* Every step of the queue preserves the invariant.
LEMMA InductiveStep == Inductive /\ [QueueNext]_queueVars => Inductive'
<1> SUFFICES ASSUME Inductive, [QueueNext]_queueVars PROVE Inductive'
  OBVIOUS
<1>1. ASSUME NEW c \in Callers, Publish(c) \/ CallStep(c) \/ Abandon(c) PROVE Inductive'
  BY <1>1, CallTypes, CallInvariant DEF Inductive
<1>2. CASE WorkerStep \/ Crash
  BY <1>2, WorkerTypes, WorkerInvariant DEF Inductive
<1>3. ASSUME NEW j \in Jobs, Age(j) PROVE Inductive'
  BY <1>3, AgeInductive
<1>4. CASE UNCHANGED queueVars
  BY <1>4 DEF queueVars, Inductive, QueueTypeOK, QueueInv, ClaimKeepsManifest
<1> QED BY <1>1, <1>2, <1>3, <1>4 DEF QueueNext

\* The invariant holds in every state of the queue.
LEMMA InductiveAlways == QueueSpec => []Inductive
BY InductiveInit, InductiveStep, PTL DEF QueueSpec

\* Every state of the queue is well typed.
THEOREM QueueTypeCorrect == QueueSpec => []QueueTypeOK
<1>1. Inductive => QueueTypeOK BY DEF Inductive
<1> QED BY <1>1, InductiveAlways, PTL

\* The worker's listings stay true while it works through them, a recovered job
\* is never without a manifest, and (first conjunct) a claimed job keeps its own.
THEOREM QueueInvCorrect == QueueSpec => []QueueInv
<1>1. Inductive => QueueInv BY DEF Inductive
<1> QED BY <1>1, InductiveAlways, PTL

\* Whatever publishers and deletions do, and wherever the worker dies, the job
\* in the worker's hands has its manifest in processing/.
THEOREM ClaimIsKept == QueueSpec => []ClaimKeepsManifest
<1>1. QueueInv => ClaimKeepsManifest BY DEF QueueInv
<1> QED BY <1>1, QueueInvCorrect, PTL

=============================================================================
