------------------------- MODULE DurableQueue_proofs -------------------------
(***************************************************************************)
(* ManifestQueue implements DurableQueue: each step of the two processes   *)
(* on the four directories is a step of the abstract queue or leaves it    *)
(* unchanged.                                                              *)
(***************************************************************************)
EXTENDS ManifestQueue_proofs

\* The refinement mapping of the instance Durable, by name.
Recorded == completed \cup failed
Held == IF worker.pc \in Holding THEN worker.job ELSE NoJob
Settled == worker.pc = "settled"

AbstractNext == Durable!Next
AbstractStutter == UNCHANGED <<Live, Recorded, Held, Settled>>

\* Leaving the four abstract variables alone is allowed.
LEMMA StutterIsStep == AbstractStutter => [AbstractNext]_(Durable!abstractVars)
BY DEF AbstractStutter, Durable!abstractVars, Live, Recorded, Held, Settled

\* A publish call adds its own job or withdraws its own old outcome.
LEMMA CallRefines ==
    ASSUME Inductive, NEW c \in Callers,
           Publish(c) \/ CallStep(c) \/ Abandon(c)
    PROVE  AbstractNext \/ AbstractStutter
<1> DEFINE j == call[c].job
<1>1. UNCHANGED <<processing, Held, Settled>>
  BY CallLeavesClaims DEF Held, Settled
<1>2. CASE ~WritePending(c) /\ ~UnlinkExisting(c)
  <2>1. UNCHANGED files
    BY <1>2 DEF Publish, PublishCall, CallStep, FindHit, FindMiss, ReadCoalesced,
                ReadRaises, ReadSuperseded, Abandon, Return, Advance, files
  <2> QED BY <1>1, <2>1 DEF AbstractStutter, files, Live, Recorded
<1>3. CASE UnlinkExisting(c)
  <2>1. j \in Jobs BY <1>3 DEF UnlinkExisting, Inductive, QueueInv
  <2>2. Live' = Live BY <1>3 DEF UnlinkExisting, Live
  <2>3. Recorded' \in {Recorded, Recorded \ {j}}
    BY <1>3 DEF UnlinkExisting, Recorded
  <2>4. CASE Recorded' = Recorded BY <1>1, <2>2, <2>4 DEF AbstractStutter
  <2>5. CASE Recorded' = Recorded \ {j}
    <3>1. Durable!Forget(j)
      BY <1>1, <2>2, <2>5 DEF Durable!Forget, Recorded, Held, Settled
    <3> QED BY <2>1, <3>1 DEF AbstractNext, Durable!Next
  <2> QED BY <2>3, <2>4, <2>5
<1>4. CASE WritePending(c)
  <2>1. j \in Jobs BY <1>4 DEF WritePending, Inductive, QueueInv
  <2>2. Fresh(0) # Absent BY FreshManifest, QueueAssumption
  <2>3. Live' = Live \cup {j}
    BY <1>4, <2>1, <2>2 DEF WritePending, Live, Inductive, QueueTypeOK
  <2>4. Recorded' = Recorded BY <1>4 DEF WritePending, Recorded
  <2>5. Durable!Enqueue(j)
    BY <1>1, <2>3, <2>4 DEF Durable!Enqueue, Recorded, Held, Settled
  <2> QED BY <2>1, <2>5 DEF AbstractNext, Durable!Next
<1> QED BY <1>2, <1>3, <1>4

\* Recovery moves a manifest back without the job ever leaving Live.
LEMMA RecoveryRefines ==
    ASSUME Inductive,
           \/ Start \/ RecoverUnlink \/ RecoverDone
           \/ \E j \in Jobs : RecoverSkip(j) \/ RecoverWrite(j) \/ RecoverRaises(j)
    PROVE  AbstractStutter
<1> USE DEF Inductive, QueueTypeOK, AbstractStutter, Recorded, Held, Settled, Holding,
            files, WorkerAt
<1>1. CASE Start BY <1>1 DEF Start, Live
<1>2. CASE RecoverUnlink BY <1>2 DEF RecoverUnlink, Live, QueueInv
<1>3. CASE RecoverDone BY <1>3 DEF RecoverDone, Live
<1>4. ASSUME NEW j \in Jobs, RecoverSkip(j) PROVE AbstractStutter
  BY <1>4 DEF RecoverSkip, Live
<1>5. ASSUME NEW j \in Jobs, RecoverWrite(j) PROVE AbstractStutter
  <2>1. Readable(2, j) BY <1>5 DEF RecoverWrite
  <2>2. processing[j] # Absent /\ Fresh(processing[j].retry + 1) # Absent
    <3>1. processing[j].retry + 1 \in 0 .. MaxRetry + 1
      BY <2>1, ReadableManifest, QueueAssumption
    <3> QED BY <2>1, <3>1, FreshManifest DEF Readable, Exists
  <2>3. /\ pending' = [pending EXCEPT ![j] = Fresh(processing[j].retry + 1)]
        /\ UNCHANGED <<processing, completed, failed>>
    BY <1>5 DEF RecoverWrite
  <2>4. Live' = Live BY <2>2, <2>3 DEF Live
  <2>5. worker.pc = "recover" /\ worker'.pc = "recovered"
    BY <1>5 DEF RecoverWrite, Worker
  <2> QED BY <2>3, <2>4, <2>5
<1>6. ASSUME NEW j \in Jobs, RecoverRaises(j) PROVE AbstractStutter
  BY <1>6 DEF RecoverRaises, Live
<1> QED BY <1>1, <1>2, <1>3, <1>4, <1>5, <1>6

\* The rename of a claim is the delivery; stamping it changes nothing.
LEMMA ClaimRefines ==
    ASSUME Inductive,
           ListPending \/ StampClaim \/ StampRaises \/ \E j \in Jobs : ClaimMove(j)
    PROVE  AbstractNext \/ AbstractStutter
<1> USE DEF Inductive, QueueTypeOK, Recorded, Held, Settled, Holding, files,
            WorkerAt, WorkerOn
<1>1. CASE ListPending BY <1>1 DEF ListPending, Live, AbstractStutter
<1>2. CASE StampClaim
  <2>1. worker.job \in Jobs BY <1>2 DEF StampClaim, QueueInv, ClaimKeepsManifest
  <2>2. Fresh(processing[worker.job].retry) # Absent
    BY <1>2, <2>1, ReadableManifest, FreshManifest, QueueAssumption DEF StampClaim
  <2>3. Live' = Live BY <1>2, <2>1, <2>2 DEF StampClaim, Readable, Exists, Live
  <2> QED BY <1>2, <2>3 DEF StampClaim, AbstractStutter, Worker
<1>3. CASE StampRaises
  <2>1. worker.job \in Jobs BY <1>3 DEF StampRaises, QueueInv, ClaimKeepsManifest
  <2>2. Held # NoJob BY <1>3, <2>1, QueueAssumption DEF StampRaises, NoJob
  <2>3. Durable!Lapse BY <1>3, <2>2 DEF StampRaises, Durable!Lapse, Live
  <2> QED BY <2>3 DEF AbstractNext, Durable!Next
<1>4. ASSUME NEW j \in Jobs, ClaimMove(j) PROVE AbstractNext
  <2>1. j \in Live /\ Live' = Live BY <1>4 DEF ClaimMove, Live
  <2>2. Held = NoJob /\ Held' = j /\ UNCHANGED <<Recorded, Settled>>
    BY <1>4 DEF ClaimMove
  <2>3. Durable!Deliver(j) BY <2>1, <2>2 DEF Durable!Deliver
  <2> QED BY <2>3 DEF AbstractNext, Durable!Next
<1> QED BY <1>1, <1>2, <1>3, <1>4

\* A deletion withdraws the other jobs of its document, one file at a time.
LEMMA PurgeRefines ==
    ASSUME Inductive,
           \/ BeginPurge \/ PurgeNextDirectory \/ PurgeDone
           \/ \E j \in Jobs : PurgeOne(j) \/ PurgeRaises(j)
    PROVE  AbstractNext \/ AbstractStutter
<1> USE DEF Inductive, QueueTypeOK, Recorded, Held, Settled, Holding, files,
            WorkerAt, WorkerOn
<1>1. CASE BeginPurge BY <1>1 DEF BeginPurge, Live, AbstractStutter, Worker
<1>2. CASE PurgeNextDirectory BY <1>2 DEF PurgeNextDirectory, Live, AbstractStutter, Worker
<1>3. CASE PurgeDone BY <1>3 DEF PurgeDone, Live, AbstractStutter
<1>4. ASSUME NEW j \in Jobs, PurgeRaises(j) PROVE AbstractStutter
  BY <1>4 DEF PurgeRaises, Live, AbstractStutter
<1>5. ASSUME NEW j \in Jobs, PurgeOne(j) PROVE AbstractNext \/ AbstractStutter
  <2>1. /\ worker.job \in Deletions /\ j # worker.job
        /\ Held = worker.job /\ ~Settled /\ UNCHANGED <<Held, Settled>>
    BY <1>5 DEF PurgeOne, QueueInv, Worker
  <2>2. CASE DocumentOf[j] = DocumentOf[worker.job]
    <3>1. Live' \in {Live, Live \ {j}}
      BY <1>5 DEF PurgeOne, Unlinked, Live
    <3>2. Recorded' \in {Recorded, Recorded \ {j}}
      BY <1>5 DEF PurgeOne
    <3>3. Durable!Withdraw(j)
      BY <2>1, <2>2, <3>1, <3>2 DEF Durable!Withdraw
    <3> QED BY <3>3 DEF AbstractNext, Durable!Next
  <2>3. CASE DocumentOf[j] # DocumentOf[worker.job]
    <3>1. Live' = Live BY <1>5, <2>3 DEF PurgeOne, Unlinked, Live
    <3>2. Recorded' = Recorded BY <1>5, <2>3 DEF PurgeOne
    <3> QED BY <2>1, <3>1, <3>2 DEF AbstractStutter
  <2> QED BY <2>2, <2>3
<1> QED BY <1>1, <1>2, <1>3, <1>4, <1>5

\* The outcome is on record before the job leaves Live; a crash voids the claim.
LEMMA OutcomeRefines ==
    ASSUME Inductive, CompleteWrite \/ FailWrite \/ Release \/ Crash
    PROVE  AbstractNext \/ AbstractStutter
<1> USE DEF Inductive, QueueTypeOK, Recorded, Held, Settled, Holding, files, WorkerAt
<1>1. worker.pc \in Holding => worker.job \in Jobs /\ worker.job # NoJob
  BY QueueAssumption DEF QueueInv, ClaimKeepsManifest, NoJob
<1>2. CASE CompleteWrite \/ FailWrite
  <2>1. Live' = Live BY <1>2 DEF CompleteWrite, FailWrite, Live
  <2>2. /\ Held = worker.job /\ Held' = Held /\ ~Settled /\ Settled'
        /\ Recorded' = Recorded \cup {worker.job}
    BY <1>2 DEF CompleteWrite, FailWrite, Worker
  <2>3. Durable!Settle BY <1>1, <1>2, <2>1, <2>2 DEF Durable!Settle, CompleteWrite, FailWrite
  <2> QED BY <2>3 DEF AbstractNext, Durable!Next
<1>3. CASE Release
  <2>1. Live' \in {Live, Live \ {worker.job}} BY <1>1, <1>3 DEF Release, Live
  <2>2. Held = worker.job /\ Settled /\ Held' = NoJob /\ ~Settled' /\ Recorded' = Recorded
    BY <1>3 DEF Release
  <2>3. Durable!Finish BY <2>1, <2>2 DEF Durable!Finish
  <2> QED BY <2>3 DEF AbstractNext, Durable!Next
<1>4. CASE Crash
  <2>1. Live' = Live /\ Recorded' = Recorded /\ Held' = NoJob /\ ~Settled'
    BY <1>4 DEF Crash, Live
  <2>2. CASE worker.pc \in Holding
    <3>1. Durable!Lapse BY <1>1, <2>1, <2>2 DEF Durable!Lapse
    <3> QED BY <3>1 DEF AbstractNext, Durable!Next
  <2>3. CASE worker.pc \notin Holding BY <2>1, <2>3 DEF AbstractStutter
  <2> QED BY <2>2, <2>3
<1> QED BY <1>2, <1>3, <1>4

\* Every step on the directories is an abstract step or a stutter.
LEMMA RefinementStep ==
    Inductive /\ [QueueNext]_queueVars => [AbstractNext]_(Durable!abstractVars)
<1> SUFFICES ASSUME Inductive, [QueueNext]_queueVars
             PROVE  AbstractNext \/ AbstractStutter
  BY StutterIsStep
<1>1. ASSUME NEW c \in Callers, Publish(c) \/ CallStep(c) \/ Abandon(c)
      PROVE  AbstractNext \/ AbstractStutter
  BY <1>1, CallRefines
<1>2. CASE WorkerStep \/ Crash
  BY <1>2, RecoveryRefines, ClaimRefines, PurgeRefines, OutcomeRefines DEF WorkerStep
<1>3. ASSUME NEW j \in Jobs, Age(j) PROVE AbstractStutter
  <2>1. processing[j] \in Manifest BY <1>3 DEF Age, Inductive, QueueTypeOK
  <2>2. [processing[j] EXCEPT !.old = TRUE] \in Manifest BY <2>1 DEF Manifest
  <2>3. [processing[j] EXCEPT !.old = TRUE] # Absent BY <2>2, AbsentAssumption
  <2>4. Live' = Live BY <1>3, <2>3 DEF Age, Live, Inductive, QueueTypeOK
  <2> QED BY <1>3, <2>4 DEF Age, AbstractStutter, Recorded, Held, Settled
<1>4. CASE UNCHANGED queueVars
  BY <1>4 DEF queueVars, AbstractStutter, Live, Recorded, Held, Settled
<1> QED BY <1>1, <1>2, <1>3, <1>4 DEF QueueNext

\* Empty directories are the empty abstract queue.
LEMMA RefinementInit == QueueInit => Durable!Init
BY DEF QueueInit, Durable!Init, Live, WorkerAt, Holding

\* Across interleavings, crashes and recoveries, a job that was published keeps
\* a manifest in pending/ or processing/ until its outcome has been written for
\* the delivery that produced it, or a deletion of its document withdraws it.
THEOREM QueueIsDurable == QueueSpec => DurableSpec
<1>1. Inductive /\ [QueueNext]_queueVars => [Durable!Next]_(Durable!abstractVars)
  BY RefinementStep DEF AbstractNext
<1> QED BY <1>1, RefinementInit, InductiveAlways, PTL DEF QueueSpec, DurableSpec, Durable!Spec
=============================================================================
