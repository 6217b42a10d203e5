--------------------------- MODULE Ingestion_proofs ---------------------------
(***************************************************************************)
(* The composed system, for any documents, callers and bounds: it runs the *)
(* queue as ManifestQueue specifies it, so everything proved of the queue  *)
(* holds in it, and its own invariants.                                    *)
(***************************************************************************)
EXTENDS Ingestion, DurableQueue_proofs

-----------------------------------------------------------------------------
(* Requests are about documents. *)

RequestOK ==
    /\ request \in [Callers -> [pc : RequestPC, kind : Kinds \cup {"none"},
                                doc : Documents \cup {NoDocument}]]
    /\ \A c \in Callers : request[c].pc # "idle" => request[c].doc \in Documents

\* No request is under way at the start.
LEMMA RequestInit == Init => RequestOK
BY DEF Init, RequestOK, IdleRequest, RequestPC

\* A step of one request moves that request on, or ends it.
LEMMA RequestMoves ==
    ASSUME RequestOK, NEW c \in Callers, RequestStep(c) \/ Abort(c)
    PROVE  \/ \E pc \in RequestPC : request[c].pc # "idle" /\ Step(c, pc)
           \/ Respond(c)
           \/ UNCHANGED request
<1> USE DEF RequestPC
<1>1. CASE UploadKnown(c) BY <1>1 DEF UploadKnown
<1>2. CASE UploadNew(c) BY <1>2 DEF UploadNew
<1>3. CASE PromoteMkdir(c) BY <1>3 DEF PromoteMkdir
<1>4. CASE PromoteCheck(c) BY <1>4 DEF PromoteCheck
<1>5. CASE PromoteMove(c) BY <1>5 DEF PromoteMove
<1>6. CASE PromoteRaises(c) BY <1>6 DEF PromoteRaises
<1>7. CASE Accept(c) BY <1>7 DEF Accept
<1>8. CASE DeleteDone(c) BY <1>8 DEF DeleteDone
<1>9. CASE DeleteWanted(c) BY <1>9 DEF DeleteWanted
<1>10. CASE DeleteCheck(c) BY <1>10 DEF DeleteCheck
<1>11. CASE DeleteMark(c) BY <1>11 DEF DeleteMark
<1>12. CASE BeginPublish(c) BY <1>12 DEF BeginPublish
<1>13. CASE PublishStep(c) BY <1>13 DEF PublishStep
<1>14. CASE Abort(c) BY <1>14 DEF Abort
<1> QED BY <1>1, <1>2, <1>3, <1>4, <1>5, <1>6, <1>7, <1>8, <1>9, <1>10, <1>11,
           <1>12, <1>13, <1>14 DEF RequestStep

\* The worker, its death and the passing of time leave requests alone.
LEMMA WorkerLeavesRequests ==
    ASSUME PipelineStep \/ Kill \/ Ageing PROVE UNCHANGED request
BY DEF PipelineStep, Kill, Ageing, controlVars, ClaimStep, BeginJob, StatusValid,
   StatusInvalid, StatusPut, Parse, ParseRaises, ChunkText, ChunkRaises, WriteIndex,
   RmtreeList, RmtreeUnlink, RmtreeRmdir, PurgeStep, PurgeReturns, PurgeFails,
   Settle, EndJob, Exit

\* Whatever step is taken, requests stay about documents.
LEMMA RequestStepOK == RequestOK /\ [Next]_vars => RequestOK'
<1> SUFFICES ASSUME RequestOK, [Next]_vars PROVE RequestOK'
  OBVIOUS
<1>1. ASSUME NEW c \in Callers, RequestStep(c) \/ Abort(c) PROVE RequestOK'
  <2>1. CASE \E pc \in RequestPC : request[c].pc # "idle" /\ Step(c, pc)
    BY <2>1 DEF Step, RequestOK
  <2>2. CASE Respond(c)
    BY <2>2 DEF Respond, IdleRequest, RequestOK, RequestPC
  <2>3. CASE UNCHANGED request
    BY <2>3 DEF RequestOK
  <2> QED BY <1>1, <2>1, <2>2, <2>3, RequestMoves
<1>2. ASSUME NEW c \in Callers, BeginRequest(c) PROVE RequestOK'
  BY <1>2 DEF BeginRequest, Begin, RequestOK, RequestPC
<1>3. CASE PipelineStep \/ Kill \/ Ageing \/ UNCHANGED vars
  <2>1. UNCHANGED request BY <1>3, WorkerLeavesRequests DEF vars, controlVars
  <2> QED BY <2>1 DEF RequestOK
<1> QED BY <1>1, <1>2, <1>3 DEF Next

-----------------------------------------------------------------------------
(* Each step is a step of the queue. *)

\* A request touches the queue in publish only.
LEMMA RequestRunsQueue ==
    ASSUME RequestOK, NEW c \in Callers, BeginRequest(c) \/ RequestStep(c) \/ Abort(c)
    PROVE  Publish(c) \/ CallStep(c) \/ Abandon(c) \/ UNCHANGED queueVars
<1>1. CASE BeginPublish(c)
  <2> DEFINE j == IF request[c].kind = "delete"
                  THEN DeleteJob[request[c].doc] ELSE IngestJob[request[c].doc]
  <2>1. request[c].doc \in Documents BY <1>1 DEF BeginPublish, RequestOK
  <2>2. j \in Jobs BY <2>1, IngestionAssumption
  <2>3. PublishCall(c, j, request[c].kind = "reindex")
    BY <1>1 DEF BeginPublish
  <2>4. (request[c].kind = "reindex") \in BOOLEAN OBVIOUS
  <2> QED BY <2>2, <2>3, <2>4 DEF Publish
<1>2. CASE PublishStep(c) BY <1>2 DEF PublishStep
<1>3. CASE Abort(c) BY <1>3 DEF Abort
<1>4. CASE BeginRequest(c) BY <1>4 DEF BeginRequest, Begin
<1>5. CASE RequestStep(c) /\ ~BeginPublish(c) /\ ~PublishStep(c)
  BY <1>5 DEF RequestStep, UploadKnown, UploadNew, PromoteMkdir, PromoteCheck,
              PromoteMove, PromoteRaises, Accept, DeleteDone, DeleteWanted,
              DeleteCheck, DeleteMark
<1> QED BY <1>1, <1>2, <1>3, <1>4, <1>5

\* process_one touches the queue by the worker's operations only.
LEMMA PipelineRunsQueue ==
    ASSUME PipelineStep PROVE WorkerStep \/ Crash \/ UNCHANGED queueVars
<1>1. CASE ClaimStep BY <1>1 DEF ClaimStep, WorkerStep
<1>2. CASE BeginJob BY <1>2 DEF BeginJob, WorkerStep
<1>3. CASE PurgeStep BY <1>3 DEF PurgeStep, WorkerStep
<1>4. CASE PurgeReturns BY <1>4 DEF PurgeReturns, WorkerStep
<1>5. CASE PurgeFails BY <1>5 DEF PurgeFails, WorkerStep
<1>6. CASE Settle BY <1>6 DEF Settle, WorkerStep
<1>7. CASE EndJob BY <1>7 DEF EndJob, WorkerStep
<1>8. CASE Exit BY <1>8 DEF Exit
<1>9. CASE \/ StatusValid \/ StatusInvalid \/ StatusPut \/ Parse \/ ParseRaises
           \/ ChunkText \/ ChunkRaises \/ WriteIndex
           \/ RmtreeList \/ RmtreeUnlink \/ RmtreeRmdir
  BY <1>9 DEF StatusValid, StatusInvalid, StatusPut, Parse, ParseRaises, ChunkText,
              ChunkRaises, WriteIndex, RmtreeList, RmtreeUnlink, RmtreeRmdir
<1> QED BY <1>1, <1>2, <1>3, <1>4, <1>5, <1>6, <1>7, <1>8, <1>9 DEF PipelineStep

\* A step of the composed system is a step of the queue, or leaves it alone.
LEMMA StepRunsQueue == RequestOK /\ [Next]_vars => [QueueNext]_queueVars
<1> SUFFICES ASSUME RequestOK, [Next]_vars PROVE QueueNext \/ UNCHANGED queueVars
  OBVIOUS
<1>1. ASSUME NEW c \in Callers, BeginRequest(c) \/ RequestStep(c) \/ Abort(c)
      PROVE  QueueNext \/ UNCHANGED queueVars
  BY <1>1, RequestRunsQueue DEF QueueNext
<1>2. CASE PipelineStep BY <1>2, PipelineRunsQueue DEF QueueNext
<1>3. CASE Kill BY <1>3 DEF Kill, QueueNext
<1>4. CASE Ageing BY <1>4 DEF Ageing, QueueNext
<1>5. CASE UNCHANGED vars BY <1>5 DEF vars
<1> QED BY <1>1, <1>2, <1>3, <1>4, <1>5 DEF Next

\* Requests are always about documents.
LEMMA RequestAlways == Spec => []RequestOK
BY RequestInit, RequestStepOK, PTL DEF Spec

\* Seen through the queue's variables, requests and pipeline do nothing that
\* ManifestQueue does not allow.
THEOREM IngestionRunsQueue == Spec => QueueSpec
<1>1. Init => QueueInit BY DEF Init
<1> QED BY <1>1, RequestAlways, StepRunsQueue, PTL DEF Spec, QueueSpec

\* No upload or deletion that was published is lost, whatever the two processes
\* do to records and files meanwhile.
THEOREM IngestionIsDurable == Spec => DurableSpec
BY IngestionRunsQueue, QueueIsDurable

\* The worker's job keeps its manifest in the composed system.
THEOREM IngestionKeepsClaim == Spec => []ClaimKeepsManifest
BY IngestionRunsQueue, ClaimIsKept

\* The queue's inductive invariant holds in the composed system.
LEMMA QueueAlways == Spec => []Inductive
BY IngestionRunsQueue, InductiveAlways

-----------------------------------------------------------------------------
(* Types. *)

ControlOK ==
    /\ record \in [Documents -> DocumentStatus \cup {"none"}]
    /\ stored \in [Documents -> SUBSET Artifacts]
    /\ pipeline \in [pc : PipelinePC, target : DocumentStatus \cup {"none"},
                     todo : SUBSET Artifacts, exiting : BOOLEAN]
    /\ arrived \in 0 .. MaxRequests
    /\ killed \in 0 .. MaxKills

\* The initial records, files and pipeline are well typed.
LEMMA ControlInit == Init => ControlOK
BY IngestionAssumption
   DEF Init, ControlOK, NoPipeline, Pipeline, PipelinePC, Artifacts, Derived

\* Requests keep records, files and counters well typed.
LEMMA RequestTypes ==
    ASSUME ControlOK, NEW c \in Callers, BeginRequest(c) \/ RequestStep(c) \/ Abort(c)
    PROVE  ControlOK'
<1> USE DEF ControlOK
<1>1. CASE BeginRequest(c)
  BY <1>1, IngestionAssumption DEF BeginRequest, Begin
<1>2. CASE PromoteMkdir(c) BY <1>2 DEF PromoteMkdir, Store, Artifacts, bounds
<1>3. CASE PromoteMove(c) BY <1>3 DEF PromoteMove, Store, Artifacts, bounds
<1>4. CASE Accept(c) BY <1>4 DEF Accept, SetRecord, DocumentStatus, bounds
<1>5. CASE DeleteMark(c) BY <1>5 DEF DeleteMark, SetRecord, DocumentStatus, bounds
<1>6. CASE /\ ~BeginRequest(c) /\ ~PromoteMkdir(c) /\ ~PromoteMove(c)
           /\ ~Accept(c) /\ ~DeleteMark(c)
  <2>1. UNCHANGED <<record, stored, pipeline, bounds>>
    BY <1>6 DEF RequestStep, UploadKnown, UploadNew, PromoteCheck, PromoteRaises,
                DeleteDone, DeleteWanted, DeleteCheck, BeginPublish, PublishStep, Abort
  <2> QED BY <2>1 DEF bounds
<1> QED BY <1>1, <1>2, <1>3, <1>4, <1>5, <1>6

-----------------------------------------------------------------------------
(* Where process_one is and what the queue says the worker is doing. *)

PipelineAgrees ==
    /\ pipeline.pc = "none" => worker.pc \notin Holding \ {"stamp"}
    /\ pipeline.pc = "exit" => worker.pc = "idle"
    /\ pipeline.pc \in {"get", "put", "act"} => worker.pc \in {"working", "purged", "failing"}
    /\ pipeline.pc = "rmtree" => worker.pc = "working" /\ worker.job \in Deletions
    /\ pipeline.pc = "purge" => worker.pc \in {"working", "purge"} /\ worker.job \in Deletions
    /\ pipeline.pc = "outcome" => worker.pc \in {"working", "purged", "failing", "settled"}

\* While process_one has a job, the job's document is one of the documents.
LEMMA SubjectIsDocument ==
    ASSUME Inductive, PipelineAgrees,
           pipeline.pc \in {"get", "put", "act", "rmtree", "purge", "outcome"}
    PROVE  worker.job \in Jobs /\ Subject \in Documents
<1>1. worker.pc \in Holding BY DEF PipelineAgrees, Holding
<1>2. worker.job \in Jobs BY <1>1 DEF Inductive, QueueInv, ClaimKeepsManifest
<1> QED BY <1>2, IngestionAssumption DEF Subject

\* No request touches the worker or the pipeline.
LEMMA RequestsAgree ==
    ASSUME Inductive, PipelineAgrees, NEW c \in Callers,
           BeginRequest(c) \/ RequestStep(c) \/ Abort(c)
    PROVE  UNCHANGED <<worker, pipeline>>
<1>1. UNCHANGED worker
  <2>1. CASE Publish(c) \/ CallStep(c) \/ Abandon(c) BY <2>1, CallLeavesClaims
  <2>2. CASE UNCHANGED queueVars BY <2>2 DEF queueVars
  <2>3. CASE BeginPublish(c) BY <2>3 DEF BeginPublish, PublishCall
  <2>4. CASE PublishStep(c) BY <2>1, <2>4 DEF PublishStep
  <2>5. CASE Abort(c) BY <2>1, <2>5 DEF Abort
  <2>6. CASE BeginRequest(c) BY <2>6 DEF BeginRequest, Begin, queueVars
  <2>7. CASE RequestStep(c) /\ ~BeginPublish(c) /\ ~PublishStep(c)
    BY <2>7 DEF RequestStep, UploadKnown, UploadNew, PromoteMkdir, PromoteCheck,
                PromoteMove, PromoteRaises, Accept, DeleteDone, DeleteWanted,
                DeleteCheck, DeleteMark, queueVars
  <2> QED BY <2>3, <2>4, <2>5, <2>6, <2>7
<1>2. UNCHANGED pipeline
  BY DEF BeginRequest, Begin, RequestStep, UploadKnown, UploadNew, PromoteMkdir,
         PromoteCheck, PromoteMove, PromoteRaises, Accept, DeleteDone, DeleteWanted,
         DeleteCheck, DeleteMark, BeginPublish, PublishStep, Abort
<1> QED BY <1>1, <1>2

\* process_one and the worker's place in the queue move together.
LEMMA PipelineKeepsAgreement ==
    ASSUME Inductive, ControlOK, PipelineAgrees, PipelineStep \/ Kill \/ Ageing
    PROVE  PipelineAgrees'
<1> USE DEF PipelineAgrees, Holding, WorkerAt, WorkerOn, Inductive, QueueTypeOK,
            Worker, ControlOK, queueVars, files, Pipeline, PipelinePC
<1>1. CASE ClaimStep
  <2>1. pipeline.pc = "none" /\ UNCHANGED pipeline BY <1>1 DEF ClaimStep
  <2>2. worker'.pc \in {"down", "recover", "recovered", "idle", "claim", "stamp"}
    <3>1. CASE Start \/ RecoverDone \/ ListPending \/ StampRaises
      BY <3>1 DEF Start, RecoverDone, ListPending, StampRaises
    <3>4. CASE RecoverUnlink BY <3>4 DEF RecoverUnlink
    <3>2. ASSUME NEW j \in Jobs, RecoverSkip(j) \/ RecoverWrite(j)
          PROVE  worker'.pc \in {"recover", "recovered"}
      BY <3>2 DEF RecoverSkip, RecoverWrite
    <3>3. ASSUME NEW j \in Jobs, RecoverRaises(j) \/ ClaimMove(j)
          PROVE  worker'.pc \in {"down", "stamp"}
      BY <3>3 DEF RecoverRaises, ClaimMove
    <3> QED BY <1>1, <3>1, <3>2, <3>3, <3>4 DEF ClaimStep
  <2> QED BY <2>1, <2>2
<1>2. CASE BeginJob BY <1>2 DEF BeginJob, StampClaim
<1>3. CASE StatusValid BY <1>3 DEF StatusValid
<1>4. CASE StatusInvalid
  <2>1. CASE pipeline.target = "failed" BY <1>4, <2>1 DEF StatusInvalid
  <2>2. CASE pipeline.target # "failed"
    <3>1. pipeline' = Pipeline("get", "failed") /\ UNCHANGED worker /\ pipeline.pc = "get"
      BY <1>4, <2>2 DEF StatusInvalid, Raise
    <3> QED BY <3>1
  <2> QED BY <2>1, <2>2
<1>5. CASE StatusPut BY <1>5 DEF StatusPut
<1>6. CASE Parse BY <1>6 DEF Parse, Produces
<1>7. CASE ParseRaises BY <1>7 DEF ParseRaises, Raise
<1>8. CASE ChunkText BY <1>8 DEF ChunkText, Produces
<1>9. CASE ChunkRaises BY <1>9 DEF ChunkRaises, Raise
<1>10. CASE WriteIndex BY <1>10 DEF WriteIndex, Produces
<1>11. CASE RmtreeList
  <2>1. pipeline'.pc \in {"rmtree", "purge"} /\ UNCHANGED worker /\ pipeline.pc = "rmtree"
    BY <1>11 DEF RmtreeList
  <2> QED BY <2>1
<1>12. CASE RmtreeUnlink
  <2>1. pipeline'.pc = "rmtree" /\ UNCHANGED worker /\ pipeline.pc = "rmtree"
    BY <1>12 DEF RmtreeUnlink
  <2> QED BY <2>1
<1>13. CASE RmtreeRmdir
  <2>1. pipeline'.pc \in {"purge", "get"} /\ UNCHANGED worker /\ pipeline.pc = "rmtree"
    BY <1>13 DEF RmtreeRmdir, Raise
  <2> QED BY <2>1
<1>14. CASE PurgeStep
  BY <1>14 DEF PurgeStep, BeginPurge, PurgeNextDirectory, PurgeOne
<1>15. CASE PurgeReturns BY <1>15 DEF PurgeReturns, PurgeDone
<1>16. CASE PurgeFails BY <1>16 DEF PurgeFails, PurgeRaises, Raise
<1>17. CASE Settle
  BY <1>17 DEF Settle, CompleteWrite, FailWrite
<1>18. CASE EndJob BY <1>18 DEF EndJob, Release, NoPipeline
<1>19. CASE Exit BY <1>19 DEF Exit, Crash, NoPipeline
<1>20. CASE Kill BY <1>20 DEF Kill, Crash, NoPipeline
<1>21. CASE Ageing BY <1>21 DEF Ageing, controlVars, Age
<1> QED BY <1>1, <1>2, <1>3, <1>4, <1>5, <1>6, <1>7, <1>8, <1>9, <1>10, <1>11,
           <1>12, <1>13, <1>14, <1>15, <1>16, <1>17, <1>18, <1>19, <1>20, <1>21
        DEF PipelineStep

\* The worker keeps records, files and pipeline well typed.
LEMMA PipelineTypes ==
    ASSUME Inductive, ControlOK, PipelineAgrees, PipelineStep \/ Kill \/ Ageing
    PROVE  ControlOK'
<1> USE DEF ControlOK, bounds, Pipeline, PipelinePC, DocumentStatus
<1>1. CASE ClaimStep BY <1>1 DEF ClaimStep
<1>2. CASE BeginJob BY <1>2 DEF BeginJob
<1>3. CASE StatusValid BY <1>3 DEF StatusValid
<1>4. CASE StatusInvalid
  <2>1. CASE pipeline.target = "failed" BY <1>4, <2>1, ZenonT(30) DEF StatusInvalid
  <2>2. CASE pipeline.target # "failed"
    <3>1. /\ pipeline' = Pipeline("get", "failed")
          /\ UNCHANGED <<record, stored, bounds>>
      BY <1>4, <2>2 DEF StatusInvalid, Raise
    <3> QED BY <3>1
  <2> QED BY <2>1, <2>2
<1>5. CASE StatusPut BY <1>5 DEF StatusPut, SetRecord
<1>6. CASE Parse BY <1>6 DEF Parse, Produces, Store, Artifacts, Derived
<1>7. CASE ParseRaises BY <1>7 DEF ParseRaises, Raise
<1>8. CASE ChunkText BY <1>8 DEF ChunkText, Produces, Store, Artifacts, Derived
<1>9. CASE ChunkRaises BY <1>9 DEF ChunkRaises, Raise
<1>10. CASE WriteIndex BY <1>10 DEF WriteIndex, Produces, Store, Artifacts, Derived
<1>11. CASE RmtreeList
  <2>1. UNCHANGED <<record, stored, bounds>> BY <1>11 DEF RmtreeList
  <2>2. CASE "root" \in stored[Subject]
    <3>1. Subject \in Documents BY <1>11, SubjectIsDocument DEF RmtreeList
    <3>2. stored[Subject] \in SUBSET Artifacts BY <3>1
    <3>3. pipeline' = [pipeline EXCEPT !.todo = stored[Subject]]
      BY <1>11, <2>2 DEF RmtreeList
    <3> QED BY <2>1, <3>2, <3>3
  <2>3. CASE "root" \notin stored[Subject]
    BY <1>11, <2>1, <2>3 DEF RmtreeList
  <2> QED BY <2>2, <2>3
<1>12. CASE RmtreeUnlink
  <2>1. PICK a \in pipeline.todo \ {"root"} :
           /\ stored' = [stored EXCEPT ![Subject] = @ \ {a}]
           /\ pipeline' = [pipeline EXCEPT !.todo = @ \ {a}]
    BY <1>12 DEF RmtreeUnlink
  <2>2. UNCHANGED <<record, bounds>> BY <1>12 DEF RmtreeUnlink
  <2> QED BY <2>1, <2>2
<1>13. CASE RmtreeRmdir
  <2>1. UNCHANGED <<record, bounds>> BY <1>13 DEF RmtreeRmdir
  <2>2. CASE stored[Subject] = {"root"}
    <3>1. /\ stored' = [stored EXCEPT ![Subject] = {}]
          /\ pipeline' = Pipeline("purge", "deleted")
      BY <1>13, <2>2 DEF RmtreeRmdir
    <3> QED BY <2>1, <3>1
  <2>3. CASE stored[Subject] # {"root"}
    <3>1. pipeline' = Pipeline("get", "failed") /\ UNCHANGED stored
      BY <1>13, <2>3 DEF RmtreeRmdir, Raise
    <3> QED BY <2>1, <3>1
  <2> QED BY <2>2, <2>3
<1>14. CASE PurgeStep BY <1>14 DEF PurgeStep
<1>15. CASE PurgeReturns BY <1>15 DEF PurgeReturns
<1>16. CASE PurgeFails BY <1>16 DEF PurgeFails, Raise
<1>17. CASE Settle BY <1>17 DEF Settle
<1>18. CASE EndJob BY <1>18 DEF EndJob, NoPipeline
<1>19. CASE Exit BY <1>19 DEF Exit, NoPipeline
<1>20. CASE Kill BY <1>20, IngestionAssumption DEF Kill, NoPipeline
<1>21. CASE Ageing BY <1>21 DEF Ageing, controlVars
<1> QED BY <1>1, <1>2, <1>3, <1>4, <1>5, <1>6, <1>7, <1>8, <1>9, <1>10, <1>11,
           <1>12, <1>13, <1>14, <1>15, <1>16, <1>17, <1>18, <1>19, <1>20, <1>21
        DEF PipelineStep

\* Types and agreement hold always.
LEMMA ControlAlways == Spec => [](ControlOK /\ PipelineAgrees)
<1>1. Init => PipelineAgrees
  BY DEF Init, QueueInit, PipelineAgrees, NoPipeline, Pipeline, WorkerAt, Holding
<1>2. Inductive /\ (ControlOK /\ PipelineAgrees) /\ [Next]_vars => (ControlOK /\ PipelineAgrees)'
  <2> SUFFICES ASSUME Inductive, ControlOK, PipelineAgrees, [Next]_vars
               PROVE  ControlOK' /\ PipelineAgrees'
    OBVIOUS
  <2>1. CASE UNCHANGED vars
    BY <2>1 DEF vars, queueVars, controlVars, bounds, ControlOK, PipelineAgrees
  <2>2. ASSUME NEW c \in Callers, BeginRequest(c) \/ RequestStep(c) \/ Abort(c)
        PROVE  ControlOK' /\ PipelineAgrees'
    BY <2>2, RequestTypes, RequestsAgree DEF PipelineAgrees
  <2>3. CASE PipelineStep \/ Kill \/ Ageing
    BY <2>3, PipelineTypes, PipelineKeepsAgreement
  <2> QED BY <2>1, <2>2, <2>3 DEF Next
<1> QED BY <1>1, <1>2, ControlInit, QueueAlways, PTL DEF Spec

\* Every state of the composed system is well typed.
THEOREM IngestionTypeCorrect == Spec => []IngestionTypeOK
<1>1. Inductive /\ RequestOK /\ ControlOK => IngestionTypeOK
  BY DEF Inductive, RequestOK, ControlOK, IngestionTypeOK
<1> QED BY <1>1, QueueAlways, RequestAlways, ControlAlways, PTL

-----------------------------------------------------------------------------
(* Files and statuses. *)

Busy == pipeline.pc \in {"get", "put", "act", "outcome"}

\* What is on disk once the pipeline asks for a status.
Made(target) ==
    CASE target = "chunking" -> {"root", "source", "elements"}
      [] target = "indexing" -> {"root", "source", "elements", "chunks"}
      [] target = "ready"    -> Artifacts
      [] OTHER -> {}

Rooted == \A d \in Documents : stored[d] # {} => "root" \in stored[d]
Progress == Busy => Made(pipeline.target) \subseteq stored[Subject]
\* A deletion that is past rmtree has removed what was derived; rmtree has yet
\* to visit what is left of it.
Erased ==
    pipeline.pc = "purge" \/ (Busy /\ worker.job \in Deletions) =>
        stored[Subject] \cap Derived = {}
Remaining ==
    pipeline.pc = "rmtree" /\ pipeline.todo # {} =>
        stored[Subject] \cap Derived \subseteq pipeline.todo
TargetFits ==
    Busy => IF worker.job \in Deletions
            THEN pipeline.target \in {"deleted", "failed"}
            ELSE pipeline.target \in {"parsing", "chunking", "indexing", "ready", "failed"}
ActingLive ==
    pipeline.pc = "act" =>
        /\ pipeline.target \in {"parsing", "chunking", "indexing"}
        /\ record[Subject] # "deleted"
OutcomeFits ==
    pipeline.pc = "outcome" /\ pipeline.target # "failed" =>
        /\ pipeline.target \in {"ready", "deleted"}
        /\ record[Subject] \in {pipeline.target, "accepted", "deleting"}

FilesInv ==
    /\ Rooted /\ Progress /\ Erased /\ Remaining
    /\ TargetFits /\ ActingLive /\ OutcomeFits
    /\ DeletedIsErased
Context == Inductive /\ RequestOK /\ ControlOK /\ PipelineAgrees

\* A request adds a directory or a source, and never makes a document deleted.
LEMMA RequestFiles ==
    ASSUME Context, Rooted, NEW c \in Callers,
           BeginRequest(c) \/ RequestStep(c) \/ Abort(c)
    PROVE  /\ \A d \in Documents : /\ stored[d] \subseteq stored'[d]
                                   /\ stored'[d] \cap Derived = stored[d] \cap Derived
                                   /\ record'[d] \in {record[d], "accepted", "deleting"}
           /\ Rooted'
<1> USE DEF Context, ControlOK, Rooted, Derived
<1>1. CASE PromoteMkdir(c)
  <2>1. /\ stored' = [stored EXCEPT ![request[c].doc] = @ \cup {"root"}]
        /\ UNCHANGED record
    BY <1>1 DEF PromoteMkdir, Store
  <2> QED BY <2>1
<1>2. CASE PromoteMove(c)
  <2>1. /\ stored' = [stored EXCEPT ![request[c].doc] = @ \cup {"source"}]
        /\ "root" \in stored[request[c].doc]
        /\ UNCHANGED record
    BY <1>2 DEF PromoteMove, Store
  <2> QED BY <2>1
<1>3. CASE Accept(c) \/ DeleteMark(c)
  <2>1. UNCHANGED stored BY <1>3 DEF Accept, DeleteMark
  <2>2. \A d \in Documents : record'[d] \in {record[d], "accepted", "deleting"}
    BY <1>3 DEF Accept, DeleteMark, SetRecord
  <2> QED BY <2>1, <2>2
<1>4. CASE ~PromoteMkdir(c) /\ ~PromoteMove(c) /\ ~Accept(c) /\ ~DeleteMark(c)
  <2>1. UNCHANGED <<record, stored>>
    BY <1>4 DEF BeginRequest, Begin, RequestStep, UploadKnown, UploadNew, PromoteCheck,
                PromoteRaises, DeleteDone, DeleteWanted, DeleteCheck, BeginPublish,
                PublishStep, Abort
  <2> QED BY <2>1
<1> QED BY <1>1, <1>2, <1>3, <1>4

\* Requests keep the invariant of files and statuses.
LEMMA RequestKeepsFiles ==
    ASSUME Context, FilesInv, NEW c \in Callers,
           BeginRequest(c) \/ RequestStep(c) \/ Abort(c)
    PROVE  FilesInv'
<1>1. UNCHANGED <<worker, pipeline>> BY RequestsAgree DEF Context
<1>2. Busy \/ pipeline.pc \in {"purge", "rmtree"} => Subject \in Documents
  BY SubjectIsDocument DEF Busy, Context
<1>3. Subject' = Subject BY <1>1 DEF Subject
<1> HIDE DEF Subject
<1>4. Rooted' BY RequestFiles DEF FilesInv
<1>5. Progress' BY <1>1, <1>2, <1>3, RequestFiles DEF FilesInv, Progress, Busy
<1>6. Erased' BY <1>1, <1>2, <1>3, RequestFiles DEF FilesInv, Erased, Busy
<1>7. Remaining' BY <1>1, <1>2, <1>3, RequestFiles DEF FilesInv, Remaining
<1>8. TargetFits' BY <1>1 DEF FilesInv, TargetFits, Busy
<1>9. ActingLive' BY <1>1, <1>2, <1>3, RequestFiles DEF FilesInv, ActingLive, Busy
<1>10. OutcomeFits' BY <1>1, <1>2, <1>3, RequestFiles DEF FilesInv, OutcomeFits, Busy
<1>11. DeletedIsErased' BY RequestFiles DEF FilesInv, DeletedIsErased
<1> QED BY <1>4, <1>5, <1>6, <1>7, <1>8, <1>9, <1>10, <1>11 DEF FilesInv

\* A raise, wherever it comes from, leaves files and statuses alone.
LEMMA RaiseKeepsFiles ==
    ASSUME FilesInv, pipeline' = Pipeline("get", "failed"), UNCHANGED <<record, stored>>,
           worker'.job = worker.job, Subject' = Subject,
           worker.job \in Deletions => stored[Subject] \cap Derived = {}
    PROVE  FilesInv'
BY DEF FilesInv, Rooted, Progress, Erased, Remaining, TargetFits, ActingLive, OutcomeFits,
       DeletedIsErased, Busy, Made, Pipeline

\* Between jobs there is nothing to say of the pipeline.
LEMMA NoJobKeepsFiles ==
    ASSUME FilesInv, UNCHANGED <<record, stored>>,
           pipeline'.pc \in {"none", "exit"} \/ (pipeline'.pc = "rmtree" /\ Remaining')
    PROVE  FilesInv'
BY DEF FilesInv, Rooted, Progress, Erased, Remaining, TargetFits, ActingLive, OutcomeFits,
       DeletedIsErased, Busy

\* The queue keeps the worker's job while process_one has it.
LEMMA SubjectStays ==
    ASSUME Context, StatusValid \/ StatusInvalid \/ StatusPut \/ Parse \/ ParseRaises
                    \/ ChunkText \/ ChunkRaises \/ WriteIndex \/ RmtreeList
                    \/ RmtreeUnlink \/ RmtreeRmdir \/ PurgeStep \/ PurgeReturns
                    \/ PurgeFails \/ Settle
    PROVE  worker'.job = worker.job /\ Subject' = Subject
<1> USE DEF Context, Inductive, QueueTypeOK, Worker
<1>1. CASE PurgeStep \/ PurgeReturns \/ PurgeFails \/ Settle
  BY <1>1 DEF PurgeStep, BeginPurge, PurgeNextDirectory, PurgeOne, PurgeReturns, PurgeDone,
              PurgeFails, PurgeRaises, Settle, CompleteWrite, FailWrite, WorkerOn, WorkerAt,
              Subject
<1>2. CASE ~(PurgeStep \/ PurgeReturns \/ PurgeFails \/ Settle)
  <2>1. UNCHANGED worker
    BY <1>2 DEF StatusValid, StatusInvalid, StatusPut, Parse, ParseRaises, ChunkText,
                ChunkRaises, WriteIndex, RmtreeList, RmtreeUnlink, RmtreeRmdir, queueVars
  <2> QED BY <2>1 DEF Subject
<1> QED BY <1>1, <1>2

\* What the worker writes is on disk before the status that says so.
LEMMA ProducesKeepsFiles ==
    ASSUME Context, FilesInv, pipeline.pc = "act", UNCHANGED record,
           Subject' = Subject, worker'.job = worker.job,
           NEW artifact \in Derived, NEW next \in {"chunking", "indexing", "ready"},
           Produces(artifact, next),
           Made(next) \subseteq stored[Subject] \cup {"root", artifact}
    PROVE  FilesInv'
<1>1. Subject \in Documents BY SubjectIsDocument DEF Context
<1>2. /\ stored' = [stored EXCEPT ![Subject] = @ \cup {"root", artifact}]
      /\ pipeline' = Pipeline("get", next)
  BY DEF Produces, Store
<1>3. stored \in [Documents -> SUBSET Artifacts] BY DEF Context, ControlOK
<1>4. record[Subject] # "deleted" BY DEF FilesInv, ActingLive
<1> HIDE DEF Subject
<1>5. Rooted' BY <1>1, <1>2, <1>3 DEF FilesInv, Rooted
<1>6. Progress' BY <1>1, <1>2, <1>3 DEF Progress, Pipeline
<1>7. worker.job \notin Deletions BY DEF FilesInv, ActingLive, TargetFits, Busy
<1>8. Erased' /\ TargetFits' BY <1>2, <1>7 DEF Erased, TargetFits, Pipeline, Busy
<1>9. Remaining' /\ ActingLive' /\ OutcomeFits'
  BY <1>2 DEF Remaining, ActingLive, OutcomeFits, Pipeline
<1>10. DeletedIsErased' BY <1>1, <1>2, <1>3, <1>4 DEF FilesInv, DeletedIsErased
<1> QED BY <1>5, <1>6, <1>8, <1>9, <1>10 DEF FilesInv

\* Parsing, chunking and indexing keep the invariant.
LEMMA IngestKeepsFiles ==
    ASSUME Context, FilesInv, Parse \/ ChunkText \/ WriteIndex
    PROVE  FilesInv'
<1>1. Subject' = Subject /\ worker'.job = worker.job BY SubjectStays
<1>2. pipeline.pc = "act" /\ UNCHANGED record BY DEF Parse, ChunkText, WriteIndex
<1>3. Subject \in Documents /\ stored[Subject] \subseteq Artifacts
  BY <1>2, SubjectIsDocument DEF Context, ControlOK
<1>4. stored[Subject] # {} => "root" \in stored[Subject]
  BY <1>3 DEF FilesInv, Rooted
<1>5. Made(pipeline.target) \subseteq stored[Subject]
  BY <1>2 DEF FilesInv, Progress, Busy
<1>6. CASE Parse
  <2>1. "source" \in stored[Subject] /\ Produces("elements", "chunking")
    BY <1>6 DEF Parse
  <2> QED BY <1>1, <1>2, <2>1, ProducesKeepsFiles DEF Made, Derived
<1>7. CASE ChunkText
  <2>1. pipeline.target = "chunking" /\ Produces("chunks", "indexing")
    BY <1>7 DEF ChunkText
  <2> QED BY <1>1, <1>2, <1>5, <2>1, ProducesKeepsFiles DEF Made, Derived
<1>8. CASE WriteIndex
  <2>1. pipeline.target = "indexing" /\ Produces("index", "ready")
    BY <1>8 DEF WriteIndex
  <2>2. Made("ready") \subseteq stored[Subject] \cup {"root", "index"}
    BY <1>5, <2>1 DEF Made, Artifacts, Derived
  <2> QED BY <1>1, <1>2, <2>1, <2>2, ProducesKeepsFiles DEF Derived
<1> QED BY <1>6, <1>7, <1>8

\* Removing a document's directory, file by file, keeps the invariant.
LEMMA RmtreeKeepsFiles ==
    ASSUME Context, FilesInv, RmtreeList \/ RmtreeUnlink \/ RmtreeRmdir
    PROVE  FilesInv'
<1>1. Subject' = Subject /\ worker'.job = worker.job BY SubjectStays
<1>2. pipeline.pc = "rmtree" /\ UNCHANGED record
  BY DEF RmtreeList, RmtreeUnlink, RmtreeRmdir
<1>3. Subject \in Documents BY <1>2, SubjectIsDocument DEF Context
<1>4. /\ stored \in [Documents -> SUBSET Artifacts]
      /\ pipeline \in [pc : PipelinePC, target : DocumentStatus \cup {"none"},
                       todo : SUBSET Artifacts, exiting : BOOLEAN]
  BY DEF Context, ControlOK
<1>5. CASE RmtreeList
  <2>1. UNCHANGED stored BY <1>5 DEF RmtreeList
  <2>2. CASE "root" \in stored[Subject]
    <3>1. pipeline' = [pipeline EXCEPT !.todo = stored[Subject]]
      BY <1>5, <2>2 DEF RmtreeList
    <3>2. pipeline'.pc = "rmtree" /\ pipeline'.todo = stored[Subject] BY <1>2, <1>4, <3>1
    <3>3. Remaining' BY <1>1, <2>1, <3>2 DEF Remaining
    <3> QED BY <1>2, <2>1, <3>2, <3>3, NoJobKeepsFiles
  <2>3. CASE "root" \notin stored[Subject]
    <3>1. stored[Subject] = {} BY <1>3, <2>3 DEF FilesInv, Rooted
    <3>2. pipeline' = [pipeline EXCEPT !.pc = "purge"] BY <1>5, <2>3 DEF RmtreeList
    <3>3. pipeline'.pc = "purge" BY <1>4, <3>2
    <3> QED BY <1>1, <1>2, <2>1, <3>1, <3>3
            DEF FilesInv, Rooted, Progress, Erased, Remaining, TargetFits, ActingLive,
                OutcomeFits, DeletedIsErased, Busy
  <2> QED BY <2>2, <2>3
<1>6. CASE RmtreeUnlink
  <2>1. PICK a \in pipeline.todo \ {"root"} :
           /\ stored' = [stored EXCEPT ![Subject] = @ \ {a}]
           /\ pipeline' = [pipeline EXCEPT !.todo = @ \ {a}]
    BY <1>6 DEF RmtreeUnlink
  <2>2. pipeline'.pc = "rmtree" /\ pipeline'.todo = pipeline.todo \ {a} BY <1>2, <1>4, <2>1
  <2> HIDE DEF Subject
  <2>3. Rooted' BY <1>3, <1>4, <2>1 DEF FilesInv, Rooted
  <2>4. DeletedIsErased' BY <1>2, <1>3, <1>4, <2>1 DEF FilesInv, DeletedIsErased
  <2>5. Remaining'
    BY <1>1, <1>2, <1>3, <1>4, <2>1, <2>2 DEF FilesInv, Remaining
  <2>6. Progress' /\ Erased' /\ TargetFits' /\ ActingLive' /\ OutcomeFits'
    BY <2>2 DEF Progress, Erased, TargetFits, ActingLive, OutcomeFits, Busy
  <2> QED BY <2>3, <2>4, <2>5, <2>6 DEF FilesInv
<1>7. CASE RmtreeRmdir
  <2>1. CASE stored[Subject] = {"root"}
    <3>1. /\ stored' = [stored EXCEPT ![Subject] = {}]
          /\ pipeline' = Pipeline("purge", "deleted")
      BY <1>7, <2>1 DEF RmtreeRmdir
    <3> HIDE DEF Subject
    <3>2. Rooted' BY <1>3, <1>4, <3>1 DEF FilesInv, Rooted
    <3>3. DeletedIsErased' BY <1>2, <1>3, <1>4, <3>1 DEF FilesInv, DeletedIsErased
    <3>4. Erased' BY <1>1, <1>3, <1>4, <3>1 DEF Erased
    <3>5. Progress' /\ Remaining' /\ TargetFits' /\ ActingLive' /\ OutcomeFits'
      BY <3>1 DEF Progress, Remaining, TargetFits, ActingLive, OutcomeFits, Busy, Pipeline
    <3> QED BY <3>2, <3>3, <3>4, <3>5 DEF FilesInv
  <2>2. CASE stored[Subject] # {"root"}
    <3>1. pipeline' = Pipeline("get", "failed") /\ UNCHANGED stored
      BY <1>7, <2>2 DEF RmtreeRmdir, Raise
    <3>2. stored[Subject] \cap Derived = {}
      BY <1>2, <1>7 DEF RmtreeRmdir, FilesInv, Remaining, Derived
    <3> QED BY <1>1, <1>2, <3>1, <3>2, RaiseKeepsFiles
  <2> QED BY <2>1, <2>2
<1> QED BY <1>5, <1>6, <1>7

\* set_status, over a record that may have changed since its read, keeps it.
LEMMA StatusKeepsFiles ==
    ASSUME Context, FilesInv, StatusValid \/ StatusInvalid \/ StatusPut
    PROVE  FilesInv'
<1>1. Subject' = Subject /\ worker'.job = worker.job BY SubjectStays
<1>2. pipeline.pc \in {"get", "put"} /\ UNCHANGED stored
  BY DEF StatusValid, StatusInvalid, StatusPut
<1>3. Subject \in Documents BY <1>2, SubjectIsDocument DEF Context
<1>4. /\ record \in [Documents -> DocumentStatus \cup {"none"}]
      /\ pipeline \in [pc : PipelinePC, target : DocumentStatus \cup {"none"},
                       todo : SUBSET Artifacts, exiting : BOOLEAN]
  BY DEF Context, ControlOK
<1>5. CASE StatusValid
  <2>1. pipeline'.pc = "put" /\ pipeline'.target = pipeline.target /\ UNCHANGED record
    BY <1>4, <1>5 DEF StatusValid
  <2> QED BY <1>1, <1>2, <2>1
          DEF FilesInv, Rooted, Progress, Erased, Remaining, TargetFits, ActingLive,
              OutcomeFits, DeletedIsErased, Busy
<1>6. CASE StatusInvalid
  <2>1. UNCHANGED record BY <1>6 DEF StatusInvalid
  <2>2. CASE pipeline.target = "failed"
    <3>1. pipeline' = [pipeline EXCEPT !.pc = "outcome", !.exiting = TRUE]
      BY <1>6, <2>2 DEF StatusInvalid
    <3>2. pipeline'.pc = "outcome" /\ pipeline'.target = "failed" BY <1>4, <2>2, <3>1
    <3> QED BY <1>1, <1>2, <2>1, <3>2
            DEF FilesInv, Rooted, Progress, Erased, Remaining, TargetFits, ActingLive,
                OutcomeFits, DeletedIsErased, Busy, Made
  <2>3. CASE pipeline.target # "failed"
    <3>1. pipeline' = Pipeline("get", "failed") BY <1>6, <2>3 DEF StatusInvalid, Raise
    <3> QED BY <1>1, <1>2, <2>1, <3>1, RaiseKeepsFiles DEF FilesInv, Erased, Busy
  <2> QED BY <2>2, <2>3
<1>7. CASE StatusPut
  <2>1. record' = [record EXCEPT ![Subject] = pipeline.target]
    BY <1>7 DEF StatusPut, SetRecord
  <2>2. /\ pipeline'.target = pipeline.target
        /\ pipeline'.pc \in {"act", "outcome"}
        /\ pipeline'.pc = "act" => pipeline.target \in {"parsing", "chunking", "indexing"}
    BY <1>4, <1>7 DEF StatusPut
  <2>3. Busy BY <1>2 DEF Busy
  <2> HIDE DEF Subject
  <2>4. Rooted' BY <1>2 DEF FilesInv, Rooted
  <2>5. Progress' BY <1>1, <1>2, <2>2, <2>3 DEF FilesInv, Progress
  <2>6. Erased' BY <1>1, <1>2, <2>2, <2>3 DEF FilesInv, Erased, Busy
  <2>7. ActingLive' BY <1>1, <1>3, <1>4, <2>1, <2>2 DEF ActingLive
  <2>8. DeletedIsErased'
    BY <1>2, <1>3, <1>4, <2>1, <2>3 DEF FilesInv, DeletedIsErased, Erased, TargetFits
  <2>9. TargetFits' /\ Remaining'
    BY <1>1, <2>2, <2>3 DEF FilesInv, TargetFits, Remaining, Busy
  <2>10. OutcomeFits'
    <3>1. pipeline'.pc = "outcome" => pipeline.target \notin {"parsing", "chunking", "indexing"}
      BY <1>4, <1>7 DEF StatusPut
    <3> QED BY <1>1, <1>3, <1>4, <2>1, <2>2, <2>3, <3>1 DEF FilesInv, OutcomeFits, TargetFits
  <2> QED BY <2>4, <2>5, <2>6, <2>7, <2>8, <2>9, <2>10 DEF FilesInv
<1> QED BY <1>5, <1>6, <1>7

\* The purge and the outcome keep the invariant.
LEMMA PurgeKeepsFiles ==
    ASSUME Context, FilesInv, PurgeStep \/ PurgeReturns \/ PurgeFails \/ Settle
    PROVE  FilesInv'
<1>1. /\ Subject' = Subject /\ worker'.job = worker.job
      /\ UNCHANGED <<record, stored>>
  BY SubjectStays DEF PurgeStep, PurgeReturns, PurgeFails, Settle
<1>2. CASE PurgeStep \/ Settle
  <2>1. UNCHANGED pipeline BY <1>2 DEF PurgeStep, Settle
  <2> QED BY <1>1, <2>1 DEF FilesInv, Rooted, Progress, Erased, Remaining, TargetFits,
                            ActingLive, OutcomeFits, DeletedIsErased, Busy
<1>3. CASE PurgeReturns \/ PurgeFails
  <2>1. worker.pc = "purge"
    BY <1>3 DEF PurgeReturns, PurgeDone, PurgeFails, PurgeRaises
  <2>2. pipeline.pc = "purge" /\ worker.job \in Deletions
    BY <2>1 DEF Context, ControlOK, PipelineAgrees, PipelinePC, Holding
  <2>3. stored[Subject] \cap Derived = {} BY <2>2 DEF FilesInv, Erased
  <2>4. CASE PurgeReturns
    <3>1. pipeline' = Pipeline("get", "deleted") BY <2>4 DEF PurgeReturns
    <3> QED BY <1>1, <2>2, <2>3, <3>1
            DEF FilesInv, Rooted, Progress, Erased, Remaining, TargetFits, ActingLive,
                OutcomeFits, DeletedIsErased, Busy, Made, Pipeline
  <2>5. CASE PurgeFails
    <3>1. pipeline' = Pipeline("get", "failed") BY <2>5 DEF PurgeFails, Raise
    <3> QED BY <1>1, <2>3, <3>1, RaiseKeepsFiles
  <2> QED BY <1>3, <2>4, <2>5
<1> QED BY <1>2, <1>3

\* A job starts with nothing claimed about its files.
LEMMA BeginJobKeepsFiles ==
    ASSUME Context, FilesInv, BeginJob PROVE FilesInv'
<1>1. UNCHANGED <<record, stored>> /\ worker'.job = worker.job
  BY DEF BeginJob, StampClaim, Context, Inductive, QueueTypeOK, Worker
<1>2. CASE worker.job \in Deletions
  <2>1. pipeline' = Pipeline("rmtree", "deleted") BY <1>2 DEF BeginJob
  <2>2. pipeline'.pc = "rmtree" /\ Remaining' BY <2>1 DEF Pipeline, Remaining
  <2> QED BY <1>1, <2>2, NoJobKeepsFiles
<1>3. CASE worker.job \notin Deletions
  <2>1. pipeline' = Pipeline("get", "parsing") BY <1>3 DEF BeginJob
  <2> QED BY <1>1, <1>3, <2>1
          DEF FilesInv, Rooted, Progress, Erased, Remaining, TargetFits, ActingLive,
              OutcomeFits, DeletedIsErased, Busy, Made, Pipeline
<1> QED BY <1>2, <1>3

\* Every step of the worker keeps the invariant.
LEMMA PipelineKeepsFiles ==
    ASSUME Context, FilesInv, PipelineStep \/ Kill \/ Ageing PROVE FilesInv'
<1>1. CASE ClaimStep
  <2>1. pipeline'.pc = "none" /\ UNCHANGED <<record, stored>> BY <1>1 DEF ClaimStep
  <2> QED BY <2>1, NoJobKeepsFiles
<1>2. CASE EndJob \/ Exit \/ Kill
  <2>1. pipeline'.pc \in {"none", "exit"} /\ UNCHANGED <<record, stored>>
    BY <1>2 DEF EndJob, Exit, Kill, NoPipeline, Pipeline
  <2> QED BY <2>1, NoJobKeepsFiles
<1>3. CASE Ageing
  <2>1. UNCHANGED <<worker, record, stored, pipeline>>
    BY <1>3 DEF Ageing, Age, controlVars
  <2> QED BY <2>1 DEF FilesInv, Rooted, Progress, Erased, Remaining, TargetFits, ActingLive,
                      OutcomeFits, DeletedIsErased, Busy, Subject
<1>4. CASE ParseRaises \/ ChunkRaises
  <2>1. /\ pipeline' = Pipeline("get", "failed") /\ UNCHANGED <<record, stored>>
        /\ pipeline.pc = "act"
    BY <1>4 DEF ParseRaises, ChunkRaises, Raise
  <2>2. worker.job \in Deletions => stored[Subject] \cap Derived = {}
    BY <2>1 DEF FilesInv, Erased, Busy
  <2> QED BY <1>4, <2>1, <2>2, SubjectStays, RaiseKeepsFiles
<1> QED BY <1>1, <1>2, <1>3, <1>4, BeginJobKeepsFiles, StatusKeepsFiles, IngestKeepsFiles,
           RmtreeKeepsFiles, PurgeKeepsFiles DEF PipelineStep

\* What the file invariant's proof stands on holds always.
LEMMA ContextAlways == Spec => []Context
BY QueueAlways, RequestAlways, ControlAlways, PTL DEF Context

\* The invariant of files and statuses is inductive.
LEMMA FilesAlways == Spec => []FilesInv
<1>1. Init => FilesInv
  BY DEF Init, FilesInv, Rooted, Progress, Erased, Remaining, TargetFits, ActingLive,
         OutcomeFits, DeletedIsErased, Busy, NoPipeline, Pipeline
<1>2. Context /\ FilesInv /\ [Next]_vars => FilesInv'
  <2> SUFFICES ASSUME Context, FilesInv, [Next]_vars PROVE FilesInv'
    OBVIOUS
  <2>1. CASE UNCHANGED vars
    BY <2>1 DEF vars, queueVars, controlVars, FilesInv, Rooted, Progress, Erased, Remaining,
                TargetFits, ActingLive, OutcomeFits, DeletedIsErased, Busy, Subject
  <2>2. ASSUME NEW c \in Callers, BeginRequest(c) \/ RequestStep(c) \/ Abort(c)
        PROVE  FilesInv'
    BY <2>2, RequestKeepsFiles
  <2>3. CASE PipelineStep \/ Kill \/ Ageing BY <2>3, PipelineKeepsFiles
  <2> QED BY <2>1, <2>2, <2>3 DEF Next
<1> QED BY <1>1, <1>2, ContextAlways, PTL DEF Spec

\* A document that is `deleted` has no derived text on disk, for any number of
\* documents, requests, crashes and lost status updates.
THEOREM DeletedStaysErased == Spec => []DeletedIsErased
<1>1. FilesInv => DeletedIsErased BY DEF FilesInv
<1> QED BY <1>1, FilesAlways, PTL

\* Only the worker's own StatusPut makes a document ready.
LEMMA ReadyStep ==
    ASSUME Context, FilesInv, [Next]_vars, NEW d \in Documents,
           record[d] # "ready", record'[d] = "ready"
    PROVE  stored[d] = Artifacts
<1>1. ASSUME NEW c \in Callers, BeginRequest(c) \/ RequestStep(c) \/ Abort(c) PROVE FALSE
  BY <1>1, RequestFiles DEF FilesInv
<1>2. CASE StatusPut
  <2>1. /\ pipeline.pc = "put"
        /\ record' = [record EXCEPT ![Subject] = pipeline.target]
    BY <1>2 DEF StatusPut, SetRecord
  <2>2. Subject = d /\ pipeline.target = "ready"
    BY <2>1 DEF Context, ControlOK
  <2>3. Artifacts \subseteq stored[d]
    BY <2>1, <2>2 DEF FilesInv, Progress, Busy, Made
  <2> QED BY <2>3 DEF Context, ControlOK
<1>3. CASE (PipelineStep /\ ~StatusPut) \/ Kill \/ Ageing \/ UNCHANGED vars
  <2>1. UNCHANGED record
    BY <1>3 DEF PipelineStep, ClaimStep, BeginJob, StatusValid, StatusInvalid, Parse,
                ParseRaises, ChunkText, ChunkRaises, WriteIndex, RmtreeList, RmtreeUnlink,
                RmtreeRmdir, PurgeStep, PurgeReturns, PurgeFails, Settle, EndJob, Exit,
                Kill, Ageing, controlVars, vars
  <2> QED BY <2>1
<1> QED BY <1>1, <1>2, <1>3 DEF Next

\* `ready` is only ever committed over a full set of artifacts.
THEOREM ReadyMeansComplete == Spec => ReadyIsComplete
<1>1. Context /\ FilesInv /\ [Next]_vars =>
        [\A d \in Documents :
           record[d] # "ready" /\ record'[d] = "ready" => stored[d] = Artifacts]_vars
  BY ReadyStep
<1> QED BY <1>1, ContextAlways, FilesAlways, PTL DEF Spec, ReadyIsComplete

\* Outcomes are added to completed/ by Settle alone, and only for the job in hand.
LEMMA OutcomeStep ==
    ASSUME Context, FilesInv, [Next]_vars, NEW j \in completed' \ completed
    PROVE  /\ j = worker.job /\ j \in Jobs
           /\ pipeline.pc = "outcome" /\ pipeline.target # "failed"
<1>1. CASE Settle
  <2>1. CASE pipeline.target = "failed"
    BY <1>1, <2>1 DEF Settle, FailWrite
  <2>2. CASE pipeline.target # "failed"
    <3>1. completed' = completed \cup {worker.job} /\ pipeline.pc = "outcome"
      BY <1>1, <2>2 DEF Settle, CompleteWrite
    <3> QED BY <2>2, <3>1, SubjectIsDocument DEF Context
  <2> QED BY <2>1, <2>2
<1>2. ASSUME NEW c \in Callers, BeginRequest(c) \/ RequestStep(c) \/ Abort(c) PROVE FALSE
  <2>1. CASE Publish(c) BY <2>1 DEF Publish, PublishCall, files
  <2>2. CASE CallStep(c)
    BY <2>2 DEF CallStep, FindHit, FindMiss, ReadCoalesced, ReadRaises, ReadSuperseded,
                UnlinkExisting, WritePending, files
  <2>3. CASE Abandon(c) BY <2>3 DEF Abandon, files
  <2>4. CASE UNCHANGED queueVars BY <2>4 DEF queueVars
  <2> QED BY <1>2, <2>1, <2>2, <2>3, <2>4, RequestRunsQueue DEF Context
<1>3. CASE ClaimStep \/ BeginJob \/ PurgeReturns \/ PurgeFails \/ EndJob \/ Exit \/ Kill \/ Ageing
  <2>1. UNCHANGED completed
    BY <1>3 DEF ClaimStep, Start, RecoverUnlink, RecoverDone, ListPending, StampRaises,
                RecoverSkip, RecoverWrite, RecoverRaises, ClaimMove, BeginJob, StampClaim,
                PurgeReturns, PurgeDone, PurgeFails, PurgeRaises, EndJob, Release, Exit, Kill,
                Crash, Ageing, Age, files
  <2> QED BY <2>1
<1>4. CASE PurgeStep
  BY <1>4 DEF PurgeStep, BeginPurge, PurgeNextDirectory, PurgeOne, files
<1>5. CASE \/ StatusValid \/ StatusInvalid \/ StatusPut \/ Parse \/ ParseRaises \/ ChunkText
           \/ ChunkRaises \/ WriteIndex \/ RmtreeList \/ RmtreeUnlink \/ RmtreeRmdir
           \/ UNCHANGED vars
  <2>1. UNCHANGED completed
    BY <1>5 DEF StatusValid, StatusInvalid, StatusPut, Parse, ParseRaises, ChunkText,
                ChunkRaises, WriteIndex, RmtreeList, RmtreeUnlink, RmtreeRmdir, vars, queueVars
  <2> QED BY <2>1
<1> QED BY <1>1, <1>2, <1>3, <1>4, <1>5 DEF Next, PipelineStep

\* A completed job tells the truth about the files of its document.
THEOREM OutcomesAreHonest == Spec => OutcomeIsHonest
<1>1. ASSUME Context, FilesInv, [Next]_vars, NEW d \in Documents
      PROVE  /\ IngestJob[d] \in completed' \ completed =>
                   stored[d] = Artifacts /\ record[d] \in {"ready", "accepted", "deleting"}
             /\ DeleteJob[d] \in completed' \ completed =>
                   /\ stored[d] \cap Derived = {}
                   /\ record[d] \in {"deleted", "accepted", "deleting"}
  <2> USE <1>1
  <2>1. ASSUME IngestJob[d] \in completed' \ completed
        PROVE  stored[d] = Artifacts /\ record[d] \in {"ready", "accepted", "deleting"}
    <3>1. /\ worker.job = IngestJob[d] /\ pipeline.pc = "outcome"
          /\ pipeline.target # "failed"
      BY <2>1, OutcomeStep
    <3>2. Subject = d /\ worker.job \notin Deletions
      BY <3>1, IngestionAssumption DEF Subject
    <3>3. pipeline.target = "ready" /\ record[d] \in {"ready", "accepted", "deleting"}
      BY <3>1, <3>2 DEF FilesInv, TargetFits, OutcomeFits, Busy
    <3>4. Artifacts \subseteq stored[d]
      BY <3>1, <3>2, <3>3 DEF FilesInv, Progress, Busy, Made
    <3> QED BY <3>3, <3>4 DEF Context, ControlOK
  <2>2. ASSUME DeleteJob[d] \in completed' \ completed
        PROVE  /\ stored[d] \cap Derived = {}
               /\ record[d] \in {"deleted", "accepted", "deleting"}
    <3>1. /\ worker.job = DeleteJob[d] /\ pipeline.pc = "outcome"
          /\ pipeline.target # "failed"
      BY <2>2, OutcomeStep
    <3>2. Subject = d /\ worker.job \in Deletions
      BY <3>1, IngestionAssumption DEF Subject
    <3> QED BY <3>1, <3>2 DEF FilesInv, TargetFits, OutcomeFits, Erased, Busy
  <2> QED BY <2>1, <2>2
<1>2. Context /\ FilesInv /\ [Next]_vars =>
        [\A d \in Documents :
           /\ IngestJob[d] \in completed' \ completed =>
                 stored[d] = Artifacts /\ record[d] \in {"ready", "accepted", "deleting"}
           /\ DeleteJob[d] \in completed' \ completed =>
                 stored[d] \cap Derived = {} /\ record[d] \in {"deleted", "accepted", "deleting"}]_vars
  BY <1>1
<1> QED BY <1>2, ContextAlways, FilesAlways, PTL DEF Spec, OutcomeIsHonest


-----------------------------------------------------------------------------
(* Jobs and records. *)

Known(d) == record[d] # "none"
JobsKnown ==
    /\ \A j \in Live : Known(DocumentOf[j])
    /\ \A c \in Callers : call[c].pc # "idle" => Known(DocumentOf[call[c].job])
    /\ \A c \in Callers : request[c].pc \in {"publish", "publishing"} => Known(request[c].doc)

\* The worker publishes nothing.  A job stops being live by its own outcome, or
\* by the deletion of its document.
LEMMA WorkerOnlyWithdraws ==
    ASSUME Inductive, WorkerStep \/ Crash \/ \E j \in Jobs : Age(j)
    PROVE  /\ UNCHANGED call
           /\ Live' \subseteq Live
           /\ \A j \in Live \ Live' :
                 \/ worker.pc = "settled" /\ j = worker.job
                 \/ /\ j # worker.job /\ worker.job \in Deletions
                    /\ DocumentOf[j] = DocumentOf[worker.job]
<1> USE DEF Inductive, QueueTypeOK
<1>1. CASE Start \/ RecoverUnlink \/ RecoverDone
           \/ \E j \in Jobs : RecoverSkip(j) \/ RecoverWrite(j) \/ RecoverRaises(j)
  <2>1. Live' = Live BY <1>1, RecoveryRefines DEF AbstractStutter
  <2>2. UNCHANGED call
    <3>1. CASE Start \/ RecoverUnlink \/ RecoverDone
      BY <3>1 DEF Start, RecoverUnlink, RecoverDone
    <3>2. ASSUME NEW j \in Jobs, RecoverSkip(j) \/ RecoverWrite(j) \/ RecoverRaises(j)
          PROVE  UNCHANGED call
      BY <3>2 DEF RecoverSkip, RecoverWrite, RecoverRaises
    <3> QED BY <1>1, <3>1, <3>2
  <2> QED BY <2>1, <2>2
<1>2. CASE ListPending \/ StampRaises \/ BeginPurge \/ PurgeNextDirectory \/ PurgeDone
           \/ CompleteWrite \/ FailWrite \/ Crash
  <2>1. UNCHANGED <<pending, processing, call>>
    BY <1>2 DEF ListPending, StampRaises, BeginPurge, PurgeNextDirectory, PurgeDone,
                CompleteWrite, FailWrite, Crash, files
  <2> QED BY <2>1 DEF Live
<1>3. CASE StampClaim
  <2>1. worker.job \in Live
    BY <1>3 DEF StampClaim, QueueInv, ClaimKeepsManifest, Holding, Live
  <2> QED BY <1>3, <2>1, ReadableManifest, FreshManifest, QueueAssumption
          DEF StampClaim, Live, Readable, Exists
<1>4. ASSUME NEW j \in Jobs, ClaimMove(j) PROVE Live' = Live /\ UNCHANGED call
  BY <1>4 DEF ClaimMove, Live
<1>5. ASSUME NEW j \in Jobs, PurgeOne(j)
      PROVE  /\ Live' \subseteq Live /\ UNCHANGED call
             /\ \A k \in Live \ Live' : /\ k # worker.job /\ worker.job \in Deletions
                                        /\ DocumentOf[k] = DocumentOf[worker.job]
  BY <1>5 DEF PurgeOne, Unlinked, QueueInv, Live, Worker
<1>6. ASSUME NEW j \in Jobs, PurgeRaises(j) PROVE Live' = Live /\ UNCHANGED call
  BY <1>6 DEF PurgeRaises, Live, files
<1>7. CASE Release BY <1>7 DEF Release, Live
<1>8. ASSUME NEW j \in Jobs, Age(j) PROVE Live' = Live /\ UNCHANGED call
  <2>1. processing[j] \in Manifest BY <1>8 DEF Age
  <2>2. [processing[j] EXCEPT !.old = TRUE] \in Manifest BY <2>1 DEF Manifest
  <2>3. [processing[j] EXCEPT !.old = TRUE] # Absent BY <2>2, AbsentAssumption
  <2> QED BY <1>8, <2>3 DEF Age, Live
<1> QED BY <1>1, <1>2, <1>3, <1>4, <1>5, <1>6, <1>7, <1>8 DEF WorkerStep

\* What process_one does, it does to the queue as the worker.
LEMMA PipelineOnlyWithdraws ==
    ASSUME Inductive, PipelineStep \/ Kill \/ Ageing
    PROVE  /\ UNCHANGED call
           /\ Live' \subseteq Live
           /\ \A j \in Live \ Live' :
                 \/ worker.pc = "settled" /\ j = worker.job
                 \/ /\ j # worker.job /\ worker.job \in Deletions
                    /\ DocumentOf[j] = DocumentOf[worker.job]
<1>1. CASE WorkerStep \/ Crash \/ \E j \in Jobs : Age(j) BY <1>1, WorkerOnlyWithdraws
<1>2. CASE UNCHANGED queueVars BY <1>2 DEF queueVars, files, Live
<1> QED BY <1>1, <1>2, PipelineRunsQueue DEF Kill, Ageing

\* No step takes a record away.
LEMMA RecordsStay ==
    ASSUME Context, FilesInv, [Next]_vars, NEW d \in Documents, Known(d)
    PROVE  Known(d)'
<1> USE DEF Known
<1>1. ASSUME NEW c \in Callers, BeginRequest(c) \/ RequestStep(c) \/ Abort(c) PROVE Known(d)'
  BY <1>1, RequestFiles DEF FilesInv
<1>2. CASE StatusPut
  <2>1. record' = [record EXCEPT ![Subject] = pipeline.target] /\ pipeline.pc = "put"
    BY <1>2 DEF StatusPut, SetRecord
  <2>2. pipeline.target # "none" BY <2>1 DEF FilesInv, TargetFits, Busy
  <2> QED BY <2>1, <2>2 DEF Context, ControlOK
<1>3. CASE (PipelineStep /\ ~StatusPut) \/ Kill \/ Ageing \/ UNCHANGED vars
  <2>1. UNCHANGED record
    BY <1>3 DEF PipelineStep, ClaimStep, BeginJob, StatusValid, StatusInvalid, Parse,
                ParseRaises, ChunkText, ChunkRaises, WriteIndex, RmtreeList, RmtreeUnlink,
                RmtreeRmdir, PurgeStep, PurgeReturns, PurgeFails, Settle, EndJob, Exit,
                Kill, Ageing, controlVars, vars
  <2> QED BY <2>1
<1> QED BY <1>1, <1>2, <1>3 DEF Next

\* A publish call keeps to its job, the only one it can make live.
LEMMA CallAddsItsJob ==
    ASSUME Inductive, NEW c \in Callers, CallStep(c) \/ Abandon(c)
    PROVE  /\ \A b \in Callers : call'[b].pc # "idle" =>
                 call[b].pc # "idle" /\ call'[b].job = call[b].job
           /\ Live' = Live \/ (call[c].pc # "idle" /\ Live' \subseteq Live \cup {call[c].job})
<1> USE DEF Inductive, QueueTypeOK, Call, Advance, Return, IdleCall, files, Live
<1>1. CASE FindHit(c) BY <1>1 DEF FindHit
<1>2. CASE FindMiss(c) BY <1>2 DEF FindMiss
<1>3. CASE ReadCoalesced(c) BY <1>3 DEF ReadCoalesced
<1>4. CASE ReadRaises(c) BY <1>4 DEF ReadRaises
<1>5. CASE ReadSuperseded(c) BY <1>5 DEF ReadSuperseded
<1>6. CASE UnlinkExisting(c) BY <1>6 DEF UnlinkExisting
<1>7. CASE WritePending(c) BY <1>7 DEF WritePending
<1>8. CASE Abandon(c) BY <1>8 DEF Abandon
<1> QED BY <1>1, <1>2, <1>3, <1>4, <1>5, <1>6, <1>7, <1>8 DEF CallStep

\* A request publishes the job of its own document, and only after the upsert.
LEMMA RequestKeepsKnown ==
    ASSUME Context, FilesInv, JobsKnown, NEW c \in Callers,
           BeginRequest(c) \/ RequestStep(c) \/ Abort(c)
    PROVE  JobsKnown'
<1> USE DEF Context, RequestOK
<1>1. \A d \in Documents : Known(d) => Known(d)'
  <2>1. [Next]_vars BY DEF Next
  <2> QED BY <2>1, RecordsStay
<1>2. \A j \in Jobs : DocumentOf[j] \in Documents BY IngestionAssumption
<1>3. \A b \in Callers : call[b].pc # "idle" => call[b].job \in Jobs
  BY DEF Inductive, QueueInv
<1>4. Live \subseteq Jobs /\ Live' \subseteq Jobs BY DEF Live
<1>5. CASE BeginPublish(c)
  <2> DEFINE j == IF request[c].kind = "delete"
                  THEN DeleteJob[request[c].doc] ELSE IngestJob[request[c].doc]
  <2>1. request[c].pc = "publish" /\ request[c].doc \in Documents
    BY <1>5 DEF BeginPublish
  <2>2. j \in Jobs /\ DocumentOf[j] = request[c].doc BY <2>1, IngestionAssumption, ZenonT(30)
  <2>3. /\ Live' = Live
        /\ \A b \in Callers : call'[b].pc # "idle" =>
             \/ call'[b].job = j
             \/ call[b].pc # "idle" /\ call'[b].job = call[b].job
    BY <1>5 DEF BeginPublish, PublishCall, files, Live, Inductive, QueueTypeOK, Call
  <2>4. Step(c, "publishing") BY <1>5 DEF BeginPublish
  <2>5. \A b \in Callers : request'[b].pc \in {"publish", "publishing"} =>
          /\ request[b].pc \in {"publish", "publishing"}
          /\ request'[b].doc = request[b].doc /\ request[b].doc \in Documents
    BY <2>1, <2>4 DEF Step
  <2> HIDE DEF j
  <2> QED BY <1>1, <1>2, <1>3, <1>4, <2>1, <2>2, <2>3, <2>5 DEF JobsKnown
<1>6. CASE PublishStep(c) \/ Abort(c)
  <2>1. CallStep(c) \/ Abandon(c) BY <1>6 DEF PublishStep, Abort
  <2>2. Respond(c) \/ UNCHANGED request BY <1>6 DEF PublishStep, Abort
  <2>3. \A b \in Callers : request'[b].pc \in {"publish", "publishing"} =>
          /\ request[b].pc \in {"publish", "publishing"}
          /\ request'[b].doc = request[b].doc /\ request[b].doc \in Documents
    BY <2>2 DEF Respond, IdleRequest
  <2> QED BY <1>1, <1>2, <1>3, <1>4, <2>1, <2>3, CallAddsItsJob DEF JobsKnown
<1>7. CASE Accept(c) \/ DeleteMark(c)
  <2>1. UNCHANGED <<call, Live>> BY <1>7 DEF Accept, DeleteMark, queueVars, files, Live
  <2>2. request[c].doc \in Documents BY <1>7 DEF Accept, DeleteMark
  <2>3. record'[request[c].doc] # "none"
    BY <1>7, <2>2 DEF Accept, DeleteMark, SetRecord, ControlOK
  <2>4. Step(c, "publish") BY <1>7 DEF Accept, DeleteMark
  <2>5. \A b \in Callers : request'[b].pc \in {"publish", "publishing"} =>
          /\ b = c \/ request[b].pc \in {"publish", "publishing"}
          /\ request'[b].doc = request[b].doc
          /\ request'[b].pc # "idle" /\ request[b].pc # "idle"
    BY <1>7, <2>4 DEF Step, Accept, DeleteMark
  <2> QED BY <1>1, <1>2, <1>3, <1>4, <2>1, <2>2, <2>3, <2>5 DEF JobsKnown, Known
<1>8. CASE /\ ~BeginPublish(c) /\ ~PublishStep(c) /\ ~Abort(c)
           /\ ~Accept(c) /\ ~DeleteMark(c)
  <2>1. UNCHANGED <<call, Live>>
    BY <1>8 DEF BeginRequest, Begin, RequestStep, UploadKnown, UploadNew, PromoteMkdir,
                PromoteCheck, PromoteMove, PromoteRaises, DeleteDone, DeleteWanted,
                DeleteCheck, queueVars, files, Live
  <2>2. \A b \in Callers : request'[b].pc \in {"publish", "publishing"} =>
          request'[b] = request[b]
    <3>1. CASE BeginRequest(c)
      <4>1. PICK kind \in Kinds, d \in Documents :
              request' = [request EXCEPT ![c] = [pc |-> "lookup", kind |-> kind, doc |-> d]]
        BY <3>1 DEF BeginRequest, Begin
      <4> QED BY <4>1
    <3>2. CASE DeleteCheck(c)
      <4>1. Step(c, "mark") \/ Respond(c) BY <3>2 DEF DeleteCheck
      <4> QED BY <4>1 DEF Step, Respond, IdleRequest
    <3>3. CASE \/ UploadKnown(c) \/ UploadNew(c) \/ PromoteMkdir(c) \/ PromoteCheck(c)
               \/ PromoteMove(c) \/ PromoteRaises(c) \/ DeleteDone(c) \/ DeleteWanted(c)
      BY <3>3 DEF UploadKnown, UploadNew, PromoteMkdir, PromoteCheck, PromoteMove,
                  PromoteRaises, DeleteDone, DeleteWanted, Step, Respond, IdleRequest
    <3> QED BY <1>8, <3>1, <3>2, <3>3 DEF RequestStep
  <2> QED BY <1>1, <1>2, <1>3, <1>4, <2>1, <2>2 DEF JobsKnown
<1> QED BY <1>5, <1>6, <1>7, <1>8

\* From the first publish on, every job in the queue has a record behind it.
LEMMA KnownAlways == Spec => []JobsKnown
<1>1. Init => JobsKnown
  BY DEF Init, QueueInit, JobsKnown, Live, IdleCall, IdleRequest
<1>2. Context /\ FilesInv /\ JobsKnown /\ [Next]_vars => JobsKnown'
  <2> SUFFICES ASSUME Context, FilesInv, JobsKnown, [Next]_vars PROVE JobsKnown'
    OBVIOUS
  <2>1. ASSUME NEW c \in Callers, BeginRequest(c) \/ RequestStep(c) \/ Abort(c)
        PROVE  JobsKnown'
    BY <2>1, RequestKeepsKnown
  <2>2. CASE PipelineStep \/ Kill \/ Ageing \/ UNCHANGED vars
    <3>1. UNCHANGED <<call, request>> /\ Live' \subseteq Live
      BY <2>2, PipelineOnlyWithdraws, WorkerLeavesRequests
      DEF Context, vars, queueVars, files, controlVars, Live
    <3>2. \A d \in Documents : Known(d) => Known(d)' BY RecordsStay
    <3>3. \A j \in Live : DocumentOf[j] \in Documents BY IngestionAssumption DEF Live
    <3>4. \A c \in Callers : call[c].pc # "idle" => DocumentOf[call[c].job] \in Documents
      BY IngestionAssumption DEF Context, Inductive, QueueInv
    <3>5. \A c \in Callers : request[c].pc # "idle" => request[c].doc \in Documents
      BY DEF Context, RequestOK
    <3> QED BY <3>1, <3>2, <3>3, <3>4, <3>5 DEF JobsKnown
  <2> QED BY <2>1, <2>2 DEF Next
<1> QED BY <1>1, <1>2, ContextAlways, FilesAlways, PTL DEF Spec

\* A job is published only after its document's record: the worker's set_status
\* never runs into a missing record.
THEOREM JobsHaveRecords == Spec => []JobHasRecord
<1>1. JobsKnown => JobHasRecord
  BY IngestionAssumption DEF JobsKnown, Known, JobHasRecord, Live
<1> QED BY <1>1, KnownAlways, PTL

-----------------------------------------------------------------------------
(* What the derived files come from. *)

\* DerivedIsTraceable of one document.
Traceable(d) ==
    /\ "elements" \in stored[d] => "source" \in stored[d]
    /\ "chunks" \in stored[d] => "elements" \in stored[d]
    /\ "index" \in stored[d] => "chunks" \in stored[d]

\* While the worker has a deletion in hand, it is the deletion of its document,
\* and it is in the queue.
LEMMA DeletionInHandIsLive ==
    ASSUME Context, worker.pc \in Holding, worker.job \in Deletions
    PROVE  worker.job \in Live /\ worker.job = DeleteJob[Subject] /\ Subject \in Documents
<1>1. worker.job \in Jobs /\ processing[worker.job] # Absent
  BY DEF Context, Inductive, QueueInv, ClaimKeepsManifest
<1> QED BY <1>1, IngestionAssumption DEF Live, Subject

\* Requests bring sources; only the worker removes any file, and whatever it
\* adds has its origin on disk.
LEMMA FilesStayTraceable ==
    ASSUME Context, FilesInv, [Next]_vars, NEW d \in Documents, Traceable(d)
    PROVE  Traceable(d)' \/ DeleteJob[d] \in Live'
<1> USE DEF Traceable
<1>1. stored \in [Documents -> SUBSET Artifacts] BY DEF Context, ControlOK
<1>2. ASSUME NEW c \in Callers, BeginRequest(c) \/ RequestStep(c) \/ Abort(c)
      PROVE  Traceable(d)'
  <2>1. /\ stored[d] \subseteq stored'[d]
        /\ stored'[d] \cap Derived = stored[d] \cap Derived
    BY <1>2, RequestFiles DEF FilesInv
  <2> QED BY <2>1 DEF Derived
<1>3. CASE Parse \/ ChunkText \/ WriteIndex
  <2>1. pipeline.pc = "act" BY <1>3 DEF Parse, ChunkText, WriteIndex
  <2>2. Subject \in Documents BY <2>1, SubjectIsDocument DEF Context
  <2>3. Made(pipeline.target) \subseteq stored[Subject]
    BY <2>1 DEF FilesInv, Progress, Busy
  <2>4. PICK artifact \in Derived :
          /\ stored' = [stored EXCEPT ![Subject] = @ \cup {"root", artifact}]
          /\ artifact = "elements" => "source" \in stored[Subject]
          /\ artifact = "chunks" => "elements" \in stored[Subject]
          /\ artifact = "index" => "chunks" \in stored[Subject]
    <3>1. CASE Parse BY <3>1 DEF Parse, Produces, Store, Derived
    <3>2. CASE ChunkText BY <2>3, <3>2 DEF ChunkText, Produces, Store, Derived, Made
    <3>3. CASE WriteIndex BY <2>3, <3>3 DEF WriteIndex, Produces, Store, Derived, Made
    <3> QED BY <1>3, <3>1, <3>2, <3>3
  <2> HIDE DEF Subject
  <2> QED BY <1>1, <2>2, <2>4
<1>4. CASE RmtreeUnlink \/ RmtreeRmdir
  <2>1. pipeline.pc = "rmtree" BY <1>4 DEF RmtreeUnlink, RmtreeRmdir
  <2>2. worker.pc \in Holding /\ worker.job \in Deletions
    BY <2>1 DEF Context, PipelineAgrees, Holding
  <2>3. worker.job \in Live /\ worker.job = DeleteJob[Subject] /\ Subject \in Documents
    BY <2>2, DeletionInHandIsLive
  <2>4. Live' = Live BY <1>4 DEF RmtreeUnlink, RmtreeRmdir, queueVars, files, Live
  <2>5. CASE Subject = d BY <2>3, <2>4, <2>5
  <2>6. CASE Subject # d
    <3>1. \/ UNCHANGED stored
          \/ \E set : stored' = [stored EXCEPT ![Subject] = set]
      BY <1>4 DEF RmtreeUnlink, RmtreeRmdir
    <3>2. stored'[d] = stored[d] BY <1>1, <2>6, <3>1
    <3> QED BY <3>2
  <2> QED BY <2>5, <2>6
<1>5. CASE \/ (PipelineStep /\ ~(Parse \/ ChunkText \/ WriteIndex)
                            /\ ~(RmtreeUnlink \/ RmtreeRmdir))
           \/ Kill \/ Ageing \/ UNCHANGED vars
  <2>1. UNCHANGED stored
    BY <1>5 DEF PipelineStep, ClaimStep, BeginJob, StatusValid, StatusInvalid, StatusPut,
                ParseRaises, ChunkRaises, RmtreeList, PurgeStep, PurgeReturns, PurgeFails,
                Settle, EndJob, Exit, Kill, Ageing, controlVars, vars
  <2> QED BY <2>1
<1> QED BY <1>2, <1>3, <1>4, <1>5 DEF Next

\* A deletion leaves the queue over a document without derived files.
LEMMA DeletionLeavesErased ==
    ASSUME Context, FilesInv, [Next]_vars, NEW d \in Documents,
           DeleteJob[d] \in Live, DeleteJob[d] \notin Live'
    PROVE  Traceable(d)'
<1>1. ASSUME NEW c \in Callers, BeginRequest(c) \/ RequestStep(c) \/ Abort(c) PROVE FALSE
  <2>1. CASE Publish(c) \/ CallStep(c) \/ Abandon(c)
    <3>1. /\ UNCHANGED processing
          /\ \A j \in Jobs : pending[j] # Absent => pending'[j] # Absent
      BY <2>1, CallLeavesClaims DEF Context
    <3> QED BY <3>1 DEF Live
  <2>2. CASE UNCHANGED queueVars BY <2>2 DEF queueVars, files, Live
  <2> QED BY <1>1, <2>1, <2>2, RequestRunsQueue DEF Context
<1>2. CASE UNCHANGED vars BY <1>2 DEF vars, queueVars, files, Live
<1>3. CASE PipelineStep \/ Kill \/ Ageing
  <2>1. /\ DeleteJob[d] \in Deletions /\ DeleteJob[d] \in Jobs
        /\ DocumentOf[DeleteJob[d]] = d
    BY IngestionAssumption
  <2>2. worker.pc = "settled" /\ worker.job = DeleteJob[d]
    <3>1. CASE worker.pc = "settled" /\ DeleteJob[d] = worker.job BY <3>1
    <3>2. CASE /\ DeleteJob[d] # worker.job /\ worker.job \in Deletions
               /\ DocumentOf[worker.job] = d
      <4>1. worker.job \in Jobs BY <3>2, QueueAssumption
      <4> QED BY <3>2, <4>1, IngestionAssumption
    <3> QED BY <1>3, <2>1, <3>1, <3>2, PipelineOnlyWithdraws DEF Context
  <2>3. pipeline.pc = "outcome" /\ Subject = d
    BY <2>1, <2>2 DEF Context, ControlOK, PipelineAgrees, PipelinePC, Holding, Subject
  <2>4. stored[d] \cap Derived = {} BY <2>1, <2>2, <2>3 DEF FilesInv, Erased, Busy
  <2>5. UNCHANGED stored
    BY <1>3, <2>3 DEF PipelineStep, ClaimStep, BeginJob, StatusValid, StatusInvalid,
                StatusPut, Parse, ParseRaises, ChunkText, ChunkRaises, WriteIndex,
                RmtreeList, RmtreeUnlink, RmtreeRmdir, PurgeStep, PurgeReturns, PurgeFails,
                Settle, EndJob, Exit, Kill, Ageing, controlVars
  <2> QED BY <2>4, <2>5 DEF Traceable, Derived
<1> QED BY <1>1, <1>2, <1>3 DEF Next

\* No crash, deletion or upload leaves derived text on disk without the source
\* it came from, except while the deletion that will remove it is queued.
THEOREM DerivedStaysTraceable == Spec => []DerivedIsTraceable
<1>1. Init => DerivedIsTraceable BY DEF Init, DerivedIsTraceable
<1>2. Context /\ FilesInv /\ DerivedIsTraceable /\ [Next]_vars => DerivedIsTraceable'
  <2> SUFFICES ASSUME Context, FilesInv, DerivedIsTraceable, [Next]_vars,
                      NEW d \in Documents, DeleteJob[d] \notin Live'
               PROVE  Traceable(d)'
    BY DEF DerivedIsTraceable, Traceable
  <2>1. CASE DeleteJob[d] \in Live BY <2>1, DeletionLeavesErased
  <2>2. CASE DeleteJob[d] \notin Live
    <3>1. Traceable(d) BY <2>2 DEF DerivedIsTraceable, Traceable
    <3> QED BY <3>1, FilesStayTraceable
  <2> QED BY <2>1, <2>2
<1> QED BY <1>1, <1>2, ContextAlways, FilesAlways, PTL DEF Spec

-----------------------------------------------------------------------------
(* One request at a time.  Two requests at once, one that is cut short, a   *)
(* reindexing or a worker that is killed each leave an accepted document    *)
(* without a job; with none of them the hand-over of record and job holds.  *)

\* Where a job can be.
Nowhere(j) ==
    /\ pending[j] = Absent /\ processing[j] = Absent
    /\ j \notin completed /\ j \notin failed

\* Nothing is claimed but the worker's job, and nothing was ever recovered.
OneClaim ==
    /\ \A j \in Jobs : pending[j] # Absent => pending[j].retry = 0
    /\ \A j \in Jobs : processing[j] # Absent =>
          /\ processing[j].retry = 0 /\ pending[j] = Absent
          /\ worker.pc \in Holding /\ worker.job = j
    /\ worker.pc # "recovered"
    /\ worker.pc = "recover" => worker.todo = {}
    /\ worker.pc \in {"stamp", "working"} => worker.at = 1

\* A request is at the steps of its kind, and its publish call about its job.
RequestsInStep ==
    \A c \in Callers :
        LET r == request[c] IN
        /\ r.pc \in {"mkdir", "promote", "move", "accept"} => r.kind = "upload"
        /\ r.pc \in {"check", "mark"} => r.kind = "delete"
        /\ r.pc \in {"publish", "publishing"} => r.kind \in {"upload", "delete"}
        /\ IF r.pc = "publishing"
           THEN /\ call[c].pc # "idle" /\ ~ call[c].replace
                /\ call[c].job = IF r.kind = "delete" THEN DeleteJob[r.doc]
                                                      ELSE IngestJob[r.doc]
           ELSE call[c].pc = "idle"

\* A publish call has looked into the first n directories without finding its job.
Beyond(c, n) ==
    \/ call[c].pc \in {"find", "read"} /\ call[c].at > n
    \/ call[c].pc \in {"unlink", "write"}

\* What a publish call did not find is not there: nobody else puts it there.
CallsFound ==
    \A c \in Callers :
        LET j == call[c].job IN
        /\ Beyond(c, 1) => pending[j] = Absent
        /\ Beyond(c, 2) => processing[j] = Absent
        /\ Beyond(c, 3) => j \notin completed
        /\ call[c].pc = "unlink" => call[c].at = 4
        /\ call[c].pc = "write" => j \notin failed

\* The worker has a deletion in hand whose DELETED is on record.
DeletionOver(d) ==
    /\ worker.pc \in Holding /\ worker.job = DeleteJob[d]
    /\ pipeline.pc = "outcome" /\ pipeline.target = "deleted"

\* A document that is new, deleted or accepted has no deletion to come.
DeletionsAreDue ==
    \A d \in Documents :
        record[d] \in {"none", "deleted", "accepted"} =>
            /\ pending[DeleteJob[d]] = Absent
            /\ processing[DeleteJob[d]] # Absent => DeletionOver(d)
            /\ \A c \in Callers :
                  /\ request[c].doc = d /\ request[c].kind = "delete"
                  /\ request[c].pc \in {"publish", "publishing"}
                  => \/ DeleteJob[d] \in completed
                     \/ processing[DeleteJob[d]] # Absent

\* A document that is new or deleted has no ingest job anywhere.
UnknownIsNowhere ==
    \A d \in Documents : record[d] \in {"none", "deleted"} => Nowhere(IngestJob[d])

\* An upload past its lookup has the document to itself, and a deletion past its
\* check does not find it accepted again.
UploadsAreFirst ==
    \A c \in Callers :
        /\ request[c].pc \in {"mkdir", "promote", "move", "accept"} =>
              record[request[c].doc] \in {"none", "deleted"}
        /\ request[c].kind = "upload" /\ request[c].pc \in {"publish", "publishing"} =>
              /\ record[request[c].doc] = "accepted" /\ Nowhere(IngestJob[request[c].doc])
              /\ call[c].pc \in {"idle", "find", "write"}
        /\ request[c].kind = "delete" /\ request[c].pc \in {"publish", "publishing"} =>
              record[request[c].doc] # "accepted"

\* A purge leaves no ingest job in the directories it has been through.
PurgeClears ==
    LET j == IngestJob[Subject] IN
    /\ worker.pc = "purge" =>
        /\ pending[j] # Absent => worker.at = 1 /\ j \in worker.todo
        /\ j \in completed => worker.at < 3 \/ (worker.at = 3 /\ j \in worker.todo)
        /\ j \in failed => worker.at < 4 \/ (worker.at = 4 /\ j \in worker.todo)
    /\ pipeline.pc \in {"get", "put"} /\ pipeline.target = "deleted" =>
        worker.pc = "purged" /\ Nowhere(j)

\* The worker takes a document out of accepted before it does anything with it.
IngestBegins ==
    worker.pc \in Holding /\ worker.job \notin Deletions /\ record[Subject] = "accepted" =>
        \/ pipeline.pc = "none"
        \/ pipeline.pc \in {"get", "put"} /\ pipeline.target = "parsing"

\* A deletion that is over is on record as completed before its claim goes.
OverIsCompleted ==
    worker.pc = "settled" /\ pipeline.target = "deleted" => worker.job \in completed

OneAtATime ==
    /\ OneClaim /\ RequestsInStep /\ CallsFound
    /\ DeletionsAreDue /\ UnknownIsNowhere /\ UploadsAreFirst
    /\ PurgeClears /\ IngestBegins /\ OverIsCompleted
    /\ AcceptedIsQueued

\* One caller, whose requests run to their end; no reindexing, and a worker that is
\* not killed.
Sequential ==
    /\ \A b, c \in Callers : b = c
    /\ "reindex" \notin Kinds
    /\ Aborts = FALSE /\ MaxKills = 0

\* What every step may count on.
Calm == Context /\ FilesInv /\ OneAtATime

\* The jobs of a document, and the document of a job.
LEMMA JobsOfDocuments ==
    /\ \A d \in Documents :
          /\ IngestJob[d] \in Jobs /\ IngestJob[d] \notin Deletions
          /\ DeleteJob[d] \in Jobs /\ DeleteJob[d] \in Deletions
          /\ DocumentOf[IngestJob[d]] = d /\ DocumentOf[DeleteJob[d]] = d
          /\ IngestJob[d] # DeleteJob[d]
    /\ \A j \in Jobs :
          /\ DocumentOf[j] \in Documents
          /\ j \in Deletions => j = DeleteJob[DocumentOf[j]]
          /\ j \notin Deletions => j = IngestJob[DocumentOf[j]]
<1>1. ASSUME NEW d \in Documents
      PROVE  /\ IngestJob[d] \in Jobs /\ IngestJob[d] \notin Deletions
             /\ DeleteJob[d] \in Jobs /\ DeleteJob[d] \in Deletions
             /\ DocumentOf[IngestJob[d]] = d /\ DocumentOf[DeleteJob[d]] = d
  BY IngestionAssumption
<1>2. ASSUME NEW j \in Jobs
      PROVE  /\ DocumentOf[j] \in Documents
             /\ j = IngestJob[DocumentOf[j]] \/ j = DeleteJob[DocumentOf[j]]
  BY IngestionAssumption
<1> QED BY <1>1, <1>2

\* At the start there is nothing.
LEMMA SequentialInit == Init => OneAtATime
<1> SUFFICES ASSUME Init PROVE OneAtATime
  OBVIOUS
<1> USE DEF Init, QueueInit
<1>1. OneClaim BY DEF OneClaim, WorkerAt
<1>2. RequestsInStep BY DEF RequestsInStep, IdleRequest, IdleCall
<1>3. CallsFound BY DEF CallsFound, Beyond, IdleCall
<1>4. DeletionsAreDue /\ UnknownIsNowhere
  BY JobsOfDocuments DEF DeletionsAreDue, UnknownIsNowhere, Nowhere, IdleRequest
<1>5. UploadsAreFirst BY DEF UploadsAreFirst, IdleRequest
<1>6. PurgeClears /\ IngestBegins /\ OverIsCompleted /\ AcceptedIsQueued
  BY DEF PurgeClears, IngestBegins, OverIsCompleted, AcceptedIsQueued, WorkerAt, Holding,
         NoPipeline, Pipeline
<1> QED BY <1>1, <1>2, <1>3, <1>4, <1>5, <1>6 DEF OneAtATime

-----------------------------------------------------------------------------
(* Requests, one at a time. *)

\* A request that waits or answers: it does not publish, and what it goes on to it
\* may go on to.
Waits(c) ==
    /\ UNCHANGED <<queueVars, record, pipeline>>
    /\ request[c].pc \notin {"publish", "publishing"}
    /\ \E r : /\ request' = [request EXCEPT ![c] = r]
              /\ r.pc \notin {"publish", "publishing"}
              /\ r.pc \in {"mkdir", "promote", "move", "accept"} =>
                    r.kind = "upload" /\ record[r.doc] \in {"none", "deleted"}
              /\ r.pc \in {"check", "mark"} => r.kind = "delete"

\* Every step of a request but the upsert and the publication is one of these.
LEMMA RequestsWait ==
    ASSUME Sequential, Calm, NEW c \in Callers,
           \/ BeginRequest(c)
           \/ RequestStep(c) /\ ~ (Accept(c) \/ DeleteMark(c) \/ BeginPublish(c) \/ PublishStep(c))
    PROVE  Waits(c)
<1> USE DEF Waits
<1>1. /\ request \in [Callers -> [pc : RequestPC, kind : Kinds \cup {"none"},
                                  doc : Documents \cup {NoDocument}]]
      /\ "reindex" \notin Kinds
  BY DEF Calm, Context, RequestOK, Sequential
<1>2. CASE BeginRequest(c)
  <2>1. PICK kind \in Kinds, d \in Documents : Begin(c, kind, d) BY <1>2 DEF BeginRequest
  <2> DEFINE r == [pc |-> "lookup", kind |-> kind, doc |-> d]
  <2>2. request' = [request EXCEPT ![c] = r] /\ request[c].pc = "idle"
        /\ UNCHANGED <<queueVars, record, pipeline>>
    BY <2>1 DEF Begin
  <2>3. r.pc = "lookup" OBVIOUS
  <2> HIDE DEF r
  <2> QED BY <2>2, <2>3
<1>3. CASE UploadKnown(c) \/ PromoteRaises(c) \/ DeleteDone(c)
  <2>1. request' = [request EXCEPT ![c] = IdleRequest] /\ request[c].pc \in {"lookup", "move"}
        /\ UNCHANGED <<queueVars, record, pipeline>>
    BY <1>3 DEF UploadKnown, PromoteRaises, DeleteDone, Respond
  <2>2. IdleRequest.pc = "idle" BY DEF IdleRequest
  <2> QED BY <2>1, <2>2
<1>4. ASSUME NEW pc, Step(c, pc), request[c].pc \notin {"publish", "publishing"},
             pc \notin {"publish", "publishing"},
             UNCHANGED <<queueVars, record, pipeline>>,
             pc \in {"mkdir", "promote", "move", "accept"} =>
                request[c].kind = "upload" /\ record[request[c].doc] \in {"none", "deleted"},
             pc \in {"check", "mark"} => request[c].kind = "delete"
      PROVE  Waits(c)
  <2> DEFINE r == [request[c] EXCEPT !.pc = pc]
  <2>1. request' = [request EXCEPT ![c] = r] BY <1>4 DEF Step
  <2>2. r.pc = pc /\ r.kind = request[c].kind /\ r.doc = request[c].doc BY <1>1
  <2> HIDE DEF r
  <2> QED BY <1>4, <2>1, <2>2
<1>5. CASE UploadNew(c)
  <2>1. /\ request[c].pc = "lookup" /\ Step(c, "mkdir")
        /\ request[c].kind \in {"upload", "reindex"}
        /\ request[c].kind = "upload" => record[request[c].doc] \in {"none", "deleted"}
        /\ UNCHANGED <<queueVars, record, pipeline>>
    BY <1>5 DEF UploadNew
  <2>2. request[c].kind # "reindex" BY <1>1
  <2> QED BY <1>4, <2>1, <2>2
<1>6. CASE PromoteMkdir(c) \/ PromoteMove(c) \/ PromoteCheck(c)
  <2>1. /\ request[c].pc \in {"mkdir", "promote", "move"}
        /\ Step(c, "promote") \/ Step(c, "accept") \/ Step(c, "move")
        /\ UNCHANGED <<queueVars, record, pipeline>>
    BY <1>6 DEF PromoteMkdir, PromoteMove, PromoteCheck
  <2>2. request[c].kind = "upload" /\ record[request[c].doc] \in {"none", "deleted"}
    BY <2>1 DEF Calm, OneAtATime, RequestsInStep, UploadsAreFirst
  <2> QED BY <1>4, <2>1, <2>2
<1>7. CASE DeleteWanted(c) \/ DeleteCheck(c)
  <2>1. /\ request[c].pc \in {"lookup", "check"} /\ request[c].kind = "delete"
        /\ Step(c, "check") \/ Step(c, "mark") \/ Respond(c)
        /\ UNCHANGED <<queueVars, record, pipeline>>
    BY <1>7 DEF DeleteWanted, DeleteCheck, Calm, OneAtATime, RequestsInStep
  <2>2. CASE Respond(c)
    <3>1. request' = [request EXCEPT ![c] = IdleRequest] BY <2>2 DEF Respond
    <3>2. IdleRequest.pc = "idle" BY DEF IdleRequest
    <3> QED BY <2>1, <3>1, <3>2
  <2> QED BY <1>4, <2>1, <2>2
<1> QED BY <1>2, <1>3, <1>5, <1>6, <1>7 DEF RequestStep

\* A request that waits changes nothing that matters to the others.
LEMMA WaitingKeeps ==
    ASSUME Sequential, Calm, NEW c \in Callers, Waits(c)
    PROVE  OneAtATime'
<1>1. \A b \in Callers : b = c BY DEF Sequential
<1>2. request \in [Callers -> [pc : RequestPC, kind : Kinds \cup {"none"},
                               doc : Documents \cup {NoDocument}]]
  BY DEF Calm, Context, RequestOK
<1>3. UNCHANGED <<pending, processing, completed, failed, call, worker, record, pipeline>>
  BY DEF Waits, queueVars
<1>4. /\ request'[c].pc \notin {"publish", "publishing"}
      /\ request'[c].pc \in {"mkdir", "promote", "move", "accept"} =>
            request'[c].kind = "upload" /\ record[request'[c].doc] \in {"none", "deleted"}
      /\ request'[c].pc \in {"check", "mark"} => request'[c].kind = "delete"
  BY <1>2 DEF Waits
<1>5. call[c].pc = "idle" BY DEF Waits, Calm, OneAtATime, RequestsInStep
<1> USE DEF Calm, OneAtATime
<1>6. OneClaim' BY <1>3 DEF OneClaim
<1>7. RequestsInStep' BY <1>1, <1>3, <1>4, <1>5 DEF RequestsInStep
<1>8. CallsFound' BY <1>3 DEF CallsFound, Beyond
<1>9. DeletionsAreDue' BY <1>1, <1>3, <1>4 DEF DeletionsAreDue, DeletionOver
<1>10. UnknownIsNowhere' BY <1>3 DEF UnknownIsNowhere, Nowhere
<1>11. UploadsAreFirst' BY <1>1, <1>3, <1>4 DEF UploadsAreFirst
<1>12. PurgeClears' /\ IngestBegins' /\ OverIsCompleted'
  BY <1>3 DEF PurgeClears, IngestBegins, OverIsCompleted, Nowhere, Subject
<1>13. AcceptedIsQueued'
  <2>1. \A d \in Documents : record[d] = "accepted" => IngestJob[d] \in Live
    BY <1>1 DEF AcceptedIsQueued, Waits
  <2> QED BY <1>3, <2>1 DEF AcceptedIsQueued, Live
<1> QED BY <1>6, <1>7, <1>8, <1>9, <1>10, <1>11, <1>12, <1>13

\* An upload's record is written: its job is nowhere yet.
LEMMA AcceptKeeps ==
    ASSUME Sequential, Calm, NEW c \in Callers, Accept(c)
    PROVE  OneAtATime'
<1> DEFINE d == request[c].doc
<1>1. \A b \in Callers : b = c BY DEF Sequential
<1>2. /\ request \in [Callers -> [pc : RequestPC, kind : Kinds \cup {"none"},
                                  doc : Documents \cup {NoDocument}]]
      /\ record \in [Documents -> DocumentStatus \cup {"none"}]
  BY DEF Calm, Context, RequestOK, ControlOK
<1>3. /\ UNCHANGED <<pending, processing, completed, failed, call, worker, pipeline>>
      /\ record' = [record EXCEPT ![d] = "accepted"]
      /\ request[c].pc = "accept"
      /\ request' = [request EXCEPT ![c].pc = "publish"]
  BY DEF Accept, SetRecord, Step, queueVars
<1>4. d \in Documents BY <1>3 DEF Calm, Context, RequestOK
<1>5. request'[c].pc = "publish" /\ request'[c].kind = request[c].kind /\ request'[c].doc = d
  BY <1>2, <1>3
<1>6. request[c].kind = "upload" /\ call[c].pc = "idle" /\ record[d] \in {"none", "deleted"}
  BY <1>3 DEF Calm, OneAtATime, RequestsInStep, UploadsAreFirst
<1>7. Nowhere(IngestJob[d]) BY <1>4, <1>6 DEF Calm, OneAtATime, UnknownIsNowhere
<1>8. \A e \in Documents : record'[e] = IF e = d THEN "accepted" ELSE record[e]
  BY <1>2, <1>3
<1> HIDE DEF d
<1> USE DEF Calm, OneAtATime
<1>9. OneClaim' BY <1>3 DEF OneClaim
<1>10. RequestsInStep' BY <1>1, <1>3, <1>5, <1>6 DEF RequestsInStep
<1>11. CallsFound' BY <1>3 DEF CallsFound, Beyond
<1>12. DeletionsAreDue'
  <2>1. \A e \in Documents : DeletionOver(e)' = DeletionOver(e) BY <1>3 DEF DeletionOver
  <2> QED BY <1>1, <1>3, <1>5, <1>6, <1>8, <2>1 DEF DeletionsAreDue
<1>13. UnknownIsNowhere' BY <1>3, <1>8 DEF UnknownIsNowhere, Nowhere
<1>14. UploadsAreFirst'
  <2>1. record'[d] = "accepted" BY <1>4, <1>8
  <2> QED BY <1>1, <1>3, <1>5, <1>6, <1>7, <2>1 DEF UploadsAreFirst, Nowhere
<1>15. PurgeClears' /\ OverIsCompleted'
  BY <1>3 DEF PurgeClears, OverIsCompleted, Nowhere, Subject
<1>16. IngestBegins'
  <2>1. SUFFICES ASSUME worker.pc \in Holding, worker.job \notin Deletions
                 PROVE  Subject # d
    BY <1>3, <1>8, SubjectIsDocument DEF IngestBegins, Subject
  <2>2. worker.job \in Jobs /\ processing[worker.job] # Absent
    BY <2>1 DEF Context, Inductive, QueueInv, ClaimKeepsManifest
  <2> QED BY <1>7, <2>1, <2>2, JobsOfDocuments DEF Nowhere, Subject
<1>17. AcceptedIsQueued'
  <2>1. \A e \in Documents : e # d /\ record[e] = "accepted" => IngestJob[e] \in Live
    BY <1>1, <1>3 DEF AcceptedIsQueued
  <2> QED BY <1>3, <1>5, <1>8, <2>1 DEF AcceptedIsQueued, Live
<1> QED BY <1>9, <1>10, <1>11, <1>12, <1>13, <1>14, <1>15, <1>16, <1>17

\* A deletion's record is written.
LEMMA MarkKeeps ==
    ASSUME Sequential, Calm, NEW c \in Callers, DeleteMark(c)
    PROVE  OneAtATime'
<1> DEFINE d == request[c].doc
<1>1. \A b \in Callers : b = c BY DEF Sequential
<1>2. /\ request \in [Callers -> [pc : RequestPC, kind : Kinds \cup {"none"},
                                  doc : Documents \cup {NoDocument}]]
      /\ record \in [Documents -> DocumentStatus \cup {"none"}]
  BY DEF Calm, Context, RequestOK, ControlOK
<1>3. /\ UNCHANGED <<pending, processing, completed, failed, call, worker, pipeline>>
      /\ record' = [record EXCEPT ![d] = "deleting"]
      /\ request[c].pc = "mark"
      /\ request' = [request EXCEPT ![c].pc = "publish"]
  BY DEF DeleteMark, SetRecord, Step, queueVars
<1>4. d \in Documents BY <1>3 DEF Calm, Context, RequestOK
<1>5. request'[c].pc = "publish" /\ request'[c].kind = request[c].kind /\ request'[c].doc = d
  BY <1>2, <1>3
<1>6. request[c].kind = "delete" /\ call[c].pc = "idle"
  BY <1>3 DEF Calm, OneAtATime, RequestsInStep
<1>8. \A e \in Documents : record'[e] = IF e = d THEN "deleting" ELSE record[e]
  BY <1>2, <1>3
<1> HIDE DEF d
<1> USE DEF Calm, OneAtATime
<1>9. OneClaim' BY <1>3 DEF OneClaim
<1>10. RequestsInStep' BY <1>1, <1>3, <1>5, <1>6 DEF RequestsInStep
<1>11. CallsFound' BY <1>3 DEF CallsFound, Beyond
<1>12. DeletionsAreDue'
  <2>1. \A e \in Documents : DeletionOver(e)' = DeletionOver(e) BY <1>3 DEF DeletionOver
  <2> QED BY <1>1, <1>3, <1>5, <1>6, <1>8, <2>1 DEF DeletionsAreDue
<1>13. UnknownIsNowhere' BY <1>3, <1>8 DEF UnknownIsNowhere, Nowhere
<1>14. UploadsAreFirst'
  <2>1. record'[d] = "deleting" BY <1>4, <1>8
  <2> QED BY <1>1, <1>3, <1>5, <1>6, <2>1 DEF UploadsAreFirst, Nowhere
<1>15. PurgeClears' /\ OverIsCompleted'
  BY <1>3 DEF PurgeClears, OverIsCompleted, Nowhere, Subject
<1>16. IngestBegins'
  <2>1. SUFFICES ASSUME worker.pc \in Holding, record'[Subject] = "accepted"
                 PROVE  record[Subject] = "accepted"
    BY <1>3 DEF IngestBegins, Subject
  <2>2. worker.job \in Jobs
    BY <2>1 DEF Context, Inductive, QueueInv, ClaimKeepsManifest
  <2>3. Subject \in Documents BY <2>2, JobsOfDocuments DEF Subject
  <2> QED BY <1>8, <2>1, <2>3
<1>17. AcceptedIsQueued'
  <2>1. \A e \in Documents : e # d /\ record[e] = "accepted" => IngestJob[e] \in Live
    BY <1>1, <1>3 DEF AcceptedIsQueued
  <2> QED BY <1>3, <1>5, <1>8, <2>1 DEF AcceptedIsQueued, Live
<1> QED BY <1>9, <1>10, <1>11, <1>12, <1>13, <1>14, <1>15, <1>16, <1>17

\* The publish call begins, at the first directory.
LEMMA BeginPublishKeeps ==
    ASSUME Sequential, Calm, NEW c \in Callers, BeginPublish(c)
    PROVE  OneAtATime'
<1> DEFINE d == request[c].doc
           j == IF request[c].kind = "delete" THEN DeleteJob[d] ELSE IngestJob[d]
<1>1. \A b \in Callers : b = c BY DEF Sequential
<1>2. /\ request \in [Callers -> [pc : RequestPC, kind : Kinds \cup {"none"},
                                  doc : Documents \cup {NoDocument}]]
      /\ call \in [Callers -> Call]
  BY DEF Calm, Context, RequestOK, Inductive, QueueTypeOK
<1>3. /\ UNCHANGED <<pending, processing, completed, failed, worker, pipeline, record>>
      /\ request[c].pc = "publish"
      /\ request' = [request EXCEPT ![c].pc = "publishing"]
      /\ call' = [call EXCEPT ![c] =
                    [pc |-> "find", job |-> j, replace |-> request[c].kind = "reindex", at |-> 1]]
  BY DEF BeginPublish, PublishCall, Step, files
<1>4. /\ request'[c].pc = "publishing" /\ request'[c].kind = request[c].kind
      /\ request'[c].doc = d
  BY <1>2, <1>3
<1>5. request[c].kind \in {"upload", "delete"} BY <1>3 DEF Calm, OneAtATime, RequestsInStep
<1>6. /\ call'[c].pc = "find" /\ call'[c].at = 1 /\ call'[c].job = j
      /\ call'[c].replace = (request[c].kind = "reindex")
  BY <1>2, <1>3
<1>7. ~ call'[c].replace BY <1>5, <1>6
<1> USE DEF Calm, OneAtATime
<1>9. OneClaim' BY <1>3 DEF OneClaim
<1>10. RequestsInStep' BY <1>1, <1>4, <1>5, <1>6, <1>7 DEF RequestsInStep
<1> HIDE DEF j, d
<1>11. CallsFound' BY <1>1, <1>6 DEF CallsFound, Beyond
<1>12. DeletionsAreDue'
  <2>1. \A e \in Documents : DeletionOver(e)' = DeletionOver(e) BY <1>3 DEF DeletionOver
  <2> QED BY <1>1, <1>3, <1>4, <1>5, <2>1 DEF DeletionsAreDue, d
<1>13. UnknownIsNowhere' BY <1>3 DEF UnknownIsNowhere, Nowhere
<1>14. UploadsAreFirst' BY <1>1, <1>3, <1>4, <1>6 DEF UploadsAreFirst, Nowhere, d
<1>15. PurgeClears' /\ OverIsCompleted' /\ IngestBegins'
  BY <1>3 DEF PurgeClears, OverIsCompleted, IngestBegins, Nowhere, Subject
<1>17. AcceptedIsQueued' BY <1>1, <1>3, <1>4 DEF AcceptedIsQueued, Live, d
<1> QED BY <1>9, <1>10, <1>11, <1>12, <1>13, <1>14, <1>15, <1>17

\* What a step of a publish call leaves to show, when all it writes is its own pc.
LEMMA CallMoves ==
    ASSUME Sequential, Calm, NEW c \in Callers,
           request[c].pc = "publishing",
           UNCHANGED <<pending, processing, completed, worker, record, pipeline>>,
           failed' \subseteq failed,
           IF call'[c].pc = "idle" THEN Respond(c) ELSE UNCHANGED request,
           call'[c].pc # "idle" => call'[c].job = call[c].job /\ ~ call'[c].replace,
           CallsFound',
           request[c].kind = "upload" =>
              call'[c].pc \in {"find", "write"}
    PROVE  OneAtATime'
<1>1. \A b \in Callers : b = c BY DEF Sequential
<1>2. /\ request \in [Callers -> [pc : RequestPC, kind : Kinds \cup {"none"},
                                  doc : Documents \cup {NoDocument}]]
  BY DEF Calm, Context, RequestOK
<1>3. \/ call'[c].pc = "idle" /\ request'[c] = IdleRequest
      \/ call'[c].pc # "idle" /\ request'[c] = request[c]
  BY <1>2 DEF Respond
<1>4. IdleRequest.pc = "idle" BY DEF IdleRequest
<1> USE DEF Calm, OneAtATime
<1>5. OneClaim' BY DEF OneClaim
<1>6. RequestsInStep' BY <1>1, <1>3, <1>4 DEF RequestsInStep
<1>7. DeletionsAreDue'
  <2>1. \A e \in Documents : DeletionOver(e)' = DeletionOver(e) BY DEF DeletionOver
  <2> QED BY <1>1, <1>3, <1>4, <2>1 DEF DeletionsAreDue
<1>8. UnknownIsNowhere' BY DEF UnknownIsNowhere, Nowhere
<1>9. UploadsAreFirst' BY <1>1, <1>3, <1>4 DEF UploadsAreFirst, Nowhere
<1>10. PurgeClears' /\ OverIsCompleted' /\ IngestBegins'
  BY DEF PurgeClears, OverIsCompleted, IngestBegins, Nowhere, Subject
<1>11. AcceptedIsQueued'
  <2>1. CASE request'[c] = request[c] BY <1>1, <2>1 DEF AcceptedIsQueued, Live
  <2>2. CASE request'[c] # request[c]
    <3>1. call'[c].pc = "idle" BY <1>3, <2>2
    <3>2. request[c].kind = "delete" BY <3>1 DEF RequestsInStep
    <3>3. record[request[c].doc] # "accepted" BY <3>2 DEF UploadsAreFirst
    <3> QED BY <1>1, <3>3 DEF AcceptedIsQueued, Live
  <2> QED BY <2>1, <2>2
<1> QED BY <1>5, <1>6, <1>7, <1>8, <1>9, <1>10, <1>11

\* Looking for the job's manifest, reading it, and removing what it supersedes.
LEMMA SearchKeeps ==
    ASSUME Sequential, Calm, NEW c \in Callers, PublishStep(c), ~ WritePending(c)
    PROVE  OneAtATime'
<1>1. \A b \in Callers : b = c BY DEF Sequential
<1>2. call \in [Callers -> Call] /\ call[c] \in Call BY DEF Calm, Context, Inductive, QueueTypeOK
<1>3. /\ request[c].pc = "publishing" /\ CallStep(c)
      /\ IF call'[c].pc = "idle" THEN Respond(c) ELSE UNCHANGED request
      /\ UNCHANGED <<record, pipeline>>
  BY DEF PublishStep
<1>4. ~ call[c].replace /\ call[c].pc # "idle"
  BY <1>3 DEF Calm, OneAtATime, RequestsInStep
<1>5. CallsFound BY DEF Calm, OneAtATime
<1>6. request[c].kind = "upload" => call[c].pc \in {"find", "write"} /\ Nowhere(call[c].job)
  BY <1>3 DEF Calm, OneAtATime, RequestsInStep, UploadsAreFirst
<1>7. CASE FindHit(c)
  <2>1. /\ UNCHANGED <<pending, processing, completed, failed, worker>>
        /\ call[c].pc = "find" /\ Exists(call[c].at, call[c].job)
        /\ call' = [call EXCEPT ![c].pc = "read"]
    BY <1>7 DEF FindHit, Advance, files
  <2>2. call'[c].pc = "read" /\ call'[c].at = call[c].at /\ call'[c].job = call[c].job
        /\ call'[c].replace = call[c].replace
    BY <1>2, <2>1 DEF Call
  <2>3. request[c].kind # "upload" BY <1>6, <2>1 DEF Nowhere, Exists
  <2>4. CallsFound' BY <1>1, <1>5, <2>1, <2>2 DEF CallsFound, Beyond
  <2> QED BY <1>3, <1>4, <2>1, <2>2, <2>3, <2>4, CallMoves
<1>8. CASE FindMiss(c)
  <2>1. /\ UNCHANGED <<pending, processing, completed, failed, worker>>
        /\ call[c].pc = "find" /\ ~ Exists(call[c].at, call[c].job)
    BY <1>8 DEF FindMiss, files
  <2>2. call[c].at \in 1 .. 4 BY <1>2 DEF Call
  <2>3. CASE call[c].at < 4
    <3>1. call' = [call EXCEPT ![c].at = call[c].at + 1] BY <1>8, <2>3 DEF FindMiss
    <3>2. call'[c].pc = "find" /\ call'[c].at = call[c].at + 1 /\ call'[c].job = call[c].job
          /\ call'[c].replace = call[c].replace
      BY <1>2, <2>1, <3>1 DEF Call
    <3>3. CallsFound'
      BY <1>1, <1>5, <2>1, <2>2, <2>3, <3>2 DEF CallsFound, Beyond, Exists
    <3> QED BY <1>3, <1>4, <2>1, <3>2, <3>3, CallMoves
  <2>4. CASE call[c].at = 4
    <3>1. call' = [call EXCEPT ![c].pc = "write"] BY <1>8, <2>4 DEF FindMiss, Advance
    <3>2. call'[c].pc = "write" /\ call'[c].job = call[c].job
          /\ call'[c].replace = call[c].replace
      BY <1>2, <2>1, <3>1 DEF Call
    <3>3. CallsFound'
      BY <1>1, <1>5, <2>1, <2>4, <3>2 DEF CallsFound, Beyond, Exists
    <3> QED BY <1>3, <1>4, <2>1, <3>2, <3>3, CallMoves
  <2> QED BY <2>2, <2>3, <2>4
<1>9. CASE ReadCoalesced(c) \/ ReadRaises(c)
  <2>1. /\ UNCHANGED <<pending, processing, completed, failed, worker>>
        /\ call[c].pc = "read" /\ call' = [call EXCEPT ![c] = IdleCall]
    BY <1>9 DEF ReadCoalesced, ReadRaises, Return, files
  <2>2. call'[c].pc = "idle" BY <1>2, <2>1 DEF IdleCall
  <2>3. request[c].kind # "upload" BY <1>6, <2>1
  <2>4. CallsFound' BY <1>1, <2>2 DEF CallsFound, Beyond
  <2> QED BY <1>3, <2>1, <2>2, <2>3, <2>4, CallMoves
<1>10. CASE ReadSuperseded(c)
  <2>1. /\ UNCHANGED <<pending, processing, completed, failed, worker>>
        /\ call[c].pc = "read" /\ ~ Coalesces(c)
        /\ call' = [call EXCEPT ![c].pc = "unlink"]
    BY <1>10 DEF ReadSuperseded, Advance, files
  <2>2. call[c].at = 4 BY <1>2, <1>4, <2>1 DEF Coalesces, Call
  <2>3. call'[c].pc = "unlink" /\ call'[c].at = 4 /\ call'[c].job = call[c].job
        /\ call'[c].replace = call[c].replace
    BY <1>2, <2>1, <2>2 DEF Call
  <2>4. request[c].kind # "upload" BY <1>6, <2>1
  <2>5. CallsFound' BY <1>1, <1>5, <2>1, <2>2, <2>3 DEF CallsFound, Beyond
  <2> QED BY <1>3, <1>4, <2>1, <2>3, <2>4, <2>5, CallMoves
<1>11. CASE UnlinkExisting(c)
  <2>1. call[c].pc = "unlink" /\ call[c].at = 4
    BY <1>1, <1>5, <1>11 DEF UnlinkExisting, CallsFound
  <2>2. /\ UNCHANGED <<pending, processing, completed, worker>>
        /\ failed' = failed \ {call[c].job}
        /\ call' = [call EXCEPT ![c].pc = "write"]
    BY <1>11, <2>1 DEF UnlinkExisting, Advance
  <2>3. call'[c].pc = "write" /\ call'[c].job = call[c].job
        /\ call'[c].replace = call[c].replace
    BY <1>2, <2>1, <2>2 DEF Call
  <2>4. request[c].kind # "upload" BY <1>6, <2>1
  <2>5. CallsFound' BY <1>1, <1>5, <2>1, <2>2, <2>3 DEF CallsFound, Beyond
  <2> QED BY <1>3, <1>4, <2>2, <2>3, <2>4, <2>5, CallMoves
<1> QED BY <1>3, <1>7, <1>8, <1>9, <1>10, <1>11 DEF CallStep

\* While the worker deletes a document and has not said so, the document is not one
\* that is new, deleted or accepted.
LEMMA DeletionIsDue ==
    ASSUME Calm, worker.pc \in Holding, worker.job \in Deletions,
           ~ (pipeline.pc = "outcome" /\ pipeline.target = "deleted")
    PROVE  /\ worker.job \in Jobs /\ Subject \in Documents
           /\ worker.job = DeleteJob[Subject] /\ worker.job # IngestJob[Subject]
           /\ record[Subject] \notin {"none", "deleted", "accepted"}
<1>1. worker.job \in Jobs /\ processing[worker.job] # Absent
  BY DEF Calm, Context, Inductive, QueueInv, ClaimKeepsManifest
<1>2. /\ Subject \in Documents /\ worker.job = DeleteJob[Subject]
      /\ worker.job # IngestJob[Subject]
  BY <1>1, JobsOfDocuments DEF Subject
<1> HIDE DEF Subject
<1>3. ~ DeletionOver(Subject) BY <1>2 DEF DeletionOver
<1> QED BY <1>1, <1>2, <1>3 DEF Calm, OneAtATime, DeletionsAreDue

\* While the worker ingests a document, the document has a record that is not deleted,
\* and no upload of it is under way.
LEMMA IngestIsKnown ==
    ASSUME Calm, worker.pc \in Holding, worker.job \notin Deletions
    PROVE  /\ worker.job \in Jobs /\ Subject \in Documents
           /\ worker.job = IngestJob[Subject] /\ worker.job # DeleteJob[Subject]
           /\ processing[worker.job] # Absent
           /\ record[Subject] \notin {"none", "deleted"}
<1>1. worker.job \in Jobs /\ processing[worker.job] # Absent
  BY DEF Calm, Context, Inductive, QueueInv, ClaimKeepsManifest
<1>2. /\ Subject \in Documents /\ worker.job = IngestJob[Subject]
      /\ worker.job # DeleteJob[Subject]
  BY <1>1, JobsOfDocuments DEF Subject
<1> HIDE DEF Subject
<1> QED BY <1>1, <1>2 DEF Calm, OneAtATime, UnknownIsNowhere, Nowhere

\* The job goes into pending/.
LEMMA WriteKeeps ==
    ASSUME Sequential, Calm, NEW c \in Callers, PublishStep(c), WritePending(c)
    PROVE  OneAtATime'
<1> DEFINE d == request[c].doc
           j == call[c].job
<1>1. \A b \in Callers : b = c BY DEF Sequential
<1>2. /\ call \in [Callers -> Call] /\ pending \in [Jobs -> Manifest \cup {Absent}]
      /\ request \in [Callers -> [pc : RequestPC, kind : Kinds \cup {"none"},
                                  doc : Documents \cup {NoDocument}]]
  BY DEF Calm, Context, RequestOK, Inductive, QueueTypeOK
<1>3. /\ request[c].pc = "publishing" /\ call[c].pc = "write"
      /\ call' = [call EXCEPT ![c] = IdleCall]
      /\ pending' = [pending EXCEPT ![j] = Fresh(0)]
      /\ UNCHANGED <<processing, completed, failed, worker, record, pipeline>>
  BY DEF PublishStep, WritePending, Return
<1>4. call'[c].pc = "idle" BY <1>2, <1>3 DEF IdleCall
<1>5. request'[c] = IdleRequest BY <1>2, <1>4 DEF PublishStep, Respond
<1>6. request'[c].pc = "idle" BY <1>5 DEF IdleRequest
<1>7. /\ d \in Documents /\ request[c].kind \in {"upload", "delete"}
      /\ j = IF request[c].kind = "delete" THEN DeleteJob[d] ELSE IngestJob[d]
  BY <1>3 DEF Calm, Context, RequestOK, OneAtATime, RequestsInStep
<1>8. Nowhere(j)
  <2>1. Beyond(c, 1) /\ Beyond(c, 2) /\ Beyond(c, 3) BY <1>3 DEF Beyond
  <2> QED BY <1>3, <2>1 DEF Calm, OneAtATime, CallsFound, Nowhere
<1>9. j \in Jobs /\ Fresh(0).retry = 0 /\ Fresh(0) # Absent
  BY <1>7, JobsOfDocuments, FreshManifest, QueueAssumption DEF Fresh
<1>10. \A k \in Jobs : pending'[k] = IF k = j THEN Fresh(0) ELSE pending[k]
  BY <1>2, <1>3
<1>11. request[c].kind = "delete" => record[d] \notin {"none", "deleted", "accepted"}
  BY <1>3, <1>7, <1>8 DEF Calm, OneAtATime, DeletionsAreDue, Nowhere
<1>12. request[c].kind = "upload" => record[d] = "accepted"
  BY <1>3 DEF Calm, OneAtATime, UploadsAreFirst
<1> HIDE DEF d, j
<1> USE DEF Calm, OneAtATime
<1>13. OneClaim' BY <1>3, <1>8, <1>9, <1>10 DEF OneClaim, Nowhere
<1>14. RequestsInStep' BY <1>1, <1>4, <1>6 DEF RequestsInStep
<1>15. CallsFound' BY <1>1, <1>4 DEF CallsFound, Beyond
<1>16. DeletionsAreDue'
  <2>1. \A e \in Documents : DeletionOver(e)' = DeletionOver(e) BY <1>3 DEF DeletionOver
  <2>2. \A e \in Documents : record[e] \in {"none", "deleted", "accepted"} => DeleteJob[e] # j
    BY <1>7, <1>11, JobsOfDocuments
  <2>3. \A e \in Documents : DeleteJob[e] \in Jobs BY JobsOfDocuments
  <2> QED BY <1>1, <1>3, <1>6, <1>10, <2>1, <2>2, <2>3 DEF DeletionsAreDue
<1>17. UnknownIsNowhere'
  <2>1. \A e \in Documents : record[e] \in {"none", "deleted"} => IngestJob[e] # j
    BY <1>7, <1>12, JobsOfDocuments
  <2>2. \A e \in Documents : IngestJob[e] \in Jobs BY JobsOfDocuments
  <2> QED BY <1>3, <1>10, <2>1, <2>2 DEF UnknownIsNowhere, Nowhere
<1>18. UploadsAreFirst' BY <1>1, <1>6 DEF UploadsAreFirst
<1>19. PurgeClears'
  <2>1. SUFFICES ASSUME \/ worker.pc = "purge"
                        \/ pipeline.pc \in {"get", "put"} /\ pipeline.target = "deleted"
                 PROVE  IngestJob[Subject] # j /\ IngestJob[Subject] \in Jobs
    BY <1>3, <1>10 DEF PurgeClears, Nowhere, Subject
  <2>2. worker.pc \in Holding /\ worker.job \in Deletions /\ pipeline.pc # "outcome"
    BY <2>1 DEF Context, PipelineAgrees, Holding, FilesInv, TargetFits, Busy, Inductive, QueueInv,
                ControlOK, PipelinePC
  <2>3. Subject \in Documents /\ record[Subject] # "accepted" BY <2>2, DeletionIsDue
  <2> HIDE DEF Subject
  <2> QED BY <1>7, <1>12, <2>3, JobsOfDocuments
<1>20. OverIsCompleted' /\ IngestBegins'
  BY <1>3 DEF OverIsCompleted, IngestBegins, Subject
<1>21. AcceptedIsQueued'
  <2>1. SUFFICES ASSUME NEW e \in Documents, record[e] = "accepted"
                 PROVE  pending'[IngestJob[e]] # Absent \/ processing[IngestJob[e]] # Absent
    BY <1>3, JobsOfDocuments DEF AcceptedIsQueued, Live
  <2>2. CASE e = d BY <1>7, <1>9, <1>10, <1>11, <2>1, <2>2
  <2>3. CASE e # d
    <3>1. IngestJob[e] \in Live BY <1>1, <2>1, <2>3 DEF AcceptedIsQueued, d
    <3> QED BY <1>9, <1>10, <3>1 DEF Live
  <2> QED BY <2>2, <2>3
<1> QED BY <1>13, <1>14, <1>15, <1>16, <1>17, <1>18, <1>19, <1>20, <1>21

\* No request, alone among requests, breaks the invariant.
LEMMA RequestsKeep ==
    ASSUME Sequential, Calm, NEW c \in Callers, BeginRequest(c) \/ RequestStep(c) \/ Abort(c)
    PROVE  OneAtATime'
<1>1. ~ Abort(c) BY DEF Sequential, Abort
<1>2. CASE Waits(c) BY <1>2, WaitingKeeps
<1>3. CASE Accept(c) BY <1>3, AcceptKeeps
<1>4. CASE DeleteMark(c) BY <1>4, MarkKeeps
<1>5. CASE BeginPublish(c) BY <1>5, BeginPublishKeeps
<1>6. CASE PublishStep(c) BY <1>6, SearchKeeps, WriteKeeps
<1> QED BY <1>1, <1>2, <1>3, <1>4, <1>5, <1>6, RequestsWait

-----------------------------------------------------------------------------
(* The worker, beside one request at a time. *)

\* A step of process_one between two statuses leaves the queue and the records alone.
LEMMA WorkingKeeps ==
    ASSUME Calm, UNCHANGED <<queueVars, record, request>>,
           pipeline.pc \in {"get", "act", "rmtree"},
           pipeline'.pc \in {"get", "put"} /\ pipeline'.target = "deleted" =>
              pipeline.pc = "get" /\ pipeline.target = "deleted",
           worker.job \notin Deletions /\ record[Subject] = "accepted" =>
              pipeline'.pc \in {"get", "put"} /\ pipeline'.target = "parsing"
    PROVE  OneAtATime'
<1>1. UNCHANGED <<pending, processing, completed, failed, call, worker>> BY DEF queueVars
<1>2. worker.pc \in {"working", "purged", "failing"}
  BY DEF Calm, Context, PipelineAgrees
<1> USE DEF Calm, OneAtATime
<1>3. OneClaim' BY <1>1 DEF OneClaim
<1>4. RequestsInStep' BY <1>1 DEF RequestsInStep
<1>5. CallsFound' BY <1>1 DEF CallsFound, Beyond
<1>6. DeletionsAreDue' BY <1>1 DEF DeletionsAreDue, DeletionOver
<1>7. UnknownIsNowhere' /\ UploadsAreFirst'
  BY <1>1 DEF UnknownIsNowhere, UploadsAreFirst, Nowhere
<1>8. PurgeClears' BY <1>1, <1>2 DEF PurgeClears, Nowhere, Subject
<1>9. IngestBegins' BY <1>1 DEF IngestBegins, Subject
<1>10. OverIsCompleted' BY <1>1, <1>2 DEF OverIsCompleted
<1>11. AcceptedIsQueued' BY <1>1 DEF AcceptedIsQueued, Live
<1> QED BY <1>3, <1>4, <1>5, <1>6, <1>7, <1>8, <1>9, <1>10, <1>11

\* Reading, writing and removing a document's files, and the reads of set_status.
LEMMA WorkKeeps ==
    ASSUME Calm, \/ StatusValid \/ StatusInvalid \/ Parse \/ ParseRaises \/ ChunkText
                 \/ ChunkRaises \/ WriteIndex \/ RmtreeList \/ RmtreeUnlink \/ RmtreeRmdir
    PROVE  OneAtATime'
<1>1. UNCHANGED <<queueVars, record, request>> /\ pipeline.pc \in {"get", "act", "rmtree"}
  BY DEF StatusValid, StatusInvalid, Parse, ParseRaises, ChunkText, ChunkRaises, WriteIndex,
         RmtreeList, RmtreeUnlink, RmtreeRmdir
<1>2. /\ pipeline \in [pc : PipelinePC, target : DocumentStatus \cup {"none"},
                       todo : SUBSET Artifacts, exiting : BOOLEAN]
      /\ worker.pc \in Holding
  BY <1>1 DEF Calm, Context, ControlOK, PipelineAgrees, Holding
<1>3. worker.job \notin Deletions /\ record[Subject] = "accepted" =>
        pipeline.pc = "get" /\ pipeline.target = "parsing"
  BY <1>1, <1>2 DEF Calm, OneAtATime, IngestBegins
<1>4. ASSUME NEW next, pipeline' = Pipeline("get", next), next # "deleted",
             ~ (worker.job \notin Deletions /\ record[Subject] = "accepted")
      PROVE  OneAtATime'
  BY <1>1, <1>4, WorkingKeeps DEF Pipeline
<1>5. CASE Parse \/ ParseRaises \/ ChunkText \/ ChunkRaises \/ WriteIndex
  <2>1. pipeline.pc = "act"
    BY <1>5 DEF Parse, ParseRaises, ChunkText, ChunkRaises, WriteIndex
  <2>2. \/ pipeline' = Pipeline("get", "chunking") \/ pipeline' = Pipeline("get", "indexing")
        \/ pipeline' = Pipeline("get", "ready") \/ pipeline' = Pipeline("get", "failed")
    BY <1>5 DEF Parse, ParseRaises, ChunkText, ChunkRaises, WriteIndex, Produces, Raise
  <2> QED BY <1>3, <1>4, <2>1, <2>2
<1>6. CASE StatusValid
  <2>1. pipeline'.pc = "put" /\ pipeline'.target = pipeline.target /\ pipeline.pc = "get"
    BY <1>2, <1>6 DEF StatusValid
  <2> QED BY <1>1, <1>3, <2>1, WorkingKeeps
<1>7. CASE StatusInvalid
  <2>1. ~ (pipeline.target = "parsing" /\ record[Subject] = "accepted")
    BY <1>7 DEF StatusInvalid, CanTransition, AllowedTransitions
  <2>2. CASE pipeline.target = "failed"
    <3>1. pipeline' = [pipeline EXCEPT !.pc = "outcome", !.exiting = TRUE]
      BY <1>7, <2>2 DEF StatusInvalid
    <3>2. pipeline'.pc = "outcome" BY <1>2, <3>1
    <3> QED BY <1>1, <1>3, <2>1, <3>2, WorkingKeeps
  <2>3. CASE pipeline.target # "failed"
    <3>1. pipeline' = Pipeline("get", "failed") BY <1>7, <2>3 DEF StatusInvalid, Raise
    <3> QED BY <1>3, <1>4, <2>1, <3>1
  <2> QED BY <2>2, <2>3
<1>8. CASE RmtreeList \/ RmtreeUnlink \/ RmtreeRmdir
  <2>1. pipeline.pc = "rmtree" BY <1>8 DEF RmtreeList, RmtreeUnlink, RmtreeRmdir
  <2>2. worker.job \in Deletions BY <2>1 DEF Calm, Context, PipelineAgrees
  <2>3. \/ pipeline'.pc \in {"rmtree", "purge"}
        \/ pipeline' = Pipeline("get", "failed")
    <3>1. CASE RmtreeList BY <1>2, <2>1, <3>1 DEF RmtreeList
    <3>2. CASE RmtreeUnlink BY <1>2, <2>1, <3>2 DEF RmtreeUnlink
    <3>3. CASE RmtreeRmdir
      BY <3>3 DEF RmtreeRmdir, Raise, Pipeline
    <3> QED BY <1>8, <3>1, <3>2, <3>3
  <2>4. ~ (pipeline'.pc \in {"get", "put"} /\ pipeline'.target = "deleted")
    BY <2>3 DEF Pipeline
  <2> QED BY <1>1, <2>2, <2>4, WorkingKeeps
<1> QED BY <1>5, <1>6, <1>7, <1>8

\* The worker's upsert, over the record as it is by then.
LEMMA StatusPutKeeps ==
    ASSUME Calm, StatusPut PROVE OneAtATime'
<1>1. /\ UNCHANGED <<pending, processing, completed, failed, call, worker, request>>
      /\ pipeline.pc = "put"
      /\ record' = [record EXCEPT ![Subject] = pipeline.target]
  BY DEF StatusPut, SetRecord, queueVars
<1>2. /\ pipeline \in [pc : PipelinePC, target : DocumentStatus \cup {"none"},
                       todo : SUBSET Artifacts, exiting : BOOLEAN]
      /\ record \in [Documents -> DocumentStatus \cup {"none"}]
      /\ worker.pc \in {"working", "purged", "failing"} /\ worker.pc \in Holding
  BY <1>1 DEF Calm, Context, ControlOK, PipelineAgrees, Holding
<1>3. pipeline'.pc \in {"act", "outcome"} /\ pipeline'.target = pipeline.target
      /\ (pipeline'.pc = "outcome" <=> pipeline.target \notin {"parsing", "chunking", "indexing"})
  BY <1>2 DEF StatusPut
<1>4. IF worker.job \in Deletions
      THEN pipeline.target \in {"deleted", "failed"}
      ELSE pipeline.target \in {"parsing", "chunking", "indexing", "ready", "failed"}
  BY <1>1 DEF Calm, FilesInv, TargetFits, Busy
<1>5. Subject \in Documents /\ record[Subject] \notin {"none", "deleted"}
      /\ (worker.job \in Deletions => record[Subject] # "accepted")
      /\ (worker.job \in Deletions => worker.job = DeleteJob[Subject])
      /\ worker.job \in Jobs
  BY <1>1, <1>2, DeletionIsDue, IngestIsKnown
<1>6. \A c \in Callers :
        ~ (/\ request[c].doc = Subject
           /\ \/ request[c].pc \in {"mkdir", "promote", "move", "accept"}
              \/ request[c].kind = "upload" /\ request[c].pc \in {"publish", "publishing"})
  <2>1. SUFFICES ASSUME NEW c \in Callers, request[c].doc = Subject,
                        request[c].kind = "upload", request[c].pc \in {"publish", "publishing"}
                 PROVE  FALSE
    BY <1>5 DEF Calm, OneAtATime, UploadsAreFirst
  <2>2. record[Subject] = "accepted" /\ Nowhere(IngestJob[Subject])
    BY <2>1 DEF Calm, OneAtATime, UploadsAreFirst
  <2> QED BY <1>2, <1>5, <2>2, IngestIsKnown DEF Nowhere
<1>7. pipeline.target = "deleted" => Nowhere(IngestJob[Subject])
  BY <1>1 DEF Calm, OneAtATime, PurgeClears
<1>8. Subject' = Subject BY <1>1 DEF Subject
<1>9. \A e \in Documents : record'[e] = IF e = Subject THEN pipeline.target ELSE record[e]
  BY <1>1, <1>2
<1>10. \A e \in Documents : ~ DeletionOver(e) BY <1>1 DEF DeletionOver
<1>11. pipeline.target = "deleted" =>
         DeletionOver(Subject)' /\ pending[DeleteJob[Subject]] = Absent
                                /\ processing[DeleteJob[Subject]] # Absent
  <2> SUFFICES ASSUME pipeline.target = "deleted"
               PROVE  DeletionOver(Subject)' /\ pending[DeleteJob[Subject]] = Absent
                                             /\ processing[DeleteJob[Subject]] # Absent
    OBVIOUS
  <2>1. worker.job = DeleteJob[Subject] BY <1>4, <1>5
  <2>2. processing[worker.job] # Absent
    BY <1>2 DEF Calm, Context, Inductive, QueueInv, ClaimKeepsManifest
  <2>3. pending[worker.job] = Absent BY <1>5, <2>2 DEF Calm, OneAtATime, OneClaim
  <2>4. DeletionOver(Subject)'
    BY <1>1, <1>2, <1>3, <1>8, <2>1 DEF DeletionOver
  <2> QED BY <2>1, <2>2, <2>3, <2>4
<1> HIDE DEF Subject
<1> USE DEF Calm, OneAtATime
<1>12. OneClaim' BY <1>1 DEF OneClaim
<1>13. RequestsInStep' BY <1>1 DEF RequestsInStep
<1>14. CallsFound' BY <1>1 DEF CallsFound, Beyond
<1>15. DeletionsAreDue'
  <2>1. ASSUME NEW e \in Documents, record'[e] \in {"none", "deleted", "accepted"}, e # Subject
        PROVE  record[e] = record'[e] /\ processing[DeleteJob[e]] = Absent
    BY <1>9, <1>10, <2>1 DEF DeletionsAreDue
  <2>2. record'[Subject] \in {"none", "deleted", "accepted"} => pipeline.target = "deleted"
    BY <1>4, <1>5, <1>9
  <2>3. DeletionOver(Subject)' =>
          worker'.pc \in Holding /\ worker'.job = DeleteJob[Subject]
    BY <1>8 DEF DeletionOver
  <2>4. SUFFICES ASSUME NEW e \in Documents, record'[e] \in {"none", "deleted", "accepted"}
                 PROVE  /\ pending[DeleteJob[e]] = Absent
                        /\ processing[DeleteJob[e]] # Absent => DeletionOver(e)'
                        /\ \A c \in Callers :
                              /\ request[c].doc = e /\ request[c].kind = "delete"
                              /\ request[c].pc \in {"publish", "publishing"}
                              => \/ DeleteJob[e] \in completed
                                 \/ processing[DeleteJob[e]] # Absent
    BY <1>1 DEF DeletionsAreDue
  <2>5. CASE e = Subject
    <3>1. pipeline.target = "deleted" BY <2>2, <2>4, <2>5
    <3>2. DeletionOver(e)' BY <1>8, <1>11, <2>5, <3>1
    <3> QED BY <1>11, <2>5, <3>1, <3>2
  <2>6. CASE e # Subject BY <2>1, <2>4, <2>6 DEF DeletionsAreDue
  <2> QED BY <2>5, <2>6
<1>16. UnknownIsNowhere' BY <1>1, <1>4, <1>7, <1>9 DEF UnknownIsNowhere, Nowhere
<1>17. UploadsAreFirst'
  <2>1. \A c \in Callers : request[c].pc # "idle" => request[c].doc \in Documents
    BY DEF Context, RequestOK
  <2> QED BY <1>1, <1>4, <1>6, <1>9, <2>1 DEF UploadsAreFirst, Nowhere
<1>18. PurgeClears' BY <1>1, <1>2, <1>3 DEF PurgeClears
<1>19. IngestBegins' BY <1>4, <1>5, <1>8, <1>9 DEF IngestBegins
<1>20. OverIsCompleted' BY <1>1, <1>2 DEF OverIsCompleted
<1>21. AcceptedIsQueued' BY <1>1, <1>4, <1>9 DEF AcceptedIsQueued, Live
<1> QED BY <1>12, <1>13, <1>14, <1>15, <1>16, <1>17, <1>18, <1>19, <1>20, <1>21

\* The purge takes jobs of its document away, and no other.
LEMMA PurgeOneKeeps ==
    ASSUME Calm, PurgeStep, NEW j \in Jobs, PurgeOne(j) PROVE OneAtATime'
<1> DEFINE d == Subject
<1>1. /\ worker.pc = "purge" /\ j \in worker.todo /\ Readable(worker.at, j)
      /\ pipeline.pc = "purge" /\ worker.pc \in Holding
      /\ worker' = [worker EXCEPT !.todo = @ \ {j}]
      /\ UNCHANGED <<call, record, request, pipeline>>
  BY DEF PurgeStep, PurgeOne, Holding
<1>2. /\ worker \in Worker /\ worker.job \in Deletions /\ j # worker.job
      /\ pending \in [Jobs -> Manifest \cup {Absent}]
      /\ processing \in [Jobs -> Manifest \cup {Absent}]
  BY <1>1 DEF Calm, Context, Inductive, QueueInv, QueueTypeOK
<1>3. /\ d \in Documents /\ worker.job = DeleteJob[d] /\ worker.job # IngestJob[d]
      /\ worker.job \in Jobs
      /\ record[d] \notin {"none", "deleted", "accepted"}
  BY <1>1, <1>2, DeletionIsDue
<1>4. processing[j] = Absent BY <1>2 DEF Calm, OneAtATime, OneClaim
<1>5. processing' = processing
  BY <1>1, <1>2, <1>4 DEF PurgeOne, Unlinked, Readable, Exists
<1>6. /\ \A k \in Jobs : pending'[k] = pending[k] \/ (pending'[k] = Absent /\ k = j)
      /\ completed' \subseteq completed /\ completed \ completed' \subseteq {j}
      /\ failed' \subseteq failed /\ failed \ failed' \subseteq {j}
      /\ DocumentOf[j] # d => /\ \A k \in Jobs : pending'[k] = pending[k]
                              /\ completed' = completed /\ failed' = failed
  BY <1>2 DEF PurgeOne, Unlinked, Subject
<1>7. DocumentOf[j] = d => /\ worker.at = 1 => pending'[j] = Absent
                           /\ worker.at = 3 => j \notin completed'
                           /\ worker.at = 4 => j \notin failed'
  BY <1>2 DEF PurgeOne, Unlinked, Subject
<1>8. /\ worker'.pc = "purge" /\ worker'.job = worker.job /\ worker'.at = worker.at
      /\ worker'.todo = worker.todo \ {j}
  BY <1>1, <1>2 DEF Worker
<1>9. Subject' = d BY <1>8 DEF Subject
<1>10. DocumentOf[j] = d => j = IngestJob[d]
  BY <1>2, <1>3, JobsOfDocuments
<1>11. \A e \in Documents : DeletionOver(e)' = DeletionOver(e)
  BY <1>1 DEF DeletionOver
<1>12. \A e \in Documents : /\ DeleteJob[e] = j => DocumentOf[j] # d
                            /\ e # d /\ IngestJob[e] = j => DocumentOf[j] # d
                            /\ DeleteJob[e] \in Jobs /\ IngestJob[e] \in Jobs
  BY <1>2, <1>3, JobsOfDocuments
<1> HIDE DEF d
<1> USE DEF Calm, OneAtATime
<1>13. OneClaim' BY <1>1, <1>5, <1>6, <1>8 DEF OneClaim, Holding
<1>14. RequestsInStep' BY <1>1 DEF RequestsInStep
<1>15. CallsFound'
  <2>1. \A c \in Callers : call[c].pc # "idle" => call[c].job \in Jobs
    BY DEF Context, Inductive, QueueInv
  <2>2. \A c \in Callers : Beyond(c, 1) \/ Beyond(c, 2) \/ Beyond(c, 3) => call[c].pc # "idle"
    BY DEF Beyond
  <2>3. \A c \in Callers, n \in 1 .. 3 : Beyond(c, n)' = Beyond(c, n) BY <1>1 DEF Beyond
  <2> QED BY <1>1, <1>5, <1>6, <2>1, <2>2, <2>3 DEF CallsFound
<1>16. DeletionsAreDue' BY <1>1, <1>5, <1>6, <1>11, <1>12 DEF DeletionsAreDue
<1>17. UnknownIsNowhere' BY <1>1, <1>5, <1>6, <1>12 DEF UnknownIsNowhere, Nowhere
<1>18. UploadsAreFirst'
  <2>1. \A c \in Callers : request[c].pc # "idle" => request[c].doc \in Documents
    BY DEF Context, RequestOK
  <2> QED BY <1>1, <1>5, <1>6, <1>12, <2>1 DEF UploadsAreFirst, Nowhere
<1>19. PurgeClears'
  <2>1. /\ pending[IngestJob[d]] # Absent => worker.at = 1 /\ IngestJob[d] \in worker.todo
        /\ IngestJob[d] \in completed =>
             worker.at < 3 \/ (worker.at = 3 /\ IngestJob[d] \in worker.todo)
        /\ IngestJob[d] \in failed =>
             worker.at < 4 \/ (worker.at = 4 /\ IngestJob[d] \in worker.todo)
    BY <1>1 DEF PurgeClears, d
  <2>2. IngestJob[d] = j => DocumentOf[j] = d BY <1>3, JobsOfDocuments
  <2>3. IngestJob[d] \in Jobs BY <1>3, <1>12
  <2> QED BY <1>1, <1>6, <1>7, <1>8, <1>9, <2>1, <2>2, <2>3 DEF PurgeClears
<1>20. IngestBegins' /\ OverIsCompleted'
  BY <1>2, <1>8 DEF IngestBegins, OverIsCompleted
<1>21. AcceptedIsQueued' BY <1>1, <1>3, <1>5, <1>6, <1>12 DEF AcceptedIsQueued, Live
<1> QED BY <1>13, <1>14, <1>15, <1>16, <1>17, <1>18, <1>19, <1>20, <1>21

\* What is left to show of a purge's step that removes nothing.
LEMMA PurgeMoves ==
    ASSUME Calm, UNCHANGED <<pending, processing, completed, failed, call, record, request>>,
           worker.pc \in {"working", "purge"}, worker.job \in Deletions,
           pipeline.pc = "purge", worker'.job = worker.job,
           worker'.pc \in {"purge", "purged", "failing"}, pipeline'.pc \in {"purge", "get"},
           PurgeClears'
    PROVE  OneAtATime'
<1> USE DEF Calm, OneAtATime
<1>1. OneClaim' BY DEF OneClaim, Holding
<1>2. RequestsInStep' BY DEF RequestsInStep
<1>3. CallsFound' BY DEF CallsFound, Beyond
<1>4. DeletionsAreDue'
  <2>1. \A e \in Documents : ~ DeletionOver(e) BY DEF DeletionOver
  <2> QED BY <2>1 DEF DeletionsAreDue
<1>5. UnknownIsNowhere' BY DEF UnknownIsNowhere, Nowhere
<1>6. UploadsAreFirst' BY DEF UploadsAreFirst, Nowhere
<1>7. IngestBegins' /\ OverIsCompleted' BY DEF IngestBegins, OverIsCompleted
<1>8. AcceptedIsQueued' BY DEF AcceptedIsQueued, Live
<1> QED BY <1>1, <1>2, <1>3, <1>4, <1>5, <1>6, <1>7, <1>8

\* The purge's listings, its return and its failure.
LEMMA PurgeKeeps ==
    ASSUME Calm, PurgeStep \/ PurgeReturns \/ PurgeFails PROVE OneAtATime'
<1>1. /\ worker \in Worker /\ worker.pc \in {"working", "purge"} /\ worker.pc \in Holding
      /\ pipeline.pc = "purge" /\ worker.job \in Deletions
  <2>1. worker \in Worker BY DEF Calm, Context, Inductive, QueueTypeOK
  <2>2. worker.pc = "purge" => pipeline.pc = "purge"
    BY DEF Calm, Context, ControlOK, PipelineAgrees, PipelinePC, Holding
  <2>3. pipeline.pc = "purge" => worker.pc \in {"working", "purge"} /\ worker.job \in Deletions
    BY DEF Calm, Context, PipelineAgrees
  <2>4. worker.pc = "purge" \/ pipeline.pc = "purge"
    BY DEF PurgeStep, PurgeReturns, PurgeDone, PurgeFails, PurgeRaises
  <2> QED BY <2>1, <2>2, <2>3, <2>4 DEF Holding
<1>2. /\ worker.job \in Jobs /\ Subject \in Documents
      /\ worker.job = DeleteJob[Subject] /\ worker.job # IngestJob[Subject]
      /\ IngestJob[Subject] \in Jobs
  BY <1>1, DeletionIsDue, JobsOfDocuments
<1>3. processing[IngestJob[Subject]] = Absent
  BY <1>2 DEF Calm, OneAtATime, OneClaim
<1>4. PurgeClears BY DEF Calm, OneAtATime
<1>5. CASE BeginPurge /\ PurgeStep
  <2>1. /\ worker.pc = "working" /\ worker' = [worker EXCEPT !.pc = "purge",
                                                             !.todo = Listing(1) \ {worker.job}]
        /\ UNCHANGED <<pending, processing, completed, failed, call, record, request, pipeline>>
    BY <1>5 DEF BeginPurge, PurgeStep, files
  <2>2. worker.at = 1 BY <2>1 DEF Calm, OneAtATime, OneClaim
  <2>3. /\ worker'.pc = "purge" /\ worker'.job = worker.job /\ worker'.at = 1
        /\ worker'.todo = Listing(1) \ {worker.job}
    BY <1>1, <2>1, <2>2 DEF Worker
  <2>4. Subject' = Subject BY <2>3 DEF Subject
  <2> HIDE DEF Subject
  <2>5. PurgeClears' BY <1>1, <1>2, <2>1, <2>3, <2>4 DEF PurgeClears, Listing, Exists
  <2> QED BY <1>1, <2>1, <2>3, <2>5, PurgeMoves
<1>6. CASE PurgeNextDirectory /\ PurgeStep
  <2>1. /\ worker.pc = "purge" /\ worker.todo = {} /\ worker.at < 4
        /\ worker' = [worker EXCEPT !.at = @ + 1, !.todo = Listing(worker.at + 1) \ {worker.job}]
        /\ UNCHANGED <<pending, processing, completed, failed, call, record, request, pipeline>>
    BY <1>6 DEF PurgeNextDirectory, PurgeStep, files
  <2>2. /\ worker'.pc = "purge" /\ worker'.job = worker.job /\ worker'.at = worker.at + 1
        /\ worker'.todo = Listing(worker.at + 1) \ {worker.job}
        /\ worker.at \in 1 .. 3
    BY <1>1, <2>1 DEF Worker
  <2>3. Subject' = Subject BY <2>2 DEF Subject
  <2> HIDE DEF Subject
  <2>4. PurgeClears'
    BY <1>1, <1>2, <1>4, <2>1, <2>2, <2>3 DEF PurgeClears, Listing, Exists
  <2> QED BY <1>1, <2>1, <2>2, <2>4, PurgeMoves
<1>7. CASE PurgeReturns
  <2>1. /\ worker.pc = "purge" /\ worker.todo = {} /\ worker.at = 4
        /\ worker' = WorkerOn("purged", worker.job) /\ pipeline' = Pipeline("get", "deleted")
        /\ UNCHANGED <<pending, processing, completed, failed, call, record, request>>
    BY <1>7 DEF PurgeReturns, PurgeDone, files
  <2>2. worker'.pc = "purged" /\ worker'.job = worker.job /\ pipeline'.pc = "get"
    BY <2>1 DEF WorkerOn, WorkerAt, Pipeline
  <2>3. Subject' = Subject BY <2>2 DEF Subject
  <2>4. Nowhere(IngestJob[Subject]) BY <1>3, <1>4, <2>1 DEF PurgeClears, Nowhere
  <2> HIDE DEF Subject
  <2>5. PurgeClears' BY <2>1, <2>2, <2>3, <2>4 DEF PurgeClears, Nowhere
  <2> QED BY <1>1, <2>1, <2>2, <2>5, PurgeMoves
<1>8. CASE PurgeFails
  <2>1. /\ worker' = WorkerOn("failing", worker.job) /\ pipeline' = Pipeline("get", "failed")
        /\ UNCHANGED <<pending, processing, completed, failed, call, record, request>>
    BY <1>8 DEF PurgeFails, PurgeRaises, Raise, files
  <2>2. /\ worker'.pc = "failing" /\ worker'.job = worker.job /\ pipeline'.pc = "get"
        /\ pipeline'.target = "failed"
    BY <2>1 DEF WorkerOn, WorkerAt, Pipeline
  <2>3. PurgeClears' BY <2>2 DEF PurgeClears
  <2> QED BY <1>1, <2>1, <2>2, <2>3, PurgeMoves
<1> QED BY <1>5, <1>6, <1>7, <1>8, PurgeOneKeeps DEF PurgeStep

\* The outcome is written.
LEMMA SettleKeeps ==
    ASSUME Calm, Settle PROVE OneAtATime'
<1>1. /\ pipeline.pc = "outcome" /\ UNCHANGED <<pending, processing, call, record, request, pipeline>>
      /\ worker' = [worker EXCEPT !.pc = "settled"]
      /\ completed \subseteq completed' /\ completed' \subseteq completed \cup {worker.job}
      /\ failed \subseteq failed' /\ failed' \subseteq failed \cup {worker.job}
      /\ pipeline.target = "deleted" => worker.job \in completed'
  <2>1. CASE pipeline.target = "failed" BY <2>1 DEF Settle, FailWrite
  <2>2. CASE pipeline.target # "failed" BY <2>2 DEF Settle, CompleteWrite
  <2> QED BY <2>1, <2>2
<1>2. /\ worker \in Worker /\ worker.pc \in Holding
  BY <1>1 DEF Calm, Context, Inductive, QueueTypeOK, PipelineAgrees, Settle, FailWrite,
              CompleteWrite, Holding
<1>3. /\ worker.job \in Jobs /\ processing[worker.job] # Absent
  BY <1>2 DEF Calm, Context, Inductive, QueueInv, ClaimKeepsManifest
<1>4. worker'.pc = "settled" /\ worker'.job = worker.job /\ worker'.pc \in Holding
  BY <1>1, <1>2 DEF Worker, Holding
<1>5. Subject' = Subject BY <1>4 DEF Subject
<1>6. \A j \in Jobs : Nowhere(j) => Nowhere(j)' BY <1>1, <1>3 DEF Nowhere
<1>7. \A e \in Documents : DeletionOver(e) => DeletionOver(e)'
  BY <1>1, <1>4 DEF DeletionOver
<1> HIDE DEF Subject
<1> USE DEF Calm, OneAtATime
<1>8. OneClaim' BY <1>1, <1>4 DEF OneClaim
<1>9. RequestsInStep' BY <1>1 DEF RequestsInStep
<1>10. CallsFound'
  <2>1. \A c \in Callers, n \in 1 .. 3 : Beyond(c, n)' = Beyond(c, n) BY <1>1 DEF Beyond
  <2>2. ASSUME NEW c \in Callers PROVE Beyond(c, 3) \/ call[c].pc = "write" => Beyond(c, 2)
    <3>1. call[c] \in Call BY DEF Context, Inductive, QueueTypeOK
    <3> QED BY <3>1 DEF Beyond, Call
  <2> QED BY <1>1, <1>3, <2>1, <2>2 DEF CallsFound
<1>11. DeletionsAreDue' BY <1>1, <1>7 DEF DeletionsAreDue
<1>12. UnknownIsNowhere' BY <1>1, <1>6, JobsOfDocuments DEF UnknownIsNowhere
<1>13. UploadsAreFirst'
  <2>1. \A c \in Callers : request[c].pc # "idle" => request[c].doc \in Documents
    BY DEF Context, RequestOK
  <2> QED BY <1>1, <1>6, <2>1, JobsOfDocuments DEF UploadsAreFirst
<1>14. PurgeClears' BY <1>1, <1>4 DEF PurgeClears
<1>15. IngestBegins' BY <1>1, <1>2, <1>4, <1>5 DEF IngestBegins
<1>16. OverIsCompleted' BY <1>1, <1>4 DEF OverIsCompleted
<1>17. AcceptedIsQueued' BY <1>1 DEF AcceptedIsQueued, Live
<1> QED BY <1>8, <1>9, <1>10, <1>11, <1>12, <1>13, <1>14, <1>15, <1>16, <1>17

\* The claim goes, and with it the job.
LEMMA EndJobKeeps ==
    ASSUME Calm, EndJob PROVE OneAtATime'
<1>1. /\ worker.pc = "settled" /\ worker.pc \in Holding
      /\ processing' = [processing EXCEPT ![worker.job] = Absent]
      /\ worker' = WorkerAt("idle")
      /\ pipeline' = NoPipeline \/ pipeline' = Pipeline("exit", "none")
      /\ UNCHANGED <<pending, completed, failed, call, record, request>>
  BY DEF EndJob, Release, Holding
<1>2. pipeline.pc = "outcome"
  BY <1>1 DEF Calm, Context, ControlOK, PipelineAgrees, PipelinePC, Holding
<1>3. /\ worker.job \in Jobs /\ processing[worker.job] # Absent
      /\ processing \in [Jobs -> Manifest \cup {Absent}]
  BY <1>1 DEF Calm, Context, Inductive, QueueInv, ClaimKeepsManifest, QueueTypeOK
<1>4. worker'.pc = "idle" /\ worker'.pc \notin Holding /\ pipeline'.pc \in {"none", "exit"}
  BY <1>1 DEF WorkerAt, NoPipeline, Pipeline, Holding
<1>5. \A j \in Jobs : processing'[j] = IF j = worker.job THEN Absent ELSE processing[j]
  BY <1>1, <1>3
<1>6. \A j \in Jobs : processing'[j] = Absent
  BY <1>5 DEF Calm, OneAtATime, OneClaim
<1> USE DEF Calm, OneAtATime
<1>7. OneClaim' BY <1>1, <1>4, <1>6 DEF OneClaim
<1>8. RequestsInStep' BY <1>1 DEF RequestsInStep
<1>9. CallsFound'
  <2>1. \A c \in Callers, n \in 1 .. 3 : Beyond(c, n)' = Beyond(c, n) BY <1>1 DEF Beyond
  <2>2. \A c \in Callers : call[c].pc # "idle" => call[c].job \in Jobs
    BY DEF Context, Inductive, QueueInv
  <2>3. \A c \in Callers : Beyond(c, 2) => call[c].pc # "idle" BY DEF Beyond
  <2> QED BY <1>1, <1>6, <2>1, <2>2, <2>3 DEF CallsFound
<1>10. DeletionsAreDue'
  <2>1. ASSUME NEW e \in Documents, record[e] \in {"none", "deleted", "accepted"},
               processing[DeleteJob[e]] # Absent
        PROVE  DeleteJob[e] \in completed
    <3>1. DeletionOver(e) BY <2>1 DEF DeletionsAreDue
    <3> QED BY <1>1, <3>1 DEF DeletionOver, OverIsCompleted
  <2> QED BY <1>1, <1>6, <2>1, JobsOfDocuments DEF DeletionsAreDue
<1>11. UnknownIsNowhere' BY <1>1, <1>6, JobsOfDocuments DEF UnknownIsNowhere, Nowhere
<1>12. UploadsAreFirst'
  <2>1. \A c \in Callers : request[c].pc # "idle" => request[c].doc \in Documents
    BY DEF Context, RequestOK
  <2> QED BY <1>1, <1>6, <2>1, JobsOfDocuments DEF UploadsAreFirst, Nowhere
<1>13. PurgeClears' /\ IngestBegins' /\ OverIsCompleted'
  BY <1>4 DEF PurgeClears, IngestBegins, OverIsCompleted
<1>14. AcceptedIsQueued'
  <2>1. \A e \in Documents : record[e] = "accepted" => IngestJob[e] # worker.job
    <3>1. SUFFICES ASSUME NEW e \in Documents, record[e] = "accepted", IngestJob[e] = worker.job
                   PROVE  FALSE
      OBVIOUS
    <3>2. Subject = e /\ worker.job \notin Deletions BY <3>1, JobsOfDocuments DEF Subject
    <3> QED BY <1>1, <1>2, <3>1, <3>2 DEF IngestBegins
  <2> QED BY <1>1, <1>5, <2>1, JobsOfDocuments DEF AcceptedIsQueued, Live
<1> QED BY <1>7, <1>8, <1>9, <1>10, <1>11, <1>12, <1>13, <1>14

\* The oldest of the pending jobs goes into the worker's hands.
LEMMA ClaimMoveKeeps ==
    ASSUME Calm, pipeline.pc = "none", UNCHANGED <<record, request, pipeline>>,
           NEW j \in Jobs, ClaimMove(j)
    PROVE  OneAtATime'
<1>1. /\ worker.pc = "claim" /\ worker.pc \notin Holding /\ pending[j] # Absent
      /\ processing' = [processing EXCEPT ![j] = pending[j]]
      /\ pending' = [pending EXCEPT ![j] = Absent]
      /\ worker' = WorkerOn("stamp", j)
      /\ UNCHANGED <<completed, failed, call>>
  BY DEF ClaimMove, Holding
<1>2. /\ pending \in [Jobs -> Manifest \cup {Absent}]
      /\ processing \in [Jobs -> Manifest \cup {Absent}]
  BY DEF Calm, Context, Inductive, QueueTypeOK
<1>3. /\ worker'.pc = "stamp" /\ worker'.job = j /\ worker'.at = 1 /\ worker'.pc \in Holding
  BY <1>1 DEF WorkerOn, WorkerAt, Holding
<1>4. \A k \in Jobs : processing[k] = Absent BY <1>1 DEF Calm, OneAtATime, OneClaim
<1>5. \A k \in Jobs : /\ pending'[k] = IF k = j THEN Absent ELSE pending[k]
                      /\ processing'[k] = IF k = j THEN pending[j] ELSE Absent
  BY <1>1, <1>2, <1>4
<1>6. \A k \in Jobs : Nowhere(k) => Nowhere(k)' BY <1>1, <1>5 DEF Nowhere
<1> USE DEF Calm, OneAtATime
<1>7. OneClaim' BY <1>1, <1>3, <1>5 DEF OneClaim
<1>8. RequestsInStep' BY <1>1 DEF RequestsInStep
<1>9. CallsFound'
  <2>1. \A c \in Callers, n \in 1 .. 3 : Beyond(c, n)' = Beyond(c, n) BY <1>1 DEF Beyond
  <2>2. \A c \in Callers : call[c].pc # "idle" => call[c].job \in Jobs
    BY DEF Context, Inductive, QueueInv
  <2>3. ASSUME NEW c \in Callers
        PROVE /\ Beyond(c, 2) => Beyond(c, 1)
              /\ Beyond(c, 1) => call[c].pc # "idle"
    <3>1. call[c] \in Call BY DEF Context, Inductive, QueueTypeOK
    <3> QED BY <3>1 DEF Beyond, Call
  <2> QED BY <1>1, <1>5, <2>1, <2>2, <2>3 DEF CallsFound
<1>10. DeletionsAreDue' BY <1>1, <1>4, <1>5, JobsOfDocuments DEF DeletionsAreDue
<1>11. UnknownIsNowhere' BY <1>6, JobsOfDocuments DEF UnknownIsNowhere
<1>12. UploadsAreFirst'
  <2>1. \A c \in Callers : request[c].pc # "idle" => request[c].doc \in Documents
    BY DEF Context, RequestOK
  <2> QED BY <1>1, <1>6, <2>1, JobsOfDocuments DEF UploadsAreFirst
<1>13. PurgeClears' /\ IngestBegins' /\ OverIsCompleted'
  BY <1>3 DEF PurgeClears, IngestBegins, OverIsCompleted
<1>14. AcceptedIsQueued' BY <1>1, <1>4, <1>5, JobsOfDocuments DEF AcceptedIsQueued, Live
<1> QED BY <1>7, <1>8, <1>9, <1>10, <1>11, <1>12, <1>13, <1>14

\* Between jobs the worker moves over empty hands.
LEMMA IdleMoves ==
    ASSUME Calm, UNCHANGED <<pending, processing, completed, failed, call, record, request>>,
           worker.pc \notin Holding,
           worker'.pc \notin Holding \cup {"recovered"},
           worker'.pc = "recover" => worker'.todo = {},
           pipeline'.pc \in {"none", "exit"}
    PROVE  OneAtATime'
<1> USE DEF Calm, OneAtATime
<1>1. \A j \in Jobs : processing[j] = Absent BY DEF OneClaim
<1>2. OneClaim' BY <1>1 DEF OneClaim, Holding
<1>3. RequestsInStep' BY DEF RequestsInStep
<1>4. CallsFound' BY DEF CallsFound, Beyond
<1>5. DeletionsAreDue' BY <1>1, JobsOfDocuments DEF DeletionsAreDue
<1>6. UnknownIsNowhere' BY DEF UnknownIsNowhere, Nowhere
<1>7. UploadsAreFirst' BY DEF UploadsAreFirst, Nowhere
<1>8. PurgeClears' /\ IngestBegins' /\ OverIsCompleted'
  BY DEF PurgeClears, IngestBegins, OverIsCompleted, Holding
<1>9. AcceptedIsQueued' BY DEF AcceptedIsQueued, Live
<1> QED BY <1>2, <1>3, <1>4, <1>5, <1>6, <1>7, <1>8, <1>9

\* Without a crash there is nothing to recover, and no manifest that cannot be read.
LEMMA ClaimKeeps ==
    ASSUME Calm, ClaimStep \/ Exit PROVE OneAtATime'
<1>1. UNCHANGED <<record, request>> BY DEF ClaimStep, Exit
<1>2. CASE Exit
  <2>1. /\ pipeline.pc = "exit" /\ worker' = WorkerAt("down") /\ pipeline' = NoPipeline
        /\ UNCHANGED <<pending, processing, completed, failed, call>>
    BY <1>2 DEF Exit, Crash, files
  <2>2. worker.pc \notin Holding BY <2>1 DEF Calm, Context, PipelineAgrees, Holding
  <2>3. worker'.pc = "down" /\ pipeline'.pc = "none"
    BY <2>1 DEF WorkerAt, NoPipeline, Pipeline
  <2> QED BY <1>1, <2>1, <2>2, <2>3, IdleMoves DEF Holding
<1>3. CASE ClaimStep
  <2>1. pipeline.pc = "none" /\ UNCHANGED pipeline BY <1>3 DEF ClaimStep
  <2>2. OneClaim BY DEF Calm, OneAtATime
  <2>3. CASE Start
    <3>1. /\ worker.pc = "down" /\ worker' = [WorkerAt("recover") EXCEPT !.todo = Listing(2)]
          /\ UNCHANGED <<pending, processing, completed, failed, call>>
      BY <2>3 DEF Start, files
    <3>2. worker'.pc = "recover" /\ worker'.todo = Listing(2) BY <3>1 DEF WorkerAt
    <3>3. Listing(2) = {} BY <2>2, <3>1 DEF OneClaim, Listing, Exists, Holding
    <3> QED BY <1>1, <2>1, <3>1, <3>2, <3>3, IdleMoves DEF Holding
  <2>4. CASE RecoverDone \/ ListPending
    <3>1. /\ worker.pc \in {"recover", "idle"} /\ worker'.pc \in {"idle", "claim"}
          /\ UNCHANGED <<pending, processing, completed, failed, call>>
      BY <2>4 DEF RecoverDone, ListPending, files, WorkerAt
    <3> QED BY <1>1, <2>1, <3>1, IdleMoves DEF Holding
  <2>5. ASSUME NEW j \in Jobs PROVE ~ (RecoverSkip(j) \/ RecoverWrite(j) \/ RecoverRaises(j))
    BY <2>2 DEF RecoverSkip, RecoverWrite, RecoverRaises, OneClaim
  <2>6. ~ RecoverUnlink BY <2>2 DEF RecoverUnlink, OneClaim
  <2>7. ~ StampRaises
    <3>1. SUFFICES ASSUME worker.pc = "stamp" PROVE Readable(2, worker.job)
      BY DEF StampRaises
    <3>2. worker.job \in Jobs /\ processing[worker.job] # Absent
      BY <3>1 DEF Calm, Context, Inductive, QueueInv, ClaimKeepsManifest, Holding
    <3>3. processing[worker.job].retry = 0 BY <2>2, <3>2 DEF OneClaim
    <3> QED BY <3>2, <3>3, QueueAssumption DEF Readable, Exists
  <2>8. ASSUME NEW j \in Jobs, ClaimMove(j) PROVE OneAtATime'
    BY <1>1, <2>1, <2>8, ClaimMoveKeeps
  <2> QED BY <1>3, <2>3, <2>4, <2>5, <2>6, <2>7, <2>8 DEF ClaimStep
<1> QED BY <1>2, <1>3

\* The claim is stamped, and process_one begins.
LEMMA BeginJobKeeps ==
    ASSUME Calm, BeginJob PROVE OneAtATime'
<1>1. /\ worker.pc = "stamp" /\ worker.pc \in Holding
      /\ processing' = [processing EXCEPT ![worker.job] = Fresh(processing[worker.job].retry)]
      /\ worker' = [worker EXCEPT !.pc = "working"]
      /\ UNCHANGED <<pending, completed, failed, call, record, request>>
  BY DEF BeginJob, StampClaim, Holding
<1>2. /\ worker \in Worker /\ worker.job \in Jobs /\ processing[worker.job] # Absent
      /\ processing \in [Jobs -> Manifest \cup {Absent}]
  BY <1>1 DEF Calm, Context, Inductive, QueueInv, ClaimKeepsManifest, QueueTypeOK
<1>3. worker'.pc = "working" /\ worker'.job = worker.job /\ worker'.at = worker.at
      /\ worker'.pc \in Holding
  BY <1>1, <1>2 DEF Worker, Holding
<1>4. pipeline.pc = "none"
  BY <1>1 DEF Calm, Context, ControlOK, PipelineAgrees, PipelinePC
<1>5. \/ worker.job \in Deletions /\ pipeline'.pc = "rmtree" /\ pipeline'.target = "deleted"
      \/ worker.job \notin Deletions /\ pipeline'.pc = "get" /\ pipeline'.target = "parsing"
  BY DEF BeginJob, Pipeline
<1>6. processing[worker.job].retry = 0 /\ Fresh(0) # Absent /\ Fresh(0).retry = 0
  <2>1. processing[worker.job].retry = 0 BY <1>2 DEF Calm, OneAtATime, OneClaim
  <2>2. 0 \in 0 .. MaxRetry + 1 BY QueueAssumption
  <2> QED BY <2>1, <2>2, FreshManifest DEF Fresh
<1>7. \A k \in Jobs : processing'[k] = IF k = worker.job THEN Fresh(0) ELSE processing[k]
  BY <1>1, <1>2, <1>6
<1>8. \A k \in Jobs : processing'[k] = Absent <=> processing[k] = Absent
  BY <1>2, <1>6, <1>7
<1>9. Subject' = Subject BY <1>3 DEF Subject
<1> HIDE DEF Subject
<1> USE DEF Calm, OneAtATime
<1>10. OneClaim'
  <2>1. ASSUME NEW j \in Jobs, processing'[j] # Absent
        PROVE  /\ processing'[j].retry = 0 /\ pending[j] = Absent /\ worker.job = j
    <3>1. processing[j] # Absent BY <1>8, <2>1
    <3> QED BY <1>6, <1>7, <3>1 DEF OneClaim
  <2> QED BY <1>1, <1>3, <2>1 DEF OneClaim
<1>11. RequestsInStep' BY <1>1 DEF RequestsInStep
<1>12. CallsFound'
  <2>1. \A c \in Callers, n \in 1 .. 3 : Beyond(c, n)' = Beyond(c, n) BY <1>1 DEF Beyond
  <2>2. \A c \in Callers : call[c].pc # "idle" => call[c].job \in Jobs
    BY DEF Context, Inductive, QueueInv
  <2>3. \A c \in Callers : Beyond(c, 2) => call[c].pc # "idle" BY DEF Beyond
  <2> QED BY <1>1, <1>8, <2>1, <2>2, <2>3 DEF CallsFound
<1>13. DeletionsAreDue'
  <2>1. \A e \in Documents : ~ DeletionOver(e) BY <1>4 DEF DeletionOver
  <2> QED BY <1>1, <1>8, <2>1, JobsOfDocuments DEF DeletionsAreDue
<1>14. UnknownIsNowhere' BY <1>1, <1>8, JobsOfDocuments DEF UnknownIsNowhere, Nowhere
<1>15. UploadsAreFirst'
  <2>1. \A c \in Callers : request[c].pc # "idle" => request[c].doc \in Documents
    BY DEF Context, RequestOK
  <2> QED BY <1>1, <1>8, <2>1, JobsOfDocuments DEF UploadsAreFirst, Nowhere
<1>16. PurgeClears' BY <1>3, <1>5 DEF PurgeClears
<1>17. IngestBegins' /\ OverIsCompleted'
  BY <1>3, <1>5 DEF IngestBegins, OverIsCompleted
<1>18. AcceptedIsQueued' BY <1>1, <1>8, JobsOfDocuments DEF AcceptedIsQueued, Live
<1> QED BY <1>10, <1>11, <1>12, <1>13, <1>14, <1>15, <1>16, <1>17, <1>18

\* No step of the worker breaks the invariant; it is not killed, and nothing ages.
LEMMA WorkerKeeps ==
    ASSUME Sequential, Calm, PipelineStep \/ Kill \/ Ageing PROVE OneAtATime'
<1>1. ~ Kill
  <2>1. killed \in 0 .. MaxKills /\ MaxKills = 0 BY DEF Calm, Context, ControlOK, Sequential
  <2> QED BY <2>1 DEF Kill
<1>2. ~ Ageing
  BY DEF Ageing, Age, Calm, OneAtATime, OneClaim, Holding
<1> QED BY <1>1, <1>2, ClaimKeeps, BeginJobKeeps, WorkKeeps, StatusPutKeeps, PurgeKeeps,
           SettleKeeps, EndJobKeeps DEF PipelineStep

\* With requests one at a time and a worker that is not killed, an accepted document
\* always has its ingest job in the queue, or the request that is about to put it there,
\* whatever uploads and deletions of it came before and in whatever state the worker
\* meets it: the hand-over of record and job has no gap, as those that two requests,
\* an abandoned one or a crash leave are not there.
THEOREM UploadsAreQueued == Sequential => (Spec => []AcceptedIsQueued)
<1> SUFFICES ASSUME Sequential PROVE Spec => []AcceptedIsQueued
  OBVIOUS
<1>1. Context /\ FilesInv /\ OneAtATime /\ [Next]_vars => OneAtATime'
  <2> SUFFICES ASSUME Calm, [Next]_vars PROVE OneAtATime'
    BY DEF Calm
  <2>1. CASE UNCHANGED vars
    BY <2>1 DEF vars, queueVars, files, controlVars, Calm, OneAtATime, OneClaim, RequestsInStep,
                CallsFound, Beyond, DeletionsAreDue, DeletionOver, UnknownIsNowhere, Nowhere,
                UploadsAreFirst, PurgeClears, IngestBegins, OverIsCompleted, AcceptedIsQueued,
                Live, Subject
  <2>2. ASSUME NEW c \in Callers, BeginRequest(c) \/ RequestStep(c) \/ Abort(c)
        PROVE  OneAtATime'
    BY <2>2, RequestsKeep
  <2>3. CASE PipelineStep \/ Kill \/ Ageing BY <2>3, WorkerKeeps
  <2> QED BY <2>1, <2>2, <2>3 DEF Next
<1>2. OneAtATime => AcceptedIsQueued BY DEF OneAtATime
<1> QED BY <1>1, <1>2, SequentialInit, ContextAlways, FilesAlways, PTL DEF Spec
=============================================================================
