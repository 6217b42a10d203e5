------------------------------- MODULE Gateway -------------------------------
(***************************************************************************)
(* An upload from its arrival to its answer: authentication, the checks of *)
(* DocumentService.upload, the quarantine and the source volume of         *)
(* DocumentFileStorage (app/infrastructure/filesystem/document_storage.py) *)
(* and the code the caller is answered with (app/api/errors.py).           *)
(*                                                                         *)
(* The control record, the source of an earlier upload and the queue are   *)
(* those of Ingestion; here they are there or not, and answer or raise. A  *)
(* body is a number of blocks, as they are read.                           *)
(***************************************************************************)
EXTENDS ApiKeys

CONSTANTS
    Uploads,   \* what a request may ask: [blocks, type, metadata, force]
    MaxBlocks, \* max_upload_bytes, in blocks
    CanWrite,  \* the grants with the scope documents:write
    CanForce   \* those with ingestion:force_reindex

ASSUME UploadsAssumption ==
    /\ Uploads \subseteq [blocks : Nat,
                          type : {"supported", "unsupported", "invalid"},
                          metadata : {"valid", "malformed", "invalid"},
                          force : BOOLEAN]
    /\ MaxBlocks \in Nat \ {0}
    /\ CanWrite \subseteq Grants /\ CanForce \subseteq Grants

VARIABLES
    upload,  \* what each request asks
    step,    \* where its handler is
    part,    \* the blocks in its .part file in the quarantine, or NoFile
    answer,  \* the code the caller gets, once the handler has got that far
    source   \* the blocks in the file it brought into the source volume, or NoFile

uploadVars == <<upload, step, part, answer, source>>
vars == <<keyVars, uploadVars>>

NoFile == -1
NoUpload == [blocks |-> 0, type |-> "supported", metadata |-> "valid", force |-> FALSE]

Grant(r) == call[r].record.grant

-----------------------------------------------------------------------------
(* Answers. *)

GoOn(r, label) == step' = [step EXCEPT ![r] = label] /\ UNCHANGED answer

Answered(r, code) ==
    /\ step' = [step EXCEPT ![r] = "answered"]
    /\ answer' = [answer EXCEPT ![r] = code]

\* The staged file is removed first.
DiscardedAnd(r, code) ==
    /\ step' = [step EXCEPT ![r] = "discard"]
    /\ answer' = [answer EXCEPT ![r] = code]

StatusOf(code) ==
    CASE code = "accepted"               -> 202
      [] code = "invalid_api_key"        -> 401
      [] code = "insufficient_scope"     -> 403
      [] code = "request_timeout"        -> 408
      [] code = "upload_too_large"       -> 413
      [] code = "unsupported_media_type" -> 415
      [] code = "invalid_upload"         -> 422
      [] code = "internal_error"         -> 500

-----------------------------------------------------------------------------
(* Before anything is staged. *)

Receive(r) ==
    /\ Present(r)
    /\ GoOn(r, "authenticate")
    /\ UNCHANGED <<upload, part, source>>

AuthStep(r) ==
    /\ Authenticate(r)
    /\ CASE call'[r].phase = "refused" -> Answered(r, "invalid_api_key")
         [] call'[r].phase = "dropped" -> Answered(r, "internal_error")
         [] OTHER                      -> UNCHANGED <<step, answer>>
    /\ UNCHANGED <<upload, part, source>>

\* Mutant: a forced upload needs no scope of its own.
ForceIsWrite(r, u) == Grant(r) \in CanWrite
Permitted(r, u) == Grant(r) \in CanWrite /\ (u.force => Grant(r) \in CanForce)

\* validate_user_metadata
WithinLimits(u) == u.metadata # "invalid"

\* The metadata has to be JSON before the scopes are looked at, and within the limits
\* after that.
Admit(r) ==
    /\ step[r] = "authenticate" /\ call[r].phase = "accepted"
    /\ \E u \in Uploads :
         /\ upload' = [upload EXCEPT ![r] = u]
         /\ IF u.metadata = "malformed" THEN Answered(r, "invalid_upload")
            ELSE IF ~ Permitted(r, u)    THEN Answered(r, "insufficient_scope")
            ELSE IF ~ WithinLimits(u)    THEN Answered(r, "invalid_upload")
            ELSE GoOn(r, "open")
    /\ UNCHANGED <<keyVars, part, source>>

-----------------------------------------------------------------------------
(* DocumentFileStorage.stage: a new file with a random name. *)

OpenPart(r) ==
    /\ step[r] = "open"
    /\ part' = [part EXCEPT ![r] = 0]
    /\ GoOn(r, "stage")
    /\ UNCHANGED <<keyVars, upload, source>>

\* Mutant: the limit is looked at before the block is counted.
BlockUncounted(r) ==
    /\ step[r] = "stage" /\ part[r] < upload[r].blocks
    /\ IF part[r] > MaxBlocks
       THEN part' = [part EXCEPT ![r] = NoFile] /\ Answered(r, "upload_too_large")
       ELSE part' = [part EXCEPT ![r] = @ + 1] /\ UNCHANGED <<step, answer>>
    /\ UNCHANGED <<keyVars, upload, source>>

StageBlock(r) ==
    /\ step[r] = "stage" /\ part[r] < upload[r].blocks
    /\ IF part[r] + 1 > MaxBlocks
       THEN part' = [part EXCEPT ![r] = NoFile] /\ Answered(r, "upload_too_large")
       ELSE part' = [part EXCEPT ![r] = @ + 1] /\ UNCHANGED <<step, answer>>
    /\ UNCHANGED <<keyVars, upload, source>>

StageEnd(r) ==
    /\ step[r] = "stage" /\ part[r] = upload[r].blocks
    /\ IF part[r] = 0
       THEN part' = [part EXCEPT ![r] = NoFile] /\ Answered(r, "invalid_upload")
       ELSE GoOn(r, "check") /\ UNCHANGED part
    /\ UNCHANGED <<keyVars, upload, source>>

-----------------------------------------------------------------------------
(* The rest of upload. *)

\* Mutant: the answer does not wait for the staged file.
CheckTypeOnly(r) ==
    /\ step[r] = "check"
    /\ CASE upload[r].type = "supported"   -> GoOn(r, "lookup")
         [] upload[r].type = "unsupported" -> Answered(r, "unsupported_media_type")
         [] upload[r].type = "invalid"     -> Answered(r, "invalid_upload")
    /\ UNCHANGED <<keyVars, upload, part, source>>

\* validate_upload_type looks at the name, the declared type and the first bytes.
CheckType(r) ==
    /\ step[r] = "check"
    /\ CASE upload[r].type = "supported"   -> GoOn(r, "lookup")
         [] upload[r].type = "unsupported" -> DiscardedAnd(r, "unsupported_media_type")
         [] upload[r].type = "invalid"     -> DiscardedAnd(r, "invalid_upload")
    /\ UNCHANGED <<keyVars, upload, part, source>>

\* The document is known already, or it is not or does not count, or Qdrant raises.
Lookup(r) ==
    /\ step[r] = "lookup"
    /\ \/ ~ upload[r].force /\ DiscardedAnd(r, "accepted")
       \/ GoOn(r, "promote")
       \/ DiscardedAnd(r, "internal_error")
    /\ UNCHANGED <<keyVars, upload, part, source>>

Discard(r) ==
    /\ step[r] = "discard"
    /\ part' = [part EXCEPT ![r] = NoFile]
    /\ step' = [step EXCEPT ![r] = "answered"]
    /\ UNCHANGED <<keyVars, upload, answer, source>>

\* promote, where an earlier upload of the same document has left its source.
KeepSource(r) ==
    /\ step[r] = "promote"
    /\ part' = [part EXCEPT ![r] = NoFile]
    /\ GoOn(r, "record")
    /\ UNCHANGED <<keyVars, upload, source>>

NoSource(r) ==
    /\ step[r] = "promote"
    /\ GoOn(r, "move")
    /\ UNCHANGED <<keyVars, upload, part, source>>

Moved(r) ==
    /\ part' = [part EXCEPT ![r] = NoFile]
    /\ source' = [source EXCEPT ![r] = part[r]]

\* The rename fails where a deletion has removed the directory.
MoveSource(r) ==
    /\ step[r] = "move"
    /\ \/ Moved(r) /\ GoOn(r, "record")
       \/ DiscardedAnd(r, "internal_error") /\ UNCHANGED <<part, source>>
    /\ UNCHANGED <<keyVars, upload>>

\* upsert and publish; there is no staged file left to remove if they raise.
RecordUpload(r) ==
    /\ step[r] = "record"
    /\ Answered(r, "accepted") \/ Answered(r, "internal_error")
    /\ UNCHANGED <<keyVars, upload, part, source>>

\* Mutant: stage() lets the cancellation pass by its file.
PartKept(r) ==
    /\ step[r] \in {"open", "stage", "lookup", "promote", "move", "record", "discard"}
    /\ UNCHANGED <<part, source>>
    /\ Answered(r, "request_timeout")
    /\ UNCHANGED <<keyVars, upload>>

\* The deadline passes at an await. stage() removes its file on the way out, upload()
\* does not; a thread that was to remove or rename the file may still do so.
TimesOut(r) ==
    /\ step[r] \in {"open", "stage", "lookup", "promote", "move", "record", "discard"}
    /\ CASE step[r] = "stage"   -> part' = [part EXCEPT ![r] = NoFile] /\ UNCHANGED source
         [] step[r] = "discard" -> /\ part' \in {part, [part EXCEPT ![r] = NoFile]}
                                   /\ UNCHANGED source
         [] step[r] = "move"    -> Moved(r) \/ UNCHANGED <<part, source>>
         [] OTHER               -> UNCHANGED <<part, source>>
    /\ Answered(r, "request_timeout")
    /\ UNCHANGED <<keyVars, upload>>

UploadStep(r) ==
    \/ Receive(r) \/ AuthStep(r) \/ Admit(r)
    \/ OpenPart(r) \/ StageBlock(r) \/ StageEnd(r)
    \/ CheckType(r) \/ Lookup(r) \/ Discard(r)
    \/ KeepSource(r) \/ NoSource(r) \/ MoveSource(r) \/ RecordUpload(r)
    \/ TimesOut(r)

\* Whoever was waiting gets no answer; the files stay as they are.
Dies ==
    /\ Kill
    /\ LET waiting == {r \in Requests : step[r] \notin {"idle", "answered"}}
       IN  /\ step' = [r \in Requests |-> IF r \in waiting THEN "answered" ELSE step[r]]
           /\ answer' = [r \in Requests |-> IF r \in waiting THEN "none" ELSE answer[r]]
    /\ UNCHANGED <<upload, part, source>>

-----------------------------------------------------------------------------

GatewayInit ==
    /\ KeyInit
    /\ upload = [r \in Requests |-> NoUpload]
    /\ step = [r \in Requests |-> "idle"]
    /\ part = [r \in Requests |-> NoFile]
    /\ answer = [r \in Requests |-> "none"]
    /\ source = [r \in Requests |-> NoFile]

SetUpStep(p) == SetUp(p) /\ UNCHANGED uploadVars

GatewayNext ==
    \/ \E p \in Processes : SetUpStep(p) \/ (SetUpFails(p) /\ UNCHANGED uploadVars)
    \/ Dies
    \/ WorkerCreates /\ UNCHANGED uploadVars
    \/ \E k \in Keys : (Disable(k) \/ Expire(k)) /\ UNCHANGED uploadVars
    \/ \E r \in Requests : UploadStep(r)

\* Compose restarts the API when it ends.
GatewaySpec == GatewayInit /\ [][GatewayNext]_vars /\ WF_vars(SetUpStep(Api))

-----------------------------------------------------------------------------
(* What the rest of the system relies on. *)

Steps == {"idle", "authenticate", "open", "stage", "check", "lookup", "discard",
          "promote", "move", "record", "answered"}

\* The types of the state.
GatewayTypeOK ==
    /\ KeyTypeOK
    /\ upload \in [Requests -> Uploads \cup {NoUpload}]
    /\ step \in [Requests -> Steps]
    /\ part \in [Requests -> Nat \cup {NoFile}]
    /\ answer \in [Requests ->
         {"none", "accepted", "invalid_api_key", "insufficient_scope", "request_timeout",
          "upload_too_large", "unsupported_media_type", "invalid_upload", "internal_error"}]
    /\ source \in [Requests -> Nat \cup {NoFile}]

\* A file in the quarantine is that of a request under way, or of one that timed out
\* after its upload was staged, whole; only a killed process leaves a part of a file
\* (document_storage.py:45-66, documents.py:107-172). Nothing removes either.
QuarantineAccounted ==
    \A r \in Requests : part[r] # NoFile =>
        \/ step[r] \notin {"idle", "authenticate", "open", "record", "answered"}
        \/ step[r] = "answered" /\ answer[r] = "none"
        \/ /\ step[r] = "answered" /\ answer[r] = "request_timeout"
           /\ part[r] = upload[r].blocks

\* A caller who is refused, with a 4xx that is not retryable, leaves no file anywhere.
RefusedLeavesNothing ==
    \A r \in Requests :
        step[r] = "answered" /\ answer[r] \notin {"none", "request_timeout"}
        /\ StatusOf(answer[r]) \in 400 .. 499 =>
             part[r] = NoFile /\ source[r] = NoFile

\* A source is the whole of what its caller sent, within the limit and of a supported
\* type, and the caller was entitled to it - by the grant read when the request was
\* authenticated, whatever became of the key since (documents.py:97-130,
\* document_storage.py:45-88).
SourcesAreWhole ==
    \A r \in Requests : source[r] # NoFile =>
        LET u == upload[r]
        IN  /\ source[r] = u.blocks /\ source[r] \in 1 .. MaxBlocks
            /\ u.type = "supported" /\ u.metadata = "valid"
            /\ Grant(r) \in CanWrite /\ (u.force => Grant(r) \in CanForce)
=============================================================================
