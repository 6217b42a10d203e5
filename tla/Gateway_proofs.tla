---------------------------- MODULE Gateway_proofs ----------------------------
(***************************************************************************)
(* Uploads through the gateway, for all requests, processes and limits:    *)
(* what is left in the quarantine and in the source volume, and that the   *)
(* keys they come with are AccessControl's.                                *)
(***************************************************************************)
EXTENDS Gateway, ApiKeys_proofs

Working == {"open", "stage", "check", "lookup", "discard", "promote", "move", "record"}
Answers == {"none", "accepted", "invalid_api_key", "insufficient_scope", "request_timeout",
            "upload_too_large", "unsupported_media_type", "invalid_upload", "internal_error"}

Admitted(c, u) ==
    /\ c.phase = "accepted" /\ u \in Uploads /\ u.metadata = "valid"
    /\ c.record.grant \in CanWrite /\ (u.force => c.record.grant \in CanForce)

\* The state of one request: its call c and its upload u, the step s it has reached, the
\* blocks p of its part file and f of its source, its answer a.
RequestOK(c, u, s, p, a, f) ==
    /\ s = "idle" <=> c.phase = "none"
    /\ c.phase \in {"presented", "verifying"} => s = "authenticate"
    /\ s \in Working => Admitted(c, u)
    /\ s \in {"idle", "authenticate", "open", "record"} => p = NoFile
    /\ s = "stage" => p \in 0 .. u.blocks /\ p <= MaxBlocks
    /\ s \in {"check", "lookup", "discard", "promote", "move"} =>
           p = u.blocks /\ p \in 1 .. MaxBlocks
    /\ s \in {"lookup", "promote", "move"} => u.type = "supported"
    /\ s = "discard" =>
           a \in {"unsupported_media_type", "invalid_upload", "accepted", "internal_error"}
    /\ s = "answered" =>
           p = NoFile \/ a = "none" \/ (a = "request_timeout" /\ p = u.blocks)
    /\ f # NoFile =>
           /\ \/ s = "record"
              \/ s = "answered"
                 /\ a \in {"none", "accepted", "internal_error", "request_timeout"}
           /\ f = u.blocks /\ f \in 1 .. MaxBlocks
           /\ u.type = "supported" /\ Admitted(c, u)

UploadTypes ==
    /\ upload \in [Requests -> Uploads \cup {NoUpload}]
    /\ step \in [Requests -> Steps]
    /\ part \in [Requests -> Nat \cup {NoFile}]
    /\ answer \in [Requests -> Answers]
    /\ source \in [Requests -> Nat \cup {NoFile}]

RequestsOK ==
    \A r \in Requests :
        RequestOK(call[r], upload[r], step[r], part[r], answer[r], source[r])

GatewayInv == KeyInv /\ UploadTypes /\ RequestsOK

-----------------------------------------------------------------------------
(* One request's step. *)

\* The fields of an upload.
LEMMA UploadFields ==
    ASSUME NEW u \in Uploads
    PROVE  /\ u.blocks \in Nat /\ u.type \in {"supported", "unsupported", "invalid"}
           /\ u.metadata \in {"valid", "malformed", "invalid"}
BY UploadsAssumption

\* What concerns one request alone leaves the others as they are.
LEMMA OthersKeep ==
    ASSUME GatewayInv, NEW r \in Requests, UploadTypes',
           \A q \in Requests : q # r =>
               /\ call'[q] = call[q] /\ upload'[q] = upload[q] /\ step'[q] = step[q]
               /\ part'[q] = part[q] /\ answer'[q] = answer[q] /\ source'[q] = source[q],
           RequestOK(call'[r], upload'[r], step'[r], part'[r], answer'[r], source'[r])
    PROVE  RequestsOK'
<1>1. ASSUME NEW q \in Requests
      PROVE  RequestOK(call'[q], upload'[q], step'[q], part'[q], answer'[q], source'[q])
    <2>1. CASE q = r BY <2>1
    <2>2. CASE q # r BY <2>2 DEF GatewayInv, RequestsOK
    <2> QED BY <2>1, <2>2
<1> QED BY <1>1 DEF RequestsOK

\* The steps that follow the admission touch neither the key nor what was asked.
LEMMA HandlerKeeps ==
    ASSUME GatewayInv, NEW r \in Requests, step[r] \in Working, UNCHANGED keyVars,
           NEW s \in Steps, NEW p \in Nat \cup {NoFile},
           NEW a \in Answers, NEW f \in Nat \cup {NoFile},
           upload' = upload, step' = [step EXCEPT ![r] = s],
           part' = [part EXCEPT ![r] = p], answer' = [answer EXCEPT ![r] = a],
           source' = [source EXCEPT ![r] = f],
           s \in Working \cup {"answered"},
           RequestOK(call[r], upload[r], s, p, a, f)
    PROVE  UploadTypes' /\ RequestsOK'
<1>1. call' = call BY DEF keyVars
<1>T. UploadTypes BY DEF GatewayInv
<1>2. UploadTypes' BY <1>T DEF UploadTypes
<1>3. /\ step'[r] = s /\ part'[r] = p /\ answer'[r] = a /\ source'[r] = f
      /\ \A q \in Requests : q # r =>
             /\ step'[q] = step[q] /\ part'[q] = part[q]
             /\ answer'[q] = answer[q] /\ source'[q] = source[q]
    BY <1>T DEF UploadTypes
<1> QED BY <1>1, <1>2, <1>3, OthersKeep

\* A step of the handler of r, and what it leads to.
Becomes(r, s, p, a, f) ==
    /\ step' = [step EXCEPT ![r] = s] /\ part' = [part EXCEPT ![r] = p]
    /\ answer' = [answer EXCEPT ![r] = a] /\ source' = [source EXCEPT ![r] = f]
    /\ UNCHANGED <<keyVars, upload>>

\* What is left unchanged becomes what it was.
LEMMA Unchanging ==
    ASSUME GatewayInv, NEW r \in Requests
    PROVE  /\ [step EXCEPT ![r] = step[r]] = step /\ [part EXCEPT ![r] = part[r]] = part
           /\ [answer EXCEPT ![r] = answer[r]] = answer
           /\ [source EXCEPT ![r] = source[r]] = source
BY DEF GatewayInv, UploadTypes

\* From the admission to the end of the staging.
LEMMA StagingLeadsTo ==
    ASSUME GatewayInv, NEW r \in Requests, OpenPart(r) \/ StageBlock(r) \/ StageEnd(r)
    PROVE  \E s \in Working \cup {"answered"}, p \in Nat \cup {NoFile},
              a \in Answers, f \in Nat \cup {NoFile} :
               Becomes(r, s, p, a, f) /\ RequestOK(call[r], upload[r], s, p, a, f)
<1>T. /\ part[r] \in Nat \cup {NoFile} /\ answer[r] \in Answers
      /\ source[r] \in Nat \cup {NoFile} /\ upload[r] \in Uploads \cup {NoUpload}
    BY DEF GatewayInv, UploadTypes
<1>R. RequestOK(call[r], upload[r], step[r], part[r], answer[r], source[r])
    BY DEF GatewayInv, RequestsOK
<1>M. MaxBlocks \in Nat \ {0} BY UploadsAssumption
<1>U. step[r] \in Working => upload[r].blocks \in Nat
    <2>1. step[r] \in Working => upload[r] \in Uploads BY <1>R DEF RequestOK, Admitted
    <2> QED BY <2>1, UploadFields
<1>1. CASE OpenPart(r)
    <2>1. Becomes(r, "stage", 0, answer[r], source[r])
        BY <1>1, Unchanging DEF OpenPart, GoOn, Becomes
    <2>2. RequestOK(call[r], upload[r], "stage", 0, answer[r], source[r])
        BY <1>1, <1>R, <1>U, <1>M DEF OpenPart, RequestOK, Working
    <2> QED BY <2>1, <2>2, <1>T DEF Working
<1>2. CASE StageBlock(r)
    <2>1. step[r] = "stage" /\ part[r] < upload[r].blocks /\ part[r] \in Nat
          /\ upload[r].blocks \in Nat
        BY <1>2, <1>R, <1>U DEF StageBlock, RequestOK, Working
    <2>2. CASE part[r] + 1 > MaxBlocks
        <3>1. Becomes(r, "answered", NoFile, "upload_too_large", source[r])
            BY <1>2, <2>2, Unchanging DEF StageBlock, Answered, Becomes
        <3>2. RequestOK(call[r], upload[r], "answered", NoFile, "upload_too_large", source[r])
            BY <2>1, <1>R DEF RequestOK, Working
        <3> QED BY <3>1, <3>2, <1>T DEF Answers
    <2>3. CASE ~ (part[r] + 1 > MaxBlocks)
        <3>1. Becomes(r, "stage", part[r] + 1, answer[r], source[r])
            BY <1>2, <2>1, <2>3, Unchanging DEF StageBlock, Becomes
        <3>2. RequestOK(call[r], upload[r], "stage", part[r] + 1, answer[r], source[r])
            BY <2>1, <2>3, <1>M, <1>R DEF RequestOK, Working
        <3> QED BY <2>1, <3>1, <3>2, <1>T DEF Working
    <2> QED BY <2>2, <2>3
<1>3. CASE StageEnd(r)
    <2>1. step[r] = "stage" /\ part[r] = upload[r].blocks /\ part[r] \in Nat
          /\ part[r] <= MaxBlocks
        BY <1>3, <1>R, <1>U DEF StageEnd, RequestOK, Working
    <2>2. CASE part[r] = 0
        <3>1. Becomes(r, "answered", NoFile, "invalid_upload", source[r])
            BY <1>3, <2>2, Unchanging DEF StageEnd, Answered, Becomes
        <3>2. RequestOK(call[r], upload[r], "answered", NoFile, "invalid_upload", source[r])
            BY <2>1, <1>R DEF RequestOK, Working
        <3> QED BY <3>1, <3>2, <1>T DEF Answers
    <2>3. CASE part[r] # 0
        <3>1. Becomes(r, "check", part[r], answer[r], source[r])
            BY <1>3, <2>3, Unchanging DEF StageEnd, GoOn, Becomes
        <3>2. RequestOK(call[r], upload[r], "check", part[r], answer[r], source[r])
            BY <2>1, <2>3, <1>M, <1>R DEF RequestOK, Working
        <3> QED BY <3>1, <3>2, <1>T DEF Working
    <2> QED BY <2>2, <2>3
<1> QED BY <1>1, <1>2, <1>3

\* From there to the source volume and the answer.
LEMMA UploadLeadsTo ==
    ASSUME GatewayInv, NEW r \in Requests,
           \/ CheckType(r) \/ Lookup(r) \/ Discard(r) \/ KeepSource(r)
           \/ NoSource(r) \/ MoveSource(r) \/ RecordUpload(r)
    PROVE  \E s \in Working \cup {"answered"}, p \in Nat \cup {NoFile},
              a \in Answers, f \in Nat \cup {NoFile} :
               Becomes(r, s, p, a, f) /\ RequestOK(call[r], upload[r], s, p, a, f)
<1>T. /\ part[r] \in Nat \cup {NoFile} /\ answer[r] \in Answers
      /\ source[r] \in Nat \cup {NoFile} /\ upload[r] \in Uploads \cup {NoUpload}
    BY DEF GatewayInv, UploadTypes
<1>R. RequestOK(call[r], upload[r], step[r], part[r], answer[r], source[r])
    BY DEF GatewayInv, RequestsOK
<1>M. MaxBlocks \in Nat \ {0} BY UploadsAssumption
<1>U. step[r] \in Working =>
          upload[r].blocks \in Nat /\ upload[r].type \in {"supported", "unsupported", "invalid"}
    <2>1. step[r] \in Working => upload[r] \in Uploads BY <1>R DEF RequestOK, Admitted
    <2> QED BY <2>1, UploadFields
<1>D. ASSUME step[r] \in {"check", "lookup", "move"},
             NEW a \in {"unsupported_media_type", "invalid_upload", "accepted", "internal_error"}
      PROVE  RequestOK(call[r], upload[r], "discard", part[r], a, source[r]) /\ a \in Answers
    BY <1>D, <1>R DEF RequestOK, Working, Answers
<1>1. CASE CheckType(r)
    <2>1. CASE upload[r].type = "supported"
        <3>1. Becomes(r, "lookup", part[r], answer[r], source[r])
            BY <1>1, <2>1, Unchanging DEF CheckType, GoOn, Becomes
        <3>2. RequestOK(call[r], upload[r], "lookup", part[r], answer[r], source[r])
            BY <1>1, <2>1, <1>R DEF CheckType, RequestOK, Working
        <3> QED BY <3>1, <3>2, <1>T DEF Working
    <2>2. CASE upload[r].type # "supported"
        <3>1. \E a \in {"unsupported_media_type", "invalid_upload"} :
                  Becomes(r, "discard", part[r], a, source[r])
            BY <1>1, <2>2, <1>U, Unchanging DEF CheckType, DiscardedAnd, Becomes, Working
        <3> QED BY <3>1, <1>1, <1>D, <1>T DEF CheckType, Working
    <2> QED BY <2>1, <2>2
<1>2. CASE Lookup(r)
    <2>1. \/ \E a \in {"accepted", "internal_error"} : Becomes(r, "discard", part[r], a, source[r])
          \/ Becomes(r, "promote", part[r], answer[r], source[r])
        BY <1>2, Unchanging DEF Lookup, DiscardedAnd, GoOn, Becomes
    <2>2. RequestOK(call[r], upload[r], "promote", part[r], answer[r], source[r])
        BY <1>2, <1>R DEF Lookup, RequestOK, Working
    <2> QED BY <2>1, <2>2, <1>2, <1>D, <1>T DEF Lookup, Working
<1>3. CASE Discard(r)
    <2>1. Becomes(r, "answered", NoFile, answer[r], source[r])
        BY <1>3, Unchanging DEF Discard, Becomes
    <2>2. RequestOK(call[r], upload[r], "answered", NoFile, answer[r], source[r])
        BY <1>3, <1>R DEF Discard, RequestOK, Working
    <2> QED BY <2>1, <2>2, <1>T
<1>4. CASE KeepSource(r)
    <2>1. Becomes(r, "record", NoFile, answer[r], source[r])
        BY <1>4, Unchanging DEF KeepSource, GoOn, Becomes
    <2>2. RequestOK(call[r], upload[r], "record", NoFile, answer[r], source[r])
        BY <1>4, <1>R DEF KeepSource, RequestOK, Working
    <2> QED BY <2>1, <2>2, <1>T DEF Working
<1>5. CASE NoSource(r)
    <2>1. Becomes(r, "move", part[r], answer[r], source[r])
        BY <1>5, Unchanging DEF NoSource, GoOn, Becomes
    <2>2. RequestOK(call[r], upload[r], "move", part[r], answer[r], source[r])
        BY <1>5, <1>R DEF NoSource, RequestOK, Working
    <2> QED BY <2>1, <2>2, <1>T DEF Working
<1>6. CASE MoveSource(r)
    <2>1. \/ Becomes(r, "record", NoFile, answer[r], part[r])
          \/ Becomes(r, "discard", part[r], "internal_error", source[r])
        BY <1>6, Unchanging DEF MoveSource, Moved, DiscardedAnd, GoOn, Becomes
    <2>2. RequestOK(call[r], upload[r], "record", NoFile, answer[r], part[r])
        BY <1>6, <1>R, <1>M DEF MoveSource, RequestOK, Working
    <2> QED BY <2>1, <2>2, <1>6, <1>D, <1>T DEF MoveSource, Working
<1>7. CASE RecordUpload(r)
    <2>1. step[r] = "record" /\ part[r] = NoFile
        BY <1>7, <1>R DEF RecordUpload, RequestOK
    <2>2. \E a \in {"accepted", "internal_error"} :
              Becomes(r, "answered", part[r], a, source[r])
        BY <1>7, Unchanging DEF RecordUpload, Answered, Becomes
    <2>3. \A a \in {"accepted", "internal_error"} :
              RequestOK(call[r], upload[r], "answered", part[r], a, source[r])
        BY <2>1, <1>R DEF RequestOK, Working
    <2> QED BY <2>2, <2>3, <1>T DEF Answers
<1> QED BY <1>1, <1>2, <1>3, <1>4, <1>5, <1>6, <1>7

\* The deadline may pass anywhere.
LEMMA TimeoutLeadsTo ==
    ASSUME GatewayInv, NEW r \in Requests, TimesOut(r)
    PROVE  \E s \in Working \cup {"answered"}, p \in Nat \cup {NoFile},
              a \in Answers, f \in Nat \cup {NoFile} :
               Becomes(r, s, p, a, f) /\ RequestOK(call[r], upload[r], s, p, a, f)
<1>T. /\ part[r] \in Nat \cup {NoFile} /\ source[r] \in Nat \cup {NoFile}
      /\ "request_timeout" \in Answers
    BY DEF GatewayInv, UploadTypes, Answers
<1>R. RequestOK(call[r], upload[r], step[r], part[r], answer[r], source[r])
    BY DEF GatewayInv, RequestsOK
<1>M. MaxBlocks \in Nat \ {0} BY UploadsAssumption
<1>1. /\ step[r] \in Working
      /\ \/ Becomes(r, "answered", part[r], "request_timeout", source[r]) /\ step[r] # "stage"
         \/ Becomes(r, "answered", NoFile, "request_timeout", source[r])
         \/ Becomes(r, "answered", NoFile, "request_timeout", part[r]) /\ step[r] = "move"
    BY Unchanging DEF TimesOut, Answered, Moved, Becomes, Working
<1>2. step[r] # "stage" =>
          RequestOK(call[r], upload[r], "answered", part[r], "request_timeout", source[r])
    BY <1>1, <1>R DEF RequestOK, Working
<1>3. RequestOK(call[r], upload[r], "answered", NoFile, "request_timeout", source[r])
    BY <1>1, <1>R DEF RequestOK, Working
<1>4. step[r] = "move" =>
          RequestOK(call[r], upload[r], "answered", NoFile, "request_timeout", part[r])
    BY <1>1, <1>R, <1>M DEF RequestOK, Working
<1> QED BY <1>1, <1>2, <1>3, <1>4, <1>T

\* So the handler of an admitted upload keeps the invariant.
LEMMA UploadKeeps ==
    ASSUME GatewayInv, NEW r \in Requests,
           \/ OpenPart(r) \/ StageBlock(r) \/ StageEnd(r)
           \/ CheckType(r) \/ Lookup(r) \/ Discard(r) \/ KeepSource(r)
           \/ NoSource(r) \/ MoveSource(r) \/ RecordUpload(r) \/ TimesOut(r)
    PROVE  UploadTypes' /\ RequestsOK' /\ UNCHANGED keyVars
<1>1. step[r] \in Working
    BY DEF OpenPart, StageBlock, StageEnd, CheckType, Lookup, Discard, KeepSource, NoSource,
           MoveSource, RecordUpload, TimesOut, Working
<1>2. PICK s \in Working \cup {"answered"}, p \in Nat \cup {NoFile},
           a \in Answers, f \in Nat \cup {NoFile} :
               Becomes(r, s, p, a, f) /\ RequestOK(call[r], upload[r], s, p, a, f)
    BY StagingLeadsTo, UploadLeadsTo, TimeoutLeadsTo
<1>3. s \in Steps BY DEF Working, Steps
<1>4. /\ step' = [step EXCEPT ![r] = s] /\ part' = [part EXCEPT ![r] = p]
      /\ answer' = [answer EXCEPT ![r] = a] /\ source' = [source EXCEPT ![r] = f]
      /\ UNCHANGED keyVars /\ upload' = upload
    BY <1>2 DEF Becomes
<1> QED BY <1>1, <1>2, <1>3, <1>4, HandlerKeeps

-----------------------------------------------------------------------------
(* The other steps. *)

\* A request comes in.
LEMMA ReceiveKeeps ==
    ASSUME GatewayInv, NEW r \in Requests, Receive(r)
    PROVE  UploadTypes' /\ RequestsOK'
<1>T. UploadTypes /\ call \in [Requests -> Calls]
    BY DEF GatewayInv, KeyInv, KeyTypeOK, Calls, Phases
<1>R. RequestOK(call[r], upload[r], step[r], part[r], answer[r], source[r])
    BY DEF GatewayInv, RequestsOK
<1>1. call[r].phase = "none" /\ step' = [step EXCEPT ![r] = "authenticate"]
      /\ UNCHANGED <<upload, part, source, answer>>
    BY DEF Receive, Present, GoOn
<1>2. PICK t : call' = [call EXCEPT ![r] = [phase |-> "presented", token |-> t, record |-> NoRecord]]
    BY DEF Receive, Present
<1>3. UploadTypes' BY <1>1, <1>T DEF UploadTypes, Steps
<1>4. call'[r].phase = "presented" /\ step'[r] = "authenticate" BY <1>1, <1>2, <1>T DEF UploadTypes
<1>5. source[r] = NoFile /\ part[r] = NoFile BY <1>1, <1>R DEF RequestOK
<1>6. RequestOK(call'[r], upload[r], "authenticate", part[r], answer[r], source[r])
    BY <1>4, <1>5 DEF RequestOK, Working
<1>7. \A q \in Requests : q # r => call'[q] = call[q] /\ step'[q] = step[q]
    BY <1>1, <1>2, <1>T DEF UploadTypes
<1> QED BY <1>1, <1>3, <1>4, <1>6, <1>7, OthersKeep

\* It is authenticated, or refused.
LEMMA AuthStepKeeps ==
    ASSUME GatewayInv, NEW r \in Requests, AuthStep(r)
    PROVE  UploadTypes' /\ RequestsOK'
<1>T. UploadTypes /\ call \in [Requests -> Calls]
    BY DEF GatewayInv, KeyInv, KeyTypeOK, Calls, Phases
<1>R. RequestOK(call[r], upload[r], step[r], part[r], answer[r], source[r])
    BY DEF GatewayInv, RequestsOK
<1>1. call[r].phase \in {"presented", "verifying"} /\ UNCHANGED <<upload, part, source>>
    BY DEF AuthStep, Authenticate, NoCredentials, ReadRecord, ReadFails, VerifySecret
<1>2. step[r] = "authenticate" /\ part[r] = NoFile /\ source[r] = NoFile
    BY <1>1, <1>R DEF RequestOK
<1>3. /\ \A q \in Requests : q # r => call'[q] = call[q]
      /\ call'[r].phase \in {"verifying", "accepted", "refused", "dropped"}
    BY <1>T DEF AuthStep, Authenticate, NoCredentials, ReadRecord, ReadFails, VerifySecret,
                Refused, Calls
<1>4. CASE call'[r].phase \in {"refused", "dropped"}
    <2>1. PICK a \in Answers :
             step' = [step EXCEPT ![r] = "answered"] /\ answer' = [answer EXCEPT ![r] = a]
        BY <1>4 DEF AuthStep, Answered, Answers
    <2>2. UploadTypes' BY <1>1, <2>1, <1>T DEF UploadTypes, Steps
    <2>3. /\ step'[r] = "answered" /\ answer'[r] = a
          /\ \A q \in Requests : q # r => step'[q] = step[q] /\ answer'[q] = answer[q]
        BY <2>1, <1>T DEF UploadTypes
    <2>4. RequestOK(call'[r], upload[r], "answered", part[r], a, source[r])
        BY <1>2, <1>4 DEF RequestOK, Working
    <2> QED BY <1>1, <1>3, <2>2, <2>3, <2>4, OthersKeep
<1>5. CASE call'[r].phase \in {"verifying", "accepted"}
    <2>1. step' = step /\ answer' = answer BY <1>5 DEF AuthStep
    <2>2. UploadTypes' BY <1>1, <2>1, <1>T DEF UploadTypes
    <2>3. RequestOK(call'[r], upload[r], step[r], part[r], answer[r], source[r])
        BY <1>2, <1>5 DEF RequestOK, Working
    <2> QED BY <1>1, <1>3, <2>1, <2>2, <2>3, OthersKeep
<1> QED BY <1>3, <1>4, <1>5

\* It is admitted, or not.
LEMMA AdmitKeeps ==
    ASSUME GatewayInv, NEW r \in Requests, Admit(r)
    PROVE  UploadTypes' /\ RequestsOK' /\ UNCHANGED keyVars
<1>T. UploadTypes BY DEF GatewayInv
<1>R. RequestOK(call[r], upload[r], step[r], part[r], answer[r], source[r])
    BY DEF GatewayInv, RequestsOK
<1>1. /\ step[r] = "authenticate" /\ call[r].phase = "accepted"
      /\ UNCHANGED <<keyVars, part, source>>
    BY DEF Admit
<1>2. part[r] = NoFile /\ source[r] = NoFile BY <1>1, <1>R DEF RequestOK
<1>3. PICK u \in Uploads :
         /\ upload' = [upload EXCEPT ![r] = u]
         /\ \/ \E a \in {"invalid_upload", "insufficient_scope"} : Answered(r, a)
            \/ /\ u.metadata \notin {"malformed", "invalid"} /\ Permitted(r, u)
               /\ GoOn(r, "open")
    BY DEF Admit, WithinLimits
<1>4. /\ upload'[r] = u /\ \A q \in Requests : q # r => upload'[q] = upload[q]
      /\ upload' \in [Requests -> Uploads \cup {NoUpload}]
    BY <1>3, <1>T DEF UploadTypes
<1>5. call' = call BY <1>1 DEF keyVars
<1>6. ASSUME NEW a \in {"invalid_upload", "insufficient_scope"}, Answered(r, a)
      PROVE  UploadTypes' /\ RequestsOK'
    <2>1. step' = [step EXCEPT ![r] = "answered"] /\ answer' = [answer EXCEPT ![r] = a]
        BY <1>6 DEF Answered
    <2>2. UploadTypes' BY <1>1, <1>4, <2>1, <1>T DEF UploadTypes, Steps, Answers
    <2>3. /\ step'[r] = "answered" /\ answer'[r] = a
          /\ \A q \in Requests : q # r => step'[q] = step[q] /\ answer'[q] = answer[q]
        BY <2>1, <1>T DEF UploadTypes
    <2>4. RequestOK(call[r], u, "answered", part[r], a, source[r])
        BY <1>1, <1>2 DEF RequestOK, Working
    <2> QED BY <1>1, <1>4, <1>5, <2>2, <2>3, <2>4, OthersKeep
<1>7. CASE /\ u.metadata \notin {"malformed", "invalid"} /\ Permitted(r, u)
           /\ GoOn(r, "open")
    <2>1. step' = [step EXCEPT ![r] = "open"] /\ answer' = answer
        BY <1>7 DEF GoOn
    <2>2. UploadTypes' BY <1>1, <1>4, <2>1, <1>T DEF UploadTypes, Steps
    <2>3. step'[r] = "open" /\ \A q \in Requests : q # r => step'[q] = step[q]
        BY <2>1, <1>T DEF UploadTypes
    <2>4. u.metadata = "valid" BY <1>7, UploadFields
    <2>5. Admitted(call[r], u) BY <1>1, <1>7, <2>4 DEF Admitted, Permitted, Grant
    <2>6. RequestOK(call[r], u, "open", part[r], answer[r], source[r])
        BY <1>1, <1>2, <2>5 DEF RequestOK
    <2> QED BY <1>1, <1>4, <1>5, <2>1, <2>2, <2>3, <2>6, OthersKeep
<1> QED BY <1>1, <1>3, <1>6, <1>7

\* The API dies, and nobody is answered.
LEMMA DiesKeeps ==
    ASSUME GatewayInv, Dies
    PROVE  UploadTypes' /\ RequestsOK'
<1> DEFINE waiting == {r \in Requests : step[r] \notin {"idle", "answered"}}
<1>T. UploadTypes /\ call \in [Requests -> Calls]
    BY DEF GatewayInv, KeyInv, KeyTypeOK, Calls, Phases
<1>1. /\ step' = [r \in Requests |-> IF r \in waiting THEN "answered" ELSE step[r]]
      /\ answer' = [r \in Requests |-> IF r \in waiting THEN "none" ELSE answer[r]]
      /\ UNCHANGED <<upload, part, source>>
    BY DEF Dies
<1>2. \A r \in Requests :
          call'[r] = IF call[r].phase \in {"presented", "verifying"}
                     THEN [call[r] EXCEPT !.phase = "dropped"] ELSE call[r]
    BY DEF Dies, Kill
<1>3. \A r \in Requests : step'[r] \in Steps /\ answer'[r] \in Answers
    BY <1>1, <1>T DEF UploadTypes, Steps, Answers
<1>4. UploadTypes' BY <1>1, <1>3, <1>T DEF UploadTypes
<1>5. ASSUME NEW r \in Requests
      PROVE  RequestOK(call'[r], upload'[r], step'[r], part'[r], answer'[r], source'[r])
    <2>R. RequestOK(call[r], upload[r], step[r], part[r], answer[r], source[r])
        BY DEF GatewayInv, RequestsOK
    <2>1. CASE r \in waiting
        <3>1. step'[r] = "answered" /\ answer'[r] = "none" BY <1>1, <2>1
        <3>2. CASE call[r].phase \in {"presented", "verifying"}
            <4>1. call'[r].phase = "dropped" BY <1>2, <1>T, <3>2 DEF Calls
            <4>2. source[r] = NoFile BY <2>R, <3>2 DEF RequestOK
            <4> QED BY <1>1, <3>1, <4>1, <4>2 DEF RequestOK, Working
        <3>3. CASE call[r].phase \notin {"presented", "verifying"}
            <4>1. call'[r] = call[r] /\ call[r].phase # "none"
                BY <1>2, <2>1, <2>R, <3>3 DEF RequestOK
            <4>2. RequestOK(call[r], upload[r], "answered", part[r], "none", source[r])
                BY <2>R, <3>3, <4>1 DEF RequestOK, Working
            <4> QED BY <1>1, <3>1, <4>1, <4>2
        <3> QED BY <3>2, <3>3
    <2>2. CASE r \notin waiting
        <3>1. step'[r] = step[r] /\ answer'[r] = answer[r] BY <1>1, <2>2
        <3>2. call'[r] = call[r] BY <1>2, <2>2, <2>R DEF RequestOK
        <3> QED BY <1>1, <2>R, <3>1, <3>2
    <2> QED BY <2>1, <2>2
<1> QED BY <1>4, <1>5 DEF RequestsOK

\* The processes and the operator have nothing to do with uploads.
LEMMA KeysKeep ==
    ASSUME GatewayInv, call' = call, UNCHANGED uploadVars
    PROVE  UploadTypes' /\ RequestsOK'
BY DEF GatewayInv, UploadTypes, RequestsOK, uploadVars

-----------------------------------------------------------------------------
(* The theorems. *)

\* Every step is one of the keys, or leaves them alone, and keeps the invariant.
LEMMA GatewayStep ==
    ASSUME GatewayInv, [GatewayNext]_vars
    PROVE  [KeyNext]_keyVars /\ GatewayInv'
<1>K. KeyInv BY DEF GatewayInv
<1>E. [KeyNext]_keyVars /\ UploadTypes' /\ RequestsOK' => GatewayInv'
    BY <1>K, KeyStep DEF GatewayInv
<1>1. ASSUME NEW p \in Processes, SetUp(p) \/ SetUpFails(p), UNCHANGED uploadVars
      PROVE  [KeyNext]_keyVars /\ UploadTypes' /\ RequestsOK'
    <2>1. call' = call BY <1>1, <1>K, StartUpShape
    <2> QED BY <1>1, <2>1, KeysKeep DEF KeyNext
<1>2. ASSUME Dies PROVE [KeyNext]_keyVars /\ UploadTypes' /\ RequestsOK'
    <2>1. Kill BY <1>2 DEF Dies
    <2>2. KeyNext BY <2>1 DEF KeyNext
    <2> QED BY <1>2, <2>2, DiesKeeps
<1>3. ASSUME WorkerCreates, UNCHANGED uploadVars
      PROVE  [KeyNext]_keyVars /\ UploadTypes' /\ RequestsOK'
    <2>1. call' = call BY <1>3 DEF WorkerCreates
    <2>2. KeyNext BY <1>3 DEF KeyNext
    <2> QED BY <1>3, <2>1, <2>2, KeysKeep
<1>4. ASSUME NEW k \in Keys, Disable(k) \/ Expire(k), UNCHANGED uploadVars
      PROVE  [KeyNext]_keyVars /\ UploadTypes' /\ RequestsOK'
    <2>1. call' = call BY <1>4 DEF Disable, Expire
    <2> QED BY <1>4, <2>1, KeysKeep DEF KeyNext
<1>5. ASSUME NEW r \in Requests, UploadStep(r)
      PROVE  [KeyNext]_keyVars /\ UploadTypes' /\ RequestsOK'
    <2>1. CASE Receive(r) BY <2>1, ReceiveKeeps DEF Receive, KeyNext
    <2>2. CASE AuthStep(r) BY <2>2, AuthStepKeeps DEF AuthStep, KeyNext
    <2>3. CASE Admit(r) BY <2>3, AdmitKeeps
    <2>4. CASE ~ (Receive(r) \/ AuthStep(r) \/ Admit(r)) BY <1>5, <2>4, UploadKeeps DEF UploadStep
    <2> QED BY <2>1, <2>2, <2>3, <2>4
<1>6. CASE UNCHANGED vars
    <2>1. UNCHANGED keyVars /\ UNCHANGED uploadVars BY <1>6 DEF vars, uploadVars
    <2>2. call' = call BY <2>1 DEF keyVars
    <2> QED BY <2>1, <2>2, <1>E, KeysKeep
<1>7. GatewayNext => [KeyNext]_keyVars /\ UploadTypes' /\ RequestsOK'
    <2> SUFFICES ASSUME GatewayNext
                 PROVE  [KeyNext]_keyVars /\ UploadTypes' /\ RequestsOK'
        OBVIOUS
    <2>1. \/ \E p \in Processes : (SetUp(p) \/ SetUpFails(p)) /\ UNCHANGED uploadVars
          \/ Dies
          \/ WorkerCreates /\ UNCHANGED uploadVars
          \/ \E k \in Keys : (Disable(k) \/ Expire(k)) /\ UNCHANGED uploadVars
          \/ \E r \in Requests : UploadStep(r)
        BY DEF GatewayNext, SetUpStep
    <2> QED BY <2>1, <1>1, <1>2, <1>3, <1>4, <1>5
<1> QED BY <1>6, <1>7, <1>E

\* The invariant holds throughout.
LEMMA GatewayInvariant == GatewaySpec => []GatewayInv
<1>1. GatewayInit => GatewayInv
    <2> SUFFICES ASSUME GatewayInit PROVE GatewayInv OBVIOUS
    <2>1. KeyInv BY KeyInitially DEF GatewayInit
    <2>2. UploadTypes BY DEF GatewayInit, UploadTypes, Steps, Answers
    <2>3. ASSUME NEW r \in Requests
          PROVE  RequestOK(call[r], upload[r], step[r], part[r], answer[r], source[r])
        <3>1. /\ call[r].phase = "none" /\ step[r] = "idle"
              /\ part[r] = NoFile /\ source[r] = NoFile
            BY DEF GatewayInit, KeyInit
        <3> QED BY <3>1 DEF RequestOK, Working
    <2> QED BY <2>1, <2>2, <2>3 DEF GatewayInv, RequestsOK
<1>2. GatewayInv /\ [GatewayNext]_vars => GatewayInv' BY GatewayStep
<1> QED BY <1>1, <1>2, PTL DEF GatewaySpec

\* The types of the state, whatever the requests and the limits.
THEOREM GatewayTypeCorrect == GatewaySpec => []GatewayTypeOK
<1>1. GatewayInv => GatewayTypeOK
    BY DEF GatewayInv, KeyInv, UploadTypes, GatewayTypeOK, Answers
<1> QED BY <1>1, GatewayInvariant, PTL

\* A file in the quarantine is that of a request under way, or of one that timed out after
\* its upload was staged, whole, or is what a killed process left
\* (document_storage.py:45-66, documents.py:107-172).
THEOREM QuarantineIsAccounted == GatewaySpec => []QuarantineAccounted
<1>1. GatewayInv => QuarantineAccounted
    <2> SUFFICES ASSUME GatewayInv, NEW r \in Requests, part[r] # NoFile
                 PROVE  \/ step[r] \notin {"idle", "authenticate", "open", "record", "answered"}
                        \/ step[r] = "answered" /\ answer[r] = "none"
                        \/ /\ step[r] = "answered" /\ answer[r] = "request_timeout"
                           /\ part[r] = upload[r].blocks
        BY DEF QuarantineAccounted
    <2>1. RequestOK(call[r], upload[r], step[r], part[r], answer[r], source[r])
        BY DEF GatewayInv, RequestsOK
    <2> QED BY <2>1 DEF RequestOK
<1> QED BY <1>1, GatewayInvariant, PTL

\* A caller who is refused for good leaves no file anywhere (documents.py:107-172).
THEOREM RefusedLeaveNothing == GatewaySpec => []RefusedLeavesNothing
<1>1. GatewayInv => RefusedLeavesNothing
    <2> SUFFICES ASSUME GatewayInv, NEW r \in Requests, step[r] = "answered",
                        answer[r] \notin {"none", "request_timeout"},
                        StatusOf(answer[r]) \in 400 .. 499
                 PROVE  part[r] = NoFile /\ source[r] = NoFile
        BY DEF RefusedLeavesNothing
    <2>1. RequestOK(call[r], upload[r], step[r], part[r], answer[r], source[r])
        BY DEF GatewayInv, RequestsOK
    <2>2. StatusOf("accepted") = 202 /\ StatusOf("internal_error") = 500 BY DEF StatusOf
    <2>3. answer[r] # "accepted" /\ answer[r] # "internal_error" BY <2>2
    <2> QED BY <2>1, <2>3 DEF RequestOK
<1> QED BY <1>1, GatewayInvariant, PTL

\* A source is the whole of what its caller sent, within the limit, of a supported type,
\* and its caller was entitled to it (documents.py:97-130, document_storage.py:45-88).
THEOREM SourcesStayWhole == GatewaySpec => []SourcesAreWhole
<1>1. GatewayInv => SourcesAreWhole
    <2> SUFFICES ASSUME GatewayInv, NEW r \in Requests, source[r] # NoFile
                 PROVE  LET u == upload[r]
                        IN  /\ source[r] = u.blocks /\ source[r] \in 1 .. MaxBlocks
                            /\ u.type = "supported" /\ u.metadata = "valid"
                            /\ Grant(r) \in CanWrite /\ (u.force => Grant(r) \in CanForce)
        BY DEF SourcesAreWhole
    <2>1. RequestOK(call[r], upload[r], step[r], part[r], answer[r], source[r])
        BY DEF GatewayInv, RequestsOK
    <2> QED BY <2>1 DEF RequestOK, Admitted, Grant
<1> QED BY <1>1, GatewayInvariant, PTL

\* With uploads under way, too, the keys are AccessControl's.
THEOREM GatewayIsAccessControl == GatewaySpec => AccessSpec
<1>1. GatewayInit => AC!AccessInit BY KeyInitially DEF GatewayInit
<1>2. GatewayInv /\ [GatewayNext]_vars => [AC!AccessNext]_(AC!accessVars)
    BY GatewayStep, KeyStep, AccessBox DEF GatewayInv
<1> QED BY <1>1, <1>2, GatewayInvariant, PTL DEF GatewaySpec, AccessSpec, AC!AccessSpec
=============================================================================
