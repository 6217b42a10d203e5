------------------------------- MODULE ApiKeys -------------------------------
(***************************************************************************)
(* API keys in a control collection of Qdrant                              *)
(* (app/infrastructure/auth/qdrant_api_keys.py), the processes that seed   *)
(* them - the API when it starts (app/main.py) and provisioning scripts    *)
(* (scripts/provision_api_key.py) - and the authentication of requests. An *)
(* action is what happens from one await to the next.                      *)
(*                                                                         *)
(* A hash is represented by the secret it verifies. Key ids, secrets and   *)
(* tokens are sequences of the parts between their dots.                   *)
(***************************************************************************)
EXTENDS Integers, Sequences, FiniteSets

CONSTANTS
    Parts,        \* what key ids and secrets are made of
    Keys,         \* key ids
    BootstrapKey, \* bootstrap_key_id
    Secrets,      \* secrets
    Grants,       \* what a key entitles to: a tenant and scopes
    Requests,     \* requests to the API
    NoRecord,     \* stands for no record
    Api,          \* the API
    Scripts,      \* runs of provision_api_key.py
    Seeds,        \* the seedings each of them may be started with
    MaxEvents     \* bound: Qdrant calls that fail, kills, keys withdrawn

\* The API calls seed_key with a secret from its environment, a script with one that it
\* has just drawn, and that nobody else has.
Processes == {Api} \cup Scripts

Seeding == [key : Keys, secret : Secrets, grant : Grants]

ASSUME KeysAssumption ==
    /\ Keys \subseteq Seq(Parts) /\ \A k \in Keys : Len(k) > 0
    /\ Secrets \subseteq Seq(Parts) /\ \A s \in Secrets : Len(s) > 0
    /\ BootstrapKey \in Keys

ASSUME ProcessesAssumption ==
    /\ Api \notin Scripts
    /\ Seeds \in [Processes -> SUBSET Seeding]
    /\ \A s \in Seeds[Api] : s.key = BootstrapKey
    /\ \A p, q \in Processes : p # q =>
          \A s \in Seeds[p], t \in Seeds[q] : s.key = t.key => s.secret # t.secret
    /\ MaxEvents \in Nat

Record == [secret : Secrets, grant : Grants, enabled : BOOLEAN, expired : BOOLEAN]
ASSUME RecordAssumption ==
    /\ NoRecord \notin Record
    /\ {"none", "pending", "refused", "dropped"} \cap Grants = {}

VARIABLES
    pc,      \* what each process does next
    seed,    \* the seeding it was started with
    auth,    \* the collection of keys exists
    docs,    \* the collection of documents exists
    records, \* the record of every key
    call,    \* authenticate() for every request
    events   \* how many failures, kills and withdrawals there were

keyVars == <<pc, seed, auth, docs, records, call, events>>

-----------------------------------------------------------------------------
(* Start-up. *)

Goto(p, label) == pc' = [pc EXCEPT ![p] = label]

\* Compose restarts the API, nobody a script.
Ended(p) == IF p \in Scripts THEN "failed" ELSE "off"
Seeded(p) == IF p = Api THEN "docs_exists" ELSE "running"

Start(p) ==
    /\ pc[p] = "off"
    /\ \E s \in Seeds[p] : seed' = [seed EXCEPT ![p] = s]
    /\ Goto(p, "auth_exists")
    /\ UNCHANGED <<auth, docs, records, call, events>>

\* Mutant: the collection is created without looking for it.
AuthUnasked(p) ==
    /\ pc[p] = "auth_exists"
    /\ Goto(p, "auth_create")
    /\ UNCHANGED <<seed, auth, docs, records, call, events>>

AuthExists(p) ==
    /\ pc[p] = "auth_exists"
    /\ Goto(p, IF auth THEN "seed_read" ELSE "auth_create")
    /\ UNCHANGED <<seed, auth, docs, records, call, events>>

\* Whoever comes second is told that the collection exists already, and gives up.
AuthCreate(p) ==
    /\ pc[p] = "auth_create"
    /\ Goto(p, IF auth THEN Ended(p) ELSE "seed_read")
    /\ auth' = TRUE
    /\ UNCHANGED <<seed, docs, records, call, events>>

\* Mutant: the record is put whatever was read.
SeedAlways(p) ==
    /\ pc[p] = "seed_read"
    /\ Goto(p, "seed_put")
    /\ UNCHANGED <<seed, auth, docs, records, call, events>>

\* seed_key: the same secret is already there, or a hash is made of the new one.
SeedRead(p) ==
    /\ pc[p] = "seed_read"
    /\ LET stored == records[seed[p].key]
       IN  Goto(p, IF stored # NoRecord /\ stored.secret = seed[p].secret
                   THEN Seeded(p) ELSE "seed_put")
    /\ UNCHANGED <<seed, auth, docs, records, call, events>>

\* Mutant: what seed_key was given is stored, without the fields a record has by default.
PutBare(p) == records' = [records EXCEPT ![seed[p].key] = seed[p]]

Put(p) ==
    records' = [records EXCEPT ![seed[p].key] =
                  [secret |-> seed[p].secret, grant |-> seed[p].grant,
                   enabled |-> TRUE, expired |-> FALSE]]

SeedPut(p) ==
    /\ pc[p] = "seed_put"
    /\ Put(p)
    /\ Goto(p, Seeded(p))
    /\ UNCHANGED <<seed, auth, docs, call, events>>

DocsExists(p) ==
    /\ pc[p] = "docs_exists"
    /\ Goto(p, IF docs THEN "running" ELSE "docs_create")
    /\ UNCHANGED <<seed, auth, docs, records, call, events>>

DocsCreate(p) ==
    /\ pc[p] = "docs_create"
    /\ Goto(p, IF docs THEN "docs_recheck" ELSE "running")
    /\ docs' = TRUE
    /\ UNCHANGED <<seed, auth, records, call, events>>

DocsRecheck(p) ==
    /\ pc[p] = "docs_recheck"
    /\ Goto(p, IF docs THEN "running" ELSE Ended(p))
    /\ UNCHANGED <<seed, auth, docs, records, call, events>>

\* The worker, which needs that collection too, was faster.
WorkerCreates ==
    /\ ~ docs
    /\ docs' = TRUE
    /\ UNCHANGED <<pc, seed, auth, records, call, events>>

SetUp(p) ==
    \/ Start(p) \/ AuthExists(p) \/ AuthCreate(p) \/ SeedRead(p) \/ SeedPut(p)
    \/ DocsExists(p) \/ DocsCreate(p) \/ DocsRecheck(p)

Calling(p) == pc[p] \notin {"off", "running", "failed"}

Counted == events < MaxEvents /\ events' = events + 1

\* A call to Qdrant raises, before or after it took effect.
SetUpFails(p) ==
    /\ Calling(p) /\ Counted
    /\ Goto(p, IF pc[p] = "docs_create" THEN "docs_recheck" ELSE Ended(p))
    /\ auth' \in {auth, auth \/ pc[p] = "auth_create"}
    /\ docs' \in {docs, docs \/ pc[p] = "docs_create"}
    /\ \/ UNCHANGED records
       \/ pc[p] = "seed_put" /\ Put(p)
    /\ UNCHANGED <<seed, call>>

\* The operator withdraws a key; nothing in the program does.
Disable(k) ==
    /\ records[k] # NoRecord /\ records[k].enabled /\ Counted
    /\ records' = [records EXCEPT ![k].enabled = FALSE]
    /\ UNCHANGED <<pc, seed, auth, docs, call>>

\* expires_at has passed.
Expire(k) ==
    /\ records[k] # NoRecord /\ ~ records[k].expired /\ Counted
    /\ records' = [records EXCEPT ![k].expired = TRUE]
    /\ UNCHANGED <<pc, seed, auth, docs, call>>

-----------------------------------------------------------------------------
(* authenticate() *)

\* A script has printed its token when it is done; the environment's secret is known.
Known ==
    {<<>>}
    \cup {seed[p].key \o seed[p].secret : p \in {q \in Scripts : pc[q] = "running"}}
    \cup UNION {{s.secret, s.key \o s.secret} : s \in Seeds[Api]}

Serving == pc[Api] = "running"

Present(r) ==
    /\ Serving /\ call[r].phase = "none"
    /\ \E t \in Known :
         call' = [call EXCEPT ![r] = [phase |-> "presented", token |-> t, record |-> NoRecord]]
    /\ UNCHANGED <<pc, seed, auth, docs, records, events>>

\* _split_token, at the first dot
SplitToken(t) ==
    IF Len(t) = 1
    THEN [key |-> BootstrapKey, secret |-> t]
    ELSE [key |-> <<Head(t)>>, secret |-> Tail(t)]

Refused(r) == call' = [call EXCEPT ![r].phase = "refused"]

NoCredentials(r) ==
    /\ call[r].phase = "presented" /\ call[r].token = <<>>
    /\ Refused(r)
    /\ UNCHANGED <<pc, seed, auth, docs, records, events>>

InForce(rec) == rec # NoRecord /\ rec.enabled /\ ~ rec.expired

\* Mutant: only a missing record is refused.
ReadAnyRecord(r) ==
    /\ call[r].phase = "presented" /\ call[r].token # <<>>
    /\ LET key == SplitToken(call[r].token).key
       IN  IF key \in Keys /\ records[key] # NoRecord
           THEN call' = [call EXCEPT ![r].phase = "verifying", ![r].record = records[key]]
           ELSE Refused(r)
    /\ UNCHANGED <<pc, seed, auth, docs, records, events>>

ReadRecord(r) ==
    /\ call[r].phase = "presented" /\ call[r].token # <<>>
    /\ LET key == SplitToken(call[r].token).key
       IN  IF key \in Keys /\ InForce(records[key])
           THEN call' = [call EXCEPT ![r].phase = "verifying", ![r].record = records[key]]
           ELSE Refused(r)
    /\ UNCHANGED <<pc, seed, auth, docs, records, events>>

ReadFails(r) ==
    /\ call[r].phase = "presented" /\ call[r].token # <<>> /\ Counted
    /\ call' = [call EXCEPT ![r].phase = "dropped"]
    /\ UNCHANGED <<pc, seed, auth, docs, records>>

Matches(r) == call[r].record.secret = SplitToken(call[r].token).secret

VerifySecret(r) ==
    /\ call[r].phase = "verifying"
    /\ IF Matches(r)
       THEN call' = [call EXCEPT ![r].phase = "accepted"]
       ELSE Refused(r)
    /\ UNCHANGED <<pc, seed, auth, docs, records, events>>

Authenticate(r) == NoCredentials(r) \/ ReadRecord(r) \/ ReadFails(r) \/ VerifySecret(r)

\* The API is killed, and with it what it was deciding.
Kill ==
    /\ Serving /\ Counted
    /\ Goto(Api, "off")
    /\ call' = [r \in Requests |->
                 IF call[r].phase \in {"presented", "verifying"}
                 THEN [call[r] EXCEPT !.phase = "dropped"] ELSE call[r]]
    /\ UNCHANGED <<seed, auth, docs, records>>

-----------------------------------------------------------------------------

KeyInit ==
    /\ pc = [p \in Processes |-> "off"]
    /\ seed = [p \in Processes |-> NoRecord]
    /\ auth = FALSE /\ docs = FALSE
    /\ records = [k \in Keys |-> NoRecord]
    /\ call = [r \in Requests |-> [phase |-> "none", token |-> <<>>, record |-> NoRecord]]
    /\ events = 0

KeyNext ==
    \/ \E p \in Processes : SetUp(p) \/ SetUpFails(p)
    \/ Kill \/ WorkerCreates
    \/ \E k \in Keys : Disable(k) \/ Expire(k)
    \/ \E r \in Requests : Present(r) \/ Authenticate(r)

KeySpec == KeyInit /\ [][KeyNext]_keyVars

-----------------------------------------------------------------------------
(* What the rest of the system relies on. *)

Labels == {"off", "auth_exists", "auth_create", "seed_read", "seed_put",
           "docs_exists", "docs_create", "docs_recheck", "running", "failed"}
Tokens == {<<>>} \cup Secrets \cup UNION {{k \o s : s \in Secrets} : k \in Keys}

\* The types of the state.
KeyTypeOK ==
    /\ pc \in [Processes -> Labels]
    /\ seed \in [Processes -> Seeding \cup {NoRecord}]
    /\ auth \in BOOLEAN /\ docs \in BOOLEAN
    /\ records \in [Keys -> Record \cup {NoRecord}]
    /\ call \in [Requests ->
         [phase : {"none", "presented", "verifying", "accepted", "refused", "dropped"},
          token : Tokens, record : Record \cup {NoRecord}]]
    /\ events \in 0 .. MaxEvents

\* The verdict is fixed when the record has been read.
Verdict(r) ==
    CASE call[r].phase = "presented" -> "pending"
      [] call[r].phase = "verifying" -> IF Matches(r) THEN call[r].record.grant ELSE "refused"
      [] call[r].phase = "accepted"  -> call[r].record.grant
      [] OTHER                       -> call[r].phase

AC == INSTANCE AccessControl WITH
        token   <- [r \in Requests |-> call[r].token],
        verdict <- [r \in Requests |-> Verdict(r)]

\* Between the read of a record and the verification of the secret, and between the read
\* and the upsert of seed_key, anything may happen; still every request is decided as if
\* at one instant, a grant changes only together with its key's secret, and a withdrawn
\* key does not come back with the secret it had (qdrant_api_keys.py:41-121).
AccessSpec == AC!AccessSpec

\* However the processes race for the collections and however often they fail, the API
\* is up in the end, as Compose restarts it (main.py:62-71, docker-compose.yml:38).
ApiComesUp == <>[]Serving
=============================================================================
