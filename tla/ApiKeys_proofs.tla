---------------------------- MODULE ApiKeys_proofs ----------------------------
(***************************************************************************)
(* ApiKeys implements AccessControl: however many processes seed keys and  *)
(* however many requests are under way, every decision is taken as if at   *)
(* one instant.                                                            *)
(***************************************************************************)
EXTENDS ApiKeys, SequenceTheorems, TLAPS

\* A process that has been started works on one of its seedings, and what it is about to
\* store is not the secret its key has.
SeedsOK ==
    \A p \in Processes :
        /\ pc[p] # "off" => seed[p] \in Seeds[p]
        /\ pc[p] = "seed_put" =>
               \/ records[seed[p].key] = NoRecord
               \/ records[seed[p].key].secret # seed[p].secret

\* What has been read was a record.
CallsOK ==
    \A r \in Requests :
        call[r].phase \in {"verifying", "accepted"} => call[r].record \in Record

KeyInv == KeyTypeOK /\ SeedsOK /\ CallsOK

-----------------------------------------------------------------------------
(* Tokens. *)

\* A sequence of one part and another put together.
LEMMA OneAndMore ==
    ASSUME NEW S, NEW a \in Seq(S), Len(a) = 1, NEW b \in Seq(S), Len(b) > 0
    PROVE  /\ Len(a \o b) > 1 /\ a \o b # <<>>
           /\ <<Head(a \o b)>> = a /\ Tail(a \o b) = b
<1>1. /\ a \o b \in Seq(S) /\ Len(a \o b) = Len(a) + Len(b) /\ Len(b) \in Nat
      /\ \A i \in 1 .. Len(a) + Len(b) :
             (a \o b)[i] = IF i <= Len(a) THEN a[i] ELSE b[i - Len(a)]
    BY ConcatProperties, LenProperties
<1>2. Len(a \o b) > 1 /\ a \o b # <<>> BY <1>1
<1>3. <<Head(a \o b)>> = a
    <2>1. Head(a \o b) = a[1] BY <1>1, <1>2
    <2>2. a = <<a[1]>> OBVIOUS
    <2> QED BY <2>1, <2>2
<1>4. Tail(a \o b) = b
    <2>1. /\ Tail(a \o b) \in Seq(S) /\ Len(Tail(a \o b)) = Len(a \o b) - 1
          /\ \A i \in 1 .. Len(Tail(a \o b)) : Tail(a \o b)[i] = (a \o b)[i + 1]
        BY <1>1, <1>2, HeadTailProperties
    <2>2. Len(Tail(a \o b)) = Len(b) BY <2>1, <1>1
    <2>3. \A i \in 1 .. Len(b) : (a \o b)[i + 1] = b[i] BY <1>1
    <2>4. \A i \in 1 .. Len(b) : Tail(a \o b)[i] = b[i] BY <2>1, <2>2, <2>3
    <2> QED BY <2>1, <2>2, <2>4, SeqEqual
<1> QED BY <1>2, <1>3, <1>4

\* A token is split the way it is put together.
LEMMA SplitWhole ==
    ASSUME NEW t \in Tokens, NEW k \in Keys, NEW s \in Secrets
    PROVE  t \in AC!TokensFor(k, s)
             <=> t # <<>> /\ SplitToken(t).key = k /\ SplitToken(t).secret = s
<1>1. k \in Seq(Parts) /\ Len(k) > 0 /\ s \in Seq(Parts) /\ Len(s) > 0
    BY KeysAssumption
<1>2. t \in Seq(Parts)
    <2>1. \A a \in Seq(Parts), b \in Seq(Parts) : a \o b \in Seq(Parts) OBVIOUS
    <2>2. Keys \subseteq Seq(Parts) /\ Secrets \subseteq Seq(Parts) BY KeysAssumption
    <2>3. CASE t = <<>> BY <2>3
    <2>4. CASE t \in Secrets BY <2>4, <2>2
    <2>5. CASE t \in UNION {{a \o b : b \in Secrets} : a \in Keys}
        <3>1. PICK a \in Keys : t \in {a \o b : b \in Secrets} BY <2>5
        <3>2. PICK b \in Secrets : t = a \o b BY <3>1
        <3> QED BY <3>2, <2>1, <2>2
    <2> QED BY <2>3, <2>4, <2>5 DEF Tokens
<1>3. ASSUME t \in AC!TokensFor(k, s)
      PROVE  t # <<>> /\ SplitToken(t).key = k /\ SplitToken(t).secret = s
    <2>1. CASE Len(k) = 1 /\ t = k \o s
        <3>1. Len(t) > 1 /\ t # <<>> /\ <<Head(t)>> = k /\ Tail(t) = s
            BY <2>1, <1>1, OneAndMore
        <3>2. SplitToken(t) = [key |-> <<Head(t)>>, secret |-> Tail(t)]
            BY <3>1 DEF SplitToken
        <3> QED BY <3>1, <3>2
    <2>2. CASE k = BootstrapKey /\ Len(s) = 1 /\ t = s
        BY <2>2 DEF SplitToken
    <2> QED BY <1>3, <2>1, <2>2 DEF AC!TokensFor
<1>4. ASSUME t # <<>>, SplitToken(t).key = k, SplitToken(t).secret = s
      PROVE  t \in AC!TokensFor(k, s)
    <2>1. CASE Len(t) = 1
        BY <2>1, <1>4, Zenon DEF SplitToken, AC!TokensFor
    <2>2. CASE Len(t) # 1
        <3>1. SplitToken(t) = [key |-> <<Head(t)>>, secret |-> Tail(t)]
            BY <2>2 DEF SplitToken
        <3>2. k = <<Head(t)>> /\ s = Tail(t) BY <3>1, <1>4
        <3>3. t = <<Head(t)>> \o Tail(t) BY <1>2, <1>4
        <3>4. Len(k) = 1 BY <3>2
        <3> QED BY <3>2, <3>3, <3>4 DEF AC!TokensFor
    <2> QED BY <2>1, <2>2
<1> QED BY <1>3, <1>4

\* Every token that is known is one.
LEMMA KnownTokens == ASSUME KeyInv PROVE Known \subseteq Tokens
<1>1. ASSUME NEW q \in Scripts, pc[q] = "running"
      PROVE  seed[q].key \o seed[q].secret \in Tokens
    <2>1. seed[q] \in Seeds[q] /\ Seeds[q] \subseteq Seeding
        BY <1>1, ProcessesAssumption DEF KeyInv, SeedsOK, Processes
    <2>2. seed[q].key \in Keys /\ seed[q].secret \in Secrets BY <2>1 DEF Seeding
    <2>3. seed[q].key \o seed[q].secret \in {seed[q].key \o c : c \in Secrets} BY <2>2
    <2> QED BY <2>2, <2>3 DEF Tokens
<1>2. ASSUME NEW s \in Seeds[Api] PROVE s.secret \in Tokens /\ s.key \o s.secret \in Tokens
    <2>1. s \in Seeding BY ProcessesAssumption DEF Processes
    <2>2. s.key \in Keys /\ s.secret \in Secrets BY <2>1 DEF Seeding
    <2>3. s.key \o s.secret \in {s.key \o c : c \in Secrets} BY <2>2
    <2> QED BY <2>2, <2>3 DEF Tokens
<1>3. <<>> \in Tokens BY DEF Tokens
<1>4. ASSUME NEW t \in Known PROVE t \in Tokens
    <2>1. \/ t = <<>>
          \/ \E q \in Scripts : pc[q] = "running" /\ t = seed[q].key \o seed[q].secret
          \/ \E s \in Seeds[Api] : t = s.secret \/ t = s.key \o s.secret
        BY <1>4 DEF Known
    <2> QED BY <2>1, <1>1, <1>2, <1>3
<1> QED BY <1>4

-----------------------------------------------------------------------------
(* The processes. *)

Begins(p) ==
    /\ pc[p] = "off" /\ pc' = [pc EXCEPT ![p] = "auth_exists"]
    /\ \E s \in Seeds[p] : seed' = [seed EXCEPT ![p] = s]
    /\ records' = records

Decides(p) ==
    /\ pc[p] = "seed_read" /\ pc' = [pc EXCEPT ![p] = "seed_put"] /\ seed' = seed
    /\ \/ records[seed[p].key] = NoRecord
       \/ records[seed[p].key].secret # seed[p].secret
    /\ records' = records

Continues(p) ==
    /\ pc[p] # "off" /\ seed' = seed
    /\ \E l \in Labels \ {"seed_put"} : pc' = [pc EXCEPT ![p] = l]
    /\ records' = records \/ (pc[p] = "seed_put" /\ Put(p))

\* All that the steps of a process come to.
LEMMA StartUpShape ==
    ASSUME KeyInv, NEW p \in Processes, SetUp(p) \/ SetUpFails(p)
    PROVE  /\ call' = call /\ auth' \in BOOLEAN /\ docs' \in BOOLEAN
           /\ events' \in 0 .. MaxEvents
           /\ Begins(p) \/ Decides(p) \/ Continues(p)
<1>T. /\ auth \in BOOLEAN /\ docs \in BOOLEAN /\ events \in 0 .. MaxEvents
      /\ MaxEvents \in Nat
    BY ProcessesAssumption DEF KeyInv, KeyTypeOK
<1>E. Ended(p) \in Labels \ {"seed_put"} /\ Seeded(p) \in Labels \ {"seed_put"}
    BY DEF Ended, Seeded, Labels
<1>1. CASE Start(p) BY <1>1, <1>T DEF Start, Goto, Begins
<1>2. CASE AuthExists(p) BY <1>2, <1>T DEF AuthExists, Goto, Continues, Labels
<1>3. CASE AuthCreate(p) BY <1>3, <1>T, <1>E DEF AuthCreate, Goto, Continues, Labels
<1>4. CASE SeedRead(p)
    <2>1. CASE records[seed[p].key] # NoRecord /\ records[seed[p].key].secret = seed[p].secret
        BY <1>4, <2>1, <1>T, <1>E DEF SeedRead, Goto, Continues
    <2>2. CASE ~ (records[seed[p].key] # NoRecord /\ records[seed[p].key].secret = seed[p].secret)
        BY <1>4, <2>2, <1>T DEF SeedRead, Goto, Decides
    <2> QED BY <2>1, <2>2
<1>5. CASE SeedPut(p) BY <1>5, <1>T, <1>E DEF SeedPut, Goto, Continues
<1>6. CASE DocsExists(p) BY <1>6, <1>T DEF DocsExists, Goto, Continues, Labels
<1>7. CASE DocsCreate(p) BY <1>7, <1>T DEF DocsCreate, Goto, Continues, Labels
<1>8. CASE DocsRecheck(p) BY <1>8, <1>T, <1>E DEF DocsRecheck, Goto, Continues, Labels
<1>9. CASE SetUpFails(p)
    <2>1. /\ pc[p] # "off" /\ seed' = seed /\ call' = call
          /\ records' = records \/ (pc[p] = "seed_put" /\ Put(p))
        BY <1>9 DEF SetUpFails, Calling
    <2>2. auth' \in BOOLEAN /\ docs' \in BOOLEAN /\ events' \in 0 .. MaxEvents
        <3>1. auth' \in {auth, auth \/ pc[p] = "auth_create"}
              /\ docs' \in {docs, docs \/ pc[p] = "docs_create"}
            BY <1>9 DEF SetUpFails
        <3>2. events' \in 0 .. MaxEvents BY <1>9, <1>T DEF SetUpFails, Counted
        <3>3. (auth \/ pc[p] = "auth_create") \in BOOLEAN
              /\ (docs \/ pc[p] = "docs_create") \in BOOLEAN
            OBVIOUS
        <3> QED BY <3>1, <3>2, <3>3, <1>T
    <2> DEFINE l == IF pc[p] = "docs_create" THEN "docs_recheck" ELSE Ended(p)
    <2>3. l \in Labels \ {"seed_put"} BY <1>E DEF Labels
    <2>4. pc' = [pc EXCEPT ![p] = l] BY <1>9 DEF SetUpFails, Goto
    <2> QED BY <2>1, <2>2, <2>3, <2>4 DEF Continues
<1> QED BY <1>1, <1>2, <1>3, <1>4, <1>5, <1>6, <1>7, <1>8, <1>9 DEF SetUp

\* What a seeding puts is a record.
LEMMA PutRecord ==
    ASSUME KeyInv, NEW p \in Processes, pc[p] # "off", Put(p)
    PROVE  /\ seed[p].key \in Keys /\ seed[p].secret \in Secrets
           /\ \E rec \in Record :
                 /\ records' = [records EXCEPT ![seed[p].key] = rec]
                 /\ rec.secret = seed[p].secret /\ rec.enabled = TRUE /\ rec.expired = FALSE
<1> DEFINE rec == [secret |-> seed[p].secret, grant |-> seed[p].grant,
                   enabled |-> TRUE, expired |-> FALSE]
<1>1. seed[p] \in Seeding BY ProcessesAssumption DEF KeyInv, SeedsOK
<1>2. seed[p].key \in Keys /\ seed[p].secret \in Secrets /\ seed[p].grant \in Grants
    BY <1>1 DEF Seeding
<1>3. rec \in Record BY <1>2 DEF Record
<1>4. records' = [records EXCEPT ![seed[p].key] = rec] BY DEF Put
<1>5. rec.secret = seed[p].secret /\ rec.enabled = TRUE /\ rec.expired = FALSE OBVIOUS
<1> QED BY <1>2, <1>3, <1>4, <1>5

\* A step of a process keeps the invariant.
LEMMA StartUpKeeps ==
    ASSUME KeyInv, NEW p \in Processes, SetUp(p) \/ SetUpFails(p)
    PROVE  KeyInv'
<1>1. /\ call' = call /\ auth' \in BOOLEAN /\ docs' \in BOOLEAN
      /\ events' \in 0 .. MaxEvents
      /\ Begins(p) \/ Decides(p) \/ Continues(p)
    BY StartUpShape
<1>T. /\ pc \in [Processes -> Labels]
      /\ seed \in [Processes -> Seeding \cup {NoRecord}]
      /\ records \in [Keys -> Record \cup {NoRecord}]
    BY DEF KeyInv, KeyTypeOK
<1>S. /\ \A q \in Processes : pc[q] # "off" => seed[q] \in Seeds[q]
      /\ \A q \in Processes : Seeds[q] \subseteq Seeding
    BY ProcessesAssumption DEF KeyInv, SeedsOK
<1>C. CallsOK' BY <1>1 DEF KeyInv, CallsOK
<1>2. CASE Begins(p)
    <2>1. PICK s \in Seeds[p] : seed' = [seed EXCEPT ![p] = s] BY <1>2 DEF Begins
    <2>2. pc' = [pc EXCEPT ![p] = "auth_exists"] /\ records' = records BY <1>2 DEF Begins
    <2>3. s \in Seeding BY <1>S
    <2>4. pc' \in [Processes -> Labels] BY <2>2, <1>T DEF Labels
    <2>5. seed' \in [Processes -> Seeding \cup {NoRecord}] BY <2>1, <2>3, <1>T
    <2>6. KeyTypeOK' BY <1>1, <1>T, <2>2, <2>4, <2>5 DEF KeyInv, KeyTypeOK
    <2>7. SeedsOK' BY <2>1, <2>2, <1>T DEF KeyInv, SeedsOK
    <2> QED BY <2>6, <2>7, <1>C DEF KeyInv
<1>3. CASE Decides(p)
    <2>1. pc' = [pc EXCEPT ![p] = "seed_put"] /\ seed' = seed /\ records' = records
        BY <1>3 DEF Decides
    <2>2. pc' \in [Processes -> Labels] BY <2>1, <1>T DEF Labels
    <2>3. KeyTypeOK' BY <1>1, <1>T, <2>1, <2>2 DEF KeyInv, KeyTypeOK
    <2>4. SeedsOK' BY <1>3, <2>1, <1>T DEF KeyInv, SeedsOK, Decides
    <2> QED BY <2>3, <2>4, <1>C DEF KeyInv
<1>4. CASE Continues(p)
    <2>1. PICK l \in Labels \ {"seed_put"} : pc' = [pc EXCEPT ![p] = l]
        BY <1>4 DEF Continues
    <2>2. seed' = seed /\ pc[p] # "off" BY <1>4 DEF Continues
    <2>3. pc' \in [Processes -> Labels] BY <2>1, <1>T
    <2>4. CASE records' = records
        <3>1. KeyTypeOK' BY <1>1, <1>T, <2>2, <2>3, <2>4 DEF KeyInv, KeyTypeOK
        <3>2. SeedsOK' BY <2>1, <2>2, <2>4, <1>T DEF KeyInv, SeedsOK
        <3> QED BY <3>1, <3>2, <1>C DEF KeyInv
    <2>5. CASE pc[p] = "seed_put" /\ Put(p)
        <3>1. seed[p].key \in Keys BY <2>2, <2>5, PutRecord
        <3>2. PICK rec \in Record :
                 records' = [records EXCEPT ![seed[p].key] = rec] /\ rec.secret = seed[p].secret
            BY <2>2, <2>5, PutRecord
        <3>3. records' \in [Keys -> Record \cup {NoRecord}] BY <3>2, <1>T
        <3>4. KeyTypeOK' BY <1>1, <1>T, <2>2, <2>3, <3>3 DEF KeyInv, KeyTypeOK
        <3>5. ASSUME NEW q \in Processes, pc'[q] = "seed_put"
              PROVE  \/ records'[seed[q].key] = NoRecord
                     \/ records'[seed[q].key].secret # seed[q].secret
            <4>1. q # p /\ pc[q] = "seed_put" BY <3>5, <2>1, <1>T
            <4>2. seed[q] \in Seeds[q] /\ seed[p] \in Seeds[p] BY <4>1, <2>2, <1>S
            <4>3. CASE seed[q].key = seed[p].key
                <5>1. seed[p].secret # seed[q].secret
                    BY <4>1, <4>2, <4>3, ProcessesAssumption
                <5>2. records'[seed[q].key] = rec BY <3>1, <3>2, <4>3, <1>T
                <5> QED BY <5>1, <5>2, <3>2
            <4>4. CASE seed[q].key # seed[p].key
                <5>1. records'[seed[q].key] = records[seed[q].key]
                    <6>1. seed[q] \in Seeding BY <4>2, <1>S
                    <6>2. seed[q].key \in Keys BY <6>1 DEF Seeding
                    <6> QED BY <6>2, <3>2, <4>4, <1>T
                <5> QED BY <5>1, <4>1 DEF KeyInv, SeedsOK
            <4> QED BY <4>3, <4>4
        <3>6. \A q \in Processes : pc'[q] # "off" => seed'[q] \in Seeds[q]
            BY <2>1, <2>2, <1>S, <1>T
        <3>7. SeedsOK' BY <3>5, <3>6, <2>2 DEF SeedsOK
        <3> QED BY <3>4, <3>7, <1>C DEF KeyInv
    <2> QED BY <1>4, <2>4, <2>5 DEF Continues
<1> QED BY <1>1, <1>2, <1>3, <1>4

\* So does the operator who withdraws a key.
LEMMA WithdrawalKeeps ==
    ASSUME KeyInv, NEW k \in Keys, Disable(k) \/ Expire(k)
    PROVE  /\ KeyInv' /\ call' = call /\ records[k] # NoRecord
           /\ \/ records' = [records EXCEPT ![k].enabled = FALSE]
              \/ records' = [records EXCEPT ![k].expired = TRUE]
<1>1. /\ records[k] # NoRecord /\ events' \in 0 .. MaxEvents
      /\ UNCHANGED <<pc, seed, auth, docs, call>>
      /\ \/ records' = [records EXCEPT ![k].enabled = FALSE]
         \/ records' = [records EXCEPT ![k].expired = TRUE]
    BY ProcessesAssumption DEF Disable, Expire, Counted, KeyInv, KeyTypeOK
<1>2. /\ records \in [Keys -> Record \cup {NoRecord}] /\ records[k] \in Record
    BY <1>1 DEF KeyInv, KeyTypeOK
<1>3. PICK rec \in Record : records' = [records EXCEPT ![k] = rec] /\ rec.secret = records[k].secret
    <2>1. [records[k] EXCEPT !.enabled = FALSE] \in Record BY <1>2 DEF Record
    <2>2. [records[k] EXCEPT !.expired = TRUE] \in Record BY <1>2 DEF Record
    <2>3. [records[k] EXCEPT !.enabled = FALSE].secret = records[k].secret
          /\ [records[k] EXCEPT !.expired = TRUE].secret = records[k].secret
        BY <1>2 DEF Record
    <2> QED BY <2>1, <2>2, <2>3, <1>1
<1>4. rec # NoRecord BY RecordAssumption
<1>5. records' \in [Keys -> Record \cup {NoRecord}] BY <1>2, <1>3
<1>6. KeyTypeOK' BY <1>1, <1>5 DEF KeyInv, KeyTypeOK
<1>7. CallsOK' BY <1>1 DEF KeyInv, CallsOK
<1>8. SeedsOK'
    <2>1. \A key \in Keys : key # k => records'[key] = records[key] BY <1>2, <1>3
    <2>2. records'[k] = rec BY <1>2, <1>3
    <2>3. \A q \in Processes : pc[q] # "off" => seed[q].key \in Keys
        <3> TAKE q \in Processes
        <3> HAVE pc[q] # "off"
        <3>1. seed[q] \in Seeding BY ProcessesAssumption DEF KeyInv, SeedsOK
        <3> QED BY <3>1 DEF Seeding
    <2> QED BY <1>1, <1>3, <2>1, <2>2, <2>3 DEF KeyInv, SeedsOK
<1> QED BY <1>1, <1>6, <1>7, <1>8 DEF KeyInv

-----------------------------------------------------------------------------
(* The requests. *)

Phases == {"none", "presented", "verifying", "accepted", "refused", "dropped"}
Calls == [phase : Phases, token : Tokens, record : Record \cup {NoRecord}]

\* What the steps of a request come to.
Asked(r) ==
    /\ call[r].phase = "none"
    /\ \E t \in Tokens :
         call' = [call EXCEPT ![r] = [phase |-> "presented", token |-> t, record |-> NoRecord]]

Moves(r, phase) == call' = [call EXCEPT ![r] = [call[r] EXCEPT !.phase = phase]]

Reads(r, rec) ==
    /\ rec \in Record
    /\ call' = [call EXCEPT ![r] = [call[r] EXCEPT !.phase = "verifying", !.record = rec]]

\* A request's steps touch its call alone.
LEMMA RequestShape ==
    ASSUME KeyInv, NEW r \in Requests, Present(r) \/ Authenticate(r)
    PROVE  /\ UNCHANGED <<pc, seed, auth, docs, records>> /\ events' \in 0 .. MaxEvents
           /\ \/ Asked(r)
              \/ /\ call[r].phase = "presented"
                 /\ \/ Moves(r, "dropped")
                    \/ call[r].token = <<>> /\ Moves(r, "refused")
                    \/ /\ call[r].token # <<>>
                       /\ LET key == SplitToken(call[r].token).key
                          IN  IF key \in Keys /\ InForce(records[key])
                              THEN Reads(r, records[key])
                              ELSE Moves(r, "refused")
              \/ /\ call[r].phase = "verifying"
                 /\ IF Matches(r) THEN Moves(r, "accepted") ELSE Moves(r, "refused")
<1>T. /\ call \in [Requests -> Calls] /\ events \in 0 .. MaxEvents /\ MaxEvents \in Nat
      /\ records \in [Keys -> Record \cup {NoRecord}]
    BY ProcessesAssumption DEF KeyInv, KeyTypeOK, Calls, Phases
<1>1. CASE Present(r)
    <2>1. Known \subseteq Tokens BY KnownTokens
    <2> QED BY <1>1, <1>T, <2>1 DEF Present, Asked
<1>2. CASE NoCredentials(r)
    BY <1>2, <1>T DEF NoCredentials, Refused, Moves
<1>3. CASE ReadRecord(r)
    <2> DEFINE key == SplitToken(call[r].token).key
    <2>1. CASE key \in Keys /\ InForce(records[key])
        <3>1. records[key] \in Record BY <2>1, <1>T DEF InForce
        <3>2. call' = [call EXCEPT ![r].phase = "verifying", ![r].record = records[key]]
            BY <1>3, <2>1 DEF ReadRecord
        <3>3. Reads(r, records[key]) BY <3>1, <3>2, <1>T DEF Reads
        <3> QED BY <1>3, <2>1, <3>3, <1>T DEF ReadRecord
    <2>2. CASE ~ (key \in Keys /\ InForce(records[key]))
        BY <1>3, <2>2, <1>T DEF ReadRecord, Refused, Moves
    <2> QED BY <2>1, <2>2
<1>4. CASE ReadFails(r)
    BY <1>4, <1>T DEF ReadFails, Counted, Moves
<1>5. CASE VerifySecret(r)
    BY <1>5, <1>T DEF VerifySecret, Refused, Moves
<1> QED BY <1>1, <1>2, <1>3, <1>4, <1>5 DEF Authenticate

\* A request's step keeps the invariant.
LEMMA RequestKeeps ==
    ASSUME KeyInv, NEW r \in Requests, Present(r) \/ Authenticate(r)
    PROVE  KeyInv'
<1>1. /\ UNCHANGED <<pc, seed, auth, docs, records>> /\ events' \in 0 .. MaxEvents
      /\ \/ Asked(r)
         \/ \E phase \in {"dropped", "refused"} : Moves(r, phase)
         \/ call[r].phase = "verifying" /\ Moves(r, "accepted")
         \/ \E rec \in Record : Reads(r, rec)
    BY RequestShape DEF Reads
<1>T. call \in [Requests -> Calls] BY DEF KeyInv, KeyTypeOK, Calls, Phases
<1>2. PICK c \in Calls :
         /\ call' = [call EXCEPT ![r] = c]
         /\ c.phase \in {"verifying", "accepted"} => c.record \in Record
    <2>1. CASE Asked(r)
        <3>1. PICK t \in Tokens :
                 call' = [call EXCEPT ![r] = [phase |-> "presented", token |-> t, record |-> NoRecord]]
            BY <2>1 DEF Asked
        <3>2. [phase |-> "presented", token |-> t, record |-> NoRecord] \in Calls
            BY DEF Calls, Phases
        <3> QED BY <3>1, <3>2
    <2>2. ASSUME NEW phase \in {"dropped", "refused", "accepted"}, Moves(r, phase),
                 phase = "accepted" => call[r].phase = "verifying"
          PROVE  \E c \in Calls :
                    /\ call' = [call EXCEPT ![r] = c]
                    /\ c.phase \in {"verifying", "accepted"} => c.record \in Record
        <3> DEFINE c == [call[r] EXCEPT !.phase = phase]
        <3>1. c \in Calls BY <1>T DEF Calls, Phases
        <3>2. c.phase = phase /\ c.record = call[r].record BY <1>T DEF Calls
        <3>3. phase = "accepted" => call[r].record \in Record
            BY <2>2 DEF KeyInv, CallsOK
        <3>4. call' = [call EXCEPT ![r] = c] BY <2>2 DEF Moves
        <3>5. c.phase \in {"verifying", "accepted"} => c.record \in Record
            BY <2>2, <3>2, <3>3
        <3> QED BY <3>1, <3>4, <3>5
    <2>3. ASSUME NEW rec \in Record, Reads(r, rec)
          PROVE  \E c \in Calls :
                    /\ call' = [call EXCEPT ![r] = c]
                    /\ c.phase \in {"verifying", "accepted"} => c.record \in Record
        <3> DEFINE c == [call[r] EXCEPT !.phase = "verifying", !.record = rec]
        <3>1. c \in Calls BY <1>T DEF Calls, Phases
        <3>2. c.record = rec BY <1>T DEF Calls
        <3> QED BY <2>3, <3>1, <3>2 DEF Reads
    <2> QED BY <1>1, <2>1, <2>2, <2>3
<1>3. call' \in [Requests -> Calls] BY <1>2, <1>T
<1>4. KeyTypeOK' BY <1>1, <1>3 DEF KeyInv, KeyTypeOK, Calls, Phases
<1>5. SeedsOK' BY <1>1 DEF KeyInv, SeedsOK
<1>6. CallsOK' BY <1>2, <1>T DEF KeyInv, CallsOK
<1> QED BY <1>4, <1>5, <1>6 DEF KeyInv

\* The death of the API drops the calls under way.
LEMMA KillKeeps == ASSUME KeyInv, Kill PROVE KeyInv'
<1>T. call \in [Requests -> Calls] /\ pc \in [Processes -> Labels]
    BY DEF KeyInv, KeyTypeOK, Calls, Phases
<1>1. \A r \in Requests : call'[r] \in {call[r], [call[r] EXCEPT !.phase = "dropped"]}
    BY DEF Kill
<1>2. ASSUME NEW r \in Requests
      PROVE  /\ call'[r] \in Calls
             /\ call'[r].phase \in {"verifying", "accepted"} => call'[r].record \in Record
    <2>1. CASE call'[r] = call[r] BY <2>1, <1>T DEF KeyInv, CallsOK
    <2>2. CASE call'[r] = [call[r] EXCEPT !.phase = "dropped"]
        <3>1. call'[r] \in Calls BY <2>2, <1>T DEF Calls, Phases
        <3>2. call'[r].phase = "dropped" BY <2>2, <1>T DEF Calls
        <3> QED BY <3>1, <3>2
    <2> QED BY <1>1, <2>1, <2>2
<1>3. call' \in [Requests -> Calls]
    <2>1. DOMAIN call' = Requests /\ call' = [r \in Requests |-> call'[r]] BY DEF Kill
    <2> QED BY <2>1, <1>2
<1>4. /\ UNCHANGED <<seed, auth, docs, records>> /\ pc' = [pc EXCEPT ![Api] = "off"]
      /\ events' \in 0 .. MaxEvents
    BY ProcessesAssumption DEF Kill, Goto, Counted, KeyInv, KeyTypeOK
<1>5. pc' \in [Processes -> Labels] BY <1>4, <1>T DEF Labels
<1>6. KeyTypeOK' BY <1>3, <1>4, <1>5 DEF KeyInv, KeyTypeOK, Calls, Phases
<1>7. SeedsOK' BY <1>4, <1>T DEF KeyInv, SeedsOK
<1> QED BY <1>2, <1>6, <1>7 DEF KeyInv, CallsOK

-----------------------------------------------------------------------------
(* The refinement. *)

\* What the mapping makes of one call.
VerdictOf(c) ==
    CASE c.phase = "presented" -> "pending"
      [] c.phase = "verifying" -> IF c.record.secret = SplitToken(c.token).secret
                                  THEN c.record.grant ELSE "refused"
      [] c.phase = "accepted"  -> c.record.grant
      [] OTHER                 -> c.phase

MappedTokens == [r \in Requests |-> call[r].token]
MappedVerdicts == [r \in Requests |-> Verdict(r)]

AccessVars == <<records, MappedTokens, MappedVerdicts>>

\* The mapping goes call by call.
LEMMA CallByCall ==
    /\ MappedTokens = [r \in Requests |-> call[r].token]
    /\ MappedTokens' = [r \in Requests |-> call'[r].token]
    /\ MappedVerdicts = [r \in Requests |-> VerdictOf(call[r])]
    /\ MappedVerdicts' = [r \in Requests |-> VerdictOf(call'[r])]
<1>1. \A r : Verdict(r) = VerdictOf(call[r]) BY DEF Verdict, VerdictOf, Matches
<1>2. \A r : Verdict(r)' = VerdictOf(call'[r]) BY DEF Verdict, VerdictOf, Matches, SplitToken
<1> QED BY <1>1, <1>2 DEF MappedTokens, MappedVerdicts

\* A request arrives.
LEMMA ArrivesAt ==
    ASSUME NEW r \in Requests, NEW t \in Tokens, MappedVerdicts[r] = "none",
           MappedTokens' = [MappedTokens EXCEPT ![r] = t],
           MappedVerdicts' = [MappedVerdicts EXCEPT ![r] = "pending"],
           records' = records
    PROVE  AC!AccessNext
<1>1. AC!Arrive(r) BY DEF AC!Arrive, MappedTokens, MappedVerdicts
<1> QED BY <1>1 DEF AC!AccessNext

\* A request is decided.
LEMMA DecidedAs ==
    ASSUME NEW r \in Requests, MappedVerdicts[r] = "pending", NEW v,
           MappedTokens' = MappedTokens,
           MappedVerdicts' = [MappedVerdicts EXCEPT ![r] = v],
           records' = records,
           \/ AC!Entitled(MappedTokens[r]) = {} /\ v = "refused"
           \/ \E k \in AC!Entitled(MappedTokens[r]) : v = records[k].grant
    PROVE  AC!AccessNext
<1>1. AC!Decide(r) BY DEF AC!Decide, MappedTokens, MappedVerdicts
<1> QED BY <1>1 DEF AC!AccessNext

\* Requests end without a decision.
LEMMA DroppedAre ==
    ASSUME NEW ended \in SUBSET {r \in Requests : MappedVerdicts[r] # "none"},
           MappedTokens' = MappedTokens,
           MappedVerdicts' = [r \in Requests |-> IF r \in ended THEN "dropped" ELSE MappedVerdicts[r]],
           records' = records
    PROVE  AC!AccessNext
<1>1. AC!Drop BY DEF AC!Drop, MappedTokens, MappedVerdicts
<1> QED BY <1>1 DEF AC!AccessNext

\* A key gets a new secret, or loses its force.
LEMMA RotatedOrWithdrawn ==
    ASSUME NEW k \in Keys, MappedTokens' = MappedTokens, MappedVerdicts' = MappedVerdicts,
           \/ /\ records[k] = NoRecord \/ records[k].secret # records'[k].secret
              /\ \E rec \in Record : /\ records' = [records EXCEPT ![k] = rec]
                                     /\ rec # NoRecord /\ rec.enabled = TRUE /\ rec.expired = FALSE
                                     /\ rec.secret = records'[k].secret
           \/ /\ records[k] # NoRecord
              /\ \/ records' = [records EXCEPT ![k].enabled = FALSE]
                 \/ records' = [records EXCEPT ![k].expired = TRUE]
    PROVE  AC!AccessNext
<1>1. AC!Record = Record BY DEF AC!Record, Record
<1>2. AC!Rotate(k) \/ AC!Withdraw(k)
    BY <1>1 DEF AC!Rotate, AC!Withdraw, AC!InForce, MappedTokens, MappedVerdicts
<1> QED BY <1>2 DEF AC!AccessNext

AccessStep == AC!AccessNext \/ UNCHANGED AccessVars

\* Where no call changes, neither do the mapped ones.
LEMMA SameCalls ==
    ASSUME call' = call
    PROVE  MappedTokens' = MappedTokens /\ MappedVerdicts' = MappedVerdicts
BY CallByCall

\* Where one does, the others do not.
LEMMA OneCall ==
    ASSUME NEW r \in Requests, NEW c, KeyInv, call' = [call EXCEPT ![r] = c]
    PROVE  /\ MappedTokens' = [MappedTokens EXCEPT ![r] = c.token]
           /\ MappedVerdicts' = [MappedVerdicts EXCEPT ![r] = VerdictOf(c)]
           /\ MappedTokens[r] = call[r].token /\ MappedVerdicts[r] = VerdictOf(call[r])
           /\ c.token = call[r].token => MappedTokens' = MappedTokens
           /\ VerdictOf(c) = VerdictOf(call[r]) => MappedVerdicts' = MappedVerdicts
<1>1. DOMAIN call = Requests BY DEF KeyInv, KeyTypeOK
<1>2. call'[r] = c /\ \A q \in Requests : q # r => call'[q] = call[q] BY <1>1
<1>3. MappedTokens[r] = call[r].token /\ MappedVerdicts[r] = VerdictOf(call[r])
    BY CallByCall
<1>4. MappedTokens' = [MappedTokens EXCEPT ![r] = c.token]
    <2>1. MappedTokens'[r] = c.token
          /\ \A q \in Requests : q # r => MappedTokens'[q] = MappedTokens[q]
        BY <1>2, CallByCall
    <2> QED BY <2>1 DEF MappedTokens
<1>5. MappedVerdicts' = [MappedVerdicts EXCEPT ![r] = VerdictOf(c)]
    <2>1. MappedVerdicts'[r] = VerdictOf(c)
          /\ \A q \in Requests : q # r => MappedVerdicts'[q] = MappedVerdicts[q]
        BY <1>2, CallByCall
    <2> QED BY <2>1 DEF MappedVerdicts
<1>6. c.token = call[r].token => MappedTokens' = MappedTokens
    BY <1>3, <1>4 DEF MappedTokens
<1>7. VerdictOf(c) = VerdictOf(call[r]) => MappedVerdicts' = MappedVerdicts
    BY <1>3, <1>5 DEF MappedVerdicts
<1> QED BY <1>3, <1>4, <1>5, <1>6, <1>7

\* The steps of the processes.
LEMMA StartUpRefines ==
    ASSUME KeyInv, NEW p \in Processes, SetUp(p) \/ SetUpFails(p)
    PROVE  AccessStep
<1>1. call' = call /\ (Begins(p) \/ Decides(p) \/ Continues(p)) BY StartUpShape
<1>2. MappedTokens' = MappedTokens /\ MappedVerdicts' = MappedVerdicts BY <1>1, SameCalls
<1>3. CASE records' = records BY <1>2, <1>3 DEF AccessStep, AccessVars
<1>4. CASE records' # records
    <2> DEFINE k == seed[p].key
    <2>1. pc[p] # "off" /\ pc[p] = "seed_put" /\ Put(p)
        BY <1>1, <1>4 DEF Begins, Decides, Continues
    <2>2. k \in Keys BY <2>1, PutRecord
    <2>3. PICK rec \in Record :
             /\ records' = [records EXCEPT ![k] = rec]
             /\ rec.secret = seed[p].secret /\ rec.enabled = TRUE /\ rec.expired = FALSE
        BY <2>1, PutRecord
    <2>4. records'[k] = rec BY <2>2, <2>3 DEF KeyInv, KeyTypeOK
    <2>5. records[k] = NoRecord \/ records[k].secret # rec.secret
        BY <2>1, <2>3 DEF KeyInv, SeedsOK
    <2>6. rec # NoRecord BY RecordAssumption
    <2>7. AC!AccessNext BY <2>2, <2>3, <2>4, <2>5, <2>6, <1>2, RotatedOrWithdrawn
    <2> QED BY <2>7 DEF AccessStep
<1> QED BY <1>3, <1>4

\* The operator's.
LEMMA WithdrawalRefines ==
    ASSUME KeyInv, NEW k \in Keys, Disable(k) \/ Expire(k)
    PROVE  AccessStep
<1>1. /\ call' = call /\ records[k] # NoRecord
      /\ \/ records' = [records EXCEPT ![k].enabled = FALSE]
         \/ records' = [records EXCEPT ![k].expired = TRUE]
    BY WithdrawalKeeps
<1>2. MappedTokens' = MappedTokens /\ MappedVerdicts' = MappedVerdicts BY <1>1, SameCalls
<1>3. AC!AccessNext BY <1>1, <1>2, RotatedOrWithdrawn
<1> QED BY <1>3 DEF AccessStep

\* The keys that entitle a token are at most the one it names.
LEMMA EntitledKey ==
    ASSUME KeyInv, NEW t \in Tokens
    PROVE  AC!Entitled(t) =
             {k \in Keys : /\ InForce(records[k]) /\ t # <<>>
                           /\ SplitToken(t).key = k /\ SplitToken(t).secret = records[k].secret}
<1>1. \A rec : AC!InForce(rec) <=> InForce(rec) BY DEF AC!InForce, InForce
<1>2. ASSUME NEW k \in Keys, InForce(records[k])
      PROVE  t \in AC!TokensFor(k, records[k].secret)
               <=> /\ t # <<>> /\ SplitToken(t).key = k
                   /\ SplitToken(t).secret = records[k].secret
    <2>1. records[k] \in Record BY <1>2 DEF KeyInv, KeyTypeOK, InForce
    <2>2. records[k].secret \in Secrets BY <2>1 DEF Record
    <2> QED BY <2>2, SplitWhole
<1> QED BY <1>1, <1>2 DEF AC!Entitled

\* A request's.
LEMMA RequestRefines ==
    ASSUME KeyInv, NEW r \in Requests, Present(r) \/ Authenticate(r)
    PROVE  AccessStep
<1> DEFINE t == call[r].token
           key == SplitToken(t).key
<1>T. /\ call[r] \in Calls /\ t \in Tokens
      /\ records \in [Keys -> Record \cup {NoRecord}]
    BY DEF KeyInv, KeyTypeOK, Calls, Phases
<1>R. records' = records BY RequestShape
<1>D. ASSUME NEW phase \in Phases, Moves(r, phase)
      PROVE  LET c == [call[r] EXCEPT !.phase = phase]
             IN  /\ call' = [call EXCEPT ![r] = c]
                 /\ c.phase = phase /\ c.token = t /\ c.record = call[r].record
    BY <1>D, <1>T DEF Moves, Calls
<1>U. ASSUME NEW phase \in {"refused", "dropped"}, Moves(r, phase)
      PROVE  /\ MappedTokens' = MappedTokens
             /\ MappedVerdicts' = [MappedVerdicts EXCEPT ![r] = phase]
    <2> DEFINE c == [call[r] EXCEPT !.phase = phase]
    <2>1. call' = [call EXCEPT ![r] = c] /\ c.phase = phase /\ c.token = t
        BY <1>U, <1>D DEF Phases
    <2>2. VerdictOf(c) = phase BY <2>1 DEF VerdictOf
    <2> HIDE DEF c
    <2>3. /\ MappedVerdicts' = [MappedVerdicts EXCEPT ![r] = VerdictOf(c)]
          /\ c.token = t => MappedTokens' = MappedTokens
        BY <2>1, OneCall
    <2> QED BY <2>1, <2>2, <2>3
<1>P. ASSUME call[r].phase = "presented"
      PROVE  MappedVerdicts[r] = "pending" /\ MappedTokens[r] = t
    BY <1>P, CallByCall DEF VerdictOf
<1>1. CASE Asked(r)
    <2>1. PICK u \in Tokens :
             call' = [call EXCEPT ![r] = [phase |-> "presented", token |-> u, record |-> NoRecord]]
        BY <1>1 DEF Asked
    <2> DEFINE c == [phase |-> "presented", token |-> u, record |-> NoRecord]
    <2>2. VerdictOf(c) = "pending" /\ c.token = u BY DEF VerdictOf
    <2>3. MappedVerdicts[r] = "none"
        BY <1>1, CallByCall DEF Asked, VerdictOf
    <2>4. call' = [call EXCEPT ![r] = c] BY <2>1
    <2> HIDE DEF c
    <2>5. /\ MappedTokens' = [MappedTokens EXCEPT ![r] = c.token]
          /\ MappedVerdicts' = [MappedVerdicts EXCEPT ![r] = VerdictOf(c)]
        BY <2>4, OneCall
    <2>6. /\ MappedTokens' = [MappedTokens EXCEPT ![r] = u]
          /\ MappedVerdicts' = [MappedVerdicts EXCEPT ![r] = "pending"]
        BY <2>2, <2>5
    <2> QED BY <2>3, <2>6, <1>R, ArrivesAt DEF AccessStep
<1>2. CASE call[r].phase = "presented" /\ Moves(r, "dropped")
    <2>1. /\ MappedTokens' = MappedTokens
          /\ MappedVerdicts' = [MappedVerdicts EXCEPT ![r] = "dropped"]
        BY <1>2, <1>U
    <2>2. {r} \in SUBSET {q \in Requests : MappedVerdicts[q] # "none"} BY <1>2, <1>P
    <2>3. DOMAIN MappedVerdicts = Requests BY DEF MappedVerdicts
    <2>4. MappedVerdicts' =
            [q \in Requests |-> IF q \in {r} THEN "dropped" ELSE MappedVerdicts[q]]
        BY <2>1, <2>3
    <2> QED BY <2>1, <2>2, <2>4, <1>R, DroppedAre DEF AccessStep
<1>3. CASE /\ call[r].phase = "presented" /\ Moves(r, "refused")
           /\ t = <<>> \/ ~ (key \in Keys /\ InForce(records[key]))
    <2>1. AC!Entitled(t) = {} BY <1>3, <1>T, EntitledKey
    <2> QED BY <2>1, <1>3, <1>P, <1>U, <1>R, DecidedAs DEF AccessStep
<1>4. CASE /\ call[r].phase = "presented" /\ t # <<>>
           /\ key \in Keys /\ InForce(records[key]) /\ Reads(r, records[key])
    <2> DEFINE rec == records[key]
               c == [call[r] EXCEPT !.phase = "verifying", !.record = rec]
               v == IF rec.secret = SplitToken(t).secret THEN rec.grant ELSE "refused"
    <2>1. call' = [call EXCEPT ![r] = c] BY <1>4 DEF Reads
    <2>2. c.phase = "verifying" /\ c.token = t /\ c.record = rec BY <1>T DEF Calls
    <2>3. VerdictOf(c) = v BY <2>2 DEF VerdictOf
    <2>4. \/ AC!Entitled(t) = {} /\ v = "refused"
          \/ \E k \in AC!Entitled(t) : v = records[k].grant
        BY <1>4, <1>T, EntitledKey
    <2> HIDE DEF c, v
    <2>5. MappedTokens' = MappedTokens /\ MappedVerdicts' = [MappedVerdicts EXCEPT ![r] = v]
        BY <2>1, <2>2, <2>3, OneCall
    <2> QED BY <2>4, <2>5, <1>4, <1>P, <1>R, DecidedAs DEF AccessStep
<1>5. CASE /\ call[r].phase = "verifying"
           /\ IF Matches(r) THEN Moves(r, "accepted") ELSE Moves(r, "refused")
    <2> DEFINE phase == IF Matches(r) THEN "accepted" ELSE "refused"
               c == [call[r] EXCEPT !.phase = phase]
    <2>1. phase \in Phases /\ Moves(r, phase) BY <1>5 DEF Phases
    <2>2. /\ call' = [call EXCEPT ![r] = c] /\ c.phase = phase /\ c.token = t
          /\ c.record = call[r].record
        BY <2>1, <1>D
    <2>3. VerdictOf(c) = VerdictOf(call[r]) BY <2>2, <1>5 DEF VerdictOf, Matches
    <2> HIDE DEF c
    <2>4. MappedTokens' = MappedTokens /\ MappedVerdicts' = MappedVerdicts
        BY <2>2, <2>3, OneCall
    <2> QED BY <2>4, <1>R DEF AccessStep, AccessVars
<1> QED BY <1>1, <1>2, <1>3, <1>4, <1>5, RequestShape

\* The death of the API.
LEMMA KillRefines == ASSUME KeyInv, Kill PROVE AccessStep
<1> DEFINE ended == {r \in Requests : call[r].phase \in {"presented", "verifying"}}
<1>T. \A r \in Requests : call[r] \in Calls BY DEF KeyInv, KeyTypeOK, Calls, Phases
<1>1. \A r \in Requests :
          call'[r] = IF r \in ended THEN [call[r] EXCEPT !.phase = "dropped"] ELSE call[r]
    BY DEF Kill
<1>2. records' = records BY DEF Kill
<1>3. \A r \in Requests : call'[r].token = call[r].token BY <1>1, <1>T DEF Calls
<1>4. MappedTokens' = MappedTokens BY <1>3, CallByCall
<1>5. \A r \in ended : VerdictOf(call'[r]) = "dropped"
    <2> TAKE r \in ended
    <2>1. call'[r].phase = "dropped" BY <1>1, <1>T DEF Calls
    <2> QED BY <2>1 DEF VerdictOf
<1>6. \A r \in Requests :
          MappedVerdicts'[r] = IF r \in ended THEN "dropped" ELSE MappedVerdicts[r]
    BY <1>1, <1>5, CallByCall
<1>7. MappedVerdicts' = [r \in Requests |-> IF r \in ended THEN "dropped" ELSE MappedVerdicts[r]]
    BY <1>6 DEF MappedVerdicts
<1>8. \A r \in ended : MappedVerdicts[r] # "none"
    <2> TAKE r \in ended
    <2>1. call[r].record \in Record => call[r].record.grant \in Grants BY DEF Record
    <2>2. call[r].phase = "verifying" => call[r].record.grant # "none"
        BY <2>1, RecordAssumption DEF KeyInv, CallsOK
    <2>3. VerdictOf(call[r]) # "none" BY <2>2 DEF VerdictOf
    <2> QED BY <2>3, CallByCall
<1> QED BY <1>2, <1>4, <1>7, <1>8, DroppedAre DEF AccessStep

-----------------------------------------------------------------------------
(* The theorems. *)

\* The invariant holds to begin with.
LEMMA KeyInitially == ASSUME KeyInit PROVE KeyInv /\ AC!AccessInit
<1>1. KeyTypeOK
    <2>1. \A r \in Requests : call[r] \in Calls BY DEF KeyInit, Calls, Phases, Tokens
    <2>2. call \in [Requests -> Calls] BY <2>1 DEF KeyInit
    <2>3. \A p \in Processes : pc[p] \in Labels BY DEF KeyInit, Labels
    <2>4. pc \in [Processes -> Labels] BY <2>3 DEF KeyInit
    <2>5. 0 \in 0 .. MaxEvents BY ProcessesAssumption
    <2> QED BY <2>2, <2>4, <2>5 DEF KeyInit, KeyTypeOK, Calls, Phases
<1>2. SeedsOK /\ CallsOK BY DEF KeyInit, SeedsOK, CallsOK
<1>3. AC!AccessInit BY CallByCall DEF KeyInit, AC!AccessInit, Verdict
<1> QED BY <1>1, <1>2, <1>3 DEF KeyInv

\* Every step keeps it and refines AccessControl.
LEMMA KeyStep ==
    ASSUME KeyInv, [KeyNext]_keyVars
    PROVE  KeyInv' /\ AccessStep
<1>1. ASSUME NEW p \in Processes, SetUp(p) \/ SetUpFails(p) PROVE KeyInv' /\ AccessStep
    BY <1>1, StartUpKeeps, StartUpRefines
<1>2. CASE Kill BY <1>2, KillKeeps, KillRefines
<1>3. CASE WorkerCreates
    <2>1. /\ UNCHANGED <<pc, seed, auth, records, call, events>> /\ docs' = TRUE
        BY <1>3 DEF WorkerCreates
    <2>2. KeyInv' BY <2>1 DEF KeyInv, KeyTypeOK, SeedsOK, CallsOK
    <2> QED BY <2>1, <2>2, SameCalls DEF AccessStep, AccessVars
<1>4. ASSUME NEW k \in Keys, Disable(k) \/ Expire(k) PROVE KeyInv' /\ AccessStep
    BY <1>4, WithdrawalKeeps, WithdrawalRefines
<1>5. ASSUME NEW r \in Requests, Present(r) \/ Authenticate(r) PROVE KeyInv' /\ AccessStep
    BY <1>5, RequestKeeps, RequestRefines
<1>6. CASE UNCHANGED keyVars
    <2>1. UNCHANGED <<pc, seed, auth, docs, records, call, events>> BY <1>6 DEF keyVars
    <2>2. KeyInv' BY <2>1 DEF KeyInv, KeyTypeOK, SeedsOK, CallsOK
    <2> QED BY <2>1, <2>2, SameCalls DEF AccessStep, AccessVars
<1> QED BY <1>1, <1>2, <1>3, <1>4, <1>5, <1>6 DEF KeyNext

\* A step of the refinement.
LEMMA AccessBox == AccessStep => [AC!AccessNext]_(AC!accessVars)
BY DEF AccessStep, AccessVars, AC!accessVars, MappedTokens, MappedVerdicts

\* The types of the state, whatever the keys, the processes and the requests.
THEOREM KeyTypeCorrect == KeySpec => []KeyTypeOK
<1>1. KeyInit => KeyInv BY KeyInitially
<1>2. KeyInv /\ [KeyNext]_keyVars => KeyInv' BY KeyStep
<1>3. KeyInv => KeyTypeOK BY DEF KeyInv
<1> QED BY <1>1, <1>2, <1>3, PTL DEF KeySpec

\* Every request is decided as if at one instant, a grant changes only together with its
\* key's secret, and a withdrawn key does not come back with the secret it had
\* (qdrant_api_keys.py:41-121).
THEOREM KeysAreAccessControl == KeySpec => AccessSpec
<1>1. KeyInit => KeyInv /\ AC!AccessInit BY KeyInitially
<1>2. KeyInv /\ [KeyNext]_keyVars => KeyInv' /\ [AC!AccessNext]_(AC!accessVars)
    BY KeyStep, AccessBox
<1> QED BY <1>1, <1>2, PTL DEF KeySpec, AccessSpec, AC!AccessSpec
=============================================================================
