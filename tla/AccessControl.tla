---------------------------- MODULE AccessControl ----------------------------
(***************************************************************************)
(* What API key authentication promises, with every decision taken at one  *)
(* instant: a token stands for the grant of the key whose secret it names, *)
(* while that key is in force. A key id is a sequence of the parts between *)
(* its dots, a secret is one too, and a token is a key id followed by a    *)
(* secret.                                                                 *)
(***************************************************************************)
EXTENDS Naturals, Sequences

CONSTANTS
    Keys,         \* key ids
    BootstrapKey, \* the one a token without a dot belongs to
    Secrets,      \* secrets
    Grants,       \* what a key entitles to: a tenant and scopes
    Tokens,       \* what requests present
    Requests,     \* requests
    NoRecord      \* stands for the record of a key nobody has provisioned

VARIABLES
    records, \* the control record of every key
    token,   \* the token every request came with
    verdict  \* what was decided about it

accessVars == <<records, token, verdict>>

Record == [secret : Secrets, grant : Grants, enabled : BOOLEAN, expired : BOOLEAN]
InForce(rec) == rec # NoRecord /\ rec.enabled /\ ~ rec.expired

\* The tokens that stand for a key and its secret. A key id with a dot has none, as the
\* first dot of a token ends the key id; the secret of the bootstrap key stands alone,
\* unless it has a dot itself.
TokensFor(k, secret) ==
    (IF Len(k) = 1 THEN {k \o secret} ELSE {})
    \cup (IF k = BootstrapKey /\ Len(secret) = 1 THEN {secret} ELSE {})

Entitled(t) ==
    {k \in Keys : InForce(records[k]) /\ t \in TokensFor(k, records[k].secret)}

AccessInit ==
    /\ records = [k \in Keys |-> NoRecord]
    /\ token = [r \in Requests |-> <<>>]
    /\ verdict = [r \in Requests |-> "none"]

\* A grant comes with a secret the key did not have: what was withdrawn is not
\* brought back by its old secret.
Rotate(k) ==
    /\ \E rec \in Record :
        /\ InForce(rec)
        /\ records[k] = NoRecord \/ records[k].secret # rec.secret
        /\ records' = [records EXCEPT ![k] = rec]
    /\ UNCHANGED <<token, verdict>>

Withdraw(k) ==
    /\ records[k] # NoRecord
    /\ \/ records' = [records EXCEPT ![k].enabled = FALSE]
       \/ records' = [records EXCEPT ![k].expired = TRUE]
    /\ UNCHANGED <<token, verdict>>

Arrive(r) ==
    /\ verdict[r] = "none"
    /\ \E t \in Tokens : token' = [token EXCEPT ![r] = t]
    /\ verdict' = [verdict EXCEPT ![r] = "pending"]
    /\ UNCHANGED records

Decide(r) ==
    /\ verdict[r] = "pending"
    /\ IF Entitled(token[r]) = {}
       THEN verdict' = [verdict EXCEPT ![r] = "refused"]
       ELSE \E k \in Entitled(token[r]) :
              verdict' = [verdict EXCEPT ![r] = records[k].grant]
    /\ UNCHANGED <<records, token>>

\* Requests end without an answer, or with one that decides nothing.
Drop ==
    /\ \E ended \in SUBSET {r \in Requests : verdict[r] # "none"} :
         verdict' = [r \in Requests |-> IF r \in ended THEN "dropped" ELSE verdict[r]]
    /\ UNCHANGED <<records, token>>

AccessNext ==
    \/ \E k \in Keys : Rotate(k) \/ Withdraw(k)
    \/ \E r \in Requests : Arrive(r) \/ Decide(r)
    \/ Drop

AccessSpec == AccessInit /\ [][AccessNext]_accessVars
=============================================================================
