----------------------------- MODULE DurableQueue -----------------------------
(***************************************************************************)
(* What the job queue promises, with no directories, no retries and no     *)
(* steps inside an operation: a job that has been accepted stays live      *)
(* across crashes until its outcome is on record for the delivery that     *)
(* produced it, or until a deletion of the same document withdraws it.     *)
(* (IngestionJobState's queue protocol, app/domain/protocols.py, and the   *)
(* docstring "At-least-once filesystem queue for one worker".)             *)
(***************************************************************************)
EXTENDS Naturals

CONSTANTS Jobs, Deletions, DocumentOf, NoJob

VARIABLES
    live,      \* jobs that still have to be delivered
    recorded,  \* jobs that have an outcome on record
    held,      \* the job in the worker's hands, or NoJob
    settled    \* the outcome of this delivery is on record

abstractVars == <<live, recorded, held, settled>>

TypeOK ==
    /\ live \subseteq Jobs
    /\ recorded \subseteq Jobs
    /\ held \in Jobs \cup {NoJob}
    /\ settled \in BOOLEAN

Init == live = {} /\ recorded = {} /\ held = NoJob /\ settled = FALSE

Enqueue(j) == live' = live \cup {j} /\ UNCHANGED <<recorded, held, settled>>

\* A new submission supersedes an old outcome.
Forget(j) == recorded' = recorded \ {j} /\ UNCHANGED <<live, held, settled>>

Deliver(j) ==
    /\ held = NoJob /\ j \in live
    /\ held' = j
    /\ UNCHANGED <<live, recorded, settled>>

Settle ==
    /\ held # NoJob /\ ~settled
    /\ recorded' = recorded \cup {held}
    /\ settled' = TRUE
    /\ UNCHANGED <<live, held>>

\* Only a settled job leaves live, and it stays if it was submitted again.
Finish ==
    /\ settled
    /\ live' \in {live, live \ {held}}
    /\ held' = NoJob /\ settled' = FALSE
    /\ UNCHANGED recorded

\* While a deletion is in hand the other jobs of its document go.
Withdraw(j) ==
    /\ held \in Deletions /\ ~settled
    /\ j # held /\ DocumentOf[j] = DocumentOf[held]
    /\ live' \in {live, live \ {j}}
    /\ recorded' \in {recorded, recorded \ {j}}
    /\ UNCHANGED <<held, settled>>

\* The worker dies: its claim is void and nothing else changes.
Lapse ==
    /\ held # NoJob
    /\ held' = NoJob /\ settled' = FALSE
    /\ UNCHANGED <<live, recorded>>

Next ==
    \/ \E j \in Jobs : Enqueue(j) \/ Forget(j) \/ Deliver(j) \/ Withdraw(j)
    \/ Settle \/ Finish \/ Lapse

Spec == Init /\ [][Next]_abstractVars
=============================================================================
