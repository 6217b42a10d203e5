----------------------------- MODULE AtomicFile ------------------------------
(***************************************************************************)
(* What a file that is replaced as a whole promises: at any time it holds  *)
(* one version, or is absent, and so it does after a loss of power, though *)
(* that may take it back to an earlier version.                            *)
(***************************************************************************)
CONSTANTS Versions, Absent

VARIABLES
    file, \* the version that is visible
    disk, \* the version a loss of power goes back to
    seen  \* what the last reader got

fileVars == <<file, disk, seen>>

FileInit == file = Absent /\ disk = Absent /\ seen = Absent

Write == file' \in Versions /\ UNCHANGED <<disk, seen>>
Persist == disk' = file /\ UNCHANGED <<file, seen>>
Read == seen' = file /\ UNCHANGED <<file, disk>>
PowerLoss == file' = disk /\ seen' = Absent /\ UNCHANGED disk

FileNext == Write \/ Persist \/ Read \/ PowerLoss

FileSpec == FileInit /\ [][FileNext]_fileVars
=============================================================================
