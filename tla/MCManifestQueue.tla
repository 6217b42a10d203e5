--------------------------- MODULE MCManifestQueue ---------------------------
(* Instances of ManifestQueue for TLC. *)
EXTENDS ManifestQueue, TLC

\* Jobs 1 and 2 belong to one document: the ingest job and the deletion, in
\* either order of their ids.  Job 3, if there is one, ingests another document.
CONSTANTS DeletionFirst, JobCount

MCJobs == 1 .. JobCount
MCDeletions == MCJobs \cap (IF DeletionFirst THEN {1} ELSE {2})
MCDocumentOf == [j \in MCJobs |-> IF j = 3 THEN "d2" ELSE "d1"]
CallerSymmetry == Permutations(Callers)
=============================================================================
