----------------------------- MODULE MCIngestion -----------------------------
(* Instances of Ingestion for TLC. *)
EXTENDS Ingestion, TLC

\* Document i has ingest job 2i - 1 and deletion 2i.
CONSTANT DocumentCount

MCDocuments == 1 .. DocumentCount
MCJobs == 1 .. 2 * DocumentCount
MCDeletions == {2 * d : d \in MCDocuments}
MCDocumentOf == [j \in MCJobs |-> (j + 1) \div 2]
MCIngestJob == [d \in MCDocuments |-> 2 * d - 1]
MCDeleteJob == [d \in MCDocuments |-> 2 * d]
CallerSymmetry == Permutations(Callers)
=============================================================================
