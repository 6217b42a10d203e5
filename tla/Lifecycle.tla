------------------------------ MODULE Lifecycle ------------------------------
(* The document lifecycle policy, app/domain/policies/lifecycle.py. *)

DocumentStatus == {"accepted", "parsing", "chunking", "indexing",
                   "ready", "failed", "deleting", "deleted"}

AllowedTransitions(current) ==
    CASE current = "accepted" -> {"parsing", "deleting", "failed"}
      [] current = "parsing"  -> {"chunking", "deleting", "failed"}
      [] current = "chunking" -> {"indexing", "deleting", "failed"}
      [] current = "indexing" -> {"ready", "deleting", "failed"}
      [] current = "ready"    -> {"accepted", "deleting"}
      [] current = "failed"   -> {"accepted", "deleting"}
      [] current = "deleting" -> {"deleted"}
      [] current = "deleted"  -> {"accepted"}

\* can_transition; require_transition raises ValueError when it is FALSE.
CanTransition(current, target) ==
    current = target \/ target \in AllowedTransitions(current)
=============================================================================
