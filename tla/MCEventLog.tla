----------------------------- MODULE MCEventLog -----------------------------
(* Instances of EventLog for TLC. *)
EXTENDS EventLog, TLC

\* The processes are interchangeable.
Interchangeable == Permutations(Proc)
=============================================================================
