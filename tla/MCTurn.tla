------------------------------- MODULE MCTurn -------------------------------
(* Small instances of Turn. *)
EXTENDS Turn

=============================================================================
