---------------------------- MODULE MCToolBatch ----------------------------
(* Instances of ToolBatch for TLC. *)
EXTENDS ToolBatch

Reads(S) == [NoIntent EXCEPT !.reads = S, !.effect = TRUE]
Edits(S) == [NoIntent EXCEPT !.writes = S, !.effect = TRUE, !.mutating = TRUE]
Shell    == [NoIntent EXCEPT !.effect = TRUE, !.mutating = TRUE]
Ticket   == [Shell EXCEPT !.state = TRUE]

\* A read, an edit of two files one of which is read too, a pure computation that
\* reads, and a state ticket.
FewIntents ==
  {Reads({"a"}), [Edits({"a", "b"}) EXCEPT !.reads = {"a"}],
   [Reads({"b"}) EXCEPT !.effect = FALSE], Ticket}

\* A read and an edit of one file, and a pure computation that reads another.
FileIntents ==
  {Reads({"a"}), Edits({"a"}), [Reads({"b"}) EXCEPT !.effect = FALSE]}

\* An edit and a shell command.
Mutations == {Edits({"a"}), Shell}
=============================================================================
