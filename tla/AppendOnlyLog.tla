--------------------------- MODULE AppendOnlyLog ---------------------------
(***************************************************************************)
(* What the canonical event log of a session promises its writers: a       *)
(* sequence that grows at its end and never loses an acknowledged event.   *)
(* An event that was written but never acknowledged may stay or vanish.    *)
(***************************************************************************)
EXTENDS Naturals, Sequences

CONSTANT Event

VARIABLES
  log,   \* the events a reader of the log finds
  acked  \* how many of them were acknowledged

Init == log = <<>> /\ acked = 0

Write == /\ Len(log') = Len(log) + 1
         /\ log'[Len(log')] \in Event
         /\ log' = Append(log, log'[Len(log')])
         /\ UNCHANGED acked

Acknowledge == /\ acked' \in acked .. Len(log)
               /\ UNCHANGED log

Lose == /\ \E n \in acked .. Len(log) : log' = SubSeq(log, 1, n)
        /\ UNCHANGED acked

Next == Write \/ Acknowledge \/ Lose

Spec == Init /\ [][Next]_<<log, acked>>
=============================================================================
