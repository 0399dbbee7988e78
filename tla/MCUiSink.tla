------------------------------ MODULE MCUiSink ------------------------------
(* Small instances of UiSink: two producers and one consumer. *)
EXTENDS UiSink

CONSTANTS p1, p2, k1

Kinds(p, sizes) == [kind : {"critical", "delta"}, key : {p}, size : sizes]
Latest(sizes) == [kind : {"latest"}, key : {k1}, size : sizes]
Critical(p, size) == {[kind |-> "critical", key |-> p, size |-> size]}

\* The first task emits records of all kinds, the second large critical ones.
AllKinds == [p \in Producers |-> IF p = p1 THEN Kinds(p, {1, 3}) \cup Latest({1, 2, 4})
                                           ELSE Critical(p, 3)]

\* Critical records and deltas of one size, from both.
Unsized == [p \in Producers |-> Kinds(p, {1})]

\* The second replaces a large status by a small one.
Shrinking == [p \in Producers |-> IF p = p1 THEN Critical(p, 1) ELSE Latest({1, 2})]
=============================================================================
