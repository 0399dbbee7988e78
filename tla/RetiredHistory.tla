--------------------------- MODULE RetiredHistory ---------------------------
(***************************************************************************)
(* What compaction promises a session: of the turns since the last reset   *)
(* it retires the oldest ones, each in one epoch, whole and never before   *)
(* it is finished; nothing else ever takes a turn out of the history.      *)
(***************************************************************************)
EXTENDS Naturals

VARIABLES
  finished, \* how many turns have ended since the last reset
  retired,  \* those a summary stands for
  epoch     \* how many summaries there are

Init == finished = 0 /\ retired = {} /\ epoch = 0

Finish == finished' = finished + 1 /\ UNCHANGED <<retired, epoch>>

\* The turns S are the oldest of those still in the history.
Oldest(S) == S # {} /\ \A i \in S : i \notin retired /\ 1 .. i \subseteq S \cup retired

Retire ==
  /\ \E S \in SUBSET (1 .. finished) : Oldest(S) /\ retired' = retired \cup S
  /\ epoch' = epoch + 1
  /\ UNCHANGED finished

Reset == finished' = 0 /\ retired' = {} /\ epoch' = 0

Next == Finish \/ Retire \/ Reset

Spec == Init /\ [][Next]_<<finished, retired, epoch>>
=============================================================================
