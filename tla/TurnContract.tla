---------------------------- MODULE TurnContract ----------------------------
(***************************************************************************)
(* What a turn promises to whoever reads the session, however often the    *)
(* process dies: requests go out only while the turn wants an answer, at   *)
(* most MaxAttempts of them for a step; a step is accepted at most once    *)
(* and only in reply to a request; the turn is committed when it has its   *)
(* answer and never otherwise; a turn that is over does not change.        *)
(***************************************************************************)
EXTENDS Naturals, Sequences

CONSTANTS MaxSteps, MaxAttempts

VARIABLES status,   \* of the newest turn
          accepted, \* the finish reasons of its accepted steps
          sent      \* requests sent for the step that is wanted

vars == <<status, accepted, sent>>

Answered == accepted # <<>> /\ accepted[Len(accepted)] = "stop"

Init == status = "none" /\ accepted = <<>> /\ sent = 0

Begin ==
  /\ status # "open"
  /\ status' = "open" /\ accepted' = <<>> /\ sent' = 0

Send ==
  /\ status = "open" /\ ~Answered /\ Len(accepted) < MaxSteps
  /\ sent < MaxAttempts /\ sent' = sent + 1
  /\ UNCHANGED <<status, accepted>>

Accept ==
  /\ status = "open" /\ sent > 0 /\ sent' = 0
  /\ \E f \in {"tool", "stop"} : accepted' = Append(accepted, f)
  /\ UNCHANGED status

Commit ==
  /\ status = "open" /\ Answered
  /\ status' = "committed" /\ UNCHANGED <<accepted, sent>>

Interrupt ==
  /\ status = "open" /\ status' = "interrupted" /\ UNCHANGED <<accepted, sent>>

Next == Begin \/ Send \/ Accept \/ Commit \/ Interrupt

Spec == Init /\ [][Next]_vars
=============================================================================
