-------------------------------- MODULE Turn --------------------------------
(***************************************************************************)
(* The turn loop of praana-core (turn/mod.rs) with the rules by which the  *)
(* log admits its events (history/replay.rs) and the recovery engine that  *)
(* repairs the log when the session is opened (history/recovery.rs).       *)
(*                                                                         *)
(* phase, steps, batch and tries are what EventReplayer reads off the      *)
(* durable log about the newest turn; everything else dies with the        *)
(* process.  One action is one appended event or one decision of the loop. *)
(* The tool batch is seen from outside: ToolBatch models its inside.       *)
(***************************************************************************)
EXTENDS Naturals, Sequences, FiniteSets

CONSTANTS MaxSteps,    \* turn.max_steps
          MaxAttempts, \* turn.max_attempts
          RetryCap,    \* RETRY_WALL_CAP_MS, in units of backoff
          MaxTurns,    \* bound: turns of the session
          MaxKills     \* bound: times the process is killed

ASSUME Parameters ==
  /\ MaxSteps \in Nat \ {0} /\ MaxAttempts \in Nat \ {0} /\ RetryCap \in Nat \ {0}
  /\ MaxTurns \in Nat /\ MaxKills \in Nat

VARIABLES
  phase,     \* of the newest turn: its user message, start and terminal event
  steps,     \* its accepted steps, by finish reason; "stop" stands for Length too
  batch,     \* the tool batch of its last step
  tries,     \* the attempts of the newest step that has one
  at,        \* where the process is
  cancelled, \* its CancellationToken
  poisoned,  \* its tool runtime is poisoned
  spent,     \* retry_spent_ms
  unavailable, \* compaction_unavailable is set: no request may be admitted
  credential,  \* a resume finds the compactor's credential, or needs none
  refused,   \* history variable: the codes with which a drive was refused
  turns, kills

log == <<phase, steps, batch, tries>>
flags == <<cancelled, poisoned, spent, unavailable>>
outside == <<turns, kills, credential>>
vars == <<log, at, flags, refused, outside>>

-----------------------------------------------------------------------------
(* What replay knows. *)

\* The failure of an attempt.  crossed is what the live loop knew (emission_crossed)
\* and does not record; observable is recorded (observable_delta_emitted).
Code == {"context", "transient", "fatal", "aborted", "lost"}
Failure == {f \in [code: Code, crossed: BOOLEAN, observable: BOOLEAN] :
              f.observable => f.crossed}
NoFailure == [code |-> "none", crossed |-> FALSE, observable |-> FALSE]
LostFailure == [code |-> "lost", crossed |-> FALSE, observable |-> FALSE]

\* replaced: how many AttemptSuperseded events name the attempt.
Attempt == [status: {"open", "failed", "accepted"}, emergency: BOOLEAN,
             failure: Failure \cup {NoFailure}, replaced: Nat]

LastTry == tries[Len(tries)]
LastIs(status) == tries # <<>> /\ LastTry.status = status

\* run_step's prior_attempts: those of the step that is wanted.
Prior == IF LastIs("accepted") THEN <<>> ELSE tries

Active == phase \in {"accepted", "started"}
LastStep == IF steps = <<>> THEN "none" ELSE steps[Len(steps)]

\* An accepted retry whose predecessor is not superseded yet.
Unsettled ==
  /\ LastIs("accepted") /\ Len(tries) > 1
  /\ tries[Len(tries) - 1].status = "failed"
  /\ tries[Len(tries) - 1].replaced = 0

Supersede ==
  tries' = [tries EXCEPT ![Len(tries) - 1].replaced = @ + 1]

\* EventReplayer on AssistantAttemptStarted.
Admission ==
  CASE LastStep = "tool" /\ batch # "complete" -> "E_TOOL_BATCH_INCOMPLETE"
    [] Prior # <<>> /\ LastTry.status = "open" -> "E_EVENT_TRANSITION_INVALID"
    [] Prior # <<>> /\ LastTry.failure.observable -> "E_PROVIDER_RETRY_AFTER_EMISSION"
    [] OTHER -> "ok"

Refusals ==
  {"E_TOOL_BATCH_INCOMPLETE", "E_EVENT_TRANSITION_INVALID", "E_PROVIDER_RETRY_AFTER_EMISSION",
   "E_TOOL_CALL_ID_REUSED", "started call was not classified by recovery"}

-----------------------------------------------------------------------------

Init ==
  /\ phase = "none" /\ steps = <<>> /\ batch = "none" /\ tries = <<>>
  /\ at = "recover"
  /\ cancelled = FALSE /\ poisoned = FALSE /\ spent = 0
  /\ unavailable = FALSE /\ credential = TRUE
  /\ refused = {} /\ turns = 0 /\ kills = 0

Go(p) == at' = p /\ UNCHANGED <<flags, refused, outside>>

\* TurnInterrupted, TurnCommitted.
Close(terminal) ==
  /\ phase' = terminal /\ UNCHANGED <<steps, batch, tries>>
  /\ Go("ready")

\* A refused event is a TurnError: the command ends.
Refuse(code) ==
  /\ refused' = refused \cup {code} /\ at' = "down"
  /\ UNCHANGED <<log, flags, outside>>

-----------------------------------------------------------------------------
(* run_recovery: the first repair that applies, until none does. *)

LoseAttempt ==
  /\ at = "recover" /\ LastIs("open")
  /\ tries' = [tries EXCEPT ![Len(tries)].status = "failed",
                            ![Len(tries)].failure = LostFailure]
  /\ UNCHANGED <<phase, steps, batch>> /\ Go("recover")

RepairSupersession ==
  /\ at = "recover" /\ ~LastIs("open") /\ Unsettled
  /\ Supersede
  /\ UNCHANGED <<phase, steps, batch>> /\ Go("recover")

AttemptsRepaired == at = "recover" /\ ~LastIs("open") /\ ~Unsettled

\* Every started call gets a result; peers of an unknown mutation are skipped.
ClassifyCalls ==
  /\ AttemptsRepaired /\ batch = "started"
  /\ batch' \in {"partial", "full"}
  /\ UNCHANGED <<phase, steps, tries>> /\ Go("recover")

RepairCompletion ==
  /\ AttemptsRepaired /\ batch = "full"
  /\ batch' = "complete"
  /\ UNCHANGED <<phase, steps, tries>> /\ Go("recover")

BatchRepaired == AttemptsRepaired /\ batch \notin {"started", "full"}

\* Bug: any turn with an accepted step is committed.
CommitAnyStep ==
  /\ BatchRepaired /\ Active /\ steps # <<>>
  /\ phase' = "committed"
  /\ UNCHANGED <<steps, batch, tries>> /\ Go("recover")

RepairCommit ==
  /\ BatchRepaired /\ Active /\ LastStep = "stop"
  /\ phase' = "committed"
  /\ UNCHANGED <<steps, batch, tries>> /\ Go("recover")

RepairStart ==
  /\ BatchRepaired /\ phase = "accepted"
  /\ phase' = "started"
  /\ UNCHANGED <<steps, batch, tries>> /\ Go("recover")

\* install_compactor_on_resume looks for the credential of the frozen compactor.
InstallCompactor == unavailable' = ~credential

\* The recovery is done, the compactor is put back.
Recovered ==
  /\ BatchRepaired /\ phase # "accepted" /\ ~(Active /\ LastStep = "stop")
  /\ at' = "ready" /\ InstallCompactor
  /\ UNCHANGED <<log, cancelled, poisoned, spent, refused, outside>>

-----------------------------------------------------------------------------
(* The commands: run_turn, continue_turn. *)

RunTurn ==
  /\ at = "ready" /\ ~Active /\ ~poisoned /\ ~unavailable
  /\ turns < MaxTurns /\ turns' = turns + 1
  /\ phase' = "accepted" /\ steps' = <<>> /\ batch' = "none" /\ tries' = <<>>
  /\ at' = "opened"
  /\ UNCHANGED <<flags, refused, kills, credential>>

StartTurn ==
  /\ at = "opened"
  /\ phase' = "started" /\ UNCHANGED <<steps, batch, tries>>
  /\ Go("drive")

\* Bug: the resumed command ends without taking the turn up.
PrintResumeId ==
  /\ at = "ready" /\ Active /\ ~poisoned /\ ~unavailable
  /\ UNCHANGED log /\ Go("down")

ContinueTurn ==
  /\ at = "ready" /\ Active /\ ~poisoned /\ ~unavailable
  /\ UNCHANGED log /\ Go("drive")

\* ensure_live, ensure_compaction_available: the resumed command ends with an error and
\* the turn stays open.
ContinueRefused ==
  /\ at = "ready" /\ Active /\ (poisoned \/ unavailable)
  /\ UNCHANGED log /\ Go("down")

\* set_compactor lifts the stop; the command line does it only for a new session.
SetCompactor ==
  /\ at = "ready" /\ unavailable /\ unavailable' = FALSE
  /\ UNCHANGED <<log, at, cancelled, poisoned, spent, refused, outside>>

\* The command is over.
Exit ==
  /\ at = "ready" /\ ~Active
  /\ UNCHANGED log /\ Go("down")

\* The session is opened again.
Open ==
  /\ at = "down"
  /\ at' = "recover" /\ cancelled' = FALSE /\ poisoned' = FALSE /\ spent' = 0
  /\ unavailable' = FALSE
  /\ UNCHANGED <<log, refused, outside>>

-----------------------------------------------------------------------------
(* drive. *)

Abort ==
  /\ at \in {"drive", "step"} /\ cancelled
  /\ Close("interrupted")

Driving == at = "drive" /\ ~cancelled

\* resume_incomplete_tool_batch, resume_unstarted_tool_step.  A call that was started
\* has been classified by the recovery: the refusal is never met.
ResumeBatch ==
  /\ Driving /\ LastStep = "tool" /\ batch # "complete"
  /\ IF batch = "started" THEN Refuse("started call was not classified by recovery")
                          ELSE UNCHANGED log /\ Go("batch")

BatchOver == Driving /\ (LastStep = "tool" => batch = "complete")

Commit ==
  /\ BatchOver /\ LastStep = "stop"
  /\ Close("committed")

\* Bug: the step limit is looked at before the answer.
LimitFirst ==
  /\ BatchOver /\ Len(steps) >= MaxSteps
  /\ Close("interrupted")

StepLimit ==
  /\ BatchOver /\ LastStep # "stop" /\ Len(steps) >= MaxSteps
  /\ Close("interrupted")

RunStep ==
  /\ BatchOver /\ LastStep # "stop" /\ Len(steps) < MaxSteps
  /\ at' = "step" /\ spent' = 0
  /\ UNCHANGED <<log, cancelled, poisoned, unavailable, refused, outside>>

-----------------------------------------------------------------------------
(* run_step. *)

Stepping == at = "step" /\ ~cancelled

\* Bug: only the process that sent the emergency resend remembers it.
EmergencyForgotten == FALSE

\* Read off the log, so that a resumed turn decides as the first process did.
EmergencySpent == \E i \in DOMAIN Prior : Prior[i].emergency
LastWasContext ==
  /\ Prior # <<>> /\ LastTry.status = "failed"
  /\ LastTry.failure.code = "context" /\ ~LastTry.failure.observable

\* Bug: one attempt too many.
ExhaustedLate == Len(Prior) > MaxAttempts

Exhausted == Len(Prior) >= MaxAttempts

\* What a request is made of cannot be read or measured: auto_hydrate meets a broken state
\* graph before the first attempt of the turn, or run_step cannot estimate the state tail or
\* the turns it could compact.  The command ends with an error and the turn stays open.
CommandFails ==
  /\ \/ Driving /\ tries = <<>>
     \/ Stepping /\ ~Exhausted /\ ~(LastWasContext /\ EmergencySpent)
  /\ UNCHANGED log /\ Go("down")

\* The compactor is refused for its credential in a compaction before the first step's
\* request: the turn ends, and no other begins in this process.
CompactionUnavailable ==
  /\ Stepping /\ steps = <<>> /\ ~Exhausted /\ ~(LastWasContext /\ EmergencySpent)
  /\ unavailable' = TRUE
  /\ phase' = "interrupted" /\ at' = "ready"
  /\ UNCHANGED <<steps, batch, tries, cancelled, poisoned, spent, refused, outside>>

\* The attempts or the emergency resend are used up, or the request is not admitted.
EndStep == Stepping /\ Close("interrupted")

StartAttempt ==
  /\ Stepping /\ ~Exhausted /\ ~(LastWasContext /\ EmergencySpent)
  /\ \/ /\ Admission = "ok"
        /\ tries' = Append(Prior, [status |-> "open", emergency |-> LastWasContext,
                                    failure |-> NoFailure, replaced |-> 0])
        /\ UNCHANGED <<phase, steps, batch>> /\ Go("call")
     \/ Admission # "ok" /\ Refuse(Admission)

\* A step with a terminal event is accepted even if the turn has been cancelled.
Answer(finish) ==
  /\ at = "call"
  /\ tries' = [tries EXCEPT ![Len(tries)].status = "accepted"]
  /\ steps' = Append(steps, finish) /\ batch' = "none"
  /\ UNCHANGED phase /\ Go("answered")

\* The step names a tool call of an earlier step: the attempt stays open.
ReuseCallId ==
  /\ at = "call" /\ (steps # <<>> \/ turns > 1)
  /\ Refuse("E_TOOL_CALL_ID_REUSED")

AttemptFails(f) ==
  /\ at = "call" /\ f.code # "lost" /\ (f.code = "aborted" => cancelled)
  /\ tries' = [tries EXCEPT ![Len(tries)].status = "failed",
                            ![Len(tries)].failure = f]
  /\ UNCHANGED <<phase, steps, batch>> /\ Go("failed")

\* emergency_context_retry_allowed, retry_allowed.
EmergencyAllowed ==
  /\ LastTry.failure.code = "context" /\ ~LastTry.failure.crossed
  /\ \A i \in DOMAIN tries : ~tries[i].emergency
RetryAllowed == LastTry.failure.code = "transient" /\ ~LastTry.failure.crossed

EmergencyResend ==
  /\ at = "failed" /\ EmergencyAllowed
  /\ UNCHANGED log /\ Go("step")

Retry(delay) ==
  /\ at = "failed" /\ ~EmergencyAllowed /\ RetryAllowed
  /\ spent + delay < RetryCap
  /\ spent' = spent + delay /\ at' = "step"
  /\ UNCHANGED <<log, cancelled, poisoned, unavailable, refused, outside>>

GiveUp(delay) ==
  /\ at = "failed" /\ ~EmergencyAllowed
  /\ ~(RetryAllowed /\ spent + delay < RetryCap)
  /\ Close("interrupted")

Followed == IF LastStep = "tool" THEN "batch" ELSE "drive"

\* AttemptSuperseded, if the accepted attempt is a retry.
Settle ==
  /\ at = "answered"
  /\ IF Unsettled THEN Supersede ELSE UNCHANGED tries
  /\ UNCHANGED <<phase, steps, batch>> /\ Go(Followed)

-----------------------------------------------------------------------------
(* run_tool_batch, from outside. *)

\* Some calls have results and none is running, some are running, all have results.
RunCalls ==
  /\ at = "batch"
  /\ \/ batch = "none" /\ batch' \in {"partial", "started", "full"}
     \/ batch = "partial" /\ batch' \in {"started", "full"}
     \/ batch = "started" /\ batch' = "full"
  /\ UNCHANGED <<phase, steps, tries>> /\ Go("batch")

FinishBatch ==
  /\ at = "batch" /\ batch = "full"
  /\ batch' = "complete"
  /\ \/ Go("drive")
     \/ /\ at' = "poisoned" /\ poisoned' = TRUE
        /\ UNCHANGED <<cancelled, spent, unavailable, refused, outside>>
  /\ UNCHANGED <<phase, steps, tries>>

InterruptPoisoned == at = "poisoned" /\ Close("interrupted")

-----------------------------------------------------------------------------
(* The environment. *)

Cancel ==
  /\ at \notin {"down", "recover", "ready"} /\ ~cancelled
  /\ cancelled' = TRUE
  /\ UNCHANGED <<log, at, poisoned, spent, unavailable, refused, outside>>

\* The compactor's credential is removed or given back, between two resumes.
ChangeCredential ==
  /\ credential' = ~credential
  /\ UNCHANGED <<log, at, flags, refused, turns, kills>>

\* A crash, a failed append, or the end of the shutdown grace period.
Kill ==
  /\ at # "down" /\ kills < MaxKills
  /\ kills' = kills + 1 /\ at' = "down"
  /\ UNCHANGED <<log, flags, refused, turns, credential>>

Recovery ==
  \/ LoseAttempt \/ RepairSupersession \/ ClassifyCalls \/ RepairCompletion
  \/ RepairCommit \/ RepairStart \/ Recovered

Drive ==
  \/ Abort \/ ResumeBatch \/ Commit \/ StepLimit \/ RunStep

Provider ==
  \/ \E finish \in {"tool", "stop"} : Answer(finish)
  \/ ReuseCallId
  \/ \E f \in Failure : AttemptFails(f)

Step ==
  \/ CompactionUnavailable \/ EndStep \/ StartAttempt \/ EmergencyResend \/ Settle
  \/ \E delay \in 1..RetryCap : Retry(delay) \/ GiveUp(delay)

Batch == RunCalls \/ FinishBatch \/ InterruptPoisoned

\* What goes on as long as the session is resumed whenever it has an open turn.
Progress ==
  \/ Recovery \/ StartTurn \/ ContinueTurn \/ ContinueRefused \/ Drive \/ Provider \/ Step \/ Batch
  \/ Active /\ Open

Next ==
  Recovery \/ RunTurn \/ StartTurn \/ ContinueTurn \/ ContinueRefused \/ SetCompactor
    \/ Exit \/ Open \/ Drive \/ CommandFails \/ Provider \/ Step \/ Batch
    \/ Cancel \/ ChangeCredential \/ Kill

Spec == Init /\ [][Next]_vars

\* The provider answers or times out, and an open turn is resumed by a command that gets
\* as far as the recovery.
FairSpec == Spec /\ WF_vars(Progress)

-----------------------------------------------------------------------------
(* Properties. *)

\* Every variable stays in its domain.
TypeOK ==
  /\ phase \in {"none", "accepted", "started", "committed", "interrupted"}
  /\ steps \in Seq({"tool", "stop"})
  /\ batch \in {"none", "started", "partial", "full", "complete"}
  /\ tries \in Seq(Attempt)
  /\ at \in {"down", "recover", "ready", "opened", "drive", "step", "call", "failed",
              "answered", "batch", "poisoned"}
  /\ cancelled \in BOOLEAN /\ poisoned \in BOOLEAN /\ spent \in 0..RetryCap
  /\ refused \subseteq Refusals
  /\ unavailable \in BOOLEAN /\ credential \in BOOLEAN
  /\ turns \in 0..MaxTurns /\ kills \in 0..MaxKills

\* Whatever processes send the requests of a step, they are at most
\* MaxAttempts and at most one of them is the emergency resend.
SendsAreBounded ==
  /\ Len(tries) <= MaxAttempts
  /\ \A i, j \in DOMAIN tries : tries[i].emergency /\ tries[j].emergency => i = j

\* A failed attempt that a retry replaced is superseded exactly once, by whichever
\* of the loop and the recovery comes first, before the turn goes on.
SupersededOnce ==
  /\ \A i \in DOMAIN tries : tries[i].replaced <= 1
  /\ \A i \in DOMAIN tries : tries[i].replaced = 1 =>
       LastIs("accepted") /\ i = Len(tries) - 1 /\ tries[i].status = "failed"
  /\ at \notin {"down", "recover", "answered"} => ~Unsettled

\* When the recovery hands the session over, nothing is left of the process that
\* died that the loop could not take up: no open attempt, no started call, no
\* turn without a start, no answered turn without its commit.
RecoveredIsSettled ==
  at = "ready" =>
    /\ ~LastIs("open") /\ ~Unsettled
    /\ Active => /\ phase = "started" /\ batch \notin {"started", "full"}
                 /\ LastStep # "stop"

\* The loop never offers the log an event it refuses, with two exceptions: a
\* provider that reuses a call id, and a failure after emission met on resume.
OnlyKnownRefusals ==
  refused \subseteq {"E_TOOL_CALL_ID_REUSED", "E_PROVIDER_RETRY_AFTER_EMISSION"}

\* An answered turn is committed, by the loop or by the recovery, unless the user
\* has cancelled it.
AnswerIsCommitted == [][
  phase' = "interrupted" /\ Active /\ LastStep = "stop" => cancelled]_vars

\* The loop, however often it is killed and resumed, keeps the turn's contract.
Contract == INSTANCE TurnContract
  WITH status <- IF Active THEN "open" ELSE phase, accepted <- steps, sent <- Len(Prior)
KeepsContract == Contract!Spec

\* What else a resumed turn needs: the compactor's credential is there from some time on,
\* and what its requests are made of can be read and measured.  (A start that the log
\* refuses once more leaves the same state behind as a command that fails before it.)
Unobstructed == <>[]credential /\ <>[][CommandFails => Admission \in refused]_vars

\* An open turn ends, however often its resumes ended before for a missing credential or for
\* what could not be measured, unless it has been refused after an emission.
TurnEnds ==
  Unobstructed => Active ~> (~Active \/ "E_PROVIDER_RETRY_AFTER_EMISSION" \in refused)

\* turn/mod.rs:1017-1018: an unfinished turn is one that continue_turn_with_sink
\* "would drive to completion".
ResumeDrivesToCompletion == Unobstructed => Active ~> ~Active

\* turn/mod.rs:126: "First nonempty semantic delta was observed: retry is forbidden."
NoRetryAfterEmission ==
  \A i \in DOMAIN tries : i < Len(tries) => ~tries[i].failure.crossed

\* history/projection.rs:84: an interrupted turn "ended without an accepted
\* terminal assistant response".
InterruptedHasNoAnswer == phase = "interrupted" => LastStep # "stop"
=============================================================================
