----------------------------- MODULE Compaction -----------------------------
(***************************************************************************)
(* The compaction of a session's history by an external compactor, as the  *)
(* turn loop launches it and recovery repairs it.  The session log is      *)
(* given by what replay makes of it: the turns since the last reset, the   *)
(* compaction attempts, the activations (HistoryCompacted) and the         *)
(* supersessions.  Processes open the log in turn, under its lock; a       *)
(* resuming process recovers under one hold of the lock and opens the log  *)
(* under another.                                                          *)
(***************************************************************************)
EXTENDS Integers, Sequences, FiniteSets, FiniteSetsExt

CONSTANTS
  Proc,         \* the processes that open the session
  Mass,         \* possible token masses of a turn
  Fraction,     \* history.compact_mass_fraction, in percent
  MaxAttempts,  \* turn.max_attempts
  Background,   \* may the log grow while the compactor works?
  MaxTurns,     \* bound: turns between two resets
  MaxResets,    \* bound: resets
  MaxAsked,     \* bound: compactions asked for with compact_now
  MaxKills      \* bound: kills

ASSUME MassAssumption == Mass \subseteq Nat \ {0}
ASSUME NumberAssumption ==
  /\ Fraction \in Nat /\ MaxAttempts \in Nat \ {0} /\ Background \in BOOLEAN
  /\ MaxTurns \in Nat /\ MaxResets \in Nat /\ MaxAsked \in Nat /\ MaxKills \in Nat

VARIABLES
  seq,       \* sequence of the last event
  turns,     \* since the last reset, each with its mass and its closing event (0: none)
  segments,  \* the activations since the last reset
  attempts,  \* the compaction attempts, oldest first
  relations, \* the supersessions of one attempt by another
  resets,    \* the reset epoch
  resetAt,   \* the event of the last reset
  pc,        \* where each process stands with the log
  step,      \* what the turn driver of the open session does
  op,        \* the compaction its process is running
  stopped,   \* a credential was missing: no turn is admitted
  readOnly,  \* the log takes no more events
  asked, kills

log == <<seq, turns, segments, attempts, relations, resets, resetAt>>
flags == <<stopped, readOnly>>
bounds == <<asked, kills>>
vars == <<log, pc, step, op, flags, bounds>>

NoOp == [at |-> "none"]

Attempt == DOMAIN attempts
Holds(p) == pc[p] \in {"recovering", "open"}
Free == \A p \in Proc : ~Holds(p)

-----------------------------------------------------------------------------
(* What a reader of the log computes *)

Closed(i) == turns[i].close # 0
Active == turns # <<>> /\ ~Closed(Len(turns))
Compacted == UNION {segments[i].turns : i \in DOMAIN segments}

\* Bug: an open attempt is overlooked.
OpenOverlooked == FALSE

OpenAttempt == \E a \in Attempt : attempts[a].status = "open"

\* Bug: a retired turn is eligible again.
EligibleAgain == {i \in DOMAIN turns : \A j \in 1 .. i : Closed(j)}

\* Retired turns are skipped, a turn that is not closed is a barrier.
Eligible == {i \in DOMAIN turns : /\ i \notin Compacted
                                  /\ \A j \in 1 .. i : j \in Compacted \/ Closed(j)}

MassOf(S) == MapThenSumSet(LAMBDA i : turns[i].mass, S)
Target == Max({1, (MassOf(Eligible) * Fraction + 99) \div 100})

\* The oldest eligible turns, until their mass reaches the target.
Selected == {i \in Eligible : \A k \in Eligible :
                                k <= i => MassOf({j \in Eligible : j < k}) < Target}

\* Events that decide whether the source was judged before.
Activations == {segments[i].seq : i \in DOMAIN segments}
Ended(a) == attempts[a].status \in {"failed", "lost"} /\ attempts[a].end > resetAt
Latest(a) == /\ Ended(a)
             /\ \A b \in Attempt : Ended(b) => attempts[b].end <= attempts[a].end
             /\ \A n \in Activations : n < attempts[a].end

\* Bug: a failed attempt does not back off.
UnconsideredAlways == TRUE

\* After a failure only a turn that closed since that attempt started is news; a lost
\* attempt judged nothing, and an activation changed the history.
Unconsidered ==
  \A a \in Attempt :
    Latest(a) /\ attempts[a].status = "failed" /\ attempts[a].start > resetAt
      => \E i \in Eligible : turns[i].close > attempts[a].start

Candidate == ~OpenAttempt /\ Eligible # {} /\ Unconsidered

Related(a) == \E r \in DOMAIN relations : relations[r].new = a

\* Bug: recovery supersedes what is superseded already.
UnrelatedAgain(a) == attempts[a].status = "accepted" /\ attempts[a].retry # 0

\* Accepted retries whose predecessor is not superseded yet.
Unrelated(a) == attempts[a].status = "accepted" /\ attempts[a].retry # 0 /\ ~Related(a)

-----------------------------------------------------------------------------
Init ==
  /\ seq = 0 /\ turns = <<>> /\ segments = <<>> /\ attempts = <<>> /\ relations = <<>>
  /\ resets = 0 /\ resetAt = 0
  /\ pc = [p \in Proc |-> "away"]
  /\ step = "idle" /\ op = NoOp
  /\ stopped = FALSE /\ readOnly = FALSE
  /\ asked = 0 /\ kills = 0

(* Appending one event *)

\* AssistantAttemptStarted of operation c, for epoch e.
AppendStart(c, e, number, retry) ==
  /\ seq' = seq + 1
  /\ attempts' = Append(attempts, [operation |-> c, epoch |-> e, number |-> number,
                                   retry |-> retry, start |-> seq + 1, end |-> 0,
                                   status |-> "open"])
  /\ UNCHANGED <<turns, segments, relations, resets, resetAt>>

\* AssistantAttemptFailed, written by its process or by recovery.
AppendEnd(a, status) ==
  /\ seq' = seq + 1
  /\ attempts' = [attempts EXCEPT ![a].status = status, ![a].end = seq + 1]
  /\ UNCHANGED <<turns, segments, relations, resets, resetAt>>

AppendSuperseded(a) ==
  /\ seq' = seq + 1
  /\ relations' = Append(relations, [old |-> attempts[a].retry, new |-> a])
  /\ UNCHANGED <<turns, segments, attempts, resets, resetAt>>

AppendCompacted(a, S) ==
  /\ seq' = seq + 1
  /\ segments' = Append(segments, [turns |-> S, attempt |-> a, seq |-> seq + 1])
  /\ attempts' = [attempts EXCEPT ![a].status = "accepted", ![a].end = seq + 1]
  /\ UNCHANGED <<turns, relations, resets, resetAt>>

-----------------------------------------------------------------------------
(* Opening the session *)

Go(p, where) == pc' = [pc EXCEPT ![p] = where]

Resume(p) ==
  /\ pc[p] = "away" /\ Free
  /\ Go(p, "recovering")
  /\ UNCHANGED <<log, step, op, flags, bounds>>

RecoverAttempt(p) ==
  /\ pc[p] = "recovering"
  /\ \E a \in Attempt : /\ attempts[a].status = "open"
                        /\ \A b \in 1 .. a - 1 : attempts[b].status # "open"
                        /\ AppendEnd(a, "lost")
  /\ UNCHANGED <<pc, step, op, flags, bounds>>

RecoverSupersession(p) ==
  /\ pc[p] = "recovering" /\ ~OpenAttempt
  /\ \E a \in Attempt : /\ Unrelated(a)
                        /\ \A b \in 1 .. a - 1 : ~Unrelated(b)
                        /\ AppendSuperseded(a)
  /\ UNCHANGED <<pc, step, op, flags, bounds>>

\* The recovery engine is dropped, and the lock with it.
Recovered(p) ==
  /\ pc[p] = "recovering" /\ ~OpenAttempt /\ \A a \in Attempt : ~Unrelated(a)
  /\ Go(p, "recovered")
  /\ UNCHANGED <<log, step, op, flags, bounds>>

\* The log is opened for the loop, without recovery.
Open(p) ==
  /\ pc[p] = "recovered" /\ Free
  /\ Go(p, "open")
  /\ UNCHANGED <<log, step, op, flags, bounds>>

\* The live state of a process is gone with it.
Gone(p) ==
  /\ Go(p, "away")
  /\ IF Holds(p) THEN /\ step' = "idle" /\ op' = NoOp
                      /\ stopped' = FALSE /\ readOnly' = FALSE
                 ELSE UNCHANGED <<step, op, flags>>
  /\ UNCHANGED log

Leave(p) ==
  /\ pc[p] = "open" /\ step = "idle" /\ op = NoOp
  /\ Gone(p)
  /\ UNCHANGED bounds

Kill(p) ==
  /\ pc[p] # "away" /\ kills < MaxKills
  /\ Gone(p)
  /\ kills' = kills + 1 /\ UNCHANGED asked

-----------------------------------------------------------------------------
(* The turn driver, as far as compaction sees it *)

\* The driver waits for a compaction, unless the compactor works in the background.
Drives(p) == /\ pc[p] = "open"
             /\ op = NoOp \/ (Background /\ op.at = "sent" /\ op.by = "now")
Writes(p) == Drives(p) /\ ~readOnly

\* No turn is admitted once the credential of the compactor was found missing.
Available == ~stopped

StartTurn(p) ==
  /\ Writes(p) /\ step = "idle" /\ Available /\ ~Active /\ Len(turns) < MaxTurns
  /\ \E m \in Mass : turns' = Append(turns, [mass |-> m, close |-> 0])
  /\ seq' = seq + 1 /\ step' = "admit"
  /\ UNCHANGED <<segments, attempts, relations, resets, resetAt, pc, op, flags, bounds>>

ContinueTurn(p) ==
  /\ Drives(p) /\ step = "idle" /\ Available /\ Active
  /\ step' = "admit"
  /\ UNCHANGED <<log, pc, op, flags, bounds>>

\* The request fits without a compaction, or there is nothing to compact.
Admit(p) ==
  /\ Drives(p) /\ step = "admit"
  /\ step' = "send"
  /\ UNCHANGED <<log, pc, op, flags, bounds>>

\* An assistant attempt failed and is repeated, or a step was accepted and its tools ran.
NextRequest(p) ==
  /\ Writes(p) /\ step = "send"
  /\ step' = "admit"
  /\ UNCHANGED <<log, pc, op, flags, bounds>>

\* The turn is committed, or interrupted.
EndTurn(p) ==
  /\ Writes(p) /\ step \in {"send", "interrupt"}
  /\ seq' = seq + 1
  /\ turns' = [turns EXCEPT ![Len(turns)].close = seq + 1]
  /\ step' = "idle"
  /\ UNCHANGED <<segments, attempts, relations, resets, resetAt, pc, op, flags, bounds>>

\* Nothing can be appended any more: the loop returns an error.
Fails(p) ==
  /\ Drives(p) /\ readOnly /\ step # "idle"
  /\ step' = "idle"
  /\ UNCHANGED <<log, pc, op, flags, bounds>>

\* set_compactor
Reinstall(p) ==
  /\ Drives(p) /\ step = "idle" /\ stopped
  /\ stopped' = FALSE
  /\ UNCHANGED <<log, pc, step, op, readOnly, bounds>>

\* No code of the repository writes this event; replay accepts it between two turns.
Reset(p) ==
  /\ Writes(p) /\ step = "idle" /\ ~Active /\ resets < MaxResets
  /\ seq' = seq + 1
  /\ turns' = <<>> /\ segments' = <<>>
  /\ resets' = resets + 1 /\ resetAt' = seq + 1
  /\ UNCHANGED <<attempts, relations, pc, step, op, flags, bounds>>

-----------------------------------------------------------------------------
(* One compaction *)

\* Bug: the request is built and admitted again although nothing was retired.
AfterAlways(outcome) == IF outcome = "unavailable" THEN "interrupt" ELSE "admit"

\* What the driver does after its compaction: build the request again, send the one it
\* has, or give the turn up.
After(outcome) == CASE outcome = "activated" -> "admit"
                    [] outcome = "retained" -> "send"
                    [] outcome = "unavailable" -> "interrupt"

Settle(outcome) ==
  /\ op' = NoOp
  /\ IF op.by = "live"
     THEN step' = After(outcome) /\ stopped' = (stopped \/ outcome = "unavailable")
     ELSE UNCHANGED <<step, stopped>>
  /\ UNCHANGED readOnly

NewOp(by) == [at |-> "begin", by |-> by, operation |-> 0, number |-> 0, attempt |-> 0,
              turns |-> {}, resets |-> 0, epoch |-> 0]

Launch(p) ==
  /\ Writes(p) /\ op = NoOp /\ step = "admit" /\ Candidate
  /\ op' = NewOp("live") /\ step' = "compacting"
  /\ UNCHANGED <<log, pc, flags, bounds>>

CompactNow(p) ==
  /\ Writes(p) /\ op = NoOp /\ step = "idle" /\ asked < MaxAsked
  /\ op' = NewOp("now") /\ asked' = asked + 1
  /\ UNCHANGED <<log, pc, step, flags, kills>>

Runs(p, where) == pc[p] = "open" /\ op.at = where

\* What the operation freezes of the history before the compactor is asked.
Snapshot == [op EXCEPT !.at = "sent", !.operation = seq + 1, !.number = 1,
                       !.attempt = Len(attempts) + 1, !.turns = Selected,
                       !.resets = resets, !.epoch = Len(segments) + 1]

\* Snapshot, selection and the durable start of the first attempt.
Begin(p) ==
  /\ Runs(p, "begin") /\ ~OpenAttempt /\ Selected # {}
  /\ AppendStart(seq + 1, Len(segments) + 1, 1, 0)
  /\ op' = Snapshot
  /\ UNCHANGED <<pc, step, flags, bounds>>

\* Another attempt is open, no turn is eligible, or the request cannot be planned: nothing
\* is written.
Refused(p) ==
  /\ Runs(p, "begin")
  /\ Settle("retained")
  /\ UNCHANGED <<log, pc, bounds>>

\* The credential, looked up after the durable start, is missing, or the provider rejects it;
\* finding it changes no state.
MissCredential(p) ==
  /\ Runs(p, "sent")
  /\ AppendEnd(op.attempt, "failed")
  /\ Settle("unavailable")
  /\ UNCHANGED <<pc, bounds>>

\* An error of the compactor, its deadline, the cancellation, a candidate not repaired.
CompactorFails(p) ==
  /\ Runs(p, "sent")
  /\ AppendEnd(op.attempt, "failed")
  /\ Settle("retained")
  /\ UNCHANGED <<pc, bounds>>

\* Bug: the budget is not asked.
MayRepairAgain == op.number <= 2

\* One repair, when the budget has a slot for it.
MayRepair == op.number = 1 /\ op.number < MaxAttempts

\* The candidate is invalid.  Without a repair, or when the loop is cancelled, that ends
\* the operation as a failure of the compactor does.
CandidateInvalid(p) ==
  /\ Runs(p, "sent") /\ MayRepair
  /\ AppendEnd(op.attempt, "failed")
  /\ op' = [op EXCEPT !.at = "repair"]
  /\ UNCHANGED <<pc, step, flags, bounds>>

Repair(p) ==
  /\ Runs(p, "repair")
  /\ AppendStart(op.operation, op.epoch, op.number + 1, op.attempt)
  /\ op' = [op EXCEPT !.at = "sent", !.number = @ + 1, !.attempt = Len(attempts) + 1]
  /\ UNCHANGED <<pc, step, flags, bounds>>

RepairUnplanned(p) ==
  /\ Runs(p, "repair")
  /\ Settle("retained")
  /\ UNCHANGED <<log, pc, bounds>>

\* Bug: the source is not looked at again.
SourceTrusted == TRUE

\* recheck_source: the frozen turns are still what the next epoch of this reset retires.
SourceUnchanged ==
  /\ resets = op.resets /\ Len(segments) + 1 = op.epoch
  /\ op.turns \cap Compacted = {}
  /\ \A i \in op.turns : i \in DOMAIN turns /\ Closed(i)

Activate(p) ==
  /\ Runs(p, "sent")
  /\ SourceUnchanged
  /\ AppendCompacted(op.attempt, op.turns)
  /\ IF op.number > 1 THEN op' = [op EXCEPT !.at = "supersede"] /\ UNCHANGED <<step, flags>>
                      ELSE Settle("activated")
  /\ UNCHANGED <<pc, bounds>>

SourceChanged(p) ==
  /\ Runs(p, "sent")
  /\ ~SourceUnchanged
  /\ AppendEnd(op.attempt, "failed")
  /\ Settle("retained")
  /\ UNCHANGED <<pc, bounds>>

Supersede(p) ==
  /\ Runs(p, "supersede")
  /\ AppendSuperseded(op.attempt)
  /\ Settle("activated")
  /\ UNCHANGED <<pc, bounds>>

\* The activation stands; the missing supersession is left to recovery.
SupersedeFails(p) ==
  /\ Runs(p, "supersede")
  /\ op' = NoOp /\ readOnly' = TRUE
  /\ step' = IF op.by = "live" THEN After("activated") ELSE step
  /\ UNCHANGED <<log, pc, stopped, bounds>>

-----------------------------------------------------------------------------
Compacts(p) ==
  \/ Begin(p) \/ Refused(p) \/ MissCredential(p) \/ CompactorFails(p) \/ CandidateInvalid(p)
  \/ Repair(p) \/ RepairUnplanned(p) \/ Activate(p) \/ SourceChanged(p)
  \/ Supersede(p) \/ SupersedeFails(p)

Admits(p) == Admit(p) \/ Launch(p) \/ Fails(p)

Opens(p) == \/ Resume(p) \/ RecoverAttempt(p) \/ RecoverSupersession(p) \/ Recovered(p)
            \/ Open(p) \/ Leave(p) \/ Kill(p)

Serves(p) == \/ StartTurn(p) \/ ContinueTurn(p) \/ NextRequest(p) \/ EndTurn(p)
             \/ Reinstall(p) \/ Reset(p) \/ CompactNow(p)

Next == \E p \in Proc : Opens(p) \/ Serves(p) \/ Admits(p) \/ Compacts(p)

Spec == Init /\ [][Next]_vars

\* The driver does not stop in the middle of an admission, and the compactor is waited for
\* under a deadline.
FairSpec == Spec /\ WF_vars(\E p \in Proc : Admits(p)) /\ WF_vars(\E p \in Proc : Compacts(p))

-----------------------------------------------------------------------------
(* Properties *)

Statuses == {"open", "failed", "lost", "accepted"}
AttemptRecord == [operation : Nat, epoch : Nat, number : Nat, retry : Nat, start : Nat,
                  end : Nat, status : Statuses]
OpRecord == [at : {"begin", "sent", "repair", "supersede"}, by : {"live", "now"},
             operation : Nat, number : Nat, attempt : Nat, turns : SUBSET Nat, resets : Nat,
             epoch : Nat]

\* Every variable has its type, and a running operation names an attempt of the log.
TypeOK ==
  /\ seq \in Nat /\ resets \in Nat /\ resetAt \in Nat /\ asked \in Nat /\ kills \in Nat
  /\ turns \in Seq([mass : Mass, close : Nat])
  /\ segments \in Seq([turns : SUBSET Nat, attempt : Nat, seq : Nat])
  /\ attempts \in Seq(AttemptRecord)
  /\ relations \in Seq([old : Nat, new : Nat])
  /\ pc \in [Proc -> {"away", "recovering", "recovered", "open"}]
  /\ step \in {"idle", "admit", "compacting", "send", "interrupt"}
  /\ op \in OpRecord \cup {NoOp}
  /\ op.at \in {"sent", "repair", "supersede"} => op.attempt \in Attempt
  /\ stopped \in BOOLEAN /\ readOnly \in BOOLEAN

\* At most one compaction attempt of the log is open, whoever started it: a kill leaves
\* one behind, and a process that recovered before it was started opens the log beside it.
OneAttemptOpen ==
  Cardinality({a \in Attempt : attempts[a].status = "open"}) <= 1

\* An operation has one outcome: at most two attempts within turn.max_attempts, none after
\* the one that was accepted, and an accepted retry supersedes the attempt it repeats,
\* once, whether its own process or a recovery says so.
OneOutcome ==
  /\ \A a, b \in Attempt :
       a < b /\ attempts[a].operation = attempts[b].operation
         => /\ attempts[a].status \in {"failed", "lost"}
            /\ attempts[b].number = 2 /\ MaxAttempts >= 2
            /\ attempts[b].retry = a
  /\ \A a \in Attempt : Cardinality({r \in DOMAIN relations : relations[r].new = a}) <= 1
  /\ \A r \in DOMAIN relations :
       LET new == attempts[relations[r].new] IN
         new.status = "accepted" /\ new.retry = relations[r].old

\* A source that was judged and failed is not sent again before another turn has closed:
\* since the last activation, the operations that ended in a failure of their own are not
\* more than the finished turns still in the history (and the compactions somebody asked
\* for), however often a compaction was lost to a kill in between.
LastOf(a) == \A b \in Attempt : attempts[b].operation = attempts[a].operation => b <= a
Judged == {a \in Attempt : /\ attempts[a].status = "failed" /\ LastOf(a)
                           /\ attempts[a].end > resetAt
                           /\ \A n \in Activations : n < attempts[a].end}
FailuresNeedNewTurns ==
  Cardinality(Judged)
    <= Cardinality({i \in DOMAIN turns : Closed(i) /\ i \notin Compacted}) + asked

\* Compaction retires the oldest finished turns, epoch by epoch, and nothing else leaves
\* the history: a kill, a retry, a reset during the wait or another process's epoch never
\* retires a turn twice, skips one, or retires one that is still running.
Retired == INSTANCE RetiredHistory
             WITH finished <- Cardinality({i \in DOMAIN turns : Closed(i)}),
                  retired <- Compacted, epoch <- Len(segments)
RetiresOldest == Retired!Spec

\* The admission of a request ends: epochs are repeated while they retire turns, and then
\* the request is sent or the turn given up.
AdmissionSettles == step \in {"admit", "compacting"} ~> step \notin {"admit", "compacting"}

\* "A lost attempt did not judge the source, so it does not back off": after a restart, an
\* attempt that died with its process does not keep a compaction from being launched.
LostNeverSuppresses ==
  \A p \in Proc : pc[p] = "open" /\ op = NoOp => ~OpenAttempt
=============================================================================
