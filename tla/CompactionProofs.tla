-------------------------- MODULE CompactionProofs --------------------------
(***************************************************************************)
(* Proofs about Compaction.  Shape and Frozen say what the log and the     *)
(* running operation look like between two steps; from them the detailed   *)
(* log is shown to retire the oldest turns only, and to hold at most one   *)
(* open compaction attempt.  Neither needs the session lock; that an       *)
(* operation has one outcome, whoever writes it, does, and so does what    *)
(* Accounts says of the failures: each is paid for in advance, by a turn   *)
(* that closed or by somebody who asked.                                   *)
(***************************************************************************)
EXTENDS Compaction, FiniteSetTheorems, TLAPS

\* Only the last turn may be running, and what was retired is finished.
Shape ==
  /\ \A i \in 1 .. Len(turns) : i < Len(turns) => Closed(i)
  /\ \A i \in Compacted : /\ i \in 1 .. Len(turns) /\ Closed(i)
                          /\ 1 .. i \subseteq Compacted

\* The turns of an operation are the oldest ones left of its reset and epoch.
Frozen ==
  op.at \in {"sent", "repair"} =>
    /\ op.resets <= resets
    /\ op.resets = resets /\ op.epoch = Len(segments) + 1 =>
         /\ op.turns # {}
         /\ \A i \in op.turns : /\ i \in 1 .. Len(turns) /\ Closed(i) /\ i \notin Compacted
                                /\ 1 .. i \subseteq op.turns \cup Compacted

\* An open attempt is the one of the running operation, or the only one.
Single ==
  /\ \A a, b \in Attempt : attempts[a].status = "open" /\ attempts[b].status = "open" => a = b
  /\ op.at = "sent" => \A a \in Attempt : attempts[a].status = "open" => a = op.attempt
  /\ op.at \in {"repair", "supersede"} => ~OpenAttempt

TurnRecord == [mass : Mass, close : Nat]
SegmentRecord == [turns : SUBSET Nat, attempt : Nat, seq : Nat]
RelationRecord == [old : Nat, new : Nat]

LEMMA NoOpAt == NoOp.at = "none" /\ NoOp = [at |-> "none"]
BY DEF NoOp

\* The events keep the types of the log.
LogOK == /\ seq \in Nat /\ resets \in Nat /\ resetAt \in Nat
         /\ turns \in Seq(TurnRecord)
         /\ segments \in Seq(SegmentRecord)
         /\ attempts \in Seq(AttemptRecord)
         /\ relations \in Seq(RelationRecord)

LEMMA AttemptTyped ==
  ASSUME LogOK, NEW a \in Attempt
  PROVE  attempts[a] \in AttemptRecord /\ a \in Nat
BY DEF LogOK, Attempt

\* An attempt that ends keeps the type of an attempt.
LEMMA EndedTyped ==
  ASSUME LogOK, NEW r \in AttemptRecord, NEW s \in Statuses
  PROVE  [r EXCEPT !.status = s, !.end = seq + 1] \in AttemptRecord
<1> DEFINE e == seq + 1
<1>1. e \in Nat
  BY DEF LogOK
<1> HIDE DEF e
<1>2. [r EXCEPT !.status = s] \in AttemptRecord
  BY DEF AttemptRecord
<1>3. [[r EXCEPT !.status = s] EXCEPT !.end = e] \in AttemptRecord
  BY <1>1, <1>2 DEF AttemptRecord
<1>4. [r EXCEPT !.status = s, !.end = e] = [[r EXCEPT !.status = s] EXCEPT !.end = e]
  OBVIOUS
<1> QED
  BY <1>3, <1>4 DEF e

LEMMA StartTyped ==
  ASSUME LogOK, NEW c \in Nat, NEW e \in Nat, NEW n \in Nat, NEW r \in Nat,
         AppendStart(c, e, n, r)
  PROVE  LogOK' /\ Len(attempts') = Len(attempts) + 1
<1> DEFINE new == [operation |-> c, epoch |-> e, number |-> n, retry |-> r,
                   start |-> seq + 1, end |-> 0, status |-> "open"]
<1>1. new \in AttemptRecord
  BY DEF LogOK, AttemptRecord, Statuses
<1>2. attempts' = Append(attempts, new)
  BY DEF AppendStart
<1> HIDE DEF new
<1>3. attempts' \in Seq(AttemptRecord) /\ Len(attempts') = Len(attempts) + 1
  BY <1>1, <1>2 DEF LogOK
<1> QED
  BY <1>3 DEF LogOK, AppendStart

LEMMA EndTyped ==
  ASSUME LogOK, NEW a \in Attempt, NEW s \in Statuses, AppendEnd(a, s)
  PROVE  LogOK' /\ Len(attempts') = Len(attempts)
<1> DEFINE new == [attempts[a] EXCEPT !.status = s, !.end = seq + 1]
<1>2. new \in AttemptRecord
  BY AttemptTyped, EndedTyped
<1>3. attempts' = [attempts EXCEPT ![a] = new]
  BY DEF AppendEnd
<1> HIDE DEF new
<1>4. attempts' \in Seq(AttemptRecord) /\ Len(attempts') = Len(attempts)
  BY <1>2, <1>3 DEF LogOK, Attempt
<1> QED
  BY <1>4 DEF LogOK, AppendEnd

LEMMA SupersededTyped ==
  ASSUME LogOK, NEW a \in Attempt, AppendSuperseded(a)
  PROVE  LogOK'
<1>1. attempts[a].retry \in Nat /\ a \in Nat
  BY AttemptTyped DEF AttemptRecord
<1>2. relations' \in Seq(RelationRecord)
  BY <1>1 DEF LogOK, AppendSuperseded, RelationRecord
<1> QED
  BY <1>2 DEF LogOK, AppendSuperseded

LEMMA CompactedTyped ==
  ASSUME LogOK, NEW a \in Attempt, NEW S \in SUBSET Nat, AppendCompacted(a, S)
  PROVE  LogOK' /\ Len(attempts') = Len(attempts)
<1>1. a \in Nat
  BY AttemptTyped
<1> DEFINE new == [attempts[a] EXCEPT !.status = "accepted", !.end = seq + 1]
<1>2. new \in AttemptRecord
  BY AttemptTyped, EndedTyped DEF Statuses
<1>3. attempts' = [attempts EXCEPT ![a] = new]
  BY DEF AppendCompacted
<1> HIDE DEF new
<1>4. attempts' \in Seq(AttemptRecord) /\ Len(attempts') = Len(attempts)
  BY <1>2, <1>3 DEF LogOK, Attempt
<1> DEFINE seg == [turns |-> S, attempt |-> a, seq |-> seq + 1]
<1>5. seg \in SegmentRecord
  BY <1>1 DEF LogOK, SegmentRecord
<1>6. segments' = Append(segments, seg)
  BY DEF AppendCompacted
<1> HIDE DEF seg
<1>7. segments' \in Seq(SegmentRecord)
  BY <1>5, <1>6 DEF LogOK
<1> QED
  BY <1>4, <1>7 DEF LogOK, AppendCompacted

-----------------------------------------------------------------------------
(* Types *)

LiveOK == /\ pc \in [Proc -> {"away", "recovering", "recovered", "open"}]
          /\ step \in {"idle", "admit", "compacting", "send", "interrupt"}
          /\ stopped \in BOOLEAN /\ readOnly \in BOOLEAN
          /\ asked \in Nat /\ kills \in Nat
OpOK == /\ op \in OpRecord \cup {NoOp}
        /\ op.at \in {"sent", "repair", "supersede"} => op.attempt \in Attempt

LEMMA TypeParts == TypeOK <=> LogOK /\ LiveOK /\ OpOK
BY DEF TypeOK, LogOK, LiveOK, OpOK, TurnRecord, SegmentRecord, RelationRecord

LEMMA Running ==
  ASSUME OpOK, NEW p \in Proc, NEW w \in {"begin", "sent", "repair", "supersede"}, Runs(p, w)
  PROVE  op \in OpRecord /\ op # NoOp
BY DEF OpOK, Runs, NoOp

LEMMA NewOpTyped ==
  ASSUME NEW by \in {"live", "now"}
  PROVE  NewOp(by) \in OpRecord /\ NewOp(by).at = "begin"
BY DEF NewOp, OpRecord

LEMMA AfterTyped ==
  ASSUME NEW outcome \in {"activated", "retained", "unavailable"}
  PROVE  After(outcome) \in {"admit", "send", "interrupt"}
BY DEF After

LEMMA SettleTyped ==
  ASSUME LiveOK, NEW outcome \in {"activated", "retained", "unavailable"}, Settle(outcome),
         UNCHANGED <<pc, bounds>>
  PROVE  LiveOK' /\ OpOK'
<1>1. OpOK'
  BY DEF Settle, OpOK, NoOp
<1>2. step' \in {"idle", "admit", "compacting", "send", "interrupt"}
  BY AfterTyped DEF Settle, LiveOK
<1>3. stopped' \in BOOLEAN
  BY DEF Settle, LiveOK
<1> QED
  BY <1>1, <1>2, <1>3 DEF Settle, LiveOK, bounds

\* The updates of a running operation.
LEMMA MovedTyped ==
  ASSUME NEW o \in OpRecord, NEW w \in {"begin", "sent", "repair", "supersede"}
  PROVE  /\ [o EXCEPT !.at = w] \in OpRecord
         /\ [o EXCEPT !.at = w].at = w
         /\ [o EXCEPT !.at = w].attempt = o.attempt
BY DEF OpRecord

LEMMA RepairedTyped ==
  ASSUME NEW o \in OpRecord, NEW a \in Nat
  PROVE  [o EXCEPT !.at = "sent", !.number = @ + 1, !.attempt = a] \in OpRecord
<1>1. [o EXCEPT !.at = "sent"] \in OpRecord /\ o.number + 1 \in Nat
  BY DEF OpRecord
<1> DEFINE m == o.number + 1
<1> HIDE DEF m
<1>2. [[o EXCEPT !.at = "sent"] EXCEPT !.number = m] \in OpRecord
  BY <1>1 DEF OpRecord, m
<1>3. [[[o EXCEPT !.at = "sent"] EXCEPT !.number = m] EXCEPT !.attempt = a]
        \in OpRecord
  BY <1>2 DEF OpRecord
<1>4. [o EXCEPT !.at = "sent", !.number = @ + 1, !.attempt = a]
        = [[[o EXCEPT !.at = "sent"] EXCEPT !.number = m] EXCEPT !.attempt = a]
  BY DEF OpRecord, m
<1> QED
  BY <1>3, <1>4

LEMMA SelectedTyped == ASSUME LogOK PROVE Selected \in SUBSET Nat
BY DEF LogOK, Selected, Eligible

\* What the first attempt makes of the operation.
FrozenOp(o, n, k, S, r, e) ==
  [o EXCEPT !.at = "sent", !.operation = n, !.number = 1, !.attempt = k, !.turns = S,
            !.resets = r, !.epoch = e]

LEMMA FrozenRecord ==
  ASSUME NEW o \in OpRecord, NEW n \in Nat, NEW k \in Nat, NEW S \in SUBSET Nat,
         NEW r \in Nat, NEW e \in Nat, NEW v, v = FrozenOp(o, n, k, S, r, e)
  PROVE  /\ v \in OpRecord
         /\ v.at = "sent" /\ v.attempt = k /\ v.turns = S /\ v.resets = r /\ v.epoch = e
<1>1. v = [at |-> "sent", by |-> o.by, operation |-> n, number |-> 1, attempt |-> k,
           turns |-> S, resets |-> r, epoch |-> e]
  BY DEF OpRecord, FrozenOp
<1>2. v \in OpRecord
  BY <1>1 DEF OpRecord
<1>3. v.at = "sent" /\ v.attempt = k /\ v.turns = S /\ v.resets = r /\ v.epoch = e
  BY <1>1
<1> QED
  BY <1>2, <1>3

LEMMA BegunTyped ==
  ASSUME LogOK, op \in OpRecord,
         op' = [op EXCEPT !.at = "sent", !.operation = seq + 1, !.number = 1,
                          !.attempt = Len(attempts) + 1, !.turns = Selected,
                          !.resets = resets, !.epoch = Len(segments) + 1]
  PROVE  /\ op' \in OpRecord
         /\ op'.at = "sent" /\ op'.attempt = Len(attempts) + 1 /\ op'.turns = Selected
         /\ op'.resets = resets /\ op'.epoch = Len(segments) + 1
<1>1. /\ seq + 1 \in Nat /\ Len(attempts) + 1 \in Nat /\ Len(segments) + 1 \in Nat
      /\ Selected \in SUBSET Nat /\ resets \in Nat
  BY SelectedTyped DEF LogOK
<1>2. op' = FrozenOp(op, seq + 1, Len(attempts) + 1, Selected, resets, Len(segments) + 1)
  BY DEF FrozenOp
<1> QED
  BY <1>1, <1>2, FrozenRecord

LEMMA TypeInit == Init => TypeOK
<1> SUFFICES ASSUME Init PROVE TypeOK
  OBVIOUS
<1>1. LogOK
  BY DEF Init, LogOK
<1>2. LiveOK
  BY DEF Init, LiveOK
<1>3. OpOK
  BY DEF Init, OpOK, NoOp
<1> QED
  BY <1>1, <1>2, <1>3, TypeParts

LEMMA TypeOpens ==
  ASSUME LogOK, LiveOK, OpOK, NEW p \in Proc, Opens(p)
  PROVE  LogOK' /\ LiveOK' /\ OpOK'
<1>1. CASE Resume(p) \/ Recovered(p) \/ Open(p)
  BY <1>1 DEF Resume, Recovered, Open, Go, log, flags, bounds, LogOK, LiveOK, OpOK, Attempt
<1>2. CASE RecoverAttempt(p)
  <2>1. PICK a \in Attempt : AppendEnd(a, "lost")
    BY <1>2 DEF RecoverAttempt
  <2>2. LogOK' /\ Len(attempts') = Len(attempts)
    BY <2>1, EndTyped DEF Statuses
  <2>3. LiveOK' /\ UNCHANGED op
    BY <1>2 DEF RecoverAttempt, LiveOK, flags, bounds
  <2>4. Attempt' = Attempt
    BY <2>2 DEF Attempt, LogOK
  <2> QED
    BY <2>2, <2>3, <2>4 DEF OpOK
<1>3. CASE RecoverSupersession(p)
  <2>1. PICK a \in Attempt : AppendSuperseded(a)
    BY <1>3 DEF RecoverSupersession
  <2>2. LogOK'
    BY <2>1, SupersededTyped
  <2>3. LiveOK' /\ UNCHANGED op
    BY <1>3 DEF RecoverSupersession, LiveOK, flags, bounds
  <2>4. Attempt' = Attempt
    BY <2>1 DEF Attempt, AppendSuperseded
  <2> QED
    BY <2>2, <2>3, <2>4 DEF OpOK
<1>4. CASE Leave(p) \/ Kill(p)
  <2>1. Gone(p) /\ asked' \in Nat /\ kills' \in Nat
    BY <1>4 DEF Leave, Kill, bounds, LiveOK
  <2>2. LogOK' /\ Attempt' = Attempt
    BY <2>1 DEF Gone, log, LogOK, Attempt
  <2>3. LiveOK'
    BY <2>1 DEF Gone, Go, flags, LiveOK
  <2>4. OpOK'
    BY <2>1, <2>2 DEF Gone, OpOK, NoOp
  <2> QED
    BY <2>2, <2>3, <2>4
<1> QED
  BY <1>1, <1>2, <1>3, <1>4 DEF Opens

LEMMA TypeServes ==
  ASSUME LogOK, LiveOK, OpOK, NEW p \in Proc, Serves(p) \/ Admits(p)
  PROVE  LogOK' /\ LiveOK' /\ OpOK'
<1>1. CASE StartTurn(p)
  <2>1. PICK m \in Mass : turns' = Append(turns, [mass |-> m, close |-> 0])
    BY <1>1 DEF StartTurn
  <2>2. turns' \in Seq(TurnRecord)
    BY <2>1 DEF LogOK, TurnRecord
  <2> QED
    BY <1>1, <2>2 DEF StartTurn, LogOK, LiveOK, OpOK, Attempt, flags, bounds
<1>2. CASE EndTurn(p)
  <2>1. turns' \in Seq(TurnRecord)
    <3>1. turns \in [1 .. Len(turns) -> TurnRecord] /\ Len(turns) \in Nat /\ seq + 1 \in Nat
      BY DEF LogOK
    <3>2. turns' = [turns EXCEPT ![Len(turns)].close = seq + 1]
      BY <1>2 DEF EndTurn
    <3>3. turns' \in [1 .. Len(turns) -> TurnRecord]
      BY <3>1, <3>2 DEF TurnRecord
    <3> QED
      BY <3>1, <3>3
  <2> QED
    BY <1>2, <2>1 DEF EndTurn, LogOK, LiveOK, OpOK, Attempt, flags, bounds
<1>3. CASE ContinueTurn(p) \/ NextRequest(p) \/ Reinstall(p) \/ Admit(p) \/ Fails(p)
  BY <1>3 DEF ContinueTurn, NextRequest, Reinstall, Admit, Fails, log, flags, bounds,
              LogOK, LiveOK, OpOK, Attempt
<1>4. CASE Reset(p)
  BY <1>4 DEF Reset, LogOK, LiveOK, OpOK, Attempt, flags, bounds
<1>5. CASE CompactNow(p) \/ Launch(p)
  <2>1. op' \in OpRecord /\ op'.at = "begin"
    BY <1>5, NewOpTyped DEF CompactNow, Launch
  <2>2. LogOK' /\ LiveOK'
    BY <1>5 DEF CompactNow, Launch, log, flags, bounds, LogOK, LiveOK
  <2> QED
    BY <2>1, <2>2 DEF OpOK
<1> QED
  BY <1>1, <1>2, <1>3, <1>4, <1>5 DEF Serves, Admits

LEMMA TypeCompacts ==
  ASSUME LogOK, LiveOK, OpOK, NEW p \in Proc, Compacts(p)
  PROVE  LogOK' /\ LiveOK' /\ OpOK'
<1>1. CASE Begin(p)
  <2>1. op \in OpRecord
    BY <1>1, Running DEF Begin, Snapshot
  <2>2. op' \in OpRecord /\ op'.attempt = Len(attempts) + 1
    BY <1>1, <2>1, BegunTyped DEF Begin, Snapshot
  <2>3. LogOK' /\ Len(attempts') = Len(attempts) + 1
    <3>1. seq + 1 \in Nat /\ Len(segments) + 1 \in Nat
      BY DEF LogOK
    <3> QED
      BY <1>1, <3>1, StartTyped DEF Begin, Snapshot
  <2>4. op'.attempt \in Attempt'
    BY <2>2, <2>3 DEF LogOK, Attempt
  <2> QED
    BY <1>1, <2>2, <2>3, <2>4 DEF Begin, Snapshot, LiveOK, OpOK, flags, bounds
<1>2. CASE Refused(p) \/ RepairUnplanned(p)
  BY <1>2, SettleTyped DEF Refused, RepairUnplanned, log, LogOK
<1>3. CASE MissCredential(p) \/ CompactorFails(p) \/ SourceChanged(p)
  <2>1. op.attempt \in Attempt
    BY <1>3 DEF MissCredential, CompactorFails, SourceChanged, Runs, OpOK
  <2>2. AppendEnd(op.attempt, "failed") /\ UNCHANGED <<pc, bounds>>
        /\ (Settle("unavailable") \/ Settle("retained"))
    BY <1>3 DEF MissCredential, CompactorFails, SourceChanged
  <2> QED
    BY <2>1, <2>2, EndTyped, SettleTyped DEF Statuses
<1>4. CASE CandidateInvalid(p)
  <2>1. op \in OpRecord /\ op.attempt \in Attempt
    BY <1>4, Running DEF CandidateInvalid, Runs, OpOK
  <2>2. LogOK' /\ Len(attempts') = Len(attempts)
    BY <1>4, <2>1, EndTyped DEF CandidateInvalid, Statuses
  <2>3. op' \in OpRecord /\ op'.attempt = op.attempt
    BY <1>4, <2>1, MovedTyped DEF CandidateInvalid
  <2>4. Attempt' = Attempt
    BY <2>2 DEF LogOK, Attempt
  <2> QED
    BY <1>4, <2>1, <2>2, <2>3, <2>4 DEF CandidateInvalid, LiveOK, OpOK, flags, bounds
<1>5. CASE Repair(p)
  <2>1. op \in OpRecord /\ op.attempt \in Attempt
    BY <1>5, Running DEF Repair, Runs, OpOK
  <2>2. Len(attempts) + 1 \in Nat /\ op.attempt \in Nat
    BY <2>1, AttemptTyped DEF LogOK
  <2>3. /\ op.operation \in Nat /\ op.epoch \in Nat /\ op.number + 1 \in Nat
    BY <2>1 DEF OpRecord
  <2>4. LogOK' /\ Len(attempts') = Len(attempts) + 1
    BY <1>5, <2>2, <2>3, StartTyped DEF Repair
  <2>5. op' \in OpRecord /\ op'.attempt = Len(attempts) + 1
    <3>1. op' \in OpRecord
      BY <1>5, <2>1, <2>2, RepairedTyped DEF Repair
    <3>2. op'.attempt = Len(attempts) + 1
      BY <1>5, <2>1 DEF Repair, OpRecord
    <3> QED
      BY <3>1, <3>2
  <2>6. op'.attempt \in Attempt'
    BY <2>4, <2>5 DEF LogOK, Attempt
  <2> QED
    BY <1>5, <2>4, <2>5, <2>6 DEF Repair, LiveOK, OpOK, flags, bounds
<1>6. CASE Activate(p)
  <2>1. op \in OpRecord /\ op.attempt \in Attempt /\ op.turns \in SUBSET Nat
    BY <1>6, Running DEF Activate, Runs, OpOK, OpRecord
  <2>2. LogOK' /\ Len(attempts') = Len(attempts)
    BY <1>6, <2>1, CompactedTyped DEF Activate
  <2>3. Attempt' = Attempt
    BY <2>2 DEF LogOK, Attempt
  <2>4. CASE op.number > 1
    <3>1. op' \in OpRecord /\ op'.attempt = op.attempt
      BY <1>6, <2>1, <2>4, MovedTyped DEF Activate
    <3> QED
      BY <1>6, <2>1, <2>2, <2>3, <2>4, <3>1 DEF Activate, LiveOK, OpOK, flags, bounds
  <2>5. CASE ~(op.number > 1)
    BY <1>6, <2>2, <2>5, SettleTyped DEF Activate
  <2> QED
    BY <2>4, <2>5
<1>7. CASE Supersede(p)
  <2>1. op.attempt \in Attempt
    BY <1>7 DEF Supersede, Runs, OpOK
  <2> QED
    BY <1>7, <2>1, SupersededTyped, SettleTyped DEF Supersede
<1>8. CASE SupersedeFails(p)
  <2>1. After("activated") \in {"admit", "send", "interrupt"}
    BY AfterTyped
  <2> QED
    BY <1>8, <2>1 DEF SupersedeFails, log, LogOK, LiveOK, OpOK, bounds, NoOp
<1> QED
  BY <1>1, <1>2, <1>3, <1>4, <1>5, <1>6, <1>7, <1>8 DEF Compacts

LEMMA TypeStep == TypeOK /\ [Next]_vars => TypeOK'
<1> SUFFICES ASSUME LogOK, LiveOK, OpOK, [Next]_vars PROVE LogOK' /\ LiveOK' /\ OpOK'
  BY DEF TypeOK, LogOK, LiveOK, OpOK, TurnRecord, SegmentRecord, RelationRecord
<1>1. CASE UNCHANGED vars
  BY <1>1 DEF vars, log, flags, bounds, LogOK, LiveOK, OpOK, Attempt
<1>2. CASE Next
  BY <1>2, TypeOpens, TypeServes, TypeCompacts DEF Next
<1> QED
  BY <1>1, <1>2

\* Every state a session reaches is typed, and a running operation names an attempt of the
\* log: activation and repair never refer to an attempt nobody started.
THEOREM SpecTypeOK == Spec => []TypeOK
<1>1. Init => TypeOK
  BY TypeInit
<1>2. TypeOK /\ [Next]_vars => TypeOK'
  BY TypeStep
<1> QED
  BY <1>1, <1>2, PTL DEF Spec

-----------------------------------------------------------------------------
(* One open attempt *)

IsOpen(a) == attempts[a].status = "open"

LEMMA OpenStarts ==
  ASSUME LogOK, NEW c \in Nat, NEW e \in Nat, NEW n \in Nat, NEW r \in Nat,
         AppendStart(c, e, n, r)
  PROVE  /\ Attempt' = Attempt \cup {Len(attempts) + 1}
         /\ Len(attempts) + 1 \notin Attempt
         /\ \A a \in Attempt : IsOpen(a)' <=> IsOpen(a)
<1>1. /\ Len(attempts') = Len(attempts) + 1
      /\ \A a \in 1 .. Len(attempts) : attempts'[a] = attempts[a]
  BY DEF AppendStart, LogOK
<1>2. Attempt = 1 .. Len(attempts) /\ Attempt' = 1 .. Len(attempts') /\ Len(attempts) \in Nat
  BY StartTyped DEF Attempt, LogOK
<1> QED
  BY <1>1, <1>2 DEF IsOpen

LEMMA OpenEnds ==
  ASSUME LogOK, NEW x \in Attempt, NEW s \in {"failed", "lost", "accepted"},
         attempts' = [attempts EXCEPT ![x].status = s, ![x].end = seq + 1]
  PROVE  /\ Attempt' = Attempt
         /\ \A a \in Attempt : IsOpen(a)' <=> IsOpen(a) /\ a # x
<1>1. attempts \in [Attempt -> AttemptRecord] /\ Attempt = 1 .. Len(attempts)
  BY DEF LogOK, Attempt
<1>2. Attempt' = Attempt
  BY DEF Attempt
<1>3. ASSUME NEW a \in Attempt, a # x PROVE attempts'[a] = attempts[a]
  BY <1>1, <1>3
<1>4. attempts'[x].status = s
  BY <1>1 DEF AttemptRecord
<1> QED
  BY <1>2, <1>3, <1>4 DEF IsOpen

\* Steps that open no attempt and leave the operation where it was, or without one.
LEMMA SingleKept ==
  ASSUME Single, Attempt' = Attempt, \A a \in Attempt : IsOpen(a)' => IsOpen(a),
         op' = op \/ op'.at \in {"none", "begin"}
  PROVE  Single'
BY DEF Single, OpenAttempt, IsOpen

LEMMA SingleStarted ==
  ASSUME LogOK, Single, ~OpenAttempt,
         NEW c \in Nat, NEW e \in Nat, NEW n \in Nat, NEW r \in Nat,
         AppendStart(c, e, n, r), op'.at = "sent", op'.attempt = Len(attempts) + 1
  PROVE  Single'
<1>1. ASSUME NEW a \in Attempt', IsOpen(a)' PROVE a = Len(attempts) + 1
  BY <1>1, OpenStarts DEF OpenAttempt, IsOpen
<1> QED
  BY <1>1 DEF Single, IsOpen

LEMMA SingleStep == LogOK /\ LiveOK /\ OpOK /\ Single /\ [Next]_vars => Single'
<1> SUFFICES ASSUME LogOK, LiveOK, OpOK, Single, [Next]_vars PROVE Single'
  OBVIOUS
<1>1. CASE UNCHANGED <<attempts, op>>
  BY <1>1, SingleKept DEF Attempt, IsOpen
<1>2. ASSUME NEW p \in Proc, Opens(p) PROVE Single'
  <2>1. CASE Resume(p) \/ Recovered(p) \/ Open(p) \/ RecoverSupersession(p)
    BY <1>1, <2>1 DEF Resume, Recovered, Open, RecoverSupersession, log, AppendSuperseded
  <2>2. CASE RecoverAttempt(p)
    <3>1. PICK a \in Attempt : AppendEnd(a, "lost")
      BY <2>2 DEF RecoverAttempt
    <3>2. Attempt' = Attempt /\ \A b \in Attempt : IsOpen(b)' => IsOpen(b)
      BY <3>1, OpenEnds DEF AppendEnd
    <3> QED
      BY <2>2, <3>2, SingleKept DEF RecoverAttempt
  <2>3. CASE Leave(p) \/ Kill(p)
    <3>1. UNCHANGED attempts /\ (op' = op \/ op' = NoOp)
      BY <2>3 DEF Leave, Kill, Gone, log
    <3> QED
      BY <3>1, SingleKept DEF Attempt, IsOpen, NoOp
  <2> QED
    BY <1>2, <2>1, <2>2, <2>3 DEF Opens
<1>3. ASSUME NEW p \in Proc, Serves(p) \/ Admits(p) PROVE Single'
  <2>1. CASE CompactNow(p) \/ Launch(p)
    <3>1. UNCHANGED attempts /\ op'.at = "begin"
      BY <2>1, NewOpTyped DEF CompactNow, Launch, log
    <3> QED
      BY <3>1, SingleKept DEF Attempt, IsOpen
  <2>2. CASE UNCHANGED <<attempts, op>>
    BY <1>1, <2>2
  <2> QED
    BY <1>3, <2>1, <2>2 DEF Serves, Admits, StartTurn, ContinueTurn, NextRequest, EndTurn,
                            Reinstall, Reset, Admit, Fails, log
<1>4. ASSUME NEW p \in Proc, Compacts(p) PROVE Single'
  <2>1. CASE Begin(p)
    <3>1. seq + 1 \in Nat /\ Len(segments) + 1 \in Nat /\ op \in OpRecord
      BY <2>1, Running DEF LogOK, Begin, Snapshot
    <3>2. op'.at = "sent" /\ op'.attempt = Len(attempts) + 1
      BY <2>1, <3>1, BegunTyped DEF Begin, Snapshot
    <3> QED
      BY <2>1, <3>1, <3>2, SingleStarted DEF Begin, Snapshot
  <2>2. CASE Refused(p) \/ RepairUnplanned(p) \/ Supersede(p) \/ SupersedeFails(p)
    <3>1. UNCHANGED attempts /\ op' = NoOp
      BY <2>2 DEF Refused, RepairUnplanned, Supersede, SupersedeFails, Settle, log,
                  AppendSuperseded
    <3> QED
      BY <3>1, SingleKept DEF Attempt, IsOpen, NoOp
  <2>3. CASE MissCredential(p) \/ CompactorFails(p) \/ SourceChanged(p)
    <3>1. op.attempt \in Attempt /\ AppendEnd(op.attempt, "failed") /\ op' = NoOp
      BY <2>3 DEF MissCredential, CompactorFails, SourceChanged, Runs, OpOK, Settle
    <3>2. Attempt' = Attempt /\ \A b \in Attempt : IsOpen(b)' => IsOpen(b)
      BY <3>1, OpenEnds DEF AppendEnd
    <3> QED
      BY <3>1, <3>2, SingleKept DEF NoOp
  <2>4. CASE CandidateInvalid(p)
    <3>1. op.at = "sent" /\ op \in OpRecord /\ op.attempt \in Attempt
      BY <2>4, Running DEF CandidateInvalid, Runs, OpOK
    <3>2. Attempt' = Attempt /\ \A b \in Attempt : ~IsOpen(b)'
      <4>1. \A b \in Attempt : IsOpen(b) => b = op.attempt
        BY <3>1 DEF Single, IsOpen
      <4> QED
        BY <2>4, <3>1, <4>1, OpenEnds DEF CandidateInvalid, AppendEnd
    <3>3. op'.at = "repair"
      BY <2>4, <3>1, MovedTyped DEF CandidateInvalid
    <3> QED
      BY <3>2, <3>3 DEF Single, OpenAttempt, IsOpen
  <2>5. CASE Repair(p)
    <3>1. op \in OpRecord /\ op.at = "repair" /\ op.attempt \in Nat
      BY <2>5, Running, AttemptTyped DEF Repair, Runs, OpOK
    <3>2. op.operation \in Nat /\ op.epoch \in Nat /\ op.number + 1 \in Nat
      BY <3>1 DEF OpRecord
    <3>3. op'.at = "sent" /\ op'.attempt = Len(attempts) + 1
      BY <2>5, <3>1 DEF Repair, OpRecord
    <3>4. ~OpenAttempt
      BY <3>1 DEF Single
    <3> QED
      BY <2>5, <3>1, <3>2, <3>3, <3>4, SingleStarted DEF Repair
  <2>6. CASE Activate(p)
    <3>1. op.at = "sent" /\ op \in OpRecord /\ op.attempt \in Attempt
      BY <2>6, Running DEF Activate, Runs, OpOK
    <3>2. Attempt' = Attempt /\ \A b \in Attempt : ~IsOpen(b)'
      <4>1. \A b \in Attempt : IsOpen(b) => b = op.attempt
        BY <3>1 DEF Single, IsOpen
      <4> QED
        BY <2>6, <3>1, <4>1, OpenEnds DEF Activate, AppendCompacted
    <3>3. op'.at = "supersede" \/ op' = NoOp
      BY <2>6, <3>1, MovedTyped DEF Activate, Settle
    <3> QED
      BY <3>2, <3>3 DEF Single, OpenAttempt, IsOpen, NoOp
  <2> QED
    BY <1>4, <2>1, <2>2, <2>3, <2>4, <2>5, <2>6 DEF Compacts
<1>5. CASE UNCHANGED vars
  BY <1>1, <1>5 DEF vars, log
<1> QED
  BY <1>2, <1>3, <1>4, <1>5 DEF Next

\* Whoever holds the log, and whatever a killed process left in it, at most one compaction
\* attempt is open.
THEOREM SpecOneAttemptOpen == Spec => []OneAttemptOpen
<1>1. Init => TypeOK /\ Single
  <2> SUFFICES ASSUME Init PROVE Single
    BY TypeInit
  <2> QED
    BY DEF Init, Single, Attempt, NoOp, OpenAttempt
<1>2. TypeOK /\ Single /\ [Next]_vars => (TypeOK /\ Single)'
  BY TypeStep, SingleStep, TypeParts
<1>3. TypeOK /\ Single => OneAttemptOpen
  <2> SUFFICES ASSUME TypeOK, Single PROVE OneAttemptOpen
    OBVIOUS
  <2> DEFINE O == {a \in Attempt : attempts[a].status = "open"}
  <2>1. CASE O = {}
    BY <2>1, FS_EmptySet DEF OneAttemptOpen
  <2>2. CASE O # {}
    <3>1. PICK a \in O : TRUE
      BY <2>2
    <3>2. O = {a}
      BY <3>1 DEF Single
    <3>3. Cardinality({a}) = 1
      BY FS_Singleton
    <3> QED
      BY <3>2, <3>3 DEF OneAttemptOpen
  <2> QED
    BY <2>1, <2>2
<1> QED
  BY <1>1, <1>2, <1>3, PTL DEF Spec

-----------------------------------------------------------------------------
(* The oldest turns are retired *)

\* A driver that is not idle drives the turn that is running.
Driven == step # "idle" => Active

Oldest == Shape /\ Frozen /\ Driven

LEMMA CompactedKept == ASSUME UNCHANGED segments PROVE Compacted' = Compacted
BY DEF Compacted

LEMMA CompactedGrows ==
  ASSUME LogOK, NEW a \in Attempt, NEW S \in SUBSET Nat, AppendCompacted(a, S)
  PROVE  Compacted' = Compacted \cup S
<1> DEFINE seg == [turns |-> S, attempt |-> a, seq |-> seq + 1]
<1>1. segments' = Append(segments, seg) /\ segments \in Seq(SegmentRecord)
  BY DEF AppendCompacted, LogOK
<1>2. seg.turns = S
  OBVIOUS
<1> HIDE DEF seg
<1>3. /\ DOMAIN segments' = DOMAIN segments \cup {Len(segments) + 1}
      /\ \A i \in DOMAIN segments : segments'[i] = segments[i]
      /\ segments'[Len(segments) + 1] = seg
  BY <1>1
<1> QED
  BY <1>2, <1>3 DEF Compacted

\* What select_turns selects: a block of finished turns, the oldest ones not retired.
LEMMA SelectedOldest ==
  ASSUME LogOK, Shape, NEW i \in Selected
  PROVE  /\ i \in 1 .. Len(turns) /\ Closed(i) /\ i \notin Compacted
         /\ 1 .. i \subseteq Selected \cup Compacted
<1>1. DOMAIN turns = 1 .. Len(turns) /\ Len(turns) \in Nat
  BY DEF LogOK
<1>2. i \in 1 .. Len(turns) /\ i \notin Compacted /\ Closed(i)
  BY <1>1 DEF Selected, Eligible
<1>3. ASSUME NEW j \in 1 .. i, j \notin Compacted PROVE j \in Selected
  <2>1. j \in Eligible
    BY <1>1, <1>2, <1>3 DEF Selected, Eligible
  <2>2. \A k \in Eligible : k \in Nat /\ (k <= j => k <= i)
    BY <1>1, <1>2 DEF Eligible
  <2> QED
    BY <2>1, <2>2 DEF Selected
<1> QED
  BY <1>2, <1>3

\* Steps that leave turns, segments and the reset epoch alone.
LEMMA OldestKept ==
  ASSUME Oldest, UNCHANGED <<turns, segments, resets>>,
         step' # "idle" => step # "idle",
         \/ op' = op
         \/ op'.at \notin {"sent", "repair"}
         \/ /\ op.at \in {"sent", "repair"}
            /\ op'.turns = op.turns /\ op'.resets = op.resets /\ op'.epoch = op.epoch
  PROVE  Oldest'
<1>1. Compacted' = Compacted
  BY CompactedKept
<1>2. Shape'
  BY <1>1 DEF Oldest, Shape, Closed
<1>3. Driven'
  BY DEF Oldest, Driven, Active, Closed
<1>4. Frozen'
  BY <1>1 DEF Oldest, Frozen, Closed
<1> QED
  BY <1>2, <1>3, <1>4 DEF Oldest

\* Turns only grow and stay closed.
LEMMA FrozenKept ==
  ASSUME Frozen, LogOK, LogOK', UNCHANGED <<op, segments, resets>>, Len(turns) <= Len(turns'),
         \A i \in 1 .. Len(turns) : Closed(i) => Closed(i)'
  PROVE  Frozen'
<1>1. Compacted' = Compacted
  BY CompactedKept
<1>2. Len(turns) \in Nat /\ Len(turns') \in Nat
  BY DEF LogOK
<1> QED
  BY <1>1, <1>2 DEF Frozen

LEMMA OldestOpens ==
  ASSUME Oldest, NEW p \in Proc, Opens(p)
  PROVE  Oldest' /\ UNCHANGED <<turns, segments, resets>>
<1>1. UNCHANGED <<turns, segments, resets>>
  BY DEF Opens, Resume, RecoverAttempt, RecoverSupersession, Recovered, Open, Leave, Kill, Gone,
         AppendEnd, AppendSuperseded, log
<1>2. (op' = op /\ step' = step) \/ (op' = NoOp /\ step' = "idle")
  <2>1. CASE Leave(p) \/ Kill(p)
    <3>1. Gone(p)
      BY <2>1 DEF Leave, Kill
    <3> QED
      BY <3>1 DEF Gone, flags
  <2>2. CASE UNCHANGED <<op, step>>
    BY <2>2
  <2> QED
    BY <2>1, <2>2 DEF Opens, Resume, RecoverAttempt, RecoverSupersession, Recovered, Open
<1> QED
  BY <1>1, <1>2, OldestKept DEF NoOp

LEMMA OldestStartTurn ==
  ASSUME LogOK, LogOK', Oldest, NEW p \in Proc, StartTurn(p)
  PROVE  Oldest' /\ ~Active /\ Active' /\ Len(turns') = Len(turns) + 1
<1>1. PICK m \in Mass : turns' = Append(turns, [mass |-> m, close |-> 0])
  BY DEF StartTurn
<1>2. /\ Len(turns') = Len(turns) + 1 /\ Len(turns) \in Nat
      /\ \A i \in 1 .. Len(turns) : turns'[i] = turns[i]
      /\ turns'[Len(turns')].close = 0
  BY <1>1 DEF LogOK
<1>3. ~Active /\ UNCHANGED <<segments, resets, op>>
  BY DEF StartTurn
<1>4. \A i \in 1 .. Len(turns) : Closed(i) /\ Closed(i)'
  <2>1. turns = <<>> \/ Closed(Len(turns))
    BY <1>3 DEF Active
  <2>2. \A i \in 1 .. Len(turns) : Closed(i)
    BY <1>2, <2>1 DEF Oldest, Shape
  <2> QED
    BY <1>2, <2>2 DEF Closed
<1>5. Active'
  BY <1>2 DEF Active, Closed
<1>6. Compacted' = Compacted
  BY <1>3, CompactedKept
<1>7. Shape'
  BY <1>2, <1>4, <1>6 DEF Oldest, Shape
<1>8. Frozen'
  BY <1>2, <1>3, <1>4, FrozenKept DEF Oldest
<1> QED
  BY <1>2, <1>3, <1>5, <1>7, <1>8 DEF Oldest, Driven

LEMMA OldestEndTurn ==
  ASSUME LogOK, LogOK', Oldest, NEW p \in Proc, EndTurn(p)
  PROVE  Oldest' /\ Active /\ ~Active' /\ Len(turns') = Len(turns)
<1>1. Active
  BY DEF EndTurn, Oldest, Driven
<1>2. turns' = [turns EXCEPT ![Len(turns)].close = seq + 1] /\ seq + 1 # 0
  BY DEF EndTurn, LogOK
<1>3. /\ Len(turns') = Len(turns) /\ Len(turns) \in Nat \ {0}
      /\ \A i \in 1 .. Len(turns) : i # Len(turns) => turns'[i] = turns[i]
      /\ turns'[Len(turns)].close = seq + 1
  <2>1. turns \in [1 .. Len(turns) -> TurnRecord] /\ Len(turns) \in Nat \ {0}
    BY <1>1 DEF LogOK, Active
  <2> QED
    BY <1>2, <2>1 DEF TurnRecord
<1>4. \A i \in 1 .. Len(turns) : Closed(i)'
  BY <1>2, <1>3 DEF Oldest, Shape, Closed
<1>5. ~Active'
  BY <1>3, <1>4 DEF Active
<1>6. UNCHANGED <<segments, resets, op>> /\ step' = "idle"
  BY DEF EndTurn
<1>7. Compacted' = Compacted
  BY <1>6, CompactedKept
<1>8. Shape'
  BY <1>3, <1>4, <1>7 DEF Oldest, Shape
<1>9. Frozen'
  BY <1>3, <1>4, <1>6, FrozenKept DEF Oldest
<1> QED
  BY <1>1, <1>3, <1>5, <1>6, <1>8, <1>9 DEF Oldest, Driven

LEMMA OldestReset ==
  ASSUME LogOK, OpOK, Oldest, NEW p \in Proc, Reset(p)
  PROVE  Oldest' /\ turns' = <<>> /\ Compacted' = {} /\ Len(segments') = 0
<1>1. /\ turns' = <<>> /\ segments' = <<>> /\ resets' = resets + 1
      /\ UNCHANGED <<op, step>> /\ step = "idle"
  BY DEF Reset
<1>2. Compacted' = {}
  BY <1>1 DEF Compacted
<1>3. Shape'
  BY <1>1, <1>2 DEF Shape
<1>4. ASSUME op.at \in {"sent", "repair"} PROVE op.resets <= resets' /\ op.resets # resets'
  <2>1. op.resets <= resets /\ resets \in Nat /\ op.resets \in Nat
    BY <1>4 DEF Oldest, Frozen, LogOK, OpOK, OpRecord, NoOp
  <2> QED
    BY <1>1, <2>1
<1>5. Frozen'
  BY <1>1, <1>4 DEF Frozen
<1> QED
  BY <1>1, <1>2, <1>3, <1>5 DEF Oldest, Driven

\* The driver stands still while its own compaction runs.
Steered == op.at # "none" /\ op.by = "live" => step # "idle"

LEMMA SteeredStep == OpOK /\ Steered /\ [Next]_vars => Steered'
<1> SUFFICES ASSUME OpOK, Steered, [Next]_vars PROVE Steered'
  OBVIOUS
<1>1. CASE UNCHANGED vars
  BY <1>1 DEF vars, Steered
<1>2. ASSUME NEW p \in Proc, Opens(p) PROVE Steered'
  <2>1. CASE Leave(p) \/ Kill(p)
    <3>1. Gone(p)
      BY <2>1 DEF Leave, Kill
    <3> QED
      BY <3>1 DEF Gone, flags, Steered, NoOp
  <2>2. CASE UNCHANGED <<op, step>>
    BY <2>2 DEF Steered
  <2> QED
    BY <1>2, <2>1, <2>2 DEF Opens, Resume, RecoverAttempt, RecoverSupersession, Recovered, Open
<1>3. ASSUME NEW p \in Proc, Serves(p) \/ Admits(p) PROVE Steered'
  <2>1. CASE Launch(p)
    BY <2>1 DEF Launch, Steered
  <2>2. CASE CompactNow(p)
    BY <2>2 DEF CompactNow, NewOp, Steered
  <2>3. CASE Drives(p) /\ UNCHANGED op
    BY <2>3 DEF Drives, Steered, NoOp
  <2> QED
    BY <1>3, <2>1, <2>2, <2>3
       DEF Serves, Admits, StartTurn, ContinueTurn, NextRequest, EndTurn, Reinstall, Reset,
           Admit, Fails, Writes
<1>4. ASSUME NEW p \in Proc, Compacts(p) PROVE Steered'
  <2>1. CASE op' = NoOp
    BY <2>1 DEF Steered, NoOp
  <2>2. CASE Begin(p) \/ CandidateInvalid(p) \/ Repair(p)
    <3>1. op \in OpRecord /\ op.at # "none"
      BY <2>2, Running DEF Begin, Snapshot, CandidateInvalid, Repair, Runs
    <3>2. UNCHANGED step
      BY <2>2 DEF Begin, Snapshot, CandidateInvalid, Repair
    <3>3. op'.by = op.by
      BY <2>2, <3>1 DEF Begin, Snapshot, CandidateInvalid, Repair, OpRecord
    <3> QED
      BY <3>1, <3>2, <3>3 DEF Steered
  <2>3. CASE Activate(p) /\ op' # NoOp
    <3>1. op \in OpRecord /\ op.at # "none"
      BY <2>3, Running DEF Activate, Runs
    <3>2. op' = [op EXCEPT !.at = "supersede"] /\ UNCHANGED step
      BY <2>3 DEF Activate, Settle
    <3>3. op'.by = op.by
      BY <3>1, <3>2 DEF OpRecord
    <3> QED
      BY <3>1, <3>2, <3>3 DEF Steered
  <2> QED
    BY <1>4, <2>1, <2>2, <2>3 DEF Compacts, Refused, MissCredential, CompactorFails,
       RepairUnplanned, SourceChanged, Supersede, SupersedeFails, Settle
<1> QED
  BY <1>1, <1>2, <1>3, <1>4 DEF Next

LEMMA OldestDrives ==
  ASSUME LogOK, Oldest, NEW p \in Proc,
         \/ Admits(p)
         \/ ContinueTurn(p) \/ NextRequest(p) \/ Reinstall(p) \/ CompactNow(p)
  PROVE  Oldest' /\ UNCHANGED <<turns, segments, resets>>
<1>1. UNCHANGED <<turns, segments, resets>>
  BY DEF Admits, Admit, Fails, Launch, ContinueTurn, NextRequest, Reinstall, CompactNow, log
<1>2. op' = op \/ op'.at = "begin"
  BY NewOpTyped DEF Admits, Admit, Fails, Launch, ContinueTurn, NextRequest, Reinstall, CompactNow
<1>3. CASE ContinueTurn(p)
  <2>1. Active /\ UNCHANGED op
    BY <1>3 DEF ContinueTurn
  <2>2. Compacted' = Compacted
    BY <1>1, CompactedKept
  <2>3. Shape' /\ Frozen' /\ Active'
    BY <1>1, <2>1, <2>2 DEF Oldest, Shape, Frozen, Active, Closed
  <2> QED
    BY <1>1, <2>3 DEF Oldest, Driven
<1>4. CASE ~ContinueTurn(p)
  <2>1. step' # "idle" => step # "idle"
    BY <1>4 DEF Admits, Admit, Fails, Launch, NextRequest, Reinstall, CompactNow
  <2> QED
    BY <1>1, <1>2, <2>1, OldestKept
<1> QED
  BY <1>3, <1>4

\* The driver goes on with its turn when its compaction is over.
LEMMA SettleSteered ==
  ASSUME Steered, op.at # "none", NEW outcome, Settle(outcome)
  PROVE  op' = NoOp /\ (step' # "idle" => step # "idle")
BY DEF Settle, Steered

LEMMA OldestBegin ==
  ASSUME LogOK, OpOK, Oldest, NEW p \in Proc, Begin(p)
  PROVE  Oldest' /\ UNCHANGED <<turns, segments, resets>>
<1>1. UNCHANGED <<turns, segments, resets, step>>
  BY DEF Begin, Snapshot, AppendStart
<1>2. op \in OpRecord
  BY Running DEF Begin, Snapshot
<1>3. op'.at = "sent" /\ op'.turns = Selected /\ op'.resets = resets
      /\ op'.epoch = Len(segments) + 1
  BY <1>2, BegunTyped DEF Begin, Snapshot
<1>4. Selected # {}
  BY DEF Begin, Snapshot
<1>5. Compacted' = Compacted
  BY <1>1, CompactedKept
<1>6. Shape' /\ Driven'
  BY <1>1, <1>5 DEF Oldest, Shape, Driven, Active, Closed
<1>7. \A i \in Selected : /\ i \in 1 .. Len(turns) /\ Closed(i) /\ i \notin Compacted
                          /\ 1 .. i \subseteq Selected \cup Compacted
  BY SelectedOldest DEF Oldest
<1>8. resets <= resets
  BY DEF LogOK
<1>9. Frozen'
  BY <1>1, <1>3, <1>4, <1>5, <1>7, <1>8 DEF Frozen, Closed
<1> QED
  BY <1>1, <1>6, <1>9 DEF Oldest

\* The frozen turns, looked at again, are the oldest ones left.
LEMMA OldestActivate ==
  ASSUME LogOK, OpOK, Oldest, Steered, NEW p \in Proc, Activate(p)
  PROVE  /\ Oldest' /\ UNCHANGED <<turns, resets>>
         /\ Compacted' = Compacted \cup op.turns /\ Len(segments') = Len(segments) + 1
         /\ op.turns # {}
         /\ \A i \in op.turns : /\ i \in 1 .. Len(turns) /\ Closed(i) /\ i \notin Compacted
                                /\ 1 .. i \subseteq op.turns \cup Compacted
<1>1. op \in OpRecord /\ op.at = "sent" /\ op.attempt \in Attempt /\ op.turns \in SUBSET Nat
  BY Running DEF Activate, Runs, OpOK, OpRecord
<1>2. AppendCompacted(op.attempt, op.turns)
  BY DEF Activate
<1>3. Compacted' = Compacted \cup op.turns
  BY <1>1, <1>2, CompactedGrows
<1>4. UNCHANGED <<turns, resets>> /\ Len(segments') = Len(segments) + 1
  BY <1>2 DEF AppendCompacted, LogOK
<1>5. op.resets = resets /\ op.epoch = Len(segments) + 1
  BY DEF Activate, SourceUnchanged
<1>6. op.turns # {} /\ \A i \in op.turns :
         /\ i \in 1 .. Len(turns) /\ Closed(i) /\ i \notin Compacted
         /\ 1 .. i \subseteq op.turns \cup Compacted
  BY <1>1, <1>5 DEF Oldest, Frozen
<1>7. Shape'
  BY <1>3, <1>4, <1>6 DEF Oldest, Shape, Closed
<1>8. op'.at \notin {"sent", "repair"} /\ (step' # "idle" => step # "idle")
  <2>1. CASE op.number > 1
    BY <1>1, <2>1, MovedTyped DEF Activate
  <2>2. CASE ~(op.number > 1)
    BY <1>1, <2>2, SettleSteered DEF Activate, NoOp
  <2> QED
    BY <2>1, <2>2
<1>9. Frozen' /\ Driven'
  BY <1>4, <1>8 DEF Oldest, Frozen, Driven, Active, Closed
<1> QED
  BY <1>3, <1>4, <1>6, <1>7, <1>9 DEF Oldest

LEMMA OldestRuns ==
  ASSUME LogOK, OpOK, Oldest, Steered, NEW p \in Proc, Compacts(p), ~Begin(p), ~Activate(p)
  PROVE  Oldest' /\ UNCHANGED <<turns, segments, resets>>
<1>1. UNCHANGED <<turns, segments, resets>>
  BY DEF Compacts, Refused, MissCredential, CompactorFails, CandidateInvalid, Repair,
         RepairUnplanned, SourceChanged, Supersede, SupersedeFails, AppendEnd, AppendStart,
         AppendSuperseded, log
<1>2. CASE CandidateInvalid(p) \/ Repair(p)
  <2>1. op \in OpRecord /\ op.at \in {"sent", "repair"} /\ UNCHANGED step
    BY <1>2, Running DEF CandidateInvalid, Repair, Runs
  <2>2. op'.turns = op.turns /\ op'.resets = op.resets /\ op'.epoch = op.epoch
    BY <1>2, <2>1 DEF CandidateInvalid, Repair, OpRecord
  <2> QED
    BY <1>1, <2>1, <2>2, OldestKept
<1>3. CASE SupersedeFails(p)
  <2>1. op' = NoOp /\ (step' # "idle" => step # "idle")
    BY <1>3 DEF SupersedeFails, Runs, Steered
  <2> QED
    BY <1>1, <2>1, OldestKept DEF NoOp
<1>4. CASE \E outcome \in {"retained", "activated", "unavailable"} : Settle(outcome) /\ op.at # "none"
  <2>1. op' = NoOp /\ (step' # "idle" => step # "idle")
    BY <1>4, SettleSteered
  <2> QED
    BY <1>1, <2>1, OldestKept DEF NoOp
<1> QED
  BY <1>2, <1>3, <1>4
     DEF Compacts, Refused, MissCredential, CompactorFails, RepairUnplanned, SourceChanged,
         Supersede, Runs

-----------------------------------------------------------------------------
(* The refinement *)

Finished == Cardinality({i \in DOMAIN turns : Closed(i)})

\* How many turns have ended, when only the last may be running.
LEMMA ClosedCounted ==
  ASSUME NEW T \in Seq(TurnRecord), \A i \in 1 .. Len(T) : i < Len(T) => T[i].close # 0,
         NEW n, n = IF T # <<>> /\ T[Len(T)].close = 0 THEN Len(T) - 1 ELSE Len(T)
  PROVE  /\ Cardinality({i \in DOMAIN T : T[i].close # 0}) = n
         /\ \A i \in 1 .. Len(T) : T[i].close # 0 <=> i \in 1 .. n
<1> DEFINE l == Len(T)
<1>1. DOMAIN T = 1 .. l /\ l \in Nat /\ (T = <<>> <=> l = 0)
  OBVIOUS
<1>2. n = IF l # 0 /\ T[l].close = 0 THEN l - 1 ELSE l
  BY <1>1
<1>3. \A i \in 1 .. l : i < l => T[i].close # 0
  OBVIOUS
<1> HIDE DEF l
<1>6. n \in Nat
  BY <1>1, <1>2
<1>7. \A i \in 1 .. l : T[i].close # 0 <=> i \in 1 .. n
  <2>1. CASE l # 0 /\ T[l].close = 0
    <3>1. n = l - 1
      BY <1>2, <2>1
    <3> QED
      BY <1>1, <1>3, <2>1, <3>1
  <2>2. CASE ~(l # 0 /\ T[l].close = 0)
    <3>1. n = l
      BY <1>2, <2>2
    <3> QED
      BY <1>1, <1>3, <2>2, <3>1
  <2> QED
    BY <2>1, <2>2
<1>4. {i \in DOMAIN T : T[i].close # 0} = 1 .. n
  BY <1>1, <1>6, <1>7
<1>5. Cardinality(1 .. n) = n
  BY <1>6, FS_Interval
<1> QED
  BY <1>4, <1>5, <1>7 DEF l

LEMMA FinishedIs ==
  ASSUME LogOK, Shape
  PROVE  /\ Finished = IF Active THEN Len(turns) - 1 ELSE Len(turns)
         /\ \A i \in 1 .. Len(turns) : Closed(i) <=> i \in 1 .. Finished
BY ClosedCounted DEF LogOK, Shape, Finished, Active, Closed

LEMMA FinishedNext ==
  ASSUME LogOK', Shape'
  PROVE  Finished' = IF Active' THEN Len(turns') - 1 ELSE Len(turns')
BY ClosedCounted DEF LogOK, Shape, Finished, Active, Closed

LEMMA OldestInit == Init => Oldest /\ Steered /\ Retired!Init
<1> SUFFICES ASSUME Init PROVE Oldest /\ Steered /\ Retired!Init
  OBVIOUS
<1>1. Compacted = {} /\ turns = <<>> /\ op = NoOp /\ step = "idle" /\ Len(segments) = 0
  BY DEF Init, Compacted
<1>2. Oldest /\ Steered
  BY <1>1 DEF Oldest, Shape, Frozen, Driven, Steered, NoOp
<1>3. {i \in DOMAIN turns : Closed(i)} = {}
  BY <1>1
<1> QED
  BY <1>1, <1>2, <1>3, FS_EmptySet DEF Retired!Init

\* A step keeps the invariant and is a step of the retired history, or none.
LEMMA RetiredStep ==
  ASSUME TypeOK, TypeOK', Oldest, Steered, [Next]_vars
  PROVE  Oldest' /\ [Retired!Next]_<<Finished, Compacted, Len(segments)>>
<1> USE TypeParts
<1>1. LogOK /\ LiveOK /\ OpOK /\ LogOK'
  BY DEF TypeOK, LogOK, LiveOK, OpOK, TurnRecord, SegmentRecord, RelationRecord
<1>2. ASSUME UNCHANGED <<turns, segments>> PROVE UNCHANGED <<Finished, Compacted, Len(segments)>>
  BY <1>2 DEF Finished, Compacted, Closed
<1>3. CASE UNCHANGED vars
  <2>1. UNCHANGED <<turns, segments, resets, op, step>>
    BY <1>3 DEF vars, log
  <2> QED
    BY <1>2, <2>1, OldestKept
<1>4. ASSUME NEW p \in Proc, StartTurn(p)
      PROVE  Oldest' /\ UNCHANGED <<Finished, Compacted, Len(segments)>>
  <2>1. Oldest' /\ ~Active /\ Active' /\ Len(turns') = Len(turns) + 1
    BY <1>1, <1>4, OldestStartTurn
  <2>2. Finished' = Finished
    <3>1. Finished = Len(turns) /\ Len(turns) \in Nat
      BY <1>1, <2>1, FinishedIs DEF Oldest, LogOK
    <3>2. Shape'
      BY <2>1 DEF Oldest
    <3>3. Finished' = Len(turns') - 1
      BY <1>1, <2>1, <3>2, FinishedNext
    <3> QED
      BY <2>1, <3>1, <3>3
  <2>3. UNCHANGED segments
    BY <1>4 DEF StartTurn
  <2> QED
    BY <2>1, <2>2, <2>3, CompactedKept
<1>5. ASSUME NEW p \in Proc, EndTurn(p) PROVE Oldest' /\ Retired!Finish
  <2>1. Oldest' /\ Active /\ ~Active' /\ Len(turns') = Len(turns)
    BY <1>1, <1>5, OldestEndTurn
  <2>2. Finished' = Finished + 1
    <3>1. Finished = Len(turns) - 1 /\ Len(turns) \in Nat
      BY <1>1, <2>1, FinishedIs DEF Oldest, LogOK
    <3>2. Shape'
      BY <2>1 DEF Oldest
    <3>3. Finished' = Len(turns')
      BY <1>1, <2>1, <3>2, FinishedNext
    <3> QED
      BY <2>1, <3>1, <3>3
  <2>3. UNCHANGED segments
    BY <1>5 DEF EndTurn
  <2> QED
    BY <2>1, <2>2, <2>3, CompactedKept DEF Retired!Finish, Finished
<1>6. ASSUME NEW p \in Proc, Reset(p) PROVE Oldest' /\ Retired!Reset
  <2>1. Oldest' /\ turns' = <<>> /\ Compacted' = {} /\ Len(segments') = 0
    BY <1>1, <1>6, OldestReset
  <2>2. {i \in DOMAIN turns' : Closed(i)'} = {}
    BY <2>1
  <2>3. Finished' = 0
    BY <2>2, FS_EmptySet DEF Finished
  <2> QED
    BY <2>1, <2>3 DEF Retired!Reset, Finished
<1>7. ASSUME NEW p \in Proc, Activate(p) PROVE Oldest' /\ Retired!Retire
  <2>1. /\ Oldest' /\ UNCHANGED turns
        /\ Compacted' = Compacted \cup op.turns /\ Len(segments') = Len(segments) + 1
        /\ op.turns # {}
        /\ \A i \in op.turns : /\ i \in 1 .. Len(turns) /\ Closed(i) /\ i \notin Compacted
                               /\ 1 .. i \subseteq op.turns \cup Compacted
    BY <1>1, <1>7, OldestActivate
  <2>2. op.turns \in SUBSET (1 .. Finished)
    BY <1>1, <2>1, FinishedIs DEF Oldest
  <2>3. Retired!Oldest(op.turns)
    BY <2>1 DEF Retired!Oldest
  <2>4. Finished' = Finished
    BY <2>1 DEF Finished, Closed
  <2> QED
    BY <2>1, <2>2, <2>3, <2>4 DEF Retired!Retire, Finished
<1>8. CASE Next
  <2>1. PICK p \in Proc : Opens(p) \/ Serves(p) \/ Admits(p) \/ Compacts(p)
    BY <1>8 DEF Next
  <2>2. CASE Opens(p)
    BY <1>2, <2>2, OldestOpens
  <2>3. CASE Serves(p) \/ Admits(p)
    <3>1. CASE StartTurn(p)
      BY <1>4, <3>1
    <3>2. CASE EndTurn(p)
      BY <1>5, <3>2 DEF Retired!Next
    <3>3. CASE Reset(p)
      BY <1>6, <3>3 DEF Retired!Next
    <3>4. CASE ~StartTurn(p) /\ ~EndTurn(p) /\ ~Reset(p)
      <4>1. Oldest' /\ UNCHANGED <<turns, segments, resets>>
        BY <1>1, <2>3, <3>4, OldestDrives DEF Serves
      <4> QED
        BY <1>2, <4>1
    <3> QED
      BY <3>1, <3>2, <3>3, <3>4
  <2>4. CASE Compacts(p)
    <3>1. CASE Begin(p)
      <4>1. Oldest' /\ UNCHANGED <<turns, segments, resets>>
        BY <1>1, <3>1, OldestBegin
      <4> QED
        BY <1>2, <4>1
    <3>2. CASE Activate(p)
      BY <1>7, <3>2 DEF Retired!Next
    <3>3. CASE ~Begin(p) /\ ~Activate(p)
      <4>1. Oldest' /\ UNCHANGED <<turns, segments, resets>>
        BY <1>1, <2>4, <3>3, OldestRuns
      <4> QED
        BY <1>2, <4>1
    <3> QED
      BY <3>1, <3>2, <3>3
  <2> QED
    BY <2>1, <2>2, <2>3, <2>4
<1> QED
  BY <1>3, <1>8

\* However the session is opened, killed, reset or left to a background compactor, what
\* activation retires are the oldest finished turns, epoch by epoch, and nothing else
\* leaves the history.  Neither the session lock nor recovery is needed for it.
THEOREM SpecRetiresOldest == Spec => RetiresOldest
<1>1. Init => TypeOK /\ Oldest /\ Steered /\ Retired!Init
  BY TypeInit, OldestInit
<1>2. TypeOK /\ Oldest /\ Steered /\ [Next]_vars
        => (TypeOK /\ Oldest /\ Steered)' /\ [Retired!Next]_<<Finished, Compacted, Len(segments)>>
  BY TypeStep, TypeParts, SteeredStep, RetiredStep
<1> QED
  BY <1>1, <1>2, PTL DEF Spec, RetiresOldest, Retired!Spec, Finished
-----------------------------------------------------------------------------
(* One outcome of an operation *)

\* One process holds the log, and a compaction runs in a process that has it open.
Locked ==
  /\ \A p, q \in Proc : Holds(p) /\ Holds(q) => p = q
  /\ op.at # "none" => \E p \in Proc : pc[p] = "open"

Given(a) == attempts[a].operation
Missed(a) == attempts[a].status \in {"failed", "lost"}

\* What the log says of operations and of supersessions.
Told ==
  /\ \A a \in Attempt : Given(a) <= seq
  /\ \A a, b \in Attempt : a < b /\ Given(a) = Given(b)
       => Missed(a) /\ attempts[b].number = 2 /\ MaxAttempts >= 2 /\ attempts[b].retry = a
  /\ \A r \in DOMAIN relations :
       /\ relations[r].new \in Attempt
       /\ attempts[relations[r].new].status = "accepted"
       /\ attempts[relations[r].new].retry = relations[r].old
  /\ \A r, s \in DOMAIN relations : relations[r].new = relations[s].new => r = s

\* What a running operation knows of its attempt.
Known ==
  /\ op.at = "sent" => IsOpen(op.attempt)
  /\ op.at \in {"sent", "repair"} =>
       /\ Given(op.attempt) = op.operation
       /\ op.number = 1 => \A a \in Attempt : Given(a) = op.operation => a = op.attempt
       /\ op.number # 1 => attempts[op.attempt].retry # 0
  /\ op.at = "repair" => Missed(op.attempt) /\ op.number = 1 /\ MaxAttempts >= 2
  /\ op.at = "supersede" => Unrelated(op.attempt)

\* Nobody compacts while the log is being recovered, or is free.
LEMMA RecoveryAlone ==
  ASSUME Locked, NEW p \in Proc, pc[p] = "recovering" \/ Free
  PROVE  op.at = "none"
BY DEF Locked, Holds, Free

LEMMA LockedOpens ==
  ASSUME LiveOK, Locked, NEW p \in Proc, Opens(p)
  PROVE  Locked'
<1>1. ASSUME NEW w, Go(p, w)
      PROVE  pc'[p] = w /\ \A q \in Proc : q # p => pc'[q] = pc[q]
  BY <1>1 DEF Go, LiveOK
<1>2. CASE Resume(p) \/ Open(p)
  <2>1. /\ Go(p, "recovering") \/ Go(p, "open")
        /\ Free /\ UNCHANGED op
    BY <1>2 DEF Resume, Open
  <2>2. op.at = "none"
    BY <2>1, RecoveryAlone
  <2>3. \A q \in Proc : Holds(q)' => q = p
    BY <1>1, <2>1 DEF Free, Holds
  <2> QED
    BY <2>1, <2>2, <2>3 DEF Locked
<1>3. CASE RecoverAttempt(p) \/ RecoverSupersession(p)
  BY <1>3 DEF RecoverAttempt, RecoverSupersession, Locked, Holds
<1>4. CASE Recovered(p)
  <2>1. Go(p, "recovered") /\ UNCHANGED op /\ pc[p] = "recovering"
    BY <1>4 DEF Recovered
  <2>2. op.at = "none"
    BY <2>1, RecoveryAlone
  <2>3. \A q \in Proc : Holds(q)' => Holds(q)
    BY <1>1, <2>1 DEF Holds
  <2> QED
    BY <2>1, <2>2, <2>3 DEF Locked
<1>5. CASE Leave(p) \/ Kill(p)
  <2>1. Gone(p) /\ Go(p, "away")
    BY <1>5 DEF Leave, Kill, Gone
  <2>2. \A q \in Proc : Holds(q)' => Holds(q)
    BY <1>1, <2>1 DEF Holds
  <2>3. CASE Holds(p)
    BY <2>1, <2>2, <2>3 DEF Gone, Locked, NoOp
  <2>4. CASE ~Holds(p)
    <3>1. UNCHANGED op
      BY <2>1, <2>4 DEF Gone
    <3>2. \A q \in Proc : pc[q] = "open" => pc'[q] = "open"
      BY <1>1, <2>1, <2>4 DEF Holds
    <3> QED
      BY <2>2, <3>1, <3>2 DEF Locked
  <2> QED
    BY <2>3, <2>4
<1> QED
  BY <1>2, <1>3, <1>4, <1>5 DEF Opens

LEMMA LockedStep == LiveOK /\ Locked /\ [Next]_vars => Locked'
<1> SUFFICES ASSUME LiveOK, Locked, [Next]_vars PROVE Locked'
  OBVIOUS
<1>1. CASE UNCHANGED vars
  BY <1>1 DEF vars, Locked, Holds
<1>2. ASSUME NEW p \in Proc, Serves(p) \/ Admits(p) \/ Compacts(p) PROVE Locked'
  <2>1. UNCHANGED pc
    BY <1>2 DEF Serves, Admits, Compacts, StartTurn, ContinueTurn, NextRequest, EndTurn,
       Reinstall, Reset, CompactNow, Admit, Launch, Fails, Begin, Refused, MissCredential,
       CompactorFails, CandidateInvalid, Repair, RepairUnplanned, Activate, SourceChanged,
       Supersede, SupersedeFails
  <2>2. UNCHANGED op \/ pc[p] = "open"
    BY <1>2 DEF Serves, Admits, Compacts, StartTurn, ContinueTurn, NextRequest, EndTurn,
       Reinstall, Reset, CompactNow, Admit, Launch, Fails, Begin, Refused, MissCredential,
       CompactorFails, CandidateInvalid, Repair, RepairUnplanned, Activate, SourceChanged,
       Supersede, SupersedeFails, Runs, Drives, Writes
  <2> QED
    BY <2>1, <2>2 DEF Locked, Holds
<1> QED
  BY <1>1, <1>2, LockedOpens DEF Next

\* Steps that append nothing about an attempt.
LEMMA ToldKept ==
  ASSUME LogOK, LogOK', Told, UNCHANGED <<attempts, relations>>, seq <= seq'
  PROVE  Told'
<1>1. \A a \in Attempt : attempts[a].operation \in Nat
  BY AttemptTyped DEF AttemptRecord
<1>2. seq \in Nat /\ seq' \in Nat
  BY DEF LogOK
<1> QED
  BY <1>1, <1>2 DEF Told, Attempt, Given, Missed

LEMMA KnownKept ==
  ASSUME Known, UNCHANGED <<attempts, relations>>, op' = op \/ op'.at \in {"none", "begin"}
  PROVE  Known'
BY DEF Known, IsOpen, Given, Missed, Unrelated, Related, Attempt

\* The new attempt is the only one of its operation, or repeats the only one.
LEMMA ToldStarted ==
  ASSUME LogOK, Told, NEW c \in Nat, NEW e \in Nat, NEW n \in Nat, NEW r \in Nat,
         AppendStart(c, e, n, r), c <= seq + 1,
         \A a \in Attempt : Given(a) = c => Missed(a) /\ n = 2 /\ MaxAttempts >= 2 /\ r = a
  PROVE  /\ Told'
         /\ attempts'[Len(attempts) + 1].status = "open"
         /\ attempts'[Len(attempts) + 1].operation = c
         /\ attempts'[Len(attempts) + 1].retry = r
         /\ Attempt' = Attempt \cup {Len(attempts) + 1}
         /\ \A a \in Attempt : Given(a)' = Given(a)
<1> DEFINE k == Len(attempts) + 1
<1>1. /\ \A a \in Attempt : attempts'[a] = attempts[a] /\ a \in Nat /\ a < k
      /\ attempts'[k].operation = c /\ attempts'[k].number = n /\ attempts'[k].retry = r
      /\ attempts'[k].status = "open" /\ k \in Nat
  BY DEF AppendStart, LogOK, Attempt
<1>2. Attempt' = Attempt \cup {k} /\ k \notin Attempt
  BY OpenStarts
<1>3. seq' = seq + 1 /\ seq \in Nat /\ UNCHANGED relations
  BY DEF AppendStart, LogOK
<1>4. \A a \in Attempt : Given(a) \in Nat
  BY AttemptTyped DEF AttemptRecord, Given
<1> HIDE DEF k
<1>5. \A a \in Attempt' : Given(a)' <= seq'
  BY <1>1, <1>2, <1>3, <1>4 DEF Told, Given
<1>6. ASSUME NEW a \in Attempt', NEW b \in Attempt', a < b, Given(a)' = Given(b)'
      PROVE  Missed(a)' /\ attempts'[b].number = 2 /\ MaxAttempts >= 2 /\ attempts'[b].retry = a
  <2>1. a \in Attempt
    BY <1>1, <1>2, <1>6
  <2>2. CASE b \in Attempt
    BY <1>1, <1>6, <2>1, <2>2 DEF Told, Given, Missed
  <2>3. CASE b = k
    BY <1>1, <1>6, <2>1, <2>3 DEF Given, Missed
  <2> QED
    BY <1>2, <2>2, <2>3
<1>7. Told'
  BY <1>1, <1>2, <1>3, <1>5, <1>6 DEF Told
<1> QED
  BY <1>1, <1>2, <1>7 DEF Given, k

\* An open attempt ends.
LEMMA ToldEnded ==
  ASSUME LogOK, Told, NEW x \in Attempt, IsOpen(x), NEW s \in {"failed", "lost", "accepted"},
         attempts' = [attempts EXCEPT ![x].status = s, ![x].end = seq + 1],
         seq' = seq + 1, UNCHANGED relations
  PROVE  /\ Told' /\ Attempt' = Attempt
         /\ \A a \in Attempt : Given(a)' = Given(a) /\ attempts'[a].retry = attempts[a].retry
         /\ attempts'[x].status = s
<1>1. attempts \in [Attempt -> AttemptRecord] /\ Attempt = 1 .. Len(attempts)
  BY DEF LogOK, Attempt
<1>2. Attempt' = Attempt
  BY DEF Attempt
<1>3. ASSUME NEW a \in Attempt, a # x PROVE attempts'[a] = attempts[a]
  BY <1>1, <1>3
<1>4. /\ attempts'[x].status = s /\ attempts'[x].operation = attempts[x].operation
      /\ attempts'[x].number = attempts[x].number /\ attempts'[x].retry = attempts[x].retry
  BY <1>1 DEF AttemptRecord
<1>5. \A a \in Attempt : /\ Given(a)' = Given(a) /\ attempts'[a].retry = attempts[a].retry
                         /\ attempts'[a].number = attempts[a].number /\ Given(a) \in Nat
  BY <1>1, <1>3, <1>4 DEF Given, AttemptRecord
<1>6. \A a \in Attempt : Missed(a) => Missed(a)'
  BY <1>3 DEF Missed, IsOpen
<1>7. \A r \in DOMAIN relations : relations[r].new # x
  BY DEF Told, IsOpen
<1>8. \A a \in Attempt' : Given(a)' <= seq'
  BY <1>2, <1>5 DEF Told, LogOK
<1>9. \A r \in DOMAIN relations' : /\ relations'[r].new \in Attempt'
                                   /\ attempts'[relations'[r].new] = attempts[relations[r].new]
  BY <1>2, <1>3, <1>7 DEF Told
<1>10. ASSUME NEW a \in Attempt', NEW b \in Attempt', a < b, Given(a)' = Given(b)'
       PROVE  Missed(a)' /\ attempts'[b].number = 2 /\ MaxAttempts >= 2 /\ attempts'[b].retry = a
  <2>1. a \in Attempt /\ b \in Attempt /\ Given(a) = Given(b)
    BY <1>2, <1>5, <1>10
  <2>2. Missed(a) /\ attempts[b].number = 2 /\ MaxAttempts >= 2 /\ attempts[b].retry = a
    BY <1>10, <2>1 DEF Told
  <2> QED
    BY <1>5, <1>6, <2>1, <2>2
<1>11. \A r \in DOMAIN relations' :
         /\ attempts'[relations'[r].new].status = "accepted"
         /\ attempts'[relations'[r].new].retry = relations'[r].old
  BY <1>9 DEF Told
<1>12. Told'
  BY <1>8, <1>9, <1>10, <1>11 DEF Told
<1> QED
  BY <1>2, <1>4, <1>5, <1>12

\* An accepted retry supersedes, if it has not done so yet.
LEMMA ToldSuperseded ==
  ASSUME LogOK, LogOK', Told, NEW x \in Attempt, Unrelated(x), AppendSuperseded(x)
  PROVE  Told'
<1> DEFINE new == [old |-> attempts[x].retry, new |-> x]
<1>1. relations' = Append(relations, new) /\ UNCHANGED attempts /\ seq' = seq + 1
  BY DEF AppendSuperseded
<1>2. new.new = x /\ new.old = attempts[x].retry
  OBVIOUS
<1> HIDE DEF new
<1> DEFINE k == Len(relations) + 1
<1>3. /\ DOMAIN relations' = DOMAIN relations \cup {k}
      /\ \A r \in DOMAIN relations : relations'[r] = relations[r]
      /\ relations'[k] = new
  BY <1>1 DEF LogOK
<1> HIDE DEF k
<1>4. Attempt' = Attempt /\ \A a \in Attempt : Given(a) \in Nat
  BY <1>1, AttemptTyped DEF Attempt, AttemptRecord, Given
<1>5. attempts[x].status = "accepted" /\ \A r \in DOMAIN relations : relations[r].new # x
  BY DEF Unrelated, Related
<1>6. \A a \in Attempt' : Given(a)' <= seq'
  BY <1>1, <1>4 DEF Told, Given, LogOK
<1>7. \A r \in DOMAIN relations' :
        /\ relations'[r].new \in Attempt'
        /\ attempts'[relations'[r].new].status = "accepted"
        /\ attempts'[relations'[r].new].retry = relations'[r].old
  BY <1>1, <1>2, <1>3, <1>4, <1>5 DEF Told
<1>8. \A r, s \in DOMAIN relations' : relations'[r].new = relations'[s].new => r = s
  BY <1>2, <1>3, <1>5 DEF Told
<1> QED
  BY <1>1, <1>4, <1>6, <1>7, <1>8 DEF Told, Given, Missed

LEMMA ToldOpens ==
  ASSUME LogOK, LogOK', Told, Known, Locked, NEW p \in Proc, Opens(p)
  PROVE  Told' /\ Known'
<1>0. seq \in Nat /\ seq' \in Nat
  BY DEF LogOK
<1>1. CASE UNCHANGED log /\ (op' = op \/ op' = NoOp)
  <2>1. seq' = seq /\ UNCHANGED <<attempts, relations>>
    BY <1>1 DEF log
  <2> QED
    BY <1>0, <1>1, <2>1, ToldKept, KnownKept DEF NoOp
<1>2. CASE RecoverAttempt(p)
  <2>1. PICK a \in Attempt : IsOpen(a) /\ AppendEnd(a, "lost")
    BY <1>2 DEF RecoverAttempt, IsOpen
  <2>2. Told'
    BY <2>1, ToldEnded DEF AppendEnd
  <2>3. op'.at = "none"
    BY <1>2, RecoveryAlone DEF RecoverAttempt
  <2> QED
    BY <2>2, <2>3 DEF Known
<1>3. CASE RecoverSupersession(p)
  <2>1. PICK a \in Attempt : Unrelated(a) /\ AppendSuperseded(a)
    BY <1>3 DEF RecoverSupersession
  <2>2. Told'
    BY <2>1, ToldSuperseded
  <2>3. op'.at = "none"
    BY <1>3, RecoveryAlone DEF RecoverSupersession
  <2> QED
    BY <2>2, <2>3 DEF Known
<1> QED
  BY <1>1, <1>2, <1>3 DEF Opens, Resume, Recovered, Open, Leave, Kill, Gone, log

LEMMA ToldServes ==
  ASSUME LogOK, LogOK', Told, Known, NEW p \in Proc, Serves(p) \/ Admits(p)
  PROVE  Told' /\ Known'
<1>1. UNCHANGED <<attempts, relations>> /\ seq' \in {seq, seq + 1}
  BY DEF Serves, Admits, StartTurn, ContinueTurn, NextRequest, EndTurn, Reinstall, Reset,
         CompactNow, Admit, Launch, Fails, log
<1>2. op' = op \/ op'.at = "begin"
  BY NewOpTyped DEF Serves, Admits, StartTurn, ContinueTurn, NextRequest, EndTurn, Reinstall, Reset,
         CompactNow, Admit, Launch, Fails
<1>3. seq <= seq'
  BY <1>1 DEF LogOK
<1> QED
  BY <1>1, <1>2, <1>3, ToldKept, KnownKept

\* The operation, whose attempt is open, ends or changes it.
LEMMA ToldRuns ==
  ASSUME LogOK, LogOK', OpOK, Told, Known, NEW p \in Proc, Compacts(p)
  PROVE  Told' /\ Known'
<1>1. CASE Begin(p)
  <2>1. seq + 1 \in Nat /\ Len(segments) + 1 \in Nat /\ op \in OpRecord
    BY <1>1, Running DEF LogOK, Begin, Snapshot
  <2>2. /\ op'.at = "sent" /\ op'.attempt = Len(attempts) + 1
        /\ op'.operation = seq + 1 /\ op'.number = 1
    BY <1>1, <2>1 DEF Begin, Snapshot, OpRecord
  <2>3. \A a \in Attempt : Given(a) \in Nat /\ Given(a) # seq + 1
    <3>1. \A a \in Attempt : Given(a) \in Nat /\ Given(a) <= seq
      BY AttemptTyped DEF AttemptRecord, Told, Given
    <3> QED
      BY <2>1, <3>1 DEF LogOK
  <2>4. AppendStart(seq + 1, Len(segments) + 1, 1, 0)
    BY <1>1 DEF Begin, Snapshot
  <2>5. /\ Told' /\ attempts'[Len(attempts) + 1].status = "open"
        /\ attempts'[Len(attempts) + 1].operation = seq + 1
        /\ Attempt' = Attempt \cup {Len(attempts) + 1}
        /\ \A a \in Attempt : Given(a)' = Given(a)
    <3> DEFINE c == seq + 1
               e == Len(segments) + 1
               n == 1
               r == 0
    <3>1. c \in Nat /\ e \in Nat /\ n \in Nat /\ r \in Nat /\ c <= seq + 1
      BY <2>1
    <3>2. \A a \in Attempt : Given(a) # c
      BY <2>3
    <3>3. AppendStart(c, e, n, r)
      BY <2>4
    <3> HIDE DEF c, e, n, r
    <3>4. /\ Told' /\ attempts'[Len(attempts) + 1].status = "open"
          /\ attempts'[Len(attempts) + 1].operation = c
          /\ Attempt' = Attempt \cup {Len(attempts) + 1}
          /\ \A a \in Attempt : Given(a)' = Given(a)
      BY <3>1, <3>2, <3>3, ToldStarted
    <3> QED
      BY <3>4 DEF c
  <2>6. \A a \in Attempt' : Given(a)' = seq + 1 => a = Len(attempts) + 1
    BY <2>3, <2>5
  <2> QED
    BY <2>2, <2>5, <2>6 DEF Known, IsOpen, Given
<1>2. CASE Refused(p) \/ RepairUnplanned(p) \/ SupersedeFails(p)
  <2>1. op' = NoOp /\ seq' = seq /\ UNCHANGED <<attempts, relations>>
    BY <1>2 DEF Refused, RepairUnplanned, SupersedeFails, Settle, log
  <2>2. seq <= seq'
    BY <2>1 DEF LogOK
  <2> QED
    BY <2>1, <2>2, ToldKept, KnownKept DEF NoOp
<1>3. CASE MissCredential(p) \/ CompactorFails(p) \/ SourceChanged(p)
  <2>1. /\ op.at = "sent" /\ op.attempt \in Attempt /\ AppendEnd(op.attempt, "failed")
        /\ op' = NoOp
    BY <1>3 DEF MissCredential, CompactorFails, SourceChanged, Runs, OpOK, Settle
  <2>2. Told'
    BY <2>1, ToldEnded DEF Known, AppendEnd
  <2> QED
    BY <2>1, <2>2 DEF Known, NoOp
<1>4. CASE CandidateInvalid(p)
  <2>1. op.at = "sent" /\ op.attempt \in Attempt /\ op \in OpRecord
    BY <1>4, Running DEF CandidateInvalid, Runs, OpOK
  <2>2. op.number = 1 /\ MaxAttempts >= 2
    BY <1>4, NumberAssumption DEF CandidateInvalid, MayRepair
  <2>3. /\ op'.at = "repair" /\ op'.attempt = op.attempt /\ op'.operation = op.operation
        /\ op'.number = 1
    BY <1>4, <2>1, <2>2 DEF CandidateInvalid, OpRecord
  <2>4. /\ Told' /\ Attempt' = Attempt /\ attempts'[op.attempt].status = "failed"
        /\ \A a \in Attempt : Given(a)' = Given(a)
    BY <1>4, <2>1, ToldEnded DEF Known, CandidateInvalid, AppendEnd
  <2>5. Given(op.attempt) = op.operation
        /\ \A a \in Attempt : Given(a) = op.operation => a = op.attempt
    BY <2>1, <2>2 DEF Known
  <2>6. /\ attempts'[op'.attempt].operation = op'.operation
        /\ attempts'[op'.attempt].status = "failed"
        /\ \A a \in Attempt' : Given(a)' = op'.operation => a = op'.attempt
    BY <2>1, <2>3, <2>4, <2>5 DEF Given
  <2> QED
    BY <2>2, <2>3, <2>4, <2>6 DEF Known, Given, Missed
<1>5. CASE Repair(p)
  <2>1. /\ op \in OpRecord /\ op.at = "repair" /\ op.attempt \in Attempt
        /\ op.attempt \in Nat \ {0}
    BY <1>5, Running, AttemptTyped DEF Repair, Runs, OpOK, Attempt, LogOK
  <2>2. /\ op.operation \in Nat /\ op.epoch \in Nat /\ op.number = 1 /\ MaxAttempts >= 2
        /\ Missed(op.attempt) /\ Given(op.attempt) = op.operation
        /\ \A a \in Attempt : Given(a) = op.operation => a = op.attempt
    BY <2>1 DEF OpRecord, Known
  <2>3. AppendStart(op.operation, op.epoch, 2, op.attempt)
    BY <1>5, <2>2 DEF Repair
  <2>4. /\ op'.at = "sent" /\ op'.attempt = Len(attempts) + 1 /\ op'.number = 2
        /\ op'.operation = op.operation
    BY <1>5, <2>1, <2>2 DEF Repair, OpRecord
  <2>5. op.operation <= seq + 1
    BY <2>1, <2>2 DEF Told, LogOK
  <2>6. /\ Told' /\ attempts'[Len(attempts) + 1].status = "open"
        /\ attempts'[Len(attempts) + 1].operation = op.operation
        /\ attempts'[Len(attempts) + 1].retry = op.attempt
    <3> DEFINE c == op.operation
               e == op.epoch
               n == 2
               r == op.attempt
    <3>1. c \in Nat /\ e \in Nat /\ n \in Nat /\ r \in Nat /\ c <= seq + 1
      BY <2>1, <2>2, <2>5
    <3>2. \A a \in Attempt : Given(a) = c => Missed(a) /\ n = 2 /\ MaxAttempts >= 2 /\ r = a
      BY <2>2
    <3>3. AppendStart(c, e, n, r)
      BY <2>3
    <3> HIDE DEF c, e, n, r
    <3>4. /\ Told' /\ attempts'[Len(attempts) + 1].status = "open"
          /\ attempts'[Len(attempts) + 1].operation = c
          /\ attempts'[Len(attempts) + 1].retry = r
      BY <3>1, <3>2, <3>3, ToldStarted
    <3> QED
      BY <3>4 DEF c, r
  <2> QED
    BY <2>1, <2>4, <2>6 DEF Known, IsOpen, Given
<1>6. CASE Activate(p)
  <2>1. op.at = "sent" /\ op.attempt \in Attempt /\ op \in OpRecord /\ IsOpen(op.attempt)
    BY <1>6, Running DEF Activate, Runs, OpOK, Known
  <2>2. /\ Told' /\ Attempt' = Attempt /\ attempts'[op.attempt].status = "accepted"
        /\ attempts'[op.attempt].retry = attempts[op.attempt].retry
    BY <1>6, <2>1, ToldEnded DEF Activate, AppendCompacted
  <2>3. CASE op.number > 1
    <3>1. op'.at = "supersede" /\ op'.attempt = op.attempt
      BY <1>6, <2>1, <2>3, MovedTyped DEF Activate
    <3>2. attempts[op.attempt].retry # 0
      BY <2>1, <2>3 DEF Known, OpRecord
    <3>3. \A r \in DOMAIN relations : relations[r].new # op.attempt
      BY <2>1 DEF Told, IsOpen
    <3>4. UNCHANGED relations
      BY <1>6 DEF Activate, AppendCompacted
    <3>5. Unrelated(op.attempt)'
      BY <2>2, <3>1, <3>2, <3>3, <3>4 DEF Unrelated, Related
    <3> QED
      BY <2>2, <3>1, <3>5 DEF Known
  <2>4. CASE ~(op.number > 1)
    BY <1>6, <2>2, <2>4 DEF Activate, Settle, Known, NoOp
  <2> QED
    BY <2>3, <2>4
<1>7. CASE Supersede(p)
  <2>1. op.attempt \in Attempt /\ Unrelated(op.attempt) /\ AppendSuperseded(op.attempt)
        /\ op' = NoOp
    BY <1>7 DEF Supersede, Runs, OpOK, Known, Settle
  <2>2. Told'
    BY <2>1, ToldSuperseded
  <2> QED
    BY <2>1, <2>2 DEF Known, NoOp
<1> QED
  BY <1>1, <1>2, <1>3, <1>4, <1>5, <1>6, <1>7 DEF Compacts

LEMMA ToldStep ==
  ASSUME LogOK, LogOK', OpOK, Told, Known, Locked, [Next]_vars
  PROVE  Told' /\ Known'
<1>1. CASE UNCHANGED vars
  <2>1. seq' = seq /\ UNCHANGED <<attempts, relations, op>>
    BY <1>1 DEF vars, log
  <2>2. seq <= seq'
    BY <2>1 DEF LogOK
  <2> QED
    BY <2>1, <2>2, ToldKept, KnownKept
<1>2. CASE Next
  BY <1>2, ToldOpens, ToldServes, ToldRuns DEF Next
<1> QED
  BY <1>1, <1>2

\* Whatever is repaired, killed or recovered, an operation ends one way: two attempts at
\* most, none after an accepted one, and at most one supersession for an accepted retry,
\* whether its process writes it or a recovery.
THEOREM SpecOneOutcome == Spec => []OneOutcome
<1>1. Init => TypeOK /\ Locked /\ Told /\ Known
  <2> SUFFICES ASSUME Init PROVE Locked /\ Told /\ Known
    BY TypeInit
  <2>1. Locked /\ Known
    BY DEF Init, Locked, Known, Holds, NoOp
  <2>2. Told
    BY DEF Init, Told, Attempt
  <2> QED
    BY <2>1, <2>2
<1>2. TypeOK /\ Locked /\ Told /\ Known /\ [Next]_vars => (TypeOK /\ Locked /\ Told /\ Known)'
  <2> SUFFICES ASSUME TypeOK, Locked, Told, Known, [Next]_vars
               PROVE  (TypeOK /\ Locked /\ Told /\ Known)'
    OBVIOUS
  <2>1. LogOK /\ LiveOK /\ OpOK
    BY TypeParts
  <2>2. TypeOK'
    BY TypeStep
  <2>3. LogOK'
    BY <2>2 DEF TypeOK, LogOK, TurnRecord, SegmentRecord, RelationRecord
  <2> QED
    BY <2>1, <2>2, <2>3, LockedStep, ToldStep
<1>3. Told => OneOutcome
  <2> SUFFICES ASSUME Told PROVE OneOutcome
    OBVIOUS
  <2>1. ASSUME NEW a \in Attempt
        PROVE  Cardinality({r \in DOMAIN relations : relations[r].new = a}) <= 1
    <3> DEFINE R == {r \in DOMAIN relations : relations[r].new = a}
    <3>1. CASE R = {}
      BY <3>1, FS_EmptySet
    <3>2. CASE R # {}
      <4>1. PICK r \in R : TRUE
        BY <3>2
      <4>2. R = {r}
        BY <4>1 DEF Told
      <4>3. Cardinality({r}) = 1
        BY FS_Singleton
      <4> QED
        BY <4>2, <4>3
    <3> QED
      BY <3>1, <3>2
  <2> QED
    BY <2>1 DEF Told, OneOutcome, Given, Missed
<1> QED
  BY <1>1, <1>2, <1>3, PTL DEF Spec
-----------------------------------------------------------------------------
(* Failures and new turns *)

\* The finished turns of the history, and those that had closed before event e.
Left == {i \in DOMAIN turns : Closed(i) /\ i \notin Compacted}
LeftBefore(e) == {i \in Left : turns[i].close < e}

\* Every event the log speaks of has been written.
Clock ==
  /\ resetAt <= seq
  /\ \A a \in Attempt : attempts[a].start <= seq /\ attempts[a].end <= seq
  /\ \A i \in DOMAIN turns : turns[i].close <= seq
  /\ \A i \in DOMAIN segments : segments[i].seq <= seq

\* n judgements are paid for by the turns that had closed when attempt a started and by the
\* compactions asked for; or by these alone, when a reset came in between.
Paid(a, n) == IF attempts[a].start > resetAt
              THEN n <= Cardinality(LeftBefore(attempts[a].start)) + asked
              ELSE n <= asked

\* As soon as there is a turn to retire, it pays for one judgement more.
Spare == \/ Cardinality(Judged) < Cardinality(Left) + asked
         \/ Cardinality(Judged) <= asked

\* What is paid for in advance: the judgement of the operation that runs, and that of an
\* operation which may be launched because an attempt was lost.
Accounts ==
  /\ op.at # "none" /\ op.by = "now" => asked >= 1
  /\ op.at = "begin" => Cardinality(Judged) < Cardinality(Left) + asked
  /\ op.at = "sent" => Paid(op.attempt, Cardinality(Judged) + 1)
  /\ op.at = "repair" => op.attempt \in Judged
  /\ OpenAttempt /\ op.at # "sent" => Spare
  /\ \A a \in Attempt : Latest(a) =>
       IF attempts[a].status = "lost" THEN Spare ELSE Paid(a, Cardinality(Judged))
  /\ Judged # {} => \E a \in Attempt : Latest(a)

LEMMA Subinterval ==
  ASSUME NEW n \in Nat, NEW S \in SUBSET (1 .. n)
  PROVE  IsFiniteSet(S) /\ Cardinality(S) \in Nat
<1>1. 1 \in Int /\ n \in Int
  OBVIOUS
<1>2. IsFiniteSet(1 .. n)
  BY ONLY <1>1, FS_Interval
<1> QED
  BY <1>2, FS_Subset, FS_CardinalityType

LEMMA SmallerCount ==
  ASSUME NEW T, IsFiniteSet(T), NEW S \in SUBSET T
  PROVE  IsFiniteSet(S) /\ Cardinality(S) \in Nat /\ Cardinality(S) <= Cardinality(T)
BY FS_Subset, FS_CardinalityType

LEMMA Counts ==
  ASSUME LogOK
  PROVE  /\ IsFiniteSet(Judged) /\ Cardinality(Judged) \in Nat
         /\ IsFiniteSet(Left) /\ Cardinality(Left) \in Nat
         /\ \A e : /\ LeftBefore(e) \subseteq Left /\ IsFiniteSet(LeftBefore(e))
                   /\ Cardinality(LeftBefore(e)) \in Nat
                   /\ Cardinality(LeftBefore(e)) <= Cardinality(Left)
<1>1. Len(attempts) \in Nat /\ Judged \subseteq 1 .. Len(attempts)
  BY DEF LogOK, Judged, Attempt
<1>2. Len(turns) \in Nat /\ Left \subseteq 1 .. Len(turns)
  BY DEF LogOK, Left
<1>3. IsFiniteSet(Left) /\ Cardinality(Left) \in Nat
  BY <1>2, Subinterval
<1>4. ASSUME NEW e
      PROVE  /\ LeftBefore(e) \subseteq Left /\ IsFiniteSet(LeftBefore(e))
             /\ Cardinality(LeftBefore(e)) \in Nat
             /\ Cardinality(LeftBefore(e)) <= Cardinality(Left)
  <2>1. LeftBefore(e) \subseteq Left
    BY DEF LeftBefore
  <2> QED
    BY <1>3, <2>1, SmallerCount
<1> QED
  BY <1>1, <1>3, <1>4, Subinterval

LEMMA CountsNext ==
  ASSUME LogOK'
  PROVE  /\ IsFiniteSet(Judged') /\ Cardinality(Judged') \in Nat
         /\ IsFiniteSet(Left') /\ Cardinality(Left') \in Nat
         /\ \A e : /\ LeftBefore(e)' \subseteq Left' /\ IsFiniteSet(LeftBefore(e)')
                   /\ Cardinality(LeftBefore(e)') \in Nat
                   /\ Cardinality(LeftBefore(e)') <= Cardinality(Left')
<1>1. Len(attempts') \in Nat /\ Judged' \subseteq 1 .. Len(attempts')
  BY DEF LogOK, Judged, Attempt
<1>2. Len(turns') \in Nat /\ Left' \subseteq 1 .. Len(turns')
  BY DEF LogOK, Left
<1>3. IsFiniteSet(Left') /\ Cardinality(Left') \in Nat
  BY <1>2, Subinterval
<1>4. ASSUME NEW e
      PROVE  /\ LeftBefore(e)' \subseteq Left' /\ IsFiniteSet(LeftBefore(e)')
             /\ Cardinality(LeftBefore(e)') \in Nat
             /\ Cardinality(LeftBefore(e)') <= Cardinality(Left')
  <2>1. LeftBefore(e)' \subseteq Left'
    BY DEF LeftBefore
  <2> QED
    BY <1>3, <2>1, SmallerCount
<1> QED
  BY <1>1, <1>3, <1>4, Subinterval

\* What is paid for one judgement more leaves one to spare.
LEMMA PaidSpares ==
  ASSUME LogOK, asked \in Nat, NEW a \in Attempt, Paid(a, Cardinality(Judged) + 1)
  PROVE  Spare
BY Counts DEF Paid, Spare

LEMMA AccountsMean == ASSUME LogOK, asked \in Nat, Accounts PROVE FailuresNeedNewTurns
<1>1. Cardinality(Judged) <= Cardinality(Left) + asked
  <2>1. CASE Judged = {}
    BY <2>1, Counts, FS_EmptySet
  <2>2. CASE Judged # {}
    <3>1. PICK a \in Attempt : Latest(a)
      BY <2>2 DEF Accounts
    <3>2. Spare \/ Paid(a, Cardinality(Judged))
      BY <3>1 DEF Accounts
    <3> QED
      BY <3>2, Counts DEF Spare, Paid
  <2> QED
    BY <2>1, <2>2
<1> QED
  BY <1>1 DEF FailuresNeedNewTurns, Left

-----------------------------------------------------------------------------
(* How the accounts move *)

\* Nothing happens to the attempts; turns may close and compactions be asked for.
LEMMA AccountsKept ==
  ASSUME LogOK, LogOK', OpOK, Accounts, asked \in Nat, asked' \in Nat, asked <= asked',
         UNCHANGED <<attempts, segments, resetAt>>,
         \A i \in Left : i \in Left' /\ turns'[i] = turns[i],
         \/ op' = op \/ op'.at = "none"
         \/ /\ op'.at = "begin" /\ Cardinality(Judged) < Cardinality(Left) + asked'
            /\ op'.by = "now" => asked' >= 1
  PROVE  Accounts'
<1>1. /\ Attempt' = Attempt /\ Judged' = Judged /\ OpenAttempt' = OpenAttempt
      /\ \A a \in Attempt : Latest(a)' = Latest(a)
  BY DEF Attempt, Judged, OpenAttempt, Latest, Ended, Activations, LastOf
<1>2. /\ Left \subseteq Left'
      /\ \A e : LeftBefore(e) \subseteq LeftBefore(e)'
  BY DEF LeftBefore
<1>3. /\ Cardinality(Left) <= Cardinality(Left')
      /\ \A e : Cardinality(LeftBefore(e)) <= Cardinality(LeftBefore(e)')
  BY <1>2, CountsNext, SmallerCount
<1>4. /\ Cardinality(Judged) \in Nat /\ Cardinality(Left) \in Nat /\ Cardinality(Left') \in Nat
      /\ \A e : Cardinality(LeftBefore(e)) \in Nat /\ Cardinality(LeftBefore(e)') \in Nat
  BY Counts, CountsNext
<1>5. Spare => Spare'
  BY <1>1, <1>3, <1>4 DEF Spare
<1>6. ASSUME NEW a \in Attempt, NEW n \in Nat, Paid(a, n) PROVE Paid(a, n)'
  <2> DEFINE s == attempts[a].start
  <2>1. attempts'[a].start = s /\ resetAt' = resetAt
    OBVIOUS
  <2>2. /\ Cardinality(LeftBefore(s)) <= Cardinality(LeftBefore(s)')
        /\ Cardinality(LeftBefore(s)) \in Nat /\ Cardinality(LeftBefore(s)') \in Nat
    BY <1>3, <1>4
  <2>3. LeftBefore(attempts[a].start)' = LeftBefore(s)'
    BY DEF LeftBefore
  <2> QED
    BY <1>6, <2>1, <2>2, <2>3 DEF Paid
<1>7. OpenAttempt /\ op.at # "sent" => Spare
  BY DEF Accounts
<1>8. op.at = "sent" => Spare
  BY PaidSpares DEF Accounts, OpOK
<1>9. OpenAttempt' => Spare'
  BY <1>1, <1>5, <1>7, <1>8
<1>10. op'.at = "sent" => Paid(op.attempt, Cardinality(Judged) + 1)' /\ op' = op
  <2> SUFFICES ASSUME op'.at = "sent" PROVE Paid(op.attempt, Cardinality(Judged) + 1)' /\ op' = op
    OBVIOUS
  <2>1. op' = op /\ op.at = "sent" /\ op.attempt \in Attempt
    BY DEF OpOK
  <2> DEFINE n == Cardinality(Judged) + 1
             a == op.attempt
  <2>2. n \in Nat /\ a \in Attempt /\ Paid(a, n)
    BY <1>4, <2>1 DEF Accounts
  <2>3. op'.attempt = a /\ Cardinality(Judged') + 1 = n
    BY <1>1, <2>1
  <2> QED
    BY <1>6, <2>1, <2>2, <2>3 DEF Paid, LeftBefore
<1>11. \A a \in Attempt : Latest(a)' =>
         IF attempts'[a].status = "lost" THEN Spare' ELSE Paid(a, Cardinality(Judged))'
  BY <1>1, <1>4, <1>5, <1>6 DEF Accounts, Paid
<1> QED
  BY <1>1, <1>3, <1>4, <1>9, <1>10, <1>11 DEF Accounts

\* An attempt starts: it is open, and the one it repeats, if any, is no longer the last of
\* its operation.
LEMMA JudgedStarts ==
  ASSUME LogOK, NEW c \in Nat, NEW e \in Nat, NEW n \in Nat, NEW r \in Nat,
         AppendStart(c, e, n, r)
  PROVE  /\ Judged' \subseteq {a \in Judged : Given(a) # c}
         /\ Left' = Left /\ \A s : LeftBefore(s)' = LeftBefore(s)
         /\ \A a \in Attempt : attempts'[a] = attempts[a] /\ (Latest(a)' <=> Latest(a))
         /\ \A a \in Attempt' : Latest(a)' => a \in Attempt
         /\ Attempt' = Attempt \cup {Len(attempts) + 1}
         /\ attempts'[Len(attempts) + 1].start = seq + 1
<1>0. PICK k \in Nat : k = Len(attempts) + 1
  BY DEF LogOK
<1>1. /\ \A a \in Attempt : attempts'[a] = attempts[a] /\ a \in Nat /\ a < k
      /\ attempts'[k].operation = c /\ attempts'[k].status = "open"
      /\ attempts'[k].start = seq + 1
  BY <1>0 DEF AppendStart, LogOK, Attempt
<1>2. Attempt' = Attempt \cup {k}
  BY <1>0, OpenStarts
<1>3. UNCHANGED <<turns, segments, resetAt>>
  BY DEF AppendStart
<1>4. ~Ended(k)'
  BY <1>1 DEF Ended
<1>5. \A a \in Attempt : Ended(a)' <=> Ended(a)
  BY <1>1, <1>3 DEF Ended
<1>6. \A a \in Attempt : Latest(a)' <=> Latest(a)
  BY <1>1, <1>2, <1>3, <1>4, <1>5 DEF Latest, Activations
<1>7. ASSUME NEW a \in Judged' PROVE a \in Judged /\ Given(a) # c
  <2>1. a \in Attempt /\ attempts'[a] = attempts[a]
    BY <1>1, <1>2 DEF Judged
  <2>2. LastOf(a)
    <3> SUFFICES ASSUME NEW b \in Attempt, attempts[b].operation = attempts[a].operation
                 PROVE  b <= a
      BY DEF LastOf
    <3> QED
      BY <1>1, <1>2, <2>1 DEF Judged, LastOf
  <2>3. Given(a) # c
    <3> SUFFICES ASSUME attempts[a].operation = c PROVE FALSE
      BY DEF Given
    <3>1. k \in Attempt' /\ attempts'[k].operation = attempts'[a].operation
      BY <1>1, <1>2, <2>1
    <3>2. k <= a
      BY <3>1 DEF Judged, LastOf
    <3> QED
      BY <1>1, <2>1, <3>2
  <2> QED
    BY <1>3, <2>1, <2>2, <2>3 DEF Judged, Activations
<1>8. Left' = Left /\ \A s : LeftBefore(s)' = LeftBefore(s)
  BY <1>3 DEF Left, LeftBefore, Closed, Compacted
<1> QED
  BY <1>0, <1>1, <1>2, <1>4, <1>6, <1>7, <1>8 DEF Latest

\* An open attempt fails or is lost: it is the latest that ended, and the only one that may
\* be judged now and was not before.
LEMMA JudgedEnds ==
  ASSUME LogOK, Clock, NEW x \in Attempt, IsOpen(x), NEW s \in {"failed", "lost"},
         AppendEnd(x, s)
  PROVE  /\ Judged' \subseteq Judged \cup {x} /\ (s = "lost" => Judged' = Judged)
         /\ Left' = Left /\ \A t : LeftBefore(t)' = LeftBefore(t)
         /\ Attempt' = Attempt /\ resetAt' = resetAt
         /\ \A a \in Attempt : Latest(a)' <=> a = x
         /\ \A a \in Attempt : attempts'[a].start = attempts[a].start
         /\ attempts'[x].status = s
         /\ (s = "failed" /\ \A a \in Attempt : Given(a) = Given(x) => a = x) => x \in Judged'
<1>1. attempts \in [Attempt -> AttemptRecord] /\ Attempt = 1 .. Len(attempts) /\ seq \in Nat
  BY DEF LogOK, Attempt
<1>2. /\ attempts' = [attempts EXCEPT ![x].status = s, ![x].end = seq + 1]
      /\ UNCHANGED <<turns, segments, resetAt>>
  BY DEF AppendEnd
<1>3. Attempt' = Attempt
  BY <1>1, <1>2 DEF Attempt
<1>4. \A a \in Attempt : a # x => attempts'[a] = attempts[a]
  BY <1>1, <1>2
<1>5. /\ attempts'[x].status = s /\ attempts'[x].end = seq + 1
      /\ attempts'[x].start = attempts[x].start
      /\ attempts'[x].operation = attempts[x].operation
  BY <1>1, <1>2 DEF AttemptRecord
<1>6. /\ resetAt \in Nat /\ resetAt <= seq /\ Activations' = Activations
      /\ \A a \in Attempt : attempts[a].end \in Nat /\ attempts[a].end <= seq
      /\ \A m \in Activations : m \in Nat /\ m <= seq
  <2>1. \A i \in DOMAIN segments : segments[i].seq \in Nat
    <3>1. \A i \in DOMAIN segments : segments[i] \in SegmentRecord
      BY DEF LogOK
    <3> QED
      BY <3>1 DEF SegmentRecord
  <2>2. \A a \in Attempt : attempts[a].end \in Nat
    BY <1>1 DEF AttemptRecord
  <2> QED
    BY <1>2, <2>1, <2>2 DEF Clock, Activations, LogOK
<1>7. Ended(x)' /\ \A a \in Attempt : Ended(a)' => attempts'[a].end <= attempts'[x].end
  BY <1>1, <1>2, <1>4, <1>5, <1>6 DEF Ended
<1>8. Latest(x)'
  BY <1>1, <1>3, <1>5, <1>6, <1>7 DEF Latest
<1>9. ASSUME NEW a \in Attempt, Latest(a)' PROVE a = x
  <2>1. attempts'[x].end <= attempts'[a].end
    BY <1>3, <1>7, <1>9 DEF Latest
  <2> QED
    BY <1>1, <1>4, <1>5, <1>6, <2>1
<1>10. \A a \in Attempt : LastOf(a)' <=> LastOf(a)
  BY <1>3, <1>4, <1>5 DEF LastOf
<1>11. \A a \in Attempt : a # x => (a \in Judged' <=> a \in Judged)
  BY <1>2, <1>3, <1>4, <1>6, <1>10 DEF Judged
<1>12. x \notin Judged /\ (s = "lost" => x \notin Judged')
  BY <1>5 DEF Judged, IsOpen
<1>13. Judged \subseteq Attempt /\ Judged' \subseteq Attempt
  BY <1>3 DEF Judged
<1>14. Left' = Left /\ \A t : LeftBefore(t)' = LeftBefore(t)
  BY <1>2 DEF Left, LeftBefore, Closed, Compacted
<1>15. ASSUME s = "failed", \A a \in Attempt : Given(a) = Given(x) => a = x PROVE x \in Judged'
  <2>1. LastOf(x)
    BY <1>1, <1>15 DEF LastOf, Given
  <2> QED
    BY <1>1, <1>2, <1>3, <1>5, <1>6, <1>10, <1>15, <2>1 DEF Judged
<1>16. Judged' \subseteq Judged \cup {x} /\ (s = "lost" => Judged' = Judged)
  BY <1>11, <1>12, <1>13
<1>17. \A a \in Attempt : attempts'[a].start = attempts[a].start
  BY <1>4, <1>5
<1>18. \A a \in Attempt : Latest(a)' <=> a = x
  BY <1>8, <1>9
<1> QED
  BY <1>2, <1>3, <1>5, <1>14, <1>15, <1>16, <1>17, <1>18

-----------------------------------------------------------------------------
(* The clock *)

LEMMA ClockKept ==
  ASSUME LogOK, Clock, UNCHANGED <<attempts, segments, resetAt>>,
         seq <= seq', seq' \in Nat, \A i \in DOMAIN turns' : turns'[i].close <= seq'
  PROVE  Clock'
<1>1. /\ \A a \in Attempt : attempts[a].start \in Nat /\ attempts[a].end \in Nat
      /\ \A i \in DOMAIN segments : segments[i].seq \in Nat
      /\ seq \in Nat /\ resetAt \in Nat
  <2>1. \A i \in DOMAIN segments : segments[i] \in SegmentRecord
    BY DEF LogOK
  <2> QED
    BY <2>1, AttemptTyped DEF LogOK, AttemptRecord, SegmentRecord
<1>2. resetAt' <= seq' /\ \A i \in DOMAIN segments' : segments'[i].seq <= seq'
  BY <1>1 DEF Clock
<1>3. \A a \in Attempt' : attempts'[a].start <= seq' /\ attempts'[a].end <= seq'
  BY <1>1 DEF Clock, Attempt
<1> QED
  BY <1>2, <1>3 DEF Clock

LEMMA ClockTicks ==
  ASSUME LogOK, LogOK', Clock, seq' = seq + 1, UNCHANGED <<turns, resetAt>>,
         \A a \in Attempt' : \/ a \in Attempt /\ attempts'[a] = attempts[a]
                             \/ /\ attempts'[a].start <= seq + 1
                                /\ attempts'[a].end <= seq + 1,
         \A i \in DOMAIN segments' : \/ i \in DOMAIN segments /\ segments'[i] = segments[i]
                                     \/ segments'[i].seq <= seq + 1
  PROVE  Clock'
<1>1. /\ \A a \in Attempt : attempts[a].start \in Nat /\ attempts[a].end \in Nat
      /\ \A i \in DOMAIN segments : segments[i].seq \in Nat
      /\ \A i \in DOMAIN turns : turns[i].close \in Nat
      /\ seq \in Nat /\ resetAt \in Nat
  <2>1. /\ \A i \in DOMAIN segments : segments[i] \in SegmentRecord
        /\ \A i \in DOMAIN turns : turns[i] \in TurnRecord
    BY DEF LogOK
  <2> QED
    BY <2>1, AttemptTyped DEF LogOK, AttemptRecord, SegmentRecord, TurnRecord
<1>2. resetAt' <= seq' /\ \A i \in DOMAIN turns' : turns'[i].close <= seq'
  BY <1>1 DEF Clock
<1>3. \A a \in Attempt' : attempts'[a].start <= seq' /\ attempts'[a].end <= seq'
  BY <1>1 DEF Clock
<1>4. \A i \in DOMAIN segments' : segments'[i].seq <= seq'
  BY <1>1 DEF Clock
<1> QED
  BY <1>2, <1>3, <1>4 DEF Clock

LEMMA ClockStarted ==
  ASSUME LogOK, LogOK', Clock, NEW c \in Nat, NEW e \in Nat, NEW n \in Nat, NEW r \in Nat,
         AppendStart(c, e, n, r)
  PROVE  Clock'
<1>1. PICK k \in Nat : k = Len(attempts) + 1
  BY DEF LogOK
<1>2. /\ \A a \in Attempt : attempts'[a] = attempts[a]
      /\ attempts'[k].start = seq + 1 /\ attempts'[k].end = 0
  BY <1>1 DEF AppendStart, LogOK, Attempt
<1>3. Attempt' = Attempt \cup {k}
  BY <1>1, OpenStarts
<1>4. 0 <= seq + 1 /\ seq + 1 <= seq + 1
  BY DEF LogOK
<1>5. seq' = seq + 1 /\ UNCHANGED <<turns, segments, resetAt>>
  BY DEF AppendStart
<1>6. \A a \in Attempt' : \/ a \in Attempt /\ attempts'[a] = attempts[a]
                          \/ attempts'[a].start <= seq + 1 /\ attempts'[a].end <= seq + 1
  BY <1>2, <1>3, <1>4
<1> QED
  BY <1>5, <1>6, ClockTicks

LEMMA ClockEnded ==
  ASSUME LogOK, LogOK', Clock, NEW x \in Attempt, NEW s \in {"failed", "lost", "accepted"},
         attempts' = [attempts EXCEPT ![x].status = s, ![x].end = seq + 1],
         seq' = seq + 1, UNCHANGED <<turns, resetAt>>,
         \A i \in DOMAIN segments' : \/ i \in DOMAIN segments /\ segments'[i] = segments[i]
                                     \/ segments'[i].seq <= seq + 1
  PROVE  Clock'
<1>1. attempts \in [Attempt -> AttemptRecord] /\ seq \in Nat
  BY DEF LogOK, Attempt
<1>2. Attempt' = Attempt
  BY <1>1 DEF Attempt
<1>3. \A a \in Attempt : a # x => attempts'[a] = attempts[a]
  BY <1>1
<1>4. attempts'[x].end = seq + 1 /\ attempts'[x].start = attempts[x].start
  BY <1>1 DEF AttemptRecord
<1>5. attempts'[x].start <= seq + 1 /\ attempts'[x].end <= seq + 1
  BY <1>1, <1>4 DEF Clock, AttemptRecord
<1>6. \A a \in Attempt' : \/ a \in Attempt /\ attempts'[a] = attempts[a]
                          \/ attempts'[a].start <= seq + 1 /\ attempts'[a].end <= seq + 1
  BY <1>2, <1>3, <1>5
<1> QED
  BY <1>6, ClockTicks

LEMMA ClockServes ==
  ASSUME LogOK, LogOK', Clock, Driven, NEW p \in Proc, Serves(p) \/ Admits(p)
  PROVE  Clock'
<1>1. /\ \A i \in DOMAIN turns : turns[i].close \in Nat /\ turns[i].close <= seq
      /\ seq \in Nat /\ seq' \in Nat /\ resetAt \in Nat
  <2>1. \A i \in DOMAIN turns : turns[i] \in TurnRecord
    BY DEF LogOK
  <2> QED
    BY <2>1 DEF LogOK, Clock, TurnRecord
<1>2. CASE UNCHANGED log
  BY <1>1, <1>2, ClockKept DEF log
<1>3. CASE StartTurn(p)
  <2>1. PICK m \in Mass : turns' = Append(turns, [mass |-> m, close |-> 0])
    BY <1>3 DEF StartTurn
  <2>2. \A i \in DOMAIN turns' : (i \in DOMAIN turns /\ turns'[i] = turns[i]) \/ turns'[i].close = 0
    BY <2>1 DEF LogOK
  <2>3. seq' = seq + 1 /\ UNCHANGED <<attempts, segments, resetAt>>
    BY <1>3 DEF StartTurn
  <2>4. \A i \in DOMAIN turns' : turns'[i].close <= seq'
    BY <1>1, <2>2, <2>3
  <2>5. seq <= seq'
    BY <1>1, <2>3
  <2> QED
    BY <1>1, <2>3, <2>4, <2>5, ClockKept
<1>4. CASE EndTurn(p)
  <2>1. Len(turns) \in DOMAIN turns
    BY <1>4 DEF EndTurn, Driven, Active, LogOK
  <2>2. turns \in [DOMAIN turns -> TurnRecord]
    BY DEF LogOK
  <2>3. /\ turns' = [turns EXCEPT ![Len(turns)].close = seq + 1]
        /\ seq' = seq + 1 /\ UNCHANGED <<attempts, segments, resetAt>>
    BY <1>4 DEF EndTurn
  <2>4. \A i \in DOMAIN turns' : \/ i \in DOMAIN turns /\ turns'[i] = turns[i]
                                 \/ turns'[i].close = seq + 1
    BY <2>1, <2>2, <2>3 DEF TurnRecord
  <2>5. \A i \in DOMAIN turns' : turns'[i].close <= seq'
    BY <1>1, <2>3, <2>4
  <2>6. seq <= seq'
    BY <1>1, <2>3
  <2> QED
    BY <1>1, <2>3, <2>5, <2>6, ClockKept
<1>5. CASE Reset(p)
  <2>1. /\ seq' = seq + 1 /\ resetAt' = seq + 1 /\ turns' = <<>> /\ segments' = <<>>
        /\ UNCHANGED attempts
    BY <1>5 DEF Reset
  <2>2. \A a \in Attempt : /\ attempts[a].start \in Nat /\ attempts[a].end \in Nat
                           /\ attempts[a].start <= seq /\ attempts[a].end <= seq
    BY AttemptTyped DEF Clock, AttemptRecord
  <2>3. \A a \in Attempt' : attempts'[a].start <= seq' /\ attempts'[a].end <= seq'
    BY <1>1, <2>1, <2>2 DEF Attempt
  <2>4. resetAt' <= seq'
    BY <1>1, <2>1
  <2> QED
    BY <2>1, <2>3, <2>4 DEF Clock
<1> QED
  BY <1>2, <1>3, <1>4, <1>5 DEF Serves, Admits, ContinueTurn, NextRequest, Reinstall, CompactNow,
     Admit, Launch, Fails

LEMMA ClockOpens ==
  ASSUME LogOK, LogOK', Clock, NEW p \in Proc, Opens(p)
  PROVE  Clock'
<1>1. \A i \in DOMAIN turns : turns[i].close <= seq
  BY DEF Clock
<1>2. seq \in Nat /\ seq' \in Nat
  BY DEF LogOK
<1>3. CASE UNCHANGED log
  BY <1>1, <1>2, <1>3, ClockKept DEF log
<1>4. CASE RecoverAttempt(p)
  <2>1. PICK a \in Attempt : AppendEnd(a, "lost")
    BY <1>4 DEF RecoverAttempt
  <2> QED
    BY <2>1, ClockEnded DEF AppendEnd
<1>5. CASE RecoverSupersession(p)
  <2>1. seq' = seq + 1 /\ UNCHANGED <<turns, segments, attempts, resetAt>>
    BY <1>5 DEF RecoverSupersession, AppendSuperseded
  <2> QED
    BY <2>1, ClockTicks DEF Attempt
<1> QED
  BY <1>3, <1>4, <1>5 DEF Opens, Resume, Recovered, Open, Leave, Kill, Gone

LEMMA ClockRuns ==
  ASSUME LogOK, LogOK', OpOK, Clock, NEW p \in Proc, Compacts(p)
  PROVE  Clock'
<1>1. \A i \in DOMAIN turns : turns[i].close <= seq
  BY DEF Clock
<1>2. seq \in Nat /\ seq' \in Nat
  BY DEF LogOK
<1>3. CASE UNCHANGED log
  BY <1>1, <1>2, <1>3, ClockKept DEF log
<1>4. CASE Begin(p)
  <2>1. AppendStart(seq + 1, Len(segments) + 1, 1, 0)
    BY <1>4 DEF Begin
  <2>2. seq + 1 \in Nat /\ Len(segments) + 1 \in Nat
    BY DEF LogOK
  <2> QED
    BY <2>1, <2>2, ClockStarted
<1>5. CASE Repair(p)
  <2>1. op \in OpRecord
    BY <1>5, Running DEF Repair
  <2>2. AppendStart(op.operation, op.epoch, op.number + 1, op.attempt)
    BY <1>5 DEF Repair
  <2>3. op.operation \in Nat /\ op.epoch \in Nat /\ op.number + 1 \in Nat /\ op.attempt \in Nat
    BY <2>1 DEF OpRecord
  <2> QED
    BY <2>2, <2>3, ClockStarted
<1>6. CASE MissCredential(p) \/ CompactorFails(p) \/ SourceChanged(p) \/ CandidateInvalid(p)
  <2>1. op.attempt \in Attempt /\ AppendEnd(op.attempt, "failed")
    BY <1>6 DEF MissCredential, CompactorFails, SourceChanged, CandidateInvalid, Runs, OpOK
  <2> QED
    BY <2>1, ClockEnded DEF AppendEnd
<1>7. CASE Activate(p)
  <2>1. op.attempt \in Attempt /\ AppendCompacted(op.attempt, op.turns)
    BY <1>7 DEF Activate, Runs, OpOK
  <2>2. \A i \in DOMAIN segments' : \/ i \in DOMAIN segments /\ segments'[i] = segments[i]
                                    \/ segments'[i].seq = seq + 1
    BY <2>1 DEF AppendCompacted, LogOK
  <2>3. \A i \in DOMAIN segments' : \/ i \in DOMAIN segments /\ segments'[i] = segments[i]
                                    \/ segments'[i].seq <= seq + 1
    BY <1>2, <2>2
  <2> QED
    BY <2>1, <2>3, ClockEnded DEF AppendCompacted
<1>8. CASE Supersede(p)
  <2>1. seq' = seq + 1 /\ UNCHANGED <<turns, segments, attempts, resetAt>>
    BY <1>8 DEF Supersede, AppendSuperseded
  <2> QED
    BY <2>1, ClockTicks DEF Attempt
<1> QED
  BY <1>3, <1>4, <1>5, <1>6, <1>7, <1>8 DEF Compacts, Refused, RepairUnplanned, SupersedeFails

-----------------------------------------------------------------------------
(* The accounts of a step *)

\* A failed attempt was paid for in advance.
LEMMA AccountsFailed ==
  ASSUME LogOK, LogOK', OpOK, Clock, Single, Known, Accounts, asked \in Nat, asked' = asked,
         op.at = "sent", AppendEnd(op.attempt, "failed"),
         \/ op' = NoOp
         \/ op.number = 1 /\ op' = [op EXCEPT !.at = "repair"]
  PROVE  Accounts'
<1>1. PICK x \in Attempt : x = op.attempt
  BY DEF OpOK
<1>2. op \in OpRecord /\ IsOpen(x) /\ AppendEnd(x, "failed") /\ Paid(x, Cardinality(Judged) + 1)
  BY <1>1 DEF OpOK, NoOp, Known, Accounts
<1>3. /\ Judged' \subseteq Judged \cup {x}
      /\ Left' = Left /\ \A t : LeftBefore(t)' = LeftBefore(t)
      /\ Attempt' = Attempt /\ resetAt' = resetAt
      /\ \A a \in Attempt : Latest(a)' <=> a = x
      /\ attempts'[x].start = attempts[x].start /\ attempts'[x].status = "failed"
      /\ (\A a \in Attempt : Given(a) = Given(x) => a = x) => x \in Judged'
  BY <1>2, JudgedEnds
<1>4. Cardinality(Judged') <= Cardinality(Judged) + 1
  <2>1. IsFiniteSet(Judged) /\ Cardinality(Judged) \in Nat
    BY Counts
  <2>2. /\ IsFiniteSet(Judged \cup {x})
        /\ Cardinality(Judged \cup {x}) = IF x \in Judged THEN Cardinality(Judged)
                                          ELSE Cardinality(Judged) + 1
    BY <2>1, FS_AddElement
  <2>3. /\ Cardinality(Judged') <= Cardinality(Judged \cup {x}) /\ Cardinality(Judged') \in Nat
    BY <1>3, <2>2, SmallerCount
  <2> QED
    BY <2>1, <2>2, <2>3
<1>5. Paid(x, Cardinality(Judged))'
  <2> DEFINE s == attempts[x].start
  <2>1. /\ Cardinality(Judged) \in Nat /\ Cardinality(Judged') \in Nat
        /\ Cardinality(LeftBefore(s)) \in Nat
    BY Counts, CountsNext
  <2>2. attempts'[x].start = s /\ LeftBefore(attempts[x].start)' = LeftBefore(s)
    BY <1>3 DEF LeftBefore
  <2>3. IF s > resetAt THEN Cardinality(Judged) + 1 <= Cardinality(LeftBefore(s)) + asked
                       ELSE Cardinality(Judged) + 1 <= asked
    BY <1>2 DEF Paid
  <2>4. IF s > resetAt THEN Cardinality(Judged') <= Cardinality(LeftBefore(s)) + asked
                       ELSE Cardinality(Judged') <= asked
    BY <1>4, <2>1, <2>3
  <2> QED
    BY <1>3, <2>2, <2>4 DEF Paid
<1>6. ~OpenAttempt'
  BY <1>1, <1>2, <1>3, OpenEnds DEF Single, OpenAttempt, IsOpen, AppendEnd
<1>7. op'.at \in {"none", "repair"}
  BY <1>2 DEF NoOp, OpRecord
<1>8. op'.at # "none" /\ op'.by = "now" => asked' >= 1
  BY <1>2 DEF NoOp, OpRecord, Accounts
<1>9. op'.at = "repair" => op'.attempt \in Judged'
  <2> SUFFICES ASSUME op'.at = "repair" PROVE op'.attempt \in Judged'
    OBVIOUS
  <2>1. op.number = 1 /\ op'.attempt = x
    BY <1>1, <1>2 DEF NoOp, OpRecord
  <2>2. \A a \in Attempt : Given(a) = Given(x) => a = x
    BY <1>1, <2>1 DEF Known
  <2> QED
    BY <1>3, <2>1, <2>2
<1>10. \A a \in Attempt' : Latest(a)' =>
         IF attempts'[a].status = "lost" THEN Spare' ELSE Paid(a, Cardinality(Judged))'
  BY <1>3, <1>5
<1>11. \E a \in Attempt' : Latest(a)'
  BY <1>3
<1> QED
  BY <1>6, <1>7, <1>8, <1>9, <1>10, <1>11 DEF Accounts

\* So was one that is found lost, and the judgement it did not make is left over.
LEMMA AccountsLost ==
  ASSUME LogOK, LogOK', Clock, Accounts, asked' = asked, op.at = "none", op' = op,
         NEW x \in Attempt, IsOpen(x), AppendEnd(x, "lost")
  PROVE  Accounts'
<1>1. /\ Judged' = Judged /\ Left' = Left /\ Attempt' = Attempt
      /\ \A a \in Attempt : Latest(a)' <=> a = x
      /\ attempts'[x].status = "lost"
  BY JudgedEnds
<1>2. Spare
  BY DEF Accounts, OpenAttempt, IsOpen
<1>3. Spare'
  BY <1>1, <1>2 DEF Spare
<1>4. \A a \in Attempt' : Latest(a)' =>
         IF attempts'[a].status = "lost" THEN Spare' ELSE Paid(a, Cardinality(Judged))'
  BY <1>1, <1>3
<1> QED
  BY <1>1, <1>3, <1>4 DEF Accounts

\* An attempt starts with one judgement to spare.
LEMMA AccountsStarted ==
  ASSUME LogOK, LogOK', Clock, Accounts, asked \in Nat, asked' = asked,
         NEW c \in Nat, NEW e \in Nat, NEW n \in Nat, NEW r \in Nat,
         AppendStart(c, e, n, r),
         Cardinality({a \in Judged : Given(a) # c}) < Cardinality(Left) + asked,
         op.at # "none", op'.at = "sent", op'.by = op.by, op'.attempt = Len(attempts) + 1
  PROVE  Accounts'
<1>1. /\ Judged' \subseteq {a \in Judged : Given(a) # c}
      /\ Left' = Left /\ \A s : LeftBefore(s)' = LeftBefore(s)
      /\ \A a \in Attempt : attempts'[a] = attempts[a] /\ (Latest(a)' <=> Latest(a))
      /\ \A a \in Attempt' : Latest(a)' => a \in Attempt
      /\ Attempt' = Attempt \cup {Len(attempts) + 1}
      /\ attempts'[Len(attempts) + 1].start = seq + 1
  BY JudgedStarts
<1>2. resetAt' = resetAt /\ seq \in Nat /\ resetAt \in Nat /\ resetAt <= seq
  BY DEF AppendStart, LogOK, Clock
<1>3. /\ Cardinality(Judged') <= Cardinality(Judged)
      /\ Cardinality(Judged') <= Cardinality({a \in Judged : Given(a) # c})
      /\ Cardinality(Judged) \in Nat /\ Cardinality(Judged') \in Nat
      /\ Cardinality({a \in Judged : Given(a) # c}) \in Nat
      /\ Cardinality(Left) \in Nat
  <2>1. IsFiniteSet(Judged) /\ Cardinality(Judged) \in Nat /\ Cardinality(Left) \in Nat
    BY Counts
  <2>2. /\ IsFiniteSet({a \in Judged : Given(a) # c})
        /\ Cardinality({a \in Judged : Given(a) # c}) \in Nat
    BY <2>1, SmallerCount
  <2>3. Judged' \subseteq Judged
    BY <1>1
  <2> QED
    BY <1>1, <2>1, <2>2, <2>3, SmallerCount
<1>4. LeftBefore(seq + 1) = Left
  <2>1. \A i \in Left : turns[i] \in TurnRecord /\ turns[i].close <= seq
    BY DEF Left, LogOK, Clock
  <2>2. \A i \in Left : turns[i].close < seq + 1
    BY <1>2, <2>1 DEF TurnRecord
  <2> QED
    BY <2>2 DEF LeftBefore
<1>5. Paid(op.attempt, Cardinality(Judged) + 1)'
  <2>1. attempts'[op'.attempt].start = seq + 1 /\ seq + 1 > resetAt'
    BY <1>1, <1>2
  <2>2. LeftBefore(attempts[op.attempt].start)' = Left
    <3>1. LeftBefore(attempts[op.attempt].start)' = {i \in Left' : turns'[i].close < seq + 1}
      BY <2>1 DEF LeftBefore
    <3>2. turns' = turns
      BY DEF AppendStart
    <3> QED
      BY <1>1, <1>4, <3>1, <3>2 DEF LeftBefore
  <2>3. Cardinality(Judged') + 1 <= Cardinality(Left) + asked
    BY <1>3
  <2> QED
    BY <2>1, <2>2, <2>3 DEF Paid
<1>6. Spare => Spare'
  BY <1>1, <1>3 DEF Spare
<1>7. ASSUME NEW a \in Attempt, Paid(a, Cardinality(Judged)) PROVE Paid(a, Cardinality(Judged))'
  <2> DEFINE s == attempts[a].start
  <2>1. attempts'[a].start = s /\ LeftBefore(attempts[a].start)' = LeftBefore(s)
    BY <1>1 DEF LeftBefore
  <2>2. Cardinality(LeftBefore(s)) \in Nat
    BY Counts
  <2>3. IF s > resetAt THEN Cardinality(Judged') <= Cardinality(LeftBefore(s)) + asked
                       ELSE Cardinality(Judged') <= asked
    BY <1>3, <1>7, <2>2 DEF Paid
  <2> QED
    BY <1>2, <2>1, <2>3 DEF Paid
<1>8. ASSUME NEW a \in Attempt', Latest(a)'
      PROVE  IF attempts'[a].status = "lost" THEN Spare' ELSE Paid(a, Cardinality(Judged))'
  <2>1. a \in Attempt /\ Latest(a) /\ attempts'[a] = attempts[a]
    BY <1>1, <1>8
  <2>2. IF attempts[a].status = "lost" THEN Spare ELSE Paid(a, Cardinality(Judged))
    BY <2>1 DEF Accounts
  <2> QED
    BY <1>6, <1>7, <2>1, <2>2
<1>9. Judged' # {} => \E a \in Attempt' : Latest(a)'
  BY <1>1 DEF Accounts
<1> QED
  BY <1>5, <1>8, <1>9 DEF Accounts

\* An activation and a reset clear the accounts.
LEMMA AccountsCleared ==
  ASSUME Judged' = {}, \A a \in Attempt' : ~Latest(a)', asked' \in Nat,
         op'.at \in {"none", "sent", "supersede"},
         op'.at # "none" /\ op'.by = "now" => asked' >= 1,
         op'.at = "sent" => Paid(op.attempt, 1)'
  PROVE  Accounts'
<1>1. Cardinality(Judged') = 0
  BY FS_EmptySet
<1>2. Spare'
  BY <1>1 DEF Spare
<1> QED
  BY <1>1, <1>2 DEF Accounts

LEMMA AccountsServes ==
  ASSUME LogOK, LogOK', LiveOK, LiveOK', OpOK, Clock, Accounts, Driven,
         NEW p \in Proc, Serves(p) \/ Admits(p)
  PROVE  Accounts'
<1>1. asked \in Nat /\ asked' \in Nat
  BY DEF LiveOK
<1>2. \A i \in DOMAIN turns : turns[i] \in TurnRecord
  BY DEF LogOK
<1>3. CASE UNCHANGED log /\ op' = op /\ asked' = asked
  <2>1. \A i \in Left : i \in Left' /\ turns'[i] = turns[i]
    BY <1>3 DEF log, Left, Closed, Compacted
  <2>2. asked <= asked' /\ UNCHANGED <<attempts, segments, resetAt>>
    BY <1>1, <1>3 DEF log
  <2> QED
    BY <1>1, <1>3, <2>1, <2>2, AccountsKept
<1>4. CASE StartTurn(p)
  <2>1. /\ \E m \in Mass : turns' = Append(turns, [mass |-> m, close |-> 0])
        /\ UNCHANGED <<attempts, segments, resetAt, op, asked>>
    BY <1>4 DEF StartTurn, bounds
  <2>2. \A i \in DOMAIN turns : i \in DOMAIN turns' /\ turns'[i] = turns[i]
    BY <2>1 DEF LogOK
  <2>3. \A i \in Left : i \in Left' /\ turns'[i] = turns[i]
    BY <2>1, <2>2 DEF Left, Closed, Compacted
  <2>4. asked <= asked'
    BY <1>1, <2>1
  <2> QED
    BY <1>1, <2>1, <2>3, <2>4, AccountsKept
<1>5. CASE EndTurn(p)
  <2>1. /\ turns' = [turns EXCEPT ![Len(turns)].close = seq + 1]
        /\ UNCHANGED <<attempts, segments, resetAt, op, asked>>
    BY <1>5 DEF EndTurn, bounds
  <2>2. ~Closed(Len(turns))
    BY <1>5 DEF EndTurn, Driven, Active
  <2>3. \A i \in DOMAIN turns : i \in DOMAIN turns'
                                /\ (i # Len(turns) => turns'[i] = turns[i])
    BY <2>1 DEF LogOK
  <2>4. \A i \in Left : i \in Left' /\ turns'[i] = turns[i]
    BY <2>1, <2>2, <2>3 DEF Left, Closed, Compacted
  <2>5. asked <= asked'
    BY <1>1, <2>1
  <2> QED
    BY <1>1, <2>1, <2>4, <2>5, AccountsKept
<1>6. CASE CompactNow(p)
  <2>1. op' = NewOp("now") /\ asked' = asked + 1 /\ UNCHANGED log
    BY <1>6 DEF CompactNow
  <2>2. op'.at = "begin" /\ op'.by = "now"
    BY <2>1 DEF NewOp
  <2>3. \A i \in Left : i \in Left' /\ turns'[i] = turns[i]
    BY <2>1 DEF log, Left, Closed, Compacted
  <2>4. Cardinality(Judged) <= Cardinality(Left) + asked
    BY <1>1, AccountsMean DEF FailuresNeedNewTurns, Left
  <2>5. /\ asked <= asked' /\ asked' >= 1 /\ Cardinality(Judged) < Cardinality(Left) + asked'
        /\ UNCHANGED <<attempts, segments, resetAt>>
    BY <1>1, <2>1, <2>4, Counts DEF log
  <2> QED
    BY <1>1, <2>2, <2>3, <2>5, AccountsKept
<1>7. CASE Launch(p)
  <2>1. op' = NewOp("live") /\ asked' = asked /\ UNCHANGED log /\ Candidate
    BY <1>7 DEF Launch, bounds
  <2>2. op'.at = "begin" /\ op'.by = "live"
    BY <2>1 DEF NewOp
  <2>3. \A i \in Left : i \in Left' /\ turns'[i] = turns[i]
    BY <2>1 DEF log, Left, Closed, Compacted
  <2>4. Cardinality(Judged) < Cardinality(Left) + asked
    <3> DEFINE judged == Cardinality(Judged)
               left == Cardinality(Left)
    <3>1. Eligible \subseteq Left /\ Eligible # {}
      <4>1. ASSUME NEW i \in Eligible PROVE i \in Left
        <5>1. i \in DOMAIN turns /\ i \notin Compacted /\ i \in 1 .. i
          BY DEF Eligible, LogOK
        <5> QED
          BY <5>1 DEF Eligible, Left
      <4> QED
        BY <2>1, <4>1 DEF Candidate
    <3>2. judged \in Nat /\ left \in Nat /\ left # 0
      BY <3>1, Counts, FS_EmptySet
    <3>3. CASE Judged = {}
      <4>1. judged = 0
        BY <3>3, FS_EmptySet
      <4> HIDE DEF judged, left
      <4>2. judged < left + asked
        BY <1>1, <3>2, <4>1
      <4> QED
        BY <4>2 DEF judged, left
    <3>4. CASE Spare
      <4>1. judged < left + asked \/ judged <= asked
        BY <3>4 DEF Spare
      <4> HIDE DEF judged, left
      <4>2. judged < left + asked
        BY <1>1, <3>2, <4>1
      <4> QED
        BY <4>2 DEF judged, left
    <3>5. CASE Judged # {} /\ ~Spare
      <4>1. PICK a \in Attempt : Latest(a)
        BY <3>5 DEF Accounts
      <4>2. attempts[a].status = "failed" /\ Paid(a, judged)
        BY <3>5, <4>1 DEF Accounts, Latest, Ended
      <4>3. attempts[a].start > resetAt
        BY <3>5, <4>2 DEF Paid, Spare
      <4>4. PICK i \in Eligible : turns[i].close > attempts[a].start
        BY <2>1, <4>1, <4>2, <4>3 DEF Candidate, Unconsidered
      <4> DEFINE s == attempts[a].start
      <4>5. i \in Left /\ i \notin LeftBefore(s)
        <5>1. i \in Left
          BY <3>1
        <5>2. turns[i].close \in Nat /\ s \in Nat
          BY <1>2, <5>1, AttemptTyped DEF Left, TurnRecord, AttemptRecord
        <5>3. ~(turns[i].close < s)
          BY <4>4, <5>2
        <5> QED
          BY <5>1, <5>3 DEF LeftBefore
      <4>6. /\ IsFiniteSet(LeftBefore(s)) /\ Cardinality(LeftBefore(s)) \in Nat
            /\ LeftBefore(s) \subseteq Left /\ IsFiniteSet(Left)
            /\ Cardinality(LeftBefore(s)) <= Cardinality(Left)
        BY Counts
      <4>7. Cardinality(LeftBefore(s)) # Cardinality(Left)
        BY <4>5, <4>6, FS_Subset
      <4>8. judged <= Cardinality(LeftBefore(s)) + asked
        BY <4>2, <4>3 DEF Paid
      <4> QED
        BY <1>1, <3>2, <4>6, <4>7, <4>8
    <3> QED
      BY <3>3, <3>4, <3>5
  <2>5. asked <= asked' /\ UNCHANGED <<attempts, segments, resetAt>>
    BY <1>1, <2>1 DEF log
  <2>6. Cardinality(Judged) < Cardinality(Left) + asked'
    BY <2>1, <2>4
  <2> QED
    BY <1>1, <2>2, <2>3, <2>5, <2>6, AccountsKept
<1>8. CASE Reset(p)
  <2>1. /\ turns' = <<>> /\ segments' = <<>> /\ resetAt' = seq + 1
        /\ UNCHANGED <<attempts, op, asked>>
        /\ op = NoOp \/ (op.at = "sent" /\ op.by = "now")
    BY <1>8 DEF Reset, Writes, Drives, bounds
  <2>2. \A a \in Attempt : /\ attempts[a].start \in Nat /\ attempts[a].end \in Nat
                           /\ attempts[a].start <= seq /\ attempts[a].end <= seq
    BY AttemptTyped DEF Clock, AttemptRecord
  <2>3. seq \in Nat /\ Attempt' = Attempt
    BY <2>1 DEF LogOK, Attempt
  <2>4. \A a \in Attempt : ~(attempts'[a].end > resetAt') /\ ~(attempts'[a].start > resetAt')
    BY <2>1, <2>2, <2>3
  <2>5. Judged' = {} /\ \A a \in Attempt' : ~Latest(a)'
    BY <2>3, <2>4 DEF Judged, Latest, Ended
  <2>6. op.at \in {"none", "sent"} /\ (op.at = "sent" => op.by = "now" /\ op.attempt \in Attempt)
    BY <2>1 DEF NoOp, OpOK
  <2>7. op.at # "none" /\ op.by = "now" => asked >= 1
    BY DEF Accounts
  <2>8. op'.at = "sent" => Paid(op.attempt, 1)'
    BY <1>1, <2>1, <2>4, <2>6, <2>7 DEF Paid
  <2> QED
    BY <1>1, <2>1, <2>5, <2>6, <2>7, <2>8, AccountsCleared
<1> QED
  BY <1>3, <1>4, <1>5, <1>6, <1>7, <1>8 DEF Serves, Admits, ContinueTurn, NextRequest, Reinstall,
     Admit, Fails, bounds

LEMMA AccountsOpens ==
  ASSUME LogOK, LogOK', LiveOK, LiveOK', OpOK, Clock, Locked, Accounts, NEW p \in Proc, Opens(p)
  PROVE  Accounts'
<1>1. asked \in Nat /\ asked' \in Nat
  BY DEF LiveOK
<1>2. CASE UNCHANGED <<attempts, segments, resetAt, turns>> /\ (op' = op \/ op' = NoOp)
           /\ asked' = asked
  <2>1. \A i \in Left : i \in Left' /\ turns'[i] = turns[i]
    BY <1>2 DEF Left, Closed, Compacted
  <2>2. asked <= asked' /\ (op' = op \/ op'.at = "none")
    BY <1>1, <1>2 DEF NoOp
  <2> QED
    BY <1>1, <1>2, <2>1, <2>2, AccountsKept
<1>3. CASE RecoverAttempt(p)
  <2>1. PICK x \in Attempt : IsOpen(x) /\ AppendEnd(x, "lost")
    BY <1>3 DEF RecoverAttempt, IsOpen
  <2>2. op.at = "none" /\ op' = op /\ asked' = asked
    BY <1>3, RecoveryAlone DEF RecoverAttempt, bounds
  <2> QED
    BY <2>1, <2>2, AccountsLost
<1>4. CASE RecoverSupersession(p)
  BY <1>2, <1>4 DEF RecoverSupersession, AppendSuperseded, bounds
<1> QED
  BY <1>2, <1>3, <1>4 DEF Opens, Resume, Recovered, Open, Leave, Kill, Gone, log, bounds

LEMMA AccountsRuns ==
  ASSUME LogOK, LogOK', LiveOK, LiveOK', OpOK, Clock, Single, Known, Accounts,
         NEW p \in Proc, Compacts(p)
  PROVE  Accounts'
<1>1. asked \in Nat /\ asked' = asked
  BY DEF LiveOK, Compacts, Begin, Refused, MissCredential, CompactorFails, CandidateInvalid, Repair,
     RepairUnplanned, Activate, SourceChanged, Supersede, SupersedeFails, bounds
<1>2. CASE UNCHANGED <<attempts, segments, resetAt, turns>> /\ op' = NoOp
  <2>1. \A i \in Left : i \in Left' /\ turns'[i] = turns[i]
    BY <1>2 DEF Left, Closed, Compacted
  <2>2. asked <= asked' /\ asked' \in Nat /\ op'.at = "none"
    BY <1>1, <1>2 DEF NoOp
  <2> QED
    BY <1>1, <1>2, <2>1, <2>2, AccountsKept
<1>3. CASE Begin(p)
  <2>1. op \in OpRecord /\ op.at = "begin" /\ AppendStart(seq + 1, Len(segments) + 1, 1, 0)
    BY <1>3, Running DEF Begin, Runs
  <2>2. op'.at = "sent" /\ op'.by = op.by /\ op'.attempt = Len(attempts) + 1
    BY <1>3, <2>1 DEF Begin, Snapshot, OpRecord
  <2>3. Cardinality({a \in Judged : Given(a) # seq + 1}) < Cardinality(Left) + asked
    <3>1. /\ IsFiniteSet(Judged) /\ Cardinality(Judged) \in Nat /\ Cardinality(Left) \in Nat
          /\ Cardinality(Judged) < Cardinality(Left) + asked
      BY <2>1, Counts DEF Accounts
    <3>2. /\ Cardinality({a \in Judged : Given(a) # seq + 1}) \in Nat
          /\ Cardinality({a \in Judged : Given(a) # seq + 1}) <= Cardinality(Judged)
      BY <3>1, SmallerCount
    <3> QED
      BY <1>1, <3>1, <3>2
  <2> DEFINE c == seq + 1
             e == Len(segments) + 1
             n == 1
             r == 0
  <2>4. c \in Nat /\ e \in Nat /\ n \in Nat /\ r \in Nat /\ AppendStart(c, e, n, r)
    BY <2>1 DEF LogOK
  <2>5. Cardinality({a \in Judged : Given(a) # c}) < Cardinality(Left) + asked /\ op.at # "none"
    BY <2>1, <2>3
  <2> HIDE DEF c, e, n, r
  <2> QED
    BY <1>1, <2>2, <2>4, <2>5, AccountsStarted
<1>4. CASE MissCredential(p) \/ CompactorFails(p) \/ SourceChanged(p) \/ CandidateInvalid(p)
  <2>1. op.at = "sent" /\ AppendEnd(op.attempt, "failed")
    BY <1>4 DEF MissCredential, CompactorFails, SourceChanged, CandidateInvalid, Runs
  <2>2. \/ op' = NoOp
        \/ op.number = 1 /\ op' = [op EXCEPT !.at = "repair"]
    BY <1>4 DEF MissCredential, CompactorFails, SourceChanged, CandidateInvalid, Settle, MayRepair
  <2> QED
    BY <1>1, <2>1, <2>2, AccountsFailed
<1>5. CASE Repair(p)
  <2>1. /\ op \in OpRecord /\ op.at = "repair" /\ op.attempt \in Judged
        /\ Given(op.attempt) = op.operation
    BY <1>5, Running DEF Repair, Runs, Accounts, Known
  <2>2. op'.at = "sent" /\ op'.by = op.by /\ op'.attempt = Len(attempts) + 1
    BY <1>5, <2>1 DEF Repair, OpRecord
  <2> DEFINE c == op.operation
             e == op.epoch
             n == op.number + 1
             r == op.attempt
  <2>3. c \in Nat /\ e \in Nat /\ n \in Nat /\ r \in Nat /\ AppendStart(c, e, n, r)
    BY <1>5, <2>1 DEF Repair, OpRecord
  <2>4. Cardinality({a \in Judged : Given(a) # c}) < Cardinality(Left) + asked /\ op.at # "none"
    <3> DEFINE others == {a \in Judged : Given(a) # c}
    <3>1. /\ IsFiniteSet(Judged) /\ Cardinality(Judged) \in Nat /\ Cardinality(Left) \in Nat
          /\ Cardinality(Judged) <= Cardinality(Left) + asked
      BY <1>1, Counts, AccountsMean DEF FailuresNeedNewTurns, Left
    <3>2. others \subseteq Judged \ {op.attempt}
      BY <2>1
    <3>3. /\ IsFiniteSet(Judged \ {op.attempt})
          /\ Cardinality(Judged \ {op.attempt}) = Cardinality(Judged) - 1
      BY <2>1, <3>1, FS_RemoveElement
    <3>4. /\ Cardinality(others) \in Nat
          /\ Cardinality(others) <= Cardinality(Judged \ {op.attempt})
      BY <3>2, <3>3, SmallerCount
    <3> QED
      BY <1>1, <2>1, <3>1, <3>3, <3>4
  <2> HIDE DEF c, e, n, r
  <2> QED
    BY <1>1, <2>2, <2>3, <2>4, AccountsStarted
<1>6. CASE Activate(p)
  <2>1. /\ op \in OpRecord /\ op.at = "sent" /\ op.attempt \in Attempt
        /\ AppendCompacted(op.attempt, op.turns)
        /\ op' = [op EXCEPT !.at = "supersede"] \/ op' = NoOp
    BY <1>6, Running DEF Activate, Runs, OpOK, Settle
  <2>2. /\ op'.at \in {"none", "supersede"}
        /\ op'.at # "none" /\ op'.by = "now" => asked' >= 1
    BY <1>1, <2>1 DEF NoOp, OpRecord, Accounts
  <2>3. /\ \A a \in Attempt : a # op.attempt => attempts'[a] = attempts[a]
        /\ attempts'[op.attempt].status = "accepted"
        /\ Attempt' = Attempt
    <3>1. attempts \in [Attempt -> AttemptRecord]
      BY DEF LogOK, Attempt
    <3>2. attempts' = [attempts EXCEPT ![op.attempt].status = "accepted",
                                       ![op.attempt].end = seq + 1]
      BY <2>1 DEF AppendCompacted
    <3> QED
      BY <2>1, <3>1, <3>2 DEF AttemptRecord, Attempt
  <2>4. seq + 1 \in Activations' /\ seq \in Nat
    <3>1. /\ segments' = Append(segments, [turns |-> op.turns, attempt |-> op.attempt,
                                           seq |-> seq + 1])
          /\ Len(segments) \in Nat /\ seq \in Nat
      BY <2>1 DEF AppendCompacted, LogOK
    <3>2. PICK k \in Nat : k = Len(segments) + 1
      BY <3>1
    <3>3. k \in DOMAIN segments' /\ segments'[k].seq = seq + 1
      BY <3>1, <3>2 DEF LogOK
    <3> QED
      BY <3>1, <3>3 DEF Activations
  <2>5. \A a \in Attempt : a # op.attempt => ~(seq + 1 < attempts'[a].end)
    <3>1. \A a \in Attempt : attempts[a].end \in Nat /\ attempts[a].end <= seq
      BY AttemptTyped DEF Clock, AttemptRecord
    <3> QED
      BY <2>3, <2>4, <3>1
  <2>6. Judged' = {} /\ \A a \in Attempt' : ~Latest(a)'
    BY <2>3, <2>4, <2>5 DEF Judged, Latest, Ended
  <2>7. asked' \in Nat
    BY <1>1
  <2> QED
    BY <2>2, <2>6, <2>7, AccountsCleared
<1>7. CASE Supersede(p)
  BY <1>2, <1>7 DEF Supersede, AppendSuperseded, Settle
<1> QED
  BY <1>2, <1>3, <1>4, <1>5, <1>6, <1>7 DEF Compacts, Refused, RepairUnplanned, SupersedeFails,
     Settle, log

\* A source that was judged and found wanting is not sent again before another turn has
\* closed, or somebody asks: however compactions are lost to kills, repaired, overtaken by a
\* reset or by turns that close meanwhile, every failure since the last activation is paid
\* for by a finished turn of the history or by a compact_now.
THEOREM SpecFailuresNeedNewTurns == Spec => []FailuresNeedNewTurns
<1> DEFINE Books == /\ TypeOK /\ Oldest /\ Steered /\ Locked /\ Single /\ Told /\ Known
                    /\ Clock /\ Accounts
<1>1. Init => Books
  <2> SUFFICES ASSUME Init PROVE Books
    OBVIOUS
  <2>1. TypeOK /\ Oldest /\ Steered
    BY TypeInit, OldestInit
  <2>2. /\ Attempt = {} /\ DOMAIN turns = {} /\ DOMAIN segments = {} /\ Judged = {}
        /\ op.at = "none" /\ resetAt = 0 /\ seq = 0
    BY DEF Init, Attempt, Judged, NoOp
  <2>3. Locked /\ Single /\ Told /\ Known
    BY <2>2 DEF Init, Locked, Single, Told, Known, Holds
  <2>4. Clock /\ Accounts
    BY <2>2 DEF Clock, Accounts, OpenAttempt
  <2> QED
    BY <2>1, <2>3, <2>4
<1>2. Books /\ [Next]_vars => Books'
  <2> SUFFICES ASSUME Books, [Next]_vars PROVE Books'
    OBVIOUS
  <2>1. LogOK /\ LiveOK /\ OpOK /\ asked \in Nat
    BY TypeParts DEF LiveOK
  <2>2. TypeOK'
    BY TypeStep
  <2>3. LogOK' /\ LiveOK' /\ asked' \in Nat
    BY <2>2 DEF TypeOK, LogOK, LiveOK, TurnRecord, SegmentRecord, RelationRecord
  <2>4. Oldest' /\ Steered'
    BY <2>1, <2>2, RetiredStep, SteeredStep
  <2>5. Locked' /\ Single' /\ Told' /\ Known'
    BY <2>1, <2>3, LockedStep, SingleStep, ToldStep
  <2>6. CASE UNCHANGED vars
    <3>1. Clock'
      BY <2>6 DEF vars, log, Clock, Attempt
    <3>2. /\ UNCHANGED <<attempts, segments, resetAt, turns, op, asked>>
          /\ \A i \in Left : i \in Left' /\ turns'[i] = turns[i]
      BY <2>6 DEF vars, log, bounds, Left, Closed, Compacted
    <3>3. asked <= asked'
      BY <2>1, <3>2
    <3>4. Accounts'
      BY <2>1, <2>3, <3>2, <3>3, AccountsKept
    <3> QED
      BY <2>2, <2>4, <2>5, <3>1, <3>4
  <2>7. CASE Next
    <3>1. PICK p \in Proc : Opens(p) \/ (Serves(p) \/ Admits(p)) \/ Compacts(p)
      BY <2>7 DEF Next
    <3>2. Driven
      BY DEF Oldest
    <3>3. Clock' /\ Accounts'
      BY <2>1, <2>3, <3>1, <3>2, ClockOpens, ClockServes, ClockRuns, AccountsOpens,
         AccountsServes, AccountsRuns
    <3> QED
      BY <2>2, <2>4, <2>5, <3>3
  <2> QED
    BY <2>6, <2>7
<1>3. Books => FailuresNeedNewTurns
  BY TypeParts, AccountsMean DEF LiveOK
<1> HIDE DEF Books
<1> QED
  BY <1>1, <1>2, <1>3, PTL DEF Spec
=============================================================================
