--------------------------- MODULE EventLogProofs ---------------------------
(***************************************************************************)
(* The acknowledged events survive, the writer's memory is the file and    *)
(* the log implements AppendOnlyLog, for any processes and any bounds.     *)
(***************************************************************************)
EXTENDS EventLog, TLAPS

\* A process inside create_or_open or with an open store holds the lock.
LockHeld == \A p \in Proc : pc[p] # "closed" => holder = p

\* What the holder's memory says of the file, point by point.
MemoryOf(p) ==
  /\ pc[p] = "truncate" => mem[p] = file.lines
  /\ pc[p] \in {"sync", "meta"} => mem[p] = file.lines /\ file.tail = NoTail
  /\ pc[p] = "open" /\ ~unhealthy[p] => mem[p] = file.lines /\ file.tail = NoTail
  /\ pc[p] = "written" => /\ file.tail = NoTail
                          /\ \E e \in Event : file.lines = Append(mem[p], e)

Memory == \A p \in Proc : MemoryOf(p)

\* The medium never holds a line the file does not.
MediumBehind == IsPrefix(stable.lines, file.lines)

\* A tail that lacks only its LF is the next event.
TailFollows(c) == c.tail.kind = "noLf" => c.tail.event.seq = Len(c.lines) + 1

Sound(c) == Readable(c) /\ TailFollows(c)

\* Nothing is written before the manifest is published.
MetaFirst == ~meta =>
  /\ file = Empty /\ stable = Empty /\ acked = <<>>
  /\ \A p \in Proc : pc[p] \notin {"open", "written"}

IInv ==
  /\ TypeOK /\ LockHeld /\ Memory /\ MediumBehind /\ AckedSurvive
  /\ Sound(file) /\ Sound(stable) /\ MetaFirst

-----------------------------------------------------------------------------
(* Sequences. *)

LEMMA PrefixRefl == ASSUME NEW S, NEW s \in Seq(S) PROVE IsPrefix(s, s)
BY DEF IsPrefix

LEMMA SeqWiden ==
  ASSUME NEW A, NEW B, A \subseteq B, NEW s \in Seq(A) PROVE s \in Seq(B)
OBVIOUS

LEMMA PrefixTrans ==
  ASSUME NEW S, NEW s \in Seq(S), NEW t \in Seq(S), NEW u \in Seq(S),
         IsPrefix(s, t), IsPrefix(t, u)
  PROVE  IsPrefix(s, u)
<1>1. Len(s) <= Len(t) /\ Len(t) <= Len(u) BY DEF IsPrefix
<1>2. \A i \in 1..Len(s) : s[i] = t[i] /\ t[i] = u[i]
  <2> SUFFICES ASSUME NEW i \in 1..Len(s) PROVE s[i] = t[i] /\ t[i] = u[i] OBVIOUS
  <2>1. SubSeq(s, 1, Len(s))[i] = SubSeq(t, 1, Len(s))[i] BY DEF IsPrefix
  <2>2. SubSeq(t, 1, Len(t))[i] = SubSeq(u, 1, Len(t))[i] BY DEF IsPrefix
  <2> QED BY <1>1, <2>1, <2>2
<1>3. SubSeq(s, 1, Len(s)) = SubSeq(u, 1, Len(s)) BY <1>1, <1>2
<1> QED BY <1>1, <1>3 DEF IsPrefix

LEMMA PrefixAppend ==
  ASSUME NEW S, NEW s \in Seq(S), NEW t \in Seq(S), NEW e \in S, IsPrefix(s, t)
  PROVE  IsPrefix(s, Append(t, e))
<1>1. Len(s) <= Len(t) /\ SubSeq(s, 1, Len(s)) = SubSeq(t, 1, Len(s)) BY DEF IsPrefix
<1>2. SubSeq(Append(t, e), 1, Len(s)) = SubSeq(t, 1, Len(s)) BY <1>1
<1> QED BY <1>1, <1>2 DEF IsPrefix

LEMMA PrefixIsCut ==
  ASSUME NEW S, NEW s \in Seq(S), NEW t \in Seq(S), IsPrefix(s, t)
  PROVE  s = SubSeq(t, 1, Len(s))
<1>1. SubSeq(s, 1, Len(s)) = s OBVIOUS
<1> QED BY <1>1 DEF IsPrefix

-----------------------------------------------------------------------------
(* The file operations stay in Content. *)

Line == Event \cup {Garbled}

LEMMA NextEventType ==
  ASSUME TypeOK, NEW p \in Proc PROVE NextEvent(p) \in Event
BY EventLogAssumption DEF EventLogAssumption, TypeOK, NextEvent, Event

LEMMA WithLineType ==
  ASSUME NEW c \in Content, NEW e \in Event
  PROVE  /\ WithLine(c, e) \in Content
         /\ WithLine(c, e).tail = NoTail
         /\ c.tail = NoTail => WithLine(c, e).lines = Append(c.lines, e)
BY DEF Content, WithLine, Remainder

LEMMA WithPartType ==
  ASSUME NEW c \in Content, NEW e \in Event, NEW d \in WithPart(c, e)
  PROVE  d \in Content /\ d.lines = c.lines
BY DEF Content, WithPart, Remainder

LEMMA ReadableEvents ==
  ASSUME NEW c \in Content, Readable(c) PROVE c.lines \in Seq(Event)
<1>1. c.lines \in Seq(Line) BY DEF Content, Line
<1>2. \A i \in 1..Len(c.lines) : c.lines[i] \in Event
  BY <1>1 DEF Readable, Line, Garbled
<1> QED BY <1>1, <1>2

LEMMA BetweenType ==
  ASSUME NEW c \in Content, NEW d \in Content, NEW x \in Between(c, d),
         d.lines \in Seq(Event)
  PROVE  /\ x \in Content
         /\ IsPrefix(c.lines, x.lines)
         /\ IsPrefix(x.lines, d.lines)
<1>1. Extends(x, c) /\ Extends(d, x) BY DEF Between
<1>2. PICK n \in Len(c.lines)..Len(d.lines) : x.lines = SubSeq(d.lines, 1, n)
  BY DEF Between
<1>3. x \in [lines : {x.lines}, tail : {x.tail}]
  BY DEF Between
<1>4. x.lines \in Seq(Event)
  BY <1>2 DEF Content
<1>5. x.tail \in Remainder
  <2>1. CASE x.tail = NoTail BY <2>1 DEF Remainder
  <2>2. CASE x.tail # NoTail
    <3>1. x.tail \in [kind : {"torn", "noLf"}, event : Range(d.lines) \cup {d.tail.event}]
      BY <2>2 DEF Between
    <3>2. CASE Len(x.lines) < Len(d.lines) /\ d.lines[Len(x.lines) + 1] = x.tail.event
      <4>1. x.tail.event \in Event BY <1>4, <3>2
      <4> QED BY <3>1, <4>1 DEF Remainder
    <3>3. CASE d.tail = x.tail BY <3>3 DEF Content
    <3>4. CASE d.tail = [x.tail EXCEPT !.kind = "noLf"]
      <4>1. d.tail.kind = "noLf" /\ d.tail.event = x.tail.event BY <3>1, <3>4
      <4>2. x.tail.event \in Event BY <4>1 DEF Content, Remainder, NoTail
      <4> QED BY <3>1, <4>2 DEF Remainder
    <3> QED BY <1>1, <2>2, <3>2, <3>3, <3>4 DEF Extends
  <2> QED BY <2>1, <2>2
<1> QED BY <1>1, <1>3, <1>4, <1>5 DEF Extends, Content

LEMMA BetweenSound ==
  ASSUME NEW c \in Content, NEW d \in Content, NEW x \in Between(c, d), Sound(d)
  PROVE  Sound(x)
<1>1. Extends(d, x) BY DEF Between
<1>2. d.lines \in Seq(Event) /\ x \in Content BY ReadableEvents, BetweenType DEF Sound
<1>3. Len(x.lines) <= Len(d.lines) /\ \A i \in 1..Len(x.lines) : x.lines[i] = d.lines[i]
  <2>1. Len(x.lines) <= Len(d.lines)
        /\ SubSeq(x.lines, 1, Len(x.lines)) = SubSeq(d.lines, 1, Len(x.lines))
    BY <1>1 DEF Extends, IsPrefix
  <2> SUFFICES ASSUME NEW i \in 1..Len(x.lines) PROVE x.lines[i] = d.lines[i] BY <2>1
  <2>2. x.lines \in Seq(Line) BY <1>2 DEF Content, Line
  <2>3. SubSeq(x.lines, 1, Len(x.lines))[i] = SubSeq(d.lines, 1, Len(x.lines))[i] BY <2>1
  <2> QED BY <1>2, <2>1, <2>2, <2>3
<1>4. Readable(x) BY <1>2, <1>3 DEF Sound, Readable, Content
<1>5. TailFollows(x)
  <2> SUFFICES ASSUME x.tail.kind = "noLf" PROVE x.tail.event.seq = Len(x.lines) + 1
    BY DEF TailFollows
  <2>1. x.tail # NoTail BY DEF NoTail
  <2>2. CASE Len(x.lines) < Len(d.lines) /\ d.lines[Len(x.lines) + 1] = x.tail.event
    BY <1>2, <2>2 DEF Sound, Readable, Content
  <2>3. CASE Len(x.lines) = Len(d.lines) /\ d.tail = x.tail
    BY <2>3 DEF Sound, TailFollows
  <2> QED BY <1>1, <2>1, <2>2, <2>3 DEF Extends
<1> QED BY <1>4, <1>5 DEF Sound

-----------------------------------------------------------------------------
(* The invariant is inductive. *)

\* The invariant holds of an empty medium.
LEMMA InvInit == Init => IInv
<1> SUFFICES ASSUME Init PROVE IInv OBVIOUS
<1>1. Empty \in Content BY DEF Empty, Content, Remainder, NoTail
<1>2. TypeOK
  <2>1. <<>> \in Seq(Event) OBVIOUS
  <2>2. mem \in [Proc -> Seq(Event)] /\ acked \in Seq(Event) BY <2>1 DEF Init
  <2>3. file \in Content /\ stable \in Content BY <1>1 DEF Init
  <2>4. /\ pc \in [Proc -> Pc] /\ unhealthy \in [Proc -> BOOLEAN]
        /\ created \in [Proc -> BOOLEAN] /\ wasEmpty \in [Proc -> BOOLEAN] BY DEF Init, Pc
  <2>5. made \in 0..MaxEvents /\ kills \in 0..MaxKills
        /\ losses \in 0..MaxPowerLoss /\ faults \in 0..MaxFaults
    BY EventLogAssumption DEF EventLogAssumption, Init
  <2> QED BY <2>2, <2>3, <2>4, <2>5 DEF Init, TypeOK
<1>3. IsPrefix(<<>>, <<>>) BY DEF IsPrefix
<1> QED BY <1>2, <1>3
  DEF Init, IInv, LockHeld, Memory, MemoryOf, MediumBehind, AckedSurvive,
      Sound, Readable, TailFollows, MetaFirst, Empty, NoTail

\* Every step keeps the types.
LEMMA TypeStep == IInv /\ [Next]_vars => TypeOK'
<1> SUFFICES ASSUME IInv, [Next]_vars PROVE TypeOK' OBVIOUS
<1> USE EventLogAssumption DEF EventLogAssumption
<1>0. /\ TypeOK /\ file \in Content /\ stable \in Content
      /\ file.lines \in Seq(Event) /\ [file EXCEPT !.tail = NoTail] \in Content
  BY ReadableEvents DEF IInv, Sound, TypeOK, Content, Remainder
<1>1. ASSUME NEW p \in Proc, Open(p) PROVE TypeOK'
  <2>1. CASE TryAcquire(p) BY <1>0, <2>1 DEF TryAcquire, At, TypeOK, Pc, disk, store, count
  <2>2. CASE OpenEvents(p)
    BY <1>0, <2>2 DEF OpenEvents, At, TypeOK, Pc, count
  <2>3. CASE ScanWhole(p) BY <1>0, <2>3 DEF ScanWhole, At, TypeOK, Pc, disk, count
  <2>4. CASE QuarantineTail(p)
    <3>1. file.tail.event \in Event BY <1>0, <2>4 DEF QuarantineTail, Content, Remainder, NoTail
    <3> QED BY <1>0, <2>4, <3>1 DEF QuarantineTail, At, TypeOK, Pc, count
  <2>5. CASE TruncateTail(p) BY <1>0, <2>5 DEF TruncateTail, At, TypeOK, Pc, store, count
  <2>6. CASE RepairLf(p)
    <3>1. file.tail.event \in Event BY <1>0, <2>6 DEF RepairLf, Content, Remainder, NoTail
    <3>2. file' \in Content /\ file'.lines = Append(file.lines, file.tail.event)
      BY <1>0, <2>6, <3>1 DEF RepairLf, Content, Remainder
    <3>3. mem' \in [Proc -> Seq(Event)] BY <1>0, <2>6, <3>1, <3>2 DEF RepairLf, TypeOK
    <3> QED BY <1>0, <2>6, <3>2, <3>3 DEF RepairLf, At, TypeOK, Pc, count
  <2>7. CASE SyncRepair(p) BY <1>0, <2>7 DEF SyncRepair, At, TypeOK, Pc, store, count
  <2>9. CASE PublishMeta(p) BY <1>0, <2>9 DEF PublishMeta, At, TypeOK, Pc, store, count
  <2>10. CASE MetaRefuses(p) BY <1>0, <2>10 DEF MetaRefuses, Release, TypeOK, Pc, disk, store, count
  <2>11. CASE OpenFails(p)
    <3>1. meta' \in BOOLEAN
      <4>1. meta' \in {meta, TRUE} BY <2>11 DEF OpenFails
      <4> QED BY <1>0, <4>1 DEF TypeOK
    <3>2. faults' \in 0..MaxFaults BY <1>0, <2>11 DEF OpenFails, TypeOK
    <3>3. holder' \in Proc \cup {NoProc} /\ pc' \in [Proc -> Pc]
      BY <1>0, <2>11 DEF OpenFails, Release, TypeOK, Pc
    <3> QED BY <1>0, <2>11, <3>1, <3>2, <3>3 DEF OpenFails, TypeOK, store
  <2> QED BY <1>1, <2>1, <2>2, <2>3, <2>4, <2>5, <2>6, <2>7, <2>9, <2>10, <2>11 DEF Open
<1>2. ASSUME NEW p \in Proc, AppendEvent(p) PROVE TypeOK'
  <2>0. NextEvent(p) \in Event BY <1>0, NextEventType
  <2>1. CASE WriteLine(p)
    <3>1. file' \in Content BY <1>0, <2>0, <2>1, WithLineType DEF WriteLine
    <3> QED BY <1>0, <2>1, <3>1, SMTT(30) DEF WriteLine, MayAppend, At, TypeOK, Pc, store, count
  <2>2. CASE WriteFails(p)
    <3>1. file' \in Content BY <1>0, <2>0, <2>2, WithPartType DEF WriteFails
    <3> QED BY <1>0, <2>2, <3>1, SMTT(30) DEF WriteFails, MayAppend, TypeOK, Pc
  <2>3. CASE Acknowledge(p)
    <3>1. PICK e \in Event : file.lines = Append(mem[p], e)
      BY <2>3 DEF Acknowledge, At, IInv, Memory, MemoryOf
    <3>2. mem[p] \in Seq(Event) BY <1>0 DEF TypeOK
    <3>3. Last(file.lines) = e BY <3>1, <3>2 DEF Last
    <3>4. mem' \in [Proc -> Seq(Event)] BY <1>0, <2>3, <3>2, <3>3 DEF Acknowledge, TypeOK
    <3> QED BY <1>0, <2>3, <3>4 DEF Acknowledge, At, TypeOK, Pc, count
  <2>4. CASE SyncFails(p) BY <1>0, <2>4 DEF SyncFails, At, TypeOK, Pc, disk
  <2> QED BY <1>2, <2>1, <2>2, <2>3, <2>4 DEF AppendEvent
<1>3. ASSUME NEW p \in Proc, MarkReadOnly(p) \/ Close(p) \/ Kill(p) PROVE TypeOK'
  <2>1. CASE MarkReadOnly(p) BY <1>0, <2>1 DEF MarkReadOnly, TypeOK, Pc, disk, count
  <2>2. CASE Close(p) BY <1>0, <2>2 DEF Close, Release, TypeOK, Pc, disk, store, count
  <2>3. CASE Kill(p) BY <1>0, <2>3 DEF Kill, Release, TypeOK, Pc, disk, store
  <2> QED BY <1>3, <2>1, <2>2, <2>3
<1>4. CASE Writeback
  <2>1. stable' \in Content
    <3>1. CASE Extends(file, stable)
      BY <1>0, <1>4, <3>1, BetweenType DEF Writeback
    <3>2. CASE ~Extends(file, stable)
      BY <1>0, <1>4, <3>2 DEF Writeback, Content, Remainder
    <3> QED BY <3>1, <3>2
  <2> QED BY <1>0, <1>4, <2>1 DEF Writeback, TypeOK, store, count
<1>5. CASE PowerLoss BY <1>0, <1>5 DEF PowerLoss, TypeOK, Pc, store
<1>6. CASE UNCHANGED vars BY <1>0, <1>6 DEF TypeOK, vars, disk, store, count
<1> QED BY <1>1, <1>2, <1>3, <1>4, <1>5, <1>6 DEF Next

ProcStep(p) == Open(p) \/ AppendEvent(p) \/ MarkReadOnly(p) \/ Close(p) \/ Kill(p)

\* Only the holder of the lock, or the process taking it, takes a step; the
\* others are and stay closed.
LEMMA OthersClosed ==
  ASSUME IInv, NEW p \in Proc, ProcStep(p), NEW q \in Proc, q # p
  PROVE  pc'[q] = "closed"
<1> USE EventLogAssumption DEF EventLogAssumption
<1>1. pc \in [Proc -> Pc] BY DEF IInv, TypeOK
<1>2. pc'[q] = pc[q]
  BY <1>1 DEF ProcStep, Open, AppendEvent, TryAcquire, OpenEvents, ScanWhole, QuarantineTail,
     TruncateTail, RepairLf, SyncRepair, PublishMeta, MetaRefuses, OpenFails,
     WriteLine, WriteFails, Acknowledge, SyncFails, MarkReadOnly, Close, Kill, At, Release
<1>3. pc[p] # "closed" \/ holder = NoProc
  BY DEF ProcStep, Open, AppendEvent, TryAcquire, OpenEvents, ScanWhole, QuarantineTail,
     TruncateTail, RepairLf, SyncRepair, PublishMeta, MetaRefuses, OpenFails,
     WriteLine, WriteFails, MayAppend, Acknowledge, SyncFails, MarkReadOnly, Close, Kill, At
<1> QED BY <1>2, <1>3 DEF IInv, LockHeld

\* Every step keeps the lock with the process that writes.
LEMMA LockStep == IInv /\ [Next]_vars => LockHeld'
<1> SUFFICES ASSUME IInv, [Next]_vars PROVE LockHeld' OBVIOUS
<1>1. ASSUME NEW p \in Proc, ProcStep(p) PROVE LockHeld'
  <2> SUFFICES pc'[p] # "closed" => holder' = p
    BY <1>1, OthersClosed DEF LockHeld
  <2>1. pc \in [Proc -> Pc] BY DEF IInv, TypeOK
  <2> QED
    BY <1>1, <2>1 DEF ProcStep, Open, AppendEvent, TryAcquire, OpenEvents, ScanWhole,
       QuarantineTail, TruncateTail, RepairLf, SyncRepair, PublishMeta, MetaRefuses,
       OpenFails, WriteLine, WriteFails, MayAppend, Acknowledge, SyncFails, MarkReadOnly, Close,
       Kill, At, Release, IInv, LockHeld
<1>2. CASE Writeback BY <1>2 DEF Writeback, IInv, LockHeld
<1>3. CASE PowerLoss BY <1>3 DEF PowerLoss, LockHeld
<1>4. CASE UNCHANGED vars BY <1>4 DEF vars, IInv, LockHeld
<1> QED BY <1>1, <1>2, <1>3, <1>4 DEF Next, ProcStep

\* The holder's memory follows the file through opening and appending.
LEMMA MemoryStep == IInv /\ [Next]_vars => Memory'
<1> SUFFICES ASSUME IInv, [Next]_vars PROVE Memory' OBVIOUS
<1>0. /\ TypeOK /\ pc \in [Proc -> Pc] /\ mem \in [Proc -> Seq(Event)]
      /\ unhealthy \in [Proc -> BOOLEAN] /\ file \in Content /\ file.lines \in Seq(Event)
  BY ReadableEvents DEF IInv, TypeOK, Sound
<1>1. ASSUME NEW p \in Proc, ProcStep(p) PROVE Memory'
  <2> SUFFICES MemoryOf(p)'
    <3>1. \A q \in Proc \ {p} : MemoryOf(q)' BY <1>1, OthersClosed DEF MemoryOf
    <3> QED BY <3>1 DEF Memory
  <2>0. MemoryOf(p) BY DEF IInv, Memory
  <2>1. CASE TryAcquire(p) \/ OpenEvents(p)
    BY <1>0, <2>1 DEF TryAcquire, OpenEvents, At, MemoryOf
  <2>2. CASE ScanWhole(p) \/ QuarantineTail(p)
    BY <1>0, <2>2 DEF ScanWhole, QuarantineTail, At, MemoryOf, disk
  <2>3. CASE TruncateTail(p)
    <3>1. file'.lines = file.lines /\ file'.tail = NoTail BY <1>0, <2>3 DEF TruncateTail, Content
    <3> QED BY <1>0, <2>0, <2>3, <3>1 DEF TruncateTail, At, MemoryOf, store
  <2>4. CASE RepairLf(p) BY <1>0, <2>4 DEF RepairLf, At, MemoryOf
  <2>5. CASE SyncRepair(p) BY <1>0, <2>0, <2>5 DEF SyncRepair, At, MemoryOf, store
  <2>6. CASE PublishMeta(p) BY <1>0, <2>0, <2>6 DEF PublishMeta, At, MemoryOf, store
  <2>7. CASE MetaRefuses(p) \/ OpenFails(p) \/ Close(p) \/ Kill(p)
    BY <1>0, <2>7 DEF MetaRefuses, OpenFails, Close, Kill, Release, MemoryOf
  <2>8. CASE WriteLine(p)
    <3>1. NextEvent(p) \in Event BY <1>0, NextEventType
    <3>2. file' = WithLine(file, NextEvent(p)) /\ mem'[p] = mem[p] /\ pc'[p] = "written"
      BY <1>0, <2>8 DEF WriteLine, At, store
    <3>3. mem[p] = file.lines /\ file.tail = NoTail
      BY <2>0, <2>8 DEF WriteLine, MayAppend, MemoryOf
    <3>4. file'.tail = NoTail /\ file'.lines = Append(mem'[p], NextEvent(p))
      BY <1>0, <3>1, <3>2, <3>3, WithLineType, SMTT(30)
    <3> QED BY <3>1, <3>2, <3>4 DEF MemoryOf
  <2>9. CASE WriteFails(p) \/ SyncFails(p) \/ MarkReadOnly(p)
    BY <1>0, <2>9 DEF WriteFails, MayAppend, SyncFails, MarkReadOnly, At, MemoryOf
  <2>10. CASE Acknowledge(p)
    <3>1. PICK e \in Event : file.lines = Append(mem[p], e)
      BY <2>0, <2>10 DEF Acknowledge, At, MemoryOf
    <3>2. mem[p] \in Seq(Event) BY <1>0
    <3>3. Last(file.lines) = e BY <3>1, <3>2 DEF Last
    <3>4. mem'[p] = file.lines BY <1>0, <2>10, <3>1, <3>3 DEF Acknowledge
    <3> QED BY <1>0, <2>0, <2>10, <3>4 DEF Acknowledge, At, MemoryOf
  <2> QED BY <1>1, <2>1, <2>2, <2>3, <2>4, <2>5, <2>6, <2>7, <2>8, <2>9, <2>10
          DEF ProcStep, Open, AppendEvent
<1>2. CASE Writeback BY <1>2 DEF Writeback, IInv, Memory, MemoryOf, store
<1>3. CASE PowerLoss BY <1>3 DEF PowerLoss, Memory, MemoryOf
<1>4. CASE UNCHANGED vars BY <1>4 DEF vars, disk, store, IInv, Memory, MemoryOf
<1> QED BY <1>1, <1>2, <1>3, <1>4 DEF Next, ProcStep

\* How a step changes the lines of the file: not at all, by one event that
\* follows the others, or back to what the medium holds.
FileGrows == \E e \in Event : /\ file'.lines = Append(file.lines, e)
                             /\ e.seq = Len(file.lines) + 1
                             /\ file'.tail = NoTail

LEMMA FileStep ==
  ASSUME IInv, [Next]_vars
  PROVE  \/ file'.lines = file.lines /\ TailFollows(file)'
         \/ FileGrows /\ UNCHANGED <<stable, acked>>
         \/ file' = stable /\ UNCHANGED <<stable, acked>>
<1>0. /\ TypeOK /\ file \in Content /\ file.lines \in Seq(Event) /\ TailFollows(file)
      /\ mem \in [Proc -> Seq(Event)]
  BY ReadableEvents DEF IInv, TypeOK, Sound
<1>1. ASSUME NEW p \in Proc, WriteLine(p) PROVE FileGrows /\ UNCHANGED <<stable, acked>>
  <2>1. mem[p] = file.lines /\ file.tail = NoTail
    BY <1>1 DEF WriteLine, MayAppend, IInv, Memory, MemoryOf
  <2>2. NextEvent(p) \in Event /\ NextEvent(p).seq = Len(file.lines) + 1
    BY <1>0, <2>1, NextEventType DEF NextEvent
  <2>3. file'.lines = Append(file.lines, NextEvent(p)) /\ file'.tail = NoTail
    BY <1>0, <1>1, <2>1, <2>2, WithLineType DEF WriteLine
  <2> QED BY <1>1, <2>2, <2>3 DEF FileGrows, WriteLine
<1>2. ASSUME NEW p \in Proc, RepairLf(p) PROVE FileGrows /\ UNCHANGED <<stable, acked>>
  <2>1. file.tail.event \in Event BY <1>0, <1>2 DEF RepairLf, Content, Remainder, NoTail
  <2> QED BY <1>2, <2>1 DEF FileGrows, RepairLf
<1>3. ASSUME NEW p \in Proc, WriteFails(p) PROVE file'.lines = file.lines /\ TailFollows(file)'
  <2>1. mem[p] = file.lines /\ file.tail = NoTail
    BY <1>3 DEF WriteFails, MayAppend, IInv, Memory, MemoryOf
  <2>2. file' = file \/ \E k \in {"torn", "noLf"} :
          file' = [file EXCEPT !.tail = [kind |-> k, event |-> NextEvent(p)]]
    BY <1>3, <2>1 DEF WriteFails, WithPart
  <2>3. NextEvent(p).seq = Len(file.lines) + 1 BY <2>1 DEF NextEvent
  <2>4. CASE file' = file BY <1>0, <2>4 DEF TailFollows
  <2>5. ASSUME NEW k \in {"torn", "noLf"},
               file' = [file EXCEPT !.tail = [kind |-> k, event |-> NextEvent(p)]]
        PROVE  file'.lines = file.lines /\ TailFollows(file)'
    <3>1. file'.lines = file.lines /\ file'.tail.event = NextEvent(p)
      BY <1>0, <2>5 DEF Content
    <3> QED BY <2>3, <3>1 DEF TailFollows
  <2> QED BY <2>2, <2>4, <2>5
<1>4. ASSUME NEW p \in Proc, TruncateTail(p) PROVE file'.lines = file.lines /\ TailFollows(file)'
  BY <1>0, <1>4 DEF TruncateTail, TailFollows, Content, NoTail
<1>5. CASE PowerLoss BY <1>5 DEF PowerLoss
<1>6. CASE UNCHANGED file BY <1>0, <1>6 DEF TailFollows
<1>7. ASSUME NEW p \in Proc, ProcStep(p),
             ~WriteLine(p), ~RepairLf(p), ~WriteFails(p), ~TruncateTail(p)
      PROVE  UNCHANGED file
  BY <1>7 DEF ProcStep, Open, AppendEvent, TryAcquire, OpenEvents, ScanWhole, QuarantineTail,
     SyncRepair, PublishMeta, MetaRefuses, OpenFails, Acknowledge, SyncFails,
     MarkReadOnly, Close, Kill, disk
<1>8. CASE Writeback \/ UNCHANGED vars BY <1>6, <1>8 DEF Writeback, vars, disk
<1> QED BY <1>1, <1>2, <1>3, <1>4, <1>5, <1>6, <1>7, <1>8 DEF Next, ProcStep

\* How a step changes the medium: not at all, by bytes of the file, or by a
\* truncation; an acknowledgement brings it level with the file.
LEMMA MediumStep ==
  ASSUME IInv, [Next]_vars
  PROVE  \/ UNCHANGED <<stable, acked>>
         \/ UNCHANGED <<file, acked>> /\ stable' \in Between(stable, file)
         \/ UNCHANGED <<file, acked>> /\ stable' = [stable EXCEPT !.tail = NoTail]
         \/ UNCHANGED <<file, acked>> /\ stable' = file
         \/ UNCHANGED file /\ stable' = file /\ acked' = file.lines
<1>1. ASSUME NEW p \in Proc, SyncRepair(p) PROVE UNCHANGED <<file, acked>> /\ stable' = file
  BY <1>1 DEF SyncRepair
<1>2. ASSUME NEW p \in Proc, Acknowledge(p)
      PROVE  UNCHANGED file /\ stable' = file /\ acked' = file.lines
  <2>1. PICK e \in Event : file.lines = Append(mem[p], e)
    BY <1>2 DEF Acknowledge, At, IInv, Memory, MemoryOf
  <2>2. mem \in [Proc -> Seq(Event)] BY DEF IInv, TypeOK
  <2>3. Last(file.lines) = e BY <2>1, <2>2 DEF Last
  <2> QED BY <1>2, <2>1, <2>2, <2>3 DEF Acknowledge
<1>3. CASE Writeback BY <1>3 DEF Writeback
<1>4. ASSUME NEW p \in Proc, ProcStep(p), ~SyncRepair(p), ~Acknowledge(p)
      PROVE  UNCHANGED <<stable, acked>>
  BY <1>4 DEF ProcStep, Open, AppendEvent, TryAcquire, OpenEvents, ScanWhole, QuarantineTail,
     TruncateTail, RepairLf, PublishMeta, MetaRefuses, OpenFails, WriteLine,
     WriteFails, SyncFails, MarkReadOnly, Close, Kill, disk
<1>5. CASE PowerLoss \/ UNCHANGED vars BY <1>5 DEF PowerLoss, vars, disk
<1> QED BY <1>1, <1>2, <1>3, <1>4, <1>5 DEF Next, ProcStep

\* No step lets the medium overtake the file or lose an acknowledged event.
LEMMA PrefixStep == IInv /\ [Next]_vars => MediumBehind' /\ AckedSurvive'
<1> SUFFICES ASSUME IInv, [Next]_vars PROVE MediumBehind' /\ AckedSurvive' OBVIOUS
<1>0. /\ file \in Content /\ stable \in Content /\ acked \in Seq(Line)
      /\ file.lines \in Seq(Event) /\ file.lines \in Seq(Line) /\ stable.lines \in Seq(Line)
      /\ IsPrefix(stable.lines, file.lines) /\ IsPrefix(acked, stable.lines)
  <2>1. acked \in Seq(Event) /\ file.lines \in Seq(Event)
    BY ReadableEvents DEF IInv, TypeOK, Sound
  <2>2. acked \in Seq(Line) BY <2>1, SeqWiden DEF Line
  <2> QED BY <2>1, <2>2 DEF IInv, TypeOK, MediumBehind, AckedSurvive, Content, Line
<1>1. CASE UNCHANGED <<stable, acked>>
  <2>1. AckedSurvive' BY <1>0, <1>1 DEF AckedSurvive
  <2>2. CASE file'.lines = file.lines BY <1>0, <1>1, <2>1, <2>2 DEF MediumBehind
  <2>3. CASE FileGrows
    <3>1. PICK e \in Line : file'.lines = Append(file.lines, e) BY <2>3 DEF FileGrows, Line
    <3>2. IsPrefix(stable.lines, file'.lines) BY <1>0, <3>1, PrefixAppend
    <3> QED BY <1>1, <2>1, <3>2 DEF MediumBehind
  <2>4. CASE file' = stable BY <1>0, <1>1, <2>1, <2>4, PrefixRefl DEF MediumBehind
  <2> QED BY <2>1, <2>2, <2>3, <2>4, FileStep
<1>2. CASE UNCHANGED <<file, acked>> /\ stable' \in Between(stable, file)
  <2>1. /\ stable'.lines \in Seq(Line)
        /\ IsPrefix(stable.lines, stable'.lines) /\ IsPrefix(stable'.lines, file.lines)
    BY <1>0, <1>2, BetweenType DEF Content, Line
  <2>2. IsPrefix(acked, stable'.lines) BY <1>0, <2>1, PrefixTrans
  <2> QED BY <1>2, <2>1, <2>2 DEF MediumBehind, AckedSurvive
<1>3. CASE UNCHANGED <<file, acked>> /\ stable' = [stable EXCEPT !.tail = NoTail]
  <2>1. stable'.lines = stable.lines BY <1>0, <1>3 DEF Content
  <2> QED BY <1>0, <1>3, <2>1 DEF MediumBehind, AckedSurvive
<1>4. CASE UNCHANGED <<file, acked>> /\ stable' = file
  <2>1. IsPrefix(acked, file.lines) BY <1>0, PrefixTrans
  <2> QED BY <1>0, <1>4, <2>1, PrefixRefl DEF MediumBehind, AckedSurvive
<1>5. CASE UNCHANGED file /\ stable' = file /\ acked' = file.lines
  BY <1>0, <1>5, PrefixRefl DEF MediumBehind, AckedSurvive
<1> QED BY <1>1, <1>2, <1>3, <1>4, <1>5, MediumStep

\* No step makes an unreadable log.
LEMMA SoundStep == IInv /\ [Next]_vars => Sound(file)' /\ Sound(stable)'
<1> SUFFICES ASSUME IInv, [Next]_vars PROVE Sound(file)' /\ Sound(stable)' OBVIOUS
<1>0. file \in Content /\ stable \in Content /\ file.lines \in Seq(Event)
      /\ Sound(file) /\ Sound(stable)
  BY ReadableEvents DEF IInv, TypeOK, Sound
<1>1. Sound(file)'
  <2>1. CASE file'.lines = file.lines /\ TailFollows(file)'
    BY <1>0, <2>1 DEF Sound, Readable
  <2>2. CASE FileGrows
    <3>1. PICK e \in Event : file'.lines = Append(file.lines, e)
                             /\ e.seq = Len(file.lines) + 1 /\ file'.tail = NoTail
      BY <2>2 DEF FileGrows
    <3>2. Readable(file)' BY <1>0, <3>1 DEF Sound, Readable
    <3> QED BY <3>1, <3>2 DEF Sound, TailFollows, NoTail
  <2>3. CASE file' = stable BY <1>0, <2>3 DEF Sound, Readable, TailFollows
  <2> QED BY <2>1, <2>2, <2>3, FileStep
<1>2. Sound(stable)'
  <2>1. CASE UNCHANGED stable BY <1>0, <2>1 DEF Sound, Readable, TailFollows
  <2>2. CASE stable' \in Between(stable, file)
    <3>1. Sound(stable') BY <1>0, <2>2, BetweenSound
    <3> QED BY <3>1 DEF Sound, Readable, TailFollows
  <2>3. CASE stable' = [stable EXCEPT !.tail = NoTail]
    BY <1>0, <2>3 DEF Sound, Readable, TailFollows, NoTail, Content
  <2>4. CASE stable' = file BY <1>0, <2>4 DEF Sound, Readable, TailFollows
  <2> QED BY <2>1, <2>2, <2>3, <2>4, MediumStep
<1> QED BY <1>1, <1>2

\* The log never exists without its metadata.
LEMMA MetaStep == IInv /\ [Next]_vars => MetaFirst'
<1> SUFFICES ASSUME IInv, [Next]_vars, ~meta' PROVE MetaFirst' BY DEF MetaFirst
<1> USE EventLogAssumption DEF EventLogAssumption
<1>0. pc \in [Proc -> Pc] /\ meta \in BOOLEAN BY DEF IInv, TypeOK
<1>1. ASSUME NEW p \in Proc, ProcStep(p) PROVE MetaFirst'
  <2>1. ~meta
    BY <1>0, <1>1 DEF ProcStep, Open, AppendEvent, TryAcquire, OpenEvents, ScanWhole,
       QuarantineTail, TruncateTail, RepairLf, SyncRepair, PublishMeta, MetaRefuses,
       OpenFails, WriteLine, WriteFails, Acknowledge, SyncFails, MarkReadOnly, Close, Kill, disk
  <2>2. /\ file = Empty /\ stable = Empty /\ acked = <<>>
        /\ \A q \in Proc : pc[q] \notin {"open", "written"}
    BY <2>1 DEF IInv, MetaFirst
  <2>3. file.tail = NoTail /\ file.tail.kind = "none" BY <2>2 DEF Empty, NoTail
  <2>4. [file EXCEPT !.tail = NoTail] = file BY <2>2 DEF Empty
  <2>5. file' = Empty /\ stable' = Empty /\ acked' = <<>>
    BY <1>0, <1>1, <2>2, <2>3, <2>4 DEF ProcStep, Open, AppendEvent, TryAcquire, OpenEvents,
       ScanWhole, QuarantineTail, TruncateTail, RepairLf, SyncRepair, PublishMeta,
       MetaRefuses, OpenFails, WriteLine, WriteFails, MayAppend, Acknowledge, SyncFails,
       MarkReadOnly, Close, Kill, disk, At
  <2>6. pc'[p] \notin {"open", "written"}
    BY <1>0, <1>1, <2>1, <2>2 DEF ProcStep, Open, AppendEvent, TryAcquire, OpenEvents,
       ScanWhole, QuarantineTail, TruncateTail, RepairLf, SyncRepair, PublishMeta,
       MetaRefuses, OpenFails, WriteLine, WriteFails, MayAppend, Acknowledge, SyncFails,
       MarkReadOnly, Close, Kill, At, Release
  <2> QED BY <1>1, <2>5, <2>6, OthersClosed DEF MetaFirst
<1>2. CASE Writeback
  <2>1. ~meta BY <1>2 DEF Writeback
  <2> QED BY <1>2, <2>1 DEF Writeback, IInv, MetaFirst
<1>3. CASE PowerLoss BY <1>3 DEF PowerLoss, IInv, MetaFirst
<1>4. CASE UNCHANGED vars BY <1>4 DEF vars, disk, IInv, MetaFirst
<1> QED BY <1>1, <1>2, <1>3, <1>4 DEF Next, ProcStep

\* Every step preserves the invariant.
LEMMA Inductive == IInv /\ [Next]_vars => IInv'
BY TypeStep, LockStep, MemoryStep, PrefixStep, SoundStep, MetaStep DEF IInv

\* The inductive invariant holds in every behaviour of the log.
THEOREM SpecInv == Spec => []IInv
BY InvInit, Inductive, PTL DEF Spec

-----------------------------------------------------------------------------
(* The theorems. *)

\* Every variable of the event log model stays in its domain.
THEOREM SpecTypeOK == Spec => []TypeOK
<1>1. IInv => TypeOK BY DEF IInv
<1> QED BY <1>1, SpecInv, PTL

\* append_event's Ok is kept: the acknowledged events are on the medium.
THEOREM SpecAckedSurvive == Spec => []AckedSurvive
<1>1. IInv => AckedSurvive BY DEF IInv
<1> QED BY <1>1, SpecInv, PTL

\* What a healthy store computes the next event from is the file.
THEOREM SpecWriterKnowsTheFile == Spec => []WriterKnowsTheFile
<1>1. IInv => WriterKnowsTheFile BY DEF IInv, Memory, MemoryOf, WriterKnowsTheFile
<1> QED BY <1>1, SpecInv, PTL

\* create_or_open never refuses a session that acknowledged an event.
THEOREM SpecAckedSessionOpens == Spec => []AckedSessionOpens
<1>1. ASSUME IInv PROVE AckedSessionOpens
  <2> SUFFICES ASSUME acked # <<>> PROVE meta /\ file.lines # <<>> /\ stable.lines # <<>>
    BY <1>1 DEF AckedSessionOpens, IInv, Sound, TailFollows
  <2>1. meta BY <1>1 DEF IInv, MetaFirst
  <2>2. /\ acked \in Seq(Event) /\ file.lines \in Seq(Event \cup {Garbled})
        /\ stable.lines \in Seq(Event \cup {Garbled})
    BY <1>1 DEF IInv, TypeOK, Content
  <2>3. Len(acked) > 0 /\ Len(acked) <= Len(stable.lines) /\ Len(stable.lines) <= Len(file.lines)
    BY <1>1, <2>2 DEF IInv, MediumBehind, AckedSurvive, IsPrefix
  <2> QED BY <2>1, <2>2, <2>3
<1> QED BY <1>1, SpecInv, PTL

\* The event log implements the append-only log it promises.
THEOREM SpecIsAppendOnlyLog == Spec => IsAppendOnlyLog
<1>1. Init => Promise!Init BY DEF Init, Promise!Init, Empty
<1>2. ASSUME IInv, [Next]_vars PROVE [Promise!Next]_<<file.lines, Len(acked)>>
  <2>0. /\ file.lines \in Seq(Event) /\ stable.lines \in Seq(Event) /\ acked \in Seq(Event)
        /\ IsPrefix(acked, stable.lines) /\ IsPrefix(stable.lines, file.lines)
    BY <1>2, ReadableEvents DEF IInv, TypeOK, Sound, AckedSurvive, MediumBehind
  <2>1. Len(acked) \in Nat /\ Len(acked) <= Len(stable.lines)
        /\ Len(stable.lines) <= Len(file.lines)
    BY <2>0 DEF IsPrefix
  <2>2. CASE UNCHANGED file /\ acked' = file.lines
    BY <2>0, <2>1, <2>2 DEF Promise!Next, Promise!Acknowledge
  <2>3. CASE UNCHANGED acked
    <3>1. CASE file'.lines = file.lines BY <2>3, <3>1
    <3>2. CASE FileGrows
      <4>1. PICK e \in Event : file'.lines = Append(file.lines, e) BY <3>2 DEF FileGrows
      <4>2. file'.lines[Len(file'.lines)] = e /\ Len(file'.lines) = Len(file.lines) + 1
        BY <2>0, <4>1
      <4> QED BY <2>3, <4>1, <4>2 DEF Promise!Next, Promise!Write
    <3>3. CASE file' = stable
      <4>1. file'.lines = SubSeq(file.lines, 1, Len(stable.lines)) BY <2>0, <3>3, PrefixIsCut
      <4>2. Len(stable.lines) \in Len(acked) .. Len(file.lines) BY <2>0, <2>1
      <4> QED BY <2>3, <4>1, <4>2 DEF Promise!Next, Promise!Lose
    <3> QED BY <1>2, <3>1, <3>2, <3>3, FileStep
  <2> QED BY <1>2, <2>2, <2>3, MediumStep
<1> QED BY <1>1, <1>2, SpecInv, PTL DEF Spec, IsAppendOnlyLog, Promise!Spec

-----------------------------------------------------------------------------
(* The bytes of the medium *)

\* The medium is behind the file, or what it has beyond it is in the quarantine; a tail is
\* cut off only when a copy of it is there.
CopyBeforeCut ==
  /\ Extends(file, stable) \/ stable.tail.event \in quarantine
  /\ \A p \in Proc : pc[p] = "truncate" => file.tail.event \in quarantine

Whole(c) == [c EXCEPT !.tail = NoTail]

LEMMA WholeFields ==
  ASSUME NEW c \in Content
  PROVE  Whole(c).lines = c.lines /\ Whole(c).tail = NoTail
BY DEF Whole, Content

LEMMA ExtendsItself == ASSUME NEW c \in Content PROVE Extends(c, c)
BY PrefixRefl DEF Extends, Content

LEMMA ExtendsWhole ==
  ASSUME NEW c \in Content, NEW d, IsPrefix(c.lines, d.lines)
  PROVE  Extends(d, Whole(c))
BY WholeFields DEF Extends

\* What is added to a file without a tail extends all that it extended.
LEMMA ExtendsMore ==
  ASSUME NEW c \in Content, NEW d \in Content, NEW x \in Content, Extends(d, c), d.tail = NoTail,
         x.lines = d.lines \/ \E e \in Line : x.lines = Append(d.lines, e)
  PROVE  Extends(x, c)
<1>1. /\ c.lines \in Seq(Line) /\ d.lines \in Seq(Line) /\ IsPrefix(c.lines, d.lines)
      /\ Len(c.lines) <= Len(d.lines)
  BY DEF Content, Line, Extends, IsPrefix
<1>2. IsPrefix(c.lines, x.lines)
  BY <1>1, PrefixAppend
<1>3. c.tail # NoTail => Len(c.lines) < Len(d.lines) /\ d.lines[Len(c.lines) + 1] = c.tail.event
  BY DEF Extends, NoTail, Content, Remainder
<1>4. Len(c.lines) < Len(d.lines) => /\ Len(c.lines) < Len(x.lines)
                                     /\ x.lines[Len(c.lines) + 1] = d.lines[Len(c.lines) + 1]
  <2>1. CASE x.lines = d.lines
    BY <2>1
  <2>2. ASSUME NEW e \in Line, x.lines = Append(d.lines, e), Len(c.lines) < Len(d.lines)
        PROVE  Len(c.lines) < Len(x.lines) /\ x.lines[Len(c.lines) + 1] = d.lines[Len(c.lines) + 1]
    <3>1. Len(c.lines) \in Nat /\ Len(d.lines) \in Nat /\ Len(c.lines) + 1 \in 1..Len(d.lines)
      BY <1>1, <2>2
    <3> QED
      BY <1>1, <2>2, <3>1
  <2> QED
    BY <2>1, <2>2
<1> QED
  BY <1>2, <1>3, <1>4 DEF Extends

\* Cutting the tail of the file, or completing it, after its copy was made.
LEMMA ExtendsCut ==
  ASSUME NEW c \in Content, NEW d \in Content, NEW x \in Content, Extends(d, c)
  PROVE  /\ x = Whole(d) => Extends(x, c) \/ c.tail.event = d.tail.event
         /\ d.tail # NoTail /\ x.lines = Append(d.lines, d.tail.event) => Extends(x, c)
<1>1. /\ c.lines \in Seq(Line) /\ d.lines \in Seq(Line) /\ IsPrefix(c.lines, d.lines)
      /\ Len(c.lines) <= Len(d.lines)
  BY DEF Content, Line, Extends, IsPrefix
<1>2. \/ c.tail = NoTail
      \/ Len(c.lines) < Len(d.lines) /\ d.lines[Len(c.lines) + 1] = c.tail.event
      \/ Len(c.lines) = Len(d.lines) /\ d.tail.event = c.tail.event
  BY DEF Extends, Content, Remainder
<1>3. ASSUME x = Whole(d) PROVE Extends(x, c) \/ c.tail.event = d.tail.event
  BY <1>1, <1>2, <1>3, WholeFields DEF Extends
<1>4. ASSUME d.tail # NoTail, x.lines = Append(d.lines, d.tail.event) PROVE Extends(x, c)
  <2>1. d.tail.event \in Line
    BY <1>4 DEF Content, Remainder, Line, NoTail
  <2>2. IsPrefix(c.lines, x.lines)
    BY <1>1, <1>4, <2>1, PrefixAppend
  <2>3. Len(x.lines) = Len(d.lines) + 1 /\ x.lines[Len(d.lines) + 1] = d.tail.event
        /\ \A i \in 1..Len(d.lines) : x.lines[i] = d.lines[i]
    BY <1>1, <1>4, <2>1
  <2> QED
    BY <1>1, <1>2, <2>2, <2>3 DEF Extends
<1> QED
  BY <1>3, <1>4

\* How a step of a process changes the file, and the quarantine before it.
LEMMA CutStep ==
  ASSUME IInv, CopyBeforeCut, NEW p \in Proc, ProcStep(p), UNCHANGED stable
  PROVE  CopyBeforeCut'
<1>0. /\ TypeOK /\ file \in Content /\ stable \in Content /\ file' \in Content
      /\ file.lines \in Seq(Event) /\ pc \in [Proc -> Pc]
  <2>1. TypeOK'
    BY TypeStep DEF Next, ProcStep
  <2> QED
    BY <2>1, ReadableEvents DEF IInv, TypeOK, Sound
<1>1. \A q \in Proc : q # p => pc'[q] = "closed"
  BY OthersClosed
<1>2. CASE WriteLine(p)
  <2>1. file.tail = NoTail /\ pc'[p] = "written"
    BY <1>0, <1>2 DEF WriteLine, MayAppend, At, IInv, Memory, MemoryOf
  <2>2. NextEvent(p) \in Event
    BY <1>0, NextEventType
  <2>3. file'.lines = Append(file.lines, NextEvent(p)) /\ NextEvent(p) \in Line
    BY <1>0, <1>2, <2>1, <2>2, WithLineType DEF WriteLine, Line
  <2>4. Extends(file, stable) => Extends(file', stable)
    BY <1>0, <2>1, <2>3, ExtendsMore
  <2> QED
    BY <1>1, <1>2, <2>1, <2>4 DEF CopyBeforeCut, WriteLine
<1>3. CASE WriteFails(p)
  <2>1. file.tail = NoTail /\ pc' = pc /\ pc[p] = "open"
    BY <1>3 DEF WriteFails, MayAppend, IInv, Memory, MemoryOf
  <2>2. NextEvent(p) \in Event
    BY <1>0, NextEventType
  <2>3. file'.lines = file.lines
    BY <1>0, <1>3, <2>2, WithPartType DEF WriteFails
  <2>4. Extends(file, stable) => Extends(file', stable)
    BY <1>0, <2>1, <2>3, ExtendsMore
  <2> QED
    BY <1>1, <1>3, <2>1, <2>4 DEF CopyBeforeCut, WriteFails
<1>4. CASE TruncateTail(p)
  <2>1. file.tail.event \in quarantine /\ file' = Whole(file) /\ UNCHANGED quarantine /\ pc'[p] = "sync"
    BY <1>0, <1>4 DEF TruncateTail, At, CopyBeforeCut, Whole
  <2>2. Extends(file, stable) => Extends(file', stable) \/ stable.tail.event = file.tail.event
    BY <1>0, <2>1, ExtendsCut
  <2> QED
    BY <1>1, <2>1, <2>2 DEF CopyBeforeCut
<1>5. CASE RepairLf(p)
  <2>1. file.tail # NoTail /\ file'.lines = Append(file.lines, file.tail.event)
        /\ UNCHANGED quarantine /\ pc'[p] = "sync"
    BY <1>0, <1>5 DEF RepairLf, At, NoTail
  <2>2. Extends(file, stable) => Extends(file', stable)
    BY <1>0, <2>1, ExtendsCut
  <2> QED
    BY <1>1, <2>1, <2>2 DEF CopyBeforeCut
<1>6. CASE QuarantineTail(p)
  BY <1>0, <1>1, <1>6 DEF QuarantineTail, At, CopyBeforeCut
<1>7. ASSUME ~WriteLine(p), ~RepairLf(p), ~WriteFails(p), ~TruncateTail(p), ~QuarantineTail(p)
      PROVE  UNCHANGED <<file, quarantine>> /\ pc'[p] # "truncate"
  <2>1. UNCHANGED <<file, quarantine>>
    BY <1>7 DEF ProcStep, Open, AppendEvent, TryAcquire, OpenEvents, ScanWhole, SyncRepair,
       PublishMeta, MetaRefuses, OpenFails, Acknowledge, SyncFails, MarkReadOnly, Close, Kill, disk
  <2>2. pc'[p] # "truncate"
    BY <1>0, <1>7 DEF ProcStep, Open, AppendEvent, TryAcquire, OpenEvents, ScanWhole, SyncRepair,
       PublishMeta, MetaRefuses, OpenFails, Acknowledge, SyncFails, MarkReadOnly, Close, Kill,
       At, Release
  <2> QED
    BY <2>1, <2>2
<1> QED
  BY <1>1, <1>2, <1>3, <1>4, <1>5, <1>6, <1>7 DEF CopyBeforeCut

\* The step of the property, from the invariant.
BytesKept == \/ Extends(stable', stable)
             \/ stable.tail.event \in quarantine /\ Extends(stable', Whole(stable))

LEMMA CopyStep ==
  ASSUME IInv, CopyBeforeCut, [Next]_vars
  PROVE  CopyBeforeCut' /\ BytesKept
<1>0. /\ file \in Content /\ stable \in Content /\ file' \in Content /\ stable' \in Content
      /\ IsPrefix(stable.lines, file.lines)
  BY TypeStep DEF IInv, TypeOK, MediumBehind
<1>1. ASSUME NEW p \in Proc, ProcStep(p) PROVE CopyBeforeCut' /\ BytesKept
  <2>1. CASE UNCHANGED stable
    BY <1>0, <1>1, <2>1, CutStep, ExtendsItself DEF BytesKept
  <2>2. CASE stable' # stable
    <3>1. SyncRepair(p) \/ Acknowledge(p)
      BY <1>1, <2>2 DEF ProcStep, Open, AppendEvent, TryAcquire, OpenEvents, ScanWhole,
         QuarantineTail, TruncateTail, RepairLf, PublishMeta, MetaRefuses, OpenFails, WriteLine,
         WriteFails, SyncFails, MarkReadOnly, Close, Kill, disk
    <3>2. stable' = file /\ UNCHANGED <<file, quarantine>> /\ pc'[p] # "truncate"
      BY <3>1 DEF SyncRepair, Acknowledge, At, IInv, TypeOK
    <3>3. Extends(file', stable')
      BY <1>0, <3>2, ExtendsItself
    <3>4. CopyBeforeCut'
      BY <1>1, <3>2, <3>3, OthersClosed DEF CopyBeforeCut
    <3>5. Extends(file, Whole(stable))
      BY <1>0, ExtendsWhole
    <3> QED
      BY <3>2, <3>4, <3>5 DEF BytesKept, CopyBeforeCut
  <2> QED
    BY <2>1, <2>2
<1>2. CASE Writeback
  <2>0. UNCHANGED <<file, quarantine, pc>>
    BY <1>2 DEF Writeback
  <2>1. CASE Extends(file, stable)
    <3>1. Extends(stable', stable) /\ Extends(file, stable')
      BY <1>2, <2>1 DEF Writeback, Between
    <3> QED
      BY <2>0, <3>1 DEF CopyBeforeCut, BytesKept
  <2>2. CASE ~Extends(file, stable)
    <3>1. stable' = Whole(stable) /\ stable.tail.event \in quarantine
      BY <1>2, <2>2 DEF Writeback, Whole, CopyBeforeCut
    <3>2. Extends(file, stable') /\ Extends(stable', Whole(stable))
      BY <1>0, <3>1, ExtendsWhole, ExtendsItself
    <3> QED
      BY <2>0, <3>1, <3>2 DEF CopyBeforeCut, BytesKept
  <2> QED
    BY <2>1, <2>2
<1>3. CASE PowerLoss
  BY <1>0, <1>3, ExtendsItself DEF PowerLoss, CopyBeforeCut, BytesKept
<1>4. CASE UNCHANGED vars
  BY <1>0, <1>4, ExtendsItself DEF vars, disk, CopyBeforeCut, BytesKept
<1> QED
  BY <1>1, <1>2, <1>3, <1>4 DEF Next, ProcStep

\* Bytes that reached the medium leave it only as a tail that was copied before it was cut,
\* whoever cuts it and wherever the process or the machine stops.
THEOREM SpecDurableBytesKept == Spec => DurableBytesKept
<1>1. Init => CopyBeforeCut
  BY ExtendsItself, InvInit DEF Init, CopyBeforeCut, IInv, TypeOK
<1>2. IInv /\ CopyBeforeCut /\ [Next]_vars => CopyBeforeCut'
  BY CopyStep
<1>3. IInv /\ CopyBeforeCut /\ [Next]_vars
      => [\/ Extends(stable', stable)
          \/ /\ stable.tail.event \in quarantine
             /\ Extends(stable', [stable EXCEPT !.tail = NoTail])]_vars
  BY CopyStep DEF BytesKept, Whole
<1> QED
  BY <1>1, <1>2, <1>3, SpecInv, PTL DEF Spec, DurableBytesKept
=============================================================================
