------------------------------ MODULE EventLog ------------------------------
(***************************************************************************)
(* The canonical event log of one session (history/event_log.rs): the      *)
(* writer lock, opening with its scan and repair of the tail, the append   *)
(* that acknowledges an event only after fsync, and what is left of the    *)
(* file when a write fails, a process is killed or the machine loses power.*)
(*                                                                         *)
(* events.jsonl is the lines ended by LF and the tail after the last LF.   *)
(* A tail is a proper prefix of a line ("torn": not a JSON value) or a     *)
(* whole line short of its LF ("noLf").  `file` is what a read returns,    *)
(* `stable` what the medium holds; the kernel may write back any part of   *)
(* the difference at any time and fsync writes back all of it.             *)
(***************************************************************************)
EXTENDS Naturals, SequencesExt

CONSTANTS
  Proc,          \* processes that open the session
  NoProc,        \* nobody holds session.lock
  MaxEvents,     \* bound: events created
  MaxKills,      \* bound: killed processes
  MaxPowerLoss,  \* bound: power losses
  MaxFaults      \* bound: failed I/O calls

ASSUME EventLogAssumption ==
  /\ NoProc \notin Proc
  /\ MaxEvents \in Nat /\ MaxKills \in Nat
  /\ MaxPowerLoss \in Nat /\ MaxFaults \in Nat

\* An envelope: its sequence and its event_id, which is never used again.
Event == [seq : Nat \ {0}, id : Nat \ {0}]

\* A line that is not one JSON value, whoever wrote its parts.
Garbled == [seq |-> 0, id |-> 0]

NoTail == [kind |-> "none", event |-> Garbled]
Remainder == [kind : {"torn", "noLf"}, event : Event] \cup {NoTail}

Content == [lines : Seq(Event \cup {Garbled}), tail : Remainder]
Empty == [lines |-> <<>>, tail |-> NoTail]

VARIABLES
  file, stable,  \* events.jsonl: what a read returns, what the medium holds
  exists, meta,  \* events.jsonl exists; meta.json is published
  quarantine,    \* the torn tails kept as quarantine/events-tail-*.bin
  holder,        \* the process whose descriptor holds the flock
  pc,            \* per process: where it is in create_or_open or append_event
  created,       \* events_created of its create_or_open
  wasEmpty,      \* preexisting_empty_events of its create_or_open
  mem,           \* store.events
  unhealthy,     \* store.unhealthy
  acked,         \* history: the events append_event returned Ok for
  made,          \* event ids used so far
  kills, losses, faults

disk  == <<file, stable, exists, meta, quarantine>>
store == <<created, wasEmpty, mem, unhealthy>>
count == <<kills, losses, faults>>
vars  == <<disk, holder, pc, store, acked, made, count>>

Init ==
  /\ file = Empty /\ stable = Empty
  /\ exists = FALSE /\ meta = FALSE
  /\ quarantine = {}
  /\ holder = NoProc
  /\ pc = [p \in Proc |-> "closed"]
  /\ created = [p \in Proc |-> FALSE]
  /\ wasEmpty = [p \in Proc |-> FALSE]
  /\ mem = [p \in Proc |-> <<>>]
  /\ unhealthy = [p \in Proc |-> FALSE]
  /\ acked = <<>>
  /\ made = 0
  /\ kills = 0 /\ losses = 0 /\ faults = 0

-----------------------------------------------------------------------------
(* The file. *)

\* Every line parses and the sequences are 1, 2, 3, ...  A log that is not is
\* refused by every scan (E_JSONL_NON_FINAL_MALFORMED, E_EVENT_*), for good.
Readable(c) == \A i \in 1..Len(c.lines) : c.lines[i].seq = i

\* A whole line written at the end of c.
WithLine(c, e) ==
  [lines |-> Append(c.lines, IF c.tail = NoTail THEN e ELSE Garbled), tail |-> NoTail]

\* A write of the line of e at the end of c that stops early.
WithPart(c, e) ==
  IF c.tail = NoTail
  THEN {c} \cup {[c EXCEPT !.tail = [kind |-> k, event |-> e]] : k \in {"torn", "noLf"}}
  ELSE {c, [c EXCEPT !.tail.kind = "torn"]}

\* c, given more bytes, becomes d.
Extends(d, c) ==
  /\ IsPrefix(c.lines, d.lines)
  /\ \/ c.tail = NoTail
     \/ /\ Len(c.lines) < Len(d.lines)
        /\ d.lines[Len(c.lines) + 1] = c.tail.event
     \/ /\ Len(c.lines) = Len(d.lines)
        /\ d.tail = c.tail \/ (c.tail.kind = "torn" /\ d.tail = [c.tail EXCEPT !.kind = "noLf"])

\* The contents the medium passes through on its way from c to d.
Between(c, d) ==
  LET Parts == [kind : {"torn", "noLf"}, event : Range(d.lines) \cup {d.tail.event}]
  IN {x \in [lines : {SubSeq(d.lines, 1, n) : n \in Len(c.lines)..Len(d.lines)},
             tail : {NoTail} \cup Parts] : Extends(x, c) /\ Extends(d, x)}

\* The kernel writes back; a truncation reaches the medium before later bytes.
Writeback ==
  /\ file # stable
  /\ stable' \in IF Extends(file, stable) THEN Between(stable, file) \ {stable}
                 ELSE {[stable EXCEPT !.tail = NoTail]}
  /\ UNCHANGED <<file, exists, meta, quarantine, holder, pc, store, acked, made, count>>

-----------------------------------------------------------------------------
(* create_or_open. *)

At(p, from, to) == pc[p] = from /\ pc' = [pc EXCEPT ![p] = to]

\* Dropping the store, or returning an error, unlocks session.lock.
Release(p) == holder' = NoProc /\ pc' = [pc EXCEPT ![p] = "closed"]

\* try_lock_exclusive; E_SESSION_LOCKED otherwise, which changes nothing.
TryAcquire(p) ==
  /\ At(p, "closed", "locked")
  /\ holder = NoProc
  /\ holder' = p
  /\ UNCHANGED <<disk, store, acked, made, count>>

OpenEvents(p) ==
  /\ At(p, "locked", "scan")
  /\ created' = [created EXCEPT ![p] = ~exists]
  /\ wasEmpty' = [wasEmpty EXCEPT ![p] = exists /\ file = Empty]
  /\ mem' = [mem EXCEPT ![p] = <<>>]
  /\ unhealthy' = [unhealthy EXCEPT ![p] = FALSE]
  /\ exists' = TRUE
  /\ UNCHANGED <<file, stable, meta, quarantine, holder, acked, made, count>>

\* No tail: every line is accepted as it is.
ScanWhole(p) ==
  /\ At(p, "scan", "meta")
  /\ Readable(file) /\ file.tail = NoTail
  /\ mem' = [mem EXCEPT ![p] = file.lines]
  /\ UNCHANGED <<disk, holder, created, wasEmpty, unhealthy, acked, made, count>>

\* Bug: the file is truncated without a copy of the tail.
DiscardTail(p) ==
  /\ At(p, "scan", "truncate")
  /\ Readable(file) /\ file.tail.kind = "torn"
  /\ mem' = [mem EXCEPT ![p] = file.lines]
  /\ UNCHANGED <<disk, holder, created, wasEmpty, unhealthy, acked, made, count>>

\* quarantine_tail_bytes: the copy and its directory are synced ...
QuarantineTail(p) ==
  /\ At(p, "scan", "truncate")
  /\ Readable(file) /\ file.tail.kind = "torn"
  /\ mem' = [mem EXCEPT ![p] = file.lines]
  /\ quarantine' = quarantine \cup {file.tail.event}
  /\ UNCHANGED <<file, stable, exists, meta, holder, created, wasEmpty, unhealthy, acked, made, count>>

\* ... before set_len cuts it off ...
TruncateTail(p) ==
  /\ At(p, "truncate", "sync")
  /\ file' = [file EXCEPT !.tail = NoTail]
  /\ UNCHANGED <<stable, exists, meta, quarantine, holder, store, acked, made, count>>

\* Bug: the next append will bring the LF along.
AcceptWithoutLf(p) ==
  /\ At(p, "scan", "sync")
  /\ Readable(file) /\ file.tail.kind = "noLf"
  /\ file.tail.event.seq = Len(file.lines) + 1
  /\ mem' = [mem EXCEPT ![p] = Append(file.lines, file.tail.event)]
  /\ UNCHANGED <<disk, holder, created, wasEmpty, unhealthy, acked, made, count>>

\* A whole last line without LF is an event: the LF is appended.
RepairLf(p) ==
  /\ At(p, "scan", "sync")
  /\ Readable(file) /\ file.tail.kind = "noLf"
  /\ file.tail.event.seq = Len(file.lines) + 1
  /\ file' = [lines |-> Append(file.lines, file.tail.event), tail |-> NoTail]
  /\ mem' = [mem EXCEPT ![p] = file'.lines]
  /\ UNCHANGED <<stable, exists, meta, quarantine, holder, created, wasEmpty, unhealthy, acked, made, count>>

\* ... and sync_all makes the repair durable.
SyncRepair(p) ==
  /\ At(p, "sync", "meta")
  /\ stable' = file
  /\ UNCHANGED <<file, exists, meta, quarantine, holder, store, acked, made, count>>

\* write_new_session_meta for a new log, verify_session_meta otherwise.
PublishMeta(p) ==
  /\ At(p, "meta", "open")
  /\ IF created[p] /\ mem[p] = <<>> THEN meta' = TRUE
     ELSE meta /\ ~(wasEmpty[p] /\ mem[p] = <<>>) /\ UNCHANGED meta
  /\ UNCHANGED <<file, stable, exists, quarantine, holder, store, acked, made, count>>

\* E_SESSION_NOT_STARTED, HISTORY_META_MISMATCH.
MetaRefuses(p) ==
  /\ pc[p] = "meta"
  /\ ~(created[p] /\ mem[p] = <<>>)
  /\ ~meta \/ (wasEmpty[p] /\ mem[p] = <<>>)
  /\ Release(p)
  /\ UNCHANGED <<disk, store, acked, made, count>>

\* An I/O call of create_or_open fails; what it had done so far stays.
OpenFails(p) ==
  /\ faults < MaxFaults /\ faults' = faults + 1
  /\ pc[p] \in {"locked", "scan", "truncate", "sync", "meta"}
  /\ meta' \in IF pc[p] = "meta" /\ created[p] /\ mem[p] = <<>> THEN {meta, TRUE} ELSE {meta}
  /\ Release(p)
  /\ UNCHANGED <<file, stable, exists, quarantine, store, acked, made, kills, losses>>

-----------------------------------------------------------------------------
(* append_event. *)

\* The envelope append_event is given next; its line is not in the file yet.
NextEvent(p) == [seq |-> Len(mem[p]) + 1, id |-> made + 1]

\* Bug: a failed append does not stop the next one.
MayAppendAgain(p) == pc[p] = "open" /\ made < MaxEvents

\* E_EVENT_DURABILITY_UNCERTAIN on every call after a failed one.
MayAppend(p) == pc[p] = "open" /\ ~unhealthy[p] /\ made < MaxEvents

WriteLine(p) ==
  /\ MayAppend(p) /\ At(p, "open", "written")
  /\ file' = WithLine(file, NextEvent(p))
  /\ made' = made + 1
  /\ UNCHANGED <<stable, exists, meta, quarantine, holder, store, acked, count>>

\* write_all or flush fails, or stops half way.
WriteFails(p) ==
  /\ MayAppend(p)
  /\ faults < MaxFaults /\ faults' = faults + 1
  /\ file' \in WithPart(file, NextEvent(p))
  /\ made' = made + 1
  /\ unhealthy' = [unhealthy EXCEPT ![p] = TRUE]
  /\ UNCHANGED <<stable, exists, meta, quarantine, holder, pc, created, wasEmpty, mem, acked, kills, losses>>

\* Bug: the event is acknowledged once it is written.
AcknowledgeUnsynced(p) ==
  /\ At(p, "written", "open")
  /\ mem' = [mem EXCEPT ![p] = Append(mem[p], Last(file.lines))]
  /\ acked' = mem'[p]
  /\ UNCHANGED <<disk, holder, created, wasEmpty, unhealthy, made, count>>

\* sync_file, and only then the in-memory prefix and the acknowledgement.
Acknowledge(p) ==
  /\ At(p, "written", "open")
  /\ stable' = file
  /\ mem' = [mem EXCEPT ![p] = Append(mem[p], Last(file.lines))]
  /\ acked' = mem'[p]
  /\ UNCHANGED <<file, exists, meta, quarantine, holder, created, wasEmpty, unhealthy, made, count>>

SyncFails(p) ==
  /\ faults < MaxFaults /\ faults' = faults + 1
  /\ At(p, "written", "open")
  /\ unhealthy' = [unhealthy EXCEPT ![p] = TRUE]
  /\ UNCHANGED <<disk, holder, created, wasEmpty, mem, acked, made, kills, losses>>

MarkReadOnly(p) ==
  /\ pc[p] = "open"
  /\ unhealthy' = [unhealthy EXCEPT ![p] = TRUE]
  /\ UNCHANGED <<disk, holder, pc, created, wasEmpty, mem, acked, made, count>>

Close(p) ==
  /\ pc[p] = "open"
  /\ Release(p)
  /\ UNCHANGED <<disk, store, acked, made, count>>

\* A killed process leaves the file as a reader sees it; a stop inside write_all
\* is WriteFails followed by this.
Kill(p) ==
  /\ kills < MaxKills /\ kills' = kills + 1
  /\ pc[p] # "closed"
  /\ Release(p)
  /\ UNCHANGED <<disk, store, acked, made, losses, faults>>

\* Every process is gone and the file is what the medium holds.
PowerLoss ==
  /\ losses < MaxPowerLoss /\ losses' = losses + 1
  /\ file' = stable
  /\ holder' = NoProc
  /\ pc' = [p \in Proc |-> "closed"]
  /\ UNCHANGED <<stable, exists, meta, quarantine, store, acked, made, kills, faults>>

Open(p) ==
  \/ TryAcquire(p) \/ OpenEvents(p)
  \/ ScanWhole(p) \/ QuarantineTail(p) \/ TruncateTail(p)
  \/ RepairLf(p) \/ SyncRepair(p)
  \/ PublishMeta(p) \/ MetaRefuses(p) \/ OpenFails(p)

AppendEvent(p) ==
  \/ WriteLine(p) \/ WriteFails(p) \/ Acknowledge(p) \/ SyncFails(p)

Next ==
  \/ \E p \in Proc : Open(p) \/ AppendEvent(p) \/ MarkReadOnly(p) \/ Close(p) \/ Kill(p)
  \/ Writeback
  \/ PowerLoss

Spec == Init /\ [][Next]_vars

-----------------------------------------------------------------------------
(* Properties. *)

Pc == {"closed", "locked", "scan", "truncate", "sync", "meta", "open", "written"}

\* Every variable stays in its domain.
TypeOK ==
  /\ file \in Content /\ stable \in Content
  /\ exists \in BOOLEAN /\ meta \in BOOLEAN
  /\ quarantine \subseteq Event
  /\ holder \in Proc \cup {NoProc}
  /\ pc \in [Proc -> Pc]
  /\ created \in [Proc -> BOOLEAN] /\ wasEmpty \in [Proc -> BOOLEAN]
  /\ mem \in [Proc -> Seq(Event)]
  /\ unhealthy \in [Proc -> BOOLEAN]
  /\ acked \in Seq(Event)
  /\ made \in 0..MaxEvents
  /\ kills \in 0..MaxKills /\ losses \in 0..MaxPowerLoss /\ faults \in 0..MaxFaults

\* An event append_event returned Ok for is on the medium, at its place, after
\* any mix of failed appends, kills, power losses and repairs by other processes
\* (append_event's write, flush, fsync, then acknowledge).
AckedSurvive == IsPrefix(acked, stable.lines)

\* A session that acknowledged an event is never refused again: its log parses
\* with contiguous sequences, is not empty, and its manifest was published
\* (scan_and_repair's permanent errors, E_SESSION_NOT_STARTED).
AckedSessionOpens ==
  acked # <<>> =>
    /\ meta
    /\ \A c \in {file, stable} : Readable(c) /\ c.lines # <<>>
                                 /\ (c.tail.kind = "noLf" => c.tail.event.seq = Len(c.lines) + 1)

\* The next sequence, prefix hash and replayed state a healthy store computes
\* from its memory are those of the file (current_sequence, prefix_hash): no
\* other process and no failed append of its own has put anything in between.
WriterKnowsTheFile ==
  \A p \in Proc : pc[p] = "open" /\ ~unhealthy[p] =>
    file.tail = NoTail /\ mem[p] = file.lines

\* Bytes that reached the medium only leave it as a torn tail of which the
\* quarantine holds a copy (quarantine_tail_bytes before truncate_after_quarantine).
DurableBytesKept ==
  [][\/ Extends(stable', stable)
     \/ /\ stable.tail.event \in quarantine
        /\ Extends(stable', [stable EXCEPT !.tail = NoTail])]_vars

\* A reader never finds less than what was acknowledged and never anything else
\* before it: the log implements the abstract append-only log.
Promise == INSTANCE AppendOnlyLog WITH log <- file.lines, acked <- Len(acked)
IsAppendOnlyLog == Promise!Spec

\* The events a reopened store reports, which recovery and the projections act
\* on, are durable (recovery.rs:1: "the longest valid durable event prefix").
ReportedIsDurable ==
  \A p \in Proc : pc[p] = "open" /\ ~unhealthy[p] => IsPrefix(mem[p], stable.lines)
=============================================================================
