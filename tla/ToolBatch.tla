----------------------------- MODULE ToolBatch -----------------------------
(***************************************************************************)
(* One tool batch of a turn, from the calls the model asked for to its     *)
(* ToolBatchCompleted event: tools/runtime.rs (admission, concurrent       *)
(* bodies, cancellation, deadlines, poisoning), tools/locks.rs (path       *)
(* leases), the publication of the results, and the part of recovery.rs    *)
(* and turn/mod.rs that takes the batch up again after the process died.   *)
(*                                                                         *)
(* The driver is one task: what it does between two awaits is one action.  *)
(* Bodies run in tasks of their own and may never end.                     *)
(***************************************************************************)
EXTENDS Naturals, FiniteSets

CONSTANTS
  NumCalls,   \* calls of the batch, in provider order
  Path,       \* normalized paths
  Intent,     \* the intents inspection may return
  Permits,    \* the sizes of the `parallel` semaphore a process may be configured with
  MaxKills,   \* bound: killed processes
  MaxFaults   \* bound: failed appends and artifact writes

Call == 1..NumCalls

\* effect: side_effect_capable; mutating: mutability_of is not ReadOnly;
\* state: a state tool, which runs inline.
IntentType == [reads : SUBSET Path, writes : SUBSET Path,
               effect : BOOLEAN, mutating : BOOLEAN, state : BOOLEAN]

ASSUME ToolBatchAssumption ==
  /\ NumCalls \in Nat /\ Permits \subseteq Nat \ {0}
  /\ MaxKills \in Nat /\ MaxFaults \in Nat
  /\ Intent \subseteq IntentType
  /\ \A i \in Intent : (i.writes # {} => i.mutating) /\ (i.mutating => i.effect)

NoIntent == [reads |-> {}, writes |-> {}, effect |-> FALSE, mutating |-> FALSE, state |-> FALSE]

VARIABLES
  started, finish, completed,  \* the batch's events in the log
  orphan,      \* per started call: the status in its artifact row
  journal,     \* per call: its write journal, on disk
  at,          \* where the process is
  st,          \* per call: where the driver is with it
  intent,      \* per call: what its inspection returned
  redacted,    \* recovery_cancelled_calls
  retiring,    \* the call whose journal recovery retires next
  cancelled,   \* the batch's cancellation token
  poisoned,    \* ToolRuntime.poisoned
  lease,       \* per call: the paths its PathLease holds
  readers, writer,  \* PathLockTable.inner
  permits,     \* free permits of ToolRuntime.parallel
  body,        \* per call: the task of its tool body
  result,      \* per call: its FinishedCall, until it is published
  runs,        \* history, per call: how often its body was entered
  kills, faults

events == <<started, finish, completed>>
disk   == <<events, orphan, journal>>
locks  == <<lease, readers, writer>>
flags  == <<redacted, retiring, cancelled, poisoned>>
count  == <<kills, faults>>
vars   == <<disk, at, st, intent, flags, locks, permits, body, result, runs, count>>

Each(v) == [c \in Call |-> v]

\* What a process has before it does anything with the batch.
Init ==
  /\ started = Each("no") /\ finish = Each("none") /\ completed = FALSE
  /\ orphan = Each("none") /\ journal = Each("none")
  /\ at = "preflight"
  /\ st = Each("pending") /\ intent = Each(NoIntent)
  /\ redacted = {} /\ retiring = {} /\ cancelled = FALSE /\ poisoned = FALSE
  /\ lease = Each({})
  /\ readers = [p \in Path |-> 0] /\ writer = [p \in Path |-> FALSE]
  /\ permits \in Permits
  /\ body = Each("none") /\ result = Each("none")
  /\ runs = Each(0)
  /\ kills = 0 /\ faults = 0

First(c, S) == c \in S /\ \A d \in S : c <= d

-----------------------------------------------------------------------------
(* PathLockTable. *)

\* The keys of an intent, each once.
Keys(i) == i.reads \cup i.writes

\* Bug: only another writer excludes a writer.
ConflictOfWriters(i) == \E p \in Keys(i) : writer[p]

\* A path asked for both ways is locked for writing.
Conflict(i) ==
  \/ \E p \in i.writes : writer[p] \/ readers[p] > 0
  \/ \E p \in i.reads \ i.writes : writer[p]

Acquire(c, i) ==
  /\ lease' = [lease EXCEPT ![c] = Keys(i)]
  /\ writer' = [p \in Path |-> writer[p] \/ p \in i.writes]
  /\ readers' = [p \in Path |-> readers[p] + (IF p \in i.reads \ i.writes THEN 1 ELSE 0)]

\* The leases of the calls in S are dropped.
Drop(S) ==
  /\ lease' = [c \in Call |-> IF c \in S THEN {} ELSE lease[c]]
  /\ writer' = [p \in Path |-> writer[p] /\ \A c \in S : p \notin lease[c]]
  /\ readers' = [p \in Path |->
       IF writer[p] THEN readers[p]
       ELSE readers[p] - Cardinality({c \in S : p \in lease[c]})]

-----------------------------------------------------------------------------
(* Preflight: the calls in order, none of them runs yet. *)

Settle(c, r) == st' = [st EXCEPT ![c] = "over"] /\ result' = [result EXCEPT ![c] = r]

\* Bug: the finishes the log already has are ignored.
PreflightAll(c) == at = "preflight" /\ First(c, {d \in Call : st[d] = "pending"})

\* finished_ids: calls with a durable finish are passed over.
Preflight(c) ==
  at = "preflight" /\ First(c, {d \in Call : st[d] = "pending" /\ finish[d] = "none"})

BlockCancelled(c) ==
  /\ Preflight(c)
  /\ cancelled \/ c \in redacted
  /\ Settle(c, "cancelled")
  /\ UNCHANGED <<disk, at, intent, flags, locks, permits, body, runs, count>>

\* Unknown tool, plan mode, validation, risk or circuit; or TOOL_PATH_BUSY.
BlockByHook(c) ==
  /\ Preflight(c)
  /\ ~cancelled /\ c \notin redacted
  /\ Settle(c, "error")
  /\ UNCHANGED <<disk, at, intent, flags, locks, permits, body, runs, count>>

BlockBusy(c) ==
  /\ Preflight(c)
  /\ ~cancelled /\ c \notin redacted
  /\ \E i \in Intent : Conflict(i)
  /\ Settle(c, "blocked")
  /\ UNCHANGED <<disk, at, intent, flags, locks, permits, body, runs, count>>

Ready(c) ==
  /\ Preflight(c)
  /\ ~cancelled /\ c \notin redacted
  /\ \E i \in Intent :
       /\ ~Conflict(i)
       /\ Acquire(c, i)
       /\ intent' = [intent EXCEPT ![c] = i]
  /\ st' = [st EXCEPT ![c] = "ready"]
  /\ UNCHANGED <<disk, at, flags, permits, body, result, runs, count>>

PreflightDone ==
  /\ at = "preflight"
  /\ \A c \in Call : st[c] = "pending" => finish[c] # "none"
  /\ at' = "drive"
  /\ UNCHANGED <<disk, st, intent, flags, locks, permits, body, result, runs, count>>

-----------------------------------------------------------------------------
(* drive_ready. *)

IsReady(c) == at = "drive" /\ st[c] = "ready"

\* State tickets run before the others are looked at.
MyTurn(c) ==
  LET tickets == {d \in Call : intent[d].state /\ st[d] \in {"ready", "ticket"}}
  IN IF tickets = {} THEN TRUE ELSE First(c, tickets)

\* record_start: the body may run once this is in the log.
RecordStart(c) ==
  started' = [started EXCEPT ![c] = IF intent[c].mutating THEN "mutating" ELSE "readonly"]

\* The waiting future sees the cancellation before a permit, or the ticket does.
NotStarted(c) ==
  /\ IsReady(c) /\ MyTurn(c) /\ cancelled
  /\ Settle(c, "cancelled")
  /\ Drop({c})
  /\ UNCHANGED <<disk, at, intent, flags, permits, body, runs, count>>

StartTicket(c) ==
  /\ IsReady(c) /\ MyTurn(c) /\ intent[c].state /\ ~cancelled
  /\ RecordStart(c)
  /\ st' = [st EXCEPT ![c] = "ticket"]
  /\ UNCHANGED <<finish, completed, orphan, journal, at, intent, flags, locks, permits, body, result, runs, count>>

RunTicket(c) ==
  /\ at = "drive" /\ st[c] = "ticket"
  /\ runs' = [runs EXCEPT ![c] = @ + 1]
  /\ \E r \in {"success", "error"} : Settle(c, r)
  /\ Drop({c})
  /\ UNCHANGED <<disk, at, intent, flags, permits, body, count>>

\* Bug: the body is queued without its start record.
StartUnrecorded(c) ==
  /\ IsReady(c) /\ MyTurn(c) /\ ~intent[c].state /\ permits > 0 /\ ~cancelled
  /\ permits' = permits - 1
  /\ st' = [st EXCEPT ![c] = "starting"]
  /\ UNCHANGED <<disk, at, intent, flags, locks, body, result, runs, count>>

\* A permit, the fsynced ToolExecutionStarted, and the body's future is queued ...
Start(c) ==
  /\ IsReady(c) /\ MyTurn(c) /\ ~intent[c].state /\ permits > 0 /\ ~cancelled
  /\ permits' = permits - 1
  /\ RecordStart(c)
  /\ st' = [st EXCEPT ![c] = "starting"]
  /\ UNCHANGED <<finish, completed, orphan, journal, at, intent, flags, locks, body, result, runs, count>>

\* ... which spawns the body when it is polled for the first time.
Spawn(c) ==
  /\ at = "drive" /\ st[c] = "starting"
  /\ st' = [st EXCEPT ![c] = "running"]
  /\ body' = [body EXCEPT ![c] = "live"]
  /\ runs' = [runs EXCEPT ![c] = @ + 1]
  /\ UNCHANGED <<disk, at, intent, flags, locks, permits, result, count>>

BodyEnds(c) ==
  /\ body[c] = "live"
  /\ \E o \in {"success", "error"} : body' = [body EXCEPT ![c] = o]
  /\ UNCHANGED <<disk, at, st, intent, flags, locks, permits, result, runs, count>>

\* A batch of writes whose commit and rollback both failed: "side effect
\* uncertain", and its journal stays.
BodyConflicts(c) ==
  /\ body[c] = "live" /\ intent[c].writes # {}
  /\ body' = [body EXCEPT ![c] = "uncertain"]
  /\ journal' = [journal EXCEPT ![c] = "conflict"]
  /\ UNCHANGED <<events, orphan, at, st, intent, flags, locks, permits, result, runs, count>>

Ended(c) == body[c] \in {"success", "error", "uncertain"}

\* The joined output of a running body: its permit and its lease are dropped,
\* and an uncertain one poisons the runtime and cancels the batch.
Collect(c) ==
  /\ at = "drive" /\ st[c] = "running" /\ Ended(c)
  /\ permits' = permits + 1
  /\ Settle(c, body[c])
  /\ Drop({c})
  /\ IF body[c] = "uncertain" THEN poisoned' = TRUE /\ cancelled' = TRUE
                              ELSE UNCHANGED <<poisoned, cancelled>>
  /\ UNCHANGED <<disk, at, intent, redacted, retiring, body, runs, count>>

\* The batch is cancelled or the deadline is over: one second of grace.
Stop(c) ==
  /\ at = "drive" /\ st[c] = "running" /\ ~Ended(c)
  /\ st' = [st EXCEPT ![c] = IF cancelled THEN "onCancel" ELSE "onTimeout"]
  /\ UNCHANGED <<disk, at, intent, flags, locks, permits, body, result, runs, count>>

\* reap, the body ended within the grace: what it returned is discarded.
ReapEnded(c) ==
  /\ at = "drive" /\ st[c] \in {"onCancel", "onTimeout"} /\ Ended(c)
  /\ permits' = permits + 1
  /\ Settle(c, IF st[c] = "onCancel" THEN "cancelled" ELSE "error")
  /\ Drop({c})
  /\ UNCHANGED <<disk, at, intent, flags, body, runs, count>>

\* reap, a body without side effects is aborted.
ReapAbort(c) ==
  /\ at = "drive" /\ st[c] \in {"onCancel", "onTimeout"} /\ body[c] = "live"
  /\ ~intent[c].effect
  /\ permits' = permits + 1
  /\ body' = [body EXCEPT ![c] = "aborted"]
  /\ Settle(c, "error")
  /\ Drop({c})
  /\ UNCHANGED <<disk, at, intent, flags, runs, count>>

\* Bug: the grace has no end.
ReapWait(c) == FALSE

\* Bug: the lease is not retained with the body.
ReapRelease(c) ==
  /\ at = "drive" /\ st[c] \in {"onCancel", "onTimeout"} /\ body[c] = "live"
  /\ intent[c].effect
  /\ permits' = permits + 1
  /\ poisoned' = TRUE /\ cancelled' = TRUE
  /\ Settle(c, "uncertain")
  /\ Drop({c})
  /\ UNCHANGED <<disk, at, intent, redacted, retiring, body, runs, count>>

\* reap, any other body is retained with its lease, and the runtime is poisoned.
ReapRetain(c) ==
  /\ at = "drive" /\ st[c] \in {"onCancel", "onTimeout"} /\ body[c] = "live"
  /\ intent[c].effect
  /\ permits' = permits + 1
  /\ poisoned' = TRUE /\ cancelled' = TRUE
  /\ Settle(c, "uncertain")
  /\ UNCHANGED <<disk, at, intent, redacted, retiring, locks, body, runs, count>>

DriveDone ==
  /\ at = "drive"
  /\ \A c \in Call : st[c] \in {"pending", "over"}
  /\ at' = "publish"
  /\ UNCHANGED <<disk, st, intent, flags, locks, permits, body, result, runs, count>>

\* The user cancels the turn.
Cancel ==
  /\ at \in {"preflight", "drive"} /\ ~cancelled
  /\ cancelled' = TRUE
  /\ UNCHANGED <<disk, at, st, intent, redacted, retiring, poisoned, locks, permits, body, result, runs, count>>

-----------------------------------------------------------------------------
(* Publication: publish_batch and ToolBatchCompleted. *)

Publishing(c) == at = "publish" /\ First(c, {d \in Call : result[d] # "none"})

\* The artifact row is committed before the event that refers to it.
PersistArtifact(c) ==
  /\ Publishing(c)
  /\ started[c] # "no" /\ orphan[c] = "none"
  /\ orphan' = [orphan EXCEPT ![c] = result[c]]
  /\ UNCHANGED <<events, journal, at, st, intent, flags, locks, permits, body, result, runs, count>>

AppendFinish(c) ==
  /\ Publishing(c)
  /\ finish' = [finish EXCEPT ![c] = result[c]]
  /\ result' = [result EXCEPT ![c] = "none"]
  /\ UNCHANGED <<started, completed, orphan, journal, at, st, intent, flags, locks, permits, body, runs, count>>

CompleteBatch ==
  /\ at = "publish"
  /\ \A c \in Call : result[c] = "none"
  /\ completed' = TRUE
  /\ at' = "returned"
  /\ UNCHANGED <<started, finish, orphan, journal, st, intent, flags, locks, permits, body, result, runs, count>>

\* The journals there may be once the writers among the calls in S were stopped.
Interrupted(S) ==
  {j \in [Call -> {"none", "open", "conflict"}] : \A c \in Call :
     j[c] = journal[c]
       \/ (c \in S /\ body[c] = "live" /\ intent[c].writes # {} /\ j[c] = "open")}

\* ToolRuntime::drop: retained bodies are aborted, each keeps its lease until it stopped.
DropRuntime ==
  /\ at = "returned"
  /\ at' = "dropped"
  /\ UNCHANGED <<disk, st, intent, flags, locks, permits, body, result, runs, count>>

AbortLands(c) ==
  /\ at = "dropped" /\ lease[c] # {}
  /\ body' = [body EXCEPT ![c] = IF @ = "live" THEN "aborted" ELSE @]
  /\ journal' \in Interrupted({c})
  /\ Drop({c})
  /\ UNCHANGED <<events, orphan, at, st, intent, flags, permits, result, runs, count>>

-----------------------------------------------------------------------------
(* Failures. *)

\* An append or an artifact write fails and `?` leaves execute_durable_batch: the
\* futures are dropped with their leases; spawned and retained bodies go on.
Fail ==
  /\ faults < MaxFaults /\ faults' = faults + 1
  /\ \/ ~cancelled /\ \E c \in Call : IsReady(c) /\ MyTurn(c) /\ (intent[c].state \/ permits > 0)
     \/ at = "publish"
  /\ at' = "failed"
  /\ Drop({c \in Call : st[c] # "over"})
  /\ UNCHANGED <<disk, st, intent, flags, permits, body, result, runs, kills>>

\* The process is gone; a new one opens the session and recovers.
Restart ==
  /\ at' = "recover"
  /\ st' = Each("pending") /\ intent' = Each(NoIntent)
  /\ redacted' = {} /\ retiring' = {} /\ cancelled' = FALSE /\ poisoned' = FALSE
  /\ lease' = Each({})
  /\ readers' = [p \in Path |-> 0] /\ writer' = [p \in Path |-> FALSE]
  /\ permits' \in Permits
  /\ body' = Each("none") /\ result' = Each("none")
  /\ journal' \in Interrupted(Call)
  /\ UNCHANGED <<events, orphan, runs>>

Exit == at = "failed" /\ Restart /\ UNCHANGED count

Kill ==
  /\ kills < MaxKills /\ kills' = kills + 1
  /\ at \in {"recover", "preflight", "drive", "publish", "returned"}
  /\ Restart
  /\ UNCHANGED faults

-----------------------------------------------------------------------------
(* run_recovery and the resumption of the batch. *)

\* An uncertain call whose journal is still there: the session is read-only.
Refused == \E c \in Call : finish[c] = "uncertain" /\ journal[c] # "none"

Recovering == at = "recover" /\ retiring = {} /\ ~Refused

\* Started calls without a result, and calls the log knows nothing of.
Lost == {c \in Call : started[c] # "no" /\ finish[c] = "none"}
Absent == {c \in Call : started[c] = "no" /\ finish[c] = "none"}

\* The finish of a lost or absent call is appended.
Finish(c, r) ==
  /\ finish' = [finish EXCEPT ![c] = r]
  /\ UNCHANGED <<started, completed, orphan, st, intent, redacted, cancelled, poisoned, locks,
                 permits, body, result, runs, count>>

RefuseSession ==
  /\ at = "recover" /\ retiring = {} /\ Refused
  /\ at' = "readonly"
  /\ UNCHANGED <<disk, st, intent, flags, locks, permits, body, result, runs, count>>

\* reconstruct_orphan: the artifact row proves the result.
RecoverFromArtifact(c) ==
  /\ Recovering /\ First(c, Lost) /\ orphan[c] # "none"
  /\ Finish(c, orphan[c])
  /\ retiring' = {c}
  /\ UNCHANGED <<at, journal>>

\* Bug: a lost call is taken for one that was never started.
RecoverAsAbsent(c) ==
  /\ Recovering /\ First(c, Lost) /\ orphan[c] = "none" /\ journal[c] # "conflict"
  /\ started' = [started EXCEPT ![c] = "no"]
  /\ retiring' = {c}
  /\ UNCHANGED <<finish, completed, orphan, journal, at, st, intent, redacted, cancelled, poisoned, locks, permits, body, result, runs, count>>

\* The journal, if any, is rolled back; the effects are unknown.
RecoverUncertain(c) ==
  /\ Recovering /\ First(c, Lost) /\ orphan[c] = "none" /\ journal[c] # "conflict"
  /\ Finish(c, "uncertain")
  /\ retiring' = {c}
  /\ UNCHANGED <<at, journal>>

\* The finish is in the log: the journal is removed.
Retire ==
  /\ at = "recover" /\ retiring # {}
  /\ journal' = [c \in Call |-> IF c \in retiring THEN "none" ELSE journal[c]]
  /\ retiring' = {}
  /\ UNCHANGED <<events, orphan, at, st, intent, redacted, cancelled, poisoned, locks, permits,
                 body, result, runs, count>>

\* HISTORY_ROLLBACK_CONFLICT: the same finish, and the session is read-only.
RecoverConflict(c) ==
  /\ Recovering /\ First(c, Lost) /\ orphan[c] = "none" /\ journal[c] # "none"
  /\ Finish(c, "uncertain")
  /\ journal' = [journal EXCEPT ![c] = "conflict"]
  /\ at' = "readonly" /\ UNCHANGED retiring

\* has_uncertain_side_effect.
UncertainMutation == \E c \in Call : started[c] = "mutating" /\ finish[c] = "uncertain"

SkipPeer(c) ==
  /\ Recovering /\ Lost = {} /\ UncertainMutation /\ First(c, Absent)
  /\ Finish(c, "skipped")
  /\ UNCHANGED <<at, journal, retiring>>

RecoverCompletion ==
  /\ Recovering /\ Lost = {} /\ Absent = {} /\ ~completed
  /\ completed' = TRUE
  /\ UNCHANGED <<started, finish, orphan, journal, at, st, intent, flags, locks, permits, body, result, runs, count>>

\* Bug: the peers of a lost mutation are executed.
ResumeAnyway ==
  /\ Recovering /\ Lost = {} /\ Absent # {}
  /\ redacted' \in SUBSET Absent
  /\ at' = "preflight"
  /\ UNCHANGED <<disk, st, intent, retiring, cancelled, poisoned, locks, permits, body, result, runs, count>>

\* continue_turn takes the batch up; calls with redacted arguments are not replayed.
Resume ==
  /\ Recovering /\ Lost = {} /\ Absent # {} /\ ~UncertainMutation
  /\ redacted' \in SUBSET Absent
  /\ at' = "preflight"
  /\ UNCHANGED <<disk, st, intent, retiring, cancelled, poisoned, locks, permits, body, result, runs, count>>

\* The batch is complete: the turn goes on.
Recovered ==
  /\ Recovering /\ completed
  /\ at' = "returned"
  /\ UNCHANGED <<disk, st, intent, flags, locks, permits, body, result, runs, count>>

-----------------------------------------------------------------------------

Admission(c) == BlockCancelled(c) \/ BlockByHook(c) \/ BlockBusy(c) \/ Ready(c)

Drive(c) ==
  \/ NotStarted(c) \/ StartTicket(c) \/ RunTicket(c) \/ Start(c) \/ Spawn(c)
  \/ Collect(c) \/ Stop(c) \/ ReapEnded(c) \/ ReapAbort(c) \/ ReapRetain(c)

Publish(c) == PersistArtifact(c) \/ AppendFinish(c)

Recover(c) ==
  RecoverFromArtifact(c) \/ RecoverUncertain(c) \/ RecoverConflict(c) \/ SkipPeer(c)

\* What goes on without the user, the bodies or a failure.
Progress ==
  \/ \E c \in Call : Admission(c) \/ Drive(c) \/ Publish(c) \/ Recover(c) \/ AbortLands(c)
  \/ PreflightDone \/ DriveDone \/ CompleteBatch \/ DropRuntime
  \/ RefuseSession \/ Retire \/ RecoverCompletion \/ Resume \/ Recovered \/ Exit

Next ==
  \/ Progress
  \/ \E c \in Call : BodyEnds(c) \/ BodyConflicts(c)
  \/ Cancel \/ Fail \/ Kill

Spec == Init /\ [][Next]_vars

\* The driver is polled and its timers fire; a body need not end.
FairSpec == Spec /\ WF_vars(Progress)

-----------------------------------------------------------------------------
(* Properties. *)

Status == {"none", "success", "error", "blocked", "cancelled", "skipped", "uncertain"}

\* Every variable stays in its domain; no count of readers or
\* of permits goes below zero.
TypeOK ==
  /\ started \in [Call -> {"no", "readonly", "mutating"}]
  /\ finish \in [Call -> Status] /\ result \in [Call -> Status]
  /\ orphan \in [Call -> Status] /\ completed \in BOOLEAN
  /\ journal \in [Call -> {"none", "open", "conflict"}]
  /\ at \in {"preflight", "drive", "publish", "returned", "dropped",
              "failed", "recover", "readonly"}
  /\ st \in [Call -> {"pending", "over", "ready", "ticket", "starting", "running",
                       "onCancel", "onTimeout"}]
  /\ intent \in [Call -> Intent \cup {NoIntent}]
  /\ redacted \subseteq Call /\ retiring \subseteq Call /\ cancelled \in BOOLEAN /\ poisoned \in BOOLEAN
  /\ lease \in [Call -> SUBSET Path]
  /\ readers \in [Path -> Nat] /\ writer \in [Path -> BOOLEAN]
  /\ permits \in Nat
  /\ body \in [Call -> {"none", "live", "aborted", "success", "error", "uncertain"}]
  /\ runs \in [Call -> Nat]
  /\ kills \in 0..MaxKills /\ faults \in 0..MaxFaults

\* The lock table says exactly what the leases hold: no acquire or release, in
\* any order, leaves a path locked that no lease holds, or frees one that is held.
LockTableIsLeases ==
  \A p \in Path :
    LET holders == {c \in Call : p \in lease[c]}
        writers == {c \in holders : p \in intent[c].writes}
    IN /\ writer[p] <=> writers # {}
       /\ writers # {} => Cardinality(holders) = 1
       /\ readers[p] = Cardinality(holders \ writers)

\* Two bodies that are running never touch the same path if one of them writes
\* it, even when a failed append has dropped the lease of a running body.
NoConflictingBodies ==
  \A c, d \in Call :
    c # d /\ body[c] = "live" /\ body[d] = "live"
      => intent[c].writes \cap Keys(intent[d]) = {}

\* No crash, recovery and resumption makes a tool body run a second time.
RunsAtMostOnce == \A c \in Call : runs[c] <= 1

\* When execute_durable_batch returns, a body that may still be running has side
\* effects, is reported uncertain and keeps its paths, and the runtime is poisoned.
StuckBodyIsReported ==
  at = "returned" => \A c \in Call : body[c] = "live" =>
    /\ intent[c].effect
    /\ finish[c] = "uncertain"
    /\ lease[c] = Keys(intent[c])
    /\ poisoned

\* Every event the driver or recovery appends is one EventReplayer admits: a start
\* only for a call the log knows nothing of, one finish per call, and the
\* completion once, after every finish.
ReplayAccepts == [][
  /\ \A c \in Call : started'[c] # started[c] => started[c] = "no" /\ finish[c] = "none"
  /\ \A c \in Call : finish'[c] # finish[c] => finish[c] = "none" /\ ~completed
  /\ completed' # completed => \A c \in Call : finish[c] # "none"]_vars

\* No call is started once the runtime is poisoned, nor in a batch in which the
\* effects of a mutation are unknown, whichever process takes the batch up.
NothingStartsAfterUncertainty == [][
  \A c \in Call : started'[c] # started[c] => ~poisoned /\ ~UncertainMutation]_vars

\* Bodies may hang and the process may die: the batch still returns, or the
\* session is read-only.
BatchEnds == <>(at \in {"returned", "readonly"})

\* recovery.rs:208-210: an unresolved journal "must not become a writable session
\* merely because the process has restarted".
UnresolvedIsReadOnly == [][
  at = "recover" /\ at' \notin {"recover", "readonly"}
    => \A c \in Call : journal[c] # "conflict"]_vars

\* files.rs:830-832: the before-images of a rollback conflict are not destroyed,
\* "Recovery must retain the journal for inspection".
ConflictIsRetained == [][
  \A c \in Call : journal[c] = "conflict" => journal'[c] = "conflict"]_vars
=============================================================================
