-------------------------- MODULE ToolBatchProofs --------------------------
(***************************************************************************)
(* For any calls, intents, paths and permits: the lock table is the leases,*)
(* conflicting bodies never run together, no body runs twice, the events   *)
(* follow the protocol, and a stuck body is always reported.               *)
(***************************************************************************)
EXTENDS ToolBatch, FiniteSetTheorems, TLAPS

Polled == {"running", "onCancel", "onTimeout"}
Holding == {"starting"} \cup Polled

\* The types of all but the counters, whose bounds need the sets they count.
Types ==
  /\ started \in [Call -> {"no", "readonly", "mutating"}]
  /\ finish \in [Call -> Status] /\ result \in [Call -> Status]
  /\ orphan \in [Call -> Status] /\ completed \in BOOLEAN
  /\ journal \in [Call -> {"none", "open", "conflict"}]
  /\ at \in {"preflight", "drive", "publish", "returned", "dropped",
              "failed", "recover", "readonly"}
  /\ st \in [Call -> {"pending", "over", "ready", "ticket", "starting", "running",
                       "onCancel", "onTimeout"}]
  /\ intent \in [Call -> Intent \cup {NoIntent}]
  /\ redacted \subseteq Call /\ retiring \subseteq Call /\ cancelled \in BOOLEAN /\ poisoned \in BOOLEAN
  /\ lease \in [Call -> SUBSET Path]
  /\ body \in [Call -> {"none", "live", "aborted", "success", "error", "uncertain"}]
  /\ runs \in [Call -> Nat]
  /\ kills \in 0..MaxKills /\ faults \in 0..MaxFaults

\* What the driver's place with a call says of its events, its body and its lease.
CallInv(c) ==
  /\ st[c] = "ready" => started[c] = "no" /\ finish[c] = "none"
  /\ st[c] \in {"ticket", "starting"} =>
       started[c] # "no" /\ finish[c] = "none" /\ runs[c] = 0
  /\ st[c] \in Polled => finish[c] = "none"
  /\ st[c] \in {"pending", "ready", "ticket", "starting"} => body[c] = "none"
  /\ st[c] = "pending" => lease[c] = {} /\ intent[c] = NoIntent
  /\ result[c] # "none" => st[c] = "over" /\ finish[c] = "none"
  /\ st[c] = "over" /\ result[c] = "none" => finish[c] # "none"
  /\ runs[c] <= 1 /\ (runs[c] = 1 => started[c] # "no")
  /\ lease[c] \subseteq Keys(intent[c])

\* What the process' place says of the batch.
PhaseInv ==
  /\ completed => \A c \in Call : finish[c] # "none"
  /\ at \in {"preflight", "drive", "publish"} => ~completed
  /\ at = "preflight" => \A c \in Call :
       /\ st[c] \in {"pending", "ready", "over"}
       /\ started[c] # "no" => finish[c] # "none"
       /\ lease[c] = Keys(intent[c])
       /\ body[c] = "none"
  /\ at \in {"drive", "publish"} => \A c \in Call : st[c] = "pending" => finish[c] # "none"
  /\ at \in {"publish", "returned"} => \A c \in Call : st[c] \in {"pending", "over"}
  /\ at \in {"preflight", "drive"} => ~UncertainMutation
  /\ at \in {"recover", "readonly"} => \A c \in Call : st[c] = "pending"
  /\ at = "returned" => \A c \in Call : result[c] = "none"
  /\ poisoned => cancelled

\* A body that may still be running is polled, or retained and reported.
BodyInv == at \in {"drive", "publish", "returned"} => \A c \in Call :
  /\ st[c] \in {"ready", "ticket", "starting"} \cup Polled => lease[c] = Keys(intent[c])
  /\ body[c] = "live" /\ st[c] = "over" =>
       /\ intent[c].effect /\ poisoned /\ lease[c] = Keys(intent[c])
       /\ result[c] = "uncertain" \/ (result[c] = "none" /\ finish[c] = "uncertain")

\* Intents that were admitted together do not conflict.
Compatible == \A c, d \in Call :
  c # d => intent[c].writes \cap Keys(intent[d]) = {}

HolderOf(p) == {c \in Call : p \in lease[c]}
WriterOf(p) == {c \in HolderOf(p) : p \in intent[c].writes}

\* LockTableIsLeases, with the counts typed.
Table ==
  /\ readers \in [Path -> Nat] /\ writer \in [Path -> BOOLEAN]
  /\ \A p \in Path :
       /\ writer[p] <=> WriterOf(p) # {}
       /\ readers[p] = Cardinality(HolderOf(p) \ WriterOf(p))

\* Every permit of the semaphore is free or held by one call.
PermitInv ==
  /\ permits \in Nat
  /\ permits + Cardinality({c \in Call : st[c] \in Holding}) \in Permits

Control == Types /\ (\A c \in Call : CallInv(c)) /\ PhaseInv /\ BodyInv

IInv == Control /\ Compatible /\ Table /\ PermitInv

-----------------------------------------------------------------------------

LEMMA CallFinite == IsFiniteSet(Call) /\ \A S \in SUBSET Call : IsFiniteSet(S) /\ Cardinality(S) \in Nat
<1>1. IsFiniteSet(Call) BY ToolBatchAssumption, FS_Interval DEF Call
<1>2. \A S \in SUBSET Call : IsFiniteSet(S) BY <1>1, FS_Subset
<1> QED BY <1>1, <1>2, FS_CardinalityType

LEMMA IntentTyped ==
  /\ NoIntent \in IntentType
  /\ \A i \in Intent \cup {NoIntent} : i \in IntentType /\ Keys(i) \subseteq Path
<1>1. NoIntent \in IntentType
  BY DEF IntentType, NoIntent
<1>2. \A i \in Intent \cup {NoIntent} : i \in IntentType
  BY <1>1, ToolBatchAssumption
<1>3. \A i \in IntentType : i.reads \subseteq Path /\ i.writes \subseteq Path
  BY DEF IntentType
<1> QED BY <1>1, <1>2, <1>3 DEF Keys

LEMMA NoIntentKeys == Keys(NoIntent) = {} /\ NoIntent.writes = {}
BY DEF Keys, NoIntent

LEMMA InitTypes == Init => Types
<1> SUFFICES ASSUME Init PROVE Types
  OBVIOUS
<1>1. /\ started \in [Call -> {"no", "readonly", "mutating"}]
      /\ finish \in [Call -> Status] /\ result \in [Call -> Status]
      /\ orphan \in [Call -> Status] /\ completed \in BOOLEAN
  BY DEF Init, Each, Status
<1>2. /\ journal \in [Call -> {"none", "open", "conflict"}]
      /\ at \in {"preflight", "drive", "publish", "returned", "dropped",
                  "failed", "recover", "readonly"}
      /\ st \in [Call -> {"pending", "over", "ready", "ticket", "starting", "running",
                           "onCancel", "onTimeout"}]
  BY DEF Init, Each
<1>3. intent \in [Call -> Intent \cup {NoIntent}]
  BY DEF Init, Each
<1>4. /\ redacted \subseteq Call /\ retiring \subseteq Call /\ cancelled \in BOOLEAN /\ poisoned \in BOOLEAN
      /\ lease \in [Call -> SUBSET Path]
  BY DEF Init, Each
<1>5. body \in [Call -> {"none", "live", "aborted", "success", "error", "uncertain"}]
  BY DEF Init, Each
<1>6. runs \in [Call -> Nat]
  BY DEF Init, Each
<1>7. kills \in 0..MaxKills /\ faults \in 0..MaxFaults
  BY ToolBatchAssumption DEF Init
<1> QED BY <1>1, <1>2, <1>3, <1>4, <1>5, <1>6, <1>7 DEF Types

LEMMA InitControl == Init => Control
<1> SUFFICES ASSUME Init PROVE Control
  OBVIOUS
<1>1. Types BY InitTypes
<1>2. \A c \in Call : CallInv(c)
  BY DEF Init, Each, CallInv, Polled
<1>3. PhaseInv
  BY NoIntentKeys DEF Init, Each, PhaseInv, UncertainMutation
<1>4. BodyInv
  BY DEF Init, Each, BodyInv
<1> QED BY <1>1, <1>2, <1>3, <1>4 DEF Control

\* Admission: the calls in order, nothing is started and nothing runs.
LEMMA AdmissionControl ==
  ASSUME Control, NEW c \in Call, Admission(c) PROVE Control'
<1> USE ToolBatchAssumption, IntentTyped DEF Control, Preflight, First
<1>1. CASE BlockCancelled(c)
  BY <1>1 DEF BlockCancelled, Settle, Types, CallInv, PhaseInv, BodyInv, Status, Polled,
     UncertainMutation, flags, locks, disk, events, count
<1>2. CASE BlockByHook(c)
  BY <1>2 DEF BlockByHook, Settle, Types, CallInv, PhaseInv, BodyInv, Status, Polled,
     UncertainMutation, flags, locks, disk, events, count
<1>3. CASE BlockBusy(c)
  BY <1>3 DEF BlockBusy, Settle, Types, CallInv, PhaseInv, BodyInv, Status, Polled,
     UncertainMutation, flags, locks, disk, events, count
<1>4. CASE Ready(c)
  BY <1>4 DEF Ready, Acquire, Types, CallInv, PhaseInv, BodyInv, Status, Polled,
     UncertainMutation, flags, locks, disk, events, count
<1> QED BY <1>1, <1>2, <1>3, <1>4 DEF Admission

\* Driving: one lemma per step, each changes one call.
LEMMA StartControl ==
  ASSUME Control, NEW c \in Call,
         NotStarted(c) \/ StartTicket(c) \/ RunTicket(c) \/ Start(c) \/ Spawn(c)
  PROVE  Control'
<1> USE ToolBatchAssumption, IntentTyped DEF Control, IsReady
<1>1. CASE NotStarted(c)
  BY <1>1 DEF NotStarted, Settle, Drop, Types, CallInv, PhaseInv, BodyInv, Status, Polled,
     UncertainMutation, flags, disk, events, count
<1>2. CASE StartTicket(c)
  BY <1>2 DEF StartTicket, RecordStart, Types, CallInv, PhaseInv, BodyInv, Status, Polled,
     UncertainMutation, flags, locks, count
<1>3. CASE RunTicket(c)
  BY <1>3 DEF RunTicket, Settle, Drop, Types, CallInv, PhaseInv, BodyInv, Status, Polled,
     UncertainMutation, flags, disk, events, count
<1>4. CASE Start(c)
  <2>1. Types'
    BY <1>4 DEF Start, Types, RecordStart, Status, Polled, UncertainMutation,
       flags, locks, count
  <2>2. \A d \in Call : CallInv(d)'
    <3>1. CallInv(c)'
      <4>1. CallInv(c) /\ st[c] = "ready" /\ st'[c] = "starting" /\ started'[c] # "no"
        BY <1>4 DEF Start, Types, RecordStart
      <4>2. runs[c] = 0
        BY <4>1 DEF CallInv, Types
      <4>3. UNCHANGED <<finish, runs, body, lease, intent, result>>
        BY <1>4 DEF Start, locks
      <4> QED BY <4>1, <4>2, <4>3 DEF CallInv, Polled
    <3>2. ASSUME NEW d \in Call, d # c PROVE CallInv(d)'
      BY <1>4, <3>2 DEF Start, Types, CallInv, RecordStart, Polled, flags, locks, count
    <3> QED BY <3>1, <3>2
  <2>3. PhaseInv'
    BY <1>4 DEF Start, Types, CallInv, PhaseInv, RecordStart, Status, Polled, UncertainMutation,
       flags, locks, count
  <2>4. BodyInv'
    BY <1>4 DEF Start, Types, CallInv, BodyInv, RecordStart, Status, Polled, UncertainMutation,
       flags, locks, count
  <2> QED BY <2>1, <2>2, <2>3, <2>4
<1>5. CASE Spawn(c)
  BY <1>5 DEF Spawn, Types, CallInv, PhaseInv, BodyInv, Status, Polled,
     UncertainMutation, flags, locks, disk, events, count
<1> QED BY <1>1, <1>2, <1>3, <1>4, <1>5

LEMMA JoinControl ==
  ASSUME Control, NEW c \in Call,
         Collect(c) \/ Stop(c) \/ ReapEnded(c) \/ ReapAbort(c) \/ ReapRetain(c)
  PROVE  Control'
<1> USE ToolBatchAssumption, IntentTyped DEF Control, Ended
<1>1. CASE Collect(c)
  <2>1. Types'
    BY <1>1 DEF Collect, Types, Settle, Drop, Status, Polled, UncertainMutation,
       disk, events, count
  <2>2. \A d \in Call : CallInv(d)'
    BY <1>1 DEF Collect, Types, CallInv, Settle, Drop, Status, Polled, UncertainMutation,
       disk, events, count
  <2>3. PhaseInv'
    BY <1>1 DEF Collect, Types, CallInv, PhaseInv, Settle, Drop, Status, Polled, UncertainMutation,
       disk, events, count
  <2>4. BodyInv'
    BY <1>1 DEF Collect, Types, CallInv, BodyInv, Settle, Drop, Status, Polled, UncertainMutation,
       disk, events, count
  <2> QED BY <2>1, <2>2, <2>3, <2>4
<1>2. CASE Stop(c)
  BY <1>2 DEF Stop, Types, CallInv, PhaseInv, BodyInv, Status, Polled,
     UncertainMutation, flags, locks, disk, events, count
<1>3. CASE ReapEnded(c)
  BY <1>3 DEF ReapEnded, Settle, Drop, Types, CallInv, PhaseInv, BodyInv, Status, Polled,
     UncertainMutation, flags, disk, events, count
<1>4. CASE ReapAbort(c)
  BY <1>4 DEF ReapAbort, Settle, Drop, Types, CallInv, PhaseInv, BodyInv, Status, Polled,
     UncertainMutation, flags, disk, events, count
<1>5. CASE ReapRetain(c)
  BY <1>5 DEF ReapRetain, Settle, Types, CallInv, PhaseInv, BodyInv, Status, Polled,
     UncertainMutation, locks, disk, events, count
<1> QED BY <1>1, <1>2, <1>3, <1>4, <1>5

LEMMA DriveControl ==
  ASSUME Control, NEW c \in Call, Drive(c) PROVE Control'
BY StartControl, JoinControl DEF Drive

\* Bodies end and the driver moves on.
LEMMA BodyControl ==
  ASSUME Control, NEW c \in Call, BodyEnds(c) \/ BodyConflicts(c) PROVE Control'
<1> USE ToolBatchAssumption, IntentTyped DEF Control
<1>1. CASE BodyEnds(c)
  <2>1. Types'
    BY <1>1 DEF BodyEnds, Types, Status, Polled, UncertainMutation,
       flags, locks, disk, events, count
  <2>2. \A d \in Call : CallInv(d)'
    BY <1>1 DEF BodyEnds, Types, CallInv, Status, Polled, UncertainMutation,
       flags, locks, disk, events, count
  <2>3. PhaseInv'
    BY <1>1 DEF BodyEnds, Types, CallInv, PhaseInv, Status, Polled, UncertainMutation,
       flags, locks, disk, events, count
  <2>4. BodyInv'
    BY <1>1 DEF BodyEnds, Types, CallInv, PhaseInv, BodyInv, Status, Polled, UncertainMutation,
       flags, locks, disk, events, count
  <2> QED BY <2>1, <2>2, <2>3, <2>4
<1>2. CASE BodyConflicts(c)
  <2>1. Types'
    BY <1>2 DEF BodyConflicts, Types, Status, Polled, UncertainMutation,
       flags, locks, disk, events, count
  <2>2. \A d \in Call : CallInv(d)'
    BY <1>2 DEF BodyConflicts, Types, CallInv, Status, Polled, UncertainMutation,
       flags, locks, disk, events, count
  <2>3. PhaseInv'
    BY <1>2 DEF BodyConflicts, Types, CallInv, PhaseInv, Status, Polled, UncertainMutation,
       flags, locks, disk, events, count
  <2>4. BodyInv'
    BY <1>2 DEF BodyConflicts, Types, CallInv, PhaseInv, BodyInv, Status, Polled, UncertainMutation,
       flags, locks, disk, events, count
  <2> QED BY <2>1, <2>2, <2>3, <2>4
<1> QED BY <1>1, <1>2

LEMMA PublishControl ==
  ASSUME Control, NEW c \in Call, Publish(c) PROVE Control'
<1> USE ToolBatchAssumption, IntentTyped DEF Control, Publishing, First
<1>1. CASE PersistArtifact(c)
  <2>1. Types'
    BY <1>1 DEF PersistArtifact, Types, Status, Polled, UncertainMutation,
       flags, locks, disk, events, count
  <2>2. \A d \in Call : CallInv(d)'
    BY <1>1 DEF PersistArtifact, Types, CallInv, Status, Polled, UncertainMutation,
       flags, locks, disk, events, count
  <2>3. PhaseInv'
    BY <1>1 DEF PersistArtifact, Types, CallInv, PhaseInv, Status, Polled, UncertainMutation,
       flags, locks, disk, events, count
  <2>4. BodyInv'
    BY <1>1 DEF PersistArtifact, Types, CallInv, PhaseInv, BodyInv, Status, Polled, UncertainMutation,
       flags, locks, disk, events, count
  <2> QED BY <2>1, <2>2, <2>3, <2>4
<1>2. CASE AppendFinish(c)
  <2>1. Types'
    BY <1>2 DEF AppendFinish, Types, Status, Polled, UncertainMutation,
       flags, locks, disk, events, count
  <2>2. \A d \in Call : CallInv(d)'
    BY <1>2 DEF AppendFinish, Types, CallInv, Status, Polled, UncertainMutation,
       flags, locks, disk, events, count
  <2>3. PhaseInv'
    BY <1>2 DEF AppendFinish, Types, CallInv, PhaseInv, Status, Polled, UncertainMutation,
       flags, locks, disk, events, count
  <2>4. BodyInv'
    BY <1>2 DEF AppendFinish, Types, CallInv, PhaseInv, BodyInv, Status, Polled, UncertainMutation,
       flags, locks, disk, events, count
  <2> QED BY <2>1, <2>2, <2>3, <2>4
<1> QED BY <1>1, <1>2 DEF Publish

LEMMA PhaseControl ==
  ASSUME Control, PreflightDone \/ DriveDone \/ CompleteBatch \/ DropRuntime \/ Cancel
  PROVE  Control'
<1> USE ToolBatchAssumption, IntentTyped DEF Control
<1>1. CASE PreflightDone
  <2>1. Types'
    BY <1>1 DEF PreflightDone, Types, Status, Polled, UncertainMutation,
       flags, locks, disk, events, count
  <2>2. \A d \in Call : CallInv(d)'
    BY <1>1 DEF PreflightDone, Types, CallInv, Status, Polled, UncertainMutation,
       flags, locks, disk, events, count
  <2>3. PhaseInv'
    BY <1>1 DEF PreflightDone, Types, CallInv, PhaseInv, Status, Polled, UncertainMutation,
       flags, locks, disk, events, count
  <2>4. BodyInv'
    BY <1>1 DEF PreflightDone, Types, CallInv, PhaseInv, BodyInv, Status, Polled, UncertainMutation,
       flags, locks, disk, events, count
  <2> QED BY <2>1, <2>2, <2>3, <2>4
<1>2. CASE DriveDone
  <2>1. Types'
    BY <1>2 DEF DriveDone, Types, Status, Polled, UncertainMutation,
       flags, locks, disk, events, count
  <2>2. \A d \in Call : CallInv(d)'
    BY <1>2 DEF DriveDone, Types, CallInv, Status, Polled, UncertainMutation,
       flags, locks, disk, events, count
  <2>3. PhaseInv'
    BY <1>2 DEF DriveDone, Types, CallInv, PhaseInv, Status, Polled, UncertainMutation,
       flags, locks, disk, events, count
  <2>4. BodyInv'
    BY <1>2 DEF DriveDone, Types, CallInv, PhaseInv, BodyInv, Status, Polled, UncertainMutation,
       flags, locks, disk, events, count
  <2> QED BY <2>1, <2>2, <2>3, <2>4
<1>3. CASE CompleteBatch
  <2>1. Types'
    BY <1>3 DEF CompleteBatch, Types, Status, Polled, UncertainMutation,
       flags, locks, disk, events, count
  <2>2. \A d \in Call : CallInv(d)'
    BY <1>3 DEF CompleteBatch, Types, CallInv, Status, Polled, UncertainMutation,
       flags, locks, disk, events, count
  <2>3. PhaseInv'
    BY <1>3 DEF CompleteBatch, Types, CallInv, PhaseInv, Status, Polled, UncertainMutation,
       flags, locks, disk, events, count
  <2>4. BodyInv'
    BY <1>3 DEF CompleteBatch, Types, CallInv, PhaseInv, BodyInv, Status, Polled, UncertainMutation,
       flags, locks, disk, events, count
  <2> QED BY <2>1, <2>2, <2>3, <2>4
<1>4. CASE DropRuntime
  <2>1. Types'
    BY <1>4 DEF DropRuntime, Types, Status, Polled, UncertainMutation,
       flags, locks, disk, events, count
  <2>2. \A d \in Call : CallInv(d)'
    BY <1>4 DEF DropRuntime, Types, CallInv, Status, Polled, UncertainMutation,
       flags, locks, disk, events, count
  <2>3. PhaseInv'
    BY <1>4 DEF DropRuntime, Types, CallInv, PhaseInv, Status, Polled, UncertainMutation,
       flags, locks, disk, events, count
  <2>4. BodyInv'
    BY <1>4 DEF DropRuntime, Types, CallInv, PhaseInv, BodyInv, Status, Polled, UncertainMutation,
       flags, locks, disk, events, count
  <2> QED BY <2>1, <2>2, <2>3, <2>4
<1>5. CASE Cancel
  <2>1. Types'
    BY <1>5 DEF Cancel, Types, Status, Polled, UncertainMutation,
       flags, locks, disk, events, count
  <2>2. \A d \in Call : CallInv(d)'
    BY <1>5 DEF Cancel, Types, CallInv, Status, Polled, UncertainMutation,
       flags, locks, disk, events, count
  <2>3. PhaseInv'
    BY <1>5 DEF Cancel, Types, CallInv, PhaseInv, Status, Polled, UncertainMutation,
       flags, locks, disk, events, count
  <2>4. BodyInv'
    BY <1>5 DEF Cancel, Types, CallInv, PhaseInv, BodyInv, Status, Polled, UncertainMutation,
       flags, locks, disk, events, count
  <2> QED BY <2>1, <2>2, <2>3, <2>4
<1> QED BY <1>1, <1>2, <1>3, <1>4, <1>5

LEMMA InterruptedTyped ==
  \A S \in SUBSET Call : Interrupted(S) \subseteq [Call -> {"none", "open", "conflict"}]
BY DEF Interrupted

\* Failures: a dropped runtime, a failed append, a dead process.
LEMMA FailureControl ==
  ASSUME Control, Fail \/ Kill \/ Exit \/ (\E c \in Call : AbortLands(c)) PROVE Control'
<1> USE ToolBatchAssumption, IntentTyped, InterruptedTyped DEF Control
<1>1. CASE Fail
  <2>1. Types'
    BY <1>1 DEF Fail, Types, Status, Polled, UncertainMutation,
       flags, locks, disk, events, count, Drop
  <2>2. \A d \in Call : CallInv(d)'
    BY <1>1 DEF Fail, Types, CallInv, Status, Polled, UncertainMutation,
       flags, locks, disk, events, count, Drop
  <2>3. PhaseInv'
    BY <1>1 DEF Fail, Types, CallInv, PhaseInv, Status, Polled, UncertainMutation,
       flags, locks, disk, events, count, Drop
  <2>4. BodyInv'
    BY <1>1 DEF Fail, Types, CallInv, PhaseInv, BodyInv, Status, Polled, UncertainMutation,
       flags, locks, disk, events, count, Drop
  <2> QED BY <2>1, <2>2, <2>3, <2>4
<1>2. CASE Restart /\ (kills' \in 0..MaxKills /\ UNCHANGED faults)
  <2>1. Types'
    BY <1>2, NoIntentKeys DEF Restart, Each, Types, Status, Polled, UncertainMutation, events
  <2>2. \A d \in Call : CallInv(d)'
    BY <1>2, NoIntentKeys DEF Restart, Each, Types, CallInv, Status, Polled, UncertainMutation, events
  <2>3. PhaseInv'
    BY <1>2, NoIntentKeys DEF Restart, Each, Types, CallInv, PhaseInv, Status, Polled, UncertainMutation, events
  <2>4. BodyInv'
    BY <1>2, NoIntentKeys DEF Restart, Each, Types, BodyInv, Status, Polled, UncertainMutation, events
  <2> QED BY <2>1, <2>2, <2>3, <2>4
<1>3. Kill \/ Exit => Restart /\ (kills' \in 0..MaxKills /\ UNCHANGED faults)
  BY DEF Kill, Exit, count, Types
<1>4. ASSUME NEW c \in Call, AbortLands(c) PROVE Control'
  <2>1. Types'
    BY <1>4 DEF AbortLands, Drop, Types, Status, Polled, UncertainMutation,
       flags, locks, disk, events, count
  <2>2. \A d \in Call : CallInv(d)'
    BY <1>4 DEF AbortLands, Drop, Types, CallInv, Status, Polled, UncertainMutation,
       flags, locks, disk, events, count
  <2>3. PhaseInv'
    BY <1>4 DEF AbortLands, Drop, Types, CallInv, PhaseInv, Status, Polled, UncertainMutation,
       flags, locks, disk, events, count
  <2>4. BodyInv'
    BY <1>4 DEF AbortLands, Drop, Types, BodyInv, Status, Polled, UncertainMutation,
       flags, locks, disk, events, count
  <2> QED BY <2>1, <2>2, <2>3, <2>4
<1> QED BY <1>1, <1>2, <1>3, <1>4

\* Recovery and resumption.
LEMMA RecoverControl ==
  ASSUME Control, NEW c \in Call, Recover(c) PROVE Control'
<1> USE ToolBatchAssumption, IntentTyped DEF Control, Recovering, Finish, First, Lost, Absent
<1>1. CASE RecoverFromArtifact(c)
  <2>1. Types'
    BY <1>1 DEF RecoverFromArtifact, Types, Status, Polled, UncertainMutation,
       flags, locks, disk, events, count
  <2>2. \A d \in Call : CallInv(d)'
    BY <1>1 DEF RecoverFromArtifact, Types, CallInv, PhaseInv, Status, Polled, UncertainMutation,
       flags, locks, disk, events, count
  <2>3. PhaseInv'
    BY <1>1 DEF RecoverFromArtifact, Types, CallInv, PhaseInv, Status, Polled, UncertainMutation,
       flags, locks, disk, events, count
  <2>4. BodyInv'
    BY <1>1 DEF RecoverFromArtifact, Types, CallInv, PhaseInv, BodyInv, Status, Polled, UncertainMutation,
       flags, locks, disk, events, count
  <2> QED BY <2>1, <2>2, <2>3, <2>4
<1>2. CASE RecoverUncertain(c)
  <2>1. Types'
    BY <1>2 DEF RecoverUncertain, Types, Status, Polled, UncertainMutation,
       flags, locks, disk, events, count
  <2>2. \A d \in Call : CallInv(d)'
    BY <1>2 DEF RecoverUncertain, Types, CallInv, PhaseInv, Status, Polled, UncertainMutation,
       flags, locks, disk, events, count
  <2>3. PhaseInv'
    BY <1>2 DEF RecoverUncertain, Types, CallInv, PhaseInv, Status, Polled, UncertainMutation,
       flags, locks, disk, events, count
  <2>4. BodyInv'
    BY <1>2 DEF RecoverUncertain, Types, CallInv, PhaseInv, BodyInv, Status, Polled, UncertainMutation,
       flags, locks, disk, events, count
  <2> QED BY <2>1, <2>2, <2>3, <2>4
<1>3. CASE RecoverConflict(c)
  <2>1. Types'
    BY <1>3 DEF RecoverConflict, Types, Status, Polled, UncertainMutation,
       flags, locks, disk, events, count
  <2>2. \A d \in Call : CallInv(d)'
    BY <1>3 DEF RecoverConflict, Types, CallInv, PhaseInv, Status, Polled, UncertainMutation,
       flags, locks, disk, events, count
  <2>3. PhaseInv'
    BY <1>3 DEF RecoverConflict, Types, CallInv, PhaseInv, Status, Polled, UncertainMutation,
       flags, locks, disk, events, count
  <2>4. BodyInv'
    BY <1>3 DEF RecoverConflict, Types, CallInv, PhaseInv, BodyInv, Status, Polled, UncertainMutation,
       flags, locks, disk, events, count
  <2> QED BY <2>1, <2>2, <2>3, <2>4
<1>4. CASE SkipPeer(c)
  <2>1. Types'
    BY <1>4 DEF SkipPeer, Types, Status, Polled, UncertainMutation,
       flags, locks, disk, events, count
  <2>2. \A d \in Call : CallInv(d)'
    BY <1>4 DEF SkipPeer, Types, CallInv, PhaseInv, Status, Polled, UncertainMutation,
       flags, locks, disk, events, count
  <2>3. PhaseInv'
    BY <1>4 DEF SkipPeer, Types, CallInv, PhaseInv, Status, Polled, UncertainMutation,
       flags, locks, disk, events, count
  <2>4. BodyInv'
    BY <1>4 DEF SkipPeer, Types, CallInv, PhaseInv, BodyInv, Status, Polled, UncertainMutation,
       flags, locks, disk, events, count
  <2> QED BY <2>1, <2>2, <2>3, <2>4
<1> QED BY <1>1, <1>2, <1>3, <1>4 DEF Recover

LEMMA ResumePhase ==
  ASSUME Control, Resume PROVE PhaseInv'
<1>1. at = "recover" /\ Lost = {} /\ Absent # {} /\ ~UncertainMutation
  BY DEF Resume, Recovering
<1>2. at' = "preflight"
  BY DEF Resume
<1>3. \A c \in Call : CallInv(c) /\ st[c] = "pending"
  BY <1>1 DEF Control, PhaseInv
<1>4. \A c \in Call : started[c] # "no" => finish[c] # "none"
  BY <1>1 DEF Lost
<1>5. \A c \in Call : lease[c] = Keys(intent[c]) /\ body[c] = "none"
  BY <1>3, NoIntentKeys DEF CallInv
<1>6. ~completed
  BY <1>1 DEF Control, PhaseInv, Absent
<1>7. poisoned => cancelled
  BY DEF Control, PhaseInv
<1>8. UNCHANGED <<started, finish, completed, st, intent, lease, body, result, poisoned, cancelled>>
  BY DEF Resume, disk, events, locks
<1> QED BY <1>1, <1>2, <1>3, <1>4, <1>5, <1>6, <1>7, <1>8 DEF PhaseInv, UncertainMutation

LEMMA ResumeControl ==
  ASSUME Control, RefuseSession \/ Retire \/ RecoverCompletion \/ Resume \/ Recovered
  PROVE  Control'
<1> USE ToolBatchAssumption, IntentTyped, NoIntentKeys DEF Control, Recovering, Lost, Absent
<1>1. CASE RefuseSession
  <2>1. Types'
    BY <1>1 DEF RefuseSession, Types, Status, Polled, UncertainMutation,
       flags, locks, disk, events, count
  <2>2. \A d \in Call : CallInv(d)'
    BY <1>1 DEF RefuseSession, Types, CallInv, Status, Polled, UncertainMutation,
       flags, locks, disk, events, count
  <2>3. PhaseInv'
    BY <1>1 DEF RefuseSession, Types, CallInv, PhaseInv, Status, Polled, UncertainMutation,
       flags, locks, disk, events, count
  <2>4. BodyInv'
    BY <1>1 DEF RefuseSession, Types, CallInv, PhaseInv, BodyInv, Status, Polled, UncertainMutation,
       flags, locks, disk, events, count
  <2> QED BY <2>1, <2>2, <2>3, <2>4
<1>2. CASE RecoverCompletion
  <2>1. Types'
    BY <1>2 DEF RecoverCompletion, Types, Status, Polled, UncertainMutation,
       flags, locks, disk, events, count
  <2>2. \A d \in Call : CallInv(d)'
    BY <1>2 DEF RecoverCompletion, Types, CallInv, Status, Polled, UncertainMutation,
       flags, locks, disk, events, count
  <2>3. PhaseInv'
    BY <1>2 DEF RecoverCompletion, Types, CallInv, PhaseInv, Status, Polled, UncertainMutation,
       flags, locks, disk, events, count
  <2>4. BodyInv'
    BY <1>2 DEF RecoverCompletion, Types, CallInv, PhaseInv, BodyInv, Status, Polled, UncertainMutation,
       flags, locks, disk, events, count
  <2> QED BY <2>1, <2>2, <2>3, <2>4
<1>3. CASE Resume
  <2>1. Types'
    BY <1>3 DEF Resume, Types, Status, Polled, UncertainMutation,
       flags, locks, disk, events, count
  <2>2. \A d \in Call : CallInv(d)'
    BY <1>3 DEF Resume, Types, CallInv, Status, Polled, UncertainMutation,
       flags, locks, disk, events, count
  <2>3. PhaseInv'
    BY <1>3, ResumePhase
  <2>4. BodyInv'
    BY <1>3 DEF Resume, Types, CallInv, PhaseInv, BodyInv, Status, Polled, UncertainMutation,
       flags, locks, disk, events, count
  <2> QED BY <2>1, <2>2, <2>3, <2>4
<1>4. CASE Recovered
  <2>1. Types'
    BY <1>4 DEF Recovered, Types, Status, Polled, UncertainMutation,
       flags, locks, disk, events, count
  <2>2. \A d \in Call : CallInv(d)'
    BY <1>4 DEF Recovered, Types, CallInv, Status, Polled, UncertainMutation,
       flags, locks, disk, events, count
  <2>3. PhaseInv'
    BY <1>4 DEF Recovered, Types, CallInv, PhaseInv, Status, Polled, UncertainMutation,
       flags, locks, disk, events, count
  <2>4. BodyInv'
    BY <1>4 DEF Recovered, Types, CallInv, PhaseInv, BodyInv, Status, Polled, UncertainMutation,
       flags, locks, disk, events, count
  <2> QED BY <2>1, <2>2, <2>3, <2>4
<1>5. CASE Retire
  <2>1. Types'
    BY <1>5 DEF Retire, Types, Status, Polled, UncertainMutation,
       flags, locks, disk, events, count
  <2>2. \A d \in Call : CallInv(d)'
    BY <1>5 DEF Retire, Types, CallInv, Status, Polled, UncertainMutation,
       flags, locks, disk, events, count
  <2>3. PhaseInv'
    BY <1>5 DEF Retire, Types, CallInv, PhaseInv, Status, Polled, UncertainMutation,
       flags, locks, disk, events, count
  <2>4. BodyInv'
    BY <1>5 DEF Retire, Types, CallInv, PhaseInv, BodyInv, Status, Polled, UncertainMutation,
       flags, locks, disk, events, count
  <2> QED BY <2>1, <2>2, <2>3, <2>4
<1> QED BY <1>1, <1>2, <1>3, <1>4, <1>5

LEMMA ControlStutter == Control /\ UNCHANGED vars => Control'
BY DEF Control, Types, CallInv, PhaseInv, BodyInv, Polled, UncertainMutation, vars, disk, events,
   flags, locks, count

\* Every step keeps the control invariant.
LEMMA ControlStep == Control /\ [Next]_vars => Control'
BY AdmissionControl, DriveControl, PublishControl, RecoverControl, BodyControl, PhaseControl,
   FailureControl, ResumeControl, ControlStutter DEF Next, Progress

-----------------------------------------------------------------------------
(* The lock table. A step leaves it alone, drops leases, admits a call or     *)
(* starts from nothing.                                                       *)

LEMMA IntentOrLocks ==
  ASSUME Control, Next
  PROVE  \/ UNCHANGED <<intent, locks>>
         \/ intent' = intent /\ \E S \in SUBSET Call : Drop(S)
         \/ \E c \in Call : Ready(c)
         \/ Restart
<1>1. CASE \E c \in Call : Admission(c)
  BY <1>1 DEF Admission, BlockCancelled, BlockByHook, BlockBusy
<1>2. ASSUME NEW c \in Call, Drive(c) PROVE UNCHANGED <<intent, locks>> \/ (intent' = intent /\ Drop({c}))
  BY <1>2 DEF Drive, NotStarted, StartTicket, RunTicket, Start, Spawn, Collect, Stop, ReapEnded,
     ReapAbort, ReapRetain
<1>3. ASSUME NEW c \in Call, AbortLands(c) PROVE intent' = intent /\ Drop({c})
  BY <1>3 DEF AbortLands
<1>4. ASSUME NEW c \in Call, Publish(c) \/ Recover(c) \/ BodyEnds(c) \/ BodyConflicts(c)
      PROVE  UNCHANGED <<intent, locks>>
  BY <1>4 DEF Publish, PersistArtifact, AppendFinish, Recover, RecoverFromArtifact,
     RecoverUncertain, RecoverConflict, SkipPeer, Finish, BodyEnds, BodyConflicts
<1>5. CASE PreflightDone \/ DriveDone \/ CompleteBatch \/ DropRuntime \/ RefuseSession \/ Retire
             \/ RecoverCompletion \/ Resume \/ Recovered \/ Cancel
  BY <1>5 DEF PreflightDone, DriveDone, CompleteBatch, DropRuntime, RefuseSession, Retire,
     RecoverCompletion, Resume, Recovered, Cancel
<1>6. CASE Fail
  BY <1>6 DEF Fail
<1>7. CASE Exit \/ Kill
  BY <1>7 DEF Exit, Kill
<1> QED BY <1>1, <1>2, <1>3, <1>4, <1>5, <1>6, <1>7 DEF Next, Progress

\* Of two calls that hold a path neither writes it.
LEMMA OneWriter ==
  ASSUME Control, Compatible, NEW p \in Path, NEW c \in HolderOf(p), NEW d \in HolderOf(p),
         c \in WriterOf(p)
  PROVE  d = c
<1>1. c \in Call /\ d \in Call /\ p \in intent[c].writes /\ p \in Keys(intent[d])
  BY DEF HolderOf, WriterOf, Control, CallInv
<1> QED BY <1>1 DEF Compatible

\* What ~Conflict says of the calls admitted before.
LEMMA Admitted ==
  ASSUME Control, Table, at = "preflight", NEW i \in Intent, ~Conflict(i), NEW d \in Call
  PROVE  i.writes \cap Keys(intent[d]) = {} /\ intent[d].writes \cap Keys(i) = {}
<1>1. lease[d] = Keys(intent[d]) /\ intent[d] \in Intent \cup {NoIntent}
  BY DEF Control, PhaseInv, Types
<1>2. i.writes \subseteq Path /\ Keys(i) \subseteq Path /\ Keys(i) = i.writes \cup (i.reads \ i.writes)
  BY IntentTyped DEF Keys
<1>3. intent[d].writes \subseteq Keys(intent[d])
  BY DEF Keys
<1>4. ASSUME NEW p \in i.writes PROVE HolderOf(p) = {}
  <2>1. p \in Path /\ ~writer[p] /\ ~(readers[p] > 0)
    BY <1>2 DEF Conflict
  <2>2. WriterOf(p) = {} /\ readers[p] = Cardinality(HolderOf(p) \ WriterOf(p)) /\ readers[p] \in Nat
    BY <2>1 DEF Table
  <2>3. Cardinality(HolderOf(p)) = 0
    BY <2>1, <2>2
  <2> QED BY <2>3, CallFinite, FS_EmptySet DEF HolderOf
<1>5. ASSUME NEW p \in i.reads \ i.writes PROVE WriterOf(p) = {}
  <2>1. p \in Path /\ ~writer[p]
    BY <1>2 DEF Conflict, Keys
  <2> QED BY <2>1 DEF Table
<1>6. i.writes \cap Keys(intent[d]) = {}
  BY <1>1, <1>4 DEF HolderOf
<1>7. intent[d].writes \cap Keys(i) = {}
  BY <1>1, <1>2, <1>3, <1>4, <1>5 DEF HolderOf, WriterOf
<1> QED BY <1>6, <1>7

\* No step makes two leases conflict.
LEMMA CompatibleStep ==
  ASSUME Control, Table, Compatible, [Next]_vars PROVE Compatible'
<1>1. CASE intent' = intent
  BY <1>1 DEF Compatible
<1>2. ASSUME NEW c \in Call, Ready(c) PROVE Compatible'
  <2>1. PICK i \in Intent : ~Conflict(i) /\ intent' = [intent EXCEPT ![c] = i]
    BY <1>2 DEF Ready
  <2>2. at = "preflight" /\ intent \in [Call -> Intent \cup {NoIntent}]
    BY <1>2 DEF Ready, Preflight, Control, Types
  <2>3. \A d \in Call : i.writes \cap Keys(intent[d]) = {} /\ intent[d].writes \cap Keys(i) = {}
    BY <2>1, <2>2, Admitted
  <2> QED BY <2>1, <2>2, <2>3 DEF Compatible
<1>3. CASE Restart
  <2>1. \A c \in Call : intent'[c] = NoIntent
    BY <1>3 DEF Restart, Each
  <2> QED BY <2>1, NoIntentKeys DEF Compatible
<1> QED BY <1>1, <1>2, <1>3, IntentOrLocks DEF vars

LEMMA TableDrop ==
  ASSUME Control, Table, Compatible, NEW S \in SUBSET Call, Drop(S), intent' = intent
  PROVE  Table'
<1>1. lease \in [Call -> SUBSET Path] /\ readers \in [Path -> Nat] /\ writer \in [Path -> BOOLEAN]
  BY DEF Control, Types, Table
<1>2. ASSUME NEW p \in Path
      PROVE  /\ writer'[p] <=> (WriterOf(p))' # {}
             /\ readers'[p] = Cardinality(HolderOf(p) \ WriterOf(p))'
             /\ readers'[p] \in Nat
  <2>1. (HolderOf(p))' = HolderOf(p) \ S /\ (WriterOf(p))' = WriterOf(p) \ S
    BY DEF Drop, HolderOf, WriterOf
  <2>2. {c \in S : p \in lease[c]} = HolderOf(p) \cap S /\ WriterOf(p) \subseteq HolderOf(p)
    BY DEF HolderOf, WriterOf
  <2>3. writer'[p] <=> writer[p] /\ HolderOf(p) \cap S = {}
    BY <2>2, <1>1 DEF Drop, HolderOf
  <2>4. CASE WriterOf(p) # {}
    <3>1. PICK c \in WriterOf(p) : TRUE BY <2>4
    <3>2. HolderOf(p) = {c} /\ WriterOf(p) = {c}
      BY <3>1, <2>2, OneWriter
    <3>3. writer[p] /\ readers'[p] = readers[p] /\ readers[p] = Cardinality({c} \ {c})
      BY <2>4, <3>2 DEF Table, Drop
    <3>4. (HolderOf(p) \ WriterOf(p))' = {} /\ {c} \ {c} = {}
      BY <2>1, <3>2
    <3>5. writer'[p] <=> (WriterOf(p))' # {}
      BY <2>1, <2>3, <3>2, <3>3
    <3> QED BY <3>3, <3>4, <3>5, FS_EmptySet
  <2>5. CASE WriterOf(p) = {}
    <3>1. ~writer[p] /\ readers[p] = Cardinality(HolderOf(p))
      BY <2>5 DEF Table
    <3>2. IsFiniteSet(HolderOf(p)) /\ HolderOf(p) \in SUBSET Call
      BY CallFinite DEF HolderOf
    <3>3. readers'[p] = readers[p] - Cardinality(HolderOf(p) \cap S)
      BY <3>1, <2>2 DEF Drop
    <3>4. readers'[p] = Cardinality(HolderOf(p) \ S)
      BY <3>1, <3>2, <3>3, FS_Difference
    <3>5. HolderOf(p) \ S \in SUBSET Call
      BY <3>2
    <3> QED BY <3>1, <3>4, <3>5, <2>1, <2>3, <2>5, CallFinite
  <2> QED BY <2>4, <2>5
<1>3. readers' \in [Path -> Nat]
  <2>1. readers' = [p \in Path |-> readers'[p]]
    BY DEF Drop
  <2> QED BY <2>1, <1>2
<1>4. writer' \in [Path -> BOOLEAN]
  BY <1>1 DEF Drop
<1> QED BY <1>2, <1>3, <1>4 DEF Table

LEMMA TableReady ==
  ASSUME Control, Table, NEW c \in Call, Ready(c) PROVE Table'
<1>1. PICK i \in Intent : ~Conflict(i) /\ Acquire(c, i) /\ intent' = [intent EXCEPT ![c] = i]
  BY DEF Ready
<1>2. /\ lease \in [Call -> SUBSET Path] /\ readers \in [Path -> Nat] /\ writer \in [Path -> BOOLEAN]
      /\ intent \in [Call -> Intent \cup {NoIntent}]
      /\ lease[c] = {} /\ at = "preflight"
  BY DEF Control, Types, Table, CallInv, Ready, Preflight, First
<1>3. \A d \in Call : lease'[d] = (IF d = c THEN Keys(i) ELSE lease[d])
                     /\ intent'[d] = (IF d = c THEN i ELSE intent[d])
  BY <1>1, <1>2 DEF Acquire
<1>4. ASSUME NEW p \in Path
      PROVE  /\ writer'[p] <=> (WriterOf(p))' # {}
             /\ readers'[p] = Cardinality(HolderOf(p) \ WriterOf(p))'
             /\ readers'[p] \in Nat
  <2>1. c \notin HolderOf(p) /\ HolderOf(p) \in SUBSET Call /\ WriterOf(p) \subseteq HolderOf(p)
    BY <1>2 DEF HolderOf, WriterOf
  <2>2. /\ writer[p] <=> WriterOf(p) # {}
        /\ readers[p] = Cardinality(HolderOf(p) \ WriterOf(p)) /\ readers[p] \in Nat
    BY DEF Table
  <2>3. /\ writer'[p] <=> writer[p] \/ p \in i.writes
        /\ readers'[p] = readers[p] + (IF p \in i.reads \ i.writes THEN 1 ELSE 0)
    BY <1>1, <1>2 DEF Acquire
  <2>4. CASE p \in i.writes
    <3>1. HolderOf(p) = {}
      <4>1. ASSUME NEW d \in HolderOf(p) PROVE FALSE
        <5>1. d \in Call /\ p \in Keys(intent[d])
          BY <4>1 DEF HolderOf, Control, CallInv
        <5> QED BY <5>1, <1>1, <1>2, <2>4, Admitted
      <4> QED BY <4>1
    <3>2. (HolderOf(p))' = {c} /\ (WriterOf(p))' = {c}
      BY <3>1, <2>4, <1>3 DEF HolderOf, WriterOf, Keys
    <3>3. readers'[p] = Cardinality(HolderOf(p) \ WriterOf(p)) /\ HolderOf(p) \ WriterOf(p) = {}
      BY <2>2, <2>3, <2>4, <3>1
    <3>4. (HolderOf(p) \ WriterOf(p))' = {}
      BY <3>2
    <3>5. writer'[p] /\ (WriterOf(p))' # {}
      BY <3>2, <2>3, <2>4
    <3> QED BY <3>3, <3>4, <3>5, <2>2, FS_EmptySet
  <2>5. CASE p \in i.reads \ i.writes
    <3>1. WriterOf(p) = {}
      <4>1. ASSUME NEW d \in WriterOf(p) PROVE FALSE
        <5>1. d \in Call /\ p \in intent[d].writes /\ p \in Keys(i)
          BY <4>1, <2>5 DEF HolderOf, WriterOf, Keys
        <5> QED BY <5>1, <1>1, <1>2, Admitted
      <4> QED BY <4>1
    <3>2. (HolderOf(p))' = HolderOf(p) \cup {c} /\ (WriterOf(p))' = {}
      BY <3>1, <2>5, <1>3 DEF HolderOf, WriterOf, Keys
    <3>3. IsFiniteSet(HolderOf(p)) /\ readers[p] = Cardinality(HolderOf(p))
      BY <2>1, <2>2, <3>1, CallFinite
    <3>4. Cardinality(HolderOf(p) \cup {c}) = Cardinality(HolderOf(p)) + 1
      BY <3>3, <2>1, FS_AddElement
    <3> QED BY <3>1, <3>2, <3>3, <3>4, <2>2, <2>3, <2>5
  <2>6. CASE p \notin Keys(i)
    <3>1. (HolderOf(p))' = HolderOf(p) /\ (WriterOf(p))' = WriterOf(p)
      BY <2>6, <2>1, <1>3 DEF HolderOf, WriterOf
    <3> QED BY <3>1, <2>2, <2>3, <2>6 DEF Keys
  <2> QED BY <2>4, <2>5, <2>6 DEF Keys
<1>5. readers' \in [Path -> Nat]
  <2>1. readers' = [p \in Path |-> readers'[p]]
    BY <1>1 DEF Acquire
  <2> QED BY <2>1, <1>4
<1>6. writer' \in [Path -> BOOLEAN]
  BY <1>1, <1>2 DEF Acquire
<1> QED BY <1>4, <1>5, <1>6 DEF Table

LEMMA TableFresh ==
  ASSUME readers = [p \in Path |-> 0], writer = [p \in Path |-> FALSE], lease = Each({})
  PROVE  Table
<1>1. \A p \in Path : HolderOf(p) = {} /\ WriterOf(p) = {}
  BY DEF HolderOf, WriterOf, Each
<1>2. \A p \in Path : HolderOf(p) \ WriterOf(p) = {}
  BY <1>1
<1> QED BY <1>1, <1>2, FS_EmptySet DEF Table

\* No step lets the lock table differ from the leases.
LEMMA TableStep ==
  ASSUME Control, Table, Compatible, [Next]_vars PROVE Table'
<1>1. CASE UNCHANGED <<intent, locks>>
  BY <1>1 DEF locks, Table, HolderOf, WriterOf
<1>2. CASE Restart
  <2>1. readers' = [p \in Path |-> 0] /\ writer' = [p \in Path |-> FALSE] /\ lease' = (Each({}))'
    BY <1>2 DEF Restart, Each
  <2>2. \A p \in Path : (HolderOf(p))' = {} /\ (WriterOf(p))' = {}
    BY <2>1 DEF HolderOf, WriterOf, Each
  <2>3. \A p \in Path : (HolderOf(p) \ WriterOf(p))' = {}
    BY <2>2
  <2> QED BY <2>1, <2>2, <2>3, FS_EmptySet DEF Table
<1> QED BY <1>1, <1>2, IntentOrLocks, TableDrop, TableReady DEF vars

-----------------------------------------------------------------------------
(* Permits. *)

Holders == {c \in Call : st[c] \in Holding}

LEMMA PermitSteps ==
  ASSUME Control, Next
  PROVE  \/ permits' = permits /\ Holders' = Holders
         \/ \E c \in Call : /\ permits > 0 /\ permits' = permits - 1
                          /\ c \notin Holders /\ Holders' = Holders \cup {c}
         \/ \E c \in Call : /\ permits' = permits + 1
                          /\ c \in Holders /\ Holders' = Holders \ {c}
         \/ permits' \in Permits /\ Holders' = {}
<1>0. st \in [Call -> {"pending", "over", "ready", "ticket", "starting", "running",
                       "onCancel", "onTimeout"}]
  BY DEF Control, Types
<1> USE <1>0 DEF Holders, Holding, Polled
<1>1. ASSUME NEW c \in Call, Admission(c) PROVE permits' = permits /\ Holders' = Holders
  BY <1>1 DEF Admission, BlockCancelled, BlockByHook, BlockBusy, Ready, Preflight, First, Settle
<1>2. ASSUME NEW c \in Call, NotStarted(c) \/ StartTicket(c) \/ RunTicket(c) \/ Spawn(c) \/ Stop(c)
      PROVE  permits' = permits /\ Holders' = Holders
  BY <1>2 DEF NotStarted, StartTicket, RunTicket, Spawn, Stop, Settle, IsReady
<1>3. ASSUME NEW c \in Call, Start(c)
      PROVE  /\ permits > 0 /\ permits' = permits - 1
             /\ c \notin Holders /\ Holders' = Holders \cup {c}
  BY <1>3 DEF Start, IsReady
<1>4. ASSUME NEW c \in Call, Collect(c) \/ ReapEnded(c) \/ ReapAbort(c) \/ ReapRetain(c)
      PROVE  permits' = permits + 1 /\ c \in Holders /\ Holders' = Holders \ {c}
  BY <1>4 DEF Collect, ReapEnded, ReapAbort, ReapRetain, Settle
<1>5. ASSUME NEW c \in Call,
             Publish(c) \/ Recover(c) \/ BodyEnds(c) \/ BodyConflicts(c) \/ AbortLands(c)
      PROVE  permits' = permits /\ Holders' = Holders
  BY <1>5 DEF Publish, PersistArtifact, AppendFinish, Recover, RecoverFromArtifact, RecoverUncertain,
     RecoverConflict, SkipPeer, Finish, BodyEnds, BodyConflicts, AbortLands
<1>6. CASE PreflightDone \/ DriveDone \/ CompleteBatch \/ DropRuntime \/ RefuseSession \/ Retire
             \/ RecoverCompletion \/ Resume \/ Recovered \/ Cancel \/ Fail
  BY <1>6 DEF PreflightDone, DriveDone, CompleteBatch, DropRuntime, RefuseSession, Retire,
     RecoverCompletion, Resume, Recovered, Cancel, Fail
<1>7. CASE Exit \/ Kill
  BY <1>7 DEF Exit, Kill, Restart, Each
<1> QED BY <1>1, <1>2, <1>3, <1>4, <1>5, <1>6, <1>7 DEF Next, Progress, Drive

\* No step loses or mints a permit.
LEMMA PermitStep ==
  ASSUME Control, PermitInv, [Next]_vars PROVE PermitInv'
<1>1. IsFiniteSet(Holders) /\ Cardinality(Holders) \in Nat
  BY CallFinite DEF Holders
<1>2. permits \in Nat /\ permits + Cardinality(Holders) \in Permits /\ Permits \subseteq Nat
  BY ToolBatchAssumption DEF PermitInv, Holders
<1>3. permits' \in Nat /\ permits' + Cardinality(Holders') \in Permits
  <2>1. CASE permits' = permits /\ Holders' = Holders
    BY <2>1, <1>2
  <2>2. CASE \E c \in Call : /\ permits > 0 /\ permits' = permits - 1
                           /\ c \notin Holders /\ Holders' = Holders \cup {c}
    <3>1. Cardinality(Holders') = Cardinality(Holders) + 1
      BY <2>2, <1>1, FS_AddElement
    <3>2. permits' \in Nat /\ permits' = permits - 1
      BY <2>2, <1>2
    <3>3. permits' + Cardinality(Holders') = permits + Cardinality(Holders)
      BY <3>1, <3>2, <1>1, <1>2
    <3> QED BY <3>2, <3>3, <1>2
  <2>3. CASE \E c \in Call : /\ permits' = permits + 1
                           /\ c \in Holders /\ Holders' = Holders \ {c}
    <3>1. Cardinality(Holders') = Cardinality(Holders) - 1
      BY <2>3, <1>1, FS_RemoveElement
    <3>2. permits' \in Nat /\ permits' = permits + 1
      BY <2>3, <1>2
    <3>3. permits' + Cardinality(Holders') = permits + Cardinality(Holders)
      BY <3>1, <3>2, <1>1, <1>2
    <3> QED BY <3>2, <3>3, <1>2
  <2>4. CASE permits' \in Permits /\ Holders' = {}
    BY <2>4, <1>2, FS_EmptySet
  <2>5. CASE UNCHANGED vars
    BY <2>5, <2>1 DEF vars, Holders
  <2> QED BY <2>1, <2>2, <2>3, <2>4, <2>5, PermitSteps
<1> QED BY <1>3 DEF PermitInv, Holders

-----------------------------------------------------------------------------
(* The inductive invariant, and what follows from it. *)

\* The invariant holds initially.
LEMMA InitIInv == Init => IInv
<1> SUFFICES ASSUME Init PROVE IInv
  OBVIOUS
<1>1. Compatible
  BY NoIntentKeys DEF Init, Each, Compatible
<1>2. Table
  BY TableFresh DEF Init
<1>3. PermitInv
  <2>1. {c \in Call : st[c] \in Holding} = {} /\ permits \in Permits
    BY DEF Init, Each, Holding, Polled
  <2> QED BY <2>1, ToolBatchAssumption, FS_EmptySet DEF PermitInv
<1> QED BY <1>1, <1>2, <1>3, InitControl DEF IInv

\* Every step preserves the invariant.
LEMMA IInvStep == IInv /\ [Next]_vars => IInv'
BY ControlStep, CompatibleStep, TableStep, PermitStep DEF IInv

\* The inductive invariant holds in every behaviour of the batch.
THEOREM SpecIInv == Spec => []IInv
BY InitIInv, IInvStep, PTL DEF Spec

\* Types hold, and no permit or reader count is given back twice (tools/runtime.rs,
\* locks.rs).
THEOREM SpecTypeOK == Spec => []TypeOK
<1>1. IInv => TypeOK
  <2> SUFFICES ASSUME IInv PROVE TypeOK
    OBVIOUS
  <2> QED BY DEF IInv, Control, Types, Table, PermitInv, TypeOK
<1> QED BY <1>1, SpecIInv, PTL

\* The lock table is at every moment exactly what the leases hold (locks.rs).
THEOREM SpecLockTableIsLeases == Spec => []LockTableIsLeases
<1>1. IInv => LockTableIsLeases
  <2> SUFFICES ASSUME IInv, NEW p \in Path
               PROVE  /\ writer[p] <=> WriterOf(p) # {}
                      /\ WriterOf(p) # {} => Cardinality(HolderOf(p)) = 1
                      /\ readers[p] = Cardinality(HolderOf(p) \ WriterOf(p))
    BY DEF LockTableIsLeases, HolderOf, WriterOf
  <2>1. ASSUME NEW c \in WriterOf(p) PROVE Cardinality(HolderOf(p)) = 1
    <3>1. HolderOf(p) = {c}
      BY OneWriter DEF IInv, WriterOf
    <3> QED BY <3>1, FS_Singleton
  <2> QED BY <2>1 DEF IInv, Table
<1> QED BY <1>1, SpecIInv, PTL

\* Bodies that run together touch different paths, or only read them
\* (runtime.rs: the lease is taken before any body is spawned).
THEOREM SpecNoConflictingBodies == Spec => []NoConflictingBodies
<1>1. IInv => NoConflictingBodies
  BY DEF IInv, Compatible, NoConflictingBodies
<1> QED BY <1>1, SpecIInv, PTL

\* No crash, recovery and resumption runs a body again (recovery.rs).
THEOREM SpecRunsAtMostOnce == Spec => []RunsAtMostOnce
<1>1. IInv => RunsAtMostOnce
  BY DEF IInv, Control, CallInv, RunsAtMostOnce
<1> QED BY <1>1, SpecIInv, PTL

\* A body left running is reported uncertain and keeps its paths (runtime.rs, reap).
THEOREM SpecStuckBodyIsReported == Spec => []StuckBodyIsReported
<1>1. IInv => StuckBodyIsReported
  <2> SUFFICES ASSUME IInv, at = "returned", NEW c \in Call, body[c] = "live"
               PROVE  intent[c].effect /\ finish[c] = "uncertain" /\ lease[c] = Keys(intent[c]) /\ poisoned
    BY DEF StuckBodyIsReported
  <2>1. st[c] \in {"pending", "over"} /\ result[c] = "none"
    BY DEF IInv, Control, PhaseInv
  <2>2. st[c] = "over"
    BY <2>1 DEF IInv, Control, CallInv
  <2> QED BY <2>1, <2>2 DEF IInv, Control, BodyInv
<1> QED BY <1>1, SpecIInv, PTL

-----------------------------------------------------------------------------
(* The events a step appends. *)

LEMMA StartedSteps ==
  ASSUME IInv, Next, NEW d \in Call, started'[d] # started[d]
  PROVE  StartTicket(d) \/ Start(d)
<1>0. started \in [Call -> {"no", "readonly", "mutating"}]
  BY DEF IInv, Control, Types
<1>1. ASSUME NEW c \in Call, StartTicket(c) \/ Start(c) PROVE d = c
  BY <1>0, <1>1 DEF StartTicket, Start, RecordStart
<1>2. ASSUME NEW c \in Call, ~StartTicket(c), ~Start(c),
             Admission(c) \/ Drive(c) \/ Publish(c) \/ Recover(c) \/ AbortLands(c)
               \/ BodyEnds(c) \/ BodyConflicts(c)
      PROVE  started' = started
  BY <1>2 DEF Admission, BlockCancelled, BlockByHook, BlockBusy, Ready, Drive, NotStarted, RunTicket,
     Spawn, Collect, Stop, ReapEnded, ReapAbort, ReapRetain, Publish, PersistArtifact, AppendFinish,
     Recover, RecoverFromArtifact, RecoverUncertain, RecoverConflict, SkipPeer, Finish, AbortLands,
     BodyEnds, BodyConflicts, disk, events
<1>3. CASE \/ PreflightDone \/ DriveDone \/ CompleteBatch \/ DropRuntime \/ RefuseSession \/ Retire
          \/ RecoverCompletion \/ Resume \/ Recovered \/ Cancel \/ Fail \/ Exit \/ Kill
  BY <1>3 DEF PreflightDone, DriveDone, CompleteBatch, DropRuntime, RefuseSession, Retire, RecoverCompletion,
     Resume, Recovered, Cancel, Fail, Exit, Kill, Restart, disk, events
<1> QED BY <1>1, <1>2, <1>3 DEF Next, Progress

LEMMA FinishSteps ==
  ASSUME IInv, Next, NEW d \in Call, finish'[d] # finish[d]
  PROVE  finish[d] = "none" /\ ~completed
<1>0. finish \in [Call -> Status]
  BY DEF IInv, Control, Types
<1>1. ASSUME NEW c \in Call, AppendFinish(c) PROVE finish[d] = "none" /\ ~completed
  <2>1. d = c /\ result[c] # "none" /\ at = "publish"
    BY <1>0, <1>1 DEF AppendFinish, Publishing, First
  <2> QED BY <2>1 DEF IInv, Control, CallInv, PhaseInv
<1>2. ASSUME NEW c \in Call, Recover(c) PROVE finish[d] = "none" /\ ~completed
  <2>1. \E r : finish' = [finish EXCEPT ![c] = r]
    BY <1>2 DEF Recover, RecoverFromArtifact, RecoverUncertain, RecoverConflict, SkipPeer, Finish
  <2>2. c = d
    BY <2>1, <1>0
  <2>3. finish[c] = "none"
    BY <1>2 DEF Recover, RecoverFromArtifact, RecoverUncertain, RecoverConflict, SkipPeer, First,
       Lost, Absent
  <2> QED BY <2>2, <2>3 DEF IInv, Control, PhaseInv
<1>3. ASSUME NEW c \in Call,
             Admission(c) \/ Drive(c) \/ PersistArtifact(c) \/ AbortLands(c)
               \/ BodyEnds(c) \/ BodyConflicts(c)
      PROVE  finish' = finish
  BY <1>3 DEF Admission, BlockCancelled, BlockByHook, BlockBusy, Ready, Drive, NotStarted, StartTicket,
     RunTicket, Start, Spawn, Collect, Stop, ReapEnded, ReapAbort, ReapRetain, PersistArtifact,
     AbortLands, BodyEnds, BodyConflicts, disk, events
<1>4. CASE \/ PreflightDone \/ DriveDone \/ CompleteBatch \/ DropRuntime \/ RefuseSession \/ Retire
          \/ RecoverCompletion \/ Resume \/ Recovered \/ Cancel \/ Fail \/ Exit \/ Kill
  BY <1>4 DEF PreflightDone, DriveDone, CompleteBatch, DropRuntime, RefuseSession, Retire, RecoverCompletion,
     Resume, Recovered, Cancel, Fail, Exit, Kill, Restart, disk, events
<1> QED BY <1>1, <1>2, <1>3, <1>4 DEF Next, Progress, Publish

LEMMA CompletionSteps ==
  ASSUME IInv, Next, completed' # completed
  PROVE  \A c \in Call : finish[c] # "none"
<1>1. CASE CompleteBatch
  BY <1>1 DEF CompleteBatch, IInv, Control, CallInv, PhaseInv
<1>2. CASE RecoverCompletion
  BY <1>2 DEF RecoverCompletion, Lost, Absent
<1>3. ASSUME NEW c \in Call,
             Admission(c) \/ Drive(c) \/ Publish(c) \/ Recover(c) \/ AbortLands(c)
               \/ BodyEnds(c) \/ BodyConflicts(c)
      PROVE  completed' = completed
  BY <1>3 DEF Admission, BlockCancelled, BlockByHook, BlockBusy, Ready, Drive, NotStarted, StartTicket,
     RunTicket, Start, Spawn, Collect, Stop, ReapEnded, ReapAbort, ReapRetain, Publish, PersistArtifact,
     AppendFinish, Recover, RecoverFromArtifact, RecoverUncertain, RecoverConflict, SkipPeer, Finish,
     AbortLands, BodyEnds, BodyConflicts, disk, events
<1>4. CASE \/ PreflightDone \/ DriveDone \/ DropRuntime \/ RefuseSession \/ Retire
          \/ Resume \/ Recovered \/ Cancel \/ Fail \/ Exit \/ Kill
  BY <1>4 DEF PreflightDone, DriveDone, DropRuntime, RefuseSession, Retire,
     Resume, Recovered, Cancel, Fail, Exit, Kill, Restart, disk, events
<1> QED BY <1>1, <1>2, <1>3, <1>4 DEF Next, Progress

\* A body is entered only by a call that has no start on the log.
LEMMA StartIsFresh ==
  ASSUME IInv, NEW c \in Call, StartTicket(c) \/ Start(c)
  PROVE  started[c] = "no" /\ finish[c] = "none" /\ ~poisoned /\ ~UncertainMutation
BY DEF StartTicket, Start, IsReady, IInv, Control, CallInv, PhaseInv

\* Driver and recovery append only events the replay of the log admits
\* (replay.rs, apply_tool_start, apply_tool_finish, apply_batch_complete).
THEOREM SpecReplayAccepts == Spec => ReplayAccepts
<1>1. IInv /\ [Next]_vars =>
        [/\ \A c \in Call : started'[c] # started[c] => started[c] = "no" /\ finish[c] = "none"
         /\ \A c \in Call : finish'[c] # finish[c] => finish[c] = "none" /\ ~completed
         /\ completed' # completed => \A c \in Call : finish[c] # "none"]_vars
  BY StartedSteps, FinishSteps, CompletionSteps, StartIsFresh
<1> QED BY <1>1, SpecIInv, PTL DEF Spec, ReplayAccepts

\* Nothing is started after the runtime was poisoned, or next to a mutation whose
\* effects are unknown (runtime.rs, recovery.rs).
THEOREM SpecNothingStartsAfterUncertainty == Spec => NothingStartsAfterUncertainty
<1>1. IInv /\ [Next]_vars =>
        [\A c \in Call : started'[c] # started[c] => ~poisoned /\ ~UncertainMutation]_vars
  BY StartedSteps, StartIsFresh
<1> QED BY <1>1, SpecIInv, PTL DEF Spec, NothingStartsAfterUncertainty
=============================================================================
