---------------------------- MODULE WriteJournal ----------------------------
(***************************************************************************)
(* One batch_write or batch_edit call: the rollback journal that makes the *)
(* replacement of several workspace files all-or-nothing, the tool body    *)
(* that drives it, and the startup recovery that rolls an unproved journal *)
(* back.  The process may stop at every step, an I/O call may fail at every*)
(* step, and somebody else may edit a target at any time.                  *)
(*                                                                         *)
(* Entries are numbered 1..N in path order; the code's next_entry counts   *)
(* the entries already replaced, so its index `next` is entry next + 1.    *)
(* A file is its bytes (Absent when there is none) and an identity that    *)
(* every write renews (device, inode, size, mtime, ctime).                 *)
(***************************************************************************)
EXTENDS Naturals

CONSTANTS
  N,            \* number of files the call replaces
  Existed,      \* the entries whose target exists when the call starts
  CrashPoints,  \* the program points at which the process may stop
  FaultPoints,  \* the program points at which an I/O call may fail
  MaxEdits,     \* bound: edits by somebody else
  MaxCrashes,   \* bound: process stops
  MaxFaults     \* bound: failed I/O calls

Entry == 1..N

Live     == {"capture", "prepare_store", "verify", "replace", "record"}
Rollback == {"adopt", "confirm", "restore", "step_store", "rollback_store"}
Retire   == {"retire_payload", "retire_manifest"}
Appends  == {"finish", "recovery_finish"}
Running  == Live \cup Rollback \cup Retire \cup Appends \cup {"check"}
Stopped  == {"down", "idle", "poisoned", "readonly", "failed"}

ASSUME WriteJournalAssumption ==
  /\ N \in Nat \ {0}
  /\ Existed \subseteq Entry
  /\ CrashPoints \subseteq Running
  /\ FaultPoints \subseteq Running
  /\ MaxEdits \in Nat /\ MaxCrashes \in Nat /\ MaxFaults \in Nat

Absent == "absent"
Bytes  == {"before", "after", "external", Absent}
NoId   == 0

\* What the workspace holds before the call.
Original(i) == IF i \in Existed THEN "before" ELSE Absent

VARIABLES
  bytes,      \* the target files: content
  id,         \* the target files: identity of the current version
  json,       \* the journal manifest write-<execution>.json is on disk
  payload,    \* the entries whose before-/staged- files are on disk
  phase,      \* journal.phase
  next,       \* journal.next_entry
  repl,       \* journal.entries[i].replacement_identity
  origBytes,  \* journal.entries[i].original_sha256, and the before- file
  origId,     \* journal.entries[i].original_identity
  finish,     \* the status of the durable tool_execution_finished event
  pc,         \* where the process is
  mode,       \* "live": inside the tool body; "recovery": inside run_recovery
  k,          \* the loop index of prepare and of rollback
  outcome,    \* the status the process is about to make durable
  touched,    \* (history) entries somebody else edited during the call
  raced,      \* (history) the target last checked was edited before its rename
  foreign,    \* (history) entries whose current version somebody else wrote
  edits, crashes, faults  \* how much of the bounds is used up

disk   == <<json, payload, phase, next, repl, origBytes, origId>>
files  == <<bytes, id, foreign>>
proc   == <<pc, mode, k, outcome>>
budget == <<edits, crashes, faults>>
others == <<touched, raced>>  \* what is remembered of somebody else's edits
vars   == <<bytes, id, json, payload, phase, next, repl, origBytes, origId,
            finish, pc, mode, k, outcome, touched, raced, foreign,
            edits, crashes, faults>>

Init ==
  /\ bytes = [i \in Entry |-> Original(i)]
  /\ id = [i \in Entry |-> 1]
  /\ json = FALSE /\ payload = {} /\ phase = "prepared" /\ next = 0
  /\ repl = [i \in Entry |-> NoId]
  /\ origBytes = [i \in Entry |-> Absent] /\ origId = [i \in Entry |-> NoId]
  /\ finish = "none"
  /\ pc = "capture" /\ mode = "live" /\ k = 0 /\ outcome = "none"
  /\ touched = {} /\ raced = FALSE /\ foreign = {}
  /\ edits = 0 /\ crashes = 0 /\ faults = 0

Go(label) == pc' = label /\ UNCHANGED mode

\* A rename over the target, or its removal, by this program.
Install(i, content) ==
  /\ bytes' = [bytes EXCEPT ![i] = content]
  /\ id' = [id EXCEPT ![i] = @ + 1]
  /\ foreign' = foreign \ {i}

-----------------------------------------------------------------------------
(* prepare_write_journal_in_roots *)

\* Copy one target into before-<n>, hash it, capture its identity, write the
\* new content to staged-<n>.
CaptureEntry ==
  /\ pc = "capture" /\ k < N
  /\ k' = k + 1
  /\ origBytes' = [origBytes EXCEPT ![k + 1] = bytes[k + 1]]
  /\ origId' = [origId EXCEPT ![k + 1] =
                  IF bytes[k + 1] = Absent THEN NoId ELSE id[k + 1]]
  /\ payload' = payload \cup {k + 1}
  /\ foreign' = foreign \ {k + 1}
  /\ Go(IF k + 1 = N THEN "prepare_store" ELSE "capture")
  /\ UNCHANGED <<bytes, id, json, phase, next, repl, finish, outcome, others,
                 budget>>

StorePrepared ==
  /\ pc = "prepare_store"
  /\ json' = TRUE
  /\ Go("verify")
  /\ UNCHANGED <<bytes, id, foreign, payload, phase, next, repl, origBytes, origId,
                 finish, k, outcome, others, budget>>

-----------------------------------------------------------------------------
(* commit_write_journal_in_roots *)

IsOriginal(i) == IF origBytes[i] = Absent
                 THEN bytes[i] = Absent
                 ELSE bytes[i] = origBytes[i] /\ id[i] = origId[i]

\* The target is still the one that was captured: the phase goes to
\* Committing and the rename comes next.
VerifyOriginal ==
  /\ pc = "verify" /\ next < N
  /\ IsOriginal(next + 1)
  /\ phase' = "committing"
  /\ Go("replace")
  /\ raced' = FALSE
  /\ UNCHANGED <<files, json, payload, next, repl, origBytes, origId,
                 finish, k, outcome, touched, budget>>

\* (mutant) The tool body reports the failed commit without rolling back.
VerifyConflictNoRollback ==
  /\ pc = "verify" /\ next < N /\ ~IsOriginal(next + 1)
  /\ outcome' = "error" /\ Go("retire_payload")
  /\ UNCHANGED <<files, disk, finish, k, others, budget>>

\* It is not: commit returns an error and the tool body rolls back.
VerifyConflict ==
  /\ pc = "verify" /\ next < N
  /\ ~IsOriginal(next + 1)
  /\ Go("adopt")
  /\ UNCHANGED <<files, disk, finish, k, outcome, others, budget>>

AtomicReplace ==
  /\ pc = "replace"
  /\ Install(next + 1, "after")
  /\ Go("record")
  /\ UNCHANGED <<disk, finish, k, outcome, others, budget>>

\* The identity found at the path now, whoever wrote it.
RecordReplacement ==
  /\ pc = "record" /\ bytes[next + 1] # Absent
  /\ repl' = [repl EXCEPT ![next + 1] = id[next + 1]]
  /\ next' = next + 1
  /\ Go("verify")
  /\ UNCHANGED <<files, json, payload, phase, origBytes, origId,
                 finish, k, outcome, others, budget>>

\* capture_identity finds no file: commit returns an error.
RecordMissing ==
  /\ pc = "record" /\ bytes[next + 1] = Absent
  /\ Go("adopt")
  /\ UNCHANGED <<files, disk, finish, k, outcome, others, budget>>

CommitDone ==
  /\ pc = "verify" /\ next = N
  /\ phase' = "committed"
  /\ outcome' = "success"
  /\ Go("retire_payload")
  /\ UNCHANGED <<files, json, payload, next, repl, origBytes, origId,
                 finish, k, others, budget>>

-----------------------------------------------------------------------------
(* rollback_write_journal_in_roots, called by the tool body after a failed *)
(* commit and by run_recovery for a journal with no finish event.          *)

\* How a failed rollback ends: the live call is uncertain and keeps the
\* journal; recovery records a conflict, or gives up on any other error.
RollbackConflict ==
  IF mode = "live" THEN outcome' = "uncertain" /\ Go("finish")
                   ELSE outcome' = "conflict" /\ Go("recovery_finish")
RollbackError ==
  IF mode = "live" THEN outcome' = "uncertain" /\ Go("finish")
                   ELSE outcome' = "none" /\ Go("failed")

\* The replacement of entry next + 1 may have happened without its identity
\* being recorded.
AlreadyRecorded == next < N /\ repl[next + 1] # NoId
Unrecorded      == next < N /\ repl[next + 1] = NoId
NothingToAdopt  ==
  \/ next = N
  \/ Unrecorded /\ bytes[next + 1] = Absent /\ origBytes[next + 1] = Absent
  \/ Unrecorded /\ bytes[next + 1] # Absent
       /\ bytes[next + 1] = origBytes[next + 1] /\ id[next + 1] = origId[next + 1]
Adoptable == Unrecorded /\ bytes[next + 1] = "after" /\ ~NothingToAdopt

AdoptUnrecordedReplacement ==
  /\ pc = "adopt"
  /\ \/ /\ AlreadyRecorded
        /\ next' = next + 1 /\ repl' = repl
     \/ /\ Adoptable
        /\ next' = next + 1 /\ repl' = [repl EXCEPT ![next + 1] = id[next + 1]]
     \/ /\ NothingToAdopt
        /\ UNCHANGED <<next, repl>>
  /\ k' = next'
  /\ Go(IF next' = 0 THEN "rollback_store" ELSE "confirm")
  /\ UNCHANGED <<files, json, payload, phase, origBytes, origId,
                 finish, outcome, others, budget>>

AdoptConflict ==
  /\ pc = "adopt"
  /\ ~(AlreadyRecorded \/ Adoptable \/ NothingToAdopt)
  /\ RollbackConflict
  /\ UNCHANGED <<files, disk, finish, k, others, budget>>

\* (mutant) trusts the identity and does not hash the bytes.
IsReplacementByIdentity(i) == repl[i] = id[i]

\* The file at the path is the replacement this journal installed.
IsReplacement(i) ==
  /\ bytes[i] = "after"
  /\ \/ repl[i] = id[i]
     \/ repl[i] = NoId /\ origId[i] # id[i]

ConfirmReplacement ==
  /\ pc = "confirm" /\ IsReplacement(k)
  /\ repl' = [repl EXCEPT ![k] = id[k]]
  /\ Go("restore")
  /\ raced' = FALSE
  /\ UNCHANGED <<files, json, payload, phase, next, origBytes, origId,
                 finish, k, outcome, touched, budget>>

ConfirmConflict ==
  /\ pc = "confirm" /\ bytes[k] # Absent /\ ~IsReplacement(k)
  /\ RollbackConflict
  /\ UNCHANGED <<files, disk, finish, k, others, budget>>

\* hash_file cannot open a missing target: an I/O error, not a conflict.
ConfirmMissing ==
  /\ pc = "confirm" /\ bytes[k] = Absent
  /\ RollbackError
  /\ UNCHANGED <<files, disk, finish, k, others, budget>>

RestoreEntry ==
  /\ pc = "restore"
  /\ origBytes[k] # Absent => k \in payload
  /\ Install(k, origBytes[k])
  /\ Go("step_store")
  /\ UNCHANGED <<disk, finish, k, outcome, others, budget>>

\* The before- file is gone.
RestoreMissing ==
  /\ pc = "restore" /\ origBytes[k] # Absent /\ k \notin payload
  /\ RollbackError
  /\ UNCHANGED <<files, disk, finish, k, others, budget>>

StoreRollbackStep ==
  /\ pc = "step_store"
  /\ k' = k - 1 /\ next' = k - 1
  /\ Go(IF k = 1 THEN "rollback_store" ELSE "confirm")
  /\ UNCHANGED <<files, json, payload, phase, repl, origBytes, origId,
                 finish, outcome, others, budget>>

StoreRollbackRequired ==
  /\ pc = "rollback_store"
  /\ phase' = "rollback_required"
  /\ IF mode = "live" THEN outcome' = "error" /\ Go("retire_payload")
                      ELSE outcome' = "uncertain" /\ Go("recovery_finish")
  /\ UNCHANGED <<files, json, payload, next, repl, origBytes, origId,
                 finish, k, others, budget>>

-----------------------------------------------------------------------------
(* retire_write_journal *)

\* remove_dir_all unlinks the payload files one by one.
RetirePayload ==
  /\ pc = "retire_payload"
  /\ IF payload = {}
     THEN Go("retire_manifest") /\ UNCHANGED payload
     ELSE (\E i \in payload : payload' = payload \ {i}) /\ Go("retire_payload")
  /\ UNCHANGED <<files, json, phase, next, repl, origBytes, origId,
                 finish, k, outcome, others, budget>>

RetireManifest ==
  /\ pc = "retire_manifest"
  /\ json' = FALSE
  /\ Go(IF mode = "live" THEN "finish" ELSE "idle")
  /\ UNCHANGED <<files, payload, phase, next, repl, origBytes, origId,
                 finish, k, outcome, others, budget>>

-----------------------------------------------------------------------------
(* The finish event of the call, and the startup recovery *)

AppendFinish ==
  /\ pc = "finish"
  /\ finish' = outcome
  /\ Go(IF outcome = "uncertain" THEN "poisoned" ELSE "idle")
  /\ UNCHANGED <<files, disk, k, outcome, others, budget>>

\* The session is resumed: by the user after a stop, or simply again.
Reopen ==
  /\ pc \in Stopped
  /\ pc' = "check" /\ mode' = "recovery" /\ outcome' = "none" /\ k' = 0
  /\ UNCHANGED <<files, disk, finish, others, budget>>

\* (mutant) forgets the journal of a call that has a finish, whatever it says.
RecoveryForgetsConflict ==
  /\ pc = "check" /\ finish = "uncertain" /\ json
  /\ Go("idle")
  /\ UNCHANGED <<files, disk, finish, k, outcome, others, budget>>

\* An uncertain call that still has a journal makes the session read-only.
RecoveryFindsConflict ==
  /\ pc = "check" /\ finish = "uncertain" /\ json
  /\ Go("readonly")
  /\ UNCHANGED <<files, disk, finish, k, outcome, others, budget>>

RecoveryFindsFinish ==
  /\ pc = "check" /\ finish # "none" /\ ~(finish = "uncertain" /\ json)
  /\ Go("idle")
  /\ UNCHANGED <<files, disk, finish, k, outcome, others, budget>>

\* Started and never finished: roll the journal back if there is one.
RecoveryRollsBack ==
  /\ pc = "check" /\ finish = "none"
  /\ IF json THEN Go("adopt") /\ UNCHANGED outcome
             ELSE Go("recovery_finish") /\ outcome' = "uncertain"
  /\ UNCHANGED <<files, disk, finish, k, others, budget>>

\* (mutant) retires the journal although the rollback hit a conflict.
AppendUncertainAndRetire ==
  /\ pc = "recovery_finish"
  /\ finish' = "uncertain" /\ Go("retire_payload")
  /\ UNCHANGED <<files, disk, k, outcome, others, budget>>

AppendUncertain ==
  /\ pc = "recovery_finish"
  /\ finish' = "uncertain"
  /\ Go(IF outcome = "conflict" THEN "readonly" ELSE "retire_payload")
  /\ UNCHANGED <<files, disk, k, outcome, others, budget>>

-----------------------------------------------------------------------------
(* The environment *)

Crash ==
  /\ pc \in CrashPoints /\ crashes < MaxCrashes
  /\ pc' = "down" /\ crashes' = crashes + 1
  /\ UNCHANGED <<files, disk, finish, mode, k, outcome, others, edits, faults>>

\* An I/O call of the current step fails, and its caller takes the error path.
\* store_journal may fail after its rename, so prepare may leave a manifest.
Fault ==
  /\ pc \in FaultPoints /\ faults < MaxFaults
  /\ faults' = faults + 1
  /\ IF pc = "prepare_store" THEN json' \in BOOLEAN ELSE UNCHANGED json
  /\ CASE pc \in {"capture", "prepare_store"} -> outcome' = "error" /\ Go("finish")
       [] pc \in {"verify", "replace", "record"} -> Go("adopt") /\ UNCHANGED outcome
       [] pc \in Rollback \cup Retire -> RollbackError
       [] OTHER -> Go("failed") /\ outcome' = "none"
  /\ UNCHANGED <<files, payload, phase, next, repl, origBytes, origId,
                 finish, k, others, edits, crashes>>

\* The entry whose check passed and whose rename has not happened yet: nothing
\* keeps somebody else from writing it in between.
InWindow(i) == \/ pc = "replace" /\ i = next + 1
               \/ pc = "restore" /\ i = k

ExternalEdit(i) ==
  /\ edits < MaxEdits
  /\ \E b \in {"external", "after", Absent} : bytes' = [bytes EXCEPT ![i] = b]
  /\ id' = [id EXCEPT ![i] = @ + 1]
  /\ touched' = touched \cup {i} /\ foreign' = foreign \cup {i}
  /\ raced' = (raced \/ InWindow(i))
  /\ edits' = edits + 1
  /\ UNCHANGED <<disk, finish, proc, crashes, faults>>

-----------------------------------------------------------------------------
Commit == \/ CaptureEntry \/ StorePrepared \/ VerifyOriginal \/ VerifyConflict
          \/ AtomicReplace \/ RecordReplacement \/ RecordMissing \/ CommitDone
RollBack == \/ AdoptUnrecordedReplacement \/ AdoptConflict
            \/ ConfirmReplacement \/ ConfirmConflict \/ ConfirmMissing
            \/ RestoreEntry \/ RestoreMissing
            \/ StoreRollbackStep \/ StoreRollbackRequired
Conclude == \/ RetirePayload \/ RetireManifest \/ AppendFinish
Recover == \/ RecoveryFindsConflict \/ RecoveryFindsFinish \/ RecoveryRollsBack
           \/ AppendUncertain
Program == Commit \/ RollBack \/ Conclude \/ Recover

Next == Program \/ Reopen \/ Crash \/ Fault \/ \E i \in Entry : ExternalEdit(i)

Spec == Init /\ [][Next]_vars

\* The process keeps running once started, and the user comes back.
FairSpec == Spec /\ WF_vars(Program) /\ WF_vars(Reopen)

-----------------------------------------------------------------------------
(* Properties *)

\* Every variable stays in its domain.
TypeOK ==
  /\ bytes \in [Entry -> Bytes] /\ id \in [Entry -> Nat]
  /\ json \in BOOLEAN /\ payload \subseteq Entry
  /\ phase \in {"prepared", "committing", "committed", "rollback_required"}
  /\ next \in 0..N /\ repl \in [Entry -> Nat]
  /\ origBytes \in [Entry -> Bytes] /\ origId \in [Entry -> Nat]
  /\ finish \in {"none", "success", "error", "uncertain"}
  /\ pc \in Running \cup Stopped /\ mode \in {"live", "recovery"}
  /\ k \in 0..N
  /\ outcome \in {"none", "success", "error", "uncertain", "conflict"}
  /\ touched \subseteq Entry /\ raced \in BOOLEAN /\ foreign \subseteq touched
  /\ edits \in 0..MaxEdits /\ crashes \in 0..MaxCrashes /\ faults \in 0..MaxFaults

Untouched == Entry \ touched
AllAfter  == \A i \in Untouched : bytes[i] = "after"
AllBefore == \A i \in Untouched : bytes[i] = Original(i)

\* Whenever no manifest is on disk the batch is all-or-nothing: the files
\* nobody else edited are all replaced or all as they were.  retire_write_journal
\* removes the manifest last for exactly this.
NeverTorn == ~json => AllAfter \/ AllBefore

\* The status the model is told is true of the files: success means every file
\* was replaced, an I/O error ("rollback proved") means every file is back.
OutcomeTruthful ==
  /\ finish = "success" => AllAfter
  /\ finish = "error" => AllBefore

\* The program replaces or removes bytes somebody else wrote after the call recorded
\* the original only when that write came between the check of the target and its
\* rename: through every commit, rollback and recovery, an earlier write is kept.
ExternalBytesSurvive ==
  [][\A i \in foreign :
       bytes[i] = "external" /\ i \notin foreign' => pc = "capture" \/ raced]_vars

\* The module's promise as it is written, of a file that changed after the execution
\* recorded its original: it is "left untouched" (journal.rs:2).
ExternalBytesUntouched ==
  [][\A i \in foreign : bytes[i] = "external" /\ i \notin foreign' => pc = "capture"]_vars

\* While the batch is half done, the before- image of every replaced file that
\* existed is still on disk: somebody can still put it back.
TornHasBeforeImage ==
  ~(AllAfter \/ AllBefore) =>
    \A i \in Untouched \cap Existed : bytes[i] = "after" => json /\ i \in payload

\* A session is made read-only by a rollback conflict only if somebody else
\* really touched one of the files.
ConflictNeedsEdit == pc = "readonly" => touched # {}

\* A journal never stays under a session that works: however the process stopped and
\* whatever failed, it is retired, or the session is refused or read-only.  The one
\* journal that may stay is the manifest of a call whose store_journal failed after
\* its rename; that call replaced nothing.
JournalSettled ==
  json ~> ~json \/ pc \in {"failed", "readonly"} \/ (finish = "error" /\ AllBefore)
=============================================================================
