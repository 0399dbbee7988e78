--------------------------- MODULE JournalProofs ---------------------------
(***************************************************************************)
(* The two journals of the core.                                           *)
(*                                                                         *)
(* WriteJournal: NeverTorn, OutcomeTruthful and ExternalBytesSurvive for   *)
(* any number of files, stops, failed calls and foreign edits, by one      *)
(* inductive invariant (IInv).                                             *)
(*                                                                         *)
(* HostOperations: what the rows of the operation ledger and the journals  *)
(* of its writes say of the store, the settings and the target, for any    *)
(* processes, ids, requests, kills and failures, by another (HostInv).     *)
(***************************************************************************)
EXTENDS WriteJournal, HostOperations, WellFoundedInduction, TLAPS

-----------------------------------------------------------------------------
(* The write journal *)

\* The before-image is the file as it was, once it has been taken.
Captured ==
  \A i \in Untouched :
    json \/ pc = "prepare_store" \/ (pc = "capture" /\ i <= k)
      => origBytes[i] = Original(i)

\* The manifest never lags more than one entry behind the files.
BeyondNext == json => \A i \in Untouched : i > next + 1 => bytes[i] = Original(i)

Settled == AllAfter \/ AllBefore

Preparing == pc \in {"capture", "prepare_store"} =>
  mode = "live" /\ finish = "none" /\ ~json /\ next = 0 /\ AllBefore

Committing == pc \in {"verify", "replace", "record"} =>
  /\ mode = "live" /\ finish = "none" /\ json
  /\ pc # "verify" => next < N
  /\ \A i \in Untouched :
       IF i <= next \/ (pc = "record" /\ i = next + 1)
       THEN bytes[i] = "after" ELSE bytes[i] = Original(i)

RollingBack == pc \in Rollback =>
  /\ finish = "none" /\ json
  /\ pc \in {"confirm", "restore", "step_store"} => k > 0
  /\ pc \in {"confirm", "restore"} =>
       \A i \in Untouched : i > k => bytes[i] = Original(i)
  /\ pc = "step_store" => \A i \in Untouched : i >= k => bytes[i] = Original(i)
  /\ pc = "rollback_store" => AllBefore

Truthful(end) == /\ end = "success" => AllAfter
                 /\ end = "error" => AllBefore

Retiring == pc \in Retire =>
  /\ Settled
  /\ mode = "live" => finish = "none" /\ outcome \in {"success", "error"}
                      /\ Truthful(outcome)
  /\ mode = "recovery" => finish = "uncertain"

Appending ==
  /\ pc = "finish" => /\ mode = "live" /\ finish = "none"
                      /\ outcome \in {"success", "error", "uncertain"}
                      /\ Truthful(outcome)
  /\ pc = "recovery_finish" => /\ mode = "recovery" /\ finish = "none"
                               /\ outcome \in {"uncertain", "conflict"}
                               /\ outcome = "uncertain" => Settled
  /\ pc = "check" => mode = "recovery"

IInv == /\ TypeOK /\ Captured /\ BeyondNext /\ NeverTorn /\ OutcomeTruthful
        /\ Preparing /\ Committing /\ RollingBack /\ Retiring /\ Appending

-----------------------------------------------------------------------------
(* Type correctness *)

\* Init and every step of the program, of a crash and of an editor keep every
\* variable in its domain.
LEMMA TypeInit == Init => TypeOK
<1> SUFFICES ASSUME Init PROVE TypeOK
  OBVIOUS
<1> USE WriteJournalAssumption DEF WriteJournalAssumption, Init
<1>1. bytes \in [Entry -> Bytes] /\ origBytes \in [Entry -> Bytes]
  BY DEF Original, Bytes
<1>2. id \in [Entry -> Nat] /\ repl \in [Entry -> Nat] /\ origId \in [Entry -> Nat]
  BY DEF NoId
<1>3. next \in 0..N /\ k \in 0..N
  OBVIOUS
<1>4. edits \in 0..MaxEdits /\ crashes \in 0..MaxCrashes /\ faults \in 0..MaxFaults
  OBVIOUS
<1>5. pc \in Running \cup Stopped
  BY DEF Running, Live
<1> QED
  BY <1>1, <1>2, <1>3, <1>4, <1>5 DEF TypeOK

\* Every step keeps the types.
LEMMA TypeStep == IInv /\ [Next]_vars => TypeOK'
<1> SUFFICES ASSUME IInv, [Next]_vars PROVE TypeOK'
  OBVIOUS
<1> USE WriteJournalAssumption
    DEF WriteJournalAssumption, IInv, TypeOK, Running, Stopped, Live, Rollback,
        Retire, Appends, Go, files, disk, proc, others, budget
<1>1. CASE CaptureEntry
  <2>1. k' \in 0..N /\ k + 1 \in Entry
    BY <1>1 DEF CaptureEntry, Entry
  <2> QED
    BY <1>1, <2>1 DEF CaptureEntry, NoId
<1>2. CASE StorePrepared
  BY <1>2 DEF StorePrepared
<1>3. CASE VerifyOriginal
  BY <1>3 DEF VerifyOriginal
<1>4. CASE VerifyConflict
  BY <1>4 DEF VerifyConflict
<1>5. CASE AtomicReplace
  <2>1. bytes' \in [Entry -> Bytes]
    BY <1>5 DEF AtomicReplace, Install, Bytes
  <2>2. next + 1 \in Entry
    BY <1>5 DEF AtomicReplace, Committing, Entry
  <2>3. id' \in [Entry -> Nat]
    BY <1>5, <2>2 DEF AtomicReplace, Install
  <2>4. foreign' \subseteq touched'
    BY <1>5 DEF AtomicReplace, Install
  <2> QED
    BY <1>5, <2>1, <2>3, <2>4 DEF AtomicReplace
<1>6. CASE RecordReplacement
  BY <1>6, SMTT(30) DEF RecordReplacement, Committing, Entry
<1>7. CASE RecordMissing
  BY <1>7 DEF RecordMissing
<1>8. CASE CommitDone
  BY <1>8 DEF CommitDone
<1>9. CASE AdoptUnrecordedReplacement
  <2>1. next' \in 0..N /\ k' \in 0..N
    BY <1>9 DEF AdoptUnrecordedReplacement, AlreadyRecorded, Adoptable, Unrecorded
  <2>2. repl' \in [Entry -> Nat]
    BY <1>9 DEF AdoptUnrecordedReplacement, Adoptable, Unrecorded, Entry
  <2> QED
    BY <1>9, <2>1, <2>2 DEF AdoptUnrecordedReplacement
<1>10. CASE AdoptConflict
  BY <1>10 DEF AdoptConflict, RollbackConflict
<1>11. CASE ConfirmReplacement
  BY <1>11 DEF ConfirmReplacement, Entry
<1>12. CASE ConfirmConflict
  BY <1>12 DEF ConfirmConflict, RollbackConflict
<1>13. CASE ConfirmMissing
  BY <1>13 DEF ConfirmMissing, RollbackError
<1>14. CASE RestoreEntry
  BY <1>14, SMTT(30) DEF RestoreEntry, Install, RollingBack, Entry
<1>15. CASE RestoreMissing
  BY <1>15 DEF RestoreMissing, RollbackError
<1>16. CASE StoreRollbackStep
  BY <1>16 DEF StoreRollbackStep, RollingBack, Entry
<1>17. CASE StoreRollbackRequired
  BY <1>17 DEF StoreRollbackRequired
<1>18. CASE RetirePayload
  BY <1>18 DEF RetirePayload
<1>19. CASE RetireManifest
  BY <1>19 DEF RetireManifest
<1>20. CASE AppendFinish
  BY <1>20 DEF AppendFinish, Appending
<1>21. CASE RecoveryFindsConflict
  BY <1>21 DEF RecoveryFindsConflict
<1>22. CASE RecoveryFindsFinish
  BY <1>22 DEF RecoveryFindsFinish
<1>23. CASE RecoveryRollsBack
  BY <1>23 DEF RecoveryRollsBack
<1>24. CASE AppendUncertain
  BY <1>24 DEF AppendUncertain
<1>25. CASE Reopen
  BY <1>25 DEF Reopen
<1>26. CASE Crash
  BY <1>26 DEF Crash
<1>27. CASE Fault
  BY <1>27 DEF Fault, RollbackError
<1>28. CASE \E i \in Entry : ExternalEdit(i)
  BY <1>28 DEF ExternalEdit, Bytes, Absent
<1>29. CASE UNCHANGED vars
  BY <1>29 DEF vars
<1> QED
  BY <1>1, <1>2, <1>3, <1>4, <1>5, <1>6, <1>7, <1>8, <1>9, <1>10, <1>11, <1>12, <1>13, <1>14, <1>15, <1>16, <1>17, <1>18, <1>19, <1>20, <1>21, <1>22, <1>23, <1>24, <1>25, <1>26, <1>27, <1>28, <1>29 DEF Next, Program, Commit, RollBack, Conclude, Recover

-----------------------------------------------------------------------------
(* The inductive invariant *)

\* Every step preserves the invariant.
LEMMA Inductive == IInv /\ [Next]_vars => IInv'
<1> SUFFICES ASSUME IInv, [Next]_vars PROVE IInv'
  OBVIOUS
<1>0. TypeOK'
  BY TypeStep
<1> USE WriteJournalAssumption, <1>0
    DEF WriteJournalAssumption, IInv, TypeOK, Captured, BeyondNext, NeverTorn,
        OutcomeTruthful, Preparing, Committing, RollingBack, Retiring, Appending,
        Settled, Truthful, AllAfter, AllBefore, Untouched, Entry,
        Live, Rollback, Retire, Go, files, disk, proc, others, budget
<1>1. CASE CaptureEntry
  <2>1. k' = k + 1 /\ \A i \in Entry : bytes'[i] = bytes[i]
    BY <1>1 DEF CaptureEntry
  <2>2. \A i \in Entry : origBytes'[i] = IF i = k + 1 THEN bytes[i] ELSE origBytes[i]
    BY <1>1 DEF CaptureEntry
  <2>3. Captured'
    <3> SUFFICES ASSUME NEW i \in Untouched, i <= k + 1
                 PROVE origBytes'[i] = Original(i)
      BY <1>1, <2>1 DEF CaptureEntry
    <3>1. bytes[i] = Original(i)
      BY <1>1 DEF CaptureEntry
    <3>2. i <= k => origBytes[i] = Original(i)
      BY <1>1 DEF CaptureEntry
    <3> QED
      BY <2>2, <3>1, <3>2
  <2> QED
    BY <1>1, <2>1, <2>3 DEF CaptureEntry
<1>2. CASE StorePrepared
  BY <1>2 DEF StorePrepared
<1>3. CASE VerifyOriginal
  BY <1>3 DEF VerifyOriginal, IsOriginal
<1>4. CASE VerifyConflict
  BY <1>4 DEF VerifyConflict
<1>5. CASE AtomicReplace
  <2>1. \A i \in Entry : bytes'[i] = IF i = next + 1 THEN "after" ELSE bytes[i]
    BY <1>5 DEF AtomicReplace, Install
  <2>2. next < N /\ json /\ mode = "live" /\ finish = "none"
    BY <1>5 DEF AtomicReplace
  <2>3. Committing'
    BY <1>5, <2>1, <2>2 DEF AtomicReplace
  <2>4. BeyondNext'
    BY <1>5, <2>1 DEF AtomicReplace
  <2> QED
    BY <1>5, <2>2, <2>3, <2>4 DEF AtomicReplace
<1>6. CASE RecordReplacement
  BY <1>6, SMTT(30) DEF RecordReplacement
<1>7. CASE RecordMissing
  BY <1>7 DEF RecordMissing
<1>8. CASE CommitDone
  BY <1>8, SMTT(30) DEF CommitDone
<1>9. CASE AdoptUnrecordedReplacement
  <2>1. json /\ finish = "none" /\ k' = next' /\ bytes' = bytes /\ touched' = touched
    BY <1>9 DEF AdoptUnrecordedReplacement
  <2>2. \A i \in Untouched : i > next' => bytes[i] = Original(i)
    <3>1. CASE next' = next + 1
      BY <1>9, <3>1 DEF AdoptUnrecordedReplacement
    <3>2. CASE NothingToAdopt /\ next' = next
      BY <1>9, <3>2 DEF AdoptUnrecordedReplacement, NothingToAdopt, Unrecorded
    <3> QED
      BY <1>9, <3>1, <3>2 DEF AdoptUnrecordedReplacement
  <2>3. RollingBack'
    BY <1>9, <2>1, <2>2 DEF AdoptUnrecordedReplacement
  <2>4. json' /\ pc' \in {"confirm", "rollback_store"} /\ UNCHANGED <<mode, origBytes, finish>>
    BY <1>9, <2>1 DEF AdoptUnrecordedReplacement
  <2>5. Captured'
    BY <2>1, <2>4
  <2>6. BeyondNext'
    <3>1. CASE next' = next
      BY <2>1, <3>1
    <3>2. CASE next' = next + 1
      BY <2>1, <3>2
    <3> QED
      BY <1>9, <3>1, <3>2 DEF AdoptUnrecordedReplacement
  <2> QED
    BY <2>1, <2>3, <2>4, <2>5, <2>6
<1>10. CASE AdoptConflict
  BY <1>10 DEF AdoptConflict, RollbackConflict
<1>11. CASE ConfirmReplacement
  BY <1>11 DEF ConfirmReplacement
<1>12. CASE ConfirmConflict
  BY <1>12 DEF ConfirmConflict, RollbackConflict
<1>13. CASE ConfirmMissing
  BY <1>13 DEF ConfirmMissing, RollbackError
<1>14. CASE RestoreEntry
  <2>1. \A i \in Entry : bytes'[i] = IF i = k THEN origBytes[i] ELSE bytes[i]
    BY <1>14 DEF RestoreEntry, Install
  <2>2. json /\ finish = "none" /\ k > 0
    BY <1>14 DEF RestoreEntry
  <2>3. RollingBack'
    BY <1>14, <2>1, <2>2 DEF RestoreEntry
  <2>4. BeyondNext'
    BY <1>14, <2>1, <2>2 DEF RestoreEntry
  <2> QED
    BY <1>14, <2>2, <2>3, <2>4 DEF RestoreEntry
<1>15. CASE RestoreMissing
  BY <1>15 DEF RestoreMissing, RollbackError
<1>16. CASE StoreRollbackStep
  <2>1. /\ pc = "step_store" /\ k' = k - 1 /\ next' = k - 1
        /\ pc' = IF k = 1 THEN "rollback_store" ELSE "confirm"
        /\ UNCHANGED <<files, json, payload, mode, origBytes, finish, outcome, touched>>
    BY <1>16 DEF StoreRollbackStep
  <2>2. json /\ finish = "none" /\ k > 0 /\ \A i \in Untouched : i >= k => bytes[i] = Original(i)
    BY <2>1
  <2>3. k = 1 => AllBefore'
    BY <2>1, <2>2
  <2>4. RollingBack'
    BY <2>1, <2>2, <2>3
  <2>5. Captured'
    BY <2>1, <2>2
  <2>6. BeyondNext'
    BY <2>1, <2>2
  <2>7. NeverTorn' /\ OutcomeTruthful'
    BY <2>1, <2>2
  <2>8. Preparing' /\ Committing' /\ Retiring' /\ Appending'
    BY <2>1
  <2> QED
    BY <2>4, <2>5, <2>6, <2>7, <2>8
<1>17. CASE StoreRollbackRequired
  BY <1>17 DEF StoreRollbackRequired
<1>18. CASE RetirePayload
  BY <1>18 DEF RetirePayload
<1>19. CASE RetireManifest
  BY <1>19 DEF RetireManifest
<1>20. CASE AppendFinish
  BY <1>20 DEF AppendFinish
<1>21. CASE RecoveryFindsConflict
  BY <1>21 DEF RecoveryFindsConflict
<1>22. CASE RecoveryFindsFinish
  BY <1>22 DEF RecoveryFindsFinish
<1>23. CASE RecoveryRollsBack
  BY <1>23 DEF RecoveryRollsBack
<1>24. CASE AppendUncertain
  BY <1>24 DEF AppendUncertain
<1>25. CASE Reopen
  BY <1>25 DEF Reopen
<1>26. CASE Crash
  BY <1>26 DEF Crash
<1>27. CASE Fault
  BY <1>27 DEF Fault, RollbackError
<1>28. CASE \E i \in Entry : ExternalEdit(i)
  <2> PICK j \in Entry : ExternalEdit(j)
    BY <1>28
  <2>1. touched' = touched \cup {j} /\ \A i \in Entry : i # j => bytes'[i] = bytes[i]
    BY DEF ExternalEdit
  <2>2. /\ Untouched' = Untouched \ {j}
        /\ \A i \in Untouched' : bytes'[i] = bytes[i] /\ i \in Untouched
    BY <2>1
  <2>3. UNCHANGED <<disk, finish, proc>>
    BY DEF ExternalEdit
  <2> HIDE DEF Untouched
  <2>4. (AllAfter => AllAfter') /\ (AllBefore => AllBefore')
    BY <2>2
  <2>5. Captured' /\ BeyondNext'
    BY <2>2, <2>3
  <2>6. NeverTorn' /\ OutcomeTruthful'
    BY <2>3, <2>4
  <2>7. Preparing' /\ Committing'
    BY <2>2, <2>3, <2>4
  <2>8. RollingBack'
    BY <2>2, <2>3, <2>4
  <2>9. Retiring' /\ Appending'
    BY <2>3, <2>4
  <2> QED
    BY <2>5, <2>6, <2>7, <2>8, <2>9
<1>29. CASE UNCHANGED vars
  BY <1>29 DEF vars
<1> QED
  BY <1>1, <1>2, <1>3, <1>4, <1>5, <1>6, <1>7, <1>8, <1>9, <1>10, <1>11, <1>12, <1>13, <1>14, <1>15, <1>16, <1>17, <1>18, <1>19, <1>20, <1>21, <1>22, <1>23, <1>24, <1>25, <1>26, <1>27, <1>28, <1>29 DEF Next, Program, Commit, RollBack, Conclude, Recover

-----------------------------------------------------------------------------
(* The theorems *)

\* The invariant holds of an empty journal directory.
LEMMA InvInit == Init => IInv
<1> SUFFICES ASSUME Init PROVE IInv
  OBVIOUS
<1>1. TypeOK
  BY TypeInit
<1> QED
  BY <1>1 DEF Init, IInv, Captured, BeyondNext, NeverTorn, OutcomeTruthful, Preparing,
     Committing, RollingBack, Retiring, Appending, AllBefore, Untouched,
     Rollback, Retire, Entry

\* The inductive invariant holds in every reachable state, wherever the process
\* stops, calls fail and others edit.
THEOREM SpecInv == Spec => []IInv
  BY InvInit, Inductive, PTL DEF Spec

\* Every variable stays in its domain.
THEOREM SpecTypeOK == Spec => []TypeOK
<1>1. IInv => TypeOK
  BY DEF IInv
<1> QED
  BY <1>1, SpecInv, PTL

\* A batch without a manifest is never half applied (retire_write_journal
\* removes the manifest last).
THEOREM SpecNeverTorn == Spec => []NeverTorn
<1>1. IInv => NeverTorn
  BY DEF IInv
<1> QED
  BY <1>1, SpecInv, PTL

\* The durable status of the call is true of the files it names.
THEOREM SpecOutcomeTruthful == Spec => []OutcomeTruthful
<1>1. IInv => OutcomeTruthful
  BY DEF IInv
<1> QED
  BY <1>1, SpecInv, PTL

-----------------------------------------------------------------------------
(* The bytes of others *)

\* A version somebody else wrote is newer than the one that was captured.
NewerThanCaptured ==
  \A i \in Entry : /\ id[i] > 0 /\ origId[i] <= id[i]
                   /\ i \in foreign => origId[i] < id[i]

\* What a check has found still holds when the rename comes, unless somebody edited
\* that target in between.
Checked == /\ pc = "replace" /\ ~raced => IsOriginal(next + 1)
           /\ pc = "restore" /\ ~raced => bytes[k] = "after"

\* The files and what was captured of them stay, and no rename comes next.
Aside == UNCHANGED <<bytes, id, foreign, origBytes, origId>> /\ pc' \notin {"replace", "restore"}

LEMMA AsideSteps ==
  ASSUME [Next]_vars, ~CaptureEntry, ~VerifyOriginal, ~AtomicReplace, ~ConfirmReplacement,
         ~RestoreEntry, ~(\E i \in Entry : ExternalEdit(i)), ~UNCHANGED vars
  PROVE  Aside
<1> USE DEF Aside, Go, files, disk, RollbackConflict, RollbackError
<1>1. CASE StorePrepared \/ VerifyConflict \/ RecordReplacement \/ RecordMissing \/ CommitDone
  BY <1>1 DEF StorePrepared, VerifyConflict, RecordReplacement, RecordMissing, CommitDone
<1>2. CASE AdoptUnrecordedReplacement \/ AdoptConflict \/ ConfirmConflict \/ ConfirmMissing
  BY <1>2 DEF AdoptUnrecordedReplacement, AdoptConflict, ConfirmConflict, ConfirmMissing
<1>3. CASE RestoreMissing \/ StoreRollbackStep \/ StoreRollbackRequired
  BY <1>3 DEF RestoreMissing, StoreRollbackStep, StoreRollbackRequired
<1>4. CASE Conclude
  BY <1>4 DEF Conclude, RetirePayload, RetireManifest, AppendFinish
<1>5. CASE Recover
  BY <1>5 DEF Recover, RecoveryFindsConflict, RecoveryFindsFinish, RecoveryRollsBack, AppendUncertain
<1>6. CASE Reopen \/ Crash
  BY <1>6 DEF Reopen, Crash
<1>7. CASE Fault
  BY <1>7 DEF Fault
<1> QED
  BY <1>1, <1>2, <1>3, <1>4, <1>5, <1>6, <1>7 DEF Next, Program, Commit, RollBack

LEMMA CheckedStep ==
  ASSUME IInv, NewerThanCaptured, Checked, [Next]_vars
  PROVE  NewerThanCaptured' /\ Checked'
<1> USE WriteJournalAssumption
    DEF WriteJournalAssumption, IInv, TypeOK, NewerThanCaptured, Checked, IsOriginal, Go, files,
        disk, proc
<1>1. CASE CaptureEntry
  <2>1. k + 1 \in Entry /\ pc' \notin {"replace", "restore"}
    BY <1>1 DEF CaptureEntry, Entry
  <2>2. /\ UNCHANGED id /\ foreign' = foreign \ {k + 1}
        /\ \A i \in Entry : origId'[i] = IF i = k + 1 THEN (IF bytes[k + 1] = Absent THEN NoId ELSE id[k + 1])
                                                      ELSE origId[i]
    BY <1>1 DEF CaptureEntry
  <2> QED
    BY <2>1, <2>2 DEF NoId
<1>2. CASE VerifyOriginal
  BY <1>2 DEF VerifyOriginal
<1>3. CASE AtomicReplace
  <2>1. next + 1 \in Entry /\ pc' = "record"
    BY <1>3 DEF AtomicReplace, Committing, Entry
  <2>2. /\ UNCHANGED origId /\ foreign' = foreign \ {next + 1}
        /\ \A i \in Entry : id'[i] = IF i = next + 1 THEN id[i] + 1 ELSE id[i]
    BY <1>3, <2>1 DEF AtomicReplace, Install
  <2> QED
    BY <2>1, <2>2
<1>4. CASE ConfirmReplacement
  BY <1>4 DEF ConfirmReplacement, IsReplacement
<1>5. CASE RestoreEntry
  <2>1. k \in Entry /\ pc' = "step_store"
    BY <1>5 DEF RestoreEntry, RollingBack, Rollback, Entry
  <2>2. /\ UNCHANGED origId /\ foreign' = foreign \ {k}
        /\ \A i \in Entry : id'[i] = IF i = k THEN id[i] + 1 ELSE id[i]
    BY <1>5, <2>1 DEF RestoreEntry, Install
  <2> QED
    BY <2>1, <2>2
<1>6. CASE \E i \in Entry : ExternalEdit(i)
  <2> PICK j \in Entry : ExternalEdit(j)
    BY <1>6
  <2>1. /\ UNCHANGED <<disk, proc>> /\ foreign' = foreign \cup {j} /\ raced' = (raced \/ InWindow(j))
        /\ \A i \in Entry : id'[i] = IF i = j THEN id[i] + 1 ELSE id[i]
        /\ \A i \in Entry : i # j => bytes'[i] = bytes[i]
    BY DEF ExternalEdit
  <2>2. NewerThanCaptured'
    BY <2>1
  <2>3. ~raced' => /\ ~raced
                   /\ pc = "replace" => next + 1 # j
                   /\ pc = "restore" => k # j
    BY <2>1, Zenon DEF InWindow
  <2>4. /\ pc = "replace" => next + 1 \in Entry
        /\ pc = "restore" => k \in Entry
    BY DEF Committing, RollingBack, Rollback, Entry
  <2> QED
    BY <2>1, <2>2, <2>3, <2>4
<1>7. CASE UNCHANGED vars
  BY <1>7 DEF vars
<1>8. CASE Aside
  BY <1>8 DEF Aside
<1> QED
  BY <1>1, <1>2, <1>3, <1>4, <1>5, <1>6, <1>7, <1>8, AsideSteps

\* Nobody else's bytes are overwritten or removed after the capture, in the call and in
\* every recovery from it, unless they were written between the check of that very
\* target and its rename: every rename follows a check, and the check tells another's
\* version from the one it may replace.
THEOREM SpecExternalBytesSurvive == Spec => ExternalBytesSurvive
<1> DEFINE Inv == IInv /\ NewerThanCaptured /\ Checked
           Step == \A i \in foreign : bytes[i] = "external" /\ i \notin foreign' => pc = "capture" \/ raced
<1>1. Init => Inv
  BY InvInit DEF Init, NewerThanCaptured, Checked, NoId
<1>2. Inv /\ [Next]_vars => Inv'
  BY Inductive, CheckedStep
<1>3. Inv /\ [Next]_vars => [Step]_vars
  <2> SUFFICES ASSUME Inv, [Next]_vars, NEW i \in foreign, bytes[i] = "external", i \notin foreign'
               PROVE  pc = "capture" \/ raced
    OBVIOUS
  <2>1. i \in Entry
    BY DEF IInv, TypeOK
  <2>2. CASE CaptureEntry
    BY <2>2 DEF CaptureEntry
  <2>3. CASE VerifyOriginal \/ ConfirmReplacement \/ UNCHANGED vars
    BY <2>3 DEF VerifyOriginal, ConfirmReplacement, files, vars
  <2>4. CASE AtomicReplace
    <3>1. i = next + 1 /\ (raced \/ IsOriginal(i))
      BY <2>4 DEF AtomicReplace, Install, Checked
    <3> QED
      BY <2>1, <3>1 DEF IsOriginal, NewerThanCaptured, IInv, TypeOK, Absent
  <2>5. CASE RestoreEntry
    BY <2>5 DEF RestoreEntry, Install, Checked
  <2>6. CASE \E j \in Entry : ExternalEdit(j)
    BY <2>6 DEF ExternalEdit
  <2>7. CASE Aside
    BY <2>7 DEF Aside
  <2> QED
    BY <2>2, <2>3, <2>4, <2>5, <2>6, <2>7, AsideSteps
<1> QED
  BY <1>1, <1>2, <1>3, PTL DEF Spec, ExternalBytesSurvive

-----------------------------------------------------------------------------
(* The operation ledger and the host journal: the invariant *)

Waiting == {"down", "idle"}
Recoveries == {"recover", "rclean", "reserved"}
Writes == {"manifest", "before", "after", "replace", "stage", "commit"}
Ends == {"stage2", "clean"}
Setups == {"load", "save", "config", "complete"}
Labels == Waiting \cup Recoveries \cup Writes \cup Ends \cup Setups \cup {"lookup", "reserve"}

IsStore(s) == s = [revision |-> s.revision, keys |-> s.keys] /\ s.revision \in Nat

TypeInv ==
  /\ status \in [Op -> Statuses] /\ request \in [Op -> Request \cup {Nothing}]
  /\ settings \in Seq(Op) /\ old \subseteq Op
  /\ at \in [Proc -> Labels]
  /\ call \in [Proc -> [op : Op \cup {0}, request : Request \cup {Nothing}, overtaken : BOOLEAN]]
  /\ IsStore(store) /\ config \in Op \cup {0}
  /\ copy = [p \in Proc |-> copy[p]] /\ \A p \in Proc : IsStore(copy[p])
  /\ temp \subseteq Proc \X {"save", "config"}
  /\ applied \subseteq Op /\ refused \subseteq Op /\ installed \subseteq Op
  /\ target \in Op \cup {0}
  /\ revision \in [number : Nat, names : Op \cup {0}]
  /\ manifest \in [Op -> {"absent", "torn", "whole"}]
  /\ before \in [Op -> {"absent", "torn", "whole"}]
  /\ after \in [Op -> {"absent", "torn", "whole"}]
  /\ plan \in [Op -> [number : Nat, bytes : Op \cup {0}]]
  /\ todo \subseteq Op

\* A process has a call exactly where it works on one, under an id that was not pruned.
CallInv ==
  \A p \in Proc :
    IF at[p] \in Waiting \cup Recoveries THEN call[p] = NoCall
    ELSE call[p].op \in Op \ old /\ call[p].request \in Offers[call[p].op]

\* Who recovers is alone; one journaled write is sent at a time.
AloneInv ==
  /\ \A p, r \in Proc : at[p] \in Recoveries /\ r # p => at[r] = "down"
  /\ \A p, r \in Proc : Journaled(call[p]) /\ Journaled(call[r]) => p = r

\* What a call has done when it is at a step.
StepOf(p) ==
  LET o == call[p].op
      q == call[p].request
  IN /\ at[p] \in Writes \cup Ends \cup Setups => status[o] # "none" /\ request[o] = q
     /\ at[p] \in Writes \cup Ends => q.kind = "consent"
     /\ at[p] \in Setups => q.kind # "consent" /\ (call[p].overtaken \/ status[o] = "reserved")
     /\ at[p] = "complete" => q.kind = "shutdown" \/ o \in applied
     /\ at[p] \in Writes => status[o] = "reserved"
     /\ at[p] \in Ends => status[o] = "succeeded"
     /\ at[p] \in {"before", "after", "replace"} =>
          /\ Open(o) /\ o \notin installed
          /\ plan[o].number = revision.number /\ plan[o].bytes = target
     /\ at[p] \in {"stage", "commit"} => o \in installed /\ target = o

StepInv == \A p \in Proc : StepOf(p)

\* A row that is gone was pruned.
RowInv ==
  /\ \A o \in installed : o \in old \/ status[o] # "none"
  /\ \A i \in DOMAIN settings : settings[i] \in old \/ status[settings[i]] # "none"

Unsettled == {"reserved", "interrupted"}

\* Every operation is installed once.
BytesInv ==
  /\ target \in installed \cup {0}
  /\ \A o \in Op : plan[o].bytes \in installed \cup {0}
  /\ \A o \in installed : plan[o].bytes # target
  /\ \A o \in installed : status[o] \in Unsettled => Open(o)
  /\ \A o \in installed : target = o /\ status[o] \in Unsettled
                          => revision.number = plan[o].number

\* A recovery removes no journal of an effect without a result.
RecoveryInv ==
  \A p \in Proc :
    /\ at[p] = "rclean" =>
         (First(todo) \in installed => status[First(todo)] \notin Unsettled)
    /\ at[p] = "reserved" => \A o \in todo : status[o] = "reserved"

HostInv == /\ TypeInv /\ CallInv /\ AloneInv /\ StepInv /\ RowInv /\ BytesInv /\ RecoveryInv
           /\ SucceededIsApplied /\ SettingsAreSerial

-----------------------------------------------------------------------------
(* Steps that leave most as it is *)

Busy(p) == at[p] \notin Waiting \cup Recoveries

LEMMA BusyMeansNoRecovery ==
  ASSUME TypeInv, AloneInv, NEW p \in Proc, Busy(p)
  PROVE  \A r \in Proc : at[r] \notin Recoveries
<1>1. \A r \in Proc : at[r] \in Recoveries /\ p # r => at[p] = "down"
  BY DEF AloneInv
<1> QED
  BY <1>1 DEF Busy, Waiting, Recoveries

\* What a process works on, whoever overtakes it.
SameCall(r) ==
  /\ call'[r].op = call[r].op /\ call'[r].request = call[r].request
  /\ call[r] = NoCall => call'[r] = NoCall

\* A process goes on with its call or returns from it; it may overtake others.
LEMMA GoesOnBeside ==
  ASSUME TypeInv, CallInv, AloneInv, NEW p \in Proc, Busy(p), UNCHANGED old,
         \A r \in Proc : r # p => at'[r] = at[r] /\ SameCall(r),
         \/ at'[p] \in Labels \ (Waiting \cup Recoveries) /\ SameCall(p)
         \/ at'[p] = "idle" /\ call'[p] = NoCall
  PROVE  CallInv' /\ AloneInv' /\ RecoveryInv'
<1>1. \A r \in Proc : at[r] \notin Recoveries
  BY BusyMeansNoRecovery
<1>3. at'[p] \notin Recoveries
  BY DEF Recoveries
<1>4. CallInv'
  BY DEF CallInv, Busy, Waiting, Recoveries, SameCall
<1>5. AloneInv'
  <2>1. \A r \in Proc : at'[r] \notin Recoveries
    BY <1>1, <1>3
  <2>2. ~Journaled(NoCall)
    BY DEF Journaled, NoCall, Nothing
  <2>3. \A r \in Proc : Journaled(call'[r]) => Journaled(call[r])
    BY <2>2 DEF SameCall, Journaled
  <2>4. \A r, s \in Proc : Journaled(call'[r]) /\ Journaled(call'[s]) => r = s
    BY <2>3 DEF AloneInv
  <2> QED
    BY <2>1, <2>4 DEF AloneInv, Journaled
<1>6. RecoveryInv'
  BY <1>1, <1>3 DEF RecoveryInv, Recoveries
<1> QED
  BY <1>4, <1>5, <1>6

LEMMA GoesOn ==
  ASSUME TypeInv, CallInv, AloneInv, NEW p \in Proc, Busy(p), UNCHANGED old,
         \/ UNCHANGED call /\ \E l \in Labels \ (Waiting \cup Recoveries) : Goto(p, l)
         \/ Return(p)
  PROVE  CallInv' /\ AloneInv' /\ RecoveryInv'
<1>1. /\ \A r \in Proc : r # p => at'[r] = at[r] /\ call'[r] = call[r]
      /\ \/ at'[p] \in Labels \ (Waiting \cup Recoveries) /\ call'[p] = call[p]
         \/ at'[p] = "idle" /\ call'[p] = NoCall
  BY DEF TypeInv, Goto, Return
<1> QED
  BY <1>1, GoesOnBeside DEF SameCall

\* Who stores a result changes no call but his own, and marks those he has overtaken.
LEMMA StoredCalls ==
  ASSUME TypeInv, NEW p \in Proc, call[p].op # 0, call' = Stored(p, NoCall)
  PROVE  /\ call' \in [Proc -> [op : Op \cup {0}, request : Request \cup {Nothing},
                                overtaken : BOOLEAN]]
         /\ call'[p] = NoCall
         /\ \A r \in Proc : r # p =>
              /\ SameCall(r)
              /\ call[r].overtaken => call'[r].overtaken
              /\ call[r].op = call[p].op /\ at[r] \notin {"lookup", "reserve"}
                   => call'[r].overtaken
<1>1. /\ NoCall \in [op : Op \cup {0}, request : Request \cup {Nothing}, overtaken : BOOLEAN]
      /\ NoCall.op = 0
  BY DEF NoCall
<1>2. call'[p] = NoCall
  BY DEF Stored
<1>3. ASSUME NEW r \in Proc, r # p
      PROVE  /\ call'[r] \in [op : Op \cup {0}, request : Request \cup {Nothing},
                               overtaken : BOOLEAN]
             /\ SameCall(r)
             /\ call[r].overtaken => call'[r].overtaken
             /\ call[r].op = call[p].op /\ at[r] \notin {"lookup", "reserve"}
                  => call'[r].overtaken
  <2>1. CASE r \in Overtaken(p, call[p].op)
    <3>1. call'[r] = [call[r] EXCEPT !.overtaken = TRUE] /\ call[r].op = call[p].op
      BY <1>3, <2>1 DEF Stored, Overtaken
    <3>2. /\ call'[r] \in [op : Op \cup {0}, request : Request \cup {Nothing}, overtaken : BOOLEAN]
          /\ call'[r].op = call[r].op /\ call'[r].request = call[r].request
          /\ call'[r].overtaken
      <4>1. call[r] \in [op : Op \cup {0}, request : Request \cup {Nothing}, overtaken : BOOLEAN]
        BY DEF TypeInv
      <4> QED
        BY <3>1, <4>1
    <3>3. call[r] # NoCall
      BY <1>1, <3>1
    <3> QED
      BY <3>2, <3>3 DEF TypeInv, SameCall
  <2>2. CASE r \notin Overtaken(p, call[p].op)
    <3>1. call'[r] = call[r]
      BY <1>3, <2>2 DEF Stored
    <3> QED
      BY <1>3, <2>2, <3>1 DEF TypeInv, SameCall, Overtaken
  <2> QED
    BY <2>1, <2>2
<1>4. call' = [r \in Proc |-> call'[r]]
  BY DEF Stored
<1> QED
  BY <1>1, <1>2, <1>3, <1>4

\* The steps of the others are where they were.
LEMMA OthersStay ==
  ASSUME StepInv, NEW p \in Proc, StepOf(p)',
         \A r \in Proc : r # p => at'[r] = at[r] /\ call'[r] = call[r],
         UNCHANGED <<status, request, manifest, plan, installed, target, revision>>,
         applied \subseteq applied'
  PROVE  StepInv'
<1> SUFFICES ASSUME NEW r \in Proc, r # p PROVE StepOf(r)'
  BY DEF StepInv
<1> QED
  BY DEF StepInv, StepOf, Open

LEMMA FactsStay ==
  ASSUME RowInv, BytesInv, SucceededIsApplied, SettingsAreSerial,
         UNCHANGED <<status, settings, old, manifest, plan, installed, target, revision>>,
         applied \subseteq applied'
  PROVE  RowInv' /\ BytesInv' /\ SucceededIsApplied' /\ SettingsAreSerial'
<1>1. RowInv' /\ SettingsAreSerial'
  BY DEF RowInv, SettingsAreSerial
<1>2. BytesInv'
  BY DEF BytesInv, Open
<1>3. SucceededIsApplied'
  BY DEF SucceededIsApplied
<1> QED
  BY <1>1, <1>2, <1>3

\* A call that goes on or returns and changes nothing that others rely on.
LEMMA CallGoesOn ==
  ASSUME HostInv, TypeInv', NEW p \in Proc, Busy(p), StepOf(p)',
         UNCHANGED <<status, request, settings, old, manifest, plan, installed, target, revision>>,
         applied \subseteq applied',
         \/ UNCHANGED call /\ \E l \in Labels \ (Waiting \cup Recoveries) : Goto(p, l)
         \/ Return(p)
  PROVE  HostInv'
<1>1. CallInv' /\ AloneInv' /\ RecoveryInv'
  BY GoesOn DEF HostInv
<1>2. \A r \in Proc : r # p => at'[r] = at[r] /\ call'[r] = call[r]
  BY DEF HostInv, TypeInv, Goto, Return
<1>3. StepInv'
  BY <1>2, OthersStay DEF HostInv
<1>4. RowInv' /\ BytesInv' /\ SucceededIsApplied' /\ SettingsAreSerial'
  BY FactsStay DEF HostInv
<1> QED
  BY <1>1, <1>3, <1>4 DEF HostInv

\* A call that has returned is at no step.
LEMMA ReturnedIsNowhere ==
  ASSUME TypeInv, NEW p \in Proc, Return(p)
  PROVE  StepOf(p)'
<1>1. at'[p] = "idle"
  BY DEF TypeInv, Return, Goto
<1> QED
  BY <1>1 DEF StepOf, Writes, Ends, Setups

\* The steps of a call.
LEMMA CallOf ==
  ASSUME HostInv, NEW p \in Proc, Busy(p)
  PROVE  /\ call[p].op \in Op /\ call[p].op \notin old /\ call[p].op # 0
         /\ call[p].request \in Offers[call[p].op] /\ call[p].request \in Request
         /\ call[p].request.expected \in Nat /\ call[p].request.kind # "none"
  BY LedgerAssumption DEF HostInv, CallInv, Busy, Op, Request

-----------------------------------------------------------------------------
(* Reservations *)

LEMMA CallKeeps ==
  ASSUME HostInv, NEW p \in Proc, Call(p), UNCHANGED <<setup, journals>>
  PROVE  HostInv'
<1>1. at[p] = "idle" /\ at'[p] = "lookup"
  BY DEF HostInv, TypeInv, Call, Goto
<1>12. PICK o \in Op \ old : \E q \in Offers[o] :
        /\ q.kind = "consent" => \A r \in Proc : ~Journaled(call[r])
        /\ call' = [call EXCEPT ![p] = [op |-> o, request |-> q, overtaken |-> FALSE]]
  BY DEF Call
<1>2. PICK q \in Offers[o] :
        /\ q.kind = "consent" => \A r \in Proc : ~Journaled(call[r])
        /\ call' = [call EXCEPT ![p] = [op |-> o, request |-> q, overtaken |-> FALSE]]
  BY <1>12
<1>3. call'[p] = [op |-> o, request |-> q, overtaken |-> FALSE] /\ q \in Request
  BY <1>2 DEF HostInv, TypeInv, Request, Op
<1>4. \A r \in Proc : r # p => at'[r] = at[r] /\ call'[r] = call[r]
  BY <1>2 DEF HostInv, TypeInv, Call, Goto
<1>5. \A r \in Proc : at[r] \notin Recoveries
  BY <1>1 DEF HostInv, AloneInv, Recoveries
<1>6. TypeInv'
  BY <1>2, <1>3, <1>4 DEF HostInv, TypeInv, Call, Goto, ledger, setup, journals, onDisk, deeds,
                     Labels, IsStore
<1>7. CallInv'
  <2>1. UNCHANGED old
    BY DEF Call, ledger
  <2> QED
    BY <1>1, <1>2, <1>3, <1>4, <2>1 DEF HostInv, CallInv, Waiting, Recoveries
<1>8. AloneInv'
  <2>1. \A r \in Proc : at'[r] \notin Recoveries
    BY <1>1, <1>4, <1>5 DEF Recoveries
  <2>2. \A r, s \in Proc : Journaled(call'[r]) /\ Journaled(call'[s]) => r = s
    BY <1>2, <1>3, <1>4 DEF HostInv, AloneInv, Journaled
  <2> QED
    BY <2>1, <2>2 DEF AloneInv, Journaled
<1>9. StepInv'
  <2>1. StepOf(p)'
    BY <1>1 DEF StepOf, Writes, Ends, Setups
  <2> QED
    BY <1>4, <2>1, OthersStay DEF HostInv, Call, ledger, setup, journals, deeds
<1>10. RowInv' /\ BytesInv' /\ SucceededIsApplied' /\ SettingsAreSerial'
  BY FactsStay DEF HostInv, Call, ledger, setup, journals, deeds
<1>11. RecoveryInv'
  BY <1>1, <1>4, <1>5 DEF RecoveryInv, Recoveries
<1> QED
  BY <1>6, <1>7, <1>8, <1>9, <1>10, <1>11 DEF HostInv

LEMMA LookupKeeps ==
  ASSUME HostInv, NEW p \in Proc, LookupAbsent(p) \/ LookupContinues(p) \/ LookupAnswers(p),
         UNCHANGED <<setup, journals>>
  PROVE  HostInv'
<1> DEFINE q == call[p].request
           l == FirstStep(q.kind)
<1>1. at[p] = "lookup" /\ Busy(p)
  BY DEF LookupAbsent, LookupContinues, LookupAnswers, Finds, Busy, Waiting, Recoveries
<1>2. UNCHANGED <<status, request, settings, old, manifest, plan, installed, target, revision,
                  applied>>
  BY DEF LookupAbsent, LookupContinues, LookupAnswers, ledger, setup, journals, deeds
<1>3. /\ l \in {"manifest", "complete", "load"}
      /\ l = "manifest" => q.kind = "consent"
      /\ l \in Setups => q.kind # "consent"
      /\ l = "complete" => q.kind = "shutdown"
  BY DEF FirstStep, Setups
<1>4. l \in Labels \ (Waiting \cup Recoveries)
  BY <1>3 DEF Labels, Writes, Setups, Waiting, Recoveries
<1>5. CASE LookupAbsent(p)
  <2>1. at'[p] = "reserve" /\ UNCHANGED call /\ Goto(p, "reserve")
    BY <1>5 DEF HostInv, TypeInv, LookupAbsent, Goto
  <2>2. "reserve" \in Labels \ (Waiting \cup Recoveries)
    BY DEF Labels, Waiting, Recoveries
  <2>3. TypeInv'
    BY <1>5, <2>2 DEF HostInv, TypeInv, LookupAbsent, Goto, ledger, setup, journals, onDisk, deeds,
                 IsStore
  <2>4. StepOf(p)'
    BY <2>1 DEF StepOf, Writes, Ends, Setups
  <2> QED
    BY <1>1, <1>2, <2>1, <2>2, <2>3, <2>4, CallGoesOn
<1>6. CASE LookupContinues(p)
  <2>1. at'[p] = l /\ UNCHANGED call /\ Goto(p, l)
    BY <1>6 DEF HostInv, TypeInv, LookupContinues, Goto
  <2>2. TypeInv'
    BY <1>4, <1>6, <2>1 DEF HostInv, TypeInv, LookupContinues, Goto, ledger, setup, journals, onDisk,
                       deeds, IsStore
  <2>3. status[call[p].op] = "reserved" /\ request[call[p].op] = q
    BY <1>6 DEF LookupContinues, Finds, Same, SameRequest
  <2>4. StepOf(p)'
    <3> HIDE DEF l, q
    <3> USE DEF q
    <3> QED
      BY <1>2, <1>3, <2>1, <2>3 DEF StepOf, Writes, Ends
  <2> QED
    BY <1>1, <1>2, <1>4, <2>1, <2>2, <2>4, CallGoesOn
<1>7. CASE LookupAnswers(p)
  <2>1. Return(p)
    BY <1>7 DEF LookupAnswers
  <2>2. TypeInv'
    BY <1>7 DEF HostInv, TypeInv, LookupAnswers, Return, Goto, NoCall, Labels, Waiting, ledger,
                setup, journals, onDisk, deeds, IsStore
  <2>3. StepOf(p)'
    BY <2>1, ReturnedIsNowhere DEF HostInv
  <2> QED
    BY <1>1, <1>2, <2>1, <2>2, <2>3, CallGoesOn
<1> QED
  BY <1>5, <1>6, <1>7

\* A row is written where there is none.
LEMMA NewRow ==
  ASSUME HostInv, NEW p \in Proc, at[p] = "reserve", status[call[p].op] = "none",
         NEW s \in {"reserved", "succeeded"},
         status' = [status EXCEPT ![call[p].op] = s],
         request' = [request EXCEPT ![call[p].op] = call[p].request],
         \A r \in Proc : r # p => at'[r] = at[r] /\ call'[r] = call[r],
         StepOf(p)', UNCHANGED <<setup, journals, old>>
  PROVE  /\ status' \in [Op -> Statuses] /\ request' \in [Op -> Request \cup {Nothing}]
         /\ StepInv' /\ BytesInv'
         /\ \A o \in installed' : o \in old' \/ status'[o] # "none"
<1> DEFINE o == call[p].op
           q == call[p].request
<1>1. Busy(p) /\ o \in Op /\ o \notin old /\ q \in Request
  BY CallOf DEF Busy, Waiting, Recoveries
<1>2. /\ \A x \in Op : x # o => status'[x] = status[x] /\ request'[x] = request[x]
      /\ status'[o] = s /\ request'[o] = q
      /\ status' \in [Op -> Statuses] /\ request' \in [Op -> Request \cup {Nothing}]
  BY <1>1 DEF HostInv, TypeInv, Statuses, Terminal
<1>3. o \notin installed
  BY <1>1 DEF HostInv, RowInv
<1>4. UNCHANGED <<manifest, plan, installed, target, revision, applied, old>>
  BY DEF setup, journals, deeds
<1>5. StepInv'
  <2> SUFFICES ASSUME NEW r \in Proc, r # p PROVE StepOf(r)'
    BY DEF StepInv
  <2>1. at'[r] = at[r] /\ call'[r] = call[r] /\ StepOf(r)
    BY DEF HostInv, StepInv
  <2>2. CASE at[r] \notin Writes \cup Ends \cup Setups
    BY <2>1, <2>2 DEF StepOf, Writes, Ends, Setups
  <2>3. CASE at[r] \in Writes \cup Ends \cup Setups
    <3>1. status[call[r].op] # "none" /\ Busy(r)
      BY <2>1, <2>3 DEF StepOf, Busy, Writes, Ends, Setups, Waiting, Recoveries
    <3>2. call[r].op # o /\ call[r].op \in Op
      BY <3>1, CallOf
    <3>3. status'[call[r].op] = status[call[r].op] /\ request'[call[r].op] = request[call[r].op]
      BY <1>2, <3>2
    <3> QED
      BY <1>4, <2>1, <3>3 DEF StepOf, Open
  <2> QED
    BY <2>2, <2>3
<1>6. BytesInv'
  <2>1. \A x \in installed : status'[x] = status[x]
    BY <1>2, <1>3 DEF HostInv, TypeInv
  <2> QED
    BY <1>4, <2>1 DEF HostInv, BytesInv, Open
<1>7. \A x \in installed' : x \in old' \/ status'[x] # "none"
  BY <1>2, <1>3, <1>4 DEF HostInv, RowInv, TypeInv
<1> QED
  BY <1>2, <1>5, <1>6, <1>7

LEMMA ReserveKeeps ==
  ASSUME HostInv, NEW p \in Proc, Reserve(p), UNCHANGED <<setup, journals>>
  PROVE  HostInv'
<1> DEFINE o == call[p].op
           q == call[p].request
           l == FirstStep(q.kind)
<1>1. at[p] = "reserve" /\ Busy(p) /\ UNCHANGED <<settings, old, count>>
  BY DEF Reserve, Busy, Waiting, Recoveries
<1>2. /\ l \in {"manifest", "complete", "load"}
      /\ l = "manifest" => q.kind = "consent"
      /\ l \in Setups => q.kind # "consent"
      /\ l = "complete" => q.kind = "shutdown"
  BY DEF FirstStep, Setups
<1>3. l \in Labels \ (Waiting \cup Recoveries)
  BY <1>2 DEF Labels, Writes, Setups, Waiting, Recoveries
<1>4. CASE status[o] = "none"
  <2>1. /\ status' = [status EXCEPT ![o] = "reserved"]
        /\ request' = [request EXCEPT ![o] = q]
        /\ Goto(p, l) /\ UNCHANGED call
    BY <1>4 DEF Reserve
  <2>2. at'[p] = l /\ \A r \in Proc : r # p => at'[r] = at[r] /\ call'[r] = call[r]
    BY <2>1 DEF HostInv, TypeInv, Goto
  <2>3. status'[o] = "reserved" /\ request'[o] = q
    BY <1>1, <2>1, CallOf DEF HostInv, TypeInv
  <2>4. StepOf(p)'
    BY <1>2, <2>1, <2>2, <2>3 DEF StepOf, Writes, Ends
  <2>5. /\ status' \in [Op -> Statuses] /\ request' \in [Op -> Request \cup {Nothing}]
        /\ StepInv' /\ BytesInv'
        /\ \A x \in installed' : x \in old' \/ status'[x] # "none"
    <3>1. "reserved" \in {"reserved", "succeeded"}
      OBVIOUS
    <3> QED
      BY <1>1, <1>4, <2>1, <2>2, <2>4, <3>1, NewRow
  <2>6. CallInv' /\ AloneInv' /\ RecoveryInv'
    BY <1>1, <1>3, <2>1, GoesOn DEF HostInv
  <2>7. TypeInv'
    BY <1>1, <1>3, <2>1, <2>5 DEF HostInv, TypeInv, Goto, setup, journals, onDisk, deeds, IsStore
  <2>8. \A x \in Op : status'[x] = status[x] \/ status'[x] = "reserved"
    BY <2>1 DEF HostInv, TypeInv
  <2>9. RowInv'
    <3>1. \A i \in DOMAIN settings : settings[i] \in Op
      BY DEF HostInv, TypeInv
    <3> QED
      BY <1>1, <2>5, <2>8, <3>1 DEF HostInv, RowInv
  <2>10. SucceededIsApplied' /\ SettingsAreSerial'
    BY <1>1, <2>8 DEF HostInv, SucceededIsApplied, SettingsAreSerial, setup, journals, deeds
  <2> QED
    BY <2>5, <2>6, <2>7, <2>9, <2>10 DEF HostInv
<1>5. CASE status[o] # "none"
  <2>1. Return(p) /\ UNCHANGED rows
    BY <1>5 DEF Reserve
  <2>2. TypeInv'
    BY <1>1, <2>1 DEF HostInv, TypeInv, Return, Goto, NoCall, Labels, Waiting, rows, setup, journals,
                onDisk, deeds, IsStore
  <2>3. StepOf(p)'
    BY <2>1, ReturnedIsNowhere DEF HostInv
  <2> QED
    BY <1>1, <2>1, <2>2, <2>3, CallGoesOn DEF rows, setup, journals, deeds
<1> QED
  BY <1>4, <1>5

LEMMA PatchSettingsKeeps ==
  ASSUME HostInv, NEW p \in Proc, PatchSettings(p), UNCHANGED <<setup, journals>>
  PROVE  HostInv'
<1> DEFINE o == call[p].op
           q == call[p].request
<1>1. /\ at[p] = "reserve" /\ Busy(p) /\ q.kind = "settings" /\ UNCHANGED <<old, count>>
      /\ Return(p)
  BY DEF PatchSettings, Busy, Waiting, Recoveries
<1>2. o \in Op /\ o \notin old /\ q \in Offers[o] /\ q.expected \in Nat
  BY <1>1, CallOf
<1>3. \A r \in Proc : r # p => at'[r] = at[r] /\ call'[r] = call[r]
  BY <1>1 DEF HostInv, TypeInv, Return, Goto
<1>4. StepOf(p)'
  BY <1>1, ReturnedIsNowhere DEF HostInv
<1>5. CallInv' /\ AloneInv' /\ RecoveryInv'
  BY <1>1, GoesOn DEF HostInv
<1>6. CASE status[o] = "none" /\ Revision = q.expected
  <2>1. /\ status' = [status EXCEPT ![o] = "succeeded"]
        /\ request' = [request EXCEPT ![o] = q]
        /\ settings' = Append(settings, o)
    BY <1>6 DEF PatchSettings
  <2>2. /\ status' \in [Op -> Statuses] /\ request' \in [Op -> Request \cup {Nothing}]
        /\ StepInv' /\ BytesInv'
        /\ \A x \in installed' : x \in old' \/ status'[x] # "none"
    <3>1. "succeeded" \in {"reserved", "succeeded"}
      OBVIOUS
    <3> QED
      BY <1>1, <1>3, <1>4, <1>6, <2>1, <3>1, NewRow
  <2> DEFINE n == Len(settings)
  <2>3. /\ settings \in Seq(Op) /\ settings' \in Seq(Op) /\ n \in Nat
        /\ DOMAIN settings = 1 .. n /\ DOMAIN settings' = 1 .. n + 1
        /\ \A i \in 1 .. n : settings'[i] = settings[i] /\ settings[i] \in Op
        /\ settings'[n + 1] = o
    BY <1>2, <2>1 DEF HostInv, TypeInv
  <2>4. TypeInv'
    BY <1>1, <2>2, <2>3 DEF HostInv, TypeInv, Return, Goto, NoCall, Labels, Waiting, setup, journals,
                onDisk, deeds, IsStore
  <2>5. status'[o] = "succeeded" /\ \A x \in Op : x # o => status'[x] = status[x]
    BY <1>2, <2>1 DEF HostInv, TypeInv
  <2>6. \A i \in 1 .. n : settings[i] # o
    BY <1>2, <1>6, <2>3 DEF HostInv, RowInv
  <2> HIDE DEF n
  <2>7. RowInv'
    <3> SUFFICES ASSUME NEW i \in 1 .. n + 1
                 PROVE  settings'[i] \in old' \/ status'[settings'[i]] # "none"
      BY <2>2, <2>3 DEF RowInv
    <3>1. i \in 1 .. n \/ i = n + 1
      BY <2>3
    <3> QED
      BY <1>1, <2>3, <2>5, <2>6, <3>1 DEF HostInv, RowInv
  <2>8. SucceededIsApplied'
    <3> SUFFICES ASSUME NEW x \in Op, status'[x] = "succeeded"
                 PROVE  \/ x \in applied' \cup installed'
                        \/ \E i \in 1 .. n + 1 : settings'[i] = x
      BY <2>3 DEF SucceededIsApplied
    <3>1. CASE x = o
      BY <2>3, <3>1
    <3>2. CASE x # o
      <4>1. x \in applied \cup installed \/ \E i \in 1 .. n : settings[i] = x
        BY <2>3, <2>5, <3>2 DEF HostInv, SucceededIsApplied
      <4> QED
        BY <2>3, <4>1 DEF setup, journals, deeds
    <3> QED
      BY <3>1, <3>2
  <2>9. SettingsAreSerial'
    <3>1. q.expected = (n + 1) - 1
      BY <1>6, <2>3 DEF Revision, n
    <3> SUFFICES ASSUME NEW i \in 1 .. n + 1
                 PROVE  /\ \E x \in Offers[settings'[i]] :
                             x.kind = "settings" /\ x.expected = i - 1
                        /\ \A j \in 1 .. n + 1 : settings'[i] = settings'[j] => i = j
      BY <2>3 DEF SettingsAreSerial
    <3>2. i \in 1 .. n \/ i = n + 1
      BY <2>3
    <3>3. \E x \in Offers[settings'[i]] : x.kind = "settings" /\ x.expected = i - 1
      BY <1>1, <1>2, <2>3, <3>1, <3>2 DEF HostInv, SettingsAreSerial
    <3>4. ASSUME NEW j \in 1 .. n + 1, settings'[i] = settings'[j] PROVE i = j
      <4>1. j \in 1 .. n \/ j = n + 1
        BY <2>3
      <4> QED
        BY <2>3, <2>6, <3>2, <3>4, <4>1 DEF HostInv, SettingsAreSerial
    <3> QED
      BY <3>3, <3>4
  <2> QED
    BY <1>5, <2>2, <2>4, <2>7, <2>8, <2>9 DEF HostInv
<1>7. CASE ~(status[o] = "none" /\ Revision = q.expected)
  <2>1. UNCHANGED <<rows, settings>>
    BY <1>7 DEF PatchSettings
  <2>2. TypeInv'
    BY <1>1, <2>1 DEF HostInv, TypeInv, Return, Goto, NoCall, Labels, Waiting, rows, setup, journals,
                onDisk, deeds, IsStore
  <2> QED
    BY <1>1, <1>4, <2>1, <2>2, CallGoesOn DEF rows, setup, journals, deeds
<1> QED
  BY <1>6, <1>7

\* A row that is pruned belongs to nobody, because nobody works.
LEMMA PruneKeeps ==
  ASSUME HostInv, NEW o \in Op, Prune(o), UNCHANGED <<setup, journals>>
  PROVE  HostInv'
<1>1. \A p \in Proc : at[p] \in Waiting /\ call[p] = NoCall
  BY DEF Prune, Quiet, HostInv, CallInv, Waiting, Recoveries
<1>2. /\ UNCHANGED <<settings, at, call>>
      /\ status' = [status EXCEPT ![o] = "none"] /\ request' = [request EXCEPT ![o] = Nothing]
      /\ old' = old \cup {o}
  BY DEF Prune
<1>3. /\ status'[o] = "none" /\ \A x \in Op : x # o => status'[x] = status[x]
      /\ status' \in [Op -> Statuses] /\ request' \in [Op -> Request \cup {Nothing}]
  BY <1>2 DEF HostInv, TypeInv, Statuses
<1>4. TypeInv'
  BY <1>2, <1>3 DEF HostInv, TypeInv, Prune, setup, journals, onDisk, deeds, IsStore
<1>5. CallInv' /\ AloneInv' /\ StepInv' /\ RecoveryInv'
  <2>1. \A p \in Proc : at'[p] \in Waiting /\ call'[p] = NoCall /\ at'[p] = at[p]
    BY <1>1, <1>2
  <2>2. CallInv' /\ StepInv' /\ RecoveryInv'
    BY <2>1 DEF CallInv, StepInv, StepOf, RecoveryInv, Waiting, Recoveries, Writes, Ends, Setups
  <2>3. AloneInv'
    BY <1>2, <2>1 DEF HostInv, AloneInv, Waiting, Recoveries, Journaled
  <2> QED
    BY <2>2, <2>3
<1>6. RowInv'
  <2>1. \A i \in DOMAIN settings : settings[i] \in Op
    BY DEF HostInv, TypeInv
  <2> QED
    BY <1>2, <1>3, <2>1 DEF HostInv, TypeInv, RowInv, journals
<1>7. BytesInv'
  <2>1. \A x \in installed : status'[x] \in Unsettled => status[x] \in Unsettled
    BY <1>3 DEF HostInv, TypeInv, Unsettled
  <2> QED
    BY <2>1 DEF HostInv, BytesInv, Open, journals
<1>8. SucceededIsApplied' /\ SettingsAreSerial'
  BY <1>2, <1>3 DEF HostInv, SucceededIsApplied, SettingsAreSerial, setup, journals, deeds
<1> QED
  BY <1>4, <1>5, <1>6, <1>7, <1>8 DEF HostInv

-----------------------------------------------------------------------------
(* Setup calls *)

LEMMA UpsertIsStore ==
  ASSUME NEW s, IsStore(s), NEW q
  PROVE  IsStore(Changed(s, q))
<1>1. s.revision + 1 \in Nat
  BY DEF IsStore
<1> QED
  BY <1>1 DEF IsStore, Changed, Upsert, Remove

LEMMA LoadKeeps ==
  ASSUME HostInv, NEW p \in Proc, Load(p) \/ LoadRefuses(p) \/ WriteBlocked(p), UNCHANGED journals
  PROVE  HostInv'
<1> DEFINE q == call[p].request
<1>1. at[p] \in Setups /\ Busy(p)
  BY DEF Load, LoadRefuses, WriteBlocked, Busy, Setups, Waiting, Recoveries
<1>2. UNCHANGED <<status, request, settings, old, manifest, plan, installed, target, revision,
                  applied>>
  BY DEF Load, LoadRefuses, WriteBlocked, ledger, journals, onDisk, deeds
<1>3. IsStore(EmptyStore) /\ IsStore(Changed(store, q))
  BY UpsertIsStore DEF HostInv, TypeInv, IsStore, EmptyStore
<1>4. CASE Load(p)
  <2>1. at'[p] = "save" /\ UNCHANGED call /\ Goto(p, "save") /\ at[p] = "load"
    BY <1>4 DEF HostInv, TypeInv, Load, Goto
  <2>2. "save" \in Labels \ (Waiting \cup Recoveries)
    BY DEF Labels, Setups, Waiting, Recoveries
  <2>3. copy' = [copy EXCEPT ![p] = Changed(store, q)]
    BY <1>4 DEF Load
  <2>4. copy' = [r \in Proc |-> copy'[r]] /\ \A r \in Proc : IsStore(copy'[r])
    BY <1>3, <2>3 DEF HostInv, TypeInv
  <2>5. TypeInv'
    BY <1>2, <1>4, <2>1, <2>2, <2>4 DEF HostInv, TypeInv, Load, Goto, ledger, journals, onDisk, deeds,
                                     IsStore
  <2>6. StepOf(p)'
    BY <1>1, <1>2, <2>1 DEF HostInv, StepInv, StepOf, Setups, Writes, Ends
  <2> QED
    BY <1>1, <1>2, <2>1, <2>2, <2>5, <2>6, CallGoesOn
<1>5. CASE LoadRefuses(p) \/ WriteBlocked(p)
  <2>1. Return(p) /\ (copy' = copy \/ copy' = [copy EXCEPT ![p] = EmptyStore])
    BY <1>5 DEF LoadRefuses, WriteBlocked
  <2>2. copy' = [r \in Proc |-> copy'[r]] /\ \A r \in Proc : IsStore(copy'[r])
    BY <1>3, <2>1 DEF HostInv, TypeInv
  <2>3. refused' \subseteq Op
    BY <1>1, <1>5, CallOf DEF HostInv, TypeInv, LoadRefuses, WriteBlocked, deeds
  <2>4. TypeInv'
    <3>1. UNCHANGED <<ledger, onDisk, journals>>
      BY <1>5 DEF LoadRefuses, WriteBlocked
    <3> QED
      BY <1>2, <2>1, <2>2, <2>3, <3>1 DEF HostInv, TypeInv, Return, Goto, NoCall, Labels, Waiting,
                                         ledger, journals, onDisk, IsStore
  <2>5. StepOf(p)'
    BY <2>1, ReturnedIsNowhere DEF HostInv
  <2> QED
    BY <1>1, <1>2, <2>1, <2>4, <2>5, CallGoesOn
<1> QED
  BY <1>4, <1>5

LEMMA SaveKeeps ==
  ASSUME HostInv, NEW p \in Proc, Save(p) \/ WriteConfig(p), UNCHANGED journals
  PROVE  HostInv'
<1> DEFINE o == call[p].op
           q == call[p].request
<1>1. at[p] \in {"save", "config"} /\ at[p] \in Setups /\ Busy(p)
  BY DEF Save, WriteConfig, Busy, Setups, Waiting, Recoveries
<1>2. o \in Op
  BY <1>1, CallOf
<1>3. UNCHANGED <<status, request, settings, old, manifest, plan, installed, target, revision>>
  BY DEF Save, WriteConfig, ledger, journals
<1>4. UNCHANGED call
  BY DEF Save, WriteConfig
<1>5. \E l \in {"config", "complete"} :
        /\ Goto(p, l)
        /\ \/ l = "config" /\ UNCHANGED applied
           \/ l = "complete" /\ applied' = applied \cup {o}
  BY DEF Save, WriteConfig
<1>6. PICK l \in {"config", "complete"} :
        /\ Goto(p, l)
        /\ \/ l = "config" /\ UNCHANGED applied
           \/ l = "complete" /\ applied' = applied \cup {o}
  BY <1>5
<1>7. at'[p] = l /\ l \in Labels \ (Waiting \cup Recoveries)
  BY <1>6 DEF HostInv, TypeInv, Goto, Labels, Setups, Waiting, Recoveries
<1>8. applied \subseteq applied' /\ applied' \subseteq Op /\ (l = "complete" => o \in applied')
  BY <1>2, <1>6 DEF HostInv, TypeInv
<1>9. /\ IsStore(store') /\ copy' = [r \in Proc |-> copy'[r]] /\ \A r \in Proc : IsStore(copy'[r])
      /\ config' \in Op \cup {0}
  <2>1. IsStore(EmptyStore)
    BY DEF IsStore, EmptyStore
  <2>2. /\ store' = copy[p] \/ store' = store
        /\ copy' = [copy EXCEPT ![p] = EmptyStore] \/ copy' = copy
        /\ config' \in {config, o}
    BY DEF Save, WriteConfig
  <2>3. \A s : IsStore(s)' <=> IsStore(s)
    BY DEF IsStore
  <2>4. IsStore(store) /\ IsStore(copy[p]) /\ \A r \in Proc : IsStore(copy[r])
    BY DEF HostInv, TypeInv
  <2>5. IsStore(store')
    BY <2>2, <2>4
  <2>6. copy' = [r \in Proc |-> copy'[r]] /\ \A r \in Proc : IsStore(copy'[r])
    BY <2>1, <2>2, <2>4 DEF HostInv, TypeInv
  <2> QED
    BY <1>2, <2>2, <2>5, <2>6 DEF HostInv, TypeInv
<1>10. TypeInv'
  <2>1. UNCHANGED <<temp, refused, before, after, todo>>
    BY DEF Save, WriteConfig, journals
  <2>2. at' \in [Proc -> Labels]
    BY <1>6, <1>7 DEF HostInv, TypeInv, Goto
  <2> QED
    BY <1>3, <1>4, <1>8, <1>9, <2>1, <2>2 DEF HostInv, TypeInv
<1>11. StepOf(p)'
  BY <1>1, <1>3, <1>4, <1>7, <1>8 DEF HostInv, StepInv, StepOf, Setups, Writes, Ends
<1> QED
  BY <1>1, <1>3, <1>4, <1>6, <1>7, <1>8, <1>10, <1>11, CallGoesOn

\* A row gets its result.
LEMMA CompleteKeeps ==
  ASSUME HostInv, NEW p \in Proc, Complete(p), UNCHANGED journals
  PROVE  HostInv'
<1> DEFINE o == call[p].op
           q == call[p].request
<1>1. at[p] = "complete" /\ at[p] \in Setups /\ Busy(p) /\ Goto(p, "idle")
  BY DEF Complete, Return, Busy, Setups, Waiting, Recoveries
<1>2. o \in Op /\ o # 0
  BY <1>1, CallOf
<1>3. UNCHANGED <<request, settings, old, manifest, plan, installed, target, revision, setup>>
  BY DEF Complete, journals
<1>4. /\ q.kind # "consent" /\ status[o] # "none" /\ request[o] = q
      /\ q.kind = "shutdown" \/ o \in applied
  BY <1>1 DEF HostInv, StepInv, StepOf
<1>5. /\ \A x \in Op : x # o => status'[x] = status[x]
      /\ status'[o] # "none" /\ (status'[o] \in Unsettled => status[o] \in Unsettled)
      /\ (status'[o] = "succeeded" => status[o] = "succeeded" \/ o \in applied)
      /\ status' \in [Op -> Statuses]
      /\ status[o] # "reserved" => status'[o] = status[o]
  BY <1>2, <1>4 DEF HostInv, TypeInv, Complete, Result, Statuses, Terminal, Unsettled
<1>12. /\ call' \in [Proc -> [op : Op \cup {0}, request : Request \cup {Nothing},
                              overtaken : BOOLEAN]]
       /\ call'[p] = NoCall
       /\ \A r \in Proc : r # p =>
            /\ SameCall(r)
            /\ call[r].overtaken => call'[r].overtaken
            /\ status[o] = "reserved" /\ call[r].op = o /\ at[r] \notin {"lookup", "reserve"}
                 => call'[r].overtaken
  <2>1. CASE status[o] = "reserved"
    <3>1. call' = Stored(p, NoCall)
      BY <2>1 DEF Complete
    <3> QED
      BY <1>2, <3>1, StoredCalls DEF HostInv
  <2>2. CASE status[o] # "reserved"
    <3>1. Return(p)
      BY <2>2 DEF Complete
    <3> QED
      BY <2>2, <3>1 DEF HostInv, TypeInv, Return, NoCall, SameCall
  <2> QED
    BY <2>1, <2>2
<1>13. at'[p] = "idle" /\ \A r \in Proc : r # p => at'[r] = at[r]
  BY <1>1 DEF HostInv, TypeInv, Goto
<1>6. TypeInv'
  BY <1>1, <1>3, <1>5, <1>12 DEF HostInv, TypeInv, Complete, Goto, Labels, Waiting, setup,
                       journals, onDisk, deeds, IsStore
<1>7. CallInv' /\ AloneInv' /\ RecoveryInv'
  BY <1>1, <1>3, <1>12, <1>13, GoesOnBeside DEF HostInv
<1>8. StepInv'
  <2>1. StepOf(p)'
    BY <1>13 DEF StepOf, Writes, Ends, Setups
  <2> SUFFICES ASSUME NEW r \in Proc, r # p PROVE StepOf(r)'
    BY <2>1 DEF StepInv
  <2>2. at'[r] = at[r] /\ SameCall(r) /\ StepOf(r) /\ (call[r].overtaken => call'[r].overtaken)
    BY <1>12, <1>13 DEF HostInv, StepInv
  <2>3. CASE at[r] \notin Writes \cup Ends \cup Setups
    BY <2>2, <2>3 DEF StepOf, Writes, Ends, Setups
  <2>4. CASE at[r] \in Writes \cup Ends \cup Setups
    <3>1. Busy(r)
      BY <2>4 DEF Busy, Writes, Ends, Setups, Waiting, Recoveries
    <3>2. call[r].op \in Op
      BY <3>1, CallOf
    <3>3. CASE call[r].op # o
      <4>1. status'[call[r].op] = status[call[r].op]
        BY <1>5, <3>2, <3>3
      <4> QED
        BY <1>3, <2>2, <4>1 DEF StepOf, Open, setup, deeds, SameCall
    <3>4. CASE call[r].op = o
      <4>1. at[r] \in Setups
        BY <1>4, <2>2, <2>4, <3>4 DEF StepOf
      <4>2. call'[r].overtaken \/ status'[o] = "reserved"
        <5>1. at[r] \notin {"lookup", "reserve"}
          BY <4>1 DEF Setups
        <5>2. CASE status[o] = "reserved"
          BY <1>12, <3>4, <5>1, <5>2
        <5>3. CASE status[o] # "reserved"
          BY <2>2, <3>4, <4>1, <5>3 DEF StepOf
        <5> QED
          BY <5>2, <5>3
      <4> QED
        BY <1>3, <1>5, <2>2, <3>4, <4>1, <4>2
        DEF StepOf, Open, setup, deeds, Writes, Ends, Setups, SameCall
    <3> QED
      BY <3>3, <3>4
  <2> QED
    BY <2>3, <2>4
<1>9. RowInv'
  <2>1. \A i \in DOMAIN settings : settings[i] \in Op
    BY DEF HostInv, TypeInv
  <2> QED
    BY <1>3, <1>5, <2>1 DEF HostInv, TypeInv, RowInv
<1>10. BytesInv'
  <2>1. \A x \in installed : status'[x] \in Unsettled => status[x] \in Unsettled
    BY <1>5 DEF HostInv, TypeInv
  <2> QED
    BY <1>3, <2>1 DEF HostInv, BytesInv, Open
<1>11. SucceededIsApplied' /\ SettingsAreSerial'
  BY <1>3, <1>5 DEF HostInv, SucceededIsApplied, SettingsAreSerial, setup, deeds
<1> QED
  BY <1>6, <1>7, <1>8, <1>9, <1>10, <1>11 DEF HostInv

-----------------------------------------------------------------------------
(* Writes *)

\* A write is the only one, and nobody else is at a step of one.
LEMMA OneWriter ==
  ASSUME HostInv, NEW p \in Proc, at[p] \in Writes \cup Ends
  PROVE  /\ Busy(p) /\ call[p].request.kind = "consent" /\ call[p].op \in Op /\ call[p].op # 0
         /\ request[call[p].op] = call[p].request
         /\ \A r \in Proc : r # p => at[r] \notin Writes \cup Ends
<1>1. Busy(p)
  BY DEF Busy, Writes, Ends, Waiting, Recoveries
<1>2. \A r \in Proc : at[r] \in Writes \cup Ends => Journaled(call[r])
  BY DEF HostInv, StepInv, StepOf, Journaled
<1>3. \A r \in Proc : r # p => at[r] \notin Writes \cup Ends
  BY <1>2 DEF HostInv, AloneInv
<1>4. request[call[p].op] = call[p].request
  BY DEF HostInv, StepInv, StepOf
<1> QED
  BY <1>1, <1>2, <1>3, <1>4, CallOf DEF Journaled

\* Nobody else works on what a write writes, but who has yet to look.
LEMMA NobodyElse ==
  ASSUME HostInv, NEW p \in Proc, at[p] \in Writes \cup Ends
  PROVE  Overtaken(p, call[p].op) = {}
<1> SUFFICES ASSUME NEW r \in Proc, r # p, call[r].op = call[p].op,
                    at[r] \notin {"lookup", "reserve"}
             PROVE  FALSE
  BY DEF Overtaken
<1>1. call[r].op # 0 /\ at[r] \notin Writes \cup Ends
  BY OneWriter
<1>2. at[r] \in Setups
  BY <1>1 DEF HostInv, TypeInv, CallInv, NoCall, Labels
<1> QED
  BY <1>2, OneWriter DEF HostInv, StepInv, StepOf

\* Others are not at a step of a write, so they do not see what it does but to its row.
LEMMA OthersOutside ==
  ASSUME HostInv, NEW p \in Proc, at[p] \in Writes \cup Ends,
         \A r \in Proc : r # p => at'[r] = at[r] /\ call'[r] = call[r],
         \A o \in Op : o # call[p].op => status'[o] = status[o],
         UNCHANGED <<request, setup>>, StepOf(p)'
  PROVE  StepInv'
<1> SUFFICES ASSUME NEW r \in Proc, r # p PROVE StepOf(r)'
  BY DEF StepInv
<1>1. /\ at'[r] = at[r] /\ call'[r] = call[r] /\ StepOf(r)
      /\ at[r] \notin Writes \cup Ends
  BY OneWriter DEF HostInv, StepInv
<1>2. CASE at[r] \notin Setups
  BY <1>1, <1>2 DEF StepOf, Writes, Ends, Setups
<1>3. CASE at[r] \in Setups
  <2>1. Busy(r)
    BY <1>3 DEF Busy, Setups, Waiting, Recoveries
  <2>2. call[r].op \in Op /\ call[r].op # call[p].op
    <3>1. call[r].op \in Op
      BY <2>1, CallOf
    <3>2. request[call[r].op].kind # "consent"
      BY <1>1, <1>3 DEF StepOf
    <3> QED
      BY <3>1, <3>2, OneWriter
  <2>3. status'[call[r].op] = status[call[r].op]
    BY <2>2
  <2> QED
    BY <1>1, <1>3, <2>3 DEF StepOf, setup, deeds, Writes, Ends, Setups
<1> QED
  BY <1>2, <1>3

LEMMA WriteStart ==
  ASSUME HostInv, NEW p \in Proc, at[p] = "manifest", ~Open(call[p].op)
  PROVE  call[p].op \notin installed
<1>1. at[p] \in Writes
  BY DEF Writes
<1>2. status[call[p].op] \in Unsettled
  BY <1>1 DEF HostInv, StepInv, StepOf, Unsettled
<1> QED
  BY <1>2 DEF HostInv, BytesInv

LEMMA PrepareManifestKeeps ==
  ASSUME HostInv, NEW p \in Proc, PrepareManifest(p), UNCHANGED setup
  PROVE  HostInv'
<1> DEFINE o == call[p].op
<1>1. /\ at[p] = "manifest" /\ at[p] \in Writes /\ UNCHANGED <<before, after>>
      /\ UNCHANGED <<status, request, settings, old, target, revision, todo, installed>>
  BY DEF PrepareManifest, CreateFile, Writes, ledger
<1>2. Busy(p) /\ o \in Op /\ o # 0
  BY <1>1, OneWriter
<1>3. CASE ~Open(o)
  <2>1. /\ manifest' = [manifest EXCEPT ![o] = "whole"] /\ Goto(p, "before") /\ UNCHANGED call
        /\ plan' = [plan EXCEPT ![o] = [number |-> revision.number, bytes |-> target]]
    BY <1>3 DEF PrepareManifest, CreateFile, Open
  <2>2. o \notin installed
    BY <1>1, <1>3, WriteStart
  <2>3. /\ at'[p] = "before"
        /\ \A r \in Proc : r # p => at'[r] = at[r] /\ call'[r] = call[r]
        /\ "before" \in Labels \ (Waiting \cup Recoveries)
    BY <2>1 DEF HostInv, TypeInv, Goto, Labels, Writes, Waiting, Recoveries
  <2>4. /\ manifest'[o] = "whole" /\ \A x \in Op : x # o => manifest'[x] = manifest[x]
        /\ manifest' \in [Op -> {"absent", "torn", "whole"}]
    BY <1>2, <2>1 DEF HostInv, TypeInv
  <2>5. /\ plan'[o].number = revision.number /\ plan'[o].bytes = target
        /\ \A x \in Op : x # o => plan'[x] = plan[x]
        /\ plan' \in [Op -> [number : Nat, bytes : Op \cup {0}]]
    BY <1>2, <2>1 DEF HostInv, TypeInv
  <2>6. TypeInv'
    BY <1>1, <2>1, <2>3, <2>4, <2>5 DEF HostInv, TypeInv, PrepareManifest, Goto, setup, onDisk, deeds,
                                       IsStore
  <2>7. CallInv' /\ AloneInv' /\ RecoveryInv'
    BY <1>1, <1>2, <2>1, <2>3, GoesOn DEF HostInv
  <2>8. StepOf(p)'
    BY <1>1, <2>1, <2>2, <2>3, <2>4, <2>5 DEF HostInv, StepInv, StepOf, Open, Writes, Ends, Setups
  <2>9. StepInv'
    BY <1>1, <2>3, <2>8, OthersOutside
  <2>10. BytesInv'
    <3>1. \A x \in Op : plan'[x].bytes \in installed \cup {0}
      BY <2>5 DEF HostInv, BytesInv
    <3>2. \A x \in installed : plan'[x] = plan[x] /\ manifest'[x] = manifest[x]
      BY <2>2, <2>4, <2>5 DEF HostInv, TypeInv
    <3> QED
      BY <1>1, <3>1, <3>2 DEF HostInv, BytesInv, Open
  <2>11. RowInv' /\ SucceededIsApplied' /\ SettingsAreSerial'
    BY <1>1 DEF HostInv, RowInv, SucceededIsApplied, SettingsAreSerial, setup, deeds
  <2> QED
    BY <2>6, <2>7, <2>9, <2>10, <2>11 DEF HostInv
<1>4. CASE Open(o)
  <2>1. Return(p) /\ UNCHANGED <<manifest, plan>>
    BY <1>4 DEF PrepareManifest, CreateFile, Open
  <2>2. TypeInv'
    BY <1>1, <2>1 DEF HostInv, TypeInv, Return, Goto, NoCall, Labels, Waiting, setup, onDisk, deeds,
                IsStore
  <2>3. StepOf(p)'
    BY <2>1, ReturnedIsNowhere DEF HostInv
  <2> QED
    BY <1>1, <1>2, <2>1, <2>2, <2>3, CallGoesOn DEF setup, deeds
<1> QED
  BY <1>3, <1>4

LEMMA PrepareBytesKeeps ==
  ASSUME HostInv, NEW p \in Proc, PrepareBefore(p) \/ PrepareAfter(p) \/ WriteStage(p),
         UNCHANGED setup
  PROVE  HostInv'
<1> DEFINE o == call[p].op
<1>1. /\ at[p] \in {"before", "after", "stage", "stage2"} /\ at[p] \in Writes \cup Ends
      /\ UNCHANGED <<status, request, settings, old, manifest, plan, target, revision, todo,
                     installed>>
  BY DEF PrepareBefore, PrepareAfter, WriteStage, CreateFile, Writes, Ends, ledger, journals
<1>2. Busy(p) /\ o \in Op
  BY <1>1, OneWriter
<1>3. /\ before' \in [Op -> {"absent", "torn", "whole"}]
      /\ after' \in [Op -> {"absent", "torn", "whole"}]
  BY DEF HostInv, TypeInv, PrepareBefore, PrepareAfter, WriteStage, CreateFile, journals
<1>4. \/ UNCHANGED call /\ \E l \in {"after", "replace", "commit", "clean"} :
           /\ Goto(p, l)
           /\ l \in {"after", "replace"} => at[p] \in {"before", "after"}
           /\ l = "commit" => at[p] = "stage"
           /\ l = "clean" => at[p] = "stage2"
      \/ Return(p)
  BY DEF PrepareBefore, PrepareAfter, WriteStage, CreateFile
<1>5. CASE Return(p)
  <2>1. TypeInv'
    BY <1>1, <1>3, <1>5 DEF HostInv, TypeInv, Return, Goto, NoCall, Labels, Waiting, setup, onDisk,
                          deeds, IsStore
  <2>2. StepOf(p)'
    BY <1>5, ReturnedIsNowhere DEF HostInv
  <2> QED
    BY <1>1, <1>2, <1>5, <2>1, <2>2, CallGoesOn DEF setup, deeds
<1>6. CASE ~Return(p)
  <2>1. PICK l \in {"after", "replace", "commit", "clean"} :
          /\ UNCHANGED call /\ Goto(p, l)
          /\ l \in {"after", "replace"} => at[p] \in {"before", "after"}
          /\ l = "commit" => at[p] = "stage"
          /\ l = "clean" => at[p] = "stage2"
    BY <1>4, <1>6
  <2>2. at'[p] = l /\ l \in Labels \ (Waiting \cup Recoveries)
    BY <2>1 DEF HostInv, TypeInv, Goto, Labels, Writes, Ends, Waiting, Recoveries
  <2>3. TypeInv'
    BY <1>1, <1>3, <2>1, <2>2 DEF HostInv, TypeInv, Goto, setup, onDisk, deeds, IsStore
  <2>4. StepOf(p)'
    <3>1. StepOf(p)
      BY DEF HostInv, StepInv
    <3> QED
      BY <1>1, <2>1, <2>2, <3>1 DEF StepOf, Open, Writes, Ends, Setups
  <2> QED
    BY <1>1, <1>2, <2>1, <2>2, <2>3, <2>4, CallGoesOn DEF setup, deeds
<1> QED
  BY <1>5, <1>6

LEMMA ReplaceTargetKeeps ==
  ASSUME HostInv, NEW p \in Proc, ReplaceTarget(p), UNCHANGED setup
  PROVE  HostInv'
<1> DEFINE o == call[p].op
<1>1. /\ at[p] = "replace" /\ at[p] \in Writes /\ target' = o /\ installed' = installed \cup {o}
      /\ Goto(p, "stage") /\ UNCHANGED call
      /\ UNCHANGED <<status, request, settings, old, revision, manifest, before, after, plan, todo>>
  BY DEF ReplaceTarget, Writes, ledger, journal
<1>2. Busy(p) /\ o \in Op /\ o # 0
  BY <1>1, OneWriter
<1>3. /\ at'[p] = "stage" /\ "stage" \in Labels \ (Waiting \cup Recoveries)
      /\ \A r \in Proc : r # p => at'[r] = at[r] /\ call'[r] = call[r]
  BY <1>1 DEF HostInv, TypeInv, Goto, Labels, Writes, Waiting, Recoveries
<1>4. StepOf(p)
  BY DEF HostInv, StepInv
<1>5. /\ status[o] = "reserved" /\ Open(o) /\ o \notin installed
      /\ plan[o].number = revision.number /\ plan[o].bytes = target
  BY <1>1, <1>4 DEF StepOf
<1>6. TypeInv'
  BY <1>1, <1>2, <1>3 DEF HostInv, TypeInv, Goto, setup, onDisk, deeds, IsStore
<1>7. CallInv' /\ AloneInv' /\ RecoveryInv'
  BY <1>1, <1>2, <1>3, GoesOn DEF HostInv
<1>8. StepOf(p)'
  BY <1>1, <1>3, <1>4 DEF StepOf, Writes, Ends, Setups
<1>9. StepInv'
  BY <1>1, <1>3, <1>8, OthersOutside
<1>10. BytesInv'
  <2>1. \A x \in Op : plan[x].bytes # o
    BY <1>2, <1>5 DEF HostInv, BytesInv
  <2>2. \A x \in Op : plan[x].bytes \in installed \cup {0}
    BY DEF HostInv, BytesInv
  <2>3. \A x \in installed : x \in Op /\ x # o
    BY <1>5 DEF HostInv, TypeInv
  <2>4. \A x \in installed' : plan'[x].bytes # target'
    BY <1>1, <1>2, <2>1, <2>3
  <2>5. \A x \in installed' : status'[x] \in Unsettled => Open(x)'
    BY <1>1, <1>5 DEF HostInv, BytesInv, Open
  <2>6. \A x \in installed' : target' = x /\ status'[x] \in Unsettled
                              => revision'.number = plan'[x].number
    BY <1>1, <1>5, <2>3
  <2> QED
    BY <1>1, <2>2, <2>4, <2>5, <2>6 DEF BytesInv
<1>11. RowInv'
  BY <1>1, <1>5 DEF HostInv, RowInv
<1>12. SucceededIsApplied' /\ SettingsAreSerial'
  BY <1>1 DEF HostInv, SucceededIsApplied, SettingsAreSerial, setup, deeds
<1> QED
  BY <1>6, <1>7, <1>9, <1>10, <1>11, <1>12 DEF HostInv

LEMMA CommitRevisionKeeps ==
  ASSUME HostInv, NEW p \in Proc, CommitRevision(p), UNCHANGED setup
  PROVE  HostInv'
<1> DEFINE o == call[p].op
<1>1. /\ at[p] = "commit" /\ at[p] \in Writes
      /\ UNCHANGED <<request, settings, old, target, manifest, before, after, plan, todo, installed>>
  BY DEF CommitRevision, Writes, journal
<1>2. Busy(p) /\ o \in Op /\ o # 0
  BY <1>1, OneWriter
<1>3. StepOf(p)
  BY DEF HostInv, StepInv
<1>4. o \in installed /\ target = o
  BY <1>1, <1>3 DEF StepOf
<1>5. CASE revision.number = plan[o].number /\ status[o] = "reserved"
  <2>1. /\ revision' = [number |-> revision.number + 1, names |-> o]
        /\ status' = [status EXCEPT ![o] = "succeeded"]
        /\ Goto(p, "stage2") /\ UNCHANGED call
    <3>1. call' = Stored(p, call[p])
      BY <1>5 DEF CommitRevision
    <3>2. Overtaken(p, o) = {}
      BY <1>1, <1>2, NobodyElse
    <3>3. call' = call
      BY <3>1, <3>2 DEF Stored, HostInv, TypeInv
    <3> QED
      BY <1>5, <3>3 DEF CommitRevision
  <2>2. /\ at'[p] = "stage2" /\ "stage2" \in Labels \ (Waiting \cup Recoveries)
        /\ \A r \in Proc : r # p => at'[r] = at[r] /\ call'[r] = call[r]
    BY <2>1 DEF HostInv, TypeInv, Goto, Labels, Ends, Waiting, Recoveries
  <2>3. /\ status'[o] = "succeeded" /\ \A x \in Op : x # o => status'[x] = status[x]
        /\ status' \in [Op -> Statuses]
    BY <1>2, <2>1 DEF HostInv, TypeInv, Statuses, Terminal
  <2>4. TypeInv'
    <3>1. revision' \in [number : Nat, names : Op \cup {0}]
      BY <1>2, <2>1 DEF HostInv, TypeInv
    <3> QED
      BY <1>1, <2>1, <2>2, <2>3, <3>1 DEF HostInv, TypeInv, Goto, setup, onDisk, deeds, IsStore
  <2>5. CallInv' /\ AloneInv' /\ RecoveryInv'
    BY <1>1, <1>2, <2>1, <2>2, GoesOn DEF HostInv
  <2>6. StepOf(p)'
    BY <1>1, <1>3, <2>1, <2>2, <2>3 DEF StepOf, Writes, Ends, Setups
  <2>7. StepInv'
    BY <1>1, <2>2, <2>3, <2>6, OthersOutside
  <2>8. BytesInv'
    <3>1. \A x \in installed : status'[x] \in Unsettled => x # o /\ status[x] \in Unsettled
      BY <2>3 DEF HostInv, TypeInv, Unsettled
    <3> QED
      BY <1>1, <1>4, <3>1 DEF HostInv, BytesInv, Open
  <2>9. RowInv'
    <3>1. \A i \in DOMAIN settings : settings[i] \in Op
      BY DEF HostInv, TypeInv
    <3> QED
      BY <1>1, <2>3, <3>1 DEF HostInv, TypeInv, RowInv
  <2>10. SucceededIsApplied' /\ SettingsAreSerial'
    BY <1>1, <1>4, <2>3 DEF HostInv, SucceededIsApplied, SettingsAreSerial, setup, deeds
  <2> QED
    BY <2>4, <2>5, <2>7, <2>8, <2>9, <2>10 DEF HostInv
<1>6. CASE ~(revision.number = plan[o].number /\ status[o] = "reserved")
  <2>1. Return(p) /\ UNCHANGED <<revision, status>>
    BY <1>6 DEF CommitRevision
  <2>2. TypeInv'
    BY <1>1, <2>1 DEF HostInv, TypeInv, Return, Goto, NoCall, Labels, Waiting, setup, onDisk, deeds,
                IsStore
  <2>3. StepOf(p)'
    BY <2>1, ReturnedIsNowhere DEF HostInv
  <2> QED
    BY <1>1, <1>2, <2>1, <2>2, <2>3, CallGoesOn DEF setup, deeds
<1> QED
  BY <1>5, <1>6

\* What is removed of a journal.
LEMMA RemovedFiles ==
  ASSUME TypeInv, NEW o \in Op, Remove1(o)
  PROVE  /\ manifest' \in [Op -> {"absent", "torn", "whole"}]
         /\ before' \in [Op -> {"absent", "torn", "whole"}]
         /\ after' \in [Op -> {"absent", "torn", "whole"}]
         /\ \A x \in Op : x # o => manifest'[x] = manifest[x]
  BY DEF TypeInv, Remove1

LEMMA CleanupKeeps ==
  ASSUME HostInv, NEW p \in Proc, Cleanup(p), UNCHANGED setup
  PROVE  HostInv'
<1> DEFINE o == call[p].op
<1>1. /\ at[p] = "clean" /\ at[p] \in Ends /\ Remove1(o)
      /\ UNCHANGED <<status, request, settings, old, target, revision, plan, todo, installed>>
  BY DEF Cleanup, Ends, ledger
<1>2. Busy(p) /\ o \in Op /\ o # 0
  BY <1>1, OneWriter
<1>3. StepOf(p) /\ status[o] = "succeeded"
  BY <1>1 DEF HostInv, StepInv, StepOf
<1>4. /\ manifest' \in [Op -> {"absent", "torn", "whole"}]
      /\ before' \in [Op -> {"absent", "torn", "whole"}]
      /\ after' \in [Op -> {"absent", "torn", "whole"}]
      /\ \A x \in Op : x # o => manifest'[x] = manifest[x]
  BY <1>1, <1>2, RemovedFiles DEF HostInv
<1>5. Return(p) \/ UNCHANGED <<at, call>>
  BY DEF Cleanup
<1>6. /\ \A r \in Proc : r # p => at'[r] = at[r] /\ call'[r] = call[r]
      /\ (UNCHANGED call /\ Goto(p, "clean")) \/ Return(p)
  BY <1>1, <1>5 DEF HostInv, TypeInv, Return, Goto
<1>7. TypeInv'
  <2>1. CASE Return(p)
    BY <1>1, <1>4, <2>1 DEF HostInv, TypeInv, Return, Goto, NoCall, Labels, Waiting, setup, onDisk,
                          deeds, IsStore
  <2>2. CASE UNCHANGED <<at, call>>
    BY <1>1, <1>4, <2>2 DEF HostInv, TypeInv, setup, onDisk, deeds, IsStore
  <2> QED
    BY <1>5, <2>1, <2>2
<1>8. CallInv' /\ AloneInv' /\ RecoveryInv'
  <2>1. "clean" \in Labels \ (Waiting \cup Recoveries)
    BY DEF Labels, Ends, Waiting, Recoveries
  <2> QED
    BY <1>1, <1>2, <1>6, <2>1, GoesOn DEF HostInv
<1>9. StepOf(p)'
  <2>1. CASE Return(p)
    BY <2>1, ReturnedIsNowhere DEF HostInv
  <2>2. CASE UNCHANGED <<at, call>>
    BY <1>1, <1>3, <2>2 DEF StepOf, Writes, Ends, Setups
  <2> QED
    BY <1>5, <2>1, <2>2
<1>10. StepInv'
  BY <1>1, <1>6, <1>9, OthersOutside
<1>11. BytesInv'
  <2>1. \A x \in installed : status[x] \in Unsettled => manifest'[x] = manifest[x]
    BY <1>3, <1>4 DEF HostInv, TypeInv, Unsettled
  <2> QED
    BY <1>1, <2>1 DEF HostInv, BytesInv, Open
<1>12. RowInv' /\ SucceededIsApplied' /\ SettingsAreSerial'
  BY <1>1 DEF HostInv, RowInv, SucceededIsApplied, SettingsAreSerial, setup, deeds
<1> QED
  BY <1>7, <1>8, <1>10, <1>11, <1>12 DEF HostInv

-----------------------------------------------------------------------------
(* Startup *)

LEMMA StartKeeps == ASSUME HostInv, NEW p \in Proc, Start(p) PROVE HostInv'
<1>1. /\ at[p] = "down" /\ at'[p] \in {"recover", "idle"}
      /\ at'[p] = "recover" => \A r \in Proc : at[r] = "down"
      /\ \A r \in Proc : r # p => at'[r] = at[r]
      /\ at' \in [Proc -> Labels] /\ todo' \subseteq Op
  BY DEF HostInv, TypeInv, Start, Goto, Labels, Waiting, Recoveries
<1>2. UNCHANGED <<ledger, call, count, setup, target, revision, journal, plan, installed>>
  BY DEF Start
<1>3. \A r \in Proc : at[r] \notin Recoveries
  BY DEF Start, Recovering, Recoveries
<1>4. TypeInv'
  BY <1>1, <1>2 DEF HostInv, TypeInv, ledger, setup, onDisk, deeds, journal, IsStore
<1>5. CallInv'
  BY <1>1, <1>2 DEF HostInv, CallInv, Waiting, Recoveries, ledger
<1>6. AloneInv'
  BY <1>1, <1>2, <1>3 DEF HostInv, AloneInv, Recoveries, Journaled
<1>7. StepInv'
  <2>1. StepOf(p)'
    BY <1>1 DEF StepOf, Writes, Ends, Setups
  <2> QED
    BY <1>1, <1>2, <2>1, OthersStay DEF HostInv, ledger, setup, deeds, journal
<1>8. RowInv' /\ BytesInv' /\ SucceededIsApplied' /\ SettingsAreSerial'
  BY <1>2, FactsStay DEF HostInv, ledger, setup, deeds, journal
<1>9. RecoveryInv'
  BY <1>1, <1>3 DEF RecoveryInv, Recoveries
<1> QED
  BY <1>4, <1>5, <1>6, <1>7, <1>8, <1>9 DEF HostInv

\* A process that recovers does not disturb anybody.
LEMMA RecoversAlone ==
  ASSUME HostInv, NEW p \in Proc, at[p] \in Recoveries, UNCHANGED <<call, old>>,
         \/ \E l \in {"recover", "rclean", "reserved", "idle", "down"} : Goto(p, l)
         \/ UNCHANGED at
  PROVE  /\ at' \in [Proc -> Labels] /\ CallInv' /\ AloneInv' /\ StepInv'
         /\ \A r \in Proc : at'[r] \in Recoveries => r = p
<1>1. /\ \A r \in Proc : r # p => at'[r] = "down"
      /\ at'[p] \in {"recover", "rclean", "reserved", "idle", "down"}
      /\ at' \in [Proc -> Labels]
  <2>1. \A r \in Proc : r # p => at[r] = "down"
    BY DEF HostInv, AloneInv
  <2>2. at \in [Proc -> Labels]
    BY DEF HostInv, TypeInv
  <2>3. CASE UNCHANGED at
    BY <2>1, <2>2, <2>3 DEF Recoveries
  <2>4. ASSUME NEW l \in {"recover", "rclean", "reserved", "idle", "down"}, Goto(p, l)
        PROVE  /\ \A r \in Proc : r # p => at'[r] = "down"
               /\ at'[p] \in {"recover", "rclean", "reserved", "idle", "down"}
               /\ at' \in [Proc -> Labels]
    <3>1. l \in Labels
      BY DEF Labels, Waiting, Recoveries
    <3> QED
      BY <2>1, <2>2, <2>4, <3>1 DEF Goto
  <2> QED
    BY <2>3, <2>4
<1>2. \A r \in Proc : call'[r] = NoCall /\ at'[r] \in Waiting \cup Recoveries
  <2>1. \A r \in Proc : at[r] \in Waiting \cup Recoveries
    BY DEF HostInv, AloneInv, Waiting, Recoveries
  <2> QED
    BY <1>1, <2>1 DEF HostInv, CallInv, Waiting, Recoveries
<1>3. CallInv' /\ StepInv'
  BY <1>2 DEF CallInv, StepInv, StepOf, Waiting, Recoveries, Writes, Ends, Setups
<1>4. AloneInv'
  BY <1>1, <1>2 DEF AloneInv, Recoveries, Journaled, NoCall, Nothing
<1> QED
  BY <1>1, <1>3, <1>4 DEF Recoveries

\* An operation that was installed and has no result is not taken for done or undone.
LEMMA UnsettledIsMixed ==
  ASSUME TypeInv, BytesInv, NEW o \in Op, o # 0, status[o] \in Unsettled
  PROVE  /\ ~MatchesAfter(o)
         /\ MatchesBefore(o) => o \notin installed
<1>1. target = o => o \in installed
  BY DEF BytesInv
<1>2. revision.number \in Nat /\ plan[o].number \in Nat
  BY DEF TypeInv
<1>3. target = o => revision.number = plan[o].number
  BY <1>1 DEF BytesInv
<1>4. o \in installed => plan[o].bytes # target
  BY DEF BytesInv
<1> QED
  BY <1>2, <1>3, <1>4 DEF MatchesAfter, MatchesBefore

LEMMA OpIsNotZero == 0 \notin Op
BY LedgerAssumption

LEMMA NatIsWellFounded == IsWellFoundedOn({p \in Nat \X Nat : p[1] < p[2]}, Nat)
BY NatLessThanWellFounded DEF OpToRel

LEMMA FirstIs ==
  ASSUME NEW S, S \subseteq Nat, S # {}
  PROVE  First(S) \in S
<1>1. PICK m \in S : \A i \in S : ~(<<i, m>> \in {p \in Nat \X Nat : p[1] < p[2]})
  BY NatIsWellFounded, WFMin
<1>2. ASSUME NEW i \in S PROVE m <= i
  <2>1. i \in Nat /\ m \in Nat /\ ~(i < m)
    BY <1>1
  <2> QED
    BY <2>1
<1> QED
  BY <1>2 DEF First

LEMMA RecoverAfterKeeps == ASSUME HostInv, NEW p \in Proc, RecoverAfter(p) PROVE HostInv'
<1>1. PICK o \in todo : /\ Looking(p, o) /\ MatchesAfter(o) /\ Goto(p, "rclean")
                        /\ UNCHANGED <<ledger, call, count, setup, journals>>
  BY DEF RecoverAfter
<1>2. at[p] = "recover" /\ at[p] \in Recoveries /\ o = First(todo) /\ o \in Op
  BY <1>1 DEF HostInv, TypeInv, Looking, Recoveries
<1>3. /\ at' \in [Proc -> Labels] /\ CallInv' /\ AloneInv' /\ StepInv'
      /\ \A r \in Proc : at'[r] \in Recoveries => r = p
  BY <1>1, <1>2, RecoversAlone DEF ledger
<1>4. TypeInv'
  BY <1>1, <1>3 DEF HostInv, TypeInv, ledger, setup, onDisk, deeds, journals, IsStore
<1>5. RowInv' /\ BytesInv' /\ SucceededIsApplied' /\ SettingsAreSerial'
  BY <1>1, FactsStay DEF HostInv, ledger, setup, deeds, journals
<1>6. RecoveryInv'
  <2>1. status[o] \notin Unsettled
    BY <1>1, <1>2, UnsettledIsMixed, OpIsNotZero DEF HostInv
  <2>2. at'[p] = "rclean" /\ First(todo') = o /\ status' = status
    BY <1>1, <1>2 DEF HostInv, TypeInv, Goto, ledger, journals, First
  <2> QED
    BY <1>3, <2>1, <2>2 DEF RecoveryInv, Recoveries
<1> QED
  BY <1>3, <1>4, <1>5, <1>6 DEF HostInv

\* A reserved row is interrupted.
LEMMA RowInterrupted ==
  ASSUME HostInv, NEW o \in Op, status[o] = "reserved",
         status' = [status EXCEPT ![o] = "interrupted"],
         UNCHANGED <<settings, old, setup, manifest, plan, installed, target, revision>>
  PROVE  /\ status' \in [Op -> Statuses]
         /\ RowInv' /\ BytesInv' /\ SucceededIsApplied' /\ SettingsAreSerial'
<1>1. /\ status'[o] = "interrupted" /\ \A x \in Op : x # o => status'[x] = status[x]
      /\ status' \in [Op -> Statuses]
  BY DEF HostInv, TypeInv, Statuses
<1>2. \A i \in DOMAIN settings : settings[i] \in Op
  BY DEF HostInv, TypeInv
<1>3. RowInv'
  BY <1>1, <1>2 DEF HostInv, TypeInv, RowInv
<1>4. BytesInv'
  <2>1. \A x \in installed : status'[x] \in Unsettled => status[x] \in Unsettled
    BY <1>1 DEF HostInv, TypeInv, Unsettled
  <2> QED
    BY <2>1 DEF HostInv, BytesInv, Open
<1>5. SucceededIsApplied' /\ SettingsAreSerial'
  BY <1>1 DEF HostInv, SucceededIsApplied, SettingsAreSerial, setup, deeds
<1> QED
  BY <1>1, <1>3, <1>4, <1>5

LEMMA RecoverBeforeKeeps == ASSUME HostInv, NEW p \in Proc, RecoverBefore(p) PROVE HostInv'
<1>1. PICK o \in todo : /\ Looking(p, o) /\ MatchesBefore(o) /\ Goto(p, "rclean")
                        /\ status[o] = "reserved"
                        /\ status' = [status EXCEPT ![o] = "interrupted"]
                        /\ UNCHANGED <<request, settings, old, call, count, setup, journals>>
  BY DEF RecoverBefore
<1>2. at[p] = "recover" /\ at[p] \in Recoveries /\ o = First(todo) /\ o \in Op
  BY <1>1 DEF HostInv, TypeInv, Looking, Recoveries
<1>3. /\ at' \in [Proc -> Labels] /\ CallInv' /\ AloneInv' /\ StepInv'
      /\ \A r \in Proc : at'[r] \in Recoveries => r = p
  BY <1>1, <1>2, RecoversAlone
<1>4. /\ status' \in [Op -> Statuses]
      /\ RowInv' /\ BytesInv' /\ SucceededIsApplied' /\ SettingsAreSerial'
  BY <1>1, <1>2, RowInterrupted DEF journals
<1>5. TypeInv'
  BY <1>1, <1>3, <1>4 DEF HostInv, TypeInv, setup, onDisk, deeds, journals, IsStore
<1>6. RecoveryInv'
  <2>1. status[o] \in Unsettled
    BY <1>1 DEF Unsettled
  <2>2. o \notin installed
    BY <1>1, <1>2, <2>1, UnsettledIsMixed, OpIsNotZero DEF HostInv
  <2>3. at'[p] = "rclean" /\ First(todo') = o /\ installed' = installed
    BY <1>1, <1>2 DEF HostInv, TypeInv, Goto, journals, First
  <2> QED
    BY <1>3, <2>2, <2>3 DEF RecoveryInv, Recoveries
<1> QED
  BY <1>3, <1>4, <1>5, <1>6 DEF HostInv

LEMMA RecoverMixedKeeps == ASSUME HostInv, NEW p \in Proc, RecoverMixed(p) PROVE HostInv'
<1>1. PICK o \in todo : /\ Looking(p, o)
                        /\ status[o] = "reserved"
                        /\ status' = [status EXCEPT ![o] = "interrupted"]
                        /\ todo' = todo \ {o}
                        /\ UNCHANGED <<request, settings, old, at, call, count, setup, target,
                                       revision, journal, plan, installed>>
  BY DEF RecoverMixed
<1>2. at[p] = "recover" /\ at[p] \in Recoveries /\ o \in Op
  BY <1>1 DEF HostInv, TypeInv, Looking, Recoveries
<1>3. /\ at' \in [Proc -> Labels] /\ CallInv' /\ AloneInv' /\ StepInv'
      /\ \A r \in Proc : at'[r] \in Recoveries => r = p
  BY <1>1, <1>2, RecoversAlone
<1>4. /\ status' \in [Op -> Statuses]
      /\ RowInv' /\ BytesInv' /\ SucceededIsApplied' /\ SettingsAreSerial'
  BY <1>1, <1>2, RowInterrupted DEF journal
<1>5. TypeInv'
  BY <1>1, <1>3, <1>4 DEF HostInv, TypeInv, setup, onDisk, deeds, journal, IsStore
<1>6. RecoveryInv'
  BY <1>1, <1>2, <1>3 DEF RecoveryInv, Recoveries
<1> QED
  BY <1>3, <1>4, <1>5, <1>6 DEF HostInv

LEMMA RecoverFailsKeeps ==
  ASSUME HostInv, NEW p \in Proc, RecoverFails(p) \/ ListReserved(p) \/ RecoverKeeps(p)
  PROVE  HostInv'
<1>1. /\ at[p] = "recover" /\ at[p] \in Recoveries
      /\ UNCHANGED <<ledger, call, count, setup, target, revision, journal, plan, installed>>
  BY DEF RecoverFails, ListReserved, RecoverKeeps, Looking, Recoveries, ledger
<1>2. \/ Goto(p, "down") /\ todo' = {}
      \/ Goto(p, "reserved") /\ todo' = {o \in Op : status[o] = "reserved"}
      \/ UNCHANGED at /\ todo' \subseteq todo
  BY DEF RecoverFails, ListReserved, RecoverKeeps
<1>3. /\ at' \in [Proc -> Labels] /\ CallInv' /\ AloneInv' /\ StepInv'
      /\ \A r \in Proc : at'[r] \in Recoveries => r = p
  BY <1>1, <1>2, RecoversAlone DEF ledger
<1>4. TypeInv'
  BY <1>1, <1>2, <1>3 DEF HostInv, TypeInv, ledger, setup, onDisk, deeds, journal, IsStore
<1>5. RowInv' /\ BytesInv' /\ SucceededIsApplied' /\ SettingsAreSerial'
  BY <1>1, FactsStay DEF HostInv, ledger, setup, deeds, journal
<1>6. RecoveryInv'
  BY <1>1, <1>2, <1>3 DEF HostInv, TypeInv, RecoveryInv, Goto, Recoveries, ledger
<1> QED
  BY <1>3, <1>4, <1>5, <1>6 DEF HostInv

LEMMA RecoverCleanupKeeps == ASSUME HostInv, NEW p \in Proc, RecoverCleanup(p) PROVE HostInv'
<1>1. PICK o \in todo :
        /\ at[p] = "rclean" /\ o = First(todo) /\ Remove1(o)
        /\ \/ Goto(p, "recover") /\ todo' = todo \ {o}
           \/ UNCHANGED <<at, todo>>
        /\ UNCHANGED <<ledger, call, count, setup, target, revision, plan, installed>>
  BY DEF RecoverCleanup
<1>2. at[p] \in Recoveries /\ o \in Op
  BY <1>1 DEF HostInv, TypeInv, Recoveries
<1>3. /\ at' \in [Proc -> Labels] /\ CallInv' /\ AloneInv' /\ StepInv'
      /\ \A r \in Proc : at'[r] \in Recoveries => r = p
  BY <1>1, <1>2, RecoversAlone DEF ledger
<1>4. /\ manifest' \in [Op -> {"absent", "torn", "whole"}]
      /\ before' \in [Op -> {"absent", "torn", "whole"}]
      /\ after' \in [Op -> {"absent", "torn", "whole"}]
      /\ \A x \in Op : x # o => manifest'[x] = manifest[x]
  BY <1>1, <1>2, RemovedFiles DEF HostInv
<1>5. TypeInv'
  BY <1>1, <1>3, <1>4 DEF HostInv, TypeInv, ledger, setup, onDisk, deeds, IsStore
<1>6. o \in installed => status[o] \notin Unsettled
  BY <1>1 DEF HostInv, RecoveryInv
<1>7. BytesInv'
  <2>1. \A x \in installed : status[x] \in Unsettled => manifest'[x] = manifest[x]
    BY <1>4, <1>6 DEF HostInv, TypeInv
  <2> QED
    BY <1>1, <2>1 DEF HostInv, BytesInv, Open, ledger
<1>8. RowInv' /\ SucceededIsApplied' /\ SettingsAreSerial'
  BY <1>1 DEF HostInv, RowInv, SucceededIsApplied, SettingsAreSerial, setup, deeds, ledger
<1>9. RecoveryInv'
  <2>1. CASE Goto(p, "recover")
    BY <1>3, <2>1 DEF HostInv, TypeInv, RecoveryInv, Goto, Recoveries
  <2>2. CASE UNCHANGED <<at, todo>>
    BY <1>1, <2>2 DEF HostInv, RecoveryInv, First, ledger
  <2> QED
    BY <1>1, <2>1, <2>2
<1> QED
  BY <1>3, <1>5, <1>7, <1>8, <1>9 DEF HostInv

LEMMA RecoverRowKeeps == ASSUME HostInv, NEW p \in Proc, RecoverRow(p) PROVE HostInv'
<1>1. /\ at[p] = "reserved" /\ at[p] \in Recoveries
      /\ UNCHANGED <<request, settings, old, call, count, setup, target, revision, journal, plan,
                     installed>>
  BY DEF RecoverRow, Recoveries
<1>2. CASE todo = {} \/ UNCHANGED status
  <2>1. /\ UNCHANGED status /\ todo' \subseteq todo
        /\ Goto(p, "idle") \/ UNCHANGED at
    BY <1>2 DEF RecoverRow
  <2>2. /\ at' \in [Proc -> Labels] /\ CallInv' /\ AloneInv' /\ StepInv'
        /\ \A r \in Proc : at'[r] \in Recoveries => r = p
    BY <1>1, <2>1, RecoversAlone
  <2>3. TypeInv'
    BY <1>1, <2>1, <2>2 DEF HostInv, TypeInv, setup, onDisk, deeds, journal, IsStore
  <2>4. RowInv' /\ BytesInv' /\ SucceededIsApplied' /\ SettingsAreSerial'
    BY <1>1, <2>1, FactsStay DEF HostInv, setup, deeds, journal
  <2>5. RecoveryInv'
    BY <1>1, <2>1, <2>2 DEF HostInv, TypeInv, RecoveryInv, Goto, Recoveries
  <2> QED
    BY <2>2, <2>3, <2>4, <2>5 DEF HostInv
<1>3. CASE todo # {} /\ ~UNCHANGED status
  <2> DEFINE o == First(todo)
  <2>1. /\ status' = [status EXCEPT ![o] = "interrupted"] /\ todo' = todo \ {o} /\ UNCHANGED at
    BY <1>3 DEF RecoverRow
  <2>2. o \in todo /\ o \in Op /\ status[o] = "reserved"
    BY <1>1, <1>3, FirstIs, LedgerAssumption DEF HostInv, TypeInv, RecoveryInv
  <2> HIDE DEF o
  <2>3. /\ at' \in [Proc -> Labels] /\ CallInv' /\ AloneInv' /\ StepInv'
        /\ \A r \in Proc : at'[r] \in Recoveries => r = p
    BY <1>1, <2>1, RecoversAlone
  <2>4. /\ status' \in [Op -> Statuses]
        /\ RowInv' /\ BytesInv' /\ SucceededIsApplied' /\ SettingsAreSerial'
    BY <1>1, <2>1, <2>2, RowInterrupted DEF journal
  <2>5. TypeInv'
    BY <1>1, <2>1, <2>3, <2>4 DEF HostInv, TypeInv, setup, onDisk, deeds, journal, IsStore
  <2>6. RecoveryInv'
    <3>1. \A x \in todo' : status'[x] = "reserved"
      BY <1>1, <2>1 DEF HostInv, TypeInv, RecoveryInv
    <3>2. at'[p] # "rclean"
      BY <1>1, <2>1
    <3> QED
      BY <2>3, <3>1, <3>2 DEF RecoveryInv, Recoveries
  <2> QED
    BY <2>3, <2>4, <2>5, <2>6 DEF HostInv
<1> QED
  BY <1>2, <1>3

-----------------------------------------------------------------------------
(* Kills and failures *)

\* A torn file is there.
LEMMA TornFiles ==
  ASSUME HostInv, NEW p \in Proc, Torn(p)
  PROVE  /\ manifest' \in [Op -> {"absent", "torn", "whole"}]
         /\ before' \in [Op -> {"absent", "torn", "whole"}]
         /\ after' \in [Op -> {"absent", "torn", "whole"}]
         /\ \A x \in Op : Open(x) => Open(x)'
<1>1. \A file : file \in [Op -> {"absent", "torn", "whole"}] =>
        LET t == [file EXCEPT ![call[p].op] = "torn"]
        IN /\ t \in [Op -> {"absent", "torn", "whole"}]
           /\ \A x \in Op : file[x] # "absent" => t[x] # "absent"
  OBVIOUS
<1>2. /\ manifest' \in {manifest, [manifest EXCEPT ![call[p].op] = "torn"]}
      /\ before' \in {before, [before EXCEPT ![call[p].op] = "torn"]}
      /\ after' \in {after, [after EXCEPT ![call[p].op] = "torn"]}
  BY DEF Torn
<1>3. /\ manifest \in [Op -> {"absent", "torn", "whole"}]
      /\ before \in [Op -> {"absent", "torn", "whole"}]
      /\ after \in [Op -> {"absent", "torn", "whole"}]
  BY DEF HostInv, TypeInv
<1> QED
  BY <1>1, <1>2, <1>3 DEF Open

\* A process is stopped, or returns with an error, anywhere in its call.
LEMMA StopKeeps ==
  ASSUME HostInv, NEW p \in Proc, TypeInv', at[p] # "down",
         call' = [call EXCEPT ![p] = NoCall],
         Goto(p, "down") \/ (Goto(p, "idle") /\ Busy(p)),
         UNCHANGED <<status, request, settings, old, deeds, target, revision, plan, installed>>,
         \A x \in Op : Open(x) => Open(x)'
  PROVE  HostInv'
<1>1. /\ at'[p] \in {"down", "idle"} /\ call'[p] = NoCall
      /\ \A r \in Proc : r # p => at'[r] = at[r] /\ call'[r] = call[r]
  BY DEF HostInv, TypeInv, Goto
<1>2. CallInv'
  BY <1>1 DEF HostInv, CallInv, Waiting, Recoveries
<1>3. AloneInv'
  <2>1. ~Journaled(NoCall) /\ NoCall.op = 0
    BY DEF Journaled, NoCall, Nothing
  <2>2. \A r, s \in Proc : at'[r] \in Recoveries /\ s # r => at'[s] = "down"
    <3> SUFFICES ASSUME NEW r \in Proc, NEW s \in Proc, at'[r] \in Recoveries, s # r
                 PROVE  at'[s] = "down"
      OBVIOUS
    <3>1. r # p /\ at[r] \in Recoveries /\ at[s] = "down"
      BY <1>1 DEF HostInv, AloneInv, Recoveries
    <3>2. Goto(p, "idle") => s # p
      BY <3>1 DEF Busy, Waiting
    <3> QED
      BY <1>1, <3>1, <3>2 DEF HostInv, TypeInv, Goto
  <2>3. \A r, s \in Proc : Journaled(call'[r]) /\ Journaled(call'[s]) => r = s
    BY <1>1, <2>1 DEF HostInv, AloneInv
  <2> QED
    BY <2>2, <2>3 DEF AloneInv, Journaled
<1>4. StepInv'
  <2> SUFFICES ASSUME NEW r \in Proc PROVE StepOf(r)'
    BY DEF StepInv
  <2>1. CASE r = p
    BY <1>1, <2>1 DEF StepOf, Writes, Ends, Setups
  <2>2. CASE r # p /\ at[r] \notin Writes \cup Ends \cup Setups
    BY <1>1, <2>2 DEF StepOf, Writes, Ends, Setups
  <2>3. CASE r # p /\ at[r] \in Writes \cup Ends \cup Setups
    <3>1. Busy(r)
      BY <2>3 DEF Busy, Writes, Ends, Setups, Waiting, Recoveries
    <3>2. call[r].op \in Op
      BY <3>1, CallOf
    <3>3. manifest[call[r].op] # "absent" => manifest'[call[r].op] # "absent"
      BY <3>2 DEF Open
    <3>4. StepOf(r) /\ at'[r] = at[r] /\ call'[r] = call[r]
      BY <1>1, <2>3 DEF HostInv, StepInv
    <3> QED
      BY <3>3, <3>4 DEF StepOf, deeds, Open
  <2> QED
    BY <2>1, <2>2, <2>3
<1>5. RowInv' /\ SucceededIsApplied' /\ SettingsAreSerial'
  BY DEF HostInv, RowInv, SucceededIsApplied, SettingsAreSerial, deeds
<1>6. BytesInv'
  BY DEF HostInv, TypeInv, BytesInv
<1>7. RecoveryInv'
  <2>1. \A r \in Proc : r # p => at[r] \notin Recoveries
    BY DEF HostInv, AloneInv
  <2> QED
    BY <1>1, <2>1 DEF RecoveryInv, Recoveries
<1> QED
  BY <1>2, <1>3, <1>4, <1>5, <1>6, <1>7 DEF HostInv

LEMMA KillKeeps == ASSUME HostInv, NEW p \in Proc, Kill(p) PROVE HostInv'
<1>1. /\ at[p] # "down" /\ Goto(p, "down") /\ call' = [call EXCEPT ![p] = NoCall]
      /\ copy' = [copy EXCEPT ![p] = EmptyStore]
      /\ temp' \subseteq temp /\ (todo' = {} \/ todo' = todo)
      /\ UNCHANGED <<ledger, store, config, deeds, target, revision, plan, installed>>
  BY DEF Kill
<1>2. /\ manifest' \in [Op -> {"absent", "torn", "whole"}]
      /\ before' \in [Op -> {"absent", "torn", "whole"}]
      /\ after' \in [Op -> {"absent", "torn", "whole"}]
      /\ \A x \in Op : Open(x) => Open(x)'
  <2>1. CASE call[p].op = 0
    BY <2>1 DEF Kill, HostInv, TypeInv, Open, journal
  <2>2. CASE call[p].op # 0
    BY <2>2, TornFiles DEF Kill
  <2> QED
    BY <2>1, <2>2
<1>3. TypeInv'
  <2>1. copy' = [r \in Proc |-> copy'[r]] /\ \A r \in Proc : IsStore(copy'[r])
    BY <1>1 DEF HostInv, TypeInv, IsStore, EmptyStore
  <2>2. at' \in [Proc -> Labels]
    BY <1>1 DEF HostInv, TypeInv, Goto, Labels, Waiting
  <2> QED
    BY <1>1, <1>2, <2>1, <2>2 DEF HostInv, TypeInv, NoCall, ledger, deeds, IsStore
<1>4. Goto(p, "down") \/ (Goto(p, "idle") /\ Busy(p))
  <2>1. Goto(p, "down")
    BY <1>1
  <2> QED
    BY ONLY <2>1, Zenon
<1>5. UNCHANGED <<status, request, settings, old, deeds, target, revision, plan, installed>>
  BY <1>1 DEF ledger
<1> QED
  BY ONLY HostInv, p \in Proc, <1>1, <1>2, <1>3, <1>4, <1>5, StopKeeps

LEMMA FailIOKeeps == ASSUME HostInv, NEW p \in Proc, FailIO(p) PROVE HostInv'
<1>1. /\ call[p].op # 0 /\ Goto(p, "idle") /\ call' = [call EXCEPT ![p] = NoCall]
      /\ copy' = [copy EXCEPT ![p] = EmptyStore] /\ Torn(p)
      /\ temp' \subseteq temp \cup (Proc \X {"save", "config"})
      /\ UNCHANGED <<ledger, store, config, deeds, target, revision, plan, todo, installed>>
  BY DEF FailIO, Return
<1>2. Busy(p) /\ at[p] # "down"
  BY <1>1 DEF HostInv, CallInv, Busy, NoCall, Waiting
<1>3. /\ manifest' \in [Op -> {"absent", "torn", "whole"}]
      /\ before' \in [Op -> {"absent", "torn", "whole"}]
      /\ after' \in [Op -> {"absent", "torn", "whole"}]
      /\ \A x \in Op : Open(x) => Open(x)'
  BY <1>1, TornFiles
<1>4. TypeInv'
  <2>1. copy' = [r \in Proc |-> copy'[r]] /\ \A r \in Proc : IsStore(copy'[r])
    BY <1>1 DEF HostInv, TypeInv, IsStore, EmptyStore
  <2>2. at' \in [Proc -> Labels]
    BY <1>1 DEF HostInv, TypeInv, Goto, Labels, Waiting
  <2> QED
    BY <1>1, <1>3, <2>1, <2>2 DEF HostInv, TypeInv, NoCall, ledger, deeds, IsStore
<1> QED
  BY <1>1, <1>2, <1>3, <1>4, StopKeeps DEF ledger

-----------------------------------------------------------------------------
(* The theorems *)

LEMMA HostInitHolds == HostInit => HostInv
<1> SUFFICES ASSUME HostInit PROVE HostInv
  OBVIOUS
<1> USE DEF HostInit, LedgerInit, SetupInit, JournalInit
<1>1. TypeInv
  BY DEF TypeInv, Labels, Waiting, Statuses, NoCall, IsStore, EmptyStore
<1>2. CallInv /\ StepInv /\ RecoveryInv
  BY DEF CallInv, StepInv, StepOf, RecoveryInv, Waiting, Recoveries, Writes, Ends, Setups
<1>3. AloneInv
  BY DEF AloneInv, Recoveries, Journaled, NoCall, Nothing
<1>4. RowInv /\ BytesInv /\ SucceededIsApplied /\ SettingsAreSerial
  BY DEF RowInv, BytesInv, SucceededIsApplied, SettingsAreSerial
<1> QED
  BY <1>1, <1>2, <1>3, <1>4 DEF HostInv

LEMMA HostStepKeeps == HostInv /\ [HostNext]_hostVars => HostInv'
<1> SUFFICES ASSUME HostInv, [HostNext]_hostVars PROVE HostInv'
  OBVIOUS
<1>1. ASSUME NEW p \in Proc, Reservation(p), UNCHANGED <<setup, journals>> PROVE HostInv'
  BY <1>1, CallKeeps, LookupKeeps, ReserveKeeps, PatchSettingsKeeps DEF Reservation
<1>2. ASSUME NEW p \in Proc, Setup(p), UNCHANGED journals PROVE HostInv'
  BY <1>2, LoadKeeps, SaveKeeps, CompleteKeeps DEF Setup
<1>3. ASSUME NEW p \in Proc, Write(p), UNCHANGED setup PROVE HostInv'
  BY <1>3, PrepareManifestKeeps, PrepareBytesKeeps, ReplaceTargetKeeps, CommitRevisionKeeps,
     CleanupKeeps DEF Write
<1>4. ASSUME NEW p \in Proc, Start(p) \/ Recovery(p) PROVE HostInv'
  BY <1>4, StartKeeps, RecoverAfterKeeps, RecoverBeforeKeeps, RecoverMixedKeeps, RecoverFailsKeeps,
     RecoverCleanupKeeps, RecoverRowKeeps DEF Recovery
<1>5. ASSUME NEW p \in Proc, Kill(p) \/ FailIO(p) PROVE HostInv'
  BY <1>5, KillKeeps, FailIOKeeps
<1>6. ASSUME NEW o \in Op, Prune(o), UNCHANGED <<setup, journals>> PROVE HostInv'
  BY <1>6, PruneKeeps
<1>7. CASE UNCHANGED hostVars
  <2>1. UNCHANGED <<ledger, at, call, setup, journals>>
    BY <1>7 DEF hostVars
  <2>2. TypeInv' /\ CallInv' /\ AloneInv'
    BY <2>1 DEF HostInv, TypeInv, CallInv, AloneInv, ledger, setup, onDisk, deeds, journals, IsStore,
                Journaled
  <2>3. StepInv' /\ RecoveryInv'
    BY <2>1 DEF HostInv, StepInv, StepOf, RecoveryInv, ledger, setup, deeds, journals, Open, First
  <2>4. RowInv' /\ BytesInv' /\ SucceededIsApplied' /\ SettingsAreSerial'
    BY <2>1, FactsStay DEF HostInv, ledger, setup, deeds, journals
  <2> QED
    BY <2>2, <2>3, <2>4 DEF HostInv
<1> QED
  BY <1>1, <1>2, <1>3, <1>4, <1>5, <1>6, <1>7 DEF HostNext

LEMMA HostSpecInductive == HostSpec => []HostInv
BY HostInitHolds, HostStepKeeps, PTL DEF HostSpec

\* Rows, calls, files and histories of the processes of a home directory stay what they
\* are, for any number of processes, operations, kills and failures, also where an
\* operation is sent again while another process works on it.
THEOREM HostSpecTypeOK == HostSpec => []HostTypeOK
<1>1. HostInv => HostTypeOK
  BY DEF HostInv, TypeInv, HostTypeOK, IsStore
<1> QED
  BY <1>1, HostSpecInductive, PTL

\* A result is stored as a success only after the whole effect was made: by complete_terminal
\* at the end of a login, a logout or a setup, by journal_commit_revision after the rename, by
\* a settings patch in its own transaction, and never by a recovery.
THEOREM SpecSucceededIsApplied == HostSpec => []SucceededIsApplied
<1>1. HostInv => SucceededIsApplied
  BY DEF HostInv
<1> QED
  BY <1>1, HostSpecInductive, PTL

\* The settings are patches made for the revision they changed, each once: an operation that
\* was applied keeps its row, or was pruned and is not sent again.
THEOREM SpecSettingsAreSerial == HostSpec => []SettingsAreSerial
<1>1. HostInv => SettingsAreSerial
  BY DEF HostInv
<1> QED
  BY <1>1, HostSpecInductive, PTL

\* Whoever is told that a write was interrupted and finds no journal of it may send it again
\* under a new id: no recovery takes bytes that were in place for bytes that never were, because
\* bytes are installed once and the revision moves only with the row.
THEOREM SpecInterruptedHadNoEffect == HostSpec => []InterruptedHadNoEffect
<1>1. HostInv => InterruptedHadNoEffect
  BY DEF HostInv, BytesInv, InterruptedHadNoEffect, Unsettled
<1> QED
  BY <1>1, HostSpecInductive, PTL

\* A journal whose bytes are in place at the next revision has no reserved row: recover_host_journal
\* never comes to the branch that would rebuild a result (operation_ledger.rs).
THEOREM SpecAfterIsCommitted == HostSpec => []AfterIsCommitted
<1>1. HostInv => AfterIsCommitted
  <2> SUFFICES ASSUME HostInv, NEW o \in Op, MatchesAfter(o), status[o] = "reserved" PROVE FALSE
    BY DEF AfterIsCommitted
  <2> QED
    BY UnsettledIsMixed, OpIsNotZero DEF HostInv, Unsettled
<1> QED
  BY <1>1, HostSpecInductive, PTL

\* Once a result is stored under an id, no call under that id changes the store, the
\* configuration, the settings or the target, but one that was past its lookup when another
\* process stored the result.
THEOREM SpecNoEffectAfterResult == HostSpec => NoEffectAfterResult
<1> DEFINE Safe == \A p \in Proc : LateEffect(p) => call[p].overtaken
<1>1. HostInv /\ [HostNext]_hostVars => [Safe]_hostVars
  <2> SUFFICES ASSUME HostInv, HostNext, NEW p \in Proc, LateEffect(p), ~call[p].overtaken
               PROVE  FALSE
    OBVIOUS
  <2>0. /\ call[p].op # 0 /\ status[call[p].op] \in Terminal \cup {"interrupted"}
        /\ at'[p] # at[p]
        /\ ~UNCHANGED <<store, config, settings, target>>
    BY DEF LateEffect
  <2>1. /\ status[call[p].op] # "none" /\ status[call[p].op] # "reserved"
        /\ at[p] \notin {"save", "config", "replace"}
    BY <2>0 DEF HostInv, StepInv, StepOf, Terminal, Setups, Writes
  <2>2. ASSUME NEW r \in Proc, NEW l, Goto(r, l) PROVE r = p
    BY <2>0, <2>2 DEF HostInv, TypeInv, Goto
  <2>3. ASSUME NEW r \in Proc, Reservation(r), UNCHANGED <<setup, journals>>
        PROVE  UNCHANGED <<store, config, settings, target>>
    <3>1. CASE PatchSettings(r)
      <4>1. r = p
        BY <2>2, <3>1 DEF PatchSettings, Return
      <4> QED
        BY <2>1, <2>3, <3>1, <4>1 DEF PatchSettings, setup, onDisk, journals
    <3>2. CASE ~PatchSettings(r)
      BY <2>3, <3>2 DEF Reservation, Call, LookupAbsent, LookupContinues, LookupAnswers, Reserve,
                        ledger, setup, onDisk, journals
    <3> QED
      BY <3>1, <3>2
  <2>4. ASSUME NEW r \in Proc, Setup(r), UNCHANGED journals
        PROVE  UNCHANGED <<store, config, settings, target>>
    <3>1. CASE Save(r) \/ WriteConfig(r)
      <4>1. r = p
        BY <2>2, <3>1 DEF Save, WriteConfig
      <4> QED
        BY <2>1, <3>1, <4>1 DEF Save, WriteConfig
    <3>2. CASE ~(Save(r) \/ WriteConfig(r))
      BY <2>4, <3>2 DEF Setup, Load, LoadRefuses, WriteBlocked, Complete, ledger, setup, onDisk,
                        journals
    <3> QED
      BY <3>1, <3>2
  <2>5. ASSUME NEW r \in Proc, Write(r), UNCHANGED setup
        PROVE  UNCHANGED <<store, config, settings, target>>
    <3>1. CASE ReplaceTarget(r)
      <4>1. r = p
        BY <2>2, <3>1 DEF ReplaceTarget
      <4> QED
        BY <2>1, <3>1, <4>1 DEF ReplaceTarget
    <3>2. CASE ~ReplaceTarget(r)
      BY <2>5, <3>2 DEF Write, PrepareManifest, PrepareBefore, PrepareAfter, CreateFile, WriteStage,
                        CommitRevision, Cleanup, ledger, setup, onDisk, journals
    <3> QED
      BY <3>1, <3>2
  <2>6. ASSUME NEW r \in Proc, Start(r) \/ Recovery(r) \/ Kill(r) \/ FailIO(r)
        PROVE  UNCHANGED <<store, config, settings, target>>
    BY <2>6 DEF Start, Recovery, RecoverAfter, RecoverKeeps, RecoverBefore, RecoverMixed, RecoverFails,
                RecoverCleanup, ListReserved, RecoverRow, Kill, FailIO, ledger, setup, onDisk,
                journals
  <2>7. ASSUME NEW o \in Op, Prune(o), UNCHANGED <<setup, journals>>
        PROVE  UNCHANGED <<store, config, settings, target>>
    BY <2>7 DEF Prune, setup, onDisk, journals
  <2> QED
    BY <2>0, <2>3, <2>4, <2>5, <2>6, <2>7 DEF HostNext
<1> QED
  BY <1>1, HostSpecInductive, PTL DEF HostSpec, NoEffectAfterResult
=============================================================================
