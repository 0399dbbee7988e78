--------------------------- MODULE HostOperations ---------------------------
(***************************************************************************)
(* The processes of one home directory: setup calls and journaled writes   *)
(* over one operation ledger, processes that stop and start, and the       *)
(* startup recovery (recover_host_journal, then                            *)
(* recover_reserved_operations) that the first of them runs.               *)
(***************************************************************************)
EXTENDS SetupCalls, HostJournal

hostVars == <<ledger, at, call, count, setup, journals>>

HostInit == LedgerInit /\ SetupInit /\ JournalInit

First(S) == CHOOSE o \in S : \A i \in S : o <= i
Recovering == \E p \in Proc : at[p] \in {"recover", "rclean", "reserved"}

-----------------------------------------------------------------------------
(* Startup *)

\* Recovery is for a process that finds nobody else at work.
Start(p) ==
  /\ at[p] = "down" /\ ~Recovering
  /\ IF \A r \in Proc : at[r] = "down"
     THEN Goto(p, "recover") /\ todo' = {o \in Op : Open(o)}
     ELSE Goto(p, "idle") /\ UNCHANGED todo
  /\ UNCHANGED <<ledger, call, count, setup, target, revision, journal, plan, installed>>

\* journal_read and its hashes.
Readable(o) == manifest[o] = "whole" /\ before[o] = "whole" /\ after[o] = "whole"

\* Bug: only the revision is compared, not the bytes of the target.
MatchesRevision(o) == revision.number = plan[o].number
MatchesBefore(o) == target = plan[o].bytes /\ revision.number = plan[o].number
MatchesAfter(o) == target = o /\ revision.number = plan[o].number + 1

Looking(p, o) == at[p] = "recover" /\ todo # {} /\ o = First(todo)

\* The target holds the new bytes at the new revision.  The transaction that moved
\* the revision has stored the result as well, so the branch of the code that
\* rebuilds a result for a reserved row is never taken (AfterIsCommitted).
RecoverAfter(p) ==
  \E o \in todo :
    /\ Looking(p, o) /\ Readable(o) /\ MatchesAfter(o)
    /\ status[o] \notin {"none", "reserved"}
    /\ Goto(p, "rclean")
    /\ UNCHANGED <<ledger, call, count, setup, journals>>

\* The same when the row was pruned meanwhile and no result can be rebuilt from the
\* bytes: the journal stays.
RecoverKeeps(p) ==
  \E o \in todo :
    /\ Looking(p, o) /\ Readable(o) /\ MatchesAfter(o) /\ status[o] = "none"
    /\ todo' = todo \ {o}
    /\ UNCHANGED <<ledger, at, call, count, setup, target, revision, journal, plan, installed>>

\* It holds the old bytes at the old revision: the operation had no effect.
RecoverBefore(p) ==
  \E o \in todo :
    /\ Looking(p, o) /\ Readable(o) /\ MatchesBefore(o) /\ ~MatchesAfter(o)
    /\ status[o] = "reserved"
    /\ status' = [status EXCEPT ![o] = "interrupted"]
    /\ Goto(p, "rclean")
    /\ UNCHANGED <<request, settings, old, call, count, setup, journals>>

\* Anything else is kept for somebody to look at.
RecoverMixed(p) ==
  \E o \in todo :
    /\ Looking(p, o) /\ Readable(o) /\ ~MatchesBefore(o) /\ ~MatchesAfter(o)
    /\ status[o] = "reserved"
    /\ status' = [status EXCEPT ![o] = "interrupted"]
    /\ todo' = todo \ {o}
    /\ UNCHANGED <<request, settings, old, at, call, count, setup, target, revision, journal,
                   plan, installed>>

\* An unreadable journal, one of a write not done whose row is no longer reserved, one of
\* a write that is done whose row was pruned, so that the rebuilt result has no row to go
\* to: recovery returns an error, and nothing is served.
RecoverFails(p) ==
  \E o \in todo :
    /\ Looking(p, o)
    /\ \/ ~Readable(o)
       \/ ~MatchesAfter(o) /\ status[o] # "reserved"
       \/ MatchesAfter(o) /\ status[o] = "none"
    /\ Goto(p, "down") /\ todo' = {}
    /\ UNCHANGED <<ledger, call, count, setup, target, revision, journal, plan, installed>>

RecoverCleanup(p) ==
  \E o \in todo :
    /\ at[p] = "rclean" /\ o = First(todo)
    /\ Remove1(o)
    /\ IF manifest'[o] = "absent" /\ before'[o] = "absent" /\ after'[o] = "absent"
       THEN Goto(p, "recover") /\ todo' = todo \ {o} ELSE UNCHANGED <<at, todo>>
    /\ UNCHANGED <<ledger, call, count, setup, target, revision, plan, installed>>

ListReserved(p) ==
  /\ at[p] = "recover" /\ todo = {}
  /\ Goto(p, "reserved") /\ todo' = {o \in Op : status[o] = "reserved"}
  /\ UNCHANGED <<ledger, call, count, setup, target, revision, journal, plan, installed>>

\* recover_one.  Of host operations only those are settled whose plan holds a
\* secret, and shutdowns; the others stay continuable.
Unrepeatable(q) == \/ q.kind = "shutdown"
                   \/ q.kind \in {"login", "setup"} /\ q.key # NoKey
RecoverRow(p) ==
  /\ at[p] = "reserved"
  /\ IF todo = {} THEN Goto(p, "idle") /\ UNCHANGED <<status, todo>>
     ELSE LET o == First(todo)
          IN /\ status' = IF Unrepeatable(request[o])
                          THEN [status EXCEPT ![o] = "interrupted"] ELSE status
             /\ todo' = todo \ {o} /\ UNCHANGED at
  /\ UNCHANGED <<request, settings, old, call, count, setup, target, revision, journal,
                 plan, installed>>

-----------------------------------------------------------------------------
(* Failures *)

\* The file being written when the process or the write stops is torn.
Torn(p) ==
  LET o == call[p].op
      torn(file) == {file, [file EXCEPT ![o] = "torn"]}
      creates(label, file) == at[p] = label /\ file[o] = "absent"
  IN /\ manifest' \in IF creates("manifest", manifest) \/ at[p] \in {"stage", "stage2"}
                      THEN torn(manifest) ELSE {manifest}
     /\ before' \in IF creates("before", before) THEN torn(before) ELSE {before}
     /\ after' \in IF creates("after", after) THEN torn(after) ELSE {after}

Kill(p) ==
  /\ at[p] # "down" /\ kills < MaxKills
  /\ kills' = kills + 1
  /\ IF call[p].op = 0 THEN UNCHANGED journal ELSE Torn(p)
  /\ Goto(p, "down") /\ call' = [call EXCEPT ![p] = NoCall]
  /\ copy' = [copy EXCEPT ![p] = EmptyStore]
  /\ temp' = {w \in temp : w[1] # p}
  /\ todo' = IF at[p] \in {"recover", "rclean", "reserved"} THEN {} ELSE todo
  /\ UNCHANGED <<ledger, calls, failures, store, config, deeds, target, revision, plan, installed>>

\* The next I/O call fails and the call returns the error; a temporary file may stay.
FailIO(p) ==
  /\ call[p].op # 0 /\ failures < MaxFailures
  /\ failures' = failures + 1
  /\ Torn(p)
  /\ \/ temp' = temp
     \/ at[p] \in {"save", "config"} /\ temp' = temp \cup {<<p, at[p]>>}
  /\ Return(p)
  /\ copy' = [copy EXCEPT ![p] = EmptyStore]
  /\ UNCHANGED <<ledger, calls, kills, store, config, deeds, target, revision, plan, todo, installed>>

-----------------------------------------------------------------------------
Reservation(p) ==
  Call(p) \/ LookupAbsent(p) \/ LookupContinues(p) \/ LookupAnswers(p) \/ Reserve(p) \/ PatchSettings(p)
Setup(p) == Load(p) \/ LoadRefuses(p) \/ WriteBlocked(p) \/ Save(p) \/ WriteConfig(p) \/ Complete(p)
Write(p) ==
  \/ PrepareManifest(p) \/ PrepareBefore(p) \/ PrepareAfter(p) \/ ReplaceTarget(p)
  \/ WriteStage(p) \/ CommitRevision(p) \/ Cleanup(p)
Recovery(p) ==
  \/ RecoverAfter(p) \/ RecoverKeeps(p) \/ RecoverBefore(p) \/ RecoverMixed(p) \/ RecoverFails(p)
  \/ RecoverCleanup(p) \/ ListReserved(p) \/ RecoverRow(p)

HostNext ==
  \/ \E p \in Proc :
       \/ Reservation(p) /\ UNCHANGED <<setup, journals>>
       \/ Setup(p) /\ UNCHANGED journals
       \/ Write(p) /\ UNCHANGED setup
       \/ Start(p) \/ Recovery(p) \/ Kill(p) \/ FailIO(p)
  \/ \E o \in Op : Prune(o) /\ UNCHANGED <<setup, journals>>

HostSpec == HostInit /\ [][HostNext]_hostVars

-----------------------------------------------------------------------------
(* Properties *)

\* Every variable stays in its domain.
HostTypeOK ==
  /\ status \in [Op -> Statuses] /\ request \in [Op -> Request \cup {Nothing}]
  /\ settings \in Seq(Op) /\ old \subseteq Op
  /\ call \in [Proc -> [op : Op \cup {0}, request : Request \cup {Nothing}, overtaken : BOOLEAN]]
  /\ store.revision \in Nat /\ config \in Op \cup {0}
  /\ temp \subseteq Proc \X {"save", "config"}
  /\ applied \subseteq Op /\ refused \subseteq Op /\ installed \subseteq Op
  /\ target \in Op \cup {0}
  /\ revision \in [number : Nat, names : Op \cup {0}]
  /\ \A file \in {manifest, before, after} : file \in [Op -> {"absent", "torn", "whole"}]
  /\ todo \subseteq Op

\* A stored success is never invented: the operation's whole effect was made, by
\* a call or before the kill that recovery cleans up after.
SucceededIsApplied ==
  \A o \in Op : status[o] = "succeeded" =>
    o \in applied \cup installed \cup {settings[i] : i \in DOMAIN settings}

\* A step of p that has an effect, under an id that has its result.
LateEffect(p) ==
  /\ call[p].op # 0 /\ status[call[p].op] \in Terminal \cup {"interrupted"}
  /\ <<store, config, settings, target>>' # <<store, config, settings, target>>
  /\ at'[p] # at[p]

\* Once a result is stored under an id, no call under that id changes anything again
\* ("replays the stored terminal result", setup/mod.rs:593), unless it was at work
\* beside the call that stored the result.
NoEffectAfterResult == [][\A p \in Proc : LateEffect(p) => call[p].overtaken]_hostVars

\* The same without the exception, which overlapping calls under one id do not keep.
ResultIsFinal == [][\A p \in Proc : ~LateEffect(p)]_hostVars

\* The settings are a sequence of patches, each made for the revision it changed
\* and each once: no patch is lost under another, whatever the interleaving.
SettingsAreSerial ==
  \A i \in DOMAIN settings :
    /\ \E q \in Offers[settings[i]] : q.kind = "settings" /\ q.expected = i - 1
    /\ \A j \in DOMAIN settings : settings[i] = settings[j] => i = j

\* An interrupted write whose journal is gone left nothing behind: it can be sent
\* again under a new id ("had no effect; a new operation is permitted").
InterruptedHadNoEffect ==
  \A o \in installed : status[o] = "interrupted" => Open(o)

\* A write that recovery finds done was stored with its result: the transaction that
\* moved the revision completed the row (journal_commit_revision).
AfterIsCommitted == \A o \in Op : Open(o) /\ MatchesAfter(o) => status[o] # "reserved"

\* A retry of a setup is not refused for the revision the setup itself has made
\* ("replays ... before any credential-store revision check can observe the
\* already-applied revision", setup/mod.rs:593-595).
RetryIsNotRefused == \A o \in refused : config # o /\ o \notin applied
=============================================================================
