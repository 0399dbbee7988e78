---------------------------- MODULE HostJournal ----------------------------
(***************************************************************************)
(* Host writes that cannot share the ledger's transaction go through a     *)
(* journal of three files per operation (history/operation_ledger.rs,      *)
(* journal_prepare to journal_cleanup): the manifest, the bytes before and *)
(* the bytes after.  The target is renamed into place, its revision and    *)
(* the row's result are committed in one transaction, the journal is       *)
(* removed.  recover_host_journal decides at startup, from the target and  *)
(* the revision alone, what became of an open journal.                     *)
(*                                                                         *)
(* The bytes an operation writes are named by the operation.               *)
(***************************************************************************)
EXTENDS OperationLedger

VARIABLES
  target,    \* consent.json: whose bytes it holds, 0 at first
  revision,  \* host_revisions: the number, and whose bytes it describes
  manifest, before, after,  \* the journal's files: absent, torn or whole
  plan,      \* the manifest's before_revision and before_sha256
  todo,      \* the journals or rows the startup still has to look at
  installed  \* history: the operations whose bytes the target has held

journal == <<manifest, before, after>>
journals == <<target, revision, manifest, before, after, plan, todo, installed>>

JournalInit ==
  /\ target = 0 /\ revision = [number |-> 0, names |-> 0]
  /\ manifest = [o \in Op |-> "absent"]
  /\ before = [o \in Op |-> "absent"] /\ after = [o \in Op |-> "absent"]
  /\ plan = [o \in Op |-> [number |-> 0, bytes |-> 0]]
  /\ todo = {} /\ installed = {}

Open(o) == manifest[o] # "absent"

-----------------------------------------------------------------------------
(* The write. *)

\* journal_prepare creates each file anew; one that is there already is an error.
CreateFile(p, label, file, nextLabel) ==
  LET o == call[p].op
  IN /\ at[p] = label
     /\ IF file[o] = "absent"
        THEN file' = [file EXCEPT ![o] = "whole"] /\ Goto(p, nextLabel) /\ UNCHANGED call
        ELSE Return(p) /\ UNCHANGED file
     /\ UNCHANGED <<ledger, count, target, revision, todo, installed>>

PrepareManifest(p) ==
  LET o == call[p].op
  IN /\ CreateFile(p, "manifest", manifest, "before")
     /\ plan' = IF Open(o) THEN plan
                ELSE [plan EXCEPT ![o] = [number |-> revision.number, bytes |-> target]]
     /\ UNCHANGED <<before, after>>

PrepareBefore(p) ==
  CreateFile(p, "before", before, "after") /\ UNCHANGED <<manifest, after, plan>>

PrepareAfter(p) ==
  CreateFile(p, "after", after, "replace") /\ UNCHANGED <<manifest, before, plan>>

\* journal_replace_target: the rename.
ReplaceTarget(p) ==
  /\ at[p] = "replace"
  /\ target' = call[p].op
  /\ installed' = installed \cup {call[p].op}
  /\ Goto(p, "stage")
  /\ UNCHANGED <<ledger, call, count, revision, journal, plan, todo>>

\* journal_write_stage: the manifest is truncated and written again, once after
\* the rename and once after the transaction.
WriteStage(p) ==
  /\ at[p] \in {"stage", "stage2"}
  /\ Goto(p, IF at[p] = "stage" THEN "commit" ELSE "clean")
  /\ UNCHANGED <<ledger, call, count, journals>>

\* journal_commit_revision: the revision and the result, or neither.
CommitRevision(p) ==
  LET o == call[p].op
  IN /\ at[p] = "commit"
     /\ IF revision.number = plan[o].number /\ status[o] = "reserved"
        THEN /\ revision' = [number |-> revision.number + 1, names |-> o]
             /\ status' = [status EXCEPT ![o] = "succeeded"]
             /\ Goto(p, "stage2") /\ call' = Stored(p, call[p])
        ELSE Return(p) /\ UNCHANGED <<revision, status>>
     /\ UNCHANGED <<request, settings, old, count, target, journal, plan, todo, installed>>

\* journal_cleanup: the manifest first, then the two others.
Remove1(o) ==
  CASE manifest[o] # "absent" -> manifest' = [manifest EXCEPT ![o] = "absent"] /\ UNCHANGED <<before, after>>
    [] manifest[o] = "absent" /\ before[o] # "absent" ->
         before' = [before EXCEPT ![o] = "absent"] /\ UNCHANGED <<manifest, after>>
    [] OTHER -> after' = [after EXCEPT ![o] = "absent"] /\ UNCHANGED <<manifest, before>>

Cleanup(p) ==
  LET o == call[p].op
  IN /\ at[p] = "clean"
     /\ Remove1(o)
     /\ IF manifest'[o] = "absent" /\ before'[o] = "absent" /\ after'[o] = "absent"
        THEN Return(p) ELSE UNCHANGED <<at, call>>
     /\ UNCHANGED <<ledger, count, target, revision, plan, todo, installed>>
=============================================================================
