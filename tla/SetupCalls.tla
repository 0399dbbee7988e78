----------------------------- MODULE SetupCalls -----------------------------
(***************************************************************************)
(* What setup/mod.rs does between a reservation and its completion: log in *)
(* and out, and apply a setup, each by reading the credential store as a   *)
(* whole, changing the copy and renaming it back (credentials/store.rs);   *)
(* a setup then writes the configuration file.                             *)
(***************************************************************************)
EXTENDS OperationLedger

CONSTANTS Provider  \* providers that have a credential

ASSUME SetupAssumption ==
  \A q \in Request : q.kind \in {"login", "logout", "setup"} => q.provider \in Provider

VARIABLES
  store,    \* credentials.json: its revision, the key of each provider
  config,   \* praana.config.json: the setup that wrote it
  temp,     \* the temporary files a failed write has left, by process and step
  copy,     \* the store as a process has read and changed it
  applied,  \* history: the operations whose effect has been made in full
  refused   \* history: the operations answered with a RevisionConflict

onDisk == <<store, config, temp>>
deeds  == <<applied, refused>>
setup  == <<onDisk, copy, deeds>>

EmptyStore == [revision |-> 0, keys |-> [v \in Provider |-> NoKey]]

SetupInit ==
  /\ store = EmptyStore /\ config = 0 /\ temp = {}
  /\ copy = [p \in Proc |-> EmptyStore]
  /\ applied = {} /\ refused = {}

-----------------------------------------------------------------------------

\* upsert_credential
Upsert(s, q) == [revision |-> s.revision + 1, keys |-> [s.keys EXCEPT ![q.provider] = q.key]]

\* remove_credential: the revision moves only when there was a credential.
Remove(s, q) ==
  IF s.keys[q.provider] = NoKey THEN s
  ELSE [revision |-> s.revision + 1, keys |-> [s.keys EXCEPT ![q.provider] = NoKey]]

Changed(s, q) ==
  CASE q.kind = "login"  -> Upsert(s, q)
    [] q.kind = "logout" -> Remove(s, q)
    [] OTHER -> IF q.key = NoKey THEN s ELSE Upsert(s, q)

\* Bug: the result is stored while the change is only in memory.
LoadThenComplete(p) ==
  LET q == call[p].request
  IN /\ at[p] = "load"
     /\ q.kind = "setup" => store.revision = q.expected /\ Changed(store, q).keys[q.provider] # NoKey
     /\ copy' = [copy EXCEPT ![p] = Changed(store, q)]
     /\ Goto(p, "complete")
     /\ UNCHANGED <<ledger, call, count, onDisk, deeds>>

\* A setup is refused when its revision is not the store's, when its provider is
\* left without a credential, or by the gate on the compactor pair; its row stays
\* reserved.
Load(p) ==
  LET q == call[p].request
  IN /\ at[p] = "load"
     /\ q.kind = "setup" => store.revision = q.expected /\ Changed(store, q).keys[q.provider] # NoKey
     /\ copy' = [copy EXCEPT ![p] = Changed(store, q)]
     /\ Goto(p, "save")
     /\ UNCHANGED <<ledger, call, count, onDisk, deeds>>

LoadRefuses(p) ==
  LET q == call[p].request
  IN /\ at[p] = "load" /\ q.kind = "setup"
     /\ refused' = IF store.revision = q.expected THEN refused ELSE refused \cup {call[p].op}
     /\ Return(p)
     /\ UNCHANGED <<ledger, count, onDisk, copy, applied>>

\* A temporary file is created anew under the name of the process: one that is
\* still there from a failed write makes every later write of it fail.
Blocked(p) == <<p, at[p]>> \in temp
WriteBlocked(p) ==
  /\ at[p] \in {"save", "config"} /\ Blocked(p)
  /\ copy' = [copy EXCEPT ![p] = EmptyStore]
  /\ Return(p)
  /\ UNCHANGED <<ledger, count, onDisk, deeds>>

\* save_store: a private temporary file renamed over the store.
Save(p) ==
  LET o == call[p].op
      q == call[p].request
  IN /\ at[p] = "save" /\ ~Blocked(p)
     /\ store' = copy[p]
     /\ copy' = [copy EXCEPT ![p] = EmptyStore]
     /\ IF q.kind = "setup" THEN Goto(p, "config") /\ UNCHANGED applied
                            ELSE Goto(p, "complete") /\ applied' = applied \cup {o}
     /\ UNCHANGED <<ledger, call, count, config, temp, refused>>

\* write_private_atomic
WriteConfig(p) ==
  /\ at[p] = "config" /\ ~Blocked(p)
  /\ config' = call[p].op
  /\ applied' = applied \cup {call[p].op}
  /\ Goto(p, "complete")
  /\ UNCHANGED <<ledger, call, count, store, temp, copy, refused>>

\* complete_terminal: only a reserved row takes a result.  A shutdown has no effect
\* in this build and is stored as failed.
Result(kind) == IF kind = "shutdown" THEN "failed" ELSE "succeeded"
Complete(p) ==
  LET o == call[p].op
  IN /\ at[p] = "complete"
     /\ IF status[o] = "reserved"
        THEN /\ status' = [status EXCEPT ![o] = Result(call[p].request.kind)]
             /\ Goto(p, "idle") /\ call' = Stored(p, NoCall)
        ELSE Return(p) /\ UNCHANGED status
     /\ UNCHANGED <<request, settings, old, count, setup>>

=============================================================================
