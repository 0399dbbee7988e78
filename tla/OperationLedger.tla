-------------------------- MODULE OperationLedger --------------------------
(***************************************************************************)
(* The host-scoped operation ledger (history/operation_ledger.rs): one row *)
(* per operation id, reserved before an effect and completed after it, so  *)
(* that a caller may send the same operation again after a crash.  The     *)
(* ledger is one SQLite database that several processes open; a            *)
(* transaction is one step.                                                *)
(*                                                                         *)
(* This module has the rows and the calls that reserve and complete them;  *)
(* SetupCalls and HostJournal have the effects in between.                 *)
(***************************************************************************)
EXTENDS Naturals, Sequences

CONSTANTS
  Proc,       \* processes that share the home directory
  Offers,     \* Offers[o]: the requests callers send under operation id o
  MaxCalls,   \* bound: commands sent, retries included
  MaxKills,   \* bound: processes stopped
  MaxFailures \* bound: failed I/O calls

Op == DOMAIN Offers
Request == UNION {Offers[o] : o \in Op}

NoKey == "none"
Nothing == [kind |-> "none", expected |-> 0, key |-> NoKey, provider |-> "none"]

Terminal == {"succeeded", "failed"}
Statuses == Terminal \cup {"none", "reserved", "interrupted"}

\* A request names what it does, the revision it was planned at, and the secret
\* it carries, if any.  The id 0 is nobody's.
ASSUME LedgerAssumption ==
  /\ Op \subseteq Nat \ {0}
  /\ \A o \in Op : \A q \in Offers[o] :
       /\ q.kind \in {"login", "logout", "setup", "settings", "consent", "shutdown"}
       /\ q.expected \in Nat
  /\ MaxCalls \in Nat /\ MaxKills \in Nat /\ MaxFailures \in Nat

VARIABLES
  status,    \* operation_records.status; "none" when there is no row
  request,   \* operation_records.request_sha256, as the request that was hashed
  settings,  \* effective_settings: the patches applied, revision = how many
  at,        \* where a process is
  call,      \* the operation and the request it works on; overtaken is history: another
             \* process has stored a result under the id since this one looked it up
  old,       \* the operations whose row was pruned by age
  calls, kills, failures

rows   == <<status, request>>
count  == <<calls, kills, failures>>
ledger == <<status, request, settings, old>>

NoCall == [op |-> 0, request |-> Nothing, overtaken |-> FALSE]

LedgerInit ==
  /\ status = [o \in Op |-> "none"] /\ request = [o \in Op |-> Nothing]
  /\ settings = <<>>
  /\ at = [p \in Proc |-> "down"] /\ call = [p \in Proc |-> NoCall]
  /\ old = {} /\ calls = 0 /\ kills = 0 /\ failures = 0

Goto(p, label) == at' = [at EXCEPT ![p] = label]
Return(p) == Goto(p, "idle") /\ call' = [call EXCEPT ![p] = NoCall]

\* The calls once p has stored the result of operation o and goes on with c: whoever else
\* is past the lookup of o does not know.
Overtaken(p, o) ==
  {r \in Proc \ {p} : call[r].op = o /\ at[r] \notin {"lookup", "reserve"}}
Stored(p, c) ==
  [r \in Proc |-> IF r = p THEN c
                  ELSE IF r \in Overtaken(p, call[p].op)
                       THEN [call[r] EXCEPT !.overtaken = TRUE] ELSE call[r]]
Quiet == \A p \in Proc : at[p] \in {"down", "idle"}

-----------------------------------------------------------------------------
(* reserve_operation_sync *)

\* A caller sends a command, again perhaps and even while the first call under the id is
\* at work, but not under an id of last month.
\* Writes that go through the journal are sent one at a time.
Journaled(c) == c.request.kind = "consent"
Call(p) ==
  /\ at[p] = "idle" /\ calls < MaxCalls
  /\ \E o \in Op \ old : \E q \in Offers[o] :
       /\ q.kind = "consent" => \A r \in Proc : ~Journaled(call[r])
       /\ call' = [call EXCEPT ![p] = [op |-> o, request |-> q, overtaken |-> FALSE]]
  /\ Goto(p, "lookup")
  /\ calls' = calls + 1
  /\ UNCHANGED <<ledger, kills, failures>>

\* The hash of a request covers all of it, the digest of its secret included.
SameRequest(o, q) == request[o] = q

\* The step that performs the planned effect.
FirstStep(kind) == CASE kind = "consent"  -> "manifest"
                     [] kind = "shutdown" -> "complete"
                     [] OTHER             -> "load"

Finds(p, found) == at[p] = "lookup" /\ status[call[p].op] \in found
Same(p) == SameRequest(call[p].op, call[p].request)

LookupAbsent(p) ==
  /\ Finds(p, {"none"})
  /\ Goto(p, "reserve")
  /\ UNCHANGED <<ledger, call, count>>

\* Bug: a stored result is not replayed but made again.
LookupContinuesTerminal(p) ==
  /\ Finds(p, {"reserved"} \cup Terminal) /\ Same(p)
  /\ Goto(p, FirstStep(call[p].request.kind))
  /\ UNCHANGED <<ledger, call, count>>

\* A reservation of the same request is continued.
LookupContinues(p) ==
  /\ Finds(p, {"reserved"}) /\ Same(p)
  /\ Goto(p, FirstStep(call[p].request.kind))
  /\ UNCHANGED <<ledger, call, count>>

\* A terminal row replays its result; another request is an OperationConflict;
\* an interrupted row is an OperationInterrupted.
LookupAnswers(p) ==
  /\ Finds(p, Statuses \ {"none"})
  /\ ~(status[call[p].op] = "reserved" /\ Same(p))
  /\ Return(p)
  /\ UNCHANGED <<ledger, count>>

\* One transaction inserts the reserved row; the primary key refuses a second.
Reserve(p) ==
  LET o == call[p].op
      q == call[p].request
  IN /\ at[p] = "reserve" /\ q.kind # "settings"
     /\ IF status[o] = "none"
        THEN /\ status' = [status EXCEPT ![o] = "reserved"]
             /\ request' = [request EXCEPT ![o] = q]
             /\ Goto(p, FirstStep(q.kind)) /\ UNCHANGED call
        ELSE Return(p) /\ UNCHANGED rows
     /\ UNCHANGED <<settings, old, count>>

Revision == Len(settings)

\* Bug: the revision the patch was made for is not compared in the transaction.
PatchAnyRevision(p) ==
  LET o == call[p].op
      q == call[p].request
  IN /\ at[p] = "reserve" /\ q.kind = "settings"
     /\ IF status[o] = "none"
        THEN /\ status' = [status EXCEPT ![o] = "succeeded"]
             /\ request' = [request EXCEPT ![o] = q]
             /\ settings' = Append(settings, o)
        ELSE UNCHANGED <<rows, settings>>
     /\ Return(p)
     /\ UNCHANGED <<old, count>>

\* A settings patch reserves, mutates and completes in one transaction, or
\* answers SettingsConflict and writes nothing.
PatchSettings(p) ==
  LET o == call[p].op
      q == call[p].request
  IN /\ at[p] = "reserve" /\ q.kind = "settings"
     /\ IF status[o] = "none" /\ Revision = q.expected
        THEN /\ status' = [status EXCEPT ![o] = "succeeded"]
             /\ request' = [request EXCEPT ![o] = q]
             /\ settings' = Append(settings, o)
        ELSE UNCHANGED <<rows, settings>>
     /\ Return(p)
     /\ UNCHANGED <<old, count>>

\* prune_host_terminal: a month later a terminal row is deleted; reserved and
\* interrupted ones stay.
Prune(o) ==
  /\ Quiet /\ status[o] \in Terminal
  /\ status' = [status EXCEPT ![o] = "none"]
  /\ request' = [request EXCEPT ![o] = Nothing]
  /\ old' = old \cup {o}
  /\ UNCHANGED <<settings, at, call, count>>
=============================================================================
