---------------------------- MODULE TokenRefresh ----------------------------
(***************************************************************************)
(* One provider's OAuth credential shared by several sessions (oauth.ts,    *)
(* credentials.ts, credential-lock.ts).  The provider replaces the refresh  *)
(* token each time it is used, so a session that needs a new access token   *)
(* takes an operating-system lock, reads the store again, asks the provider *)
(* and stores the answer only over the token it sent.                       *)
(*                                                                         *)
(* Calls of one session share a refresh.  A refresh is named by the call    *)
(* that started it; its "gate" is aborted when the last call that waits for *)
(* it leaves.  A refresh token is a number; 0 stands for none.              *)
(***************************************************************************)
EXTENDS Integers, FiniteSets, SequencesExt

CONSTANTS Sessions,   \* processes
          Calls,      \* calls of resolveOAuthModelAuth
          Home,       \* the session of a call
          Signalled,  \* the calls that are given an abort signal
          MaxTokens,  \* bound: refresh tokens the provider issues
          None        \* no call, no session, no credential

ASSUME CallsHaveHomes == Home \in [Calls -> Sessions]
ASSUME SomeAreSignalled == Signalled \subseteq Calls
ASSUME TokensAreCounted == MaxTokens \in Nat \ {0}

Tokens == 1..MaxTokens
Credential == [token: Tokens, age: {"fresh", "due", "expired"}]
Answers == {"rotated", "partial", "renewed"}

ASSUME NoneIsNothing == None \notin Calls \cup Sessions \cup Credential

VARIABLES
  store,     \* the provider's entry in credentials.json
  lock,      \* the session whose connection holds the refresh lock database
  held,      \* per session: the refresh that has the slot of the lock path
  waiters,   \* per session: the refreshes in LockSlot.waiters
  inflight,  \* per session: oauthRefreshInflight
  at,        \* where a call is; "done" also when its process is gone
  joined,    \* the refresh a call waits for
  job,       \* where a refresh is; "settled" also when its process is gone
  again,     \* the refreshes in their second wait for the lock
  aborted,   \* the refreshes whose gate is aborted
  sent,      \* the refresh token a refresh has sent
  reply,     \* what the provider did with the request
  answer,    \* the refresh token it answered with
  valid,     \* the refresh tokens the provider still accepts
  issued,    \* how many it has issued
  choice,    \* history: the token of the last login, 0 after a logout
  line,      \* history: the login a token descends from
  spent      \* history: the tokens whose successor a refresh was given and could store

locks == <<lock, held, waiters>>
calls == <<at, joined>>
jobs == <<job, again, aborted>>
request == <<sent, reply, answer>>
provider == <<valid, issued, line>>
vars == <<store, locks, inflight, calls, jobs, request, provider, choice, spent>>

TypeOK ==
  /\ store \in Credential \cup {None}
  /\ lock \in Sessions \cup {None}
  /\ held \in [Sessions -> Calls \cup {None}]
  /\ waiters \in [Sessions -> Seq(Calls)]
  /\ inflight \in [Sessions -> Calls \cup {None}]
  /\ at \in [Calls -> {"idle", "asked", "waiting", "done"}]
  /\ joined \in [Calls -> Calls \cup {None}]
  /\ job \in [Calls -> {"none", "wait", "locked", "http", "settled", "aborted"}]
  /\ again \subseteq Calls
  /\ aborted \subseteq Calls
  /\ sent \in [Calls -> Tokens \cup {0}]
  /\ reply \in [Calls -> Answers \cup {"", "asked", "refused"}]
  /\ answer \in [Calls -> Tokens \cup {0}]
  /\ valid \subseteq Tokens
  /\ issued \in Tokens
  /\ choice \in Tokens \cup {0}
  /\ line \in [Tokens -> Tokens \cup {0}]
  /\ spent \subseteq Tokens

\* A credential that has to be refreshed before it is used.
Init ==
  /\ store = [token |-> 1, age |-> "due"]
  /\ lock = None
  /\ held = [s \in Sessions |-> None]
  /\ waiters = [s \in Sessions |-> <<>>]
  /\ inflight = [s \in Sessions |-> None]
  /\ at = [c \in Calls |-> "idle"]
  /\ joined = [c \in Calls |-> None]
  /\ job = [c \in Calls |-> "none"]
  /\ again = {}
  /\ aborted = {}
  /\ sent = [c \in Calls |-> 0]
  /\ reply = [c \in Calls |-> ""]
  /\ answer = [c \in Calls |-> 0]
  /\ valid = {1}
  /\ issued = 1
  /\ choice = 1
  /\ line = [t \in Tokens |-> IF t = 1 THEN 1 ELSE 0]
  /\ spent = {}

-----------------------------------------------------------------------------
(* The store and what is read from it. *)

IsFresh == store # None /\ store.age = "fresh"
IsUsable == store # None /\ store.age # "expired"

\* The access token comes closer to its expiry.
Age ==
  /\ store # None /\ store.age # "expired"
  /\ store' = [store EXCEPT !.age = IF @ = "fresh" THEN "due" ELSE "expired"]
  /\ UNCHANGED <<locks, inflight, calls, jobs, request, provider, choice, spent>>

\* The user signs in: the provider issues the first token of a new line.
Login ==
  /\ issued < MaxTokens
  /\ LET t == issued + 1 IN
       /\ store' = [token |-> t, age |-> "fresh"]
       /\ choice' = t
       /\ issued' = t
       /\ valid' = valid \cup {t}
       /\ line' = [line EXCEPT ![t] = t]
  /\ UNCHANGED <<locks, inflight, calls, jobs, request, spent>>

\* The user signs out, or saves an API key over the entry.
Logout ==
  /\ store # None
  /\ store' = None /\ choice' = 0
  /\ UNCHANGED <<locks, inflight, calls, jobs, request, provider, spent>>

-----------------------------------------------------------------------------
(* A call. *)

Finish(c) == at' = [at EXCEPT ![c] = "done"] /\ joined' = [joined EXCEPT ![c] = None]

\* A call stops waiting.  The gate of a refresh is aborted when the last one leaves.
Leave(c) ==
  /\ Finish(c)
  /\ IF \E d \in Calls \ {c} : at[d] = "waiting" /\ joined[d] = joined[c]
     THEN UNCHANGED aborted ELSE aborted' = aborted \cup {joined[c]}

\* readOAuthAuthIfFresh: a fresh token, or the lack of any, is returned without a lock.
Ask(c) ==
  /\ at[c] = "idle"
  /\ at' = [at EXCEPT ![c] = IF IsFresh \/ store = None THEN "done" ELSE "asked"]
  /\ UNCHANGED <<store, locks, inflight, joined, jobs, request, provider, choice, spent>>

\* Bug: the gate of the refresh in flight is not looked at.
InflightAnyway(s) == inflight[s] # None
Joinable(s) == inflight[s] # None /\ inflight[s] \notin aborted

\* It waits for the refresh in flight.
Join(c) ==
  /\ at[c] = "asked" /\ Joinable(Home[c])
  /\ at' = [at EXCEPT ![c] = "waiting"]
  /\ joined' = [joined EXCEPT ![c] = inflight[Home[c]]]
  /\ UNCHANGED <<store, locks, inflight, jobs, request, provider, choice, spent>>

\* acquireSlot: a refresh has the slot at once, or queues for it.
Enter(s, j) ==
  IF held[s] = None
  THEN held' = [held EXCEPT ![s] = j] /\ UNCHANGED waiters
  ELSE waiters' = [waiters EXCEPT ![s] = Append(@, j)] /\ UNCHANGED held

\* It starts a refresh, which goes as far as the slot in the same step.
Start(c) ==
  /\ at[c] = "asked" /\ ~Joinable(Home[c])
  /\ at' = [at EXCEPT ![c] = "waiting"]
  /\ joined' = [joined EXCEPT ![c] = c]
  /\ inflight' = [inflight EXCEPT ![Home[c]] = c]
  /\ job' = [job EXCEPT ![c] = "wait"]
  /\ Enter(Home[c], c)
  /\ UNCHANGED <<store, lock, again, aborted, request, provider, choice, spent>>

Withdraw(c) ==
  \/ at[c] = "asked" /\ Finish(c) /\ UNCHANGED aborted
  \/ at[c] = "waiting" /\ Leave(c)

\* The caller's signal is aborted: before the call came to a refresh, or while it waits
\* for one, which it then leaves at once (raceWithSignal).
Cancel(c) ==
  /\ c \in Signalled /\ Withdraw(c)
  /\ UNCHANGED <<store, locks, inflight, job, again, request, provider, choice, spent>>

\* The shared promise has settled.
Return(c) ==
  /\ at[c] = "waiting" /\ job[joined[c]] \in {"settled", "aborted"}
  /\ Leave(c)
  /\ UNCHANGED <<store, locks, inflight, job, again, request, provider, choice, spent>>

\* promise.finally takes the refresh out of the map, unless a later one replaced it.
Clear(c) ==
  /\ job[c] \in {"settled", "aborted"} /\ inflight[Home[c]] = c
  /\ inflight' = [inflight EXCEPT ![Home[c]] = None]
  /\ UNCHANGED <<store, locks, calls, jobs, request, provider, choice, spent>>

-----------------------------------------------------------------------------
(* A refresh: the wait for the lock. *)

\* Bug: an aborted or timed-out waiter is not taken out of the queue.
StillQueued(s, j) == waiters[s]
Other(s, j) == RemoveFirst(waiters[s], j)

\* A refresh gives up the slot, which goes to the next waiter, or its place in the queue.
GiveSlot(s, j) ==
  IF held[s] = j
  THEN /\ held' = [held EXCEPT ![s] = IF waiters[s] = <<>> THEN None ELSE Head(waiters[s])]
       /\ waiters' = [waiters EXCEPT ![s] = IF @ = <<>> THEN @ ELSE Tail(@)]
  ELSE waiters' = [waiters EXCEPT ![s] = Other(s, j)] /\ UNCHANGED held

\* The shared promise settles: "aborted" with an AbortError, "settled" with anything else
\* (a token, none, or an error).  The finally block gives up the lock.
Settle(j, how) ==
  /\ job' = [job EXCEPT ![j] = how]
  /\ sent' = [sent EXCEPT ![j] = 0]
  /\ reply' = [reply EXCEPT ![j] = ""]
  /\ answer' = [answer EXCEPT ![j] = 0]
  /\ lock' = IF job[j] \in {"locked", "http"} THEN None ELSE lock
  /\ again' = again \ {j}
  /\ GiveSlot(Home[j], j)
  /\ UNCHANGED <<inflight, calls, aborted>>

\* Bug: BEGIN without IMMEDIATE, which keeps nobody out.
BegunDeferred == lock \in Sessions \cup {None}
Free == lock = None

\* BEGIN IMMEDIATE succeeds.
TakeLock(j) ==
  /\ job[j] = "wait" /\ held[Home[j]] = j /\ j \notin aborted /\ Free
  /\ lock' = Home[j]
  /\ job' = [job EXCEPT ![j] = "locked"]
  /\ UNCHANGED <<store, held, waiters, inflight, calls, again, aborted, request, provider, choice, spent>>

\* Nobody waits for it any more: the wait ends.
AbandonWait(j) ==
  /\ job[j] = "wait" /\ j \in aborted
  /\ Settle(j, "aborted")
  /\ UNCHANGED <<store, provider, choice, spent>>

\* The wait has run out while another refresh had the slot, or another process the lock.
Waited(j) == job[j] = "wait" /\ j \notin aborted /\ ~(held[Home[j]] = j /\ Free)

\* It uses the stored token if that can still be used, else waits once more, then gives up.
TimeOut(j) ==
  /\ Waited(j)
  /\ \/ /\ IsUsable \/ j \in again
        /\ Settle(j, "settled")
     \/ /\ ~IsUsable /\ j \notin again
        /\ again' = again \cup {j}
        /\ UNCHANGED <<lock, inflight, calls, job, aborted, request>>
        /\ LET s == Home[j] IN
             IF held[s] = j /\ waiters[s] = <<>>
             THEN UNCHANGED <<held, waiters>>
             ELSE /\ held' = [held EXCEPT ![s] = IF @ = j THEN Head(waiters[s]) ELSE @]
                  /\ waiters' = [waiters EXCEPT ![s] =
                                   Append(IF held[s] = j THEN Tail(@) ELSE Other(s, j), j)]
  /\ UNCHANGED <<store, provider, choice, spent>>

-----------------------------------------------------------------------------
(* A refresh: the request. *)

\* With the lock, it reads the store again before it sends anything.
Proceed(j) ==
  /\ job[j] = "locked"
  /\ IF j \in aborted \/ IsFresh \/ store = None
     THEN Settle(j, IF j \in aborted THEN "aborted" ELSE "settled")
     ELSE /\ job' = [job EXCEPT ![j] = "http"]
          /\ sent' = [sent EXCEPT ![j] = store.token]
          /\ reply' = [reply EXCEPT ![j] = "asked"]
          /\ UNCHANGED <<locks, inflight, calls, again, aborted, answer>>
  /\ UNCHANGED <<store, provider, choice, spent>>

\* The provider handles a request.  It replaces the refresh token ("partial": but sends no
\* new expiry), or keeps it, or refuses.  What it does with a request whose sender has gone
\* others notice only as a refusal.
Serve(j) ==
  /\ job[j] = "http" /\ reply[j] = "asked"
  /\ \/ /\ sent[j] \in valid /\ issued < MaxTokens
        /\ LET t == issued + 1 IN
             /\ \E r \in {"rotated", "partial"} : reply' = [reply EXCEPT ![j] = r]
             /\ answer' = [answer EXCEPT ![j] = t]
             /\ valid' = (valid \ {sent[j]}) \cup {t}
             /\ issued' = t
             /\ line' = [line EXCEPT ![t] = line[sent[j]]]
     \/ /\ sent[j] \in valid
        /\ reply' = [reply EXCEPT ![j] = "renewed"]
        /\ answer' = [answer EXCEPT ![j] = sent[j]]
        /\ UNCHANGED <<valid, issued, line>>
     \/ /\ reply' = [reply EXCEPT ![j] = "refused"]
        /\ UNCHANGED <<answer, valid, issued, line>>
  /\ UNCHANGED <<store, locks, inflight, calls, jobs, sent, choice, spent>>

\* Bug: an answer is stored over whatever credential is there.
IsStored(j) == store # None
IsCurrent(j) == store # None /\ store.token = sent[j]

\* The answer arrives and is stored under the store lock, before the refresh lock is given up.
Commit(j) ==
  /\ job[j] = "http" /\ reply[j] \in Answers
  /\ store' = IF IsCurrent(j)
              THEN [token |-> answer[j], age |-> IF reply[j] = "partial" THEN store.age ELSE "fresh"]
              ELSE store
  /\ spent' = spent \cup ({sent[j]} \ {answer[j]})
  /\ Settle(j, "settled")
  /\ UNCHANGED <<provider, choice>>

\* The answer arrives but cannot be stored: the store lock was busy, or the write failed.
CommitFails(j) ==
  /\ job[j] = "http" /\ reply[j] \in Answers
  /\ Settle(j, "settled")
  /\ UNCHANGED <<store, provider, choice, spent>>

\* Bug: no timer is armed, so only an answer or a refusal ends the request.
Answered(j) == job[j] = "http" /\ reply[j] # "asked"
Outstanding(j) == job[j] = "http"

\* A refusal, a broken connection, or one of the two time limits.
RequestFails(j) ==
  /\ Outstanding(j)
  /\ Settle(j, "settled")
  /\ UNCHANGED <<store, provider, choice, spent>>

\* The process ends; the operating system drops its lock.
Kill(s) ==
  LET here == {c \in Calls : Home[c] = s} IN
  /\ \E c \in here : at[c] # "done"
  /\ at' = [c \in Calls |-> IF c \in here THEN "done" ELSE at[c]]
  /\ job' = [c \in Calls |-> IF c \in here /\ job[c] \in {"wait", "locked", "http"}
                             THEN "settled" ELSE job[c]]
  /\ sent' = [c \in Calls |-> IF c \in here THEN 0 ELSE sent[c]]
  /\ reply' = [c \in Calls |-> IF c \in here THEN "" ELSE reply[c]]
  /\ answer' = [c \in Calls |-> IF c \in here THEN 0 ELSE answer[c]]
  /\ lock' = IF lock = s THEN None ELSE lock
  /\ held' = [held EXCEPT ![s] = None]
  /\ waiters' = [waiters EXCEPT ![s] = <<>>]
  /\ inflight' = [inflight EXCEPT ![s] = None]
  /\ joined' = [c \in Calls |-> IF c \in here THEN None ELSE joined[c]]
  /\ again' = again \ here
  /\ aborted' = aborted \ here
  /\ UNCHANGED <<store, provider, choice, spent>>

-----------------------------------------------------------------------------
CallStep(c) == Ask(c) \/ Join(c) \/ Start(c) \/ Cancel(c) \/ Return(c)
Polls(j) == TakeLock(j) \/ AbandonWait(j) \/ TimeOut(j)
Ends(j) == Commit(j) \/ CommitFails(j) \/ RequestFails(j)
JobStep(j) == Clear(j) \/ Polls(j) \/ Proceed(j) \/ Ends(j)

Next ==
  \/ Age \/ Login \/ Logout
  \/ \E c \in Calls : CallStep(c) \/ JobStep(c) \/ Serve(c)
  \/ \E s \in Sessions : Kill(s)

Spec == Init /\ [][Next]_vars

\* A call that has started is run by the event loop; a refresh polls, and its timers fire.
\* Nothing is assumed of callers, of other sessions' logins, or of the provider.
Fairness ==
  \A c \in Calls : /\ WF_vars(Join(c) \/ Start(c) \/ Return(c))
                   /\ WF_vars(Polls(c) \/ Proceed(c) \/ Ends(c))

FairSpec == Spec /\ Fairness

-----------------------------------------------------------------------------
(* Properties. *)

\* A refresh token is in one request at a time, and once the provider has replaced it no
\* session sends it again, unless the answer never reached the store (the request failed,
\* the save failed, or the process was killed).
OneRequestPerToken ==
  \A j \in Calls : job[j] = "http" =>
    /\ sent[j] \notin spent
    /\ \A i \in Calls \ {j} : job[i] = "http" => sent[i] # sent[j]

\* What the user did last stands: after a logout no refresh brings a credential back, and
\* after a login the stored token descends from that login.
ChoiceStands ==
  IF store = None THEN choice = 0 ELSE line[store.token] = choice

\* A refresh ends as aborted only when nobody waits for it: a caller that leaves does not
\* end it for the others, and no later caller joins one that is about to end so.
NobodyElseAborted ==
  \A c \in Calls : at[c] = "waiting" => job[joined[c]] # "aborted"

\* The slot of a process belongs to a refresh that still runs, and each refresh that waits
\* has the slot or one place in the queue for it: an abort, a time-out and a grant that
\* meet neither lose a waiter nor give the slot to one that has gone.
SlotsAreLive ==
  \A s \in Sessions :
    /\ held[s] # None => job[held[s]] \in {"wait", "locked", "http"}
    /\ waiters[s] # <<>> => held[s] # None
    /\ \A j \in Calls : Home[j] = s =>
         Cardinality({i \in DOMAIN waiters[s] : waiters[s][i] = j})
           = IF job[j] = "wait" /\ held[s] # j THEN 1 ELSE 0

\* A call that needs a refresh returns, whatever the provider, the other sessions and
\* the other callers do, unless its own process is killed.
CallReturns ==
  \A c \in Calls : at[c] \in {"asked", "waiting"} ~> at[c] = "done"

=============================================================================
