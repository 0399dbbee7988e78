------------------------- MODULE TokenRefreshProofs -------------------------
(* What TokenRefresh keeps for any number of sessions and calls and any      *)
(* number of tokens.  Inductive invariants: who holds the lock, which tokens *)
(* are where, who waits for whom, and whose the slots and their queues are.  *)
EXTENDS TokenRefresh, FiniteSetTheorems, SequenceTheorems, TLAPS

-----------------------------------------------------------------------------
(* The lock: a refresh between taking it and settling has both the slot of   *)
(* its process and the operating system's lock, so there is only one.        *)

Holding ==
  /\ job \in [Calls -> {"none", "wait", "locked", "http", "settled", "aborted"}]
  /\ DOMAIN held = Sessions
  /\ \A j \in Calls : job[j] \in {"locked", "http"} => lock = Home[j] /\ held[Home[j]] = j

\* Two refreshes are never both between the lock and their end, in whatever sessions.
LEMMA OneHolder ==
  ASSUME Holding, NEW i \in Calls, NEW j \in Calls,
         job[i] \in {"locked", "http"}, job[j] \in {"locked", "http"}
  PROVE i = j
<1>1. lock = Home[i] /\ held[Home[i]] = i
  BY DEF Holding
<1>2. lock = Home[j] /\ held[Home[j]] = j
  BY DEF Holding
<1> QED
  BY <1>1, <1>2

LEMMA StartHolding == Init => Holding
<1> SUFFICES ASSUME Init PROVE Holding
  OBVIOUS
<1>1. job \in [Calls -> {"none"}] /\ held \in [Sessions -> {None}]
  BY DEF Init
<1>2. \A j \in Calls : job[j] = "none"
  BY <1>1
<1> QED
  BY <1>1, <1>2 DEF Holding

\* Settling gives up the slot, and the lock if the refresh has it.
LEMMA SettleHolding ==
  ASSUME Holding, NEW j \in Calls, job[j] # "none",
         NEW how \in {"settled", "aborted"}, Settle(j, how)
  PROVE Holding'
<1>1. job' = [job EXCEPT ![j] = how] /\ DOMAIN held' = Sessions
  BY DEF Settle, GiveSlot, Holding
<1>2. ASSUME NEW i \in Calls, job'[i] \in {"locked", "http"}
      PROVE lock' = Home[i] /\ held'[Home[i]] = i
  <2>1. i # j /\ job[i] = job'[i]
    BY <1>1, <1>2 DEF Holding
  <2>2. lock = Home[i] /\ held[Home[i]] = i /\ Home[i] \in Sessions
    BY <1>2, <2>1, CallsHaveHomes DEF Holding
  <2>3. job[j] \notin {"locked", "http"}
    BY <1>2, <2>1, OneHolder
  <2>4. held' = held \/ Home[i] # Home[j]
    BY <2>1, <2>2 DEF Settle, GiveSlot
  <2>5. held'[Home[i]] = held[Home[i]]
    BY <2>2, <2>4, CallsHaveHomes DEF Settle, GiveSlot, Holding
  <2> QED
    BY <2>2, <2>3, <2>5 DEF Settle
<1> QED
  BY <1>1, <1>2 DEF Holding

\* The steps in which a refresh settles.
LEMMA SettlingSteps ==
  ASSUME NEW j \in Calls,
         AbandonWait(j) \/ Commit(j) \/ CommitFails(j) \/ RequestFails(j)
  PROVE job[j] # "none" /\ \E how \in {"settled", "aborted"} : Settle(j, how)
BY DEF AbandonWait, Commit, CommitFails, RequestFails, Outstanding

LEMMA NextHolding == Holding /\ [Next]_vars => Holding'
<1> SUFFICES ASSUME Holding, [Next]_vars
             PROVE Holding'
  OBVIOUS
<1> USE CallsHaveHomes, NoneIsNothing
<1>1. CASE Age \/ Login \/ Logout
  BY <1>1 DEF Age, Login, Logout, Holding, jobs, locks
<1>2. ASSUME NEW c \in Calls, CallStep(c)
      PROVE Holding'
  <2>1. CASE Start(c)
    <3>1. Home[c] \in Sessions /\ job' = [job EXCEPT ![c] = "wait"] /\ lock' = lock
      BY <2>1 DEF Start
    <3>2. held' = held \/ (held[Home[c]] = None /\ held' = [held EXCEPT ![Home[c]] = c])
      BY <2>1 DEF Start, Enter
    <3> QED
      BY <3>1, <3>2 DEF Holding
  <2>2. CASE ~Start(c)
    BY <1>2, <2>2 DEF CallStep, Ask, Join, Cancel, Withdraw, Return, Holding, jobs, locks
  <2> QED
    BY <2>1, <2>2
<1>3. ASSUME NEW j \in Calls, JobStep(j)
      PROVE Holding'
  <2>1. CASE Clear(j)
    BY <2>1 DEF Clear, Holding, jobs, locks
  <2>2. CASE TakeLock(j)
    BY <2>2 DEF TakeLock, Free, Holding
  <2>3. CASE AbandonWait(j) \/ Ends(j)
    BY <2>3, SettlingSteps, SettleHolding DEF Ends
  <2>4. CASE TimeOut(j)
    <3>1. CASE Settle(j, "settled")
      BY <2>4, <3>1, SettleHolding DEF TimeOut, Waited
    <3>2. CASE ~Settle(j, "settled")
      <4>1. job[j] = "wait" /\ UNCHANGED <<job, lock>>
        BY <2>4, <3>2 DEF TimeOut, Waited
      <4>2. DOMAIN held' = Sessions
        BY <2>4, <3>2 DEF TimeOut, Holding
      <4>3. ASSUME NEW i \in Calls, job[i] \in {"locked", "http"}
            PROVE held'[Home[i]] = held[Home[i]]
        <5>1. i # j /\ held[Home[i]] = i /\ Home[i] \in Sessions
          BY <4>1, <4>3 DEF Holding
        <5>2. held' = held
              \/ \E k : held' = [held EXCEPT ![Home[j]] = IF @ = j THEN k ELSE @]
          BY <2>4, <3>2 DEF TimeOut
        <5> QED
          BY <5>1, <5>2 DEF Holding
      <4> QED
        BY <4>1, <4>2, <4>3 DEF Holding
    <3> QED
      BY <3>1, <3>2
  <2>5. CASE Proceed(j)
    <3>1. job[j] = "locked"
      BY <2>5 DEF Proceed
    <3>2. CASE \E how \in {"settled", "aborted"} : Settle(j, how)
      BY <3>1, <3>2, SettleHolding
    <3>3. CASE job' = [job EXCEPT ![j] = "http"] /\ UNCHANGED locks
      BY <3>1, <3>3 DEF Holding, locks
    <3> QED
      BY <2>5, <3>2, <3>3 DEF Proceed
  <2> QED
    BY <1>3, <2>1, <2>2, <2>3, <2>4, <2>5 DEF JobStep, Polls
<1>4. ASSUME NEW j \in Calls, Serve(j)
      PROVE Holding'
  BY <1>4 DEF Serve, Holding, jobs, locks
<1>5. ASSUME NEW s \in Sessions, Kill(s)
      PROVE Holding'
  BY <1>5 DEF Kill, Holding
<1>6. CASE UNCHANGED vars
  BY <1>6 DEF vars, jobs, locks, Holding
<1> QED
  BY <1>1, <1>2, <1>3, <1>4, <1>5, <1>6 DEF Next

-----------------------------------------------------------------------------
(* The tokens: what is in the store and what an answer carries was issued,   *)
(* belongs to the user's last login, and is not one that was replaced.       *)

TokenTypes ==
  /\ store \in Credential \cup {None}
  /\ issued \in Tokens
  /\ sent \in [Calls -> Tokens \cup {0}]
  /\ answer \in [Calls -> Tokens \cup {0}]
  /\ reply \in [Calls -> Answers \cup {"", "asked", "refused"}]
  /\ line \in [Tokens -> Tokens \cup {0}]
  /\ spent \subseteq 1..issued

StoreIsLive == store # None => store.token \in (1..issued) \ spent

\* What a refresh that has sent its request may still store.
RequestIsLive(j) ==
  /\ sent[j] \in (1..issued) \ spent
  /\ reply[j] \in Answers =>
       /\ answer[j] \in 1..issued
       /\ line[answer[j]] = line[sent[j]]
       /\ answer[j] # sent[j] =>
            answer[j] \notin spent /\ (store # None => store.token # answer[j])

RequestsAreLive == \A j \in Calls : job[j] = "http" => RequestIsLive(j)

TokenInv == Holding /\ TokenTypes /\ StoreIsLive /\ RequestsAreLive /\ ChoiceStands

\* The tokens issued so far, and the next one.
LEMMA IssuedTokens ==
  ASSUME issued \in Tokens
  PROVE /\ issued \in Nat /\ 1..issued \subseteq Tokens
        /\ issued + 1 \notin 1..issued
        /\ 1..issued \subseteq 1..(issued + 1) /\ issued + 1 \in 1..(issued + 1)
        /\ issued < MaxTokens => issued + 1 \in Tokens
BY TokensAreCounted DEF Tokens

LEMMA StartTokens == Init => TokenInv
<1> SUFFICES ASSUME Init PROVE TokenInv
  OBVIOUS
<1>a. 1 \in Tokens /\ 1 \in 1..1
  BY TokensAreCounted DEF Tokens
<1>b. store \in Credential
  BY <1>a DEF Init, Credential
<1>0. 1 \in Tokens /\ 1 \in 1..1 /\ store \in Credential /\ store # None
  BY <1>a, <1>b, NoneIsNothing
<1>1. TokenTypes
  BY <1>0 DEF Init, TokenTypes
<1>2. StoreIsLive /\ RequestsAreLive /\ ChoiceStands
  BY <1>0 DEF Init, StoreIsLive, RequestsAreLive, ChoiceStands
<1> QED
  BY <1>1, <1>2, StartHolding DEF TokenInv

\* A step that leaves the store and the tokens alone and adds no request.
LEMMA QuietTokens ==
  ASSUME TokenInv, Holding', UNCHANGED <<store, issued, line, choice, spent>>,
         TokenTypes',
         \A j \in Calls : job'[j] = "http" =>
           job[j] = "http" /\ sent'[j] = sent[j] /\ reply'[j] = reply[j] /\ answer'[j] = answer[j]
  PROVE TokenInv'
BY DEF TokenInv, StoreIsLive, RequestsAreLive, RequestIsLive, ChoiceStands

\* Settling clears the request and no other.
LEMMA SettleClears ==
  ASSUME TokenInv, NEW j \in Calls, NEW how \in {"settled", "aborted"}, Settle(j, how)
  PROVE /\ sent' \in [Calls -> Tokens \cup {0}]
        /\ answer' \in [Calls -> Tokens \cup {0}]
        /\ reply' \in [Calls -> Answers \cup {"", "asked", "refused"}]
        /\ \A i \in Calls : job'[i] = "http" =>
             /\ i # j /\ job[i] = "http"
             /\ sent'[i] = sent[i] /\ reply'[i] = reply[i] /\ answer'[i] = answer[i]
BY DEF Settle, TokenInv, TokenTypes, Holding

LEMMA SettleTokens ==
  ASSUME TokenInv, Holding', NEW j \in Calls, NEW how \in {"settled", "aborted"},
         Settle(j, how), UNCHANGED <<store, provider, choice, spent>>
  PROVE TokenInv'
<1>1. UNCHANGED <<issued, line>>
  BY DEF provider
<1>2. TokenTypes'
  BY <1>1, SettleClears DEF TokenInv, TokenTypes
<1> QED
  BY <1>1, <1>2, SettleClears, QuietTokens

\* The answer replaces the token it was asked with, and nothing else was in flight.
LEMMA CommitTokens ==
  ASSUME TokenInv, Holding', NEW j \in Calls, Commit(j)
  PROVE TokenInv'
<1>1. /\ job[j] = "http" /\ reply[j] \in Answers
      /\ Settle(j, "settled") /\ UNCHANGED <<issued, line, choice>>
      /\ spent' = spent \cup ({sent[j]} \ {answer[j]})
  BY DEF Commit, provider
<1>2. RequestIsLive(j) /\ TokenTypes /\ StoreIsLive /\ ChoiceStands
  BY <1>1 DEF TokenInv, RequestsAreLive
<1>3. \A i \in Calls : job'[i] # "http"
  BY <1>1, SettleClears, OneHolder DEF TokenInv
<1>4. \/ IsCurrent(j) /\ \E a \in {"fresh", store.age} : store' = [token |-> answer[j], age |-> a]
      \/ ~IsCurrent(j) /\ store' = store
  BY DEF Commit
<1>5. spent' \subseteq 1..issued
  BY <1>1, <1>2 DEF RequestIsLive, TokenTypes
<1>6. CASE ~IsCurrent(j)
  <2>1. TokenTypes'
    BY <1>1, <1>2, <1>4, <1>5, <1>6, SettleClears DEF TokenTypes
  <2>2. StoreIsLive' /\ ChoiceStands'
    BY <1>1, <1>2, <1>4, <1>6 DEF StoreIsLive, ChoiceStands, IsCurrent
  <2> QED
    BY <1>3, <2>1, <2>2 DEF TokenInv, RequestsAreLive
<1>7. CASE IsCurrent(j)
  <2>1. store # None /\ store \in Credential /\ store.token = sent[j]
    BY <1>2, <1>7 DEF IsCurrent, TokenTypes
  <2>2. answer[j] \in 1..issued /\ answer[j] \in Tokens /\ line[answer[j]] = line[sent[j]]
    BY <1>1, <1>2, IssuedTokens DEF RequestIsLive, TokenTypes
  <2>3. PICK a \in {"fresh", "due", "expired"} : store' = [token |-> answer[j], age |-> a]
    BY <1>4, <1>7, <2>1 DEF Credential
  <2>4. store' \in Credential /\ store' # None /\ store'.token = answer[j]
    BY <2>2, <2>3, NoneIsNothing DEF Credential
  <2>5. TokenTypes'
    BY <1>1, <1>2, <1>5, <2>4, SettleClears DEF TokenTypes
  <2>6. StoreIsLive'
    BY <1>1, <1>2, <2>1, <2>2, <2>4 DEF StoreIsLive, RequestIsLive
  <2>7. ChoiceStands'
    BY <1>1, <1>2, <2>1, <2>2, <2>4 DEF ChoiceStands
  <2> QED
    BY <1>3, <2>5, <2>6, <2>7 DEF TokenInv, RequestsAreLive
<1> QED
  BY <1>6, <1>7

\* A new token is one that nothing holds.
LEMMA LoginTokens ==
  ASSUME TokenInv, Holding', Login
  PROVE TokenInv'
<1> DEFINE t == issued + 1
<1>1. /\ issued < MaxTokens /\ issued' = t /\ choice' = t
      /\ store' = [token |-> t, age |-> "fresh"] /\ line' = [line EXCEPT ![t] = t]
      /\ UNCHANGED <<job, sent, reply, answer, spent>>
  BY DEF Login, jobs, request
<1>2. TokenTypes /\ RequestsAreLive
  BY DEF TokenInv
<1>3. t \in Tokens /\ t \notin 1..issued /\ 1..issued \subseteq 1..t /\ t \in 1..t
  BY <1>1, <1>2, IssuedTokens DEF TokenTypes
<1>4. store' \in Credential /\ store' # None /\ store'.token = t
  BY <1>1, <1>3, NoneIsNothing DEF Credential
<1>5. TokenTypes'
  BY <1>1, <1>2, <1>3, <1>4 DEF TokenTypes
<1>6. StoreIsLive' /\ ChoiceStands'
  BY <1>1, <1>2, <1>3, <1>4 DEF StoreIsLive, ChoiceStands, TokenTypes
<1>7. ASSUME NEW j \in Calls, job'[j] = "http"
      PROVE RequestIsLive(j)'
  <2>1. RequestIsLive(j)
    BY <1>1, <1>2, <1>7 DEF RequestsAreLive
  <2>2. \A u \in 1..issued : line'[u] = line[u]
    BY <1>1, <1>2, <1>3, IssuedTokens DEF TokenTypes
  <2> QED
    BY <1>1, <1>3, <1>4, <2>1, <2>2 DEF RequestIsLive
<1> QED
  BY <1>5, <1>6, <1>7 DEF TokenInv, RequestsAreLive

LEMMA ServeTokens ==
  ASSUME TokenInv, Holding', NEW j \in Calls, Serve(j)
  PROVE TokenInv'
<1> DEFINE t == issued + 1
<1>1. /\ job[j] = "http" /\ UNCHANGED <<job, store, sent, choice, spent>>
      /\ RequestIsLive(j) /\ TokenTypes /\ RequestsAreLive /\ StoreIsLive /\ ChoiceStands
  BY DEF Serve, jobs, TokenInv, RequestsAreLive
<1>2. \A i \in Calls : job'[i] = "http" => i = j
  BY <1>1, OneHolder DEF TokenInv
<1>3. CASE UNCHANGED <<issued, line>>
  <2>1. \/ \E r \in {"renewed"} : reply' = [reply EXCEPT ![j] = r]
                               /\ answer' = [answer EXCEPT ![j] = sent[j]]
        \/ reply' = [reply EXCEPT ![j] = "refused"] /\ answer' = answer
    BY <1>1, <1>3, IssuedTokens DEF Serve, TokenTypes
  <2>2. TokenTypes'
    BY <1>1, <1>3, <2>1 DEF TokenTypes, Answers
  <2>3. RequestIsLive(j)'
    BY <1>1, <1>3, <2>1 DEF RequestIsLive, TokenTypes, Answers
  <2> QED
    BY <1>1, <1>2, <1>3, <2>2, <2>3 DEF TokenInv, RequestsAreLive, StoreIsLive, ChoiceStands
<1>4. CASE ~UNCHANGED <<issued, line>>
  <2>1. /\ issued < MaxTokens /\ issued' = t /\ answer' = [answer EXCEPT ![j] = t]
        /\ line' = [line EXCEPT ![t] = line[sent[j]]]
        /\ \E r \in {"rotated", "partial"} : reply' = [reply EXCEPT ![j] = r]
    BY <1>4 DEF Serve
  <2>2. t \in Tokens /\ t \notin 1..issued /\ 1..issued \subseteq 1..t /\ t \in 1..t
        /\ sent[j] \in 1..issued /\ sent[j] \in Tokens
    BY <1>1, <2>1, IssuedTokens DEF TokenTypes, RequestIsLive
  <2>3. TokenTypes'
    BY <1>1, <2>1, <2>2 DEF TokenTypes, Answers
  <2>4. \A u \in 1..issued : line'[u] = line[u]
    BY <1>1, <2>1, <2>2, IssuedTokens DEF TokenTypes
  <2>5. line'[t] = line[sent[j]]
    BY <1>1, <2>1, <2>2 DEF TokenTypes
  <2>6. answer'[j] = t /\ sent'[j] = sent[j]
    BY <1>1, <2>1 DEF TokenTypes
  <2>7. RequestIsLive(j)'
    BY <1>1, <2>1, <2>2, <2>4, <2>5, <2>6 DEF RequestIsLive, StoreIsLive, TokenTypes
  <2>8. StoreIsLive' /\ ChoiceStands'
    BY <1>1, <2>1, <2>2, <2>4 DEF StoreIsLive, ChoiceStands
  <2> QED
    BY <1>2, <2>3, <2>7, <2>8 DEF TokenInv, RequestsAreLive
<1> QED
  BY <1>3, <1>4

LEMMA NextTokens == TokenInv /\ [Next]_vars => TokenInv'
<1> SUFFICES ASSUME TokenInv, [Next]_vars
             PROVE TokenInv'
  OBVIOUS
<1>0. Holding' /\ TokenTypes /\ Holding
  BY NextHolding DEF TokenInv
<1>1. CASE Age
  <2>1. /\ store # None /\ UNCHANGED <<job, request, issued, line, choice, spent>>
        /\ \E a \in {"due", "expired"} : store' = [store EXCEPT !.age = a]
    BY <1>1 DEF Age, jobs, provider
  <2>2. store' \in Credential /\ store'.token = store.token /\ store' # None
    BY <1>0, <2>1, NoneIsNothing DEF TokenTypes, Credential
  <2>3. TokenTypes'
    BY <1>0, <2>1, <2>2 DEF TokenTypes, request
  <2> QED
    BY <1>0, <2>1, <2>2, <2>3
       DEF TokenInv, StoreIsLive, RequestsAreLive, RequestIsLive, ChoiceStands, request
<1>2. CASE Logout
  <2>1. store' = None /\ choice' = 0 /\ UNCHANGED <<job, request, issued, line, spent>>
    BY <1>2 DEF Logout, jobs, provider
  <2>2. TokenTypes'
    BY <1>0, <2>1 DEF TokenTypes, request
  <2> QED
    BY <1>0, <2>1, <2>2
       DEF TokenInv, StoreIsLive, RequestsAreLive, RequestIsLive, ChoiceStands, request
<1>3. CASE Login
  BY <1>0, <1>3, LoginTokens
<1>4. ASSUME NEW c \in Calls, CallStep(c) \/ Clear(c) \/ TakeLock(c)
      PROVE TokenInv'
  <2>1. UNCHANGED <<store, request, issued, line, choice, spent>>
    BY <1>4 DEF CallStep, Ask, Join, Start, Cancel, Return, Clear, TakeLock, provider
  <2>2. \A j \in Calls : job'[j] = "http" => job[j] = "http"
    BY <1>0, <1>4 DEF CallStep, Ask, Join, Start, Cancel, Return, Clear, TakeLock, Holding, jobs
  <2> QED
    BY <1>0, <2>1, <2>2, QuietTokens DEF request, TokenTypes
<1>5. ASSUME NEW j \in Calls, AbandonWait(j) \/ CommitFails(j) \/ RequestFails(j)
      PROVE TokenInv'
  <2>1. UNCHANGED <<store, provider, choice, spent>>
    BY <1>5 DEF AbandonWait, CommitFails, RequestFails
  <2> QED
    BY <1>0, <1>5, <2>1, SettlingSteps, SettleTokens
<1>6. ASSUME NEW j \in Calls, Commit(j)
      PROVE TokenInv'
  BY <1>0, <1>6, CommitTokens
<1>7. ASSUME NEW j \in Calls, TimeOut(j)
      PROVE TokenInv'
  <2>1. UNCHANGED <<store, provider, choice, spent>>
    BY <1>7 DEF TimeOut
  <2>2. CASE Settle(j, "settled")
    BY <1>0, <2>1, <2>2, SettleTokens
  <2>3. CASE UNCHANGED <<job, request>>
    BY <1>0, <2>1, <2>3, QuietTokens DEF request, provider, TokenTypes
  <2> QED
    BY <1>7, <2>2, <2>3 DEF TimeOut
<1>8. ASSUME NEW j \in Calls, Proceed(j)
      PROVE TokenInv'
  <2>1. UNCHANGED <<store, provider, choice, spent>>
    BY <1>8 DEF Proceed
  <2>2. CASE \E how \in {"settled", "aborted"} : Settle(j, how)
    BY <1>0, <2>1, <2>2, SettleTokens
  <2>3. CASE ~\E how \in {"settled", "aborted"} : Settle(j, how)
    <3>1. /\ job[j] = "locked" /\ store # None /\ job' = [job EXCEPT ![j] = "http"]
          /\ sent' = [sent EXCEPT ![j] = store.token] /\ reply' = [reply EXCEPT ![j] = "asked"]
          /\ UNCHANGED <<answer, issued, line>>
      BY <1>8, <2>1, <2>3 DEF Proceed, provider
    <3>2. store.token \in Tokens /\ store.token \in (1..issued) \ spent
      BY <1>0, <3>1, IssuedTokens DEF TokenTypes, TokenInv, StoreIsLive
    <3>3. TokenTypes'
      BY <1>0, <2>1, <3>1, <3>2 DEF TokenTypes
    <3>4. \A i \in Calls : job'[i] = "http" => i = j
      BY <1>0, <3>1, OneHolder DEF Holding
    <3>5. RequestIsLive(j)'
      BY <1>0, <2>1, <3>1, <3>2 DEF RequestIsLive, TokenTypes, Answers
    <3> QED
      BY <1>0, <2>1, <3>1, <3>3, <3>4, <3>5
         DEF TokenInv, RequestsAreLive, StoreIsLive, ChoiceStands
  <2> QED
    BY <2>2, <2>3
<1>9. ASSUME NEW j \in Calls, Serve(j)
      PROVE TokenInv'
  BY <1>0, <1>9, ServeTokens
<1>10. ASSUME NEW s \in Sessions, Kill(s)
       PROVE TokenInv'
  <2>1. UNCHANGED <<store, issued, line, choice, spent>>
    BY <1>10 DEF Kill, provider
  <2>2. TokenTypes'
    BY <1>0, <1>10, <2>1 DEF TokenTypes, Kill
  <2>3. \A j \in Calls : job'[j] = "http" =>
          job[j] = "http" /\ sent'[j] = sent[j] /\ reply'[j] = reply[j] /\ answer'[j] = answer[j]
    BY <1>10 DEF Kill
  <2> QED
    BY <1>0, <2>1, <2>2, <2>3, QuietTokens
<1>11. CASE UNCHANGED vars
  BY <1>0, <1>11, QuietTokens DEF vars, jobs, request, provider, TokenTypes
<1> QED
  BY <1>1, <1>2, <1>3, <1>4, <1>5, <1>6, <1>7, <1>8, <1>9, <1>10, <1>11
     DEF Next, JobStep, Polls, Ends

\* A refresh token is in one request at a time, and never in one after the provider has
\* replaced it and the answer could be stored (oauth.ts, the refresh lock and the second read).
THEOREM SpecOneRequestPerToken == Spec => []OneRequestPerToken
<1>1. TokenInv => OneRequestPerToken
  BY OneHolder DEF TokenInv, RequestsAreLive, RequestIsLive, OneRequestPerToken
<1> QED
  BY <1>1, StartTokens, NextTokens, PTL DEF Spec

\* No refresh undoes a logout or a newer login (oauth.ts, the comparison before setOAuthToken).
THEOREM SpecChoiceStands == Spec => []ChoiceStands
<1>1. TokenInv => ChoiceStands
  BY DEF TokenInv
<1> QED
  BY <1>1, StartTokens, NextTokens, PTL DEF Spec

-----------------------------------------------------------------------------
(* The gates: a call waits only for a refresh that others cannot end.        *)

\* A call that has not come to a refresh has not started one.
Unstarted ==
  \A c \in Calls : at[c] \in {"idle", "asked"} => job[c] = "none" /\ c \notin aborted

\* What is in the map was started here, and if it ended as aborted its gate says so.
InflightIsKnown ==
  \A s \in Sessions : inflight[s] # None =>
    /\ inflight[s] \in Calls /\ Home[inflight[s]] = s /\ job[inflight[s]] # "none"
    /\ job[inflight[s]] = "aborted" => inflight[s] \in aborted

\* A refresh somebody waits for has an open gate.
WaitersAreServed ==
  \A c \in Calls : at[c] = "waiting" =>
    /\ joined[c] \in Calls /\ joined[c] \notin aborted
    /\ job[joined[c]] \notin {"none", "aborted"}

GateInv ==
  /\ at \in [Calls -> {"idle", "asked", "waiting", "done"}]
  /\ job \in [Calls -> {"none", "wait", "locked", "http", "settled", "aborted"}]
  /\ joined \in [Calls -> Calls \cup {None}]
  /\ DOMAIN inflight = Sessions
  /\ Unstarted /\ InflightIsKnown /\ WaitersAreServed

LEMMA StartGates == Init => GateInv
<1> SUFFICES ASSUME Init PROVE GateInv
  OBVIOUS
<1>1. DOMAIN inflight = Sessions /\ \A s \in Sessions : inflight[s] = None
  BY DEF Init
<1>2. \A c \in Calls : at[c] = "idle" /\ job[c] = "none" /\ c \notin aborted
  BY DEF Init
<1>3. /\ at \in [Calls -> {"idle", "asked", "waiting", "done"}]
      /\ job \in [Calls -> {"none", "wait", "locked", "http", "settled", "aborted"}]
      /\ joined \in [Calls -> Calls \cup {None}]
  BY DEF Init
<1> QED
  BY <1>1, <1>2, <1>3 DEF GateInv, Unstarted, InflightIsKnown, WaitersAreServed

\* A refresh moves on; it ends as aborted only if its gate is aborted.
LEMMA JobGates ==
  ASSUME GateInv, NEW j \in Calls, job[j] # "none",
         NEW to \in {"wait", "locked", "http", "settled", "aborted"},
         to = "aborted" => j \in aborted,
         job' = [job EXCEPT ![j] = to], UNCHANGED <<at, joined, inflight, aborted>>
  PROVE GateInv'
BY DEF GateInv, Unstarted, InflightIsKnown, WaitersAreServed

\* A call that stops waiting aborts the gate only if nobody else waits.
LEMMA LeaveGates ==
  ASSUME GateInv, NEW c \in Calls, at[c] = "waiting", Leave(c), UNCHANGED <<job, inflight>>
  PROVE GateInv'
<1>1. at' = [at EXCEPT ![c] = "done"] /\ joined' = [joined EXCEPT ![c] = None]
  BY DEF Leave, Finish
<1>2. joined[c] \in Calls /\ job[joined[c]] # "none"
  BY DEF GateInv, WaitersAreServed
<1>3. aborted' = aborted
      \/ (aborted' = aborted \cup {joined[c]}
           /\ \A d \in Calls \ {c} : at[d] = "waiting" => joined[d] # joined[c])
  BY DEF Leave
<1>4. Unstarted'
  BY <1>1, <1>2, <1>3 DEF GateInv, Unstarted
<1>5. InflightIsKnown'
  BY <1>3 DEF GateInv, InflightIsKnown
<1>6. WaitersAreServed'
  BY <1>1, <1>3 DEF GateInv, WaitersAreServed
<1> QED
  BY <1>1, <1>4, <1>5, <1>6 DEF GateInv

LEMMA NextGates == GateInv /\ [Next]_vars => GateInv'
<1> SUFFICES ASSUME GateInv, [Next]_vars
             PROVE GateInv'
  OBVIOUS
<1> USE CallsHaveHomes, NoneIsNothing
<1>1. CASE Age \/ Login \/ Logout \/ UNCHANGED vars \/ \E j \in Calls : Serve(j)
  BY <1>1 DEF Age, Login, Logout, Serve, vars, calls, jobs,
              GateInv, Unstarted, InflightIsKnown, WaitersAreServed
<1>2. ASSUME NEW c \in Calls, Ask(c)
      PROVE GateInv'
  BY <1>2 DEF Ask, jobs, GateInv, Unstarted, InflightIsKnown, WaitersAreServed
<1>3. ASSUME NEW c \in Calls, Join(c)
      PROVE GateInv'
  BY <1>3 DEF Join, Joinable, jobs, GateInv, Unstarted, InflightIsKnown, WaitersAreServed
<1>4. ASSUME NEW c \in Calls, Start(c)
      PROVE GateInv'
  BY <1>4 DEF Start, GateInv, Unstarted, InflightIsKnown, WaitersAreServed
<1>5. ASSUME NEW c \in Calls, Cancel(c)
      PROVE GateInv'
  <2>1. CASE at[c] = "waiting"
    BY <1>5, <2>1, LeaveGates DEF Cancel, Withdraw
  <2>2. CASE at[c] # "waiting"
    BY <1>5, <2>2 DEF Cancel, Withdraw, Finish, GateInv, Unstarted, InflightIsKnown, WaitersAreServed
  <2> QED
    BY <2>1, <2>2
<1>6. ASSUME NEW c \in Calls, Return(c)
      PROVE GateInv'
  BY <1>6, LeaveGates DEF Return
<1>7. ASSUME NEW c \in Calls, Clear(c)
      PROVE GateInv'
  BY <1>7 DEF Clear, calls, jobs, GateInv, Unstarted, InflightIsKnown, WaitersAreServed
<1>8. ASSUME NEW j \in Calls, TakeLock(j) \/ AbandonWait(j) \/ Ends(j)
      PROVE GateInv'
  <2>1. job[j] # "none" /\ UNCHANGED <<at, joined, inflight, aborted>>
    BY <1>8 DEF TakeLock, AbandonWait, Ends, Commit, CommitFails, RequestFails, Outstanding,
                Settle, calls
  <2>2. \E to \in {"locked", "settled", "aborted"} :
          job' = [job EXCEPT ![j] = to] /\ (to = "aborted" => j \in aborted)
    BY <1>8 DEF TakeLock, AbandonWait, Ends, Commit, CommitFails, RequestFails, Settle
  <2> QED
    BY <2>1, <2>2, JobGates
<1>9. ASSUME NEW j \in Calls, TimeOut(j)
      PROVE GateInv'
  <2>1. job[j] = "wait" /\ UNCHANGED <<at, joined, inflight, aborted>>
    BY <1>9 DEF TimeOut, Waited, Settle, calls
  <2>2. job' = job \/ job' = [job EXCEPT ![j] = "settled"]
    BY <1>9 DEF TimeOut, Settle
  <2>3. job' = job => job' = [job EXCEPT ![j] = "wait"]
    BY <2>1 DEF GateInv
  <2> QED
    BY <2>1, <2>2, <2>3, JobGates
<1>10. ASSUME NEW j \in Calls, Proceed(j)
       PROVE GateInv'
  <2>1. job[j] = "locked" /\ UNCHANGED <<at, joined, inflight, aborted>>
    BY <1>10 DEF Proceed, Settle, calls
  <2>2. \E to \in {"http", "settled", "aborted"} :
          job' = [job EXCEPT ![j] = to] /\ (to = "aborted" => j \in aborted)
    BY <1>10 DEF Proceed, Settle
  <2> QED
    BY <2>1, <2>2, JobGates
<1>11. ASSUME NEW s \in Sessions, Kill(s)
       PROVE GateInv'
  <2>1. /\ \A c \in Calls : at'[c] = IF Home[c] = s THEN "done" ELSE at[c]
        /\ \A c \in Calls : joined'[c] = IF Home[c] = s THEN None ELSE joined[c]
        /\ \A c \in Calls : job'[c] = job[c] \/ (job[c] # "none" /\ job'[c] = "settled")
        /\ \A c \in Calls : Home[c] # s => (c \in aborted' <=> c \in aborted)
        /\ aborted' \subseteq aborted
        /\ inflight' = [inflight EXCEPT ![s] = None]
    BY <1>11 DEF Kill
  <2>2. /\ at' \in [Calls -> {"idle", "asked", "waiting", "done"}]
        /\ joined' \in [Calls -> Calls \cup {None}]
    BY <1>11 DEF Kill, GateInv
  <2>3. job' \in [Calls -> {"none", "wait", "locked", "http", "settled", "aborted"}]
    BY <1>11 DEF Kill, GateInv
  <2>4. Unstarted'
    BY <2>1 DEF GateInv, Unstarted
  <2>5. InflightIsKnown'
    BY <2>1 DEF GateInv, InflightIsKnown
  <2>6. WaitersAreServed'
    BY <2>1 DEF GateInv, WaitersAreServed
  <2> QED
    BY <2>1, <2>2, <2>3, <2>4, <2>5, <2>6 DEF GateInv
<1> QED
  BY <1>1, <1>2, <1>3, <1>4, <1>5, <1>6, <1>7, <1>8, <1>9, <1>10, <1>11
     DEF Next, CallStep, JobStep, Polls

\* No call is ended by another caller's cancellation (oauth.ts, RefreshWaitGate).
THEOREM SpecNobodyElseAborted == Spec => []NobodyElseAborted
<1>1. GateInv => NobodyElseAborted
  BY DEF GateInv, WaitersAreServed, NobodyElseAborted
<1> QED
  BY <1>1, StartGates, NextGates, PTL DEF Spec

-----------------------------------------------------------------------------
(* The slots: who holds one, and who is in its queue.                        *)

\* Each member of a set of refreshes has one place in a queue, and nothing else has one.
IsQueueOf(q, S) ==
  /\ q \in Seq(Calls)
  /\ S \subseteq Calls
  /\ \A i, k \in 1..Len(q) : q[i] = q[k] => i = k
  /\ \A i \in 1..Len(q) : q[i] \in S
  /\ \A j \in S : \E i \in 1..Len(q) : q[i] = j

\* A queue is empty when it is nobody's.
LEMMA EmptyQueue ==
  ASSUME NEW q, NEW S, IsQueueOf(q, S)
  PROVE q = <<>> <=> S = {}
BY DEF IsQueueOf

\* The empty queue is nobody's.
LEMMA NobodyQueued == IsQueueOf(<<>>, {})
BY DEF IsQueueOf

\* Who queues up has the last place.
LEMMA QueueUp ==
  ASSUME NEW q, NEW S, IsQueueOf(q, S), NEW j \in Calls, j \notin S
  PROVE IsQueueOf(Append(q, j), S \cup {j})
<1> DEFINE r == Append(q, j)
<1>1. q \in Seq(Calls) /\ S \subseteq Calls
  BY DEF IsQueueOf
<1>2. /\ r \in Seq(Calls) /\ Len(q) \in Nat /\ Len(r) = Len(q) + 1 /\ r[Len(q) + 1] = j
      /\ \A i \in 1..Len(q) : r[i] = q[i]
  BY <1>1
<1>3. \A i \in 1..Len(r) : i \in 1..Len(q) \/ i = Len(q) + 1
  BY <1>2
<1>4. 1..Len(q) \subseteq 1..Len(r) /\ Len(q) + 1 \in 1..Len(r)
  BY <1>2
<1>5. \A i \in 1..Len(q) : q[i] \in S
  BY DEF IsQueueOf
<1> HIDE DEF r
<1>6. \A i, k \in 1..Len(r) : r[i] = r[k] => i = k
  BY <1>2, <1>3, <1>5 DEF IsQueueOf
<1>7. \A i \in 1..Len(r) : r[i] \in S \cup {j}
  BY <1>2, <1>3, <1>5
<1>8. \A k \in S \cup {j} : \E i \in 1..Len(r) : r[i] = k
  BY <1>2, <1>4 DEF IsQueueOf
<1>9. IsQueueOf(r, S \cup {j})
  BY <1>1, <1>2, <1>6, <1>7, <1>8 DEF IsQueueOf
<1> QED
  BY <1>9 DEF r

\* The first place is somebody's, who gives up the only place it has.
LEMMA FirstServed ==
  ASSUME NEW q, NEW S, IsQueueOf(q, S), q # <<>>
  PROVE Head(q) \in S /\ IsQueueOf(Tail(q), S \ {Head(q)})
<1> DEFINE r == Tail(q)
           h == Head(q)
<1>1. q \in Seq(Calls) /\ S \subseteq Calls /\ Len(q) \in Nat /\ Len(q) > 0
  BY DEF IsQueueOf
<1>2. /\ r \in Seq(Calls) /\ Len(r) = Len(q) - 1 /\ h = q[1]
      /\ \A i \in 1..Len(r) : r[i] = q[i + 1]
  BY <1>1
<1>3. \A i \in 1..Len(r) : i \in Int /\ i + 1 \in 1..Len(q) /\ i + 1 # 1
  BY <1>1, <1>2
<1>4. \A i \in 1..Len(q) : i = 1 \/ (i - 1 \in 1..Len(r) /\ i = (i - 1) + 1)
  BY <1>1, <1>2
<1>a. 1 \in 1..Len(q)
  BY <1>1
<1> HIDE DEF r, h
<1>5. h \in S
  BY <1>2, <1>a DEF IsQueueOf
<1>6. \A i, k \in 1..Len(r) : r[i] = r[k] => i = k
  <2> SUFFICES ASSUME NEW i \in 1..Len(r), NEW k \in 1..Len(r), r[i] = r[k] PROVE i = k
    OBVIOUS
  <2>1. i + 1 = k + 1
    BY <1>2, <1>3 DEF IsQueueOf
  <2> QED
    BY <2>1
<1>7. \A i \in 1..Len(r) : r[i] \in S \ {h}
  BY <1>2, <1>3, <1>a DEF IsQueueOf
<1>8. \A k \in S \ {h} : \E i \in 1..Len(r) : r[i] = k
  <2> SUFFICES ASSUME NEW k \in S \ {h} PROVE \E i \in 1..Len(r) : r[i] = k
    OBVIOUS
  <2>1. PICK i \in 1..Len(q) : q[i] = k
    BY DEF IsQueueOf
  <2>2. i - 1 \in 1..Len(r) /\ i = (i - 1) + 1
    BY <1>2, <1>4, <2>1
  <2> QED
    BY <1>2, <2>1, <2>2
<1>9. IsQueueOf(r, S \ {h})
  BY <1>1, <1>2, <1>6, <1>7, <1>8 DEF IsQueueOf
<1> QED
  BY <1>5, <1>9 DEF r, h

\* Who leaves the queue, from wherever in it, leaves no other place behind.
LEMMA LeaveQueue ==
  ASSUME NEW q, NEW S, IsQueueOf(q, S), NEW j
  PROVE IsQueueOf(RemoveFirst(q, j), S \ {j})
<1>1. /\ q \in Seq(Calls) /\ S \subseteq Calls /\ Len(q) \in Nat
      /\ \A i \in 1..Len(q) : q[i] \in S
  BY DEF IsQueueOf
<1>2. Range(q) = {q[i] : i \in 1..Len(q)}
  BY <1>1 DEF Range
<1>3. CASE j \notin Range(q)
  <2>1. RemoveFirst(q, j) = q
    BY <1>2, <1>3 DEF RemoveFirst, SelectInSeq
  <2>2. j \notin S
    BY <1>2, <1>3 DEF IsQueueOf
  <2>3. S \ {j} = S
    BY <2>2
  <2> QED
    BY <2>1, <2>3
<1>4. CASE j \in Range(q)
  <2>1. PICK m \in 1..Len(q) : q[m] = j
    BY <1>2, <1>4
  <2>2. {i \in 1..Len(q) : q[i] = j} = {m}
    BY <2>1 DEF IsQueueOf
  <2>a. Min({m}) = m
    BY DEF Min
  <2>3. SelectInSeq(q, LAMBDA v : v = j) = m
    BY <2>2, <2>a DEF SelectInSeq
  <2>4. RemoveFirst(q, j) = RemoveAt(q, m)
    BY <2>1, <2>3 DEF RemoveFirst
  <2>5. /\ Len(SubSeq(q, 1, m - 1)) = m - 1 /\ SubSeq(q, 1, m - 1) \in Seq(Calls)
        /\ \A i \in 1..(m - 1) : SubSeq(q, 1, m - 1)[i] = q[i]
    BY <1>1, <2>1
  <2>6. /\ Len(SubSeq(q, m + 1, Len(q))) = Len(q) - m /\ SubSeq(q, m + 1, Len(q)) \in Seq(Calls)
        /\ \A i \in 1..(Len(q) - m) : SubSeq(q, m + 1, Len(q))[i] = q[m + i]
    BY <1>1, <2>1
  <2> DEFINE s == RemoveAt(q, m)
  <2>7. /\ s \in Seq(Calls) /\ Len(s) = Len(q) - 1
        /\ \A i \in 1..(Len(q) - 1) : s[i] = IF i < m THEN q[i] ELSE q[i + 1]
    <3> DEFINE a == SubSeq(q, 1, m - 1)
               b == SubSeq(q, m + 1, Len(q))
    <3>1. s = a \o b
      BY DEF RemoveAt
    <3>2. a \in Seq(Calls) /\ b \in Seq(Calls) /\ Len(a) = m - 1 /\ Len(b) = Len(q) - m
      BY <2>5, <2>6
    <3>3. \A i \in 1..(Len(q) - m) : b[i] = q[m + i]
      BY <2>6
    <3>4. \A i \in 1..(m - 1) : a[i] = q[i]
      BY <2>5
    <3> HIDE DEF a, b, s
    <3>5. s \in Seq(Calls) /\ Len(s) = Len(q) - 1
      <4>1. Len(q) - m \in Nat /\ m - 1 \in Nat /\ (m - 1) + (Len(q) - m) = Len(q) - 1
        BY <1>1, <2>1
      <4>2. s \in Seq(Calls) /\ Len(s) = Len(a) + Len(b)
        BY <3>1, <3>2, ConcatProperties
      <4> QED
        BY <3>2, <4>1, <4>2
    <3>6. ASSUME NEW i \in 1..(Len(q) - 1)
          PROVE s[i] = IF i < m THEN q[i] ELSE q[i + 1]
      <4>1. CASE i < m
        <5>1. i \in 1..(m - 1) /\ i \in 1..Len(a)
          BY <1>1, <2>1, <3>2, <4>1
        <5>2. s[i] = a[i]
          BY <3>1, <3>2, <5>1
        <5> QED
          BY <3>4, <4>1, <5>1, <5>2
      <4>2. CASE ~(i < m)
        <5>1. i - Len(a) \in 1..Len(b) /\ i - Len(a) = i - m + 1
              /\ i - m + 1 \in 1..(Len(q) - m) /\ m + (i - m + 1) = i + 1
          BY <1>1, <2>1, <3>2, <4>2
        <5>2. s[i] = b[i - Len(a)]
          BY <1>1, <2>1, <3>1, <3>2, <4>2
        <5>3. s[i] = q[i + 1]
          BY <3>3, <5>1, <5>2
        <5> QED
          BY <4>2, <5>3
      <4> QED
        BY <4>1, <4>2
    <3> QED
      BY <3>5, <3>6
  <2> HIDE DEF s
  <2> DEFINE from(i) == IF i < m THEN i ELSE i + 1
  <2>8. \A i \in 1..Len(s) : from(i) \in 1..Len(q) /\ from(i) # m /\ s[i] = q[from(i)]
    BY <1>1, <2>1, <2>7
  <2>9. \A i, k \in 1..Len(s) : from(i) = from(k) => i = k
    BY <1>1, <2>1, <2>7
  <2>10. \A i \in 1..Len(q) \ {m} : \E k \in 1..Len(s) : from(k) = i
    <3> SUFFICES ASSUME NEW i \in 1..Len(q) \ {m} PROVE \E k \in 1..Len(s) : from(k) = i
      OBVIOUS
    <3>1. CASE i < m
      BY <1>1, <2>1, <2>7, <3>1
    <3>2. CASE ~(i < m)
      <4>1. i - 1 \in 1..Len(s) /\ from(i - 1) = i
        BY <1>1, <2>1, <2>7, <3>2
      <4> QED
        BY <4>1
    <3> QED
      BY <3>1, <3>2
  <2> HIDE DEF from
  <2>11. \A i, k \in 1..Len(s) : s[i] = s[k] => i = k
    <3> SUFFICES ASSUME NEW i \in 1..Len(s), NEW k \in 1..Len(s), s[i] = s[k] PROVE i = k
      OBVIOUS
    <3>1. /\ from(i) \in 1..Len(q) /\ from(k) \in 1..Len(q)
          /\ q[from(i)] = q[from(k)]
      BY <2>8
    <3>2. from(i) = from(k)
      BY <3>1 DEF IsQueueOf
    <3> QED
      BY <2>9, <3>2
  <2>12. \A i \in 1..Len(s) : s[i] \in S \ {j}
    BY <2>1, <2>8 DEF IsQueueOf
  <2>13. \A k \in S \ {j} : \E i \in 1..Len(s) : s[i] = k
    <3> SUFFICES ASSUME NEW k \in S \ {j} PROVE \E i \in 1..Len(s) : s[i] = k
      OBVIOUS
    <3>1. PICK i \in 1..Len(q) : q[i] = k
      BY DEF IsQueueOf
    <3>2. PICK l \in 1..Len(s) : from(l) = i
      BY <2>1, <2>10, <3>1
    <3> QED
      BY <2>8, <3>1, <3>2
  <2>14. IsQueueOf(s, S \ {j})
    BY <1>1, <2>7, <2>11, <2>12, <2>13 DEF IsQueueOf
  <2> QED
    BY <2>4, <2>14 DEF s
<1> QED
  BY <1>3, <1>4

\* The number of places of a refresh.
LEMMA OnePlace ==
  ASSUME NEW q, NEW S, IsQueueOf(q, S), NEW j
  PROVE Cardinality({i \in DOMAIN q : q[i] = j}) = IF j \in S THEN 1 ELSE 0
<1> DEFINE places == {i \in DOMAIN q : q[i] = j}
<1>1. DOMAIN q = 1..Len(q)
  BY DEF IsQueueOf
<1>2. CASE j \in S
  <2>1. PICK i \in 1..Len(q) : q[i] = j
    BY <1>2 DEF IsQueueOf
  <2>2. places = {i}
    BY <1>1, <2>1 DEF IsQueueOf
  <2> QED
    BY <1>2, <2>2, FS_Singleton
<1>3. CASE j \notin S
  <2>1. places = {}
    BY <1>1, <1>3 DEF IsQueueOf
  <2> QED
    BY <1>3, <2>1, FS_EmptySet
<1> QED
  BY <1>2, <1>3

\* The refreshes of a session that wait without the slot.
Queued(s) == {j \in Calls : Home[j] = s /\ job[j] = "wait" /\ held[s] # j}

Running == {"wait", "locked", "http"}

\* The queue of a session is theirs, and the slot is with a refresh that runs.
SlotIsSound(s) ==
  /\ IsQueueOf(waiters[s], Queued(s))
  /\ held[s] # None => held[s] \in Calls /\ Home[held[s]] = s /\ job[held[s]] \in Running
  /\ held[s] = None => Queued(s) = {}

SlotInv ==
  /\ DOMAIN held = Sessions /\ DOMAIN waiters = Sessions
  /\ job \in [Calls -> {"none", "wait", "locked", "http", "settled", "aborted"}]
  /\ \A s \in Sessions : SlotIsSound(s)

\* A session whose waiting refreshes and whose slot a step leaves alone.
LEMMA SameSlot ==
  ASSUME NEW s \in Sessions, SlotIsSound(s), held'[s] = held[s], waiters'[s] = waiters[s],
         \A j \in Calls : Home[j] = s =>
           /\ held[s] # j => (job'[j] = "wait" <=> job[j] = "wait")
           /\ held[s] = j => job'[j] \in Running
  PROVE SlotIsSound(s)'
<1>1. Queued(s)' = {j \in Calls : Home[j] = s /\ job'[j] = "wait" /\ held'[s] # j}
  BY DEF Queued
<1>2. Queued(s)' = Queued(s)
  BY <1>1 DEF Queued
<1> QED
  BY <1>2 DEF SlotIsSound

\* The other sessions in a step of one refresh.
LEMMA OtherSlots ==
  ASSUME SlotInv, NEW j \in Calls, NEW s \in Sessions, s # Home[j],
         held'[s] = held[s], waiters'[s] = waiters[s],
         \A i \in Calls \ {j} : job'[i] = job[i]
  PROVE SlotIsSound(s)'
<1>1. SlotIsSound(s)
  BY DEF SlotInv
<1>2. \A i \in Calls : Home[i] = s => job'[i] = job[i] /\ (held[s] = i => job[i] \in Running)
  BY <1>1, NoneIsNothing DEF SlotIsSound
<1> QED
  BY <1>1, <1>2, SameSlot

\* Nobody has a slot at first.
LEMMA StartSlots == Init => SlotInv
<1> SUFFICES ASSUME Init PROVE SlotInv
  OBVIOUS
<1>1. /\ DOMAIN held = Sessions /\ DOMAIN waiters = Sessions
      /\ job \in [Calls -> {"none", "wait", "locked", "http", "settled", "aborted"}]
  BY DEF Init
<1>2. ASSUME NEW s \in Sessions PROVE SlotIsSound(s)
  <2>1. held[s] = None /\ waiters[s] = <<>> /\ Queued(s) = {}
    BY DEF Init, Queued
  <2> QED
    BY <2>1, NobodyQueued DEF SlotIsSound
<1> QED
  BY <1>1, <1>2 DEF SlotInv

\* A step that changes no slot and no refresh.
LEMMA SlotsUntouched ==
  ASSUME SlotInv, UNCHANGED <<held, waiters, job>>
  PROVE SlotInv'
<1>1. \A s \in Sessions : SlotIsSound(s)' <=> SlotIsSound(s)
  BY DEF SlotIsSound, Queued
<1> QED
  BY <1>1 DEF SlotInv

\* A refresh that has the slot moves on with it.
LEMMA SlotKept ==
  ASSUME SlotInv, NEW j \in Calls, held[Home[j]] = j, NEW to \in Running,
         job' = [job EXCEPT ![j] = to], UNCHANGED <<held, waiters>>
  PROVE SlotInv'
<1> USE CallsHaveHomes
<1>1. job' \in [Calls -> {"none", "wait", "locked", "http", "settled", "aborted"}]
  BY DEF SlotInv, Running
<1>2. job'[j] \in Running /\ \A i \in Calls \ {j} : job'[i] = job[i]
  BY DEF SlotInv
<1>3. ASSUME NEW s \in Sessions PROVE SlotIsSound(s)'
  <2>1. SlotIsSound(s)
    BY DEF SlotInv
  <2>2. CASE s # Home[j]
    BY <1>2, <2>2, OtherSlots
  <2>3. CASE s = Home[j]
    <3>1. \A i \in Calls : held[s] = i => i = j
      BY <2>3
    <3>2. \A i \in Calls : Home[i] = s =>
            /\ held[s] # i => (job'[i] = "wait" <=> job[i] = "wait")
            /\ held[s] = i => job'[i] \in Running
      BY <1>2, <2>3, <3>1
    <3> QED
      BY <2>1, <3>2, SameSlot
  <2> QED
    BY <2>2, <2>3
<1> QED
  BY <1>1, <1>3 DEF SlotInv

\* The slot of one session, given who holds it, who is queued and what else stays.
LEMMA SlotMoves ==
  ASSUME SlotInv, NEW j \in Calls, DOMAIN held' = Sessions, DOMAIN waiters' = Sessions,
         NEW to \in {"wait", "settled", "aborted"}, job' = [job EXCEPT ![j] = to],
         \A s \in Sessions \ {Home[j]} : held'[s] = held[s] /\ waiters'[s] = waiters[s],
         SlotIsSound(Home[j])'
  PROVE SlotInv'
<1>1. /\ job' \in [Calls -> {"none", "wait", "locked", "http", "settled", "aborted"}]
      /\ \A i \in Calls \ {j} : job'[i] = job[i]
  BY DEF SlotInv
<1>2. ASSUME NEW s \in Sessions PROVE SlotIsSound(s)'
  BY <1>1, OtherSlots
<1> QED
  BY <1>1, <1>2 DEF SlotInv

\* Settling: the slot goes to the first in the queue, or the refresh leaves the queue.
LEMMA SettleSlots ==
  ASSUME SlotInv, NEW j \in Calls, NEW how \in {"settled", "aborted"}, Settle(j, how)
  PROVE SlotInv'
<1> USE CallsHaveHomes
<1> DEFINE s == Home[j]
<1>1. /\ s \in Sessions /\ SlotIsSound(s)
      /\ job' = [job EXCEPT ![j] = how] /\ GiveSlot(s, j)
      /\ DOMAIN held = Sessions /\ DOMAIN waiters = Sessions
      /\ job \in [Calls -> {"none", "wait", "locked", "http", "settled", "aborted"}]
  BY DEF Settle, SlotInv
<1>2. /\ job'[j] # "wait" /\ \A i \in Calls \ {j} : job'[i] = job[i]
  BY <1>1
<1>3. Queued(s)' = {i \in Calls : Home[i] = s /\ job'[i] = "wait" /\ held'[s] # i}
  BY DEF Queued
<1>4. \A i \in Calls : i \in Queued(s)' <=>
        Home[i] = s /\ i # j /\ job[i] = "wait" /\ held'[s] # i
  BY <1>2, <1>3
<1>5. \A i \in Calls : i \in Queued(s) <=> Home[i] = s /\ job[i] = "wait" /\ held[s] # i
  BY DEF Queued
<1>6. Queued(s) \subseteq Calls /\ Queued(s)' \subseteq Calls
  BY <1>3 DEF Queued
<1>7. CASE held[s] = j /\ waiters[s] = <<>>
  <2>1. /\ DOMAIN held' = Sessions /\ DOMAIN waiters' = Sessions
        /\ held'[s] = None /\ waiters'[s] = <<>>
        /\ \A r \in Sessions \ {s} : held'[r] = held[r] /\ waiters'[r] = waiters[r]
    BY <1>1, <1>7 DEF GiveSlot
  <2>2. Queued(s) = {}
    BY <1>1, <1>7, EmptyQueue DEF SlotIsSound
  <2>3. Queued(s)' = {}
    BY <1>4, <1>5, <1>6, <1>7, <2>2
  <2>4. SlotIsSound(s)'
    BY <2>1, <2>3, NobodyQueued DEF SlotIsSound
  <2> QED
    BY <1>1, <2>1, <2>4, SlotMoves
<1>8. CASE held[s] = j /\ waiters[s] # <<>>
  <2> DEFINE h == Head(waiters[s])
  <2>1. /\ DOMAIN held' = Sessions /\ DOMAIN waiters' = Sessions
        /\ held'[s] = h /\ waiters'[s] = Tail(waiters[s])
        /\ \A r \in Sessions \ {s} : held'[r] = held[r] /\ waiters'[r] = waiters[r]
    BY <1>1, <1>8 DEF GiveSlot
  <2>2. h \in Queued(s) /\ IsQueueOf(Tail(waiters[s]), Queued(s) \ {h})
    BY <1>1, <1>8, FirstServed DEF SlotIsSound
  <2> HIDE DEF h
  <2>3. Queued(s)' = Queued(s) \ {h}
    BY <1>4, <1>5, <1>6, <1>8, <2>1
  <2>4. h \in Calls /\ Home[h] = s /\ job[h] = "wait" /\ h # j /\ h # None
    BY <1>5, <1>6, <1>8, <2>2, NoneIsNothing
  <2>5. job'[h] \in Running
    BY <1>2, <2>4 DEF Running
  <2>6. SlotIsSound(s)'
    BY <2>1, <2>2, <2>3, <2>4, <2>5 DEF SlotIsSound
  <2> QED
    BY <1>1, <2>1, <2>6, SlotMoves
<1>9. CASE held[s] # j
  <2>1. /\ DOMAIN held' = Sessions /\ DOMAIN waiters' = Sessions
        /\ held'[s] = held[s] /\ waiters'[s] = RemoveFirst(waiters[s], j)
        /\ \A r \in Sessions \ {s} : held'[r] = held[r] /\ waiters'[r] = waiters[r]
    BY <1>1, <1>9 DEF GiveSlot, Other
  <2>2. Queued(s)' = Queued(s) \ {j}
    BY <1>4, <1>5, <1>6, <2>1
  <2>3. IsQueueOf(waiters'[s], Queued(s)')
    BY <1>1, <2>1, <2>2, LeaveQueue DEF SlotIsSound
  <2>4. held'[s] # None => held'[s] \in Calls /\ Home[held'[s]] = s /\ job'[held'[s]] \in Running
    BY <1>1, <1>2, <1>9, <2>1 DEF SlotIsSound
  <2>5. held'[s] = None => Queued(s)' = {}
    BY <1>1, <2>1, <2>2 DEF SlotIsSound
  <2>6. SlotIsSound(s)'
    BY <2>3, <2>4, <2>5 DEF SlotIsSound
  <2> QED
    BY <1>1, <2>1, <2>6, SlotMoves
<1> QED
  BY <1>7, <1>8, <1>9

\* A new refresh has the slot or the last place in the queue.
LEMMA EnterSlots ==
  ASSUME SlotInv, NEW c \in Calls, job[c] = "none", Start(c)
  PROVE SlotInv'
<1> USE CallsHaveHomes
<1> DEFINE s == Home[c]
<1>1. /\ s \in Sessions /\ SlotIsSound(s)
      /\ job' = [job EXCEPT ![c] = "wait"] /\ Enter(s, c)
      /\ DOMAIN held = Sessions /\ DOMAIN waiters = Sessions
      /\ job \in [Calls -> {"none", "wait", "locked", "http", "settled", "aborted"}]
  BY DEF Start, SlotInv
<1>2. job'[c] = "wait" /\ \A i \in Calls \ {c} : job'[i] = job[i]
  BY <1>1
<1>3. Queued(s)' = {i \in Calls : Home[i] = s /\ job'[i] = "wait" /\ held'[s] # i}
  BY DEF Queued
<1>4. \A i \in Calls : i \in Queued(s)' <=>
        Home[i] = s /\ (i = c \/ job[i] = "wait") /\ held'[s] # i
  BY <1>2, <1>3
<1>5. \A i \in Calls : i \in Queued(s) <=> Home[i] = s /\ job[i] = "wait" /\ held[s] # i
  BY DEF Queued
<1>6. Queued(s) \subseteq Calls /\ Queued(s)' \subseteq Calls /\ c \notin Queued(s)
  BY <1>3 DEF Queued
<1>7. CASE held[s] = None
  <2>1. /\ DOMAIN held' = Sessions /\ DOMAIN waiters' = Sessions
        /\ held'[s] = c /\ waiters'[s] = waiters[s]
        /\ \A r \in Sessions \ {s} : held'[r] = held[r] /\ waiters'[r] = waiters[r]
    BY <1>1, <1>7 DEF Enter
  <2>2. Queued(s) = {}
    BY <1>1, <1>7 DEF SlotIsSound
  <2>3. Queued(s)' = Queued(s)
    BY <1>4, <1>5, <1>6, <1>7, <2>1, <2>2, NoneIsNothing
  <2>4. c # None /\ job'[c] \in Running
    BY <1>2, NoneIsNothing DEF Running
  <2>5. SlotIsSound(s)'
    BY <1>1, <2>1, <2>3, <2>4 DEF SlotIsSound
  <2> QED
    BY <1>1, <2>1, <2>5, SlotMoves
<1>8. CASE held[s] # None
  <2>1. /\ DOMAIN held' = Sessions /\ DOMAIN waiters' = Sessions
        /\ held'[s] = held[s] /\ waiters'[s] = Append(waiters[s], c)
        /\ \A r \in Sessions \ {s} : held'[r] = held[r] /\ waiters'[r] = waiters[r]
    BY <1>1, <1>8 DEF Enter
  <2>2. held[s] \in Calls /\ Home[held[s]] = s /\ job[held[s]] \in Running /\ held[s] # c
    BY <1>1, <1>8 DEF SlotIsSound, Running
  <2>3. Queued(s)' = Queued(s) \cup {c}
    BY <1>4, <1>5, <1>6, <2>1, <2>2
  <2>4. IsQueueOf(waiters'[s], Queued(s)')
    BY <1>1, <1>6, <2>1, <2>3, QueueUp DEF SlotIsSound
  <2>5. job'[held[s]] \in Running
    BY <1>2, <2>2
  <2>6. SlotIsSound(s)'
    BY <1>8, <2>1, <2>2, <2>4, <2>5 DEF SlotIsSound
  <2> QED
    BY <1>1, <2>1, <2>6, SlotMoves
<1> QED
  BY <1>7, <1>8

\* A wait that has run out goes to the end of the queue.
LEMMA RequeueSlots ==
  ASSUME SlotInv, NEW j \in Calls, job[j] = "wait", TimeOut(j), ~Settle(j, "settled")
  PROVE SlotInv'
<1> USE CallsHaveHomes
<1> DEFINE s == Home[j]
<1>1. /\ s \in Sessions /\ SlotIsSound(s) /\ job' = job
      /\ DOMAIN held = Sessions /\ DOMAIN waiters = Sessions
      /\ job \in [Calls -> {"none", "wait", "locked", "http", "settled", "aborted"}]
  BY DEF TimeOut, SlotInv
<1>2. job' = [job EXCEPT ![j] = "wait"]
  BY <1>1
<1>3. Queued(s)' = {i \in Calls : Home[i] = s /\ job[i] = "wait" /\ held'[s] # i}
  BY <1>1 DEF Queued
<1>5. \A i \in Calls : i \in Queued(s) <=> Home[i] = s /\ job[i] = "wait" /\ held[s] # i
  BY DEF Queued
<1>6. Queued(s) \subseteq Calls /\ Queued(s)' \subseteq Calls
  BY <1>3 DEF Queued
<1>7. CASE held[s] = j /\ waiters[s] = <<>>
  BY <1>1, <1>7, SlotsUntouched DEF TimeOut
<1>a. CASE ~(held[s] = j /\ waiters[s] = <<>>)
  <2>1. /\ held' = [held EXCEPT ![s] = IF @ = j THEN Head(waiters[s]) ELSE @]
        /\ waiters' = [waiters EXCEPT ![s] =
                         Append(IF held[s] = j THEN Tail(@) ELSE Other(s, j), j)]
    BY <1>a DEF TimeOut
  <2>2. /\ DOMAIN held' = Sessions /\ DOMAIN waiters' = Sessions
        /\ \A r \in Sessions \ {s} : held'[r] = held[r] /\ waiters'[r] = waiters[r]
    BY <1>1, <2>1
  <2>3. CASE held[s] = j
    <3> DEFINE h == Head(waiters[s])
    <3>1. held'[s] = h /\ waiters'[s] = Append(Tail(waiters[s]), j)
      BY <1>1, <2>1, <2>3
    <3>2. h \in Queued(s) /\ IsQueueOf(Tail(waiters[s]), Queued(s) \ {h})
      BY <1>1, <1>a, <2>3, FirstServed DEF SlotIsSound
    <3> HIDE DEF h
    <3>3. h \in Calls /\ Home[h] = s /\ job[h] = "wait" /\ h # j /\ h # None
      BY <1>5, <1>6, <2>3, <3>2, NoneIsNothing
    <3>4. j \notin Queued(s) \ {h}
      BY <1>5, <2>3
    <3>5. Queued(s)' = (Queued(s) \ {h}) \cup {j}
      BY <1>3, <1>5, <1>6, <2>3, <3>1, <3>3
    <3>6. IsQueueOf(waiters'[s], Queued(s)')
      BY <3>1, <3>2, <3>4, <3>5, QueueUp
    <3>7. SlotIsSound(s)'
      BY <1>1, <3>1, <3>3, <3>6 DEF SlotIsSound, Running
    <3> QED
      BY <1>1, <1>2, <2>2, <3>7, SlotMoves
  <2>4. CASE held[s] # j
    <3>1. held'[s] = held[s] /\ waiters'[s] = Append(RemoveFirst(waiters[s], j), j)
      BY <1>1, <2>1, <2>4 DEF Other
    <3>2. Queued(s)' = Queued(s) /\ j \in Queued(s)
      BY <1>3, <1>5, <1>6, <2>4, <3>1
    <3>3. IsQueueOf(RemoveFirst(waiters[s], j), Queued(s) \ {j})
      BY <1>1, LeaveQueue DEF SlotIsSound
    <3>4. IsQueueOf(waiters'[s], (Queued(s) \ {j}) \cup {j})
      BY <3>1, <3>3, QueueUp
    <3>5. (Queued(s) \ {j}) \cup {j} = Queued(s)'
      BY <3>2
    <3>6. IsQueueOf(waiters'[s], Queued(s)')
      BY <3>4, <3>5
    <3>7. SlotIsSound(s)'
      BY <1>1, <3>1, <3>2, <3>6 DEF SlotIsSound
    <3> QED
      BY <1>1, <1>2, <2>2, <3>7, SlotMoves
  <2> QED
    BY <2>3, <2>4
<1> QED
  BY <1>7, <1>a

\* The end of a process empties its slot and its queue.
LEMMA KillSlots ==
  ASSUME SlotInv, NEW s \in Sessions, Kill(s)
  PROVE SlotInv'
<1>1. /\ held' = [held EXCEPT ![s] = None] /\ waiters' = [waiters EXCEPT ![s] = <<>>]
      /\ job' \in [Calls -> {"none", "wait", "locked", "http", "settled", "aborted"}]
      /\ \A c \in Calls : Home[c] = s => job'[c] # "wait"
      /\ \A c \in Calls : Home[c] # s => job'[c] = job[c]
  BY DEF Kill, SlotInv
<1>2. DOMAIN held' = Sessions /\ DOMAIN waiters' = Sessions
  BY <1>1 DEF SlotInv
<1>3. SlotIsSound(s)'
  <2>1. held'[s] = None /\ waiters'[s] = <<>>
    BY <1>1 DEF SlotInv
  <2>2. Queued(s)' = {}
    BY <1>1 DEF Queued
  <2> QED
    BY <2>1, <2>2, NobodyQueued DEF SlotIsSound
<1>4. ASSUME NEW r \in Sessions, r # s PROVE SlotIsSound(r)'
  <2>1. held'[r] = held[r] /\ waiters'[r] = waiters[r] /\ SlotIsSound(r)
    BY <1>1, <1>4 DEF SlotInv
  <2>2. \A i \in Calls : Home[i] = r => job'[i] = job[i] /\ (held[r] = i => job[i] \in Running)
    BY <1>1, <1>4, <2>1, NoneIsNothing DEF SlotIsSound
  <2> QED
    BY <2>1, <2>2, SameSlot
<1> QED
  BY <1>1, <1>2, <1>3, <1>4 DEF SlotInv

\* Every step keeps the slots sound.
LEMMA NextSlots == SlotInv /\ Holding /\ Unstarted /\ [Next]_vars => SlotInv'
<1> SUFFICES ASSUME SlotInv, Holding, Unstarted, [Next]_vars
             PROVE SlotInv'
  OBVIOUS
<1>1. CASE Age \/ Login \/ Logout \/ UNCHANGED vars \/ \E j \in Calls : Serve(j)
  BY <1>1, SlotsUntouched DEF Age, Login, Logout, Serve, vars, jobs, locks
<1>2. ASSUME NEW c \in Calls, CallStep(c) \/ Clear(c)
      PROVE SlotInv'
  <2>1. CASE Start(c)
    <3>1. job[c] = "none"
      BY <2>1 DEF Start, Unstarted
    <3> QED
      BY <2>1, <3>1, EnterSlots
  <2>2. CASE ~Start(c)
    BY <1>2, <2>2, SlotsUntouched DEF CallStep, Ask, Join, Cancel, Return, Clear, jobs, locks
  <2> QED
    BY <2>1, <2>2
<1>3. ASSUME NEW j \in Calls, TakeLock(j)
      PROVE SlotInv'
  BY <1>3, SlotKept DEF TakeLock, Running
<1>4. ASSUME NEW j \in Calls, AbandonWait(j) \/ Ends(j)
      PROVE SlotInv'
  BY <1>4, SettlingSteps, SettleSlots DEF Ends
<1>5. ASSUME NEW j \in Calls, TimeOut(j)
      PROVE SlotInv'
  <2>1. CASE Settle(j, "settled")
    BY <2>1, SettleSlots
  <2>2. CASE ~Settle(j, "settled")
    BY <1>5, <2>2, RequeueSlots DEF TimeOut, Waited
  <2> QED
    BY <2>1, <2>2
<1>6. ASSUME NEW j \in Calls, Proceed(j)
      PROVE SlotInv'
  <2>1. CASE \E how \in {"settled", "aborted"} : Settle(j, how)
    BY <2>1, SettleSlots
  <2>2. CASE ~\E how \in {"settled", "aborted"} : Settle(j, how)
    <3>1. job' = [job EXCEPT ![j] = "http"] /\ UNCHANGED <<held, waiters>> /\ job[j] = "locked"
      BY <1>6, <2>2 DEF Proceed, locks
    <3>2. held[Home[j]] = j
      BY <3>1 DEF Holding
    <3> QED
      BY <3>1, <3>2, SlotKept DEF Running
  <2> QED
    BY <2>1, <2>2
<1>7. ASSUME NEW s \in Sessions, Kill(s)
      PROVE SlotInv'
  BY <1>7, KillSlots
<1> QED
  BY <1>1, <1>2, <1>3, <1>4, <1>5, <1>6, <1>7 DEF Next, JobStep, Polls

\* A slot is held by a refresh that runs, and each refresh that waits without it has exactly
\* one place in the queue (credential-lock.ts, acquireSlot and the finally blocks).
THEOREM SpecSlotsAreLive == Spec => []SlotsAreLive
<1>1. SlotInv => SlotsAreLive
  <2> SUFFICES ASSUME SlotInv, NEW s \in Sessions
               PROVE /\ held[s] # None => job[held[s]] \in {"wait", "locked", "http"}
                     /\ waiters[s] # <<>> => held[s] # None
                     /\ \A j \in Calls : Home[j] = s =>
                          Cardinality({i \in DOMAIN waiters[s] : waiters[s][i] = j})
                            = IF job[j] = "wait" /\ held[s] # j THEN 1 ELSE 0
    BY DEF SlotsAreLive
  <2>1. SlotIsSound(s)
    BY DEF SlotInv
  <2>2. held[s] # None => job[held[s]] \in {"wait", "locked", "http"}
    BY <2>1 DEF SlotIsSound, Running
  <2>3. waiters[s] # <<>> => held[s] # None
    BY <2>1, EmptyQueue DEF SlotIsSound
  <2>4. ASSUME NEW j \in Calls, Home[j] = s
        PROVE Cardinality({i \in DOMAIN waiters[s] : waiters[s][i] = j})
                = IF job[j] = "wait" /\ held[s] # j THEN 1 ELSE 0
    <3>1. Cardinality({i \in DOMAIN waiters[s] : waiters[s][i] = j})
            = IF j \in Queued(s) THEN 1 ELSE 0
      BY <2>1, OnePlace DEF SlotIsSound
    <3>2. j \in Queued(s) <=> job[j] = "wait" /\ held[s] # j
      BY <2>4 DEF Queued
    <3> QED
      BY <3>1, <3>2
  <2> QED
    BY <2>2, <2>3, <2>4
<1>2. GateInv => Unstarted
  BY DEF GateInv
<1> QED
  BY <1>1, <1>2, StartSlots, NextSlots, StartHolding, NextHolding, StartGates, NextGates, PTL
     DEF Spec

-----------------------------------------------------------------------------
(* The types, from the three invariants and the variables they leave out.    *)

\* The variables the other invariants leave out.
RestTypes ==
  /\ held = [s \in Sessions |-> held[s]] /\ waiters = [s \in Sessions |-> waiters[s]]
  /\ lock \in Sessions \cup {None}
  /\ inflight \in [Sessions -> Calls \cup {None}]
  /\ again \subseteq Calls /\ aborted \subseteq Calls
  /\ valid \subseteq Tokens /\ choice \in Tokens \cup {0}

\* Settling gives up the lock and forgets the second wait.
LEMMA SettleRest ==
  ASSUME RestTypes, NEW j \in Calls, NEW how, Settle(j, how), UNCHANGED <<valid, choice>>
  PROVE RestTypes'
<1>1. /\ held' = [s \in Sessions |-> held'[s]] /\ waiters' = [s \in Sessions |-> waiters'[s]]
  BY DEF RestTypes, Settle, GiveSlot
<1> QED
  BY <1>1 DEF RestTypes, Settle

\* The remaining types hold at first.
LEMMA StartRest == Init => RestTypes
<1>1. 1 \in Tokens
  BY TokensAreCounted DEF Tokens
<1> QED
  BY <1>1 DEF Init, RestTypes

\* Every step keeps the remaining types; a gate that is aborted is a call's.
LEMMA NextRest == RestTypes /\ GateInv /\ TokenInv /\ [Next]_vars => RestTypes'
<1> SUFFICES ASSUME RestTypes, GateInv, TokenInv, [Next]_vars
             PROVE RestTypes'
  OBVIOUS
<1> USE CallsHaveHomes
<1>1. CASE Age \/ Logout \/ UNCHANGED vars
  BY <1>1 DEF Age, Logout, vars, jobs, locks, provider, RestTypes
<1>2. CASE Login
  <2>1. issued + 1 \in Tokens
    BY <1>2, IssuedTokens DEF Login, TokenInv, TokenTypes
  <2> QED
    BY <1>2, <2>1 DEF Login, jobs, locks, RestTypes
<1>3. ASSUME NEW c \in Calls, Ask(c) \/ Join(c) \/ Start(c) \/ Clear(c)
      PROVE RestTypes'
  BY <1>3 DEF Ask, Join, Start, Enter, Clear, jobs, locks, provider, RestTypes
<1>4. ASSUME NEW c \in Calls, Cancel(c) \/ Return(c)
      PROVE RestTypes'
  <2>1. at[c] = "waiting" => joined[c] \in Calls
    BY DEF GateInv, WaitersAreServed
  <2>2. aborted' \subseteq Calls
    BY <1>4, <2>1 DEF Cancel, Withdraw, Return, Leave, RestTypes
  <2> QED
    BY <1>4, <2>2 DEF Cancel, Return, locks, provider, RestTypes
<1>5. ASSUME NEW j \in Calls, AbandonWait(j) \/ Ends(j)
      PROVE RestTypes'
  BY <1>5, SettleRest DEF AbandonWait, Ends, Commit, CommitFails, RequestFails, provider
<1>6. ASSUME NEW j \in Calls, TakeLock(j)
      PROVE RestTypes'
  BY <1>6 DEF TakeLock, provider, RestTypes
<1>7. ASSUME NEW j \in Calls, TimeOut(j)
      PROVE RestTypes'
  <2>1. CASE Settle(j, "settled")
    BY <1>7, <2>1, SettleRest DEF TimeOut, provider
  <2>2. CASE ~Settle(j, "settled")
    BY <1>7, <2>2 DEF TimeOut, provider, RestTypes
  <2> QED
    BY <2>1, <2>2
<1>8. ASSUME NEW j \in Calls, Proceed(j)
      PROVE RestTypes'
  <2>1. CASE \E how \in {"settled", "aborted"} : Settle(j, how)
    BY <1>8, <2>1, SettleRest DEF Proceed, provider
  <2>2. CASE ~\E how \in {"settled", "aborted"} : Settle(j, how)
    BY <1>8, <2>2 DEF Proceed, locks, provider, RestTypes
  <2> QED
    BY <2>1, <2>2
<1>9. ASSUME NEW j \in Calls, Serve(j)
      PROVE RestTypes'
  <2>1. issued < MaxTokens => issued + 1 \in Tokens
    BY IssuedTokens DEF TokenInv, TokenTypes
  <2>2. valid' \subseteq Tokens
    BY <1>9, <2>1 DEF Serve, RestTypes
  <2> QED
    BY <1>9, <2>2 DEF Serve, jobs, locks, RestTypes
<1>10. ASSUME NEW s \in Sessions, Kill(s)
       PROVE RestTypes'
  BY <1>10 DEF Kill, provider, RestTypes
<1> QED
  BY <1>1, <1>2, <1>3, <1>4, <1>5, <1>6, <1>7, <1>8, <1>9, <1>10
     DEF Next, CallStep, JobStep, Polls

\* The invariants give the types, the owners of slots included.
LEMMA InvariantsType ==
  ASSUME RestTypes, SlotInv, GateInv, TokenInv
  PROVE TypeOK
<1>1. held \in [Sessions -> Calls \cup {None}] /\ waiters \in [Sessions -> Seq(Calls)]
  <2>1. \A s \in Sessions : held[s] \in Calls \cup {None} /\ waiters[s] \in Seq(Calls)
    BY DEF SlotInv, SlotIsSound, IsQueueOf
  <2> QED
    BY <2>1 DEF RestTypes
<1>2. spent \subseteq Tokens
  BY IssuedTokens DEF TokenInv, TokenTypes
<1> QED
  BY <1>1, <1>2 DEF TypeOK, SlotInv, RestTypes, GateInv, TokenInv, TokenTypes

\* Every variable keeps its type; the slots' owners and queues are calls (TypeOK).
THEOREM SpecTypeOK == Spec => []TypeOK
<1>1. GateInv => Unstarted
  BY DEF GateInv
<1> QED
  BY <1>1, InvariantsType, StartRest, NextRest, StartSlots, NextSlots, StartHolding, NextHolding,
     StartGates, NextGates, StartTokens, NextTokens, PTL DEF Spec

=============================================================================
