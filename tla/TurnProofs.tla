----------------------------- MODULE TurnProofs -----------------------------
(***************************************************************************)
(* Proofs about Turn, for every number of steps, attempts, turns and kills. *)
(* The invariant says where each unfinished piece of the log may be met:   *)
(* an open attempt, an unsettled retry or a started call exists only while *)
(* the process that made it is at the place that finishes it, or is dead   *)
(* and the recovery has not come to it yet.                                *)
(***************************************************************************)
EXTENDS Turn, SequenceTheorems, TLAPS

Gone == {"down", "recover"}

\* What moves the process or its surroundings and leaves steps and attempts alone.
Commands ==
  \/ StartTurn \/ ContinueTurn \/ ContinueRefused \/ SetCompactor \/ Exit \/ Open
  \/ CommandFails \/ Cancel \/ ChangeCredential \/ Kill

\* Only the last attempt of a step may be open or accepted; only its predecessor
\* may be superseded, and once.
TriesInv ==
  /\ \A i \in DOMAIN tries : i < Len(tries) => tries[i].status = "failed"
  /\ \A i \in DOMAIN tries : tries[i].replaced \in {0, 1}
  /\ \A i \in DOMAIN tries :
       tries[i].replaced = 1 => LastIs("accepted") /\ i = Len(tries) - 1
  /\ Len(tries) <= MaxAttempts
  /\ \A i, j \in DOMAIN tries : tries[i].emergency /\ tries[j].emergency => i = j

\* A step is asked for only when the turn wants one and its last batch is complete.
Wanted ==
  /\ phase # "none" /\ LastStep # "stop" /\ Len(steps) < MaxSteps
  /\ LastStep = "tool" => batch = "complete"

StepsInv ==
  /\ Prior # <<>> => Wanted
  /\ LastIs("accepted") => steps # <<>>
  /\ batch # "none" => LastStep = "tool"
  /\ phase \in {"none", "accepted"} => steps = <<>> /\ tries = <<>> /\ batch = "none"
  /\ refused \subseteq {"E_TOOL_CALL_ID_REUSED", "E_PROVIDER_RETRY_AFTER_EMISSION"}

\* Where the process is, given what the log says.
PlaceInv ==
  /\ LastIs("open") => at \in {"call"} \cup Gone
  /\ Unsettled => at \in {"answered"} \cup Gone
  /\ batch \in {"started", "full"} => at \in {"batch"} \cup Gone
  /\ phase = "accepted" => at \in {"opened"} \cup Gone
  /\ phase = "started" /\ LastStep = "stop" => at \in {"answered", "drive"} \cup Gone

\* What the log says, given where the process is.
ControlInv ==
  /\ at \notin {"ready", "opened"} \cup Gone => phase = "started"
  /\ at = "opened" => phase = "accepted"
  /\ at = "step" => Wanted
  /\ at = "call" => LastIs("open")
  /\ at = "failed" => LastIs("failed")
  /\ at = "answered" => LastIs("accepted") /\ batch = "none"
  /\ at = "batch" => LastStep = "tool" /\ Prior = <<>>
  /\ at = "poisoned" => LastStep = "tool"

IInv == TypeOK /\ TriesInv /\ StepsInv /\ PlaceInv /\ ControlInv

-----------------------------------------------------------------------------
(* How the actions change tries. *)

\* Attempt n is replaced by e.
Updated(n, e) ==
  /\ e \in Attempt
  /\ tries' \in Seq(Attempt) /\ Len(tries') = Len(tries)
  /\ tries'[n] = e
  /\ \A i \in 1..Len(tries) : i # n => tries'[i] = tries[i]

\* The fields of an attempt, and that they are all of it.
LEMMA AttemptFields ==
  ASSUME NEW a \in Attempt
  PROVE  /\ a.status \in {"open", "failed", "accepted"} /\ a.emergency \in BOOLEAN
         /\ a.failure \in Failure \cup {NoFailure} /\ a.replaced \in Nat
         /\ a = [status |-> a.status, emergency |-> a.emergency,
                  failure |-> a.failure, replaced |-> a.replaced]
BY DEF Attempt

\* Replacing one attempt leaves the others and the length alone.
LEMMA UpdateTry ==
  ASSUME TypeOK, NEW n \in 1..Len(tries), NEW e \in Attempt,
         tries' = [tries EXCEPT ![n] = e]
  PROVE  Updated(n, e)
<1>1. tries \in Seq(Attempt)
  BY DEF TypeOK
<1>2. tries' \in Seq(Attempt) /\ Len(tries') = Len(tries)
  BY <1>1
<1>3. tries'[n] = e
  BY <1>1
<1>4. \A i \in 1..Len(tries) : i # n => tries'[i] = tries[i]
  BY <1>1
<1> QED
  BY <1>2, <1>3, <1>4 DEF Updated

\* The step that was wanted has no attempt yet, or the last one is not accepted.
LEMMA TriesFacts ==
  ASSUME TypeOK
  PROVE  /\ Len(tries) \in Nat /\ DOMAIN tries = 1..Len(tries)
         /\ \A i \in 1..Len(tries) : tries[i] \in Attempt
         /\ tries # <<>> <=> Len(tries) > 0
         /\ tries # <<>> => LastTry \in Attempt /\ LastTry = tries[Len(tries)]
         /\ Prior \in Seq(Attempt)
         /\ Prior # <<>> => Prior = tries /\ ~LastIs("accepted")
         /\ LastIs("accepted") => Prior = <<>>
BY DEF TypeOK, LastTry, Prior, LastIs

\* The steps are a sequence; the last one tells whether there is any.
LEMMA StepsFacts ==
  ASSUME TypeOK
  PROVE  /\ Len(steps) \in Nat /\ (steps = <<>> <=> Len(steps) = 0)
         /\ LastStep \in {"none", "tool", "stop"}
         /\ steps = <<>> <=> LastStep = "none"
<1>1. steps \in Seq({"tool", "stop"})
  BY DEF TypeOK
<1>2. Len(steps) \in Nat /\ (steps = <<>> <=> Len(steps) = 0)
  BY <1>1
<1>3. CASE steps = <<>>
  BY <1>2, <1>3 DEF LastStep
<1>4. CASE steps # <<>>
  <2>1. Len(steps) \in 1..Len(steps)
    BY <1>2, <1>4
  <2>2. steps[Len(steps)] \in {"tool", "stop"}
    BY <1>1, <2>1, ElementOfSeq
  <2> QED
    BY <1>2, <1>4, <2>2 DEF LastStep
<1> QED
  BY <1>3, <1>4

\* An accepted step becomes the last one.
LEMMA AppendedStep ==
  ASSUME TypeOK, NEW f \in {"tool", "stop"}, steps' = Append(steps, f)
  PROVE  /\ steps' \in Seq({"tool", "stop"}) /\ steps' # <<>>
         /\ Len(steps') = Len(steps) + 1 /\ LastStep' = f
<1>1. steps \in Seq({"tool", "stop"})
  BY DEF TypeOK
<1>2. steps' \in Seq({"tool", "stop"}) /\ Len(steps') = Len(steps) + 1
        /\ steps'[Len(steps) + 1] = f
  BY <1>1, AppendProperties
<1>3. steps' # <<>>
  BY <1>1, <1>2
<1> QED
  BY <1>2, <1>3 DEF LastStep

\* The open attempt ends with a failure (LoseAttempt, AttemptFails).
LEMMA FailLast ==
  ASSUME IInv, LastIs("open"), NEW f \in Failure,
         tries' = [tries EXCEPT ![Len(tries)].status = "failed", ![Len(tries)].failure = f]
  PROVE  Updated(Len(tries), [status |-> "failed", emergency |-> LastTry.emergency,
                               failure |-> f, replaced |-> LastTry.replaced])
<1> DEFINE n == Len(tries)
           e == [status |-> "failed", emergency |-> LastTry.emergency,
                 failure |-> f, replaced |-> LastTry.replaced]
<1>1. TypeOK /\ n \in 1..Len(tries) /\ tries[n] \in Attempt /\ tries \in Seq(Attempt)
  BY TriesFacts DEF IInv, TypeOK, LastIs
<1>2. e \in Attempt
  BY <1>1, AttemptFields DEF Attempt, LastTry
<1>3. tries' = [tries EXCEPT ![n] = [[tries[n] EXCEPT !.status = "failed"] EXCEPT !.failure = f]]
  BY <1>1
<1>4. [[tries[n] EXCEPT !.status = "failed"] EXCEPT !.failure = f] = e
  <2> DEFINE a == tries[n]
  <2>1. a = [status |-> a.status, emergency |-> a.emergency,
             failure |-> a.failure, replaced |-> a.replaced]
    BY <1>1, AttemptFields
  <2>2. [a EXCEPT !.status = "failed"] = [status |-> "failed", emergency |-> a.emergency,
                                           failure |-> a.failure, replaced |-> a.replaced]
    BY <2>1
  <2>3. ASSUME NEW b,
               b = [status |-> "failed", emergency |-> a.emergency,
                    failure |-> a.failure, replaced |-> a.replaced]
        PROVE  [b EXCEPT !.failure = f] = [status |-> "failed", emergency |-> a.emergency,
                                            failure |-> f, replaced |-> a.replaced]
    BY <2>3
  <2> QED
    BY <2>2, <2>3 DEF LastTry
<1>5. tries' = [tries EXCEPT ![n] = e]
  BY <1>3, <1>4
<1> QED
  BY <1>1, <1>2, <1>5, UpdateTry

\* The open attempt ends with an accepted step (Answer).
LEMMA AcceptLast ==
  ASSUME IInv, LastIs("open"),
         tries' = [tries EXCEPT ![Len(tries)].status = "accepted"]
  PROVE  Updated(Len(tries), [status |-> "accepted", emergency |-> LastTry.emergency,
                               failure |-> LastTry.failure, replaced |-> LastTry.replaced])
<1> DEFINE n == Len(tries)
           e == [status |-> "accepted", emergency |-> LastTry.emergency,
                 failure |-> LastTry.failure, replaced |-> LastTry.replaced]
<1>1. TypeOK /\ n \in 1..Len(tries) /\ tries[n] \in Attempt /\ tries \in Seq(Attempt)
  BY TriesFacts DEF IInv, TypeOK, LastIs
<1>2. e \in Attempt
  BY <1>1, AttemptFields DEF Attempt, LastTry
<1>3. tries' = [tries EXCEPT ![n] = [tries[n] EXCEPT !.status = "accepted"]]
  BY <1>1
<1>4. [tries[n] EXCEPT !.status = "accepted"] = e
  <2> DEFINE a == tries[n]
  <2>1. a = [status |-> a.status, emergency |-> a.emergency,
             failure |-> a.failure, replaced |-> a.replaced]
    BY <1>1, AttemptFields
  <2> QED
    BY <2>1 DEF LastTry
<1>5. tries' = [tries EXCEPT ![n] = e]
  BY <1>3, <1>4
<1> QED
  BY <1>1, <1>2, <1>5, UpdateTry

\* The predecessor of an accepted retry is marked (RepairSupersession, Settle).
LEMMA SupersedePrevious ==
  ASSUME IInv, Unsettled, Supersede
  PROVE  LET a == tries[Len(tries) - 1]
         IN  Updated(Len(tries) - 1, [status |-> "failed", emergency |-> a.emergency,
                                       failure |-> a.failure, replaced |-> 1])
<1> DEFINE n == Len(tries) - 1
           a == tries[n]
           e == [status |-> "failed", emergency |-> a.emergency,
                 failure |-> a.failure, replaced |-> 1]
<1>1. TypeOK /\ n \in 1..Len(tries) /\ a \in Attempt /\ tries \in Seq(Attempt)
  BY TriesFacts DEF IInv, TypeOK, LastIs, Unsettled
<1>2. e \in Attempt
  BY <1>1, AttemptFields DEF Attempt
<1>3. tries' = [tries EXCEPT ![n] = [a EXCEPT !.replaced = a.replaced + 1]]
  BY <1>1 DEF Supersede
<1>4. [a EXCEPT !.replaced = a.replaced + 1] = e
  <2>1. a = [status |-> a.status, emergency |-> a.emergency,
             failure |-> a.failure, replaced |-> a.replaced]
    BY <1>1, AttemptFields
  <2>2. a.status = "failed" /\ a.replaced = 0
    BY DEF Unsettled
  <2> QED
    BY <2>1, <2>2
<1>5. tries' = [tries EXCEPT ![n] = e]
  BY <1>3, <1>4
<1> QED
  BY <1>1, <1>2, <1>5, UpdateTry

\* The last attempt gets its end.
LEMMA LastEnds ==
  ASSUME IInv, LastIs("open"), NEW STATE e,
         Updated(Len(tries), e), e.status \in {"failed", "accepted"},
         e.emergency = LastTry.emergency, e.replaced = LastTry.replaced
  PROVE  /\ TriesInv'
         /\ tries' # <<>> /\ LastTry' = e
         /\ ~LastIs("open")'
         /\ e.status = "failed" => LastIs("failed")' /\ Prior' = tries' /\ ~Unsettled'
         /\ e.status = "accepted" => LastIs("accepted")' /\ Prior' = <<>>
<1> DEFINE n == Len(tries)
<1>1. /\ n \in 1..Len(tries) /\ Len(tries) \in Nat /\ DOMAIN tries = 1..Len(tries)
      /\ \A i \in 1..Len(tries) : tries[i] \in Attempt
  BY TriesFacts DEF IInv, LastIs
<1>2. tries' \in Seq(Attempt) /\ Len(tries') = n /\ DOMAIN tries' = 1..n
  BY <1>1 DEF Updated
<1>a. tries'[n] = e /\ \A i \in 1..n : i # n => tries'[i] = tries[i]
  BY DEF Updated
<1>3. tries' # <<>> /\ LastTry' = e
  <2>1. tries' # <<>>
    BY <1>1, <1>2, EmptySeq
  <2> QED
    BY <1>2, <1>a, <2>1 DEF LastTry
<1>4. ~LastIs("open")' /\ (e.status = "failed" => LastIs("failed")' /\ ~LastIs("accepted")')
        /\ (e.status = "accepted" => LastIs("accepted")')
  BY <1>3 DEF LastIs
<1>5. /\ e.status = "failed" => Prior' = tries' /\ ~Unsettled'
      /\ e.status = "accepted" => Prior' = <<>>
  BY <1>4 DEF Prior, Unsettled
<1>6. TriesInv'
  <2>1. TriesInv /\ LastTry = tries[n] /\ ~LastIs("accepted") /\ tries[n].replaced = 0
    <3>1. TriesInv /\ LastTry = tries[n] /\ ~LastIs("accepted")
      BY DEF IInv, LastTry, LastIs
    <3> QED
      BY <1>1, <3>1 DEF TriesInv
  <2>2. \A i \in 1..n : i < n => tries'[i].status = "failed"
    <3> SUFFICES ASSUME NEW i \in 1..n, i < n
                 PROVE  tries'[i].status = "failed"
      OBVIOUS
    <3>1. tries[i].status = "failed"
      BY <1>1, <2>1 DEF TriesInv
    <3>2. i # n
      <4>1. n \in Nat
        BY <1>1
      <4> QED
        BY <4>1
    <3> QED
      BY <1>a, <3>1, <3>2
  <2>3. \A i \in 1..n : tries'[i].replaced = 0
    <3>1. \A i \in 1..n : tries[i].replaced = 0
      BY <1>1, <2>1 DEF TriesInv
    <3> QED
      BY <1>a, <2>1, <3>1
  <2>4. \A i \in 1..n : tries'[i].emergency = tries[i].emergency
    BY <1>a, <2>1
  <2>5. \A i, j \in 1..n : tries'[i].emergency /\ tries'[j].emergency => i = j
    BY <1>1, <2>1, <2>4 DEF TriesInv
  <2>6. Len(tries') <= MaxAttempts
    BY <1>2, <2>1 DEF TriesInv
  <2> QED
    BY <1>2, <2>2, <2>3, <2>5, <2>6 DEF TriesInv
<1> QED
  BY <1>3, <1>4, <1>5, <1>6

\* The predecessor of an accepted retry is superseded.
LEMMA RetrySettled ==
  ASSUME IInv, Unsettled, Supersede
  PROVE  /\ TriesInv' /\ tries' \in Seq(Attempt)
         /\ LastIs("accepted")' /\ ~LastIs("open")' /\ Prior' = <<>> /\ ~Unsettled'
<1> DEFINE n == Len(tries) - 1
           a == tries[n]
           e == [status |-> "failed", emergency |-> a.emergency,
                 failure |-> a.failure, replaced |-> 1]
<1>1. /\ n \in 1..Len(tries) /\ Len(tries) \in Nat /\ DOMAIN tries = 1..Len(tries)
      /\ LastIs("accepted") /\ Len(tries) > 1
  BY TriesFacts DEF IInv, Unsettled
<1>0. Len(tries) \in Nat /\ Len(tries) > 1
  BY <1>1
<1>u. Updated(n, e)
  BY SupersedePrevious
<1>2. tries' \in Seq(Attempt) /\ Len(tries') = Len(tries) /\ DOMAIN tries' = 1..Len(tries)
  <2>1. tries' \in Seq(Attempt) /\ Len(tries') = Len(tries)
    BY <1>u, Zenon DEF Updated
  <2> QED
    BY <1>1, <2>1
<1>a. /\ tries'[n].status = "failed" /\ tries'[n].replaced = 1
      /\ tries'[n].emergency = tries[n].emergency
      /\ \A i \in 1..Len(tries) : i # n => tries'[i] = tries[i]
  BY <1>u DEF Updated
<1>3. tries' # <<>> /\ LastTry' = LastTry /\ LastIs("accepted")' /\ ~LastIs("open")'
  <2>1. tries' # <<>>
    BY <1>1, <1>2, EmptySeq
  <2>2. LastTry' = LastTry
    <3>1. Len(tries) \in 1..Len(tries) /\ Len(tries) # n
      BY <1>0
    <3>2. tries'[Len(tries)] = tries[Len(tries)]
      BY <1>a, <3>1
    <3> QED
      BY <1>2, <3>2 DEF LastTry
  <2> QED
    BY <1>1, <2>1, <2>2 DEF LastIs
<1>4. Prior' = <<>>
  BY <1>3 DEF Prior
<1>5. ~Unsettled'
  <2>1. tries'[Len(tries') - 1].replaced = 1
    BY <1>2, <1>a
  <2> QED
    BY <2>1 DEF Unsettled
<1>6. TriesInv'
  <2>1. TriesInv
    BY DEF IInv
  <2>2. \A i \in 1..Len(tries) : i < Len(tries) => tries'[i].status = "failed"
    <3>1. \A i \in 1..Len(tries) : i < Len(tries) => tries[i].status = "failed"
      BY <1>1, <2>1 DEF TriesInv
    <3> QED
      BY <1>a, <3>1
  <2>3. \A i \in 1..Len(tries) : i # n => tries'[i].replaced = 0
    BY <1>1, <1>a, <2>1 DEF TriesInv
  <2>4. \A i \in 1..Len(tries) : tries'[i].emergency = tries[i].emergency
    BY <1>a
  <2>5. \A i, j \in 1..Len(tries) : tries'[i].emergency /\ tries'[j].emergency => i = j
    BY <1>1, <2>1, <2>4 DEF TriesInv
  <2>6. \A i \in 1..Len(tries) :
          /\ tries'[i].replaced \in {0, 1}
          /\ tries'[i].replaced = 1 => i = n
    BY <1>a, <2>3
  <2> QED
    BY <1>1, <1>2, <1>3, <2>1, <2>2, <2>5, <2>6 DEF TriesInv
<1> QED
  BY <1>2, <1>3, <1>4, <1>5, <1>6

\* A new attempt joins the earlier ones of its step.
LEMMA TryStarts ==
  ASSUME Parameters, IInv, ~Exhausted, ~(LastWasContext /\ EmergencySpent), ~LastIs("open"),
         tries' = Append(Prior, [status |-> "open", emergency |-> LastWasContext,
                                  failure |-> NoFailure, replaced |-> 0])
  PROVE  /\ TriesInv' /\ tries' \in Seq(Attempt)
         /\ LastIs("open")' /\ ~LastIs("accepted")' /\ Prior' = tries' /\ ~Unsettled'
         /\ Len(tries') = Len(Prior) + 1
<1> DEFINE e == [status |-> "open", emergency |-> LastWasContext,
                 failure |-> NoFailure, replaced |-> 0]
           m == Len(Prior)
<1>1. e \in Attempt
  BY DEF Attempt, LastWasContext
<1>2. Prior \in Seq(Attempt) /\ m \in Nat /\ DOMAIN Prior = 1..m
  BY TriesFacts DEF IInv
<1>3. /\ tries' \in Seq(Attempt) /\ Len(tries') = m + 1 /\ DOMAIN tries' = 1..(m + 1)
      /\ tries'[m + 1] = e /\ \A i \in 1..m : tries'[i] = Prior[i]
  BY <1>1, <1>2, AppendProperties
<1>4. tries' # <<>> /\ LastTry' = e
  BY <1>2, <1>3 DEF LastTry
<1>5. LastIs("open")' /\ ~LastIs("accepted")'
  BY <1>4 DEF LastIs
<1>6. Prior' = tries' /\ ~Unsettled'
  BY <1>5 DEF Prior, Unsettled
<1>7. \A i \in 1..m : Prior[i].status = "failed" /\ Prior[i].replaced = 0
  <2>1. CASE Prior = <<>>
    BY <1>2, <2>1
  <2>2. CASE Prior # <<>>
    <3>1. Prior = tries /\ ~LastIs("accepted") /\ LastTry \in Attempt
            /\ LastTry = tries[Len(tries)] /\ TriesInv
      BY <2>2, TriesFacts DEF IInv
    <3>2. LastTry.status = "failed"
      BY <2>2, <3>1, AttemptFields DEF LastIs
    <3> QED
      BY <1>2, <3>1, <3>2 DEF TriesInv
  <2> QED
    BY <2>1, <2>2
<1>8. \A i, j \in 1..m : Prior[i].emergency /\ Prior[j].emergency => i = j
  <2>1. CASE Prior = <<>>
    BY <1>2, <2>1
  <2>2. CASE Prior # <<>>
    BY <1>2, <2>2, TriesFacts DEF IInv, TriesInv
  <2> QED
    BY <2>1, <2>2
<1>9. e.emergency => \A i \in 1..m : ~Prior[i].emergency
  BY <1>2 DEF EmergencySpent
<1>10. m + 1 <= MaxAttempts
  BY <1>2 DEF Parameters, Exhausted
<1>11. \A i, j \in 1..(m + 1) : tries'[i].emergency /\ tries'[j].emergency => i = j
  <2> SUFFICES ASSUME NEW i \in 1..(m + 1), NEW j \in 1..(m + 1),
                      tries'[i].emergency, tries'[j].emergency
               PROVE  i = j
    OBVIOUS
  <2>1. CASE i = m + 1 /\ j # m + 1
    BY <1>2, <1>3, <1>9, <2>1
  <2>2. CASE j = m + 1 /\ i # m + 1
    BY <1>2, <1>3, <1>9, <2>2
  <2>3. CASE i # m + 1 /\ j # m + 1
    BY <1>2, <1>3, <1>8, <2>3
  <2> QED
    BY <2>1, <2>2, <2>3
<1>12. \A i \in 1..(m + 1) : (i < m + 1 => tries'[i].status = "failed") /\ tries'[i].replaced = 0
  BY <1>2, <1>3, <1>7
<1>13. TriesInv'
  BY <1>3, <1>10, <1>11, <1>12 DEF TriesInv
<1> QED
  BY <1>3, <1>5, <1>6, <1>13

-----------------------------------------------------------------------------
(* The invariant holds initially and every step preserves it. *)

\* The invariant holds of an empty session that is about to be recovered.
THEOREM InitIInv ==
  ASSUME Parameters PROVE Init => IInv
<1> SUFFICES ASSUME Init PROVE IInv
  OBVIOUS
<1>1. tries = <<>> /\ steps = <<>> /\ Len(tries) = 0 /\ Len(steps) = 0
        /\ DOMAIN tries = {} /\ LastStep = "none" /\ Prior = <<>>
        /\ ~LastIs("open") /\ ~LastIs("accepted") /\ ~LastIs("failed") /\ ~Unsettled
  BY DEF Init, LastStep, Prior, LastIs, Unsettled
<1>2. TypeOK
  <2>1. <<>> \in Seq(Attempt) /\ <<>> \in Seq({"tool", "stop"})
    OBVIOUS
  <2>2. 0 \in 0..RetryCap /\ 0 \in 0..MaxTurns /\ 0 \in 0..MaxKills
    BY DEF Parameters
  <2> QED
    BY <2>1, <2>2 DEF Init, TypeOK
<1>3. TriesInv
  BY <1>1 DEF TriesInv, Parameters
<1>4. StepsInv
  BY <1>1 DEF Init, StepsInv
<1>5. PlaceInv
  BY <1>1 DEF Init, PlaceInv, Gone
<1>6. ControlInv
  BY <1>1 DEF Init, ControlInv, Gone
<1> QED
  BY <1>2, <1>3, <1>4, <1>5, <1>6 DEF IInv

\* What is read off tries does not change with the rest.
LEMMA KeptTries ==
  ASSUME tries' = tries
  PROVE  /\ Prior' = Prior /\ Unsettled' = Unsettled
         /\ LastIs("open")' = LastIs("open")
         /\ LastIs("failed")' = LastIs("failed")
         /\ LastIs("accepted")' = LastIs("accepted")
         /\ TriesInv => TriesInv'
BY DEF Prior, Unsettled, LastIs, LastTry, TriesInv

\* No step of the program or of its environment changes the domain of the
\* variables of the process.
LEMMA ProcessTypes ==
  ASSUME Parameters, TypeOK, Next
  PROVE  /\ at' \in {"down", "recover", "ready", "opened", "drive", "step", "call", "failed",
                     "answered", "batch", "poisoned"}
         /\ cancelled' \in BOOLEAN /\ poisoned' \in BOOLEAN /\ spent' \in 0..RetryCap
         /\ unavailable' \in BOOLEAN /\ credential' \in BOOLEAN
         /\ turns' \in 0..MaxTurns /\ kills' \in 0..MaxKills
<1> USE DEF TypeOK, Go, Close, Refuse, flags, outside
<1>1. CASE Recovery
  BY <1>1 DEF Recovery, LoseAttempt, RepairSupersession, ClassifyCalls, RepairCompletion,
              RepairCommit, RepairStart, Recovered, InstallCompactor
<1>2. CASE RunTurn \/ StartTurn \/ ContinueTurn \/ ContinueRefused \/ Exit
  BY <1>2 DEF RunTurn, StartTurn, ContinueTurn, ContinueRefused, Exit, Parameters
<1>10. CASE SetCompactor
  BY <1>10 DEF SetCompactor
<1>0. 0 \in 0..RetryCap
  BY DEF Parameters
<1>3. CASE Open \/ CommandFails \/ Cancel \/ ChangeCredential
  BY <1>0, <1>3 DEF Open, CommandFails, Cancel, ChangeCredential
<1>9. CASE Kill
  BY <1>9 DEF Kill, Parameters
<1>4. CASE Drive
  BY <1>0, <1>4 DEF Drive, Abort, ResumeBatch, Refuse, Commit, StepLimit, RunStep
<1>5. CASE Provider
  BY <1>5 DEF Provider, Answer, ReuseCallId, AttemptFails
<1>6. CASE CompactionUnavailable \/ EndStep \/ StartAttempt \/ EmergencyResend \/ Settle
  BY <1>6 DEF CompactionUnavailable, EndStep, StartAttempt, EmergencyResend, Settle, Followed
<1>7. CASE \E delay \in 1..RetryCap : Retry(delay) \/ GiveUp(delay)
  BY <1>7 DEF Retry, GiveUp, Parameters
<1>8. CASE Batch
  BY <1>8 DEF Batch, RunCalls, FinishBatch, InterruptPoisoned
<1> QED
  BY <1>1, <1>2, <1>3, <1>4, <1>5, <1>6, <1>7, <1>8, <1>9, <1>10 DEF Next, Step

\* An action that leaves the steps and the attempts alone keeps what is read off them.
Quiet == steps' = steps /\ tries' = tries

\* Steps and attempts unchanged, everything read off them is.
LEMMA QuietFacts ==
  ASSUME IInv, Quiet
  PROVE  /\ Prior' = Prior /\ Unsettled' = Unsettled /\ LastStep' = LastStep
         /\ LastIs("open")' = LastIs("open")
         /\ LastIs("failed")' = LastIs("failed")
         /\ LastIs("accepted")' = LastIs("accepted")
         /\ (phase' # "none" /\ batch' = batch /\ Wanted) => Wanted'
         /\ TriesInv'
BY KeptTries DEF IInv, Quiet, LastStep, Wanted

\* The process's variables stay typed in every step, so the log's decide TypeOK.
LEMMA Typed ==
  ASSUME Parameters, IInv, Next,
         phase' \in {"none", "accepted", "started", "committed", "interrupted"},
         batch' \in {"none", "started", "partial", "full", "complete"},
         refused' \subseteq Refusals,
         steps' \in Seq({"tool", "stop"}), tries' \in Seq(Attempt)
  PROVE  TypeOK'
BY ProcessTypes DEF IInv, TypeOK

\* Typed, for a quiet step.
LEMMA QuietTypes ==
  ASSUME Parameters, IInv, Next, Quiet,
         phase' \in {"none", "accepted", "started", "committed", "interrupted"},
         batch' \in {"none", "started", "partial", "full", "complete"},
         refused' \subseteq Refusals
  PROVE  TypeOK'
<1>1. steps' \in Seq({"tool", "stop"}) /\ tries' \in Seq(Attempt)
  BY DEF Quiet, IInv, TypeOK
<1> QED
  BY <1>1, Typed

\* The repairs of run_recovery keep the invariant.
LEMMA RecoveryStep ==
  ASSUME Parameters, IInv, Recovery
  PROVE  IInv'
<1> USE DEF Go, flags, outside
<1>n. Next
  BY DEF Next
<1>t. TypeOK /\ TriesInv /\ StepsInv /\ PlaceInv /\ ControlInv
  BY DEF IInv
<1>1. CASE LoseAttempt
  <2> DEFINE e == [status |-> "failed", emergency |-> LastTry.emergency,
                   failure |-> LostFailure, replaced |-> LastTry.replaced]
  <2>1. LostFailure \in Failure
    BY DEF LostFailure, Failure, Code
  <2>2. LastIs("open") /\ Updated(Len(tries), e) /\ tries' \in Seq(Attempt)
    BY <1>1, <2>1, FailLast DEF LoseAttempt, Updated
  <2>3. /\ TriesInv' /\ ~LastIs("open")' /\ LastIs("failed")' /\ ~LastIs("accepted")'
        /\ tries' # <<>> /\ Prior' = tries' /\ ~Unsettled'
    BY <2>2, LastEnds DEF LastIs
  <2>4. Prior # <<>> /\ LastStep' = LastStep
    BY <1>1, <2>2 DEF LoseAttempt, LastStep, Prior, LastIs
  <2>5. TypeOK'
    BY <1>1, <1>n, <1>t, <2>2, Typed DEF LoseAttempt, TypeOK
  <2>6. StepsInv'
    BY <1>1, <1>t, <2>3, <2>4 DEF LoseAttempt, StepsInv, Wanted
  <2>7. PlaceInv'
    BY <1>1, <2>3 DEF LoseAttempt, PlaceInv, Gone
  <2>8. ControlInv'
    BY <1>1 DEF LoseAttempt, ControlInv, Gone
  <2> QED
    BY <2>3, <2>5, <2>6, <2>7, <2>8 DEF IInv
<1>2. CASE RepairSupersession
  <2>1. /\ TriesInv' /\ tries' \in Seq(Attempt)
        /\ LastIs("accepted")' /\ ~LastIs("open")' /\ Prior' = <<>> /\ ~Unsettled'
    BY <1>2, RetrySettled DEF RepairSupersession
  <2>2. LastIs("accepted") /\ LastStep' = LastStep
    BY <1>2 DEF RepairSupersession, Unsettled, LastStep
  <2>3. TypeOK'
    BY <1>2, <1>n, <1>t, <2>1, Typed DEF RepairSupersession, TypeOK
  <2>4. tries # <<>>
    BY <2>2 DEF LastIs
  <2>5. StepsInv'
    BY <1>2, <1>t, <2>1, <2>2, <2>4 DEF RepairSupersession, StepsInv
  <2>6. PlaceInv'
    BY <1>2, <2>1 DEF RepairSupersession, PlaceInv, Gone
  <2>7. ControlInv'
    BY <1>2 DEF RepairSupersession, ControlInv, Gone
  <2> QED
    BY <2>1, <2>3, <2>5, <2>6, <2>7 DEF IInv
<1>3. CASE ClassifyCalls \/ RepairCompletion \/ RepairCommit \/ RepairStart \/ Recovered
  <2>1. Quiet
    BY <1>3 DEF ClassifyCalls, RepairCompletion, RepairCommit, RepairStart, Recovered,
                Quiet, log
  <2>2. TypeOK'
    BY <1>3, <1>n, <1>t, <2>1, QuietTypes
    DEF ClassifyCalls, RepairCompletion, RepairCommit, RepairStart, Recovered, TypeOK, log
  <2>3. StepsInv'
    BY <1>3, <1>t, <2>1, QuietFacts
    DEF ClassifyCalls, RepairCompletion, RepairCommit, RepairStart, Recovered,
        AttemptsRepaired, BatchRepaired, StepsInv, Wanted, Quiet, log
  <2>4. PlaceInv'
    BY <1>3, <1>t, <2>1, QuietFacts
    DEF ClassifyCalls, RepairCompletion, RepairCommit, RepairStart, Recovered,
        AttemptsRepaired, BatchRepaired, PlaceInv, Gone, Active, log
  <2>5. ControlInv'
    BY <1>3 DEF ClassifyCalls, RepairCompletion, RepairCommit, RepairStart, Recovered,
                ControlInv, Gone
  <2> QED
    BY <2>1, <2>2, <2>3, <2>4, <2>5, QuietFacts DEF IInv
<1> QED
  BY <1>1, <1>2, <1>3 DEF Recovery

\* So do the commands, cancellation and the death of the process.
LEMMA CommandStep ==
  ASSUME Parameters, IInv, Next, Commands
  PROVE  IInv'
<1> USE DEF Go, Close, Refuse, log, flags, outside
<1>t. TypeOK /\ TriesInv /\ StepsInv /\ PlaceInv /\ ControlInv
  BY DEF IInv
<1>1. Quiet
  BY DEF Commands, StartTurn, ContinueTurn, ContinueRefused, SetCompactor, Exit, Open,
      CommandFails, Cancel, ChangeCredential, Kill, Quiet
<1>2. TypeOK'
  BY <1>t, <1>1, QuietTypes DEF Commands, StartTurn, ContinueTurn, ContinueRefused, SetCompactor, Exit, Open,
      CommandFails, Cancel, ChangeCredential, Kill, TypeOK
<1>3. StepsInv'
  BY <1>t, <1>1, QuietFacts
  DEF Commands, StartTurn, ContinueTurn, ContinueRefused, SetCompactor, Exit, Open,
      CommandFails, Cancel, ChangeCredential, Kill, StepsInv, Wanted, Quiet
<1>4. PlaceInv'
  BY <1>t, <1>1, QuietFacts, StepsFacts
  DEF Commands, StartTurn, ContinueTurn, ContinueRefused, SetCompactor, Exit, Open,
      CommandFails, Cancel, ChangeCredential, Kill, PlaceInv, ControlInv, Active, Gone
<1>5. ControlInv'
  BY <1>t, <1>1, QuietFacts, StepsFacts
  DEF Commands, StartTurn, ContinueTurn, ContinueRefused, SetCompactor, Exit, Open,
      CommandFails, Cancel, ChangeCredential, Kill, StepsInv, PlaceInv, ControlInv, Active, Wanted, Gone, Quiet
<1> QED
  BY <1>1, <1>2, <1>3, <1>4, <1>5, QuietFacts DEF IInv

\* A resumed batch is met by the loop with every started call classified.
TakeUp ==
  /\ Driving /\ LastStep = "tool" /\ batch \in {"none", "partial", "full"}
  /\ UNCHANGED log /\ Go("batch")

LEMMA ResumeTakesUp ==
  ASSUME IInv, ResumeBatch
  PROVE  TakeUp
<1>1. TypeOK /\ PlaceInv
  BY DEF IInv
<1>2. batch # "started"
  BY <1>1 DEF ResumeBatch, Driving, PlaceInv, Gone
<1> QED
  BY <1>1, <1>2 DEF ResumeBatch, TakeUp, TypeOK

\* So do the decisions of drive.
LEMMA DriveStep ==
  ASSUME Parameters, IInv, Next, Abort \/ TakeUp \/ Commit \/ StepLimit \/ RunStep
  PROVE  IInv'
<1> USE DEF Go, Close, Refuse, log, flags, outside
<1>t. TypeOK /\ TriesInv /\ StepsInv /\ PlaceInv /\ ControlInv
  BY DEF IInv
<1>1. Quiet
  BY DEF Abort, TakeUp, Commit, StepLimit, RunStep, Quiet
<1>2. TypeOK'
  BY <1>t, <1>1, QuietTypes DEF Abort, TakeUp, Commit, StepLimit, RunStep, TypeOK
<1>3. StepsInv'
  BY <1>t, <1>1, QuietFacts
  DEF Abort, TakeUp, Commit, StepLimit, RunStep, Driving, BatchOver, StepsInv, Wanted, Quiet
<1>4. PlaceInv'
  BY <1>t, <1>1, QuietFacts, StepsFacts
  DEF Abort, TakeUp, Commit, StepLimit, RunStep, Driving, BatchOver, PlaceInv, ControlInv, Active, Gone
<1>5. ControlInv'
  BY <1>t, <1>1, QuietFacts, StepsFacts
  DEF Abort, TakeUp, Commit, StepLimit, RunStep, Driving, BatchOver, StepsInv, PlaceInv, ControlInv, Active, Wanted, Gone, Quiet
<1> QED
  BY <1>1, <1>2, <1>3, <1>4, <1>5, QuietFacts DEF IInv

\* So does the tool batch.
LEMMA BatchStep ==
  ASSUME Parameters, IInv, Next, RunCalls \/ FinishBatch \/ InterruptPoisoned
  PROVE  IInv'
<1> USE DEF Go, Close, Refuse, log, flags, outside
<1>t. TypeOK /\ TriesInv /\ StepsInv /\ PlaceInv /\ ControlInv
  BY DEF IInv
<1>1. Quiet
  BY DEF RunCalls, FinishBatch, InterruptPoisoned, Quiet
<1>2. TypeOK'
  BY <1>t, <1>1, QuietTypes DEF RunCalls, FinishBatch, InterruptPoisoned, TypeOK
<1>3. StepsInv'
  BY <1>t, <1>1, QuietFacts
  DEF RunCalls, FinishBatch, InterruptPoisoned, StepsInv, ControlInv, Gone, Wanted, Quiet
<1>4. PlaceInv'
  BY <1>t, <1>1, QuietFacts, StepsFacts
  DEF RunCalls, FinishBatch, InterruptPoisoned, PlaceInv, ControlInv, Active, Gone
<1>5. ControlInv'
  BY <1>t, <1>1, QuietFacts, StepsFacts
  DEF RunCalls, FinishBatch, InterruptPoisoned, StepsInv, PlaceInv, ControlInv, Active, Wanted, Gone, Quiet
<1> QED
  BY <1>1, <1>2, <1>3, <1>4, <1>5, QuietFacts DEF IInv

\* So do the ends of a step and the decisions after a failed attempt.
LEMMA ResendStep ==
  ASSUME Parameters, IInv, Next, CompactionUnavailable \/ EndStep \/ EmergencyResend \/ (\E delay \in 1..RetryCap : Retry(delay) \/ GiveUp(delay))
  PROVE  IInv'
<1> USE DEF Go, Close, Refuse, log, flags, outside
<1>t. TypeOK /\ TriesInv /\ StepsInv /\ PlaceInv /\ ControlInv
  BY DEF IInv
<1>1. Quiet
  BY DEF CompactionUnavailable, EndStep, EmergencyResend, Retry, GiveUp, Quiet
<1>2. TypeOK'
  BY <1>t, <1>1, QuietTypes DEF CompactionUnavailable, EndStep, EmergencyResend, Retry, GiveUp, TypeOK
<1>3. StepsInv'
  BY <1>t, <1>1, QuietFacts
  DEF CompactionUnavailable, EndStep, EmergencyResend, Retry, GiveUp, Stepping, StepsInv, Wanted, Quiet
<1>4. PlaceInv'
  BY <1>t, <1>1, QuietFacts, StepsFacts
  DEF CompactionUnavailable, EndStep, EmergencyResend, Retry, GiveUp, Stepping, PlaceInv, ControlInv, Active, Gone
<1>6. at = "failed" => Wanted
  <2>1. LastIs("failed") => Prior # <<>>
    BY DEF LastIs, Prior
  <2> QED
    BY <1>t, <2>1 DEF StepsInv, ControlInv
<1>7. at \in {"step", "failed"} => Wanted
  BY <1>t, <1>6 DEF ControlInv
<1>5. ControlInv'
  BY <1>t, <1>1, <1>7, QuietFacts, StepsFacts
  DEF CompactionUnavailable, EndStep, EmergencyResend, Retry, GiveUp, Stepping, PlaceInv, ControlInv, Active, Wanted, Gone, Quiet
<1> QED
  BY <1>1, <1>2, <1>3, <1>4, <1>5, QuietFacts DEF IInv

\* So does a new turn, which forgets the steps and attempts of the last.
LEMMA RunTurnStep ==
  ASSUME Parameters, IInv, Next, RunTurn
  PROVE  IInv'
<1> USE DEF RunTurn, flags, outside
<1>1. /\ LastStep' = "none" /\ Prior' = <<>> /\ ~Unsettled'
      /\ ~LastIs("open")' /\ ~LastIs("failed")' /\ ~LastIs("accepted")'
  BY DEF LastStep, Prior, Unsettled, LastIs
<1>2. TypeOK'
  <2>1. <<>> \in Seq(Attempt) /\ <<>> \in Seq({"tool", "stop"})
    OBVIOUS
  <2> QED
    BY <2>1, Typed DEF IInv, TypeOK
<1>3. TriesInv'
  <2>1. tries' = <<>> /\ Len(tries') = 0 /\ DOMAIN tries' = {}
    OBVIOUS
  <2> QED
    BY <2>1 DEF TriesInv, Parameters
<1>4. StepsInv'
  BY <1>1 DEF IInv, StepsInv
<1>5. PlaceInv'
  BY <1>1 DEF PlaceInv
<1>6. ControlInv'
  BY DEF ControlInv, Gone
<1> QED
  BY <1>2, <1>3, <1>4, <1>5, <1>6 DEF IInv

\* Where the loop may send a request, the step is wanted and its attempts are over.
LEMMA SteppingFacts ==
  ASSUME IInv, Stepping
  PROVE  /\ Wanted /\ ~LastIs("open") /\ phase = "started"
         /\ Admission \in {"ok", "E_PROVIDER_RETRY_AFTER_EMISSION"}
<1>1. Wanted /\ ~LastIs("open") /\ phase = "started"
  BY DEF IInv, Stepping, ControlInv, PlaceInv, Gone
<1>2. ~(LastStep = "tool" /\ batch # "complete")
  BY <1>1 DEF Wanted
<1>3. ~(Prior # <<>> /\ LastTry.status = "open")
  BY <1>1 DEF Prior, LastIs
<1> QED
  BY <1>1, <1>2, <1>3 DEF Admission

\* So does a request, whether the log admits it or refuses it.
LEMMA StartAttemptStep ==
  ASSUME Parameters, IInv, Next, StartAttempt
  PROVE  IInv'
<1> USE DEF Go, Refuse, log, flags, outside
<1>t. /\ TypeOK /\ TriesInv /\ StepsInv /\ PlaceInv /\ ControlInv
      /\ Stepping /\ at = "step" /\ Wanted /\ ~LastIs("open") /\ phase = "started"
      /\ Admission \in {"ok", "E_PROVIDER_RETRY_AFTER_EMISSION"}
  BY SteppingFacts DEF IInv, StartAttempt, Stepping
<1>1. CASE Admission = "ok"
  <2>1. /\ TriesInv' /\ tries' \in Seq(Attempt)
        /\ LastIs("open")' /\ ~LastIs("accepted")' /\ ~Unsettled'
    BY <1>1, <1>t, TryStarts DEF StartAttempt
  <2>2. steps' = steps /\ phase' = phase /\ batch' = batch /\ refused' = refused /\ at' = "call"
    BY <1>1 DEF StartAttempt
  <2>3. LastStep' = LastStep /\ Wanted'
    BY <1>t, <2>2 DEF LastStep, Wanted
  <2>4. TypeOK'
    BY <1>t, <2>1, <2>2, Typed DEF TypeOK
  <2>5. StepsInv'
    BY <1>t, <2>1, <2>2, <2>3 DEF StepsInv
  <2>6. PlaceInv'
    BY <1>t, <2>1, <2>2, <2>3 DEF PlaceInv, Wanted, Gone
  <2>7. ControlInv'
    BY <1>t, <2>1, <2>2 DEF ControlInv, Gone
  <2> QED
    BY <2>1, <2>4, <2>5, <2>6, <2>7 DEF IInv
<1>2. CASE Admission # "ok"
  <2>1. Quiet /\ phase' = phase /\ batch' = batch /\ at' = "down"
          /\ refused' = refused \cup {"E_PROVIDER_RETRY_AFTER_EMISSION"}
    BY <1>2, <1>t DEF StartAttempt, Quiet
  <2>2. TypeOK'
    <3>1. "E_PROVIDER_RETRY_AFTER_EMISSION" \in Refusals /\ refused \subseteq Refusals
      BY <1>t DEF TypeOK, Refusals
    <3>2. refused' \subseteq Refusals
      BY <2>1, <3>1
    <3>3. /\ phase' \in {"none", "accepted", "started", "committed", "interrupted"}
          /\ batch' \in {"none", "started", "partial", "full", "complete"}
      BY <1>t, <2>1 DEF TypeOK
    <3> QED
      BY <2>1, <3>2, <3>3, QuietTypes
  <2>3. StepsInv'
    BY <1>t, <2>1, QuietFacts DEF StepsInv, Wanted, Quiet
  <2>4. PlaceInv' /\ ControlInv'
    BY <2>1 DEF PlaceInv, ControlInv, Gone
  <2> QED
    BY <2>1, <2>2, <2>3, <2>4, QuietFacts DEF IInv
<1> QED
  BY <1>1, <1>2

\* So does the supersession that follows an accepted retry.
LEMMA SettleStep ==
  ASSUME Parameters, IInv, Next, Settle
  PROVE  IInv'
<1> USE DEF Go, flags, outside
<1>t. /\ TypeOK /\ TriesInv /\ StepsInv /\ PlaceInv /\ ControlInv
      /\ at = "answered" /\ phase = "started" /\ LastIs("accepted") /\ batch = "none"
      /\ steps # <<>> /\ Prior = <<>>
  BY DEF IInv, Settle, ControlInv, StepsInv, Gone, Prior
<1>1. /\ TriesInv' /\ tries' \in Seq(Attempt)
      /\ LastIs("accepted")' /\ ~LastIs("open")' /\ Prior' = <<>> /\ ~Unsettled'
  <2>1. CASE Unsettled
    BY <2>1, RetrySettled DEF Settle
  <2>2. CASE ~Unsettled
    <3>1. tries' = tries
      BY <2>2 DEF Settle
    <3>2. ~LastIs("open")
      BY <1>t DEF LastIs
    <3> QED
      BY <1>t, <2>2, <3>1, <3>2, KeptTries DEF TypeOK
  <2> QED
    BY <2>1, <2>2
<1>2. phase' = phase /\ steps' = steps /\ batch' = batch /\ refused' = refused
        /\ at' = Followed /\ LastStep' = LastStep
  BY DEF Settle, LastStep
<1>3. TypeOK'
  BY <1>t, <1>1, <1>2, Typed DEF TypeOK
<1>4. StepsInv'
  BY <1>t, <1>1, <1>2 DEF StepsInv
<1>5. PlaceInv'
  BY <1>t, <1>1, <1>2 DEF PlaceInv, Followed, Gone
<1>6. ControlInv'
  BY <1>t, <1>1, <1>2 DEF ControlInv, Followed, Gone
<1> QED
  BY <1>1, <1>3, <1>4, <1>5, <1>6 DEF IInv

\* So does an accepted step.
LEMMA AnswerStep ==
  ASSUME Parameters, IInv, Next, NEW finish \in {"tool", "stop"}, Answer(finish)
  PROVE  IInv'
<1> USE DEF Go, flags, outside
<1> DEFINE e == [status |-> "accepted", emergency |-> LastTry.emergency,
                 failure |-> LastTry.failure, replaced |-> LastTry.replaced]
<1>t. /\ TypeOK /\ TriesInv /\ StepsInv /\ PlaceInv /\ ControlInv
      /\ at = "call" /\ phase = "started" /\ LastIs("open")
  BY DEF IInv, Answer, ControlInv, Gone
<1>1. /\ TriesInv' /\ tries' \in Seq(Attempt)
      /\ LastIs("accepted")' /\ ~LastIs("open")' /\ Prior' = <<>>
  <2>1. Updated(Len(tries), e)
    BY <1>t, AcceptLast DEF Answer
  <2>2. tries' \in Seq(Attempt)
    BY <2>1, Zenon DEF Updated
  <2> QED
    BY <1>t, <2>1, <2>2, LastEnds
<1>2. steps' \in Seq({"tool", "stop"}) /\ steps' # <<>> /\ LastStep' = finish
  BY <1>t, AppendedStep DEF Answer
<1>3. phase' = phase /\ batch' = "none" /\ refused' = refused /\ at' = "answered"
  BY DEF Answer
<1>4. TypeOK'
  BY <1>t, <1>1, <1>2, <1>3, Typed DEF TypeOK
<1>5. StepsInv'
  BY <1>t, <1>1, <1>2, <1>3 DEF StepsInv
<1>6. PlaceInv'
  BY <1>t, <1>1, <1>3 DEF PlaceInv
<1>7. ControlInv'
  BY <1>t, <1>1, <1>3 DEF ControlInv
<1> QED
  BY <1>1, <1>4, <1>5, <1>6, <1>7 DEF IInv

\* So does a failed attempt.
LEMMA AttemptFailsStep ==
  ASSUME Parameters, IInv, Next, NEW f \in Failure, AttemptFails(f)
  PROVE  IInv'
<1> USE DEF Go, flags, outside
<1> DEFINE e == [status |-> "failed", emergency |-> LastTry.emergency,
                 failure |-> f, replaced |-> LastTry.replaced]
<1>t. /\ TypeOK /\ TriesInv /\ StepsInv /\ PlaceInv /\ ControlInv
      /\ at = "call" /\ phase = "started" /\ LastIs("open") /\ Wanted
  <2>1. at = "call" /\ phase = "started" /\ LastIs("open")
    BY DEF IInv, AttemptFails, ControlInv, Gone
  <2>2. Prior # <<>>
    BY <2>1 DEF LastIs, Prior
  <2> QED
    BY <2>1, <2>2 DEF IInv, StepsInv
<1>1. /\ TriesInv' /\ tries' \in Seq(Attempt) /\ LastIs("failed")'
      /\ ~LastIs("accepted")' /\ ~LastIs("open")' /\ ~Unsettled'
  <2>1. Updated(Len(tries), e)
    BY <1>t, FailLast DEF AttemptFails
  <2>2. tries' \in Seq(Attempt)
    BY <2>1, Zenon DEF Updated
  <2> QED
    BY <1>t, <2>1, <2>2, LastEnds DEF LastIs
<1>2. /\ phase' = phase /\ steps' = steps /\ batch' = batch /\ refused' = refused
      /\ at' = "failed" /\ LastStep' = LastStep
  BY DEF AttemptFails, LastStep
<1>3. TypeOK'
  BY <1>t, <1>1, <1>2, Typed DEF TypeOK
<1>4. StepsInv'
  BY <1>t, <1>1, <1>2 DEF StepsInv, Wanted
<1>5. PlaceInv'
  BY <1>t, <1>1, <1>2 DEF PlaceInv, Wanted, Gone
<1>6. ControlInv'
  BY <1>t, <1>1, <1>2 DEF ControlInv
<1> QED
  BY <1>1, <1>3, <1>4, <1>5, <1>6 DEF IInv

\* The log is offered a call id that an earlier step used.
LEMMA RefusalStep ==
  ASSUME Parameters, IInv, Next, ReuseCallId
  PROVE  IInv'
<1> USE DEF Refuse, log, flags, outside
<1>t. TypeOK /\ TriesInv /\ StepsInv /\ PlaceInv /\ ControlInv
  BY DEF IInv
<1>2. Quiet /\ phase' = phase /\ batch' = batch /\ at' = "down"
        /\ refused' = refused \cup {"E_TOOL_CALL_ID_REUSED"}
  BY DEF ReuseCallId, Quiet
<1>3. TypeOK'
  <2>1. "E_TOOL_CALL_ID_REUSED" \in Refusals /\ refused \subseteq Refusals
    BY <1>t DEF TypeOK, Refusals
  <2>3. refused' \subseteq Refusals
    BY <1>2, <2>1
  <2>2. /\ phase' \in {"none", "accepted", "started", "committed", "interrupted"}
        /\ batch' \in {"none", "started", "partial", "full", "complete"}
    BY <1>t, <1>2 DEF TypeOK
  <2> QED
    BY <1>2, <2>2, <2>3, QuietTypes
<1>4. StepsInv'
  BY <1>t, <1>2, QuietFacts DEF StepsInv, Wanted, Quiet
<1>5. PlaceInv' /\ ControlInv'
  BY <1>2 DEF PlaceInv, ControlInv, Gone
<1> QED
  BY <1>2, <1>3, <1>4, <1>5, QuietFacts DEF IInv

\* Every step of the system preserves the invariant.
THEOREM StepIInv ==
  ASSUME Parameters PROVE IInv /\ [Next]_vars => IInv'
<1> SUFFICES ASSUME IInv, [Next]_vars PROVE IInv'
  OBVIOUS
<1>1. CASE Next
  <2>1. CASE Recovery
    BY <2>1, RecoveryStep
  <2>2. CASE RunTurn
    BY <1>1, <2>2, RunTurnStep
  <2>3. CASE Commands
    BY <1>1, <2>3, CommandStep
  <2>4. CASE Drive
    BY <1>1, <2>4, DriveStep, ResumeTakesUp DEF Drive
  <2>5. CASE Provider
    BY <1>1, <2>5, AnswerStep, AttemptFailsStep, RefusalStep DEF Provider
  <2>6. CASE Step
    BY <1>1, <2>6, ResendStep, StartAttemptStep, SettleStep DEF Step
  <2>7. CASE Batch
    BY <1>1, <2>7, BatchStep DEF Batch
  <2> QED
    BY <1>1, <2>1, <2>2, <2>3, <2>4, <2>5, <2>6, <2>7 DEF Next, Commands
<1>2. CASE UNCHANGED vars
  <2>1. Quiet
    BY <1>2 DEF vars, log, Quiet
  <2>2. TypeOK'
    BY <1>2 DEF IInv, TypeOK, vars, log, flags, outside
  <2>3. StepsInv'
    BY <1>2, <2>1, QuietFacts DEF IInv, StepsInv, Wanted, Quiet, vars, log, flags, outside
  <2>4. PlaceInv'
    BY <1>2, <2>1, QuietFacts DEF IInv, PlaceInv, vars, log, flags, outside
  <2>5. ControlInv'
    BY <1>2, <2>1, QuietFacts
    DEF IInv, ControlInv, Wanted, Quiet, vars, log, flags, outside
  <2> QED
    BY <2>1, <2>2, <2>3, <2>4, <2>5, QuietFacts DEF IInv
<1> QED
  BY <1>1, <1>2

-----------------------------------------------------------------------------
(* What follows of every behaviour. *)

\* The invariant holds in every state of every behaviour of the turn loop.
THEOREM SpecIInv ==
  ASSUME Parameters PROVE Spec => []IInv
BY InitIInv, StepIInv, PTL DEF Spec

\* Every variable of the turn loop stays in its domain.
THEOREM SpecTypeOK ==
  ASSUME Parameters PROVE Spec => []TypeOK
<1>1. IInv => TypeOK
  BY DEF IInv
<1> QED
  BY <1>1, SpecIInv, PTL

\* However many processes take a step up, turn.max_attempts bounds the requests sent
\* for it, and the emergency resend after a context overflow is sent once.
THEOREM SpecSendsAreBounded ==
  ASSUME Parameters PROVE Spec => []SendsAreBounded
<1>1. IInv => SendsAreBounded
  BY DEF IInv, TriesInv, SendsAreBounded
<1> QED
  BY <1>1, SpecIInv, PTL

\* A failed attempt that was retried is superseded once, by the loop or by the
\* recovery, and before the turn goes on.
THEOREM SpecSupersededOnce ==
  ASSUME Parameters PROVE Spec => []SupersededOnce
<1>1. IInv => SupersededOnce
  <2> SUFFICES ASSUME IInv PROVE SupersededOnce
    OBVIOUS
  <2>1. Len(tries) \in Nat /\ DOMAIN tries = 1..Len(tries) /\ TriesInv /\ PlaceInv
    BY TriesFacts DEF IInv
  <2>2. \A i \in DOMAIN tries : tries[i].replaced <= 1
    BY <2>1 DEF TriesInv
  <2>3. \A i \in DOMAIN tries : tries[i].replaced = 1 =>
          LastIs("accepted") /\ i = Len(tries) - 1 /\ tries[i].status = "failed"
    BY <2>1 DEF TriesInv
  <2>4. at \notin {"down", "recover", "answered"} => ~Unsettled
    BY <2>1 DEF PlaceInv, Gone
  <2> QED
    BY <2>2, <2>3, <2>4 DEF SupersededOnce
<1> QED
  BY <1>1, SpecIInv, PTL

\* When the recovery hands the session over, every unfinished piece of the dead
\* process that the loop could not take up has been finished.
THEOREM SpecRecoveredIsSettled ==
  ASSUME Parameters PROVE Spec => []RecoveredIsSettled
<1>1. IInv => RecoveredIsSettled
  BY DEF IInv, PlaceInv, Gone, Active, RecoveredIsSettled
<1> QED
  BY <1>1, SpecIInv, PTL

\* The log refuses nothing the loop offers it, but a reused call id and the retry of
\* an attempt that had emitted.
THEOREM SpecOnlyKnownRefusals ==
  ASSUME Parameters PROVE Spec => []OnlyKnownRefusals
<1>1. IInv => OnlyKnownRefusals
  BY DEF IInv, StepsInv, OnlyKnownRefusals
<1> QED
  BY <1>1, SpecIInv, PTL

\* The steps that end a turn, and the two that interrupt one that wants no step.
Interrupts ==
  \/ Abort \/ StepLimit \/ CompactionUnavailable \/ EndStep \/ InterruptPoisoned
  \/ \E delay \in 1..RetryCap : GiveUp(delay)

\* Only the loop interrupts a turn, in one of six ways.
LEMMA WhoInterrupts ==
  ASSUME IInv, Next, phase' = "interrupted", phase # "interrupted"
  PROVE  Interrupts
<1> USE DEF log, Go, Close, Refuse
<1>1. ~Recovery /\ ~RunTurn /\ ~Commands
  BY DEF Recovery, LoseAttempt, RepairSupersession, ClassifyCalls, RepairCompletion,
         RepairCommit, RepairStart, Recovered, RunTurn, Commands, StartTurn, ContinueTurn,
         ContinueRefused, SetCompactor, Exit, Open, CommandFails, Cancel, ChangeCredential, Kill
<1>2. ~Provider
  BY DEF Provider, Answer, ReuseCallId, AttemptFails
<1>3. Drive => Interrupts
  BY DEF Drive, ResumeBatch, Commit, RunStep, Interrupts
<1>4. Batch => Interrupts
  BY DEF Batch, RunCalls, FinishBatch, Interrupts
<1>5. Step => Interrupts
  BY DEF Step, StartAttempt, EmergencyResend, Settle, Retry, Interrupts
<1> QED
  BY <1>1, <1>2, <1>3, <1>4, <1>5 DEF Next, Commands

\* A turn that is interrupted is open, and it has no answer unless it was cancelled.
LEMMA InterruptFacts ==
  ASSUME IInv, Interrupts
  PROVE  /\ phase = "started" /\ phase' = "interrupted" /\ Quiet
         /\ LastStep = "stop" => cancelled
<1>1. phase' = "interrupted" /\ Quiet /\ phase = "started"
  BY DEF Interrupts, Abort, StepLimit, CompactionUnavailable, EndStep, InterruptPoisoned, GiveUp, Close, Go, Quiet,
         BatchOver, Driving, Stepping, IInv, ControlInv, Gone
<1>2. LastIs("failed") => Prior # <<>>
  BY DEF LastIs, Prior
<1>3. at = "failed" => LastStep # "stop"
  BY <1>2 DEF IInv, ControlInv, StepsInv, Wanted
<1> QED
  BY <1>1, <1>3
  DEF Interrupts, Abort, StepLimit, CompactionUnavailable, EndStep, InterruptPoisoned, GiveUp, Stepping,
      IInv, ControlInv, Wanted

\* A turn that has its answer is committed by whoever comes next, the loop or the
\* recovery of a later process; only the user's cancellation interrupts it.
THEOREM SpecAnswerIsCommitted ==
  ASSUME Parameters PROVE Spec => AnswerIsCommitted
<1>1. IInv /\ [Next]_vars =>
        [phase' = "interrupted" /\ Active /\ LastStep = "stop" => cancelled]_vars
  <2> SUFFICES ASSUME IInv, Next, phase' = "interrupted", Active, LastStep = "stop"
               PROVE  cancelled
    BY DEF vars
  <2> QED
    BY WhoInterrupts, InterruptFacts DEF Active
<1> QED
  BY <1>1, SpecIInv, PTL DEF Spec, AnswerIsCommitted

-----------------------------------------------------------------------------
(* The loop implements the contract of a turn. *)

Status == IF Active THEN "open" ELSE phase

\* A step that changes neither the turn's status, nor its steps, nor the number of
\* requests sent for the wanted step is none of the contract's.
Unseen == Status' = Status /\ steps' = steps /\ Len(Prior)' = Len(Prior)

\* A quiet step shows nothing if the status stays.
LEMMA QuietUnseen ==
  ASSUME IInv, Quiet, Status' = Status
  PROVE  Unseen
BY QuietFacts DEF Unseen, Quiet

\* A new turn begins only when no turn is open.
LEMMA BeginMaps ==
  ASSUME IInv, RunTurn
  PROVE  Contract!Begin
<1>1. Len(Prior)' = 0
  BY DEF RunTurn, Prior
<1> QED
  BY <1>1 DEF RunTurn, Active, Contract!Begin, IInv, TypeOK

\* A request goes out for a wanted step with attempts left.
LEMMA SendMaps ==
  ASSUME Parameters, IInv, StartAttempt, Admission = "ok"
  PROVE  Contract!Send
<1>1. Wanted /\ ~LastIs("open") /\ phase = "started"
  BY SteppingFacts DEF StartAttempt
<1>2. Prior' = tries' /\ Len(tries') = Len(Prior) + 1
  BY <1>1, TryStarts DEF StartAttempt
<1>3. phase' = phase /\ steps' = steps
  BY DEF StartAttempt, Go
<1>4. Len(Prior) \in Nat
  BY TriesFacts DEF IInv
<1>5. Len(Prior) < MaxAttempts
  BY <1>4 DEF StartAttempt, Exhausted, Parameters
<1>6. ~Contract!Answered /\ Len(steps) < MaxSteps
  BY <1>1 DEF Contract!Answered, Wanted, LastStep
<1> QED
  BY <1>1, <1>2, <1>3, <1>5, <1>6 DEF Active, Contract!Send

\* An accepted step answers a request.
LEMMA AcceptMaps ==
  ASSUME IInv, NEW finish \in {"tool", "stop"}, Answer(finish)
  PROVE  Contract!Accept
<1>1. LastIs("open") /\ phase = "started"
  BY DEF Answer, IInv, ControlInv, Gone
<1>2. Prior = tries /\ Len(tries) > 0
  BY <1>1, TriesFacts DEF IInv, Prior, LastIs
<1>3. Prior' = <<>>
  BY <1>1, AcceptLast, LastEnds DEF Answer
<1>4. phase' = phase /\ steps' = Append(steps, finish)
  BY DEF Answer
<1> QED
  BY <1>1, <1>2, <1>3, <1>4 DEF Active, Contract!Accept

\* The loop and the recovery commit answered turns only.
LEMMA CommitMaps ==
  ASSUME IInv, Commit \/ RepairCommit
  PROVE  Contract!Commit
<1>1. Active /\ LastStep = "stop" /\ phase' = "committed" /\ Quiet
  BY DEF Commit, RepairCommit, BatchOver, Driving, Close, Go, Quiet, Active, IInv,
         ControlInv, Gone
<1>2. Contract!Answered
  BY <1>1 DEF Contract!Answered, LastStep
<1>3. Prior' = Prior
  BY <1>1, QuietFacts
<1> QED
  BY <1>1, <1>2, <1>3 DEF Active, Quiet, Contract!Commit

\* An interruption ends an open turn and changes nothing else.
LEMMA InterruptMaps ==
  ASSUME IInv, Interrupts
  PROVE  Contract!Interrupt
<1>1. phase = "started" /\ phase' = "interrupted" /\ Quiet
  BY InterruptFacts
<1>2. Prior' = Prior
  BY <1>1, QuietFacts
<1> QED
  BY <1>1, <1>2 DEF Active, Quiet, Contract!Interrupt

\* The attempt that fails stays one of the attempts of the wanted step.
LEMMA FailureUnseen ==
  ASSUME IInv, LoseAttempt \/ \E f \in Failure : AttemptFails(f)
  PROVE  Unseen
<1>1. PICK f \in Failure :
         tries' = [tries EXCEPT ![Len(tries)].status = "failed", ![Len(tries)].failure = f]
  BY DEF LoseAttempt, AttemptFails, LostFailure, Failure, Code
<1>2. LastIs("open")
  BY DEF LoseAttempt, AttemptFails, IInv, ControlInv
<1>3. Prior = tries
  BY <1>2 DEF Prior, LastIs
<1>4. Prior' = tries' /\ Len(tries') = Len(tries)
  <2> DEFINE e == [status |-> "failed", emergency |-> LastTry.emergency,
                   failure |-> f, replaced |-> LastTry.replaced]
  <2>1. Updated(Len(tries), e)
    BY <1>1, <1>2, FailLast
  <2>2. Prior' = tries'
    BY <1>2, <2>1, LastEnds
  <2> QED
    BY <2>1, <2>2, Zenon DEF Updated
<1>5. phase' = phase /\ steps' = steps
  BY DEF LoseAttempt, AttemptFails
<1> QED
  BY <1>3, <1>4, <1>5 DEF Unseen, Status, Active

\* Supersession is bookkeeping: the step has been accepted already.
LEMMA SettlementUnseen ==
  ASSUME IInv, RepairSupersession \/ Settle
  PROVE  Unseen
<1>1. CASE Unsettled /\ Supersede
  <2>1. Prior = <<>> /\ Prior' = <<>>
    BY <1>1, RetrySettled DEF Unsettled, Prior
  <2> QED
    BY <2>1 DEF RepairSupersession, Settle, Unseen, Status, Active
<1>2. CASE ~(Unsettled /\ Supersede)
  <2>1. Quiet /\ Status' = Status
    BY <1>2 DEF RepairSupersession, Settle, Quiet, Status, Active
  <2> QED
    BY <2>1, QuietUnseen
<1> QED
  BY <1>1, <1>2

Silent ==
  \/ ClassifyCalls \/ RepairCompletion \/ RepairStart \/ Recovered
  \/ Commands
  \/ ResumeBatch \/ RunStep \/ ReuseCallId
  \/ EmergencyResend \/ (\E delay \in 1..RetryCap : Retry(delay))
  \/ RunCalls \/ FinishBatch

\* The other actions move the process, not the turn.
LEMMA SilentUnseen ==
  ASSUME IInv, Silent
  PROVE  Unseen
<1>1. Quiet
  BY DEF Silent, ClassifyCalls, RepairCompletion, RepairStart, Recovered, Commands, StartTurn,
         ContinueTurn, ContinueRefused, SetCompactor, Exit, Open, CommandFails, Cancel,
         ChangeCredential, Kill, ResumeBatch, RunStep,
         ReuseCallId, EmergencyResend, Retry, RunCalls, FinishBatch, Refuse, log, Quiet
<1>2. phase' = phase \/ (phase = "accepted" /\ phase' = "started")
  BY DEF Silent, ClassifyCalls, RepairCompletion, RepairStart, Recovered, Commands, StartTurn,
         ContinueTurn, ContinueRefused, SetCompactor, Exit, Open, CommandFails, Cancel,
         ChangeCredential, Kill, ResumeBatch, RunStep,
         ReuseCallId, EmergencyResend, Retry, RunCalls, FinishBatch, Refuse, log,
         IInv, ControlInv, Gone
<1> QED
  BY <1>1, <1>2, QuietUnseen DEF Status, Active

\* Every step of the loop is a step of the contract or shows nothing.
LEMMA StepMaps ==
  ASSUME Parameters, IInv, Next
  PROVE  Contract!Next \/ Unseen
<1>1. CASE Recovery
  BY <1>1, FailureUnseen, SettlementUnseen, SilentUnseen, CommitMaps
  DEF Recovery, Silent, Contract!Next
<1>2. CASE RunTurn
  BY <1>2, BeginMaps DEF Contract!Next
<1>3. CASE Commands
  BY <1>3, SilentUnseen DEF Silent
<1>4. CASE Drive
  BY <1>4, SilentUnseen, InterruptMaps, CommitMaps DEF Drive, Silent, Interrupts, Contract!Next
<1>5. CASE Provider
  BY <1>5, SilentUnseen, AcceptMaps, FailureUnseen DEF Provider, Silent, Contract!Next
<1>6. CASE StartAttempt
  <2>1. CASE Admission = "ok"
    BY <1>6, <2>1, SendMaps DEF Contract!Next
  <2>2. CASE Admission # "ok"
    <3>1. Quiet /\ Status' = Status
      BY <1>6, <2>2 DEF StartAttempt, Refuse, log, Quiet, Status, Active
    <3> QED
      BY <3>1, QuietUnseen
  <2> QED
    BY <2>1, <2>2
<1>7. CASE CompactionUnavailable \/ EndStep \/ EmergencyResend \/ Settle
             \/ \E delay \in 1..RetryCap : Retry(delay) \/ GiveUp(delay)
  BY <1>7, SilentUnseen, InterruptMaps, SettlementUnseen DEF Silent, Interrupts, Contract!Next
<1>8. CASE Batch
  BY <1>8, SilentUnseen, InterruptMaps DEF Batch, Silent, Interrupts, Contract!Next
<1> QED
  BY <1>1, <1>2, <1>3, <1>4, <1>5, <1>6, <1>7, <1>8 DEF Next, Commands, Step

\* However often the process dies, whoever reads the session sees a turn that keeps
\* its contract: the loop, the log and the recovery together implement TurnContract.
THEOREM SpecKeepsContract ==
  ASSUME Parameters PROVE Spec => KeepsContract
<1>1. Init => Contract!Init
  BY DEF Init, Contract!Init, Active, Prior, LastIs
<1>2. IInv /\ [Next]_vars => [Contract!Next]_(Contract!vars)
  <2> SUFFICES ASSUME IInv, [Next]_vars PROVE [Contract!Next]_(Contract!vars)
    OBVIOUS
  <2>1. CASE Next
    BY <2>1, StepMaps DEF Unseen, Status, Contract!vars
  <2>2. CASE UNCHANGED vars
    BY <2>2 DEF vars, log, Prior, LastIs, LastTry, Active, Contract!vars
  <2> QED
    BY <2>1, <2>2
<1> QED
  BY <1>1, <1>2, SpecIInv, PTL DEF Spec, KeepsContract, Contract!Spec

=============================================================================
