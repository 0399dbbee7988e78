---------------------------- MODULE UiSinkProofs ----------------------------
(* For any number of producers, any keys and sizes, and any bounds: the     *)
(* consumer of UiSink never sleeps beside a record, its queue keeps both    *)
(* bounds, and what reaches it is what was admitted, in order.              *)
EXTENDS UiSink, NaturalsInduction, WellFoundedInduction, SequenceTheorems, TLAPS

\* Where the tasks are, and a wake-up on its way whenever it is needed.
Places ==
  /\ at \in [Producers -> {"idle", "check", "again", "gap", "parked", "expired", "tell",
                           "notify"}]
  /\ reader \in {"idle", "look", "gap", "parked", "announce", "closed"}
  /\ permit \in BOOLEAN /\ woken \in BOOLEAN /\ detached \in BOOLEAN

IInv == Places /\ ReaderIsAwake

\* The oldest record that may be evicted, and an older one with a key, are looked for
\* in a queue that has records.
LEMMA NothingInEmpty ==
  ASSUME NEW p \in Producers, queue = <<>>
  PROVE Oldest = 0 /\ Older(p) = 0 /\ LastOfBlock(p) = 0
BY DEF Oldest, Older, LastOfBlock, SelectInSeq, SelectLastInSeq

\* emit leaves the consumer a wake-up when it ends in notify_one or is about to.
LEMMA NotifyingStep ==
  ASSUME IInv, NEW p \in Producers, Go(p, "notify"),
         UNCHANGED <<detached, permit, woken, reader>>
  PROVE IInv'
BY DEF IInv, Places, ReaderIsAwake, Go

\* A step of a producer that has no wake-up to give and adds no record.
LEMMA QuietStep ==
  ASSUME IInv, NEW p \in Producers, at[p] # "notify",
         NEW where \in {"idle", "check", "again", "gap", "parked", "expired", "tell"},
         Go(p, where), queue = <<>> => queue' = <<>>, detached => detached',
         detached' \in BOOLEAN, UNCHANGED <<permit, reader>>,
         woken' \in BOOLEAN, woken => woken'
  PROVE IInv'
BY DEF IInv, Places, ReaderIsAwake, Go

\* notify_one itself.
LEMMA NotifiedStep ==
  ASSUME IInv, NEW p \in Producers, NotifyConsumer, Return(p),
         UNCHANGED <<detached, reader>>
  PROVE IInv'
BY DEF IInv, Places, ReaderIsAwake, NotifyConsumer, Return, Go

LEMMA StartIInv == Init => IInv
BY DEF Init, IInv, Places, ReaderIsAwake

\* The records that never wait: each ends in a wake-up, or adds no record.
LEMMA LatestStep ==
  ASSUME IInv, NEW p \in Producers, EmitLatest(p)
  PROVE IInv'
<1>1. at[p] # "notify" /\ p \in DOMAIN at
  BY DEF EmitLatest, Is, Looks, IInv, Places
<1>2. UNCHANGED <<detached, permit, woken, reader>>
  BY DEF EmitLatest, notify
<1>3. detached \in BOOLEAN /\ woken \in BOOLEAN
  BY DEF IInv, Places
<1>4. CASE Go(p, "notify")
  BY <1>2, <1>4, NotifyingStep
<1>5. CASE Return(p) /\ (queue = <<>> => queue' = <<>>)
  <2>1. Go(p, "idle")
    BY <1>5 DEF Return
  <2> QED
    BY <1>1, <1>2, <1>3, <1>5, <2>1, QuietStep
<1>6. ASSUME Drop(p)
      PROVE Return(p) /\ (queue = <<>> => queue' = <<>>)
  BY <1>6 DEF Drop
<1>7. CASE Replace(p)
  BY <1>4, <1>5, <1>6, <1>7 DEF Replace
<1>8. CASE PushSmall(p)
  BY <1>4, <1>8 DEF PushSmall
<1>9. CASE Evict(p)
  <2>1. queue # <<>>
    BY <1>9, NothingInEmpty DEF Evict
  <2>2. Go(p, "notify") \/ Return(p)
    BY <1>9 DEF Evict
  <2> QED
    BY <1>4, <1>5, <2>1, <2>2
<1>10. CASE Drop(p)
  BY <1>5, <1>6, <1>10
<1> QED
  BY <1>7, <1>8, <1>9, <1>10 DEF EmitLatest

LEMMA DeltaStep ==
  ASSUME IInv, NEW p \in Producers, EmitDelta(p)
  PROVE IInv'
<1>1. at[p] # "notify"
  BY DEF EmitDelta, Is, Looks
<1>2. UNCHANGED <<detached, reader>>
  BY DEF EmitDelta
<1>3. CASE Merge(p)
  BY <1>2, <1>3, NotifiedStep DEF Merge
<1>4. CASE PushSmall(p) /\ UNCHANGED <<permit, woken>>
  BY <1>2, <1>4, NotifyingStep DEF PushSmall
<1>5. CASE Drop(p) /\ UNCHANGED <<permit, woken>>
  <2>1. Go(p, "idle") /\ queue' = queue
    BY <1>5 DEF Drop, Return
  <2> QED
    BY <1>1, <1>2, <1>5, <2>1, QuietStep DEF IInv, Places
<1> QED
  BY <1>3, <1>4, <1>5 DEF EmitDelta

\* What a producer does between its call of emit and the return.
LEMMA FinishStep ==
  ASSUME IInv, NEW p \in Producers, Finish(p)
  PROVE IInv'
<1> DEFINE Quiet(where) ==
      /\ at[p] # "notify" /\ Go(p, where) /\ (queue = <<>> => queue' = <<>>)
      /\ (detached => detached') /\ detached' \in BOOLEAN
      /\ UNCHANGED <<permit, reader>> /\ woken' \in BOOLEAN /\ (woken => woken')
<1>1. CASE Refuse(p)
  <2>1. Quiet("idle")
    BY <1>1 DEF Refuse, Looks, Return, sink, notify, IInv, Places
  <2> QED
    BY <2>1, QuietStep
<1>2. CASE AdmitCritical(p)
  BY <1>2, NotifyingStep DEF AdmitCritical, notify
<1>3. CASE NoRoom(p)
  <2>1. Quiet("gap")
    BY <1>3 DEF NoRoom, Is, Looks, sink, notify, IInv, Places
  <2> QED
    BY <2>1, QuietStep
<1>4. CASE Park(p)
  <2>1. Quiet("parked")
    BY <1>4 DEF Park, sink, IInv, Places
  <2> QED
    BY <2>1, QuietStep
<1>5. CASE Wake(p)
  <2>1. Quiet("again")
    BY <1>5 DEF Wake, sink, notify, IInv, Places
  <2> QED
    BY <2>1, QuietStep
<1>6. CASE Deadline(p)
  <2>1. Quiet("expired")
    BY <1>6 DEF Deadline, sink, notify, IInv, Places
  <2> QED
    BY <2>1, QuietStep
<1>7. CASE Detach(p)
  <2>1. Quiet("tell")
    BY <1>7 DEF Detach, notify, IInv, Places
  <2> QED
    BY <2>1, QuietStep
<1>8. CASE TellDetached(p)
  <2>1. Quiet("idle")
    BY <1>8 DEF TellDetached, Return, sink, IInv, Places
  <2> QED
    BY <2>1, QuietStep
<1>9. CASE NotifyOne(p)
  BY <1>9, NotifiedStep DEF NotifyOne, sink
<1> QED
  BY <1>1, <1>2, <1>3, <1>4, <1>5, <1>6, <1>7, <1>8, <1>9, LatestStep, DeltaStep DEF Finish

\* The consumer goes to sleep only beside an empty queue, and before it waits it takes
\* the permit that a producer may have left.
LEMMA ReaderStep ==
  ASSUME IInv, CallRecv \/ TryReceive \/ Receiving
  PROVE IInv'
<1> USE DEF IInv, Places, ReaderIsAwake, sink, notify
<1>1. CASE CallRecv \/ TryReceive \/ Receive
  BY <1>1 DEF CallRecv, TryReceive, Receive, Pop
<1>2. CASE Announce \/ Closed
  BY <1>2 DEF Announce, Closed
<1>3. CASE NothingYet
  BY <1>3 DEF NothingYet
<1>4. CASE ParkReader
  BY <1>4 DEF ParkReader
<1>5. CASE WakeReader
  BY <1>5 DEF WakeReader
<1> QED
  BY <1>1, <1>2, <1>3, <1>4, <1>5 DEF Receiving

\* IInv is inductive.
LEMMA StepIInv == IInv /\ [Next]_vars => IInv'
<1> SUFFICES ASSUME IInv, [Next]_vars PROVE IInv'
  OBVIOUS
<1>1. ASSUME NEW p \in Producers, Emit(p) PROVE IInv'
  <2>1. /\ at[p] # "notify" /\ Go(p, "check") /\ queue' = queue /\ detached' = detached
        /\ UNCHANGED <<permit, reader, woken>>
    BY <1>1 DEF Emit, sink, notify
  <2> QED
    BY <2>1, QuietStep DEF IInv, Places
<1>2. CASE UNCHANGED vars
  BY <1>2 DEF vars, sink, notify, IInv, Places, ReaderIsAwake
<1> QED
  BY <1>1, <1>2, FinishStep, ReaderStep DEF Next

\* The consumer never sleeps, or goes to sleep, beside a queued record that nobody
\* will tell it of, while the sink is attached (recv and the notify_one of emit).
THEOREM SpecReaderIsAwake == Spec => []ReaderIsAwake
<1>1. IInv => ReaderIsAwake
  BY DEF IInv
<1> QED
  BY StartIInv, StepIInv, <1>1, PTL DEF Spec

-----------------------------------------------------------------------------
(* Induction, with a set in the place of a predicate. *)

LEMMA NatIsWellFounded == IsWellFoundedOn({p \in Nat \X Nat : p[1] < p[2]}, Nat)
BY NatLessThanWellFounded DEF OpToRel

LEMMA Upwards ==
  ASSUME NEW T, 0 \in T, \A n \in Nat : n \in T => n + 1 \in T
  PROVE Nat \subseteq T
<1> SUFFICES ASSUME Nat \ T # {} PROVE FALSE
  OBVIOUS
<1>1. PICK n \in Nat \ T :
        \A m \in Nat \ T : ~(<<m, n>> \in {p \in Nat \X Nat : p[1] < p[2]})
  BY NatIsWellFounded, WFMin
<1>2. n # 0 /\ n - 1 \in Nat /\ n - 1 < n /\ (n - 1) + 1 = n
  OBVIOUS
<1>3. n - 1 \notin T
  BY <1>2
<1> QED
  BY <1>1, <1>2, <1>3

-----------------------------------------------------------------------------
(* Folds of a sequence from the left: FoldLeft takes the indices in a set of *)
(* them from the largest down.                                              *)

LEMMA MaxOfSegment ==
  ASSUME NEW n \in Nat, NEW S \in SUBSET (1..(n + 1)), n + 1 \in S
  PROVE Max(S) = n + 1
<1>1. \A x \in S : n + 1 >= x /\ x \in Nat
  OBVIOUS
<1>2. Max(S) \in S /\ \A y \in S : Max(S) >= y
  BY <1>1 DEF Max
<1>3. Max(S) \in Nat /\ Max(S) >= n + 1 /\ n + 1 >= Max(S)
  BY <1>1, <1>2
<1> QED
  BY <1>3

LEMMA ExtremesOf ==
  ASSUME NEW n \in Nat, NEW S \in SUBSET (1..n), S # {}
  PROVE Max(S) \in S /\ Min(S) \in S /\ \A x \in S : x <= Max(S)
<1> DEFINE T == {k \in Nat : \A U \in SUBSET (1..k) :
                   U # {} => /\ \E x \in U : \A y \in U : x >= y
                             /\ \E x \in U : \A y \in U : x <= y}
<1>1. 0 \in T
  <2>1. 1..0 = {}
    OBVIOUS
  <2> QED
    BY <2>1
<1>2. ASSUME NEW k \in Nat, k \in T PROVE k + 1 \in T
  <2> SUFFICES ASSUME NEW U \in SUBSET (1..(k + 1)), U # {}
               PROVE /\ \E x \in U : \A y \in U : x >= y
                     /\ \E x \in U : \A y \in U : x <= y
    OBVIOUS
  <2>1. CASE U \ {k + 1} # {}
    <3>1. U \ {k + 1} \in SUBSET (1..k)
      OBVIOUS
    <3>2. PICK x \in U \ {k + 1} : \A y \in U \ {k + 1} : x >= y
      BY <1>2, <2>1, <3>1
    <3>3. PICK z \in U \ {k + 1} : \A y \in U \ {k + 1} : z <= y
      BY <1>2, <2>1, <3>1
    <3>4. \A y \in U : z <= y
      BY <3>3
    <3>5. \E w \in U : \A y \in U : w >= y
      BY <3>2
    <3> QED
      BY <3>4, <3>5
  <2>2. CASE U \ {k + 1} = {}
    <3>1. k + 1 \in U /\ \A y \in U : y = k + 1
      BY <2>2
    <3>2. \A y \in U : k + 1 >= y /\ k + 1 <= y
      BY <3>1
    <3> QED
      BY <3>1, <3>2
  <2> QED
    BY <2>1, <2>2
<1> HIDE DEF T
<1>3. n \in T
  BY <1>1, <1>2, Upwards
<1>4. (\E x \in S : \A y \in S : x >= y) /\ (\E x \in S : \A y \in S : x <= y)
  BY <1>3 DEF T
<1>5. Max(S) \in S /\ \A y \in S : Max(S) >= y
  BY <1>4 DEF Max
<1>6. Min(S) \in S
  BY <1>4 DEF Min
<1> QED
  BY <1>5, <1>6

\* h is the recursive function of a fold of G over the first n elements of s.
Folding(h, base, G, s, n) ==
  \A t \in SUBSET (1..n) : h[t] = IF t = {} THEN base ELSE G[<<h[t \ {Max(t)}], s[Max(t)]>>]

Foldable(V, E, base, G, s, n) ==
  base \in V /\ G \in [V \X E -> V] /\ n \in Nat /\ \A k \in 1..n : s[k] \in E

\* The recursive function by which a fold is defined exists.
LEMMA FoldExists ==
  ASSUME NEW V, NEW E, NEW base, NEW G, NEW s, NEW n, Foldable(V, E, base, G, s, n)
  PROVE \E h \in [SUBSET (1..n) -> V] : Folding(h, base, G, s, n)
<1> USE DEF Foldable
<1> DEFINE T == {k \in Nat : k <= n =>
                   \E h \in [SUBSET (1..k) -> V] : Folding(h, base, G, s, k)}
<1>1. 0 \in T
  <2> DEFINE h == [t \in SUBSET (1..0) |-> base]
  <2>1. 1..0 = {}
    OBVIOUS
  <2>2. Folding(h, base, G, s, 0) /\ h \in [SUBSET (1..0) -> V]
    BY <2>1 DEF Folding
  <2> HIDE DEF h
  <2> QED
    BY <2>2
<1>2. ASSUME NEW k \in Nat, k \in T PROVE k + 1 \in T
  <2>0. k + 1 \in Nat /\ (k + 1 <= n => k <= n)
    OBVIOUS
  <2> SUFFICES ASSUME k + 1 <= n PROVE \E g \in [SUBSET (1..(k + 1)) -> V] : Folding(g, base, G, s, k + 1)
    BY <2>0, Zenon
  <2>1. PICK h \in [SUBSET (1..k) -> V] : Folding(h, base, G, s, k)
    BY <1>2, <2>0, Zenon
  <2> DEFINE g == [t \in SUBSET (1..(k + 1)) |->
                     IF k + 1 \in t THEN G[<<h[t \ {k + 1}], s[k + 1]>>] ELSE h[t]]
  <2>2. \A t \in SUBSET (1..(k + 1)) :
          t \ {k + 1} \in SUBSET (1..k) /\ (k + 1 \notin t => t \in SUBSET (1..k))
    OBVIOUS
  <2>3. s[k + 1] \in E
    OBVIOUS
  <2>4. g \in [SUBSET (1..(k + 1)) -> V]
    BY <2>2, <2>3
  <2>5. ASSUME NEW t \in SUBSET (1..(k + 1))
        PROVE g[t] = IF t = {} THEN base ELSE G[<<g[t \ {Max(t)}], s[Max(t)]>>]
    <3>1. CASE k + 1 \in t
      <4>1. Max(t) = k + 1
        BY <3>1, MaxOfSegment
      <4>2. t \ {k + 1} \in SUBSET (1..(k + 1)) /\ k + 1 \notin t \ {k + 1}
        OBVIOUS
      <4> QED
        BY <3>1, <4>1, <4>2
    <3>2. CASE k + 1 \notin t
      <4>1. h[t] = IF t = {} THEN base ELSE G[<<h[t \ {Max(t)}], s[Max(t)]>>]
        BY <2>1, <2>2, <3>2 DEF Folding
      <4>2. g[t] = h[t] /\ g[t \ {Max(t)}] = h[t \ {Max(t)}]
        BY <3>2
      <4> QED
        BY <4>1, <4>2
    <3> QED
      BY <3>1, <3>2
  <2> HIDE DEF g
  <2>6. Folding(g, base, G, s, k + 1)
    BY <2>5 DEF Folding
  <2> QED
    BY <2>4, <2>6
<1> HIDE DEF T
<1>3. n \in T
  BY <1>1, <1>2, Upwards
<1>4. n <= n
  OBVIOUS
<1> QED
  BY <1>3, <1>4, Zenon DEF T

LEMMA Segments ==
  ASSUME NEW n \in Nat, NEW k \in 1..n
  PROVE /\ Max(1..k) = k /\ (1..k) \ {k} = 1..(k - 1)
        /\ 1..k # {} /\ 1..k \in SUBSET (1..n)
<1>1. PICK m \in Nat : k = m + 1
  BY k - 1 \in Nat, (k - 1) + 1 = k
<1>2. Max(1..(m + 1)) = m + 1
  BY MaxOfSegment
<1>3. (1..k) \ {k} = 1..(k - 1) /\ 1..k # {} /\ 1..k \in SUBSET (1..n)
  OBVIOUS
<1> QED
  BY <1>1, <1>2, <1>3

\* queued_bytes as a sum: its steps.
LEMMA WeightSteps ==
  ASSUME NEW s \in Seq(Record)
  PROVE \E P \in [0..Len(s) -> Nat] :
          /\ P[0] = 0 /\ P[Len(s)] = Weight(s)
          /\ \A k \in 1..Len(s) : P[k] = P[k - 1] + s[k].size
<1> DEFINE
      n == Len(s)
      Sums(h) == h = [t \in SUBSET (1..n) |->
                        IF t = {} THEN 0 ELSE h[t \ {Max(t)}] + s[Max(t)].size]
      G == [x \in Nat \X Record |-> x[1] + x[2].size]
      h == CHOOSE f : Sums(f)
      P == [k \in 0..n |-> h[1..k]]
<1>1. n \in Nat /\ DOMAIN s = 1..n /\ \A k \in 1..n : s[k] \in Record /\ s[k].size \in Nat
  <2>1. \A r \in Record : r.size \in Nat
    BY DEF Record
  <2> QED
    BY <2>1
<1>2. Weight(s) = h[1..n]
  BY <1>1 DEF Weight, FoldLeft, MapThenFoldSet
<1>3. \E f : Sums(f)
  <2>1. G \in [Nat \X Record -> Nat]
    BY DEF Record
  <2> HIDE DEF G, n
  <2>2. PICK f \in [SUBSET (1..n) -> Nat] : Folding(f, 0, G, s, n)
    <3>1. Foldable(Nat, Record, 0, G, s, n)
      BY <1>1, <2>1 DEF Foldable
    <3> QED
      BY <3>1, FoldExists
  <2>3. ASSUME NEW t \in SUBSET (1..n), t # {}
        PROVE G[<<f[t \ {Max(t)}], s[Max(t)]>>] = f[t \ {Max(t)}] + s[Max(t)].size
    <3>1. Max(t) \in t
      BY <1>1, <2>3, ExtremesOf
    <3> QED
      BY <1>1, <3>1 DEF G
  <2>4. Sums(f)
    BY <2>2, <2>3 DEF Folding
  <2> QED
    BY <2>4
<1>4. Sums(h)
  BY <1>3
<1> HIDE DEF h, n, Sums
<1>5. \A t \in SUBSET (1..n) : h[t] = IF t = {} THEN 0 ELSE h[t \ {Max(t)}] + s[Max(t)].size
  BY <1>4 DEF Sums
<1>6. h[1..0] = 0 /\ P[0] = 0
  <2>1. 1..0 = {} /\ 0 \in 0..n
    BY <1>1
  <2> QED
    BY <1>5, <2>1
<1>7. ASSUME NEW k \in 1..n PROVE P[k] = P[k - 1] + s[k].size
  <2> DEFINE u == 1..k
  <2>1. Max(u) = k /\ u \ {k} = 1..(k - 1) /\ u # {} /\ u \in SUBSET (1..n)
    BY <1>1, Segments
  <2> HIDE DEF u
  <2>2. h[u] = h[1..(k - 1)] + s[k].size
    BY <1>5, <2>1
  <2>3. k \in 0..n /\ k - 1 \in 0..n
    BY <1>1
  <2> QED
    BY <2>2, <2>3 DEF u
<1>8. P \in [0..n -> Nat]
  <2> DEFINE T == {k \in Nat : k <= n => P[k] \in Nat}
  <2> HIDE DEF P
  <2>1. 0 \in T
    BY <1>6
  <2>2. ASSUME NEW k \in Nat, k \in T PROVE k + 1 \in T
    <3> SUFFICES ASSUME k + 1 <= n PROVE P[k + 1] \in Nat
      OBVIOUS
    <3>1. k + 1 \in 1..n /\ (k + 1) - 1 = k /\ P[k] \in Nat
      BY <1>1, <2>2
    <3>2. P[k + 1] = P[k] + s[k + 1].size
      BY <1>7, <3>1
    <3> QED
      BY <1>1, <3>1, <3>2
  <2> HIDE DEF T
  <2>3. \A k \in Nat : k \in T
    BY <2>1, <2>2, Upwards
  <2>4. \A k \in 0..n : P[k] \in Nat
    BY <1>1, <2>3 DEF T
  <2> QED
    BY <2>4 DEF P
<1>9. P[n] = Weight(s)
  BY <1>1, <1>2
<1> HIDE DEF P
<1> QED
  BY <1>6, <1>7, <1>8, <1>9 DEF n
\* The critical records of a sequence, picked one after the other.
Picked(found, r) == IF r.kind = "critical" THEN Append(found, r) ELSE found

LEMMA CriticalSteps ==
  ASSUME NEW s \in Seq(Record)
  PROVE \E P \in [0..Len(s) -> Seq(Record)] :
          /\ P[0] = <<>> /\ P[Len(s)] = OnlyCritical(s)
          /\ \A k \in 1..Len(s) : P[k] = Picked(P[k - 1], s[k])
<1> DEFINE
      n == Len(s)
      Picks(h) == h = [t \in SUBSET (1..n) |->
                        IF t = {} THEN <<>> ELSE Picked(h[t \ {Max(t)}], s[Max(t)])]
      G == [x \in Seq(Record) \X Record |-> Picked(x[1], x[2])]
      h == CHOOSE f : Picks(f)
      P == [k \in 0..n |-> h[1..k]]
<1>1. n \in Nat /\ DOMAIN s = 1..n /\ \A k \in 1..n : s[k] \in Record
  OBVIOUS
<1>2. OnlyCritical(s) = h[1..n]
  BY <1>1 DEF OnlyCritical, FoldLeft, MapThenFoldSet, Picked
<1>3. \E f : Picks(f)
  <2>1. G \in [Seq(Record) \X Record -> Seq(Record)]
    BY DEF Picked
  <2> HIDE DEF G, n
  <2> DEFINE none == <<>>
  <2>2. PICK f \in [SUBSET (1..n) -> Seq(Record)] : Folding(f, none, G, s, n)
    <3>1. Foldable(Seq(Record), Record, none, G, s, n)
      BY <1>1, <2>1 DEF Foldable
    <3> HIDE DEF none
    <3> QED
      BY <3>1, FoldExists
  <2>3. ASSUME NEW t \in SUBSET (1..n), t # {}
        PROVE G[<<f[t \ {Max(t)}], s[Max(t)]>>] = Picked(f[t \ {Max(t)}], s[Max(t)])
    <3>1. Max(t) \in t
      BY <1>1, <2>3, ExtremesOf
    <3> QED
      BY <1>1, <3>1 DEF G
  <2>4. Picks(f)
    BY <2>2, <2>3 DEF Folding
  <2> QED
    BY <2>4
<1>4. Picks(h)
  BY <1>3
<1> HIDE DEF h, n, Picks
<1>5. \A t \in SUBSET (1..n) : h[t] = IF t = {} THEN <<>> ELSE Picked(h[t \ {Max(t)}], s[Max(t)])
  BY <1>4 DEF Picks
<1>6. h[1..0] = <<>> /\ P[0] = <<>>
  <2>1. 1..0 = {} /\ 0 \in 0..n
    BY <1>1
  <2> QED
    BY <1>5, <2>1
<1>7. ASSUME NEW k \in 1..n PROVE P[k] = Picked(P[k - 1], s[k])
  <2> DEFINE u == 1..k
  <2>1. Max(u) = k /\ u \ {k} = 1..(k - 1) /\ u # {} /\ u \in SUBSET (1..n)
    BY <1>1, Segments
  <2> HIDE DEF u
  <2>2. h[u] = Picked(h[1..(k - 1)], s[k])
    BY <1>5, <2>1
  <2>3. k \in 0..n /\ k - 1 \in 0..n
    BY <1>1
  <2> QED
    BY <2>2, <2>3 DEF u
<1>8. P \in [0..n -> Seq(Record)]
  <2> DEFINE T == {k \in Nat : k <= n => P[k] \in Seq(Record)}
  <2> HIDE DEF P
  <2>1. 0 \in T
    BY <1>6, <<>> \in Seq(Record)
  <2>2. ASSUME NEW k \in Nat, k \in T PROVE k + 1 \in T
    <3> SUFFICES ASSUME k + 1 <= n PROVE P[k + 1] \in Seq(Record)
      OBVIOUS
    <3>1. k + 1 \in 1..n /\ (k + 1) - 1 = k /\ P[k] \in Seq(Record)
      BY <1>1, <2>2
    <3>2. P[k + 1] = Picked(P[k], s[k + 1])
      BY <1>7, <3>1
    <3> QED
      BY <1>1, <3>1, <3>2 DEF Picked
  <2> HIDE DEF T
  <2>3. \A k \in Nat : k \in T
    BY <2>1, <2>2, Upwards
  <2>4. \A k \in 0..n : P[k] \in Seq(Record)
    BY <1>1, <2>3 DEF T
  <2> QED
    BY <2>4 DEF P
<1>9. P[n] = OnlyCritical(s)
  BY <1>1, <1>2
<1> HIDE DEF P
<1> QED
  BY <1>6, <1>7, <1>8, <1>9 DEF n

\* Any other account of the steps ends in the same sum.
LEMMA WeightIs ==
  ASSUME NEW s \in Seq(Record), NEW P, P[0] = 0,
         \A k \in 1..Len(s) : P[k] = P[k - 1] + s[k].size
  PROVE Weight(s) = P[Len(s)]
<1>1. PICK Q \in [0..Len(s) -> Nat] :
        /\ Q[0] = 0 /\ Q[Len(s)] = Weight(s)
        /\ \A k \in 1..Len(s) : Q[k] = Q[k - 1] + s[k].size
  BY WeightSteps
<1> DEFINE T == {k \in Nat : k <= Len(s) => P[k] = Q[k]}
<1>2. 0 \in T
  BY <1>1
<1>3. ASSUME NEW k \in Nat, k \in T PROVE k + 1 \in T
  <2> SUFFICES ASSUME k + 1 <= Len(s) PROVE P[k + 1] = Q[k + 1]
    OBVIOUS
  <2>1. k + 1 \in 1..Len(s) /\ (k + 1) - 1 = k /\ P[k] = Q[k]
    BY <1>3
  <2>2. P[k + 1] = P[k] + s[k + 1].size /\ Q[k + 1] = Q[k] + s[k + 1].size
    BY <1>1, <2>1
  <2> QED
    BY <2>1, <2>2
<1> HIDE DEF T
<1>4. Len(s) \in T
  BY <1>2, <1>3, Upwards
<1> QED
  BY <1>1, <1>4 DEF T

LEMMA CriticalIs ==
  ASSUME NEW s \in Seq(Record), NEW P, P[0] = <<>>,
         \A k \in 1..Len(s) : P[k] = Picked(P[k - 1], s[k])
  PROVE OnlyCritical(s) = P[Len(s)]
<1>1. PICK Q \in [0..Len(s) -> Seq(Record)] :
        /\ Q[0] = <<>> /\ Q[Len(s)] = OnlyCritical(s)
        /\ \A k \in 1..Len(s) : Q[k] = Picked(Q[k - 1], s[k])
  BY CriticalSteps
<1> DEFINE T == {k \in Nat : k <= Len(s) => P[k] = Q[k]}
<1>2. 0 \in T
  BY <1>1
<1>3. ASSUME NEW k \in Nat, k \in T PROVE k + 1 \in T
  <2> SUFFICES ASSUME k + 1 <= Len(s) PROVE P[k + 1] = Q[k + 1]
    OBVIOUS
  <2>1. k + 1 \in 1..Len(s) /\ (k + 1) - 1 = k /\ P[k] = Q[k]
    BY <1>3
  <2>2. P[k + 1] = Picked(P[k], s[k + 1]) /\ Q[k + 1] = Picked(Q[k], s[k + 1])
    BY <1>1, <2>1
  <2> QED
    BY <2>1, <2>2
<1> HIDE DEF T
<1>4. Len(s) \in T
  BY <1>2, <1>3, Upwards
<1> QED
  BY <1>1, <1>4 DEF T

LEMMA FoldsOfNothing == Weight(<<>>) = 0 /\ OnlyCritical(<<>>) = <<>>
<1>1. PICK P \in [0..0 -> Nat] : P[0] = 0 /\ P[0] = Weight(<<>>)
  BY WeightSteps, <<>> \in Seq(Record), Len(<<>>) = 0
<1>2. PICK Q \in [0..0 -> Seq(Record)] : Q[0] = <<>> /\ Q[0] = OnlyCritical(<<>>)
  BY CriticalSteps, <<>> \in Seq(Record), Len(<<>>) = 0
<1> QED
  BY <1>1, <1>2

LEMMA WeightOfAppend ==
  ASSUME NEW s \in Seq(Record), NEW r \in Record
  PROVE /\ Weight(s) \in Nat /\ Append(s, r) \in Seq(Record)
        /\ Weight(Append(s, r)) = Weight(s) + r.size
<1> DEFINE t == Append(s, r)
<1>1. /\ t \in Seq(Record) /\ Len(t) = Len(s) + 1 /\ t[Len(s) + 1] = r
      /\ \A k \in 1..Len(s) : t[k] = s[k]
  OBVIOUS
<1> HIDE DEF t
<1>2. PICK P \in [0..Len(t) -> Nat] :
        /\ P[0] = 0 /\ P[Len(t)] = Weight(t)
        /\ \A k \in 1..Len(t) : P[k] = P[k - 1] + t[k].size
  BY <1>1, WeightSteps
<1>3. \A k \in 1..Len(s) : P[k] = P[k - 1] + s[k].size
  BY <1>1, <1>2
<1>4. Weight(s) = P[Len(s)]
  BY <1>2, <1>3, WeightIs
<1>5. P[Len(s) + 1] = P[Len(s)] + r.size /\ P[Len(s)] \in Nat
  BY <1>1, <1>2
<1> QED
  BY <1>1, <1>2, <1>4, <1>5 DEF t

LEMMA CriticalOfAppend ==
  ASSUME NEW s \in Seq(Record), NEW r \in Record
  PROVE /\ OnlyCritical(s) \in Seq(Record)
        /\ OnlyCritical(Append(s, r)) = Picked(OnlyCritical(s), r)
<1> DEFINE t == Append(s, r)
<1>1. /\ t \in Seq(Record) /\ Len(t) = Len(s) + 1 /\ t[Len(s) + 1] = r
      /\ \A k \in 1..Len(s) : t[k] = s[k]
  OBVIOUS
<1> HIDE DEF t
<1>2. PICK P \in [0..Len(t) -> Seq(Record)] :
        /\ P[0] = <<>> /\ P[Len(t)] = OnlyCritical(t)
        /\ \A k \in 1..Len(t) : P[k] = Picked(P[k - 1], t[k])
  BY <1>1, CriticalSteps
<1>3. \A k \in 1..Len(s) : P[k] = Picked(P[k - 1], s[k])
  BY <1>1, <1>2
<1>4. OnlyCritical(s) = P[Len(s)]
  BY <1>2, <1>3, CriticalIs
<1>5. P[Len(s) + 1] = Picked(P[Len(s)], r) /\ P[Len(s)] \in Seq(Record)
  BY <1>1, <1>2
<1> QED
  BY <1>1, <1>2, <1>4, <1>5 DEF t

\* RemoveAt and ReplaceAt, element by element.
LEMMA Removed ==
  ASSUME NEW s \in Seq(Record), NEW i \in 1..Len(s)
  PROVE /\ RemoveAt(s, i) \in Seq(Record) /\ Len(RemoveAt(s, i)) = Len(s) - 1
        /\ \A k \in 1..(Len(s) - 1) : RemoveAt(s, i)[k] = IF k < i THEN s[k] ELSE s[k + 1]
<1> DEFINE a == SubSeq(s, 1, i - 1)  b == SubSeq(s, i + 1, Len(s))
<1>1. /\ a \in Seq(Record) /\ Len(a) = i - 1
      /\ \A k \in 1..(i - 1) : a[k] = s[k]
  OBVIOUS
<1>2. /\ b \in Seq(Record) /\ Len(b) = Len(s) - i
      /\ \A k \in 1..(Len(s) - i) : b[k] = s[i + k]
  OBVIOUS
<1> HIDE DEF a, b
<1>3. /\ a \o b \in Seq(Record) /\ Len(a \o b) = Len(s) - 1
      /\ \A k \in 1..(Len(s) - 1) : (a \o b)[k] = IF k <= i - 1 THEN a[k] ELSE b[k - (i - 1)]
  <2>1. /\ a \o b \in Seq(Record) /\ Len(a \o b) = Len(a) + Len(b)
        /\ \A k \in 1..(Len(a) + Len(b)) :
             (a \o b)[k] = IF k <= Len(a) THEN a[k] ELSE b[k - Len(a)]
    BY <1>1, <1>2, ConcatProperties
  <2>2. Len(a) + Len(b) = Len(s) - 1
    BY <1>1, <1>2
  <2> QED
    BY <1>1, <2>1, <2>2
<1>4. ASSUME NEW k \in 1..(Len(s) - 1) PROVE (a \o b)[k] = IF k < i THEN s[k] ELSE s[k + 1]
  <2>1. CASE k < i
    BY <1>1, <1>3, <2>1
  <2>2. CASE ~(k < i)
    <3>1. k - (i - 1) \in 1..(Len(s) - i) /\ i + (k - (i - 1)) = k + 1
      BY <2>2
    <3>2. (a \o b)[k] = b[k - (i - 1)]
      BY <1>3, <2>2
    <3> QED
      BY <1>2, <2>2, <3>1, <3>2
  <2> QED
    BY <2>1, <2>2
<1> QED
  BY <1>3, <1>4 DEF RemoveAt, a, b

LEMMA ReplacedAt ==
  ASSUME NEW s \in Seq(Record), NEW i \in 1..Len(s), NEW r \in Record
  PROVE /\ ReplaceAt(s, i, r) \in Seq(Record) /\ Len(ReplaceAt(s, i, r)) = Len(s)
        /\ \A k \in 1..Len(s) : ReplaceAt(s, i, r)[k] = IF k = i THEN r ELSE s[k]
BY ExceptSeq DEF ReplaceAt

LEMMA WeightOfRemoved ==
  ASSUME NEW s \in Seq(Record), NEW i \in 1..Len(s)
  PROVE Weight(RemoveAt(s, i)) = Weight(s) - s[i].size
<1> DEFINE t == RemoveAt(s, i)
<1>1. /\ t \in Seq(Record) /\ Len(t) = Len(s) - 1
      /\ \A k \in 1..(Len(s) - 1) : t[k] = IF k < i THEN s[k] ELSE s[k + 1]
  BY Removed
<1>2. PICK P \in [0..Len(s) -> Nat] :
        /\ P[0] = 0 /\ P[Len(s)] = Weight(s)
        /\ \A k \in 1..Len(s) : P[k] = P[k - 1] + s[k].size
  BY WeightSteps
<1>3. \A k \in 1..Len(s) : s[k].size \in Nat
  <2>1. \A k \in 1..Len(s) : s[k] \in Record
    OBVIOUS
  <2> QED
    BY <2>1 DEF Record
<1> DEFINE Q == [k \in 0..Len(t) |-> IF k < i THEN P[k] ELSE P[k + 1] - s[i].size]
<1> HIDE DEF t
<1>4. Q[0] = 0 /\ Q[Len(t)] = Weight(s) - s[i].size
  BY <1>1, <1>2, <1>3
<1>5. ASSUME NEW k \in 1..Len(t) PROVE Q[k] = Q[k - 1] + t[k].size
  <2>1. CASE k < i
    <3>1. Q[k] = P[k] /\ Q[k - 1] = P[k - 1] /\ t[k] = s[k] /\ k \in 1..Len(s)
      BY <1>1, <2>1
    <3> QED
      BY <1>2, <3>1
  <2>2. CASE ~(k < i)
    <3>1. t[k] = s[k + 1] /\ k + 1 \in 1..Len(s) /\ Q[k] = P[k + 1] - s[i].size
      BY <1>1, <2>2
    <3>2. P[k + 1] = P[k] + s[k + 1].size /\ P[i] = P[i - 1] + s[i].size
      <4>1. (k + 1) - 1 = k
        OBVIOUS
      <4> QED
        BY <1>2, <3>1, <4>1
    <3>3. Q[k - 1] = P[k] - s[i].size
      <4>1. CASE k = i
        <5>1. Q[k - 1] = P[i - 1] /\ P[i - 1] \in Nat /\ P[i] \in Nat
          BY <1>1, <1>2, <4>1
        <5> QED
          BY <1>3, <3>2, <4>1, <5>1
      <4>2. CASE k # i
        BY <1>1, <2>2, <4>2
      <4> QED
        BY <4>1, <4>2
    <3>4. P[k] \in Nat
      BY <1>1, <1>2
    <3>5. s[i].size \in Nat
      BY <1>3
    <3>6. t[k].size = s[k + 1].size /\ s[k + 1].size \in Nat
      BY <1>3, <3>1
    <3> HIDE DEF Q
    <3>7. \A a, b, c \in Nat : (a + b) - c = (a - c) + b
      OBVIOUS
    <3>8. (P[k] + s[k + 1].size) - s[i].size = (P[k] - s[i].size) + s[k + 1].size
      BY <3>4, <3>5, <3>6, <3>7
    <3>9. Q[k] = (P[k] + s[k + 1].size) - s[i].size
      BY <3>1, <3>2
    <3> QED
      BY <3>3, <3>6, <3>8, <3>9
  <2> QED
    BY <2>1, <2>2
<1> HIDE DEF Q
<1>6. Weight(t) = Q[Len(t)]
  BY <1>1, <1>4, <1>5, WeightIs
<1> QED
  BY <1>4, <1>6 DEF t

LEMMA SizesAreNumbers ==
  ASSUME NEW s \in Seq(Record), NEW i \in 1..Len(s)
  PROVE s[i] \in Record /\ s[i].size \in Nat
<1>1. s[i] \in Record
  OBVIOUS
<1> QED
  BY <1>1 DEF Record

LEMMA WeightIsNumber ==
  ASSUME NEW s \in Seq(Record)
  PROVE Weight(s) \in Nat
BY WeightSteps

LEMMA WeightOfReplaced ==
  ASSUME NEW s \in Seq(Record), NEW i \in 1..Len(s), NEW r \in Record
  PROVE Weight(ReplaceAt(s, i, r)) = Weight(s) - s[i].size + r.size
<1> DEFINE t == ReplaceAt(s, i, r)  d == r.size - s[i].size
<1> HIDE DEF d
<1>1. /\ t \in Seq(Record) /\ Len(t) = Len(s)
      /\ \A k \in 1..Len(s) : t[k] = IF k = i THEN r ELSE s[k]
  BY ReplacedAt
<1>2. PICK P \in [0..Len(s) -> Nat] :
        /\ P[0] = 0 /\ P[Len(s)] = Weight(s)
        /\ \A k \in 1..Len(s) : P[k] = P[k - 1] + s[k].size
  BY WeightSteps
<1>3. r.size \in Nat /\ s[i].size \in Nat /\ d \in Int
  <2>1. r.size \in Nat
    BY DEF Record
  <2>2. s[i].size \in Nat
    BY SizesAreNumbers
  <2> QED
    BY <2>1, <2>2 DEF d
<1> DEFINE Q == [k \in 0..Len(s) |-> IF k < i THEN P[k] ELSE P[k] + d]
<1>4. Q[0] = 0 /\ Q[Len(s)] = Weight(s) + d
  <2>1. 0 < i /\ ~(Len(s) < i) /\ 0 \in 0..Len(s) /\ Len(s) \in 0..Len(s)
    OBVIOUS
  <2> QED
    BY <1>2, <2>1
<1>5. ASSUME NEW k \in 1..Len(s) PROVE Q[k] = Q[k - 1] + t[k].size
  <2>0. k - 1 \in 0..Len(s) /\ k \in 0..Len(s) /\ (k < i => k - 1 < i)
    OBVIOUS
  <2>1. P[k] = P[k - 1] + s[k].size /\ P[k - 1] \in Nat
    BY <1>2, <2>0
  <2>2. s[k].size \in Nat
    BY SizesAreNumbers
  <2>3. CASE k < i
    <3>1. Q[k] = P[k] /\ Q[k - 1] = P[k - 1] /\ t[k] = s[k]
      BY <1>1, <2>3
    <3> QED
      BY <2>1, <3>1
  <2>4. CASE k = i
    <3>1. Q[k] = P[k] + d /\ Q[k - 1] = P[k - 1] /\ t[k] = r
      BY <1>1, <2>4
    <3>2. \A a, b, c \in Nat : (a + b) + (c - b) = a + c
      OBVIOUS
    <3>3. (P[k - 1] + s[k].size) + (r.size - s[k].size) = P[k - 1] + r.size
      BY <1>3, <2>1, <2>2, <3>2
    <3> QED
      BY <2>1, <2>4, <3>1, <3>3 DEF d
  <2>5. CASE k > i
    <3>1. Q[k] = P[k] + d /\ Q[k - 1] = P[k - 1] + d /\ t[k] = s[k]
      BY <1>1, <2>5
    <3> HIDE DEF Q, t
    <3>2. \A a, b \in Nat : (a + b) + d = (a + d) + b
      BY <1>3
    <3>3. (P[k - 1] + s[k].size) + d = (P[k - 1] + d) + s[k].size
      BY <2>1, <2>2, <3>2
    <3> QED
      BY <2>1, <3>1, <3>3
  <2> QED
    BY <2>3, <2>4, <2>5
<1> HIDE DEF Q
<1>6. Weight(t) = Q[Len(t)]
  <2> HIDE DEF t
  <2> QED
    BY <1>1, <1>4, <1>5, WeightIs
<1>7. Weight(s) \in Nat
  BY <1>2
<1> QED
  BY <1>1, <1>3, <1>4, <1>6, <1>7 DEF d

LEMMA WeightOfTail ==
  ASSUME NEW s \in Seq(Record), s # <<>>
  PROVE Tail(s) \in Seq(Record) /\ Weight(Tail(s)) = Weight(s) - Head(s).size
<1>1. 1 \in 1..Len(s) /\ Tail(s) \in Seq(Record) /\ Head(s) = s[1]
  OBVIOUS
<1> DEFINE t == RemoveAt(s, 1)
<1>2. /\ t \in Seq(Record) /\ Len(t) = Len(s) - 1
      /\ \A k \in 1..(Len(s) - 1) : t[k] = IF k < 1 THEN s[k] ELSE s[k + 1]
  BY <1>1, Removed
<1> HIDE DEF t
<1>3. Tail(s) = t
  <2>1. Len(Tail(s)) = Len(t) /\ \A k \in 1..Len(Tail(s)) : Tail(s)[k] = t[k]
    BY <1>1, <1>2
  <2> QED
    BY <1>1, <1>2, <2>1, SeqEqual
<1> QED
  BY <1>1, <1>3, WeightOfRemoved DEF t

LEMMA CriticalOfRemoved ==
  ASSUME NEW s \in Seq(Record), NEW i \in 1..Len(s), s[i].kind # "critical"
  PROVE OnlyCritical(RemoveAt(s, i)) = OnlyCritical(s)
<1> DEFINE t == RemoveAt(s, i)
<1>1. /\ t \in Seq(Record) /\ Len(t) = Len(s) - 1
      /\ \A k \in 1..(Len(s) - 1) : t[k] = IF k < i THEN s[k] ELSE s[k + 1]
  BY Removed
<1>2. PICK P \in [0..Len(s) -> Seq(Record)] :
        /\ P[0] = <<>> /\ P[Len(s)] = OnlyCritical(s)
        /\ \A k \in 1..Len(s) : P[k] = Picked(P[k - 1], s[k])
  BY CriticalSteps
<1>3. P[i] = P[i - 1]
  BY <1>2 DEF Picked
<1> DEFINE Q == [k \in 0..Len(t) |-> IF k < i THEN P[k] ELSE P[k + 1]]
<1> HIDE DEF t
<1>4. Q[0] = <<>> /\ Q[Len(t)] = OnlyCritical(s)
  <2>1. Q[0] = <<>>
    BY <1>1, <1>2
  <2>2. CASE i = Len(s)
    <3>1. Len(t) < i /\ Len(t) \in 0..Len(t) /\ Len(t) = i - 1
      BY <1>1, <2>2
    <3> QED
      BY <1>2, <1>3, <2>1, <2>2, <3>1
  <2>3. CASE i < Len(s)
    <3>1. ~(Len(t) < i) /\ Len(t) \in 0..Len(t) /\ Len(t) + 1 = Len(s)
      BY <1>1, <2>3
    <3> QED
      BY <1>2, <2>1, <3>1
  <2> QED
    BY <2>2, <2>3
<1>5. ASSUME NEW k \in 1..Len(t) PROVE Q[k] = Picked(Q[k - 1], t[k])
  <2>1. CASE k < i
    <3>0. k - 1 \in 0..Len(t) /\ k \in 0..Len(t) /\ k - 1 < i /\ k \in 1..Len(s)
      BY <1>1, <2>1
    <3>1. Q[k] = P[k] /\ Q[k - 1] = P[k - 1] /\ t[k] = s[k]
      BY <1>1, <2>1, <3>0
    <3> QED
      BY <1>2, <3>0, <3>1
  <2>2. CASE k = i
    <3>1. Q[k] = P[k + 1] /\ Q[k - 1] = P[k - 1] /\ t[k] = s[k + 1] /\ P[k - 1] = P[k]
      BY <1>1, <1>3, <2>2
    <3>2. k + 1 \in 1..Len(s) /\ (k + 1) - 1 = k
      BY <1>1
    <3>3. P[k + 1] = Picked(P[k], s[k + 1])
      BY <1>2, <3>2
    <3> QED
      BY <3>1, <3>3
  <2>3. CASE k > i
    <3>0. ~(k < i) /\ ~(k - 1 < i) /\ (k - 1) + 1 = k /\ k - 1 \in 0..Len(t)
      BY <1>1, <2>3
    <3>1. Q[k] = P[k + 1] /\ Q[k - 1] = P[k] /\ t[k] = s[k + 1]
      BY <1>1, <3>0
    <3>2. k + 1 \in 1..Len(s) /\ (k + 1) - 1 = k
      BY <1>1
    <3>3. P[k + 1] = Picked(P[k], s[k + 1])
      BY <1>2, <3>2
    <3> QED
      BY <3>1, <3>3
  <2> QED
    BY <2>1, <2>2, <2>3
<1> HIDE DEF Q
<1>6. OnlyCritical(t) = Q[Len(t)]
  BY <1>1, <1>4, <1>5, CriticalIs
<1> QED
  BY <1>4, <1>6 DEF t

LEMMA CriticalOfReplaced ==
  ASSUME NEW s \in Seq(Record), NEW i \in 1..Len(s), NEW r \in Record,
         s[i].kind # "critical", r.kind # "critical"
  PROVE OnlyCritical(ReplaceAt(s, i, r)) = OnlyCritical(s)
<1> DEFINE t == ReplaceAt(s, i, r)
<1>1. /\ t \in Seq(Record) /\ Len(t) = Len(s)
      /\ \A k \in 1..Len(s) : t[k] = IF k = i THEN r ELSE s[k]
  BY ReplacedAt
<1>2. PICK P \in [0..Len(s) -> Seq(Record)] :
        /\ P[0] = <<>> /\ P[Len(s)] = OnlyCritical(s)
        /\ \A k \in 1..Len(s) : P[k] = Picked(P[k - 1], s[k])
  BY CriticalSteps
<1> HIDE DEF t
<1>3. \A k \in 1..Len(t) : P[k] = Picked(P[k - 1], t[k])
  BY <1>1, <1>2 DEF Picked
<1>4. OnlyCritical(t) = P[Len(t)]
  BY <1>1, <1>2, <1>3, CriticalIs
<1> QED
  BY <1>1, <1>2, <1>4 DEF t

-----------------------------------------------------------------------------
(* What a change of the queue does to the stream of all records. *)

LEMMA StreamOfAppend ==
  ASSUME NEW a \in Seq(Record), NEW b \in Seq(Record), NEW r \in Record
  PROVE a \o b \in Seq(Record) /\ a \o Append(b, r) = Append(a \o b, r)
<1> DEFINE x == a \o Append(b, r)  y == Append(a \o b, r)
<1>1. Append(b, r) \in Seq(Record) /\ Len(Append(b, r)) = Len(b) + 1
  OBVIOUS
<1>2. /\ x \in Seq(Record) /\ Len(x) = Len(a) + (Len(b) + 1)
      /\ \A k \in 1..(Len(a) + (Len(b) + 1)) :
           x[k] = IF k <= Len(a) THEN a[k] ELSE Append(b, r)[k - Len(a)]
  <2> DEFINE c == Append(b, r)
  <2>1. c \in Seq(Record) /\ Len(c) = Len(b) + 1
    BY <1>1
  <2> HIDE DEF c
  <2>2. /\ a \o c \in Seq(Record) /\ Len(a \o c) = Len(a) + Len(c)
        /\ \A k \in 1..(Len(a) + Len(c)) :
             (a \o c)[k] = IF k <= Len(a) THEN a[k] ELSE c[k - Len(a)]
    BY <2>1, ConcatProperties
  <2> QED
    BY <2>1, <2>2 DEF c
<1>3. /\ a \o b \in Seq(Record) /\ Len(a \o b) = Len(a) + Len(b)
      /\ \A k \in 1..(Len(a) + Len(b)) :
           (a \o b)[k] = IF k <= Len(a) THEN a[k] ELSE b[k - Len(a)]
  BY ConcatProperties
<1>4. y \in Seq(Record) /\ Len(y) = Len(a) + Len(b) + 1
  BY <1>3
<1>5. ASSUME NEW k \in 1..(Len(a) + Len(b) + 1) PROVE x[k] = y[k]
  <2>1. CASE k = Len(a) + Len(b) + 1
    <3>1. y[k] = r
      BY <1>3, <2>1
    <3>2. k - Len(a) = Len(b) + 1 /\ ~(k <= Len(a)) /\ Append(b, r)[Len(b) + 1] = r
      BY <2>1
    <3>3. x[k] = Append(b, r)[k - Len(a)]
      BY <1>2, <3>2
    <3> HIDE DEF x, y
    <3> QED
      BY <3>1, <3>2, <3>3
  <2>2. CASE k \in 1..(Len(a) + Len(b))
    <3>1. y[k] = (a \o b)[k]
      BY <1>3, <2>2
    <3>2. CASE k <= Len(a)
      <4>1. x[k] = a[k] /\ (a \o b)[k] = a[k]
        BY <1>2, <1>3, <2>2, <3>2
      <4> QED
        BY <3>1, <4>1
    <3>3. CASE ~(k <= Len(a))
      <4>1. x[k] = Append(b, r)[k - Len(a)] /\ (a \o b)[k] = b[k - Len(a)]
        BY <1>2, <1>3, <2>2, <3>3
      <4>2. k - Len(a) \in 1..Len(b)
        BY <2>2, <3>3
      <4>3. Append(b, r)[k - Len(a)] = b[k - Len(a)]
        BY <4>2
      <4> QED
        BY <3>1, <4>1, <4>3
    <3> QED
      BY <3>2, <3>3
  <2> QED
    BY <2>1, <2>2
<1> HIDE DEF x, y
<1>6. x = y
  <2>1. Len(x) = Len(y) /\ \A k \in 1..Len(x) : x[k] = y[k]
    BY <1>2, <1>4, <1>5
  <2> QED
    BY <1>2, <1>4, <2>1, SeqEqual
<1> QED
  BY <1>3, <1>6 DEF x, y

\* A concatenation, element by element.
LEMMA Joined ==
  ASSUME NEW a \in Seq(Record), NEW b \in Seq(Record)
  PROVE /\ a \o b \in Seq(Record) /\ Len(a \o b) = Len(a) + Len(b)
        /\ \A k \in 1..(Len(a) + Len(b)) :
             (a \o b)[k] = IF k <= Len(a) THEN a[k] ELSE b[k - Len(a)]
BY ConcatProperties

LEMMA StreamOfReceived ==
  ASSUME NEW a \in Seq(Record), NEW b \in Seq(Record), b # <<>>
  PROVE Append(a, Head(b)) \o Tail(b) = a \o b
<1> DEFINE c == Append(a, Head(b))  d == Tail(b)
<1>1. /\ c \in Seq(Record) /\ Len(c) = Len(a) + 1 /\ c[Len(a) + 1] = b[1]
      /\ \A k \in 1..Len(a) : c[k] = a[k]
  OBVIOUS
<1>2. d \in Seq(Record) /\ Len(d) = Len(b) - 1 /\ \A k \in 1..Len(d) : d[k] = b[k + 1]
  BY HeadTailProperties
<1> HIDE DEF c, d
<1>3. /\ c \o d \in Seq(Record) /\ Len(c \o d) = Len(c) + Len(d)
      /\ \A k \in 1..(Len(c) + Len(d)) :
           (c \o d)[k] = IF k <= Len(c) THEN c[k] ELSE d[k - Len(c)]
  BY <1>1, <1>2, Joined
<1>4. /\ a \o b \in Seq(Record) /\ Len(a \o b) = Len(a) + Len(b)
      /\ \A k \in 1..(Len(a) + Len(b)) :
           (a \o b)[k] = IF k <= Len(a) THEN a[k] ELSE b[k - Len(a)]
  BY Joined
<1>5. Len(c) + Len(d) = Len(a) + Len(b)
  BY <1>1, <1>2
<1>6. ASSUME NEW k \in 1..(Len(a) + Len(b)) PROVE (c \o d)[k] = (a \o b)[k]
  <2>1. CASE k <= Len(a)
    <3>1. (a \o b)[k] = a[k] /\ (c \o d)[k] = c[k] /\ c[k] = a[k]
      BY <1>1, <1>3, <1>4, <1>5, <2>1
    <3> QED
      BY <3>1
  <2>2. CASE k = Len(a) + 1
    <3>1. (a \o b)[k] = b[k - Len(a)] /\ (c \o d)[k] = c[k] /\ k - Len(a) = 1
      BY <1>1, <1>3, <1>4, <1>5, <2>2
    <3> QED
      BY <1>1, <2>2, <3>1
  <2>3. CASE k > Len(a) + 1
    <3>1. ~(k <= Len(a)) /\ ~(k <= Len(c)) /\ k \in 1..(Len(c) + Len(d))
      BY <1>1, <1>5, <2>3
    <3>2. (a \o b)[k] = b[k - Len(a)] /\ (c \o d)[k] = d[k - Len(c)]
      BY <1>3, <1>4, <3>1
    <3>3. k - Len(c) \in 1..Len(d) /\ (k - Len(c)) + 1 = k - Len(a)
      BY <1>1, <1>2, <2>3
    <3> QED
      BY <1>2, <3>2, <3>3
  <2>4. k <= Len(a) \/ k = Len(a) + 1 \/ k > Len(a) + 1
    OBVIOUS
  <2> QED
    BY <2>1, <2>2, <2>3, <2>4
<1>7. c \o d = a \o b
  <2>1. Len(c \o d) = Len(a \o b) /\ \A k \in 1..Len(c \o d) : (c \o d)[k] = (a \o b)[k]
    BY <1>3, <1>4, <1>5, <1>6
  <2> QED
    BY <1>3, <1>4, <2>1, SeqEqual
<1> QED
  BY <1>7 DEF c, d

LEMMA StreamPlace ==
  ASSUME NEW a \in Seq(Record), NEW b \in Seq(Record), NEW i \in 1..Len(b)
  PROVE Len(a) + i \in 1..Len(a \o b) /\ (a \o b)[Len(a) + i] = b[i]
<1> DEFINE n == Len(a) + i
<1>1. n \in 1..(Len(a) + Len(b)) /\ ~(n <= Len(a)) /\ n - Len(a) = i
  OBVIOUS
<1> HIDE DEF n
<1>2. n \in 1..Len(a \o b) /\ (a \o b)[n] = b[i]
  BY <1>1, Joined
<1> QED
  BY <1>2 DEF n

LEMMA StreamOfReplaced ==
  ASSUME NEW a \in Seq(Record), NEW b \in Seq(Record), NEW i \in 1..Len(b), NEW r \in Record
  PROVE a \o ReplaceAt(b, i, r) = ReplaceAt(a \o b, Len(a) + i, r)
<1> DEFINE s == a \o b  c == ReplaceAt(b, i, r)  x == a \o c  n == Len(a) + i
           y == ReplaceAt(s, n, r)
<1>1. /\ s \in Seq(Record) /\ Len(s) = Len(a) + Len(b)
      /\ \A k \in 1..(Len(a) + Len(b)) : s[k] = IF k <= Len(a) THEN a[k] ELSE b[k - Len(a)]
  BY Joined
<1>2. /\ c \in Seq(Record) /\ Len(c) = Len(b)
      /\ \A k \in 1..Len(b) : c[k] = IF k = i THEN r ELSE b[k]
  BY ReplacedAt
<1> HIDE DEF c, s
<1>3. /\ x \in Seq(Record) /\ Len(x) = Len(a) + Len(c)
      /\ \A k \in 1..(Len(a) + Len(c)) : x[k] = IF k <= Len(a) THEN a[k] ELSE c[k - Len(a)]
  BY <1>2, Joined
<1>4. n \in 1..Len(s)
  BY StreamPlace DEF s
<1>5. /\ y \in Seq(Record) /\ Len(y) = Len(s)
      /\ \A k \in 1..Len(s) : y[k] = IF k = n THEN r ELSE s[k]
  <2> HIDE DEF n
  <2> QED
    BY <1>1, <1>4, ReplacedAt
<1> HIDE DEF x, y
<1>6. ASSUME NEW k \in 1..Len(s) PROVE x[k] = y[k]
  <2>1. CASE k <= Len(a)
    <3>1. x[k] = a[k] /\ s[k] = a[k] /\ k # n
      BY <1>1, <1>2, <1>3, <2>1
    <3> QED
      BY <1>5, <3>1
  <2>2. CASE ~(k <= Len(a))
    <3>1. k \in 1..(Len(a) + Len(c)) /\ k - Len(a) \in 1..Len(b) /\ (k - Len(a) = i <=> k = n)
      BY <1>1, <1>2, <2>2
    <3>2. x[k] = c[k - Len(a)] /\ s[k] = b[k - Len(a)]
      BY <1>1, <1>2, <1>3, <2>2, <3>1
    <3>3. c[k - Len(a)] = IF k - Len(a) = i THEN r ELSE b[k - Len(a)]
      BY <1>2, <3>1
    <3> HIDE DEF n
    <3> QED
      BY <1>5, <3>1, <3>2, <3>3
  <2> QED
    BY <2>1, <2>2
<1>7. x = y
  <2>1. Len(x) = Len(y) /\ \A k \in 1..Len(x) : x[k] = y[k]
    BY <1>1, <1>2, <1>3, <1>5, <1>6
  <2> QED
    BY <1>3, <1>5, <2>1, SeqEqual
<1> QED
  BY <1>7 DEF x, y, s, c

LEMMA StreamOfRemoved ==
  ASSUME NEW a \in Seq(Record), NEW b \in Seq(Record), NEW i \in 1..Len(b)
  PROVE a \o RemoveAt(b, i) = RemoveAt(a \o b, Len(a) + i)
<1> DEFINE s == a \o b  c == RemoveAt(b, i)  x == a \o c  n == Len(a) + i
           y == RemoveAt(s, n)
<1>1. /\ s \in Seq(Record) /\ Len(s) = Len(a) + Len(b)
      /\ \A k \in 1..(Len(a) + Len(b)) : s[k] = IF k <= Len(a) THEN a[k] ELSE b[k - Len(a)]
  BY Joined
<1>2. /\ c \in Seq(Record) /\ Len(c) = Len(b) - 1
      /\ \A k \in 1..(Len(b) - 1) : c[k] = IF k < i THEN b[k] ELSE b[k + 1]
  BY Removed
<1> HIDE DEF c, s
<1>3. /\ x \in Seq(Record) /\ Len(x) = Len(a) + Len(c)
      /\ \A k \in 1..(Len(a) + Len(c)) : x[k] = IF k <= Len(a) THEN a[k] ELSE c[k - Len(a)]
  BY <1>2, Joined
<1>4. n \in 1..Len(s)
  BY <1>1
<1>5. /\ y \in Seq(Record) /\ Len(y) = Len(s) - 1
      /\ \A k \in 1..(Len(s) - 1) : y[k] = IF k < n THEN s[k] ELSE s[k + 1]
  <2> HIDE DEF n
  <2> QED
    BY <1>1, <1>4, Removed
<1> HIDE DEF x, y
<1>6. ASSUME NEW k \in 1..(Len(s) - 1) PROVE x[k] = y[k]
  <2>0. Len(a) + Len(c) = Len(s) - 1
    BY <1>1, <1>2
  <2>1. CASE k <= Len(a)
    <3>0. k \in 1..(Len(a) + Len(b)) /\ k \in 1..(Len(a) + Len(c))
      BY <1>1, <2>0
    <3>1. x[k] = a[k] /\ s[k] = a[k] /\ k < n
      BY <1>1, <1>3, <2>1, <3>0
    <3> HIDE DEF n
    <3> QED
      BY <1>5, <3>1
  <2>2. CASE ~(k <= Len(a)) /\ k < n
    <3>1. /\ k \in 1..(Len(a) + Len(c)) /\ k \in 1..(Len(a) + Len(b))
          /\ k - Len(a) \in 1..(Len(b) - 1) /\ k - Len(a) < i
      BY <1>1, <1>2, <2>2
    <3>2. x[k] = c[k - Len(a)] /\ s[k] = b[k - Len(a)]
      BY <1>1, <1>3, <2>2, <3>1
    <3>3. c[k - Len(a)] = b[k - Len(a)]
      BY <1>2, <3>1
    <3> HIDE DEF n
    <3> QED
      BY <1>5, <2>2, <3>2, <3>3
  <2>3. CASE ~(k < n)
    <3>1. /\ k \in 1..(Len(a) + Len(c)) /\ k + 1 \in 1..(Len(a) + Len(b))
          /\ ~(k <= Len(a)) /\ ~(k + 1 <= Len(a))
          /\ k - Len(a) \in 1..(Len(b) - 1) /\ ~(k - Len(a) < i)
          /\ (k - Len(a)) + 1 = (k + 1) - Len(a)
      BY <1>1, <1>2, <2>3
    <3>2. x[k] = c[k - Len(a)] /\ s[k + 1] = b[(k + 1) - Len(a)]
      BY <1>1, <1>3, <3>1
    <3>3. c[k - Len(a)] = b[(k + 1) - Len(a)]
      BY <1>2, <3>1
    <3> HIDE DEF n
    <3> QED
      BY <1>5, <2>3, <3>2, <3>3
  <2> QED
    BY <2>1, <2>2, <2>3
<1>7. x = y
  <2>1. Len(x) = Len(y) /\ \A k \in 1..Len(x) : x[k] = y[k]
    BY <1>1, <1>2, <1>3, <1>5, <1>6
  <2> QED
    BY <1>3, <1>5, <2>1, SeqEqual
<1> QED
  BY <1>7 DEF x, y, s, c

-----------------------------------------------------------------------------
(* The order of the chunks in a sequence of records. *)

OfBlock(r, p) == r.kind = "delta" /\ r.key = p
Consecutive(r) == r.parts # <<>> /\ \A k \in 2..Len(r.parts) : r.parts[k] = r.parts[k - 1] + 1

Ordered(s) ==
  /\ \A i \in 1..Len(s) : s[i].kind = "delta" => Consecutive(s[i]) /\ s[i].key \in Producers
  /\ \A i, j \in 1..Len(s) :
       i < j /\ s[i].kind = "delta" /\ OfBlock(s[j], s[i].key)
       => Last(s[i].parts) < Head(s[j].parts)

\* No chunk of the block after the n-th.
UpTo(s, p, n) == \A i \in 1..Len(s) : OfBlock(s[i], p) => Last(s[i].parts) <= n

LEMMA NumbersOfChunks ==
  ASSUME NEW r \in Record, r.parts # <<>>
  PROVE Last(r.parts) \in Nat /\ Head(r.parts) \in Nat
<1>1. r.parts \in Seq(Nat)
  BY DEF Record
<1> HIDE DEF Record
<1>2. Len(r.parts) \in 1..Len(r.parts) /\ 1 \in 1..Len(r.parts)
  BY <1>1
<1> QED
  BY <1>1, <1>2 DEF Last

LEMMA OrderOfAppend ==
  ASSUME NEW s \in Seq(Record), Ordered(s), NEW r \in Record,
         r.kind = "delta" => /\ Consecutive(r) /\ r.key \in Producers
                             /\ UpTo(s, r.key, Head(r.parts) - 1)
  PROVE Ordered(Append(s, r))
<1> DEFINE t == Append(s, r)
<1>1. /\ t \in Seq(Record) /\ Len(t) = Len(s) + 1 /\ t[Len(s) + 1] = r
      /\ \A k \in 1..Len(s) : t[k] = s[k]
  OBVIOUS
<1> HIDE DEF t
<1>2. \A i \in 1..Len(t) : i = Len(s) + 1 \/ i \in 1..Len(s)
  BY <1>1
<1>3. \A i \in 1..Len(t) : t[i].kind = "delta" => Consecutive(t[i]) /\ t[i].key \in Producers
  BY <1>1, <1>2 DEF Ordered
<1>4. ASSUME NEW i \in 1..Len(t), NEW j \in 1..Len(t), i < j, t[i].kind = "delta",
             OfBlock(t[j], t[i].key)
      PROVE Last(t[i].parts) < Head(t[j].parts)
  <2>1. i \in 1..Len(s) /\ t[i] = s[i]
    BY <1>1, <1>2, <1>4
  <2>2. CASE j \in 1..Len(s)
    BY <1>1, <1>4, <2>1, <2>2 DEF Ordered
  <2>3. CASE j = Len(s) + 1
    <3>1. t[j] = r /\ r.kind = "delta" /\ r.key = s[i].key
      BY <1>1, <1>4, <2>1, <2>3 DEF OfBlock
    <3>2. Last(s[i].parts) <= Head(r.parts) - 1
      BY <1>4, <2>1, <3>1 DEF UpTo, OfBlock
    <3>3. s[i] \in Record /\ s[i].parts # <<>> /\ r.parts # <<>>
      BY <1>4, <2>1, <3>1 DEF Ordered, Consecutive
    <3>4. Last(s[i].parts) \in Nat /\ Head(r.parts) \in Nat
      BY <3>3, NumbersOfChunks
    <3> QED
      BY <2>1, <3>1, <3>2, <3>4
  <2> QED
    BY <1>2, <2>2, <2>3
<1> QED
  BY <1>3, <1>4 DEF Ordered, t

LEMMA UpToOfAppend ==
  ASSUME NEW s \in Seq(Record), NEW r \in Record, NEW p, NEW n, UpTo(s, p, n),
         OfBlock(r, p) => Last(r.parts) <= n
  PROVE UpTo(Append(s, r), p, n)
<1>1. /\ Len(Append(s, r)) = Len(s) + 1 /\ Append(s, r)[Len(s) + 1] = r
      /\ \A k \in 1..Len(s) : Append(s, r)[k] = s[k]
  OBVIOUS
<1> QED
  BY <1>1 DEF UpTo

LEMMA UpToLater ==
  ASSUME NEW s \in Seq(Record), Ordered(s), NEW p, NEW n \in Nat, UpTo(s, p, n)
  PROVE UpTo(s, p, n + 1)
<1> SUFFICES ASSUME NEW i \in 1..Len(s), OfBlock(s[i], p) PROVE Last(s[i].parts) <= n + 1
  BY DEF UpTo
<1>1. s[i] \in Record /\ s[i].parts # <<>>
  BY DEF Ordered, OfBlock, Consecutive
<1>2. Last(s[i].parts) \in Nat
  BY <1>1, NumbersOfChunks
<1>3. Last(s[i].parts) <= n
  BY DEF UpTo
<1> QED
  BY <1>2, <1>3

LEMMA OrderOfRemoved ==
  ASSUME NEW s \in Seq(Record), NEW i \in 1..Len(s)
  PROVE /\ Ordered(s) => Ordered(RemoveAt(s, i))
        /\ \A p, n : UpTo(s, p, n) => UpTo(RemoveAt(s, i), p, n)
<1> DEFINE t == RemoveAt(s, i)  Was(k) == IF k < i THEN k ELSE k + 1
<1>1. /\ t \in Seq(Record) /\ Len(t) = Len(s) - 1
      /\ \A k \in 1..(Len(s) - 1) : t[k] = IF k < i THEN s[k] ELSE s[k + 1]
  BY Removed
<1> HIDE DEF t
<1>2. \A k \in 1..Len(t) : Was(k) \in 1..Len(s) /\ t[k] = s[Was(k)]
  BY <1>1
<1>3. \A k, l \in 1..Len(t) : k < l => Was(k) < Was(l)
  BY <1>1
<1> HIDE DEF Was
<1>4. Ordered(s) => Ordered(t)
  BY <1>2, <1>3 DEF Ordered
<1>5. \A p, n : UpTo(s, p, n) => UpTo(t, p, n)
  BY <1>2 DEF UpTo
<1> QED
  BY <1>4, <1>5 DEF t

\* The record takes the place of one that belongs to the same block, or to none like
\* it; it begins where that one began and it is the last of its block.
LEMMA OrderOfReplaced ==
  ASSUME NEW s \in Seq(Record), NEW i \in 1..Len(s), NEW r \in Record, Ordered(s),
         r.kind = s[i].kind,
         r.kind = "delta" => /\ r.key = s[i].key /\ Consecutive(r)
                             /\ Head(r.parts) = Head(s[i].parts)
                             /\ \A j \in 1..Len(s) : OfBlock(s[j], r.key) => j <= i
  PROVE Ordered(ReplaceAt(s, i, r))
<1> DEFINE t == ReplaceAt(s, i, r)
<1>1. /\ t \in Seq(Record) /\ Len(t) = Len(s)
      /\ \A k \in 1..Len(s) : t[k] = IF k = i THEN r ELSE s[k]
  <2>1. s \in Seq(Record) /\ i \in 1..Len(s) /\ r \in Record
    OBVIOUS
  <2> QED
    BY ONLY <2>1, ReplacedAt
<1> HIDE DEF t
<1>2. \A k \in 1..Len(t) : t[k].kind = "delta" => Consecutive(t[k]) /\ t[k].key \in Producers
  BY <1>1 DEF Ordered
<1>3. ASSUME NEW k \in 1..Len(t), NEW l \in 1..Len(t), k < l, t[k].kind = "delta",
             OfBlock(t[l], t[k].key)
      PROVE Last(t[k].parts) < Head(t[l].parts)
  <2>1. k \in 1..Len(s) /\ l \in 1..Len(s)
    BY <1>1
  <2>2. s[k].kind = "delta" /\ OfBlock(s[l], s[k].key) /\ t[k].key = s[k].key
    BY <1>1, <1>3, <2>1 DEF OfBlock
  <2>3. k # i
    BY <1>1, <1>3, <2>1, <2>2 DEF OfBlock
  <2>4. Head(t[l].parts) = Head(s[l].parts) /\ t[k] = s[k]
    BY <1>1, <1>3, <2>1, <2>2, <2>3 DEF OfBlock
  <2> QED
    BY <1>3, <2>1, <2>2, <2>4 DEF Ordered
<1> QED
  BY <1>2, <1>3 DEF Ordered, t

LEMMA UpToOfReplaced ==
  ASSUME NEW s \in Seq(Record), NEW i \in 1..Len(s), NEW r \in Record, NEW p, NEW n,
         UpTo(s, p, n), OfBlock(r, p) => Last(r.parts) <= n
  PROVE UpTo(ReplaceAt(s, i, r), p, n)
<1>1. /\ Len(ReplaceAt(s, i, r)) = Len(s)
      /\ \A k \in 1..Len(s) : ReplaceAt(s, i, r)[k] = IF k = i THEN r ELSE s[k]
  BY ReplacedAt
<1> QED
  BY <1>1 DEF UpTo

-----------------------------------------------------------------------------
(* The queue, what has left it, and the records under way. *)

Numbers == [Producers -> [critical: Nat, latest: Nat, delta: Nat]]

\* What is queued, weighed and has been admitted, with a stream of records.
Sound(q, weight, pushed, stream) ==
  /\ q \in Seq(Record) /\ pushed \in Seq(Record) /\ stream \in Seq(Record)
  /\ weight = Weight(q) /\ Len(q) <= MaxRecords /\ weight <= MaxBytes
  /\ OnlyCritical(stream) = pushed
  /\ Ordered(stream)

\* The record a producer emits; only a critical one waits.
Pending(p) ==
  at[p] # "idle" =>
    /\ pending[p] \in Record
    /\ pending[p].kind = "delta" =>
         pending[p].key = p /\ pending[p].parts = <<sent[p].delta>>
    /\ at[p] \notin {"check", "notify"} => pending[p].kind = "critical"

\* The chunks of a block come from its producer, and the one it emits is new.
Numbered(p) ==
  /\ UpTo(Stream, p, sent[p].delta)
  /\ Is(p, "delta") => UpTo(Stream, p, sent[p].delta - 1)

SInv ==
  /\ Sound(queue, bytes, admitted, Stream) /\ received \in Seq(Record) /\ sent \in Numbers
  /\ pending \in [Producers -> Record \cup {<<>>}]
  /\ at \in [Producers -> {"idle", "check", "again", "gap", "parked", "expired", "tell",
                           "notify"}]
  /\ \A p \in Producers : Pending(p) /\ Numbered(p)

\* A step that moves a producer and leaves the records alone.
LEMMA MovingStep ==
  ASSUME SInv, NEW p \in Producers, at[p] # "idle",
         NEW where \in {"idle", "again", "gap", "parked", "expired", "tell"}, Go(p, where),
         where = "idle" \/ (pending[p].kind = "critical" /\ UNCHANGED pending),
         pending' \in [Producers -> Record \cup {<<>>}],
         \A q \in Producers : q # p => pending'[q] = pending[q],
         UNCHANGED <<queue, bytes, admitted, received, sent>>
  PROVE SInv'
<1>1. Stream' = Stream
  BY DEF Stream
<1>2. at' \in [Producers -> {"idle", "check", "again", "gap", "parked", "expired", "tell",
                             "notify"}]
  BY DEF SInv, Go
<1>3. ASSUME NEW q \in Producers PROVE Pending(q)' /\ Numbered(q)'
  <2>1. CASE q = p
    BY <1>1, <2>1 DEF SInv, Go, Pending, Numbered, Is, Looks
  <2>2. CASE q # p
    BY <1>1, <2>2 DEF SInv, Go, Pending, Numbered, Is, Looks
  <2> QED
    BY <2>1, <2>2
<1> QED
  BY <1>1, <1>2, <1>3 DEF SInv

\* A step of emit that changes the queue and ends its looking.
LEMMA StoringStep ==
  ASSUME SInv, NEW p \in Producers, Looks(p), Go(p, "notify") \/ Go(p, "idle"),
         Go(p, "notify") => UNCHANGED pending /\ pending[p].kind \in {"critical", "latest", "delta"},
         pending' \in [Producers -> Record \cup {<<>>}],
         \A q \in Producers : q # p => pending'[q] = pending[q],
         UNCHANGED <<received, sent>>,
         Sound(queue', bytes', admitted', Stream'),
         \A q \in Producers, n \in Int :
           UpTo(Stream, q, n) /\ (q = p => n = sent[p].delta) => UpTo(Stream', q, n)
  PROVE SInv'
<1>1. at' \in [Producers -> {"idle", "check", "again", "gap", "parked", "expired", "tell",
                             "notify"}]
  BY DEF SInv, Go
<1>2. ASSUME NEW q \in Producers PROVE Pending(q)' /\ Numbered(q)'
  <2>0. sent[q].delta \in Int /\ sent[q].delta - 1 \in Int
    BY DEF SInv, Numbers
  <2>1. UpTo(Stream', q, sent[q].delta)
    BY <2>0 DEF SInv, Numbered
  <2>2. CASE q = p
    BY <2>1, <2>2 DEF SInv, Go, Pending, Numbered, Is, Looks
  <2>3. CASE q # p
    <3>1. at'[q] = at[q] /\ pending'[q] = pending[q]
      BY <2>3 DEF SInv, Go
    <3>2. Is(q, "delta") => UpTo(Stream', q, sent[q].delta - 1)
      BY <2>0, <2>3 DEF SInv, Numbered
    <3> QED
      BY <2>1, <3>1, <3>2 DEF SInv, Pending, Numbered, Is, Looks
  <2> QED
    BY <2>2, <2>3
<1> QED
  BY <1>1, <1>2 DEF SInv

LEMMA StartSInv == Init => SInv
<1> SUFFICES ASSUME Init PROVE SInv
  OBVIOUS
<1>1. Stream = <<>> /\ <<>> \in Seq(Record) /\ Len(<<>>) = 0
  BY DEF Init, Stream
<1>2. Sound(queue, bytes, admitted, Stream)
  BY <1>1, FoldsOfNothing, Limits DEF Init, Sound, Ordered
<1> QED
  BY <1>1, <1>2 DEF Init, SInv, Numbers, Pending, Numbered, Is, Looks, UpTo

\* What a record that finds room does to the queue and the stream.
LEMMA PushedSound ==
  ASSUME SInv, NEW p \in Producers, Looks(p), NEW q \in Seq(Record), NEW s \in Seq(Record),
         Len(q) < MaxRecords, Weight(q) + pending[p].size <= MaxBytes, Ordered(s),
         OnlyCritical(s) = admitted,
         pending[p].kind = "delta" => UpTo(s, p, sent[p].delta - 1)
  PROVE /\ pending[p] \in Record
        /\ Sound(Append(q, pending[p]), Weight(q) + pending[p].size,
                 Picked(admitted, pending[p]), Append(s, pending[p]))
        /\ \A b \in Producers, n \in Int :
             UpTo(s, b, n) /\ (b = p => n = sent[p].delta) => UpTo(Append(s, pending[p]), b, n)
<1> DEFINE r == pending[p]
<1>1. r \in Record /\ (r.kind = "delta" => r.key = p /\ r.parts = <<sent[p].delta>>)
  BY DEF SInv, Pending, Looks
<1>2. sent[p].delta \in Nat
  BY DEF SInv, Numbers
<1>3. r.kind = "delta" => Consecutive(r) /\ Head(r.parts) = sent[p].delta
                          /\ Last(r.parts) = sent[p].delta
  <2>1. \A n \in Nat : Len(<<n>>) = 1 /\ <<n>>[1] = n /\ Head(<<n>>) = n
    OBVIOUS
  <2>2. \A n \in Nat : <<n>> # <<>> /\ 2..1 = {}
    OBVIOUS
  <2> HIDE DEF r
  <2> QED
    BY <1>1, <1>2, <2>1, <2>2 DEF Consecutive, Last
<1> HIDE DEF r
<1>4. Ordered(Append(s, r))
  BY <1>1, <1>3, OrderOfAppend DEF r
<1>5. OnlyCritical(Append(s, r)) = Picked(admitted, r)
  BY <1>1, CriticalOfAppend
<1>6. Weight(Append(q, r)) = Weight(q) + r.size /\ Append(q, r) \in Seq(Record)
      /\ Append(s, r) \in Seq(Record)
  BY <1>1, WeightOfAppend
<1>7. Picked(admitted, r) \in Seq(Record)
  BY <1>1 DEF Picked, SInv, Sound
<1>8. Len(Append(q, r)) <= MaxRecords
  BY <1>1, Limits
<1>9. ASSUME NEW b \in Producers, NEW n \in Int, UpTo(s, b, n), b = p => n = sent[p].delta
      PROVE UpTo(Append(s, r), b, n)
  <2>1. OfBlock(r, b) => Last(r.parts) <= n
    BY <1>1, <1>2, <1>3, <1>9 DEF OfBlock
  <2> QED
    BY <1>1, <1>9, <2>1, UpToOfAppend
<1>10. Sound(Append(q, r), Weight(q) + r.size, Picked(admitted, r), Append(s, r))
  BY <1>4, <1>5, <1>6, <1>7, <1>8 DEF Sound, r
<1> QED
  BY <1>1, <1>9, <1>10 DEF r

LEMMA PushStep ==
  ASSUME SInv, NEW p \in Producers, Looks(p), Push(p), Fits(pending[p].size), Go(p, "notify"),
         UNCHANGED <<pending, received, sent>>,
         admitted' = Picked(admitted, pending[p])
  PROVE SInv'
<1>1. queue \in Seq(Record) /\ bytes = Weight(queue) /\ Stream \in Seq(Record) /\ Ordered(Stream)
      /\ OnlyCritical(Stream) = admitted /\ received \in Seq(Record)
  BY DEF SInv, Sound
<1>2. Len(queue) < MaxRecords /\ Weight(queue) + pending[p].size <= MaxBytes
  BY <1>1 DEF Fits
<1>3. pending[p].kind = "delta" => UpTo(Stream, p, sent[p].delta - 1)
  BY DEF SInv, Numbered, Is
<1>4. /\ pending[p] \in Record
      /\ Sound(Append(queue, pending[p]), Weight(queue) + pending[p].size,
               Picked(admitted, pending[p]), Append(Stream, pending[p]))
      /\ \A b \in Producers, n \in Int :
           UpTo(Stream, b, n) /\ (b = p => n = sent[p].delta)
           => UpTo(Append(Stream, pending[p]), b, n)
  BY <1>1, <1>2, <1>3, PushedSound
<1>5. Stream' = Append(Stream, pending[p])
  BY <1>1, <1>4, StreamOfAppend DEF Stream, Push
<1>6. Sound(queue', bytes', admitted', Stream')
  BY <1>1, <1>4, <1>5 DEF Push
<1>7. /\ pending[p].kind \in {"critical", "latest", "delta"}
      /\ pending' \in [Producers -> Record \cup {<<>>}]
  BY <1>4 DEF Record, SInv
<1> QED
  BY <1>4, <1>5, <1>6, <1>7, StoringStep

\* Where the searches of the queue end.
LEMMA Found ==
  ASSUME SInv, NEW p \in Producers
  PROVE /\ Older(p) # 0 => Older(p) \in 1..Len(queue) /\ SameKey(queue[Older(p)], pending[p])
        /\ Oldest # 0 => Oldest \in 1..Len(queue) /\ queue[Oldest].kind # "critical"
        /\ LastOfBlock(p) # 0 =>
             /\ LastOfBlock(p) \in 1..Len(queue)
             /\ SameKey(queue[LastOfBlock(p)], pending[p])
             /\ \A j \in 1..Len(queue) : SameKey(queue[j], pending[p]) => j <= LastOfBlock(p)
<1>1. Len(queue) \in Nat
  BY DEF SInv, Sound
<1>2. ASSUME NEW I \in SUBSET (1..Len(queue)), I # {}
      PROVE Min(I) \in I /\ Max(I) \in I /\ \A j \in I : j <= Max(I)
  BY <1>1, <1>2, ExtremesOf
<1> DEFINE A == {i \in 1..Len(queue) : SameKey(queue[i], pending[p])}
           B == {i \in 1..Len(queue) : queue[i].kind # "critical"}
<1>3. Older(p) = IF A # {} THEN Min(A) ELSE 0
  BY DEF Older, SelectInSeq
<1>4. LastOfBlock(p) = IF A # {} THEN Max(A) ELSE 0
  BY DEF LastOfBlock, SelectLastInSeq
<1>5. Oldest = IF B # {} THEN Min(B) ELSE 0
  BY DEF Oldest, SelectInSeq
<1>6. A # {} => Min(A) \in A /\ Max(A) \in A /\ \A j \in A : j <= Max(A)
  BY <1>2
<1>7. B # {} => Min(B) \in B
  BY <1>2
<1> QED
  BY <1>3, <1>4, <1>5, <1>6, <1>7

\* A record that takes the place of another of its kind, in the queue and the stream.
LEMMA ReplacedSound ==
  ASSUME SInv, NEW i \in 1..Len(queue), NEW r \in Record, NEW weight,
         r.kind = queue[i].kind, r.kind # "critical",
         r.kind = "delta" => /\ r.key = queue[i].key /\ Consecutive(r)
                             /\ Head(r.parts) = Head(queue[i].parts)
                             /\ \A j \in 1..Len(queue) : OfBlock(queue[j], r.key) => j <= i,
         weight = bytes - queue[i].size + r.size, weight <= MaxBytes
  PROVE /\ Sound(ReplaceAt(queue, i, r), weight, admitted, received \o ReplaceAt(queue, i, r))
        /\ \A b \in Producers, n \in Int :
             UpTo(Stream, b, n) /\ (OfBlock(r, b) => Last(r.parts) <= n)
             => UpTo(received \o ReplaceAt(queue, i, r), b, n)
<1>1. /\ queue \in Seq(Record) /\ bytes = Weight(queue) /\ Stream \in Seq(Record)
      /\ Ordered(Stream) /\ OnlyCritical(Stream) = admitted /\ received \in Seq(Record)
      /\ Len(queue) <= MaxRecords /\ admitted \in Seq(Record)
  BY DEF SInv, Sound
<1> DEFINE n == Len(received) + i
<1>2. /\ n \in 1..Len(Stream) /\ Stream[n] = queue[i]
      /\ received \o ReplaceAt(queue, i, r) = ReplaceAt(Stream, n, r)
  <2>1. received \in Seq(Record) /\ queue \in Seq(Record) /\ i \in 1..Len(queue) /\ r \in Record
    BY <1>1
  <2>2. /\ Len(received) + i \in 1..Len(received \o queue)
        /\ (received \o queue)[Len(received) + i] = queue[i]
    BY ONLY <2>1, StreamPlace
  <2>3. received \o ReplaceAt(queue, i, r) = ReplaceAt(received \o queue, Len(received) + i, r)
    BY ONLY <2>1, StreamOfReplaced
  <2> QED
    BY <2>2, <2>3 DEF Stream
<1>3. /\ Len(Stream) = Len(received) + Len(queue)
      /\ \A k \in 1..(Len(received) + Len(queue)) :
           Stream[k] = IF k <= Len(received) THEN received[k] ELSE queue[k - Len(received)]
  BY <1>1, Joined DEF Stream
<1>4. ASSUME r.kind = "delta", NEW j \in 1..Len(Stream), OfBlock(Stream[j], r.key)
      PROVE j <= n
  <2>1. CASE j <= Len(received)
    BY <1>1, <2>1
  <2>2. CASE ~(j <= Len(received))
    <3>1. j - Len(received) \in 1..Len(queue) /\ Stream[j] = queue[j - Len(received)]
      BY <1>1, <1>3, <2>2
    <3>2. j - Len(received) <= i
      BY <1>4, <3>1
    <3> QED
      BY <1>1, <3>2
  <2> QED
    BY <2>1, <2>2
<1> HIDE DEF n
<1>5. Ordered(ReplaceAt(Stream, n, r))
  BY <1>1, <1>2, <1>4, OrderOfReplaced
<1>6. OnlyCritical(ReplaceAt(Stream, n, r)) = admitted
  BY <1>1, <1>2, CriticalOfReplaced
<1>7. /\ ReplaceAt(queue, i, r) \in Seq(Record) /\ Len(ReplaceAt(queue, i, r)) = Len(queue)
      /\ ReplaceAt(Stream, n, r) \in Seq(Record)
      /\ Weight(ReplaceAt(queue, i, r)) = weight
  <2>1. queue \in Seq(Record) /\ i \in 1..Len(queue) /\ r \in Record
    BY <1>1
  <2>2. Stream \in Seq(Record) /\ n \in 1..Len(Stream)
    BY <1>1, <1>2
  <2>3. /\ ReplaceAt(queue, i, r) \in Seq(Record) /\ Len(ReplaceAt(queue, i, r)) = Len(queue)
        /\ Weight(ReplaceAt(queue, i, r)) = Weight(queue) - queue[i].size + r.size
    BY ONLY <2>1, ReplacedAt, WeightOfReplaced
  <2>4. ReplaceAt(Stream, n, r) \in Seq(Record)
    BY ONLY <2>1, <2>2, ReplacedAt
  <2> QED
    BY <1>1, <2>3, <2>4
<1>8. Sound(ReplaceAt(queue, i, r), weight, admitted, ReplaceAt(Stream, n, r))
  BY <1>1, <1>5, <1>6, <1>7 DEF Sound
<1>9. \A b \in Producers, m \in Int :
        UpTo(Stream, b, m) /\ (OfBlock(r, b) => Last(r.parts) <= m)
        => UpTo(ReplaceAt(Stream, n, r), b, m)
  BY <1>1, <1>2, UpToOfReplaced
<1> QED
  BY <1>2, <1>8, <1>9

LEMMA DropStep ==
  ASSUME SInv, NEW p \in Producers, Looks(p), Drop(p), UNCHANGED <<admitted, received, sent>>
  PROVE SInv'
<1>1. /\ at[p] # "idle" /\ Go(p, "idle") /\ \A q \in Producers : q # p => pending'[q] = pending[q]
      /\ pending' \in [Producers -> Record \cup {<<>>}]
      /\ UNCHANGED <<queue, bytes>>
  BY DEF Looks, Drop, Return, SInv
<1> QED
  BY <1>1, MovingStep

LEMMA ReplaceStep ==
  ASSUME SInv, NEW p \in Producers, Is(p, "latest"), Replace(p),
         UNCHANGED <<admitted, received, sent>>
  PROVE SInv'
<1>0. Looks(p) /\ pending[p].kind = "latest"
  BY DEF Is
<1>1. CASE Drop(p)
  BY <1>0, <1>1, DropStep
<1>2. CASE ~Drop(p)
  <2> DEFINE i == Older(p)  r == pending[p]
  <2>1. /\ i # 0 /\ Replaced(p) <= MaxBytes /\ queue' = ReplaceAt(queue, i, r)
        /\ bytes' = Replaced(p) /\ Go(p, "notify") /\ UNCHANGED pending
    BY <1>2 DEF Replace
  <2>2. i \in 1..Len(queue) /\ SameKey(queue[i], r)
    BY <2>1, Found
  <2>3. r \in Record /\ r.kind = queue[i].kind /\ r.kind = "latest"
    BY <1>0, <2>2 DEF SameKey, SInv, Pending, Looks
  <2>4. Replaced(p) = bytes - queue[i].size + r.size
    BY DEF Replaced
  <2> HIDE DEF i, r
  <2>5. /\ Sound(queue', bytes', admitted, received \o queue')
        /\ \A b \in Producers, n \in Int :
             UpTo(Stream, b, n) /\ (OfBlock(r, b) => Last(r.parts) <= n)
             => UpTo(received \o queue', b, n)
    BY <2>1, <2>2, <2>3, <2>4, ReplacedSound
  <2>6. Stream' = received \o queue' /\ \A b : ~OfBlock(r, b)
    BY <2>3 DEF Stream, OfBlock
  <2>7. pending' \in [Producers -> Record \cup {<<>>}]
    BY <2>1 DEF SInv
  <2> QED
    BY <1>0, <2>1, <2>3, <2>5, <2>6, <2>7, StoringStep DEF r
<1> QED
  BY <1>1, <1>2

\* A record is evicted, and the one emitted may then find room.
LEMMA EvictStep ==
  ASSUME SInv, NEW p \in Producers, Is(p, "latest"), Evict(p),
         UNCHANGED <<admitted, received, sent>>
  PROVE SInv'
<1> DEFINE i == Oldest  q == RemoveAt(queue, i)  s == received \o q
           left == bytes - queue[i].size
           room == left + pending[p].size <= MaxBytes
<1>0. Looks(p) /\ pending[p].kind = "latest"
  BY DEF Is
<1>1. /\ i # 0
      /\ room => /\ queue' = Append(q, pending[p]) /\ bytes' = left + pending[p].size
                 /\ Go(p, "notify") /\ UNCHANGED pending
      /\ ~room => queue' = q /\ bytes' = left /\ Return(p)
  BY DEF Evict
<1>2. i \in 1..Len(queue) /\ queue[i].kind # "critical"
  BY <1>1, Found
<1> HIDE DEF i
<1>3. /\ queue \in Seq(Record) /\ bytes = Weight(queue) /\ Stream \in Seq(Record)
      /\ Ordered(Stream) /\ OnlyCritical(Stream) = admitted /\ received \in Seq(Record)
      /\ Len(queue) <= MaxRecords /\ bytes <= MaxBytes /\ admitted \in Seq(Record)
  BY DEF SInv, Sound
<1> DEFINE n == Len(received) + i
<1>4. /\ n \in 1..Len(Stream) /\ Stream[n] = queue[i] /\ s = RemoveAt(Stream, n)
  <2>1. received \in Seq(Record) /\ queue \in Seq(Record) /\ i \in 1..Len(queue)
    BY <1>2, <1>3
  <2>2. /\ Len(received) + i \in 1..Len(received \o queue)
        /\ (received \o queue)[Len(received) + i] = queue[i]
        /\ received \o RemoveAt(queue, i) = RemoveAt(received \o queue, Len(received) + i)
    BY ONLY <2>1, StreamPlace, StreamOfRemoved
  <2> QED
    BY <2>2 DEF Stream
<1>5. /\ q \in Seq(Record) /\ Len(q) = Len(queue) - 1 /\ Weight(q) = left
      /\ s \in Seq(Record)
  BY <1>2, <1>3, <1>4, Removed, WeightOfRemoved
<1>6. /\ Ordered(s) /\ OnlyCritical(s) = admitted
      /\ \A b, m : UpTo(Stream, b, m) => UpTo(s, b, m)
  BY <1>2, <1>3, <1>4, OrderOfRemoved, CriticalOfRemoved
<1>7. left \in Nat /\ left <= MaxBytes /\ Len(q) < MaxRecords
  <2>1. Weight(q) \in Nat /\ Weight(queue) \in Nat /\ queue[i].size \in Nat
    BY <1>2, <1>3, <1>5, WeightIsNumber, SizesAreNumbers
  <2>2. MaxBytes \in Nat /\ MaxRecords \in Nat /\ Len(queue) \in Nat
    BY <1>3, Limits
  <2>3. left = Weight(queue) - queue[i].size
    BY <1>3
  <2> HIDE DEF q, left
  <2>4. left \in Nat /\ left <= MaxBytes
    BY <1>3, <1>5, <2>1, <2>2, <2>3
  <2>5. Len(q) < MaxRecords
    BY <1>3, <1>5, <2>2
  <2> QED
    BY <2>4, <2>5
<1> HIDE DEF q, s, n, left
<1>8. Stream' = received \o queue'
  BY DEF Stream
<1>9. CASE ~room
  <2>1. Sound(q, left, admitted, s)
    <3>1. Len(q) <= MaxRecords
      BY <1>5, <1>7, Limits
    <3> QED
      BY <1>3, <1>5, <1>6, <1>7, <3>1 DEF Sound
  <2>2. Stream' = s /\ queue' = q /\ bytes' = left /\ Go(p, "idle")
        /\ pending' \in [Producers -> Record \cup {<<>>}]
        /\ \A b \in Producers : b # p => pending'[b] = pending[b]
    BY <1>1, <1>8, <1>9 DEF s, Return, SInv
  <2>3. ~Go(p, "notify")
    BY <2>2 DEF Go, SInv
  <2> QED
    BY <1>0, <1>6, <2>1, <2>2, <2>3, StoringStep
<1>10. CASE room
  <2>1. Weight(q) + pending[p].size <= MaxBytes
    BY <1>5, <1>10
  <2>2. /\ pending[p] \in Record
        /\ Sound(Append(q, pending[p]), Weight(q) + pending[p].size,
                 Picked(admitted, pending[p]), Append(s, pending[p]))
        /\ \A b \in Producers, m \in Int :
             UpTo(s, b, m) /\ (b = p => m = sent[p].delta) => UpTo(Append(s, pending[p]), b, m)
    BY <1>0, <1>5, <1>6, <1>7, <2>1, PushedSound
  <2>3. Picked(admitted, pending[p]) = admitted
    BY <1>0 DEF Picked
  <2>4. Stream' = Append(s, pending[p])
    <3>1. received \in Seq(Record) /\ q \in Seq(Record) /\ pending[p] \in Record
      BY <1>3, <1>5, <2>2
    <3>2. received \o Append(q, pending[p]) = Append(received \o q, pending[p])
      BY ONLY <3>1, StreamOfAppend
    <3> QED
      BY <1>1, <1>8, <1>10, <3>2 DEF s
  <2>5. pending' \in [Producers -> Record \cup {<<>>}]
    BY <1>1, <1>10 DEF SInv
  <2> QED
    BY <1>0, <1>1, <1>5, <1>6, <1>10, <2>2, <2>3, <2>4, <2>5, StoringStep
<1> QED
  BY <1>9, <1>10

LEMMA ChunkAdded ==
  ASSUME NEW parts \in Seq(Nat), parts # <<>>, NEW n \in Nat, Last(parts) + 1 = n,
         \A k \in 2..Len(parts) : parts[k] = parts[k - 1] + 1
  PROVE /\ parts \o <<n>> \in Seq(Nat) /\ parts \o <<n>> # <<>>
        /\ Head(parts \o <<n>>) = Head(parts) /\ Last(parts \o <<n>>) = n
        /\ \A k \in 2..Len(parts \o <<n>>) : (parts \o <<n>>)[k] = (parts \o <<n>>)[k - 1] + 1
<1> DEFINE more == parts \o <<n>>
<1>1. /\ more \in Seq(Nat) /\ Len(more) = Len(parts) + 1 /\ more[Len(parts) + 1] = n
      /\ \A k \in 1..Len(parts) : more[k] = parts[k]
  OBVIOUS
<1>2. Len(parts) \in Nat /\ Len(parts) >= 1 /\ Head(parts) = parts[1]
  OBVIOUS
<1> HIDE DEF more
<1>3. more # <<>> /\ Head(more) = more[1] /\ more[1] = parts[1]
  BY <1>1, <1>2
<1>4. Last(more) = n /\ parts[Len(parts)] + 1 = n
  BY <1>1 DEF Last
<1>5. ASSUME NEW k \in 2..Len(more) PROVE more[k] = more[k - 1] + 1
  <2>1. CASE k = Len(parts) + 1
    <3>1. k - 1 = Len(parts) /\ k - 1 \in 1..Len(parts)
      BY <1>2, <2>1
    <3> QED
      BY <1>1, <1>4, <2>1, <3>1
  <2>2. CASE k # Len(parts) + 1
    <3>1. k \in 2..Len(parts) /\ k \in 1..Len(parts) /\ k - 1 \in 1..Len(parts)
      BY <1>1, <1>2, <2>2
    <3> QED
      BY <1>1, <3>1
  <2> QED
    BY <2>1, <2>2
<1> QED
  BY <1>1, <1>2, <1>3, <1>4, <1>5 DEF more

LEMMA MergeStep ==
  ASSUME SInv, NEW p \in Producers, Is(p, "delta"), Merge(p),
         UNCHANGED <<admitted, received, sent>>
  PROVE SInv'
<1> DEFINE i == LastOfBlock(p)  old == queue[i]  new == pending[p]
           r == [old EXCEPT !.parts = @ \o new.parts, !.size = @ + new.size]
<1>0. Looks(p) /\ new.kind = "delta" /\ new \in Record /\ new.key = p
      /\ new.parts = <<sent[p].delta>> /\ sent[p].delta \in Nat
  BY DEF Is, SInv, Pending, Looks, Numbers
<1>1. i # 0 /\ Last(old.parts) + 1 = Head(new.parts) /\ bytes + new.size <= MaxBytes
  BY DEF Merge, Mergeable
<1>2. queue' = ReplaceAt(queue, i, r) /\ bytes' = bytes + new.size /\ Go(p, "idle")
      /\ ~Go(p, "notify") /\ \A q \in Producers : q # p => pending'[q] = pending[q]
  BY DEF Merge, Return, SInv, Go
<1>3. pending' \in [Producers -> Record \cup {<<>>}]
  BY DEF Merge, Return, SInv
<1>4. i \in 1..Len(queue) /\ SameKey(old, new)
      /\ \A j \in 1..Len(queue) : SameKey(queue[j], new) => j <= i
  BY <1>1, Found
<1>5. /\ queue \in Seq(Record) /\ received \in Seq(Record) /\ Stream \in Seq(Record)
      /\ Ordered(Stream) /\ bytes = Weight(queue)
  BY DEF SInv, Sound
<1> HIDE DEF i
<1>6. old \in Record /\ old.kind = "delta" /\ old.key = p /\ Consecutive(old)
  <2>1. /\ Len(received) + i \in 1..Len(Stream) /\ Stream[Len(received) + i] = old
    BY <1>4, <1>5, StreamPlace DEF Stream
  <2>2. old \in Record /\ old.kind = "delta" /\ old.key = p
    BY <1>0, <1>4, <1>5 DEF SameKey
  <2> QED
    BY <1>5, <2>1, <2>2 DEF Ordered
<1>7. old.parts \in Seq(Nat) /\ old.size \in Nat /\ new.size \in Nat
  BY <1>0, <1>6 DEF Record
<1> DEFINE more == old.parts \o <<sent[p].delta>>
<1>8. /\ more \in Seq(Nat) /\ more # <<>> /\ Head(more) = Head(old.parts)
      /\ Last(more) = sent[p].delta
      /\ \A k \in 2..Len(more) : more[k] = more[k - 1] + 1
  <2>1. Head(new.parts) = sent[p].delta
    BY <1>0
  <2>2. old.parts # <<>> /\ \A k \in 2..Len(old.parts) : old.parts[k] = old.parts[k - 1] + 1
    BY <1>6 DEF Consecutive
  <2> DEFINE parts == old.parts  n == sent[p].delta
  <2>3. /\ parts \in Seq(Nat) /\ parts # <<>> /\ n \in Nat /\ Last(parts) + 1 = n
        /\ \A k \in 2..Len(parts) : parts[k] = parts[k - 1] + 1
    BY <1>0, <1>1, <1>7, <2>1, <2>2
  <2> HIDE DEF parts, n
  <2>4. /\ parts \o <<n>> \in Seq(Nat) /\ parts \o <<n>> # <<>>
        /\ Head(parts \o <<n>>) = Head(parts) /\ Last(parts \o <<n>>) = n
        /\ \A k \in 2..Len(parts \o <<n>>) :
             (parts \o <<n>>)[k] = (parts \o <<n>>)[k - 1] + 1
    BY ONLY <2>3, ChunkAdded
  <2> QED
    BY <2>4 DEF parts, n
<1>9. r.parts = more /\ r.size = old.size + new.size /\ r.kind = "delta" /\ r.key = p
      /\ r \in Record
  <2>2. r = [old EXCEPT !.parts = more, !.size = old.size + new.size]
    BY <1>0, <1>6 DEF Record
  <2>3. old.size + new.size \in Nat
    BY <1>7
  <2> DEFINE total == old.size + new.size
  <2>4. old \in Record /\ more \in Seq(Nat) /\ total \in Nat
    BY <1>6, <1>8, <2>3
  <2> HIDE DEF r, old, more, total
  <2>5. r = [old EXCEPT !.parts = more, !.size = total]
    BY <2>2 DEF total
  <2>6. r \in Record /\ r.parts = more /\ r.size = total /\ r.kind = old.kind /\ r.key = old.key
    BY <2>4, <2>5 DEF Record
  <2> QED
    BY <1>6, <2>6 DEF total
<1>10. bytes' = bytes - old.size + r.size
  <2>1. Weight(queue) \in Nat
    BY <1>5, WeightIsNumber
  <2> QED
    BY <1>2, <1>5, <1>7, <1>9, <2>1
<1>11. Consecutive(r) /\ Head(r.parts) = Head(old.parts) /\ Last(r.parts) = sent[p].delta
  BY <1>8, <1>9 DEF Consecutive
<1>12. \A j \in 1..Len(queue) : OfBlock(queue[j], r.key) => j <= i
  BY <1>0, <1>4, <1>9 DEF OfBlock, SameKey
<1> HIDE DEF r, old, new, more
<1>13. /\ Sound(queue', bytes', admitted, received \o queue')
       /\ \A b \in Producers, n \in Int :
            UpTo(Stream, b, n) /\ (OfBlock(r, b) => Last(r.parts) <= n)
            => UpTo(received \o queue', b, n)
  <2>1. r.kind = queue[i].kind /\ r.kind # "critical" /\ r.key = queue[i].key
        /\ Head(r.parts) = Head(queue[i].parts) /\ bytes' = bytes - queue[i].size + r.size
        /\ bytes' <= MaxBytes
    BY <1>1, <1>2, <1>6, <1>9, <1>10, <1>11 DEF old, new
  <2> QED
    BY <1>2, <1>4, <1>9, <1>11, <1>12, <2>1, ReplacedSound
<1>14. Stream' = received \o queue'
  BY DEF Stream
<1>15. ASSUME NEW b \in Producers, NEW n \in Int, UpTo(Stream, b, n), b = p => n = sent[p].delta
       PROVE UpTo(Stream', b, n)
  <2>1. OfBlock(r, b) => Last(r.parts) <= n
    BY <1>0, <1>9, <1>11, <1>15 DEF OfBlock
  <2> QED
    BY <1>13, <1>14, <1>15, <2>1
<1> QED
  BY <1>0, <1>2, <1>3, <1>13, <1>14, <1>15, StoringStep

LEMMA EmitStep ==
  ASSUME SInv, NEW p \in Producers, Emit(p)
  PROVE SInv'
<1>1. PICK r \in New(p) : pending' = [pending EXCEPT ![p] = r]
                          /\ sent' = [sent EXCEPT ![p][r.kind] = @ + 1]
  BY DEF Emit
<1>2. PICK o \in Offers[p] :
        r = [from |-> p, kind |-> o.kind, key |-> o.key, size |-> o.size,
             parts |-> <<sent[p][o.kind] + 1>>]
  BY <1>1 DEF New
<1>3. /\ o.size \in Nat /\ o.kind \in {"critical", "latest", "delta"}
      /\ o.key \in Keys \cup Producers /\ (o.kind = "delta" => o.key = p)
  BY Limits
<1>4. sent[p] \in [critical: Nat, latest: Nat, delta: Nat] /\ sent[p][o.kind] \in Nat
  BY <1>3 DEF SInv, Numbers
<1>5. r \in Record
  <2>1. <<sent[p][o.kind] + 1>> \in Seq(Nat)
    BY <1>4
  <2> QED
    BY <1>2, <1>3, <2>1 DEF Record
<1>6. /\ sent' \in Numbers
      /\ \A q \in Producers : sent'[q].delta = IF q = p /\ o.kind = "delta"
                                               THEN sent[q].delta + 1 ELSE sent[q].delta
  <2>1. sent'[p] \in [critical: Nat, latest: Nat, delta: Nat]
        /\ sent'[p].delta = IF o.kind = "delta" THEN sent[p].delta + 1 ELSE sent[p].delta
    <3>1. sent'[p] = [sent[p] EXCEPT ![o.kind] = @ + 1]
      BY <1>1, <1>2 DEF SInv, Numbers
    <3> QED
      BY <1>3, <1>4, <3>1
  <2>2. \A q \in Producers : q # p => sent'[q] = sent[q]
    BY <1>1 DEF SInv, Numbers
  <2>3. DOMAIN sent' = Producers
    BY <1>1 DEF SInv, Numbers
  <2>4. sent' = [q \in Producers |-> sent'[q]]
    BY <1>1, <2>3 DEF SInv, Numbers
  <2>5. \A q \in Producers : sent'[q] \in [critical: Nat, latest: Nat, delta: Nat]
    BY <2>1, <2>2 DEF SInv, Numbers
  <2> QED
    BY <2>1, <2>2, <2>4, <2>5 DEF Numbers
<1>7. /\ at' \in [Producers -> {"idle", "check", "again", "gap", "parked", "expired", "tell",
                                "notify"}]
      /\ at[p] = "idle" /\ at'[p] = "check" /\ \A q \in Producers : q # p => at'[q] = at[q]
      /\ UNCHANGED <<queue, bytes, admitted, received>> /\ Stream' = Stream
  BY DEF Emit, Go, SInv, sink, Stream
<1>8. /\ pending' \in [Producers -> Record \cup {<<>>}]
      /\ pending'[p] = r /\ \A q \in Producers : q # p => pending'[q] = pending[q]
  BY <1>1, <1>5 DEF SInv
<1>9. ASSUME NEW q \in Producers PROVE Pending(q)' /\ Numbered(q)'
  <2>1. CASE q = p
    <3>1. Pending(p)'
      BY <1>2, <1>3, <1>4, <1>5, <1>6, <1>7, <1>8 DEF Pending
    <3>2. UpTo(Stream, p, sent[p].delta) /\ sent[p].delta \in Nat
      BY <1>4 DEF SInv, Numbered
    <3>3. UpTo(Stream, p, sent'[p].delta)
      BY <1>6, <3>2, UpToLater DEF SInv, Sound
    <3>4. o.kind = "delta" => sent'[p].delta - 1 = sent[p].delta
      BY <1>6, <3>2
    <3>5. Is(p, "delta")' => UpTo(Stream, p, sent'[p].delta - 1)
      BY <1>2, <1>8, <3>2, <3>4 DEF Is
    <3> QED
      BY <1>7, <2>1, <3>1, <3>3, <3>5 DEF Numbered
  <2>2. CASE q # p
    BY <1>6, <1>7, <1>8, <2>2 DEF SInv, Pending, Numbered, Is, Looks
  <2> QED
    BY <2>1, <2>2
<1> QED
  BY <1>6, <1>7, <1>8, <1>9 DEF SInv

LEMMA FinishStores ==
  ASSUME SInv, NEW p \in Producers, Finish(p)
  PROVE SInv'
<1> DEFINE Moves(where) ==
      /\ at[p] # "idle" /\ Go(p, where)
      /\ where = "idle" \/ (pending[p].kind = "critical" /\ UNCHANGED pending)
      /\ pending' \in [Producers -> Record \cup {<<>>}]
      /\ \A q \in Producers : q # p => pending'[q] = pending[q]
      /\ UNCHANGED <<queue, bytes, admitted, received, sent>>
<1>1. ASSUME NEW where \in {"idle", "again", "gap", "parked", "expired", "tell"}, Moves(where)
      PROVE SInv'
  BY <1>1, MovingStep
<1> USE DEF sink, history
<1>2. CASE Refuse(p)
  <2>1. Moves("idle")
    BY <1>2 DEF Refuse, Looks, Return, SInv
  <2> QED
    BY <1>1, <2>1
<1>3. CASE AdmitCritical(p)
  <2>1. admitted' = Picked(admitted, pending[p])
    BY <1>3 DEF AdmitCritical, Is, Picked
  <2> QED
    BY <1>3, <2>1, PushStep DEF AdmitCritical, Is
<1>4. CASE NoRoom(p)
  <2>1. Moves("gap")
    BY <1>4 DEF NoRoom, Is, Looks, SInv
  <2> QED
    BY <1>1, <2>1
<1>5. CASE Park(p)
  <2>1. Moves("parked")
    BY <1>5 DEF Park, SInv, Pending
  <2> QED
    BY <1>1, <2>1
<1>6. CASE Wake(p)
  <2>1. Moves("again")
    BY <1>6 DEF Wake, SInv, Pending
  <2> QED
    BY <1>1, <2>1
<1>7. CASE Deadline(p)
  <2>1. Moves("expired")
    BY <1>7 DEF Deadline, SInv, Pending
  <2> QED
    BY <1>1, <2>1
<1>8. CASE Detach(p)
  <2>1. Moves("tell")
    BY <1>8 DEF Detach, SInv, Pending
  <2> QED
    BY <1>1, <2>1
<1>9. CASE TellDetached(p)
  <2>1. Moves("idle")
    BY <1>9 DEF TellDetached, Return, SInv
  <2> QED
    BY <1>1, <2>1
<1>10. CASE NotifyOne(p)
  <2>1. Moves("idle")
    BY <1>10 DEF NotifyOne, Return, SInv
  <2> QED
    BY <1>1, <2>1
<1>11. ASSUME Is(p, "latest") \/ Is(p, "delta"), PushSmall(p), UNCHANGED history
       PROVE SInv'
  <2>1. admitted' = Picked(admitted, pending[p]) /\ Looks(p)
    BY <1>11 DEF Is, Picked
  <2> QED
    BY <1>11, <2>1, PushStep DEF PushSmall
<1>12. ASSUME Is(p, "latest") \/ Is(p, "delta"), Drop(p), UNCHANGED history
       PROVE SInv'
  BY <1>12, DropStep DEF Is
<1>13. CASE EmitLatest(p)
  BY <1>11, <1>12, <1>13, ReplaceStep, EvictStep DEF EmitLatest
<1>14. CASE EmitDelta(p)
  BY <1>11, <1>12, <1>14, MergeStep DEF EmitDelta
<1> QED
  BY <1>2, <1>3, <1>4, <1>5, <1>6, <1>7, <1>8, <1>9, <1>10, <1>13, <1>14 DEF Finish

LEMMA PopStores ==
  ASSUME SInv, Pop
  PROVE SInv'
<1>1. /\ queue \in Seq(Record) /\ received \in Seq(Record) /\ bytes = Weight(queue)
      /\ Len(queue) <= MaxRecords /\ bytes <= MaxBytes /\ queue # <<>>
  BY DEF SInv, Sound, Pop
<1>2. queue' = Tail(queue) /\ bytes' = bytes - Head(queue).size
      /\ received' = Append(received, Head(queue))
      /\ UNCHANGED <<admitted, sent, at, pending>>
  BY DEF Pop
<1>3. Stream' = Stream
  BY <1>1, <1>2, StreamOfReceived DEF Stream
<1>4. Tail(queue) \in Seq(Record) /\ Weight(Tail(queue)) = bytes'
  BY <1>1, <1>2, WeightOfTail
<1>5. bytes' <= MaxBytes
  <2>1. queue[1] \in Record /\ queue[1].size \in Nat /\ Head(queue) = queue[1]
    BY <1>1, SizesAreNumbers
  <2>2. bytes \in Nat /\ MaxBytes \in Nat
    BY <1>1, WeightIsNumber, Limits
  <2> QED
    BY <1>1, <1>2, <2>1, <2>2
<1>6. Len(Tail(queue)) <= MaxRecords
  BY <1>1, Limits
<1>7. received' \in Seq(Record)
  BY <1>1, <1>2
<1>8. Sound(queue', bytes', admitted', Stream')
  BY <1>2, <1>3, <1>4, <1>5, <1>6 DEF SInv, Sound
<1> QED
  BY <1>2, <1>3, <1>7, <1>8 DEF SInv, Pending, Numbered, Is, Looks

LEMMA StillStores ==
  ASSUME SInv, UNCHANGED <<queue, bytes, admitted, received, sent, at, pending>>
  PROVE SInv'
<1>1. Stream' = Stream
  BY DEF Stream
<1> QED
  BY <1>1 DEF SInv, Pending, Numbered, Is, Looks

LEMMA StepSInv == SInv /\ [Next]_vars => SInv'
<1> SUFFICES ASSUME SInv, [Next]_vars PROVE SInv'
  OBVIOUS
<1> DEFINE Still == UNCHANGED <<queue, bytes, admitted, received, sent, at, pending>>
<1>1. CASE Receive \/ TryReceive
  BY <1>1, PopStores DEF Receive, TryReceive
<1>2. CASE CallRecv \/ Announce \/ Closed \/ NothingYet \/ ParkReader \/ WakeReader \/ UNCHANGED vars
  <2>1. Still
    BY <1>2 DEF CallRecv, Announce, Closed, NothingYet, ParkReader, WakeReader, vars, sink, history
  <2> QED
    BY <2>1, StillStores
<1> QED
  BY <1>1, <1>2, EmitStep, FinishStores DEF Next, Receiving

\* Both bounds of the queue hold and queued_bytes is the sum of what is queued, after any
\* sequence of pushes, replacements, merges, evictions and receives (SinkState).
THEOREM SpecWithinBounds == Spec => []WithinBounds
<1>1. SInv => WithinBounds
  BY DEF SInv, Sound, WithinBounds
<1> QED
  BY StartSInv, StepSInv, <1>1, PTL DEF Spec

\* No admitted critical record is lost, repeated or overtaken by another critical one,
\* whatever is evicted, merged or replaced around it (emit, recv).
THEOREM SpecCriticalExactlyOnce == Spec => []CriticalExactlyOnce
<1>1. SInv => CriticalExactlyOnce
  BY DEF SInv, Sound, CriticalExactlyOnce
<1> QED
  BY StartSInv, StepSInv, <1>1, PTL DEF Spec

\* The chunks of a block reach the consumer in their order, none twice, and a merged
\* record has no gap (merge_appendable).
THEOREM SpecDeltasInOrder == Spec => []DeltasInOrder
<1>1. SInv => DeltasInOrder
  <2> SUFFICES ASSUME SInv, NEW i \in DOMAIN Stream, NEW j \in DOMAIN Stream,
                      Stream[i].kind = "delta"
               PROVE /\ \A k \in 2..Len(Stream[i].parts) :
                          Stream[i].parts[k] = Stream[i].parts[k - 1] + 1
                     /\ i < j /\ Stream[j].kind = "delta" /\ Stream[j].key = Stream[i].key
                        => Last(Stream[i].parts) < Head(Stream[j].parts)
    BY DEF DeltasInOrder
  <2>1. Ordered(Stream) /\ i \in 1..Len(Stream) /\ j \in 1..Len(Stream)
    BY DEF SInv, Sound
  <2> QED
    BY <2>1 DEF Ordered, Consecutive, OfBlock
<1> QED
  BY StartSInv, StepSInv, <1>1, PTL DEF Spec

\* The two counters and the sets of the notifies.
Counted == coalesced \in Nat /\ dropped \in Nat /\ heard \subseteq Producers

LEMMA StepCounted == Counted /\ [Next]_vars => Counted'
<1> SUFFICES ASSUME Counted, [Next]_vars PROVE Counted'
  OBVIOUS
<1> USE DEF Counted, sink, notify, history
<1>1. ASSUME NEW p \in Producers, EmitLatest(p) \/ EmitDelta(p) PROVE Counted'
  <2>1. ASSUME Coalesces PROVE coalesced' \in Nat /\ dropped' \in Nat
    BY <2>1 DEF Coalesces
  <2>2. ASSUME NEW n \in Nat, Drops(n) PROVE coalesced' \in Nat /\ dropped' \in Nat
    BY <2>2 DEF Drops
  <2>3. ASSUME Drop(p) PROVE coalesced' \in Nat /\ dropped' \in Nat
    BY <2>2, <2>3 DEF Drop
  <2>4. ASSUME PushSmall(p) PROVE coalesced' \in Nat /\ dropped' \in Nat
    BY <2>4 DEF PushSmall
  <2>5. ASSUME Evict(p) PROVE coalesced' \in Nat /\ dropped' \in Nat
    <3>1. Drops(1) \/ Drops(2)
      BY <2>5 DEF Evict
    <3> QED
      BY <2>2, <3>1
  <2>6. heard' = heard
    BY <1>1 DEF EmitLatest, EmitDelta
  <2>7. coalesced' \in Nat /\ dropped' \in Nat
    BY <1>1, <2>1, <2>3, <2>4, <2>5 DEF EmitLatest, EmitDelta, Replace, Merge
  <2> QED
    BY <2>6, <2>7
<1>2. ASSUME NEW p \in Producers, Finish(p) PROVE Counted'
  BY <1>1, <1>2 DEF Finish, Refuse, AdmitCritical, NoRoom, Park, Wake, Deadline, Detach,
     TellDetached, WakeProducers, NotifyOne
<1>3. ASSUME NEW p \in Producers, Emit(p) PROVE Counted'
  BY <1>3 DEF Emit
<1> QED
  BY <1>2, <1>3 DEF Next, CallRecv, TryReceive, Receiving, Receive, Pop, Announce,
     WakeProducers, Closed, NothingYet, ParkReader, WakeReader, vars

\* The types of all variables: queued_bytes never goes below zero.
THEOREM SpecTypeOK == Spec => []TypeOK
<1>1. Init => Counted
  BY DEF Init, Counted
<1>2. SInv /\ IInv /\ Counted => TypeOK
  <2>1. ASSUME SInv PROVE bytes \in Nat
    BY <2>1, WeightIsNumber DEF SInv, Sound
  <2> QED
    BY <2>1 DEF SInv, Sound, Numbers, IInv, Places, Counted, TypeOK
<1> QED
  BY StartSInv, StepSInv, StartIInv, StepIInv, StepCounted, <1>1, <1>2, PTL DEF Spec
=============================================================================
