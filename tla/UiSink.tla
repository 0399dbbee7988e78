------------------------------- MODULE UiSink -------------------------------
(***************************************************************************)
(* The bounded queue between the engine and a user interface               *)
(* (ui_contract/sink.rs, ChannelUiSink): any number of producers, one       *)
(* consumer.  Everything done under the one mutex is a single step; the     *)
(* two tokio Notify handles are used outside it, and their steps are apart. *)
(*                                                                         *)
(* A critical record waits for room, gives up after a deadline and then    *)
(* closes the sink.  A latest-only record replaces an older one with its   *)
(* key or evicts; a delta is merged into the last record of its block or   *)
(* dropped.                                                                *)
(***************************************************************************)
EXTENDS SequencesExt

CONSTANTS Producers,  \* tasks that call emit
          Keys,       \* coalesce keys of latest-only records
          Offers,     \* what each task emits: records without their numbers
          MaxRecords, \* SINK_QUEUE_RECORDS
          MaxBytes,   \* SINK_QUEUE_BYTES
          MaxMerge,   \* APPEND_MERGE_MAX_BYTES, in chunks
          MaxEmits    \* bound: records emitted altogether

ASSUME Limits ==
  /\ MaxRecords \in Nat \ {0} /\ MaxBytes \in Nat \ {0} /\ MaxMerge \in Nat \ {0}
  /\ MaxEmits \in Nat
  /\ \A p \in Producers : \A r \in Offers[p] :
       /\ r.size \in Nat \ {0}
       /\ IF r.kind = "latest" THEN r.key \in Keys
                              ELSE r.kind \in {"critical", "delta"} /\ r.key = p

VARIABLES
  queue, bytes,         \* SinkState.queue, queued_bytes
  detached,             \* detached and receiver_closed, which change together
  coalesced, dropped,   \* the two counters
  at,        \* where a producer is in emit
  pending,   \* the record it emits
  heard,     \* the producers whose Notified future has been woken
  permit,    \* consumer_notify holds a permit
  reader,    \* where the consumer is in recv
  woken,     \* its Notified future was woken by notify_waiters
  sent,      \* history: how many records of a kind a producer has emitted
  admitted,  \* history: the critical records whose emit has pushed them
  received   \* history: what recv and try_recv have returned

sink == <<queue, bytes, detached, coalesced, dropped>>
notify == <<heard, permit, woken>>
history == <<sent, admitted, received>>
vars == <<sink, notify, at, pending, reader, history>>

-----------------------------------------------------------------------------
(* Records. *)

\* priority and coalesce_key; a delta's block belongs to one producer.  parts are
\* the numbers, within its producer and kind, of the payloads the record carries.
Record == [from: Producers, kind: {"critical", "latest", "delta"},
           key: Keys \cup Producers, size: Nat, parts: Seq(Nat)]

SameKey(r, q) == r.kind = q.kind /\ r.kind # "critical" /\ r.key = q.key

\* The records the producer may emit next.
New(p) == {[from |-> p, kind |-> r.kind, key |-> r.key, size |-> r.size,
            parts |-> <<sent[p][r.kind] + 1>>] : r \in Offers[p]}

Fits(size) == Len(queue) < MaxRecords /\ bytes + size <= MaxBytes

-----------------------------------------------------------------------------
(* emit. *)

\* It has called emit and waits for the mutex, for the first time or "again".
Looks(p) == at[p] \in {"check", "again"}
Is(p, kind) == Looks(p) /\ pending[p].kind = kind
Go(p, where) == at' = [at EXCEPT ![p] = where]
Return(p) == Go(p, "idle") /\ pending' = [pending EXCEPT ![p] = <<>>]

\* Notify::notify_one on consumer_notify: it wakes the waiting future or stores one
\* permit for the next.
NotifyConsumer ==
  IF reader = "parked" /\ ~woken THEN woken' = TRUE /\ UNCHANGED permit
                                 ELSE permit' = TRUE /\ UNCHANGED woken

Emitted == MapThenSumSet(LAMBDA p : sent[p].critical + sent[p].latest + sent[p].delta,
                         Producers)

\* The caller hands a valid record to emit.
Emit(p) ==
  /\ at[p] = "idle" /\ Emitted < MaxEmits
  /\ \E r \in New(p) : /\ pending' = [pending EXCEPT ![p] = r]
                       /\ sent' = [sent EXCEPT ![p][r.kind] = @ + 1]
  /\ Go(p, "check")
  /\ UNCHANGED <<sink, notify, reader, admitted, received>>

\* Err(Detached), whatever the record.
Refuse(p) ==
  /\ Looks(p) /\ detached
  /\ Return(p)
  /\ UNCHANGED <<sink, notify, reader, history>>

Push(p) ==
  /\ queue' = Append(queue, pending[p])
  /\ bytes' = bytes + pending[p].size

\* Bug: a critical emission that was woken takes the slot without a second look.
AdmitWoken(p) ==
  /\ Is(p, "critical") /\ ~detached /\ (at[p] = "again" \/ Fits(pending[p].size))
  /\ Push(p)
  /\ admitted' = Append(admitted, pending[p])
  /\ Go(p, "notify")
  /\ UNCHANGED <<detached, coalesced, dropped, notify, pending, reader, sent, received>>

\* Bug: a record admitted after a wait returns without a word to the consumer.
AdmitUntold(p) ==
  /\ Is(p, "critical") /\ ~detached /\ Fits(pending[p].size)
  /\ Push(p)
  /\ admitted' = Append(admitted, pending[p])
  /\ IF at[p] = "again" THEN Return(p) ELSE Go(p, "notify") /\ UNCHANGED pending
  /\ UNCHANGED <<detached, coalesced, dropped, notify, reader, sent, received>>

\* A critical record finds room.
AdmitCritical(p) ==
  /\ Is(p, "critical") /\ ~detached /\ Fits(pending[p].size)
  /\ Push(p)
  /\ admitted' = Append(admitted, pending[p])
  /\ Go(p, "notify")
  /\ UNCHANGED <<detached, coalesced, dropped, notify, pending, reader, sent, received>>

\* It finds none: the mutex is released before the Notified future exists.
NoRoom(p) ==
  /\ Is(p, "critical") /\ ~detached /\ ~Fits(pending[p].size)
  /\ Go(p, "gap")
  /\ UNCHANGED <<sink, notify, pending, reader, history>>

\* capacity_notify.notified().await: only a later notify_waiters wakes it.
Park(p) ==
  /\ at[p] = "gap"
  /\ Go(p, "parked") /\ heard' = heard \ {p}
  /\ UNCHANGED <<sink, permit, woken, pending, reader, history>>

Wake(p) ==
  /\ at[p] = "parked" /\ p \in heard
  /\ Go(p, "again")
  /\ UNCHANGED <<sink, notify, pending, reader, history>>

\* CRITICAL_WAIT_TIMEOUT passes at the notify or, after a wake-up, at the mutex; a
\* notify that has come is polled before the deadline.
\* Bug: no deadline at the notify.
DeadlineAwake(p) ==
  /\ at[p] = "again"
  /\ Go(p, "expired")
  /\ UNCHANGED <<sink, notify, pending, reader, history>>
Deadline(p) ==
  /\ at[p] = "again" \/ (at[p] = "parked" /\ p \notin heard)
  /\ Go(p, "expired")
  /\ UNCHANGED <<sink, notify, pending, reader, history>>

Detach(p) ==
  /\ at[p] = "expired"
  /\ detached' = TRUE
  /\ Go(p, "tell")
  /\ UNCHANGED <<queue, bytes, coalesced, dropped, notify, pending, reader, history>>

WakeProducers == heard' = heard \cup {p \in Producers : at[p] = "parked"}

\* notify_waiters on both handles, then Err(CriticalDeadlineExceeded).
TellDetached(p) ==
  /\ at[p] = "tell"
  /\ woken' = (woken \/ reader = "parked")
  /\ WakeProducers
  /\ Return(p)
  /\ UNCHANGED <<sink, permit, reader, history>>

\* consumer_notify.notify_one, then Ok.
NotifyOne(p) ==
  /\ at[p] = "notify"
  /\ NotifyConsumer
  /\ Return(p)
  /\ UNCHANGED <<sink, heard, reader, history>>

-----------------------------------------------------------------------------
(* The records that never wait. *)

Older(p) == SelectInSeq(queue, LAMBDA q : SameKey(q, pending[p]))
LastOfBlock(p) == SelectLastInSeq(queue, LAMBDA q : SameKey(q, pending[p]))
\* Bug: any record is evicted.
OldestOfAll == IF queue = <<>> THEN 0 ELSE 1
Oldest == SelectInSeq(queue, LAMBDA q : q.kind # "critical")

Coalesces == coalesced' = coalesced + 1 /\ UNCHANGED dropped
Drops(n) == dropped' = dropped + n /\ UNCHANGED coalesced

Drop(p) ==
  /\ Drops(1)
  /\ Return(p)
  /\ UNCHANGED <<queue, bytes>>

PushSmall(p) ==
  /\ Fits(pending[p].size)
  /\ Push(p)
  /\ Go(p, "notify")
  /\ UNCHANGED <<coalesced, dropped, pending>>

\* replace_latest: the newer payload takes the older one's place, or is dropped.
Replaced(p) ==
  bytes - queue[Older(p)].size + pending[p].size

Replace(p) ==
  /\ Older(p) # 0
  /\ \/ /\ Replaced(p) <= MaxBytes
        /\ queue' = ReplaceAt(queue, Older(p), pending[p])
        /\ bytes' = Replaced(p)
        /\ Coalesces
        /\ Go(p, "notify") /\ UNCHANGED pending
     \/ Replaced(p) > MaxBytes /\ Drop(p)

\* evict_older_non_critical and a second look; the record evicted stays evicted
\* when there is still no room.
Evict(p) ==
  /\ pending[p].size <= MaxBytes /\ ~Fits(pending[p].size) /\ Oldest # 0
  /\ LET left == bytes - queue[Oldest].size
         room == left + pending[p].size <= MaxBytes
     IN /\ queue' = IF room THEN Append(RemoveAt(queue, Oldest), pending[p])
                            ELSE RemoveAt(queue, Oldest)
        /\ bytes' = IF room THEN left + pending[p].size ELSE left
        /\ Drops(IF room THEN 1 ELSE 2)
        /\ IF room THEN Go(p, "notify") /\ UNCHANGED pending ELSE Return(p)

EmitLatest(p) ==
  /\ Is(p, "latest") /\ ~detached
  /\ \/ Replace(p)
     \/ Older(p) = 0 /\ PushSmall(p)
     \/ Older(p) = 0 /\ Evict(p)
     \/ /\ Older(p) = 0 /\ ~Fits(pending[p].size)
        /\ pending[p].size > MaxBytes \/ Oldest = 0
        /\ Drop(p)
  /\ UNCHANGED <<detached, notify, reader, history>>

\* Bug: chunks merge across a gap.
MergeableAcrossGap(p) ==
  /\ LastOfBlock(p) # 0
  /\ Len(queue[LastOfBlock(p)].parts) + Len(pending[p].parts) <= MaxMerge
  /\ bytes + pending[p].size <= MaxBytes

\* merge_appendable: only into the last record of the block, only when the chunks
\* are adjacent, and only within both byte bounds.
Mergeable(p) ==
  /\ LastOfBlock(p) # 0
  /\ LET q == queue[LastOfBlock(p)]
     IN /\ Last(q.parts) + 1 = Head(pending[p].parts)
        /\ Len(q.parts) + Len(pending[p].parts) <= MaxMerge
  /\ bytes + pending[p].size <= MaxBytes

\* notify_one is called under the mutex here.
Merge(p) ==
  /\ Mergeable(p)
  /\ LET i == LastOfBlock(p)
         merged == [queue[i] EXCEPT !.parts = @ \o pending[p].parts,
                                    !.size = @ + pending[p].size]
     IN queue' = ReplaceAt(queue, i, merged)
  /\ bytes' = bytes + pending[p].size
  /\ Coalesces
  /\ NotifyConsumer
  /\ Return(p)

EmitDelta(p) ==
  /\ Is(p, "delta") /\ ~detached
  /\ \/ Merge(p)
     \/ ~Mergeable(p) /\ PushSmall(p) /\ UNCHANGED <<permit, woken>>
     \/ ~Mergeable(p) /\ ~Fits(pending[p].size) /\ Drop(p) /\ UNCHANGED <<permit, woken>>
  /\ UNCHANGED <<detached, heard, reader, history>>

-----------------------------------------------------------------------------
(* recv and try_recv. *)

Pop ==
  /\ queue # <<>> /\ ~detached
  /\ queue' = Tail(queue) /\ bytes' = bytes - Head(queue).size
  /\ received' = Append(received, Head(queue))
  /\ reader' = "announce"
  /\ UNCHANGED <<detached, coalesced, dropped, notify, at, pending, sent, admitted>>

CallRecv ==
  /\ reader = "idle"
  /\ reader' = "look"
  /\ UNCHANGED <<sink, notify, at, pending, history>>

Receive == reader = "look" /\ Pop
TryReceive == reader = "idle" /\ Pop

\* capacity_notify.notify_waiters, after the mutex is released.
Announce ==
  /\ reader = "announce"
  /\ WakeProducers
  /\ reader' = "idle"
  /\ UNCHANGED <<sink, permit, woken, at, pending, history>>

\* recv returns None.
Closed ==
  /\ reader = "look" /\ detached
  /\ reader' = "closed"
  /\ UNCHANGED <<sink, notify, at, pending, history>>

\* The queue is empty: the mutex is released before the Notified future exists.
NothingYet ==
  /\ reader = "look" /\ queue = <<>> /\ ~detached
  /\ reader' = "gap"
  /\ UNCHANGED <<sink, notify, at, pending, history>>

ParkReader ==
  /\ reader = "gap"
  /\ reader' = IF permit THEN "look" ELSE "parked"
  /\ permit' = FALSE
  /\ UNCHANGED <<sink, heard, woken, at, pending, history>>

WakeReader ==
  /\ reader = "parked" /\ woken
  /\ reader' = "look" /\ woken' = FALSE
  /\ UNCHANGED <<sink, heard, permit, at, pending, history>>

-----------------------------------------------------------------------------
Init ==
  /\ queue = <<>> /\ bytes = 0 /\ detached = FALSE /\ coalesced = 0 /\ dropped = 0
  /\ at = [p \in Producers |-> "idle"] /\ pending = [p \in Producers |-> <<>>]
  /\ heard = {} /\ permit = FALSE /\ reader = "idle" /\ woken = FALSE
  /\ sent = [p \in Producers |-> [critical |-> 0, latest |-> 0, delta |-> 0]]
  /\ admitted = <<>> /\ received = <<>>

\* What a producer that has called emit does next.
Finish(p) ==
  \/ Refuse(p) \/ AdmitCritical(p) \/ NoRoom(p) \/ Park(p) \/ Wake(p) \/ Deadline(p)
  \/ Detach(p) \/ TellDetached(p) \/ NotifyOne(p) \/ EmitLatest(p) \/ EmitDelta(p)

\* What a consumer that has called recv does next.
Receiving ==
  Receive \/ Announce \/ Closed \/ NothingYet \/ ParkReader \/ WakeReader

Next ==
  \/ \E p \in Producers : Emit(p) \/ Finish(p)
  \/ CallRecv \/ TryReceive \/ Receiving

Spec == Init /\ [][Next]_vars

\* tokio polls a task that can run and fires a timer that is due.
FairSpec == Spec /\ (\A p \in Producers : WF_vars(Finish(p))) /\ WF_vars(Receiving)

-----------------------------------------------------------------------------
(* Properties. *)

\* Types of every variable (SinkState, Notify and the tasks).
TypeOK ==
  /\ queue \in Seq(Record) /\ bytes \in Nat /\ detached \in BOOLEAN
  /\ coalesced \in Nat /\ dropped \in Nat
  /\ at \in [Producers -> {"idle", "check", "again", "gap", "parked", "expired", "tell", "notify"}]
  /\ pending \in [Producers -> Record \cup {<<>>}]
  /\ heard \subseteq Producers /\ permit \in BOOLEAN /\ woken \in BOOLEAN
  /\ reader \in {"idle", "look", "gap", "parked", "announce", "closed"}
  /\ sent \in [Producers -> [critical: Nat, latest: Nat, delta: Nat]]
  /\ admitted \in Seq(Record) /\ received \in Seq(Record)

Weight(records) == FoldLeft(LAMBDA sum, r : sum + r.size, 0, records)
OnlyCritical(records) ==
  FoldLeft(LAMBDA found, r : IF r.kind = "critical" THEN Append(found, r) ELSE found,
           <<>>, records)

\* The queue keeps both of its bounds, and queued_bytes, which every operation
\* corrects by a difference, is what the queued records weigh.
WithinBounds ==
  /\ Len(queue) <= MaxRecords /\ bytes <= MaxBytes
  /\ bytes = Weight(queue)

Stream == received \o queue

\* Critical records are never coalesced, dropped or delayed by others: what the
\* consumer has received, with what is still queued for it, is what was admitted, in that
\* order, once.  (After a detach the rest of the queue stays where it is.)
CriticalExactlyOnce == OnlyCritical(Stream) = admitted

\* A delta record carries consecutive chunks, and the chunks of a block reach the
\* consumer in the order of the provider's stream, none of them twice.
DeltasInOrder ==
  \A i, j \in DOMAIN Stream :
    LET r == Stream[i]  q == Stream[j]
    IN r.kind = "delta" =>
         /\ \A k \in 2..Len(r.parts) : r.parts[k] = r.parts[k - 1] + 1
         /\ i < j /\ q.kind = "delta" /\ q.key = r.key => Last(r.parts) < Head(q.parts)

\* A consumer that goes to sleep beside a queued record has a wake-up on its way: no
\* notify_one is lost between its look at the queue and its await.
ReaderIsAwake ==
  queue # <<>> /\ ~detached =>
    /\ reader = "gap" => permit \/ \E p \in Producers : at[p] = "notify"
    /\ reader = "parked" => woken \/ \E p \in Producers : at[p] = "notify"

\* emit returns, with Ok or an error, whatever the consumer does.
EmitReturns == \A p \in Producers : at[p] # "idle" ~> at[p] = "idle"

\* "Free one slot; the waiting critical emission completes without loss": a critical
\* emission asleep while its record fits has been woken, or is about to be.
WaiterSeesRoom ==
  \A p \in Producers :
    at[p] = "parked" /\ Fits(pending[p].size) /\ ~detached
    => p \in heard \/ reader = "announce"

\* The same promise for room that appears while the emission sleeps: whatever makes
\* it, a receive, an eviction or a smaller payload, wakes the emission.
RoomWakesWaiters ==
  [][\A p \in Producers :
       /\ at[p] = "parked" /\ at'[p] = "parked" /\ ~Fits(pending[p].size)
       /\ Fits(pending[p].size)'
       => p \in heard' \/ reader' = "announce"]_vars

\* "Returns None once the sink detaches": recv returns.
DetachClosesReceiver == detached ~> reader = "closed"
=============================================================================
