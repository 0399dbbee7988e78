-------------------------- MODULE HistoryDatabase --------------------------
(***************************************************************************)
(* A session's history.db beside its event log: the artifact store, the    *)
(* derived projection with its checkpoint, the rebuild that replaces the   *)
(* file, and the search whose cursor lives in the conversation.  One       *)
(* process at a time holds the log's lock; it may be killed between any    *)
(* two steps, also inside an append, and the power may fail.               *)
(***************************************************************************)
EXTENDS HistoryProjection, FiniteSetsExt

CONSTANTS
  MaxEvents,     \* bound: events in the log
  MaxCalls,      \* bound: tool calls in the log
  MaxRebuilds,   \* bound: rebuilds asked for
  MaxKills,      \* bound: kills
  MaxLosses      \* bound: power losses

ASSUME BoundAssumption ==
  {MaxEvents, MaxCalls, MaxRebuilds, MaxKills, MaxLosses} \subseteq Nat

VARIABLES
  events,   \* the log, as the next opener reads it
  synced,   \* how many of its events have reached the medium
  main,     \* history.db
  rebuild,  \* history.db.rebuild
  foreign,  \* does the write-ahead log of a file moved aside lie beside the name history.db?
  pc,       \* what the process that holds the log does
  held,     \* the call whose artifact is stored and whose finish event is not
  chain,    \* the search whose pages are being read
  rebuilds, kills, losses

log == <<events, synced>>
files == <<main, rebuild, foreign>>
counts == <<rebuilds, kills, losses>>
vars == <<log, files, pc, held, chain, counts>>

Missing == [name |-> "missing"]
Partial == [name |-> "partial"] \* an unfinished rebuild
Mixed == [name |-> "mixed"]     \* a file overlaid with another file's write-ahead log
Usable(file) == file \notin {Missing, Partial, Mixed}

NoChain == [snapshot |-> 0, epoch |-> 0, seen |-> <<>>, done |-> FALSE, phantom |-> FALSE]

Life == kills + losses

-----------------------------------------------------------------------------
(* The log, as replay reads it *)

Event(kind, turn, body, sources) ==
  [kind |-> kind, life |-> Life, turn |-> turn, call |-> NoId, body |-> body,
   sources |-> sources]

EventsOf(kind) == {i \in DOMAIN events : events[i].kind = kind}

ActiveTurn ==
  LET open == {i \in EventsOf("turn") :
                 \A j \in EventsOf("close") : events[j].turn # Id(events, i)}
  IN IF open = {} THEN NoId ELSE Id(events, Max(open))

Finished(c) == \E j \in EventsOf("finish") : events[j].call = Id(events, c)
Unfinished == {c \in EventsOf("call") : ~Finished(c)}

Epoch == Cardinality(EventsOf("reset"))

\* Closed turns since the last reset that no compaction has retired.
Retirable ==
  {t \in {events[j].turn : j \in EventsOf("close")} :
     /\ \A j \in EventsOf("reset") : j < t[1]
     /\ \A j \in EventsOf("compact") : t \notin events[j].sources}

-----------------------------------------------------------------------------
Init ==
  /\ events = <<>> /\ synced = 0
  /\ main = Missing /\ rebuild = Missing /\ foreign = FALSE
  /\ pc = "away" /\ held = 0
  /\ chain = NoChain
  /\ rebuilds = 0 /\ kills = 0 /\ losses = 0

Go(where) == pc' = where

\* An event is appended; the process goes on when the line is on the medium, and may be
\* killed with the line written and not synced.  The next opener accepts such a line.
Write(e, where) ==
  /\ Len(events) < MaxEvents
  /\ events' = Append(events, e)
  /\ \/ /\ synced' = Len(events) + 1 /\ Go(where) /\ UNCHANGED kills
     \/ /\ kills < MaxKills /\ kills' = kills + 1 /\ Go("away") /\ UNCHANGED synced
  /\ held' = 0
  /\ UNCHANGED <<files, rebuilds, losses>>

Kill ==
  /\ pc # "away" /\ kills < MaxKills
  /\ kills' = kills + 1 /\ Go("away") /\ held' = 0
  /\ UNCHANGED <<log, files, chain, rebuilds, losses>>

\* Any of the lines that were never synced may be gone, with all that follow.
PowerLoss ==
  /\ losses < MaxLosses
  /\ \E n \in synced .. Len(events) : events' = SubSeq(events, 1, n) /\ synced' = n
  /\ losses' = losses + 1 /\ Go("away") /\ held' = 0
  /\ UNCHANGED <<files, chain, rebuilds, kills>>

-----------------------------------------------------------------------------
(* Opening the database *)

\* What an opener finds under the name: a rebuild that was interrupted between its renames
\* is put in place first, then SQLite replays the write-ahead log it finds.
Named == CASE main # Missing -> main
           [] main = Missing /\ rebuild # Missing -> rebuild
           [] OTHER -> Fresh

Opened == IF foreign THEN Mixed ELSE Named

OpenDatabase ==
  /\ main' = Opened /\ foreign' = FALSE
  /\ rebuild' = IF main = Missing THEN Missing ELSE rebuild

Resume ==
  /\ pc = "away"
  /\ Go("verify")
  /\ UNCHANGED <<log, files, held, chain, counts>>

\* Every artifact that a finish event names is looked up; a missing one stops the recovery.
\* Without a file of that name there is nothing to look at.
Verifies == \A j \in EventsOf("finish") :
              events[j].body = "artifact" => HasArtifact(main, Id(events, j))

Verify ==
  /\ pc = "verify"
  /\ Go(IF main = Missing \/ (Usable(main) /\ Verifies) THEN "repair" ELSE "away")
  /\ UNCHANGED <<log, files, held, chain, counts>>

\* reconstruct_orphan: the stored artifact proves the finish event that comes next.
Proof(db, c) == {r \in db.artifacts : r.call = Id(events, c) /\ r.seq = Len(events) + 1}

FinishOf(c, body) == [Event("finish", events[c].turn, body, {}) EXCEPT !.call = Id(events, c)]

\* The first started call without a result is finished from its artifact, or as uncertain.
RepairCall ==
  /\ pc = "repair" /\ Unfinished # {}
  /\ LET c == Min(Unfinished)
         rows == IF Usable(main) THEN Proof(main, c) ELSE {}
     IN IF rows = {} THEN Write(FinishOf(c, "inline"), "repair")
        ELSE \E r \in rows : Write([FinishOf(c, "artifact") EXCEPT !.life = r.event[2]], "repair")
  /\ UNCHANGED chain

\* Bug: the events of the log are not looked at.
AnyOrphan(db) == {r \in db.artifacts : \E c \in EventsOf("call") : Id(events, c) = r.call
                                                                   /\ Finished(c)}

\* Artifacts of finished calls whose own finish event is not in the log.
Orphans(db) == {r \in AnyOrphan(db) : r.event \notin Ids(events)}

Without(db, rows) ==
  LET left == db.artifacts \ rows
  IN [db EXCEPT !.artifacts = left, !.blobs = @ \cap {r.blob : r \in left}]

\* The ones older than the retention are deleted.
CollectOrphans ==
  /\ pc = "repair" /\ Unfinished = {}
  /\ IF Usable(main) THEN \E rows \in SUBSET Orphans(main) : main' = Without(main, rows)
                     ELSE UNCHANGED main
  /\ Go("open")
  /\ UNCHANGED <<log, rebuild, foreign, held, chain, counts>>

\* The file is opened for the loop and brought up to date.
OpenForLoop ==
  /\ pc = "open"
  /\ OpenDatabase
  /\ Go("catch up")
  /\ UNCHANGED <<log, held, chain, counts>>

CatchUp(db) == IF CheckpointState(db, events) = "invalid" THEN db
               ELSE LET baseline == db.mark # NoMark
                    IN IF Failing(db, events, baseline) THEN db
                                                        ELSE Projected(db, events, baseline)

\* A projection that meets what cannot be trusted, in the file or in the log, ends the
\* process; over a busy or failing database the loop starts with the rows that are there.
ProjectAtResume ==
  /\ pc = "catch up"
  /\ \/ /\ Usable(main)
        /\ main' = CatchUp(main)
        /\ Go(IF CheckpointState(main, events) # "invalid"
                 /\ Failing(main, events, main.mark # NoMark) THEN "away" ELSE "loop")
     \/ Usable(main) /\ UNCHANGED main /\ Go("loop")
     \/ ~Usable(main) /\ UNCHANGED main /\ Go("away")
  /\ UNCHANGED <<log, rebuild, foreign, held, chain, counts>>

-----------------------------------------------------------------------------
(* The turn loop *)

StartTurn ==
  /\ pc = "loop" /\ ActiveTurn = NoId
  /\ Write(Event("turn", <<Len(events) + 1, Life>>, "none", {}), "loop")
  /\ UNCHANGED chain

StartCall ==
  /\ pc = "loop" /\ ActiveTurn # NoId /\ Cardinality(EventsOf("call")) < MaxCalls
  /\ Write(Event("call", ActiveTurn, "none", {}), "loop")
  /\ UNCHANGED chain

\* A small result goes into its finish event.
FinishInline ==
  /\ pc = "loop"
  /\ \E c \in Unfinished : Write(FinishOf(c, "inline"), "loop")
  /\ UNCHANGED chain

\* A large one is committed to the database first.  The sequence of a row is unique.
PersistArtifact ==
  /\ pc = "loop" /\ Len(events) < MaxEvents
  /\ \A r \in main.artifacts : r.seq # Len(events) + 1
  /\ \E c \in Unfinished, b \in {"blob"} :
       /\ main' = [main EXCEPT !.artifacts = @ \cup {[call |-> Id(events, c),
                                                     seq |-> Len(events) + 1,
                                                     event |-> <<Len(events) + 1, Life>>,
                                                     blob |-> b]},
                               !.blobs = @ \cup {b}]
       /\ held' = c
  /\ Go("publish")
  /\ UNCHANGED <<log, rebuild, foreign, chain, counts>>

FinishArtifact ==
  /\ pc = "publish"
  /\ Write(FinishOf(held, "artifact"), "loop")
  /\ UNCHANGED chain

\* TurnCommitted or TurnInterrupted; the projection follows.
CloseTurn ==
  /\ pc = "loop" /\ ActiveTurn # NoId /\ Unfinished = {}
  /\ Write(Event("close", ActiveTurn, "none", {}), "project")
  /\ UNCHANGED chain

Compact ==
  /\ pc = "loop" /\ Retirable # {}
  /\ Write(Event("compact", NoId, "none", Retirable), "project")
  /\ UNCHANGED chain

\* No code of the repository writes this event.
Reset ==
  /\ pc = "loop" /\ ActiveTurn = NoId /\ Epoch = 0
  /\ Write(Event("reset", NoId, "none", {}), "loop")
  /\ UNCHANGED chain

\* project_history_live; also before a batch with a history tool.  A busy or failing
\* database is only reported.
Project ==
  /\ pc \in {"project", "loop"}
  /\ main' \in {main, CatchUp(main)}
  /\ Go(IF pc = "project" THEN "loop" ELSE "search")
  /\ UNCHANGED <<log, rebuild, foreign, held, chain, counts>>

Leave ==
  /\ pc \in {"loop", "library"}
  /\ Go("away")
  /\ UNCHANGED <<log, files, held, chain, counts>>

-----------------------------------------------------------------------------
(* Search: one result per page *)

\* The relevance of a document depends on every document of the index: any change of the
\* index may turn the order round.
Relevance(d, index) == IF Cardinality(index) % 2 = 0 THEN d.seq ELSE 0 - d.seq

\* Bug: the index is the one of today.
IndexNow(docs, snapshot) == docs

\* The documents the index held at the snapshot, of all epochs.
IndexAt(docs, snapshot) == {d \in docs : d.seq <= snapshot}

Candidates(docs, snapshot, epoch) == {d \in docs : d.seq <= snapshot /\ d.epoch = epoch}

\* What follows the last result of the page before, best first.
Following(docs, snapshot, epoch, seen) ==
  LET index == IndexAt(docs, snapshot)
  IN {d \in Candidates(docs, snapshot, epoch) :
        seen # <<>> => Relevance(d, index) < Relevance(Last(seen), index)}

Best(docs, snapshot, rest) ==
  LET index == IndexAt(docs, snapshot)
  IN CHOOSE d \in rest : \A o \in rest : Relevance(o, index) <= Relevance(d, index)

\* decode_cursor: the epoch must be the same, and the projection not behind the snapshot.
CursorHolds == chain.epoch = main.mark.epoch /\ chain.snapshot <= main.mark.through

\* The first page freezes the snapshot; the result goes into the conversation.  The events
\* of a history call have no rows and are left out of the log here, but not their fsync.
ReadPage ==
  /\ pc = "search" /\ ActiveTurn # NoId /\ main.mark # NoMark /\ ~chain.done
  /\ LET first == chain = NoChain
         snapshot == IF first THEN main.mark.through ELSE chain.snapshot
         epoch == main.mark.epoch
         rest == Following(main.docs, snapshot, epoch, chain.seen)
         page == IF rest = {} THEN {} ELSE {Best(main.docs, snapshot, rest)}
     IN /\ IF first THEN rest # {} ELSE CursorHolds
        /\ chain' = [snapshot |-> snapshot, epoch |-> epoch,
                     seen |-> chain.seen \o SetToSeq(page), done |-> rest = page,
                     phantom |-> IF first THEN ~SamePrefix(main.mark, events)
                                          ELSE chain.phantom]
  /\ synced' = Len(events)
  /\ Go("loop")
  /\ UNCHANGED <<events, files, held, counts>>

\* Nothing found, or the cursor is stale: a result without a cursor.
ReadNothing ==
  /\ pc = "search"
  /\ Go("loop")
  /\ chain' = IF chain # NoChain /\ ~CursorHolds THEN NoChain ELSE chain
  /\ UNCHANGED <<log, files, held, counts>>

-----------------------------------------------------------------------------
(* A rebuild, asked for by a caller of the library that holds the log *)

OpenForRebuild ==
  /\ pc = "away" /\ rebuilds < MaxRebuilds
  /\ OpenDatabase
  /\ rebuilds' = rebuilds + 1 /\ Go("library")
  /\ UNCHANGED <<log, held, chain, kills, losses>>

\* A stale file of that name is removed and a new one created.
BeginRebuild ==
  /\ pc = "library" /\ Usable(main)
  /\ rebuild' = Partial
  /\ Go("build")
  /\ UNCHANGED <<log, main, foreign, held, chain, counts>>

\* project: an invalid checkpoint leads to a rebuild, any other to a replay over the rows
\* that are there.
ProjectInLibrary ==
  /\ pc = "library" /\ Usable(main) /\ CheckpointState(main, events) \in {"stale", "absent"}
  /\ ~Failing(main, events, FALSE)
  /\ main' = Projected(main, events, FALSE)
  /\ UNCHANGED <<log, rebuild, foreign, pc, held, chain, counts>>

\* Copy, projection, integrity check and fsync; a failure leaves the partial file behind.
Build ==
  /\ pc = "build"
  /\ IF CopyIsSound(main) /\ ~Failing(Copied(main), events, FALSE)
     THEN rebuild' = Rebuilt(main, events) /\ Go("built")
     ELSE UNCHANGED rebuild /\ Go("library")
  /\ UNCHANGED <<log, main, foreign, held, chain, counts>>

\* The old file goes first, its write-ahead log, if it has one, after it.
MoveAside ==
  /\ pc = "built"
  /\ main' = Missing
  /\ foreign' \in BOOLEAN
  /\ Go("aside")
  /\ UNCHANGED <<log, rebuild, held, chain, counts>>

MoveSidecars ==
  /\ pc = "aside"
  /\ foreign' = FALSE
  /\ Go("moved")
  /\ UNCHANGED <<log, main, rebuild, held, chain, counts>>

PutInPlace ==
  /\ pc = "moved"
  /\ main' = rebuild /\ rebuild' = Missing
  /\ Go("library")
  /\ UNCHANGED <<log, foreign, held, chain, counts>>

-----------------------------------------------------------------------------
Opens == \/ Resume \/ Verify \/ RepairCall \/ CollectOrphans \/ OpenForLoop \/ ProjectAtResume
Works == \/ StartTurn \/ StartCall \/ FinishInline \/ PersistArtifact \/ FinishArtifact
         \/ CloseTurn \/ Compact \/ Reset \/ Project \/ ReadPage \/ ReadNothing \/ Leave
Replaces == \/ OpenForRebuild \/ BeginRebuild \/ ProjectInLibrary \/ Build \/ MoveAside
            \/ MoveSidecars \/ PutInPlace

Next == Opens \/ Works \/ Replaces \/ Kill \/ PowerLoss

Spec == Init /\ [][Next]_vars

-----------------------------------------------------------------------------
(* Properties *)

\* The log holds at most what was written, the files are what a step may leave there, and a
\* call is held only while its result is being published.
TypeOK ==
  /\ synced \in 0 .. Len(events)
  /\ main # Partial /\ (rebuild = Mixed => FALSE)
  /\ foreign \in BOOLEAN
  /\ pc \in {"away", "verify", "repair", "open", "catch up", "loop", "publish", "project",
             "search", "library", "build", "built", "aside", "moved"}
  /\ pc = "publish" <=> held # 0

\* Whoever opens the database next reads, under a checkpoint that fits the log, exactly what
\* a replay of that prefix of the log from nothing gives: however the rows came there, one
\* tail at a time over many lives, by a rebuild, or after the log lost its end and grew anew.
DerivedIsReplay ==
  LET db == Opened
  IN Usable(db) /\ db.mark # NoMark /\ SamePrefix(db.mark, events)
     => LET replayed == Projected(Copied(db), SubSeq(events, 1, db.mark.through), FALSE)
        IN db.turns = replayed.turns /\ db.docs = replayed.docs /\ db.mark = replayed.mark

\* Whoever opens the database next finds the artifact of every finish event of the log that
\* refers to one: it is stored before the event, no collection takes it, and a rebuild
\* carries it over.  Only a file overlaid with the write-ahead log of another may lack it.
ArtifactKept ==
  Opened # Mixed
  => \A j \in EventsOf("finish") :
       events[j].body = "artifact" => Usable(Opened) /\ HasArtifact(Opened, Id(events, j))

\* The pages of one search are together the documents of the prefix its first page froze,
\* each once, whatever was appended, projected, rebuilt or lost between two pages.  Of a
\* file overlaid with the write-ahead log of another nothing is said.
PagesAreSnapshot ==
  chain # NoChain /\ ~chain.phantom /\ Opened # Mixed
  => LET found == Candidates(Projected(Copied(Opened), SubSeq(events, 1, chain.snapshot),
                                       FALSE).docs, chain.snapshot, chain.epoch)
     IN /\ \A i, j \in DOMAIN chain.seen : chain.seen[i] = chain.seen[j] => i = j
        /\ Range(chain.seen) \subseteq found
        /\ chain.done => Range(chain.seen) = found

\* A search finds nothing that is not in the log.
SearchesTheLog == ~chain.phantom

\* No file is opened with the write-ahead log of another.
OwnWriteAheadLog == main # Mixed
=============================================================================
