----------------------- MODULE HistoryDatabaseProofs -----------------------
(***************************************************************************)
(* That no finish event loses its artifact; that the rows under a          *)
(* checkpoint that fits the log are a replay of the log up to there; and   *)
(* that the pages of a search are the prefix its first page froze.         *)
(*                                                                         *)
(* For the first nothing is used of what the projection computes, only     *)
(* that it leaves the artifacts alone.  For the others it is taken as a    *)
(* sequence P of rows, one for each place of the log (Replay): the fold of *)
(* the model ends in the last of them, also where it starts at a           *)
(* checkpoint with the rows that the tail of the log touches, and the rows *)
(* after k events say at which places they were added, so that P[k] can be *)
(* found again in those after more.  A file that lies beside the log may   *)
(* be older than the log, or of a log that lost its end since: Earlier     *)
(* relates the two logs, and Sound the file to the log it was made from.   *)
(***************************************************************************)
EXTENDS HistoryDatabase, SequenceTheorems, FiniteSetTheorems, NaturalsInduction,
        WellFoundedInduction, TLAPS

\* A database file: the fields of a schema, whatever they hold.
File(a, b, t, d, m) == [artifacts |-> a, blobs |-> b, turns |-> t, docs |-> d, mark |-> m]
IsFile(f) == f = File(f.artifacts, f.blobs, f.turns, f.docs, f.mark)

\* Its artifact rows: each says at which place its event stands and has its bytes.
Complete(f) ==
  /\ IsFile(f)
  /\ \A r \in f.artifacts : r.event = <<r.seq, r.event[2]>> /\ r.blob \in f.blobs

\* Where the process works on a file that it has opened and found to be one.
Open == {"loop", "publish", "project", "search", "build", "built"}

LogInv == events \in Seq(Range(events)) /\ synced \in 0 .. Len(events)

\* What can lie under the two names.
FileInv ==
  /\ foreign \in BOOLEAN
  /\ main \in {Missing, Mixed} \/ Complete(main)
  /\ rebuild \in {Missing, Partial} \/ Complete(rebuild)
  /\ rebuild = Partial => main # Missing
  /\ foreign => main = Missing

PcInv ==
  /\ pc \in {"away", "verify", "repair", "open", "catch up", "library", "aside", "moved"} \cup Open
  /\ pc = "publish" <=> held # 0
  /\ pc \in Open => Complete(main)
  /\ pc = "publish" => \E r \in main.artifacts : r.event = <<Len(events) + 1, Life>>
  /\ pc = "built" => /\ Complete(rebuild)
                     /\ rebuild.artifacts = main.artifacts /\ rebuild.blobs = main.blobs
  /\ pc \in {"aside", "moved"} => main = Missing /\ Complete(rebuild)
  /\ pc = "moved" => ~foreign

\* The file that the next opener finds, its write-ahead log apart, has the artifacts.
KeptInv ==
  main # Mixed => \A j \in EventsOf("finish") :
                    events[j].body = "artifact" => HasArtifact(Named, Id(events, j))

IInv == LogInv /\ FileInv /\ PcInv /\ KeptInv

-----------------------------------------------------------------------------
(* Files *)

LEMMA FileIsUsable ==
  ASSUME NEW f, IsFile(f)
  PROVE  Usable(f) /\ f \notin {Missing, Partial, Mixed}
<1>1. "mark" \in DOMAIN f
  BY DEF IsFile, File
<1>2. \A n \in {Missing, Partial, Mixed} : DOMAIN n = {"name"}
  BY DEF Missing, Partial, Mixed
<1> QED
  BY <1>1, <1>2 DEF Usable

LEMMA FreshIsComplete == Complete(Fresh) /\ Fresh.artifacts = {} /\ Fresh.blobs = {}
BY DEF Complete, IsFile, File, Fresh

LEMMA FileRows ==
  ASSUME NEW a, NEW b, NEW t, NEW d, NEW m
  PROVE  LET f == File(a, b, t, d, m)
         IN /\ IsFile(f) /\ f.artifacts = a /\ f.blobs = b
            /\ f.turns = t /\ f.docs = d /\ f.mark = m
BY DEF File, IsFile

\* What a projection makes of a file.
LEMMA ProjectedIs ==
  ASSUME NEW f, IsFile(f), NEW evs, NEW b
  PROVE  LET dd == Derive(f, evs, b)
         IN Projected(f, evs, b)
              = File(f.artifacts, f.blobs, Upsert(f.turns, dd.turns), f.docs \cup dd.docs,
                     [through |-> Len(evs), hash |-> PrefixHash(evs, Len(evs)),
                      epoch |-> dd.epoch])
<1> DEFINE dd == Derive(f, evs, b)
           t == Upsert(f.turns, dd.turns)
           o == f.docs \cup dd.docs
           m == [through |-> Len(evs), hash |-> PrefixHash(evs, Len(evs)), epoch |-> dd.epoch]
<1>1. Projected(f, evs, b) = [[[f EXCEPT !.turns = t] EXCEPT !.docs = o] EXCEPT !.mark = m]
  BY DEF Projected, IsFile
<1> HIDE DEF t, o, m
<1>2. [f EXCEPT !.turns = t] = File(f.artifacts, f.blobs, t, f.docs, f.mark)
  BY SMTT(30) DEF File, IsFile
<1>3. [File(f.artifacts, f.blobs, t, f.docs, f.mark) EXCEPT !.docs = o]
      = File(f.artifacts, f.blobs, t, o, f.mark)
  BY SMTT(30) DEF File
<1>4. [File(f.artifacts, f.blobs, t, o, f.mark) EXCEPT !.mark = m]
      = File(f.artifacts, f.blobs, t, o, m)
  BY SMTT(30) DEF File
<1>5. Projected(f, evs, b) = File(f.artifacts, f.blobs, t, o, m)
  BY <1>1, <1>2, <1>3, <1>4
<1> QED
  BY <1>5 DEF t, o, m

\* It adds rows to other tables than that of the artifacts.
LEMMA ProjectedKeeps ==
  ASSUME NEW f, IsFile(f), NEW evs, NEW b
  PROVE  LET g == Projected(f, evs, b)
         IN IsFile(g) /\ g.artifacts = f.artifacts /\ g.blobs = f.blobs
<1> DEFINE dd == Derive(f, evs, b)
           t == Upsert(f.turns, dd.turns)
           o == f.docs \cup dd.docs
           m == [through |-> Len(evs), hash |-> PrefixHash(evs, Len(evs)), epoch |-> dd.epoch]
<1>1. Projected(f, evs, b) = File(f.artifacts, f.blobs, t, o, m)
  BY ProjectedIs
<1> HIDE DEF t, o, m
<1> QED
  BY <1>1, FileRows

\* The copy has the artifacts and nothing else.
LEMMA CopiedIs ==
  ASSUME NEW f, IsFile(f)
  PROVE  Copied(f) = File(f.artifacts, f.blobs, <<>>, {}, NoMark)
<1> DEFINE no == {}
           row == <<>>
<1>1. Copied(f) = [[File(no, no, row, no, NoMark) EXCEPT !.artifacts = f.artifacts]
                     EXCEPT !.blobs = f.blobs]
  BY DEF Copied, Fresh, File
<1> HIDE DEF no, row
<1>2. [File(no, no, row, no, NoMark) EXCEPT !.artifacts = f.artifacts]
      = File(f.artifacts, no, row, no, NoMark)
  BY SMTT(30) DEF File
<1>3. [File(f.artifacts, no, row, no, NoMark) EXCEPT !.blobs = f.blobs]
      = File(f.artifacts, f.blobs, row, no, NoMark)
  BY SMTT(30) DEF File
<1>4. Copied(f) = File(f.artifacts, f.blobs, row, no, NoMark)
  BY <1>1, <1>2, <1>3
<1> QED
  BY <1>4 DEF row, no

LEMMA CopiedKeeps ==
  ASSUME NEW f, IsFile(f)
  PROVE  LET g == Copied(f)
         IN IsFile(g) /\ g.artifacts = f.artifacts /\ g.blobs = f.blobs
BY CopiedIs, FileRows

LEMMA CatchUpKeeps ==
  ASSUME NEW f, IsFile(f)
  PROVE  IsFile(CatchUp(f)) /\ CatchUp(f).artifacts = f.artifacts /\ CatchUp(f).blobs = f.blobs
BY ProjectedKeeps DEF CatchUp

LEMMA RebuiltKeeps ==
  ASSUME NEW f, IsFile(f), NEW evs
  PROVE  LET g == Rebuilt(f, evs)
         IN IsFile(g) /\ g.artifacts = f.artifacts /\ g.blobs = f.blobs
<1> DEFINE c == Copied(f)
<1>1. IsFile(c) /\ c.artifacts = f.artifacts /\ c.blobs = f.blobs
  BY CopiedKeeps
<1> HIDE DEF c
<1>2. LET g == Projected(c, evs, FALSE)
      IN IsFile(g) /\ g.artifacts = c.artifacts /\ g.blobs = c.blobs
  BY <1>1, ProjectedKeeps, Zenon
<1>3. Rebuilt(f, evs) = Projected(c, evs, FALSE)
  BY DEF Rebuilt, c
<1> QED
  BY <1>1, <1>2, <1>3

\* What is said of the artifacts of a file is said of every file with the same ones.
LEMMA SameRows ==
  ASSUME NEW f, Complete(f), NEW g, IsFile(g), g.artifacts = f.artifacts, g.blobs = f.blobs
  PROVE  Complete(g) /\ \A e : HasArtifact(f, e) => HasArtifact(g, e)
BY DEF Complete, HasArtifact

LEMMA NamedIsComplete ==
  ASSUME FileInv, main # Mixed
  PROVE  /\ Complete(Named)
         /\ main # Missing => Named = main
BY FreshIsComplete DEF FileInv, Named

\* The marks for what is no database differ.
LEMMA NotAFile == Missing # Partial /\ Missing # Mixed /\ Partial # Mixed
BY DEF Missing, Partial, Mixed

\* What the next opener finds.
LEMMA OverlaidOrNamed ==
  /\ foreign \/ main = Mixed => Opened = Mixed
  /\ ~foreign => Opened = Named
BY NotAFile DEF Opened, Named

-----------------------------------------------------------------------------
(* The log *)

\* One more event, all others as they were.
LEMMA Appended ==
  ASSUME LogInv, NEW e, events' = Append(events, e)
  PROVE  /\ events' \in Seq(Range(events')) /\ Len(events') = Len(events) + 1
         /\ DOMAIN events = 1 .. Len(events) /\ DOMAIN events' = 1 .. Len(events) + 1
         /\ Len(events) \in Nat
         /\ \A i \in 1 .. Len(events) : events'[i] = events[i]
         /\ events'[Len(events) + 1] = e
<1> DEFINE S == Range(events) \cup {e}
<1>1. events \in Seq(S) /\ e \in S
  BY DEF LogInv
<1> HIDE DEF S
<1>2. Append(events, e) \in Seq(S) /\ Len(Append(events, e)) = Len(events) + 1
  BY <1>1
<1>3. Len(events) \in Nat /\ DOMAIN events = 1 .. Len(events)
  BY <1>1
<1>4. /\ \A i \in 1 .. Len(events) : Append(events, e)[i] = events[i]
      /\ Append(events, e)[Len(events) + 1] = e
  BY <1>1, <1>3
<1>5. events' \in Seq(S)
  BY <1>2
<1>6. events' \in Seq(Range(events'))
  BY <1>5, SeqOfRange
<1>7. DOMAIN events' = 1 .. Len(events')
  BY <1>5
<1> QED
  BY <1>2, <1>3, <1>4, <1>6, <1>7

\* A prefix.
LEMMA Shortened ==
  ASSUME LogInv, NEW n \in 0 .. Len(events), events' = SubSeq(events, 1, n)
  PROVE  /\ events' \in Seq(Range(events')) /\ Len(events') = n
         /\ DOMAIN events = 1 .. Len(events) /\ DOMAIN events' = 1 .. n
         /\ \A i \in 1 .. n : i \in 1 .. Len(events) /\ events'[i] = events[i]
<1> DEFINE S == Range(events)
<1>1. events \in Seq(S) /\ Len(events) \in Nat /\ DOMAIN events = 1 .. Len(events)
  BY DEF LogInv
<1> HIDE DEF S
<1>2. SubSeq(events, 1, n) \in Seq(S) /\ Len(SubSeq(events, 1, n)) = n
  BY <1>1, SubSeqProperties
<1>3. \A i \in 1 .. n : SubSeq(events, 1, n)[i] = events[i] /\ i \in 1 .. Len(events)
  BY <1>1
<1>4. events' \in Seq(S)
  BY <1>2
<1>5. events' \in Seq(Range(events'))
  BY <1>4, SeqOfRange
<1>6. DOMAIN events' = 1 .. Len(events')
  BY <1>4
<1> QED
  BY <1>1, <1>2, <1>3, <1>5, <1>6

-----------------------------------------------------------------------------
(* The inductive invariant *)

LEMMA InitHolds == Init => IInv
<1> SUFFICES ASSUME Init PROVE IInv
  OBVIOUS
<1>1. LogInv
  BY DEF Init, LogInv
<1>2. FileInv
  BY NotAFile DEF Init, FileInv
<1>3. PcInv
  BY DEF Init, PcInv, Open
<1>4. KeptInv
  BY DEF Init, KeptInv, EventsOf
<1> QED
  BY <1>1, <1>2, <1>3, <1>4 DEF IInv

\* A finish event that refers to an artifact may be written when the artifact is there.
LEMMA WriteKeeps ==
  ASSUME IInv, NEW e, NEW where, Write(e, where),
         main # Mixed /\ e.kind = "finish" /\ e.body = "artifact"
           => HasArtifact(Named, <<Len(events) + 1, e.life>>),
         where = "repair" \/ (where \in {"loop", "project"} /\ Complete(main))
  PROVE  IInv'
<1> USE DEF Write, Go
<1>1. LogInv'
  BY Appended DEF IInv, LogInv
<1>2. FileInv'
  BY DEF IInv, FileInv, files
<1>3. PcInv'
  BY DEF IInv, PcInv, Open, files
<1>4. KeptInv'
  <2> SUFFICES ASSUME main # Mixed, NEW j \in DOMAIN events', events'[j].kind = "finish",
                      events'[j].body = "artifact"
               PROVE  HasArtifact(Named, <<j, events'[j].life>>)
    BY DEF KeptInv, EventsOf, Id, Named, files
  <2>1. CASE j = Len(events) + 1
    BY <2>1, Appended DEF IInv
  <2>2. CASE j # Len(events) + 1
    <3>1. j \in DOMAIN events /\ events'[j] = events[j]
      BY <2>2, Appended DEF IInv
    <3> QED
      BY <3>1 DEF IInv, KeptInv, EventsOf, Id
  <2> QED
    BY <2>1, <2>2
<1> QED
  BY <1>1, <1>2, <1>3, <1>4 DEF IInv

\* A step that leaves the log alone loses no artifact if the file that is found keeps them.
LEMMA FilesKeep ==
  ASSUME IInv, UNCHANGED events, main' # Mixed => main # Mixed,
         main # Mixed /\ main' # Mixed => \A x : HasArtifact(Named, x) => HasArtifact(Named', x)
  PROVE  KeptInv'
<1> SUFFICES ASSUME main' # Mixed, NEW j \in DOMAIN events, events[j].kind = "finish",
                    events[j].body = "artifact"
             PROVE  HasArtifact(Named', <<j, events[j].life>>)
  BY DEF KeptInv, EventsOf, Id, HasArtifact
<1> QED
  BY DEF IInv, KeptInv, EventsOf, Id

-----------------------------------------------------------------------------
(* Opening *)

\* The process moves on without touching log or files.
LEMMA MovesOn ==
  ASSUME IInv, UNCHANGED <<log, files>>, held' = 0,
         \/ pc' \in {"away", "verify", "repair"}
         \/ pc' \in {"loop", "search", "library"} /\ Complete(main)
  PROVE  IInv'
<1> USE DEF log, files
<1>1. LogInv' /\ FileInv'
  BY DEF IInv, LogInv, FileInv
<1>2. PcInv'
  BY DEF PcInv, Open
<1>3. KeptInv'
  BY FilesKeep DEF Named
<1> QED
  BY <1>1, <1>2, <1>3 DEF IInv

\* A file is opened under the name, or a new one made.
LEMMA OpensKeep ==
  ASSUME IInv, OpenDatabase, UNCHANGED log, held' = 0, pc' \in {"catch up", "library"}
  PROVE  IInv'
<1> USE DEF OpenDatabase, log
<1>1. LogInv'
  BY DEF IInv, LogInv
<1>2. CASE main = Mixed \/ foreign
  <2>1. main' = Mixed /\ foreign' = FALSE
    BY <1>2, NotAFile DEF Opened, Named
  <2>2. FileInv'
    BY <1>2, <2>1, NotAFile DEF IInv, FileInv
  <2>3. PcInv'
    BY DEF PcInv, Open
  <2>4. KeptInv'
    BY <2>1 DEF KeptInv
  <2> QED
    BY <1>1, <2>2, <2>3, <2>4 DEF IInv
<1>3. CASE main # Mixed /\ ~foreign
  <2>1. Complete(Named) /\ main' = Named /\ foreign' = FALSE
    BY <1>3, NamedIsComplete DEF IInv, Opened
  <2>2. FileInv'
    BY <1>3, <2>1, NotAFile, FileIsUsable DEF IInv, FileInv, Complete
  <2>3. PcInv'
    BY DEF PcInv, Open
  <2>4. main' # Missing
    BY <2>1, FileIsUsable DEF Complete
  <2>5. Named' = main'
    BY <2>4 DEF Named
  <2>6. KeptInv'
    BY <1>3, <2>1, <2>5, FilesKeep
  <2> QED
    BY <1>1, <2>2, <2>3, <2>6 DEF IInv
<1> QED
  BY <1>2, <1>3 DEF IInv, FileInv

\* The file is replaced by one with the same artifacts.
LEMMA RowsKeep ==
  ASSUME IInv, Complete(main), IsFile(main'), main'.artifacts = main.artifacts,
         main'.blobs = main.blobs, UNCHANGED <<log, rebuild, foreign, held>>,
         pc \notin {"publish", "build", "built", "aside", "moved"},
         pc' \in {"away", "loop", "search", "library"}
  PROVE  IInv'
<1>1. Complete(main') /\ \A x : HasArtifact(main, x) => HasArtifact(main', x)
  BY SameRows
<1>2. main # Missing /\ main' \notin {Missing, Mixed}
  BY <1>1, FileIsUsable DEF Complete
<1>3. Named = main /\ Named' = main'
  BY <1>2 DEF Named
<1>4. LogInv' /\ FileInv'
  BY <1>1, <1>2 DEF IInv, LogInv, FileInv, log
<1>5. PcInv'
  BY <1>1 DEF IInv, PcInv, Open
<1>6. KeptInv'
  BY <1>1, <1>2, <1>3, FilesKeep, FileIsUsable DEF log, Complete
<1> QED
  BY <1>4, <1>5, <1>6 DEF IInv

LEMMA ResumeVerifyKeep == IInv /\ (Resume \/ Verify) => IInv'
BY MovesOn DEF Resume, Verify, Go, IInv, PcInv, Open

\* The finish event that is written is the one that its artifact says comes next.
LEMMA RepairCallKeeps == IInv /\ RepairCall => IInv'
<1> SUFFICES ASSUME IInv, RepairCall PROVE IInv'
  OBVIOUS
<1> DEFINE c == Min(Unfinished)
           rows == IF Usable(main) THEN Proof(main, c) ELSE {}
<1>1. CASE Write(FinishOf(c, "inline"), "repair")
  <2>1. FinishOf(c, "inline").body = "inline"
    BY DEF FinishOf, Event
  <2> QED
    BY <1>1, <2>1, WriteKeeps
<1>2. CASE \E r \in rows : Write([FinishOf(c, "artifact") EXCEPT !.life = r.event[2]], "repair")
  <2>1. PICK r \in rows : Write([FinishOf(c, "artifact") EXCEPT !.life = r.event[2]], "repair")
    BY <1>2
  <2>2. r \in main.artifacts /\ r.seq = Len(events) + 1 /\ Usable(main)
    BY DEF Proof
  <2>3. Complete(main) /\ Named = main
    BY <2>2 DEF IInv, FileInv, Usable, Named
  <2>4. r.event = <<Len(events) + 1, r.event[2]>> /\ r.blob \in main.blobs
    BY <2>2, <2>3 DEF Complete
  <2>5. HasArtifact(Named, <<Len(events) + 1, r.event[2]>>)
    BY <2>2, <2>3, <2>4 DEF HasArtifact
  <2>6. [FinishOf(c, "artifact") EXCEPT !.life = r.event[2]].life = r.event[2]
    BY DEF FinishOf, Event
  <2> QED
    BY <2>1, <2>5, <2>6, WriteKeeps
<1> QED
  BY <1>1, <1>2 DEF RepairCall

\* What is left of a file without some of its rows.
LEMMA WithoutRows ==
  ASSUME NEW f, Complete(f), NEW rows
  PROVE  /\ Complete(Without(f, rows))
         /\ Without(f, rows).artifacts = f.artifacts \ rows
         /\ \A r \in f.artifacts \ rows : r.blob \in Without(f, rows).blobs
         /\ Without(f, rows).turns = f.turns /\ Without(f, rows).docs = f.docs
         /\ Without(f, rows).mark = f.mark
<1> DEFINE left == f.artifacts \ rows
           kept == f.blobs \cap {r.blob : r \in left}
<1>1. Without(f, rows) = [[f EXCEPT !.artifacts = left] EXCEPT !.blobs = kept]
  BY DEF Without, Complete, IsFile, File
<1>2. \A r \in left : r.blob \in kept
  BY DEF Complete
<1>3. \A r \in left : r.event = <<r.seq, r.event[2]>>
  BY DEF Complete
<1> HIDE DEF left, kept
<1>4. [f EXCEPT !.artifacts = left] = File(left, f.blobs, f.turns, f.docs, f.mark)
  BY SMTT(30) DEF File, IsFile, Complete
<1>5. [File(left, f.blobs, f.turns, f.docs, f.mark) EXCEPT !.blobs = kept]
      = File(left, kept, f.turns, f.docs, f.mark)
  BY SMTT(30) DEF File
<1>6. Without(f, rows) = File(left, kept, f.turns, f.docs, f.mark)
  BY <1>1, <1>4, <1>5
<1>7. /\ IsFile(Without(f, rows)) /\ Without(f, rows).artifacts = left
      /\ Without(f, rows).blobs = kept /\ Without(f, rows).turns = f.turns
      /\ Without(f, rows).docs = f.docs /\ Without(f, rows).mark = f.mark
  BY <1>6, FileRows
<1> QED
  BY <1>2, <1>3, <1>7 DEF Complete, left

\* Only rows whose event is not in the log are collected.
LEMMA CollectOrphansKeeps == IInv /\ CollectOrphans => IInv'
<1> SUFFICES ASSUME IInv, CollectOrphans PROVE IInv'
  OBVIOUS
<1> USE DEF CollectOrphans, Go, log
<1>1. held' = 0
  BY DEF IInv, PcInv
<1>2. LogInv'
  BY DEF IInv, LogInv
<1>3. PcInv'
  BY <1>1 DEF PcInv, Open
<1>4. CASE ~Usable(main)
  <2>1. UNCHANGED <<main, rebuild, foreign>>
    BY <1>4
  <2>2. FileInv' /\ KeptInv'
    BY <2>1, FilesKeep DEF IInv, FileInv, Named
  <2> QED
    BY <1>2, <1>3, <2>2 DEF IInv
<1>5. CASE Usable(main)
  <2>1. PICK rows \in SUBSET Orphans(main) : main' = Without(main, rows)
    BY <1>5
  <2>2. Complete(main) /\ main # Mixed /\ Named = main
    BY <1>5 DEF IInv, FileInv, Usable, Named
  <2>3. /\ Complete(main') /\ main'.artifacts = main.artifacts \ rows
        /\ \A r \in main.artifacts \ rows : r.blob \in main'.blobs
    BY <2>1, <2>2, WithoutRows
  <2>4. main' \notin {Missing, Mixed} /\ Named' = main'
    BY <2>3, FileIsUsable DEF Complete, Named
  <2>5. FileInv'
    BY <2>2, <2>3, <2>4, FileIsUsable DEF IInv, FileInv, Complete
  <2>6. KeptInv'
    <3> SUFFICES ASSUME NEW j \in DOMAIN events, events[j].kind = "finish",
                        events[j].body = "artifact"
                 PROVE  HasArtifact(main', Id(events, j))
      BY <2>4 DEF KeptInv, EventsOf, Id
    <3>1. PICK r \in main.artifacts : r.event = Id(events, j) /\ r.blob \in main.blobs
      BY <2>2 DEF IInv, KeptInv, EventsOf, HasArtifact
    <3>2. r \notin rows
      BY <3>1 DEF Orphans, Ids
    <3> QED
      BY <2>3, <3>1, <3>2 DEF HasArtifact
  <2> QED
    BY <1>2, <1>3, <2>5, <2>6 DEF IInv
<1> QED
  BY <1>4, <1>5

LEMMA OpenForLoopKeeps == IInv /\ (OpenForLoop \/ OpenForRebuild) => IInv'
BY OpensKeep DEF OpenForLoop, OpenForRebuild, Go, IInv, PcInv, Open

LEMMA ProjectAtResumeKeeps == IInv /\ ProjectAtResume => IInv'
<1> SUFFICES ASSUME IInv, ProjectAtResume PROVE IInv'
  OBVIOUS
<1> USE DEF ProjectAtResume, Go
<1>1. CASE Usable(main)
  <2>1. Complete(main)
    BY <1>1 DEF IInv, FileInv, Usable
  <2>2. main' = main \/ main' = CatchUp(main)
    BY <1>1
  <2>3. IsFile(main') /\ main'.artifacts = main.artifacts /\ main'.blobs = main.blobs
    BY <2>1, <2>2, CatchUpKeeps DEF Complete
  <2> QED
    BY <1>1, <2>1, <2>3, RowsKeep
<1>2. CASE ~Usable(main)
  BY <1>2, MovesOn DEF IInv, PcInv, files
<1> QED
  BY <1>1, <1>2

-----------------------------------------------------------------------------
(* The turn loop *)

LEMMA LoopWritesKeep ==
  IInv /\ (StartTurn \/ StartCall \/ FinishInline \/ CloseTurn \/ Compact \/ Reset) => IInv'
<1> SUFFICES ASSUME IInv, StartTurn \/ StartCall \/ FinishInline \/ CloseTurn \/ Compact \/ Reset
             PROVE  IInv'
  OBVIOUS
<1>1. Complete(main)
  BY DEF IInv, PcInv, Open, StartTurn, StartCall, FinishInline, CloseTurn, Compact, Reset
<1>2. ASSUME NEW k \in {"turn", "call", "close", "compact", "reset"}, NEW t, NEW b, NEW src,
             NEW where \in {"loop", "project"}, Write(Event(k, t, b, src), where)
      PROVE  IInv'
  <2>1. Event(k, t, b, src).kind # "finish"
    BY DEF Event
  <2> QED
    BY <1>1, <1>2, <2>1, WriteKeeps
<1>3. CASE StartTurn
  BY <1>2, <1>3 DEF StartTurn
<1>4. CASE StartCall
  BY <1>2, <1>4 DEF StartCall
<1>5. CASE FinishInline
  <2>1. PICK c \in Unfinished : Write(FinishOf(c, "inline"), "loop")
    BY <1>5 DEF FinishInline
  <2>2. FinishOf(c, "inline").body = "inline"
    BY DEF FinishOf, Event
  <2> QED
    BY <1>1, <2>1, <2>2, WriteKeeps
<1>6. CASE CloseTurn
  BY <1>2, <1>6 DEF CloseTurn
<1>7. CASE Compact
  BY <1>2, <1>7 DEF Compact
<1>8. CASE Reset
  BY <1>2, <1>8 DEF Reset
<1> QED
  BY <1>3, <1>4, <1>5, <1>6, <1>7, <1>8

\* The file with the row that is added.
LEMMA OneRowMore ==
  ASSUME IInv, PersistArtifact
  PROVE  \E c \in Unfinished, b \in {"blob"} :
           LET row == [call |-> Id(events, c), seq |-> Len(events) + 1,
                       event |-> <<Len(events) + 1, Life>>, blob |-> b]
           IN /\ held' = c
              /\ main' = File(main.artifacts \cup {row}, main.blobs \cup {b}, main.turns, main.docs,
                              main.mark)
<1>1. IsFile(main)
  BY DEF IInv, PcInv, Open, PersistArtifact, Complete
<1>2. PICK c \in Unfinished, b \in {"blob"} :
        /\ main' = [main EXCEPT !.artifacts = @ \cup {[call |-> Id(events, c),
                                                     seq |-> Len(events) + 1,
                                                     event |-> <<Len(events) + 1, Life>>,
                                                     blob |-> b]},
                                !.blobs = @ \cup {b}]
        /\ held' = c
  BY DEF PersistArtifact
<1> DEFINE row == [call |-> Id(events, c), seq |-> Len(events) + 1,
                   event |-> <<Len(events) + 1, Life>>, blob |-> b]
           rows == main.artifacts \cup {row}
           kept == main.blobs \cup {b}
<1>3. main' = [[main EXCEPT !.artifacts = rows] EXCEPT !.blobs = kept]
  BY <1>1, <1>2 DEF IsFile, File
<1> HIDE DEF row, rows, kept
<1>4. [main EXCEPT !.artifacts = rows] = File(rows, main.blobs, main.turns, main.docs, main.mark)
  BY <1>1, SMTT(30) DEF File, IsFile
<1>5. [File(rows, main.blobs, main.turns, main.docs, main.mark) EXCEPT !.blobs = kept]
      = File(rows, kept, main.turns, main.docs, main.mark)
  BY SMTT(30) DEF File
<1>6. main' = File(rows, kept, main.turns, main.docs, main.mark)
  BY <1>3, <1>4, <1>5
<1> QED
  BY <1>2, <1>6 DEF row, rows, kept

\* The row that is added names the event that is written next.
LEMMA PersistArtifactKeeps == IInv /\ PersistArtifact => IInv'
<1> SUFFICES ASSUME IInv, PersistArtifact PROVE IInv'
  OBVIOUS
<1> USE DEF Go, log
<1>1. Complete(main) /\ pc = "loop"
  BY DEF IInv, PcInv, Open, PersistArtifact
<1>2. PICK c \in Unfinished, b \in {"blob"} :
        LET row == [call |-> Id(events, c), seq |-> Len(events) + 1,
                    event |-> <<Len(events) + 1, Life>>, blob |-> b]
        IN /\ held' = c
           /\ main' = File(main.artifacts \cup {row}, main.blobs \cup {b}, main.turns, main.docs,
                           main.mark)
  BY OneRowMore
<1> DEFINE row == [call |-> Id(events, c), seq |-> Len(events) + 1,
                   event |-> <<Len(events) + 1, Life>>, blob |-> b]
           rows == main.artifacts \cup {row}
           kept == main.blobs \cup {b}
<1>3. main' = File(rows, kept, main.turns, main.docs, main.mark)
  BY <1>2
<1>4. row.seq = Len(events) + 1 /\ row.event = <<row.seq, Life>> /\ row.blob \in kept
  OBVIOUS
<1>5. /\ \A r \in rows : r.event = <<r.seq, r.event[2]>> /\ r.blob \in kept
      /\ row \in rows /\ main.artifacts \subseteq rows /\ main.blobs \subseteq kept
  BY <1>1, <1>4 DEF Complete
<1> HIDE DEF row, rows, kept
<1>8. IsFile(main') /\ main'.artifacts = rows /\ main'.blobs = kept
  BY <1>3, FileRows
<1>9. Complete(main') /\ main # Missing /\ main # Mixed /\ main' \notin {Missing, Mixed}
  BY <1>1, <1>5, <1>8, FileIsUsable DEF Complete
<1>10. LogInv' /\ FileInv'
  BY <1>1, <1>9 DEF IInv, LogInv, FileInv, PersistArtifact
<1>11. PcInv'
  <2>1. held' # 0
    BY <1>2, Appended DEF Unfinished, EventsOf, IInv, LogInv
  <2>2. row \in main'.artifacts /\ row.event = <<Len(events) + 1, Life>>
    BY <1>4, <1>5, <1>8
  <2>3. Life' = Life /\ Len(events)' = Len(events)
    BY DEF PersistArtifact, counts, Life
  <2> QED
    BY <1>9, <2>1, <2>2, <2>3 DEF PcInv, Open, PersistArtifact
<1>12. KeptInv'
  <2>1. Named = main /\ Named' = main'
    BY <1>9 DEF Named
  <2>2. \A x : HasArtifact(main, x) => HasArtifact(main', x)
    BY <1>5, <1>8 DEF HasArtifact
  <2> QED
    BY <1>9, <2>1, <2>2, FilesKeep DEF PersistArtifact
<1> QED
  BY <1>10, <1>11, <1>12 DEF IInv

LEMMA FinishArtifactKeeps == IInv /\ FinishArtifact => IInv'
<1> SUFFICES ASSUME IInv, FinishArtifact PROVE IInv'
  OBVIOUS
<1>1. Complete(main) /\ \E r \in main.artifacts : r.event = <<Len(events) + 1, Life>>
  BY DEF IInv, PcInv, Open, FinishArtifact
<1>2. Named = main
  BY <1>1, FileIsUsable DEF Named, Complete
<1>3. HasArtifact(Named, <<Len(events) + 1, Life>>)
  BY <1>1, <1>2 DEF HasArtifact, Complete
<1>4. FinishOf(held, "artifact").life = Life
  BY DEF FinishOf, Event
<1> QED
  BY <1>1, <1>3, <1>4, WriteKeeps DEF FinishArtifact

LEMMA ProjectKeeps == IInv /\ (Project \/ ProjectInLibrary) => IInv'
<1> SUFFICES ASSUME IInv, Project \/ ProjectInLibrary PROVE IInv'
  OBVIOUS
<1>1. Complete(main)
  BY DEF IInv, FileInv, PcInv, Open, Usable, Project, ProjectInLibrary
<1>2. CASE Project
  <2>1. IsFile(main') /\ main'.artifacts = main.artifacts /\ main'.blobs = main.blobs
    BY <1>1, <1>2, CatchUpKeeps DEF Complete, Project
  <2> QED
    BY <1>1, <1>2, <2>1, RowsKeep DEF Project, Go
<1>3. CASE ProjectInLibrary
  <2>1. IsFile(main') /\ main'.artifacts = main.artifacts /\ main'.blobs = main.blobs
    <3>1. IsFile(main)
      BY <1>1 DEF Complete
    <3>2. LET g == Projected(main, events, FALSE)
          IN IsFile(g) /\ g.artifacts = main.artifacts /\ g.blobs = main.blobs
      BY <3>1, ProjectedKeeps, Zenon
    <3> QED
      BY <1>3, <3>2 DEF ProjectInLibrary
  <2> QED
    BY <1>1, <1>3, <2>1, RowsKeep DEF ProjectInLibrary
<1> QED
  BY <1>2, <1>3

LEMMA ReadKeeps == IInv /\ (ReadPage \/ ReadNothing \/ Leave) => IInv'
<1> SUFFICES ASSUME IInv, ReadPage \/ ReadNothing \/ Leave PROVE IInv'
  OBVIOUS
<1>1. CASE ReadPage
  <2>1. Complete(main) /\ held = 0
    BY <1>1 DEF IInv, PcInv, Open, ReadPage
  <2>2. LogInv' /\ FileInv'
    BY <1>1, Appended DEF IInv, LogInv, FileInv, ReadPage, files
  <2>3. PcInv'
    BY <1>1, <2>1 DEF PcInv, Open, ReadPage, Go, files
  <2>4. KeptInv'
    BY <1>1, FilesKeep DEF Named, ReadPage, files
  <2> QED
    BY <2>2, <2>3, <2>4 DEF IInv
<1>2. CASE ReadNothing
  BY <1>2, MovesOn DEF ReadNothing, Go, IInv, PcInv, Open
<1>3. CASE Leave
  BY <1>3, MovesOn DEF Leave, Go, IInv, PcInv, Open
<1> QED
  BY <1>1, <1>2, <1>3

-----------------------------------------------------------------------------
(* A rebuild *)

LEMMA BeginRebuildKeeps == IInv /\ BeginRebuild => IInv'
<1> SUFFICES ASSUME IInv, BeginRebuild PROVE IInv'
  OBVIOUS
<1> USE DEF BeginRebuild, Go, log
<1>1. Complete(main) /\ main # Missing /\ main # Mixed /\ held = 0
  BY NotAFile DEF IInv, FileInv, PcInv, Usable
<1>2. LogInv' /\ FileInv'
  BY <1>1 DEF IInv, LogInv, FileInv
<1>3. PcInv'
  BY <1>1 DEF PcInv, Open
<1>4. KeptInv'
  BY <1>1, FilesKeep DEF Named
<1> QED
  BY <1>2, <1>3, <1>4 DEF IInv

\* The rebuilt file has the artifacts of the one it replaces.
LEMMA BuildKeeps == IInv /\ Build => IInv'
<1> SUFFICES ASSUME IInv, Build PROVE IInv'
  OBVIOUS
<1> USE DEF Build, Go, log
<1>1. Complete(main) /\ main # Missing /\ main # Mixed /\ held = 0
  BY FileIsUsable DEF IInv, FileInv, PcInv, Open, Complete
<1>2. LogInv'
  BY DEF IInv, LogInv
<1>3. Named = main /\ Named' = main
  BY <1>1 DEF Named
<1>4. KeptInv'
  BY <1>3, FilesKeep
<1>5. CASE rebuild' = Rebuilt(main, events) /\ pc' = "built"
  <2>1. IsFile(rebuild') /\ rebuild'.artifacts = main.artifacts /\ rebuild'.blobs = main.blobs
    BY <1>1, <1>5, RebuiltKeeps DEF Complete
  <2>2. Complete(rebuild')
    BY <1>1, <2>1, SameRows
  <2>3. FileInv'
    BY <1>1, <2>2 DEF IInv, FileInv
  <2>4. PcInv'
    BY <1>1, <1>5, <2>1, <2>2 DEF PcInv, Open
  <2> QED
    BY <1>2, <1>4, <2>3, <2>4 DEF IInv
<1>6. CASE rebuild' = rebuild /\ pc' = "library"
  <2>1. FileInv'
    BY <1>6 DEF IInv, FileInv
  <2>2. PcInv'
    BY <1>1, <1>6 DEF PcInv, Open
  <2> QED
    BY <1>2, <1>4, <2>1, <2>2 DEF IInv
<1> QED
  BY <1>5, <1>6

\* While no file has the name, the rebuilt one is the one that is found.
LEMMA MoveAsideKeeps == IInv /\ MoveAside => IInv'
<1> SUFFICES ASSUME IInv, MoveAside PROVE IInv'
  OBVIOUS
<1> USE DEF MoveAside, Go, log
<1>1. /\ Complete(main) /\ Complete(rebuild) /\ held = 0
      /\ rebuild.artifacts = main.artifacts /\ rebuild.blobs = main.blobs
  BY DEF IInv, PcInv, Open
<1>2. rebuild \notin {Missing, Partial} /\ main \notin {Missing, Mixed}
  BY <1>1, FileIsUsable DEF Complete
<1>3. LogInv' /\ FileInv'
  BY <1>1, <1>2, NotAFile DEF IInv, LogInv, FileInv
<1>4. PcInv'
  BY <1>1 DEF PcInv, Open
<1>5. Named = main /\ Named' = rebuild
  BY <1>2 DEF Named
<1>6. \A x : HasArtifact(main, x) => HasArtifact(rebuild, x)
  BY <1>1 DEF HasArtifact
<1>7. KeptInv'
  BY <1>2, <1>5, <1>6, FilesKeep
<1> QED
  BY <1>3, <1>4, <1>7 DEF IInv

LEMMA MoveSidecarsKeeps == IInv /\ MoveSidecars => IInv'
<1> SUFFICES ASSUME IInv, MoveSidecars PROVE IInv'
  OBVIOUS
<1> USE DEF MoveSidecars, Go, log
<1>1. LogInv' /\ FileInv' /\ PcInv'
  BY DEF IInv, LogInv, FileInv, PcInv, Open
<1>2. KeptInv'
  BY FilesKeep DEF Named
<1> QED
  BY <1>1, <1>2 DEF IInv

LEMMA PutInPlaceKeeps == IInv /\ PutInPlace => IInv'
<1> SUFFICES ASSUME IInv, PutInPlace PROVE IInv'
  OBVIOUS
<1> USE DEF PutInPlace, Go, log
<1>1. main = Missing /\ Complete(rebuild) /\ ~foreign /\ held = 0
  BY DEF IInv, PcInv
<1>2. rebuild \notin {Missing, Partial, Mixed}
  BY <1>1, FileIsUsable DEF Complete
<1>3. LogInv' /\ FileInv'
  BY <1>1, <1>2, NotAFile DEF IInv, LogInv, FileInv
<1>4. PcInv'
  BY <1>1 DEF PcInv, Open
<1>5. Named = rebuild /\ Named' = rebuild
  BY <1>1, <1>2 DEF Named
<1>6. KeptInv'
  BY <1>1, <1>5, NotAFile, FilesKeep
<1> QED
  BY <1>3, <1>4, <1>6 DEF IInv

-----------------------------------------------------------------------------
(* Kills and power losses *)

LEMMA KillKeeps == IInv /\ Kill => IInv'
BY MovesOn DEF Kill, Go

\* What is left of the log names only artifacts that were named before.
LEMMA PowerLossKeeps == IInv /\ PowerLoss => IInv'
<1> SUFFICES ASSUME IInv, PowerLoss PROVE IInv'
  OBVIOUS
<1> USE DEF PowerLoss, Go, files
<1>1. PICK n \in synced .. Len(events) : events' = SubSeq(events, 1, n) /\ synced' = n
  OBVIOUS
<1>2. n \in 0 .. Len(events)
  BY DEF IInv, LogInv
<1>3. /\ events' \in Seq(Range(events')) /\ Len(events') = n
      /\ DOMAIN events = 1 .. Len(events) /\ DOMAIN events' = 1 .. n
      /\ \A i \in 1 .. n : i \in 1 .. Len(events) /\ events'[i] = events[i]
  BY <1>1, <1>2, Shortened DEF IInv
<1>4. LogInv' /\ FileInv'
  BY <1>1, <1>2, <1>3 DEF IInv, LogInv, FileInv
<1>5. PcInv'
  BY DEF PcInv, Open
<1>6. KeptInv'
  <2> SUFFICES ASSUME main # Mixed, NEW j \in 1 .. n, events[j].kind = "finish",
                      events[j].body = "artifact"
               PROVE  HasArtifact(Named, <<j, events[j].life>>)
    BY <1>3 DEF KeptInv, EventsOf, Id, Named
  <2> QED
    BY <1>3 DEF IInv, KeptInv, EventsOf, Id
<1> QED
  BY <1>4, <1>5, <1>6 DEF IInv

-----------------------------------------------------------------------------
(* The theorems *)

LEMMA StepKeeps == IInv /\ [Next]_vars => IInv'
<1> SUFFICES ASSUME IInv, [Next]_vars PROVE IInv'
  OBVIOUS
<1>1. CASE Opens
  BY <1>1, ResumeVerifyKeep, RepairCallKeeps, CollectOrphansKeeps, OpenForLoopKeeps,
     ProjectAtResumeKeeps DEF Opens
<1>2. CASE Works
  BY <1>2, LoopWritesKeep, PersistArtifactKeeps, FinishArtifactKeeps, ProjectKeeps, ReadKeeps
     DEF Works
<1>3. CASE Replaces
  BY <1>3, OpenForLoopKeeps, BeginRebuildKeeps, ProjectKeeps, BuildKeeps, MoveAsideKeeps,
     MoveSidecarsKeeps, PutInPlaceKeeps DEF Replaces
<1>4. CASE Kill \/ PowerLoss
  BY <1>4, KillKeeps, PowerLossKeeps
<1>5. CASE UNCHANGED vars
  BY <1>5 DEF vars, log, files, counts, IInv, LogInv, FileInv, PcInv, KeptInv, EventsOf, Id,
              HasArtifact, Named, Life
<1> QED
  BY <1>1, <1>2, <1>3, <1>4, <1>5 DEF Next

LEMMA SpecInductive == Spec => []IInv
BY InitHolds, StepKeeps, PTL DEF Spec

\* The log holds at most what was written, under the two names lies what a step may leave
\* there, and a call is held exactly while its result is being published: for every bound.
THEOREM SpecTypeOK == Spec => []TypeOK
<1>1. IInv => TypeOK
  <2> SUFFICES ASSUME IInv PROVE TypeOK
    OBVIOUS
  <2>1. main # Partial /\ rebuild # Mixed
    BY NotAFile, FileIsUsable DEF IInv, FileInv, Complete
  <2> QED
    BY <2>1 DEF IInv, LogInv, FileInv, PcInv, Open, TypeOK
<1> QED
  BY <1>1, SpecInductive, PTL

\* Every finish event that refers to an artifact has it, unless the file is overlaid with the
\* write-ahead log of another: the row is committed before the event is appended, a repair
\* writes the event that the row names, the collection takes only rows whose event is not in
\* the log, and between the two renames the rebuilt file, with the same rows, is the one
\* that is found.
THEOREM SpecArtifactKept == Spec => []ArtifactKept
<1>1. IInv => ArtifactKept
  <2> SUFFICES ASSUME IInv, Opened # Mixed PROVE ArtifactKept
    BY DEF ArtifactKept
  <2>1. main # Mixed /\ ~foreign
    BY OverlaidOrNamed
  <2>2. Opened = Named /\ Usable(Named)
    BY <2>1, NamedIsComplete, FileIsUsable DEF IInv, Opened, Complete
  <2> QED
    BY <2>1, <2>2 DEF IInv, KeptInv, ArtifactKept
<1> QED
  BY <1>1, SpecInductive, PTL
-----------------------------------------------------------------------------
(* Induction, with a set in the place of a predicate. *)

LEMMA NatIsWellFounded == IsWellFoundedOn({p \in Nat \X Nat : p[1] < p[2]}, Nat)
BY NatLessThanWellFounded DEF OpToRel

LEMMA Upwards ==
  ASSUME NEW T, 0 \in T, \A n \in Nat : n \in T => n + 1 \in T
  PROVE Nat \subseteq T
<1> SUFFICES ASSUME Nat \ T # {} PROVE FALSE
  OBVIOUS
<1>1. PICK n \in Nat \ T :
        \A m \in Nat \ T : ~(<<m, n>> \in {p \in Nat \X Nat : p[1] < p[2]})
  BY NatIsWellFounded, WFMin
<1>2. n # 0 /\ n - 1 \in Nat /\ n - 1 < n /\ (n - 1) + 1 = n
  OBVIOUS
<1>3. n - 1 \notin T
  BY <1>2
<1> QED
  BY <1>1, <1>2, <1>3

-----------------------------------------------------------------------------
(* Folds of a sequence from the left: FoldLeft takes the indices in a set of *)
(* them from the largest down.                                              *)

LEMMA MaxOfSegment ==
  ASSUME NEW n \in Nat, NEW S \in SUBSET (1..(n + 1)), n + 1 \in S
  PROVE Max(S) = n + 1
<1>1. \A x \in S : n + 1 >= x /\ x \in Nat
  OBVIOUS
<1>2. Max(S) \in S /\ \A y \in S : Max(S) >= y
  BY <1>1 DEF Max
<1>3. Max(S) \in Nat /\ Max(S) >= n + 1 /\ n + 1 >= Max(S)
  BY <1>1, <1>2
<1> QED
  BY <1>3

LEMMA ExtremesOf ==
  ASSUME NEW n \in Nat, NEW S \in SUBSET (1..n), S # {}
  PROVE Max(S) \in S /\ Min(S) \in S /\ \A x \in S : x <= Max(S) /\ Min(S) <= x
<1> DEFINE T == {k \in Nat : \A U \in SUBSET (1..k) :
                   U # {} => /\ \E x \in U : \A y \in U : x >= y
                             /\ \E x \in U : \A y \in U : x <= y}
<1>1. 0 \in T
  <2>1. 1..0 = {}
    OBVIOUS
  <2> QED
    BY <2>1
<1>2. ASSUME NEW k \in Nat, k \in T PROVE k + 1 \in T
  <2> SUFFICES ASSUME NEW U \in SUBSET (1..(k + 1)), U # {}
               PROVE /\ \E x \in U : \A y \in U : x >= y
                     /\ \E x \in U : \A y \in U : x <= y
    OBVIOUS
  <2>1. CASE U \ {k + 1} # {}
    <3>1. U \ {k + 1} \in SUBSET (1..k)
      OBVIOUS
    <3>2. PICK x \in U \ {k + 1} : \A y \in U \ {k + 1} : x >= y
      BY <1>2, <2>1, <3>1
    <3>3. PICK z \in U \ {k + 1} : \A y \in U \ {k + 1} : z <= y
      BY <1>2, <2>1, <3>1
    <3>4. \A y \in U : z <= y
      BY <3>3
    <3>5. \E w \in U : \A y \in U : w >= y
      BY <3>2
    <3> QED
      BY <3>4, <3>5
  <2>2. CASE U \ {k + 1} = {}
    <3>1. k + 1 \in U /\ \A y \in U : y = k + 1
      BY <2>2
    <3>2. \A y \in U : k + 1 >= y /\ k + 1 <= y
      BY <3>1
    <3> QED
      BY <3>1, <3>2
  <2> QED
    BY <2>1, <2>2
<1> HIDE DEF T
<1>3. n \in T
  BY <1>1, <1>2, Upwards
<1>4. (\E x \in S : \A y \in S : x >= y) /\ (\E x \in S : \A y \in S : x <= y)
  BY <1>3 DEF T
<1>5. Max(S) \in S /\ \A y \in S : Max(S) >= y
  BY <1>4 DEF Max
<1>6. Min(S) \in S /\ \A y \in S : Min(S) <= y
  BY <1>4 DEF Min
<1> QED
  BY <1>5, <1>6

LEMMA Segments ==
  ASSUME NEW n \in Nat, NEW k \in 1..n
  PROVE /\ Max(1..k) = k /\ (1..k) \ {k} = 1..(k - 1)
        /\ 1..k # {} /\ 1..k \in SUBSET (1..n)
<1>1. PICK m \in Nat : k = m + 1
  BY k - 1 \in Nat, (k - 1) + 1 = k
<1>2. Max(1..(m + 1)) = m + 1
  BY MaxOfSegment
<1>3. (1..k) \ {k} = 1..(k - 1) /\ 1..k # {} /\ 1..k \in SUBSET (1..n)
  OBVIOUS
<1> QED
  BY <1>1, <1>2, <1>3

-----------------------------------------------------------------------------
(* The projection as a sequence of steps. *)

IsLog(evs) == evs \in Seq(Range(evs))

\* One place of the log in Derive: what is applied already is passed over, and so is
\* everything after a fault.
Advance(db, evs, applied, d, i) ==
  IF i <= applied \/ d.fault THEN d ELSE ApplyEvent(db, evs, d, i)

\* The rows Derive starts from.
Basis(db, evs, baseline) ==
  [turns |-> IF baseline
             THEN Restrict(db.turns, Touched(evs, db.mark.through) \cap DOMAIN db.turns) ELSE <<>>,
   docs |-> {}, fault |-> FALSE, epoch |-> IF baseline THEN db.mark.epoch ELSE 0]

Applied(db, baseline) == IF baseline THEN db.mark.through ELSE 0

\* P holds the rows after each place of the log.
Steps(P, db, evs, baseline) ==
  /\ P[0] = Basis(db, evs, baseline)
  /\ \A k \in 1..Len(evs) : P[k] = Advance(db, evs, Applied(db, baseline), P[k - 1], k)

LEMMA DeriveSteps ==
  ASSUME NEW db, NEW evs, IsLog(evs), NEW baseline \in BOOLEAN
  PROVE \E P : Steps(P, db, evs, baseline) /\ P[Len(evs)] = Derive(db, evs, baseline)
<1> DEFINE
      n == Len(evs)
      base == Basis(db, evs, baseline)
      place == [i \in DOMAIN evs |-> i]
      after(d, i) == Advance(db, evs, Applied(db, baseline), d, i)
      Folds(h) == h = [t \in SUBSET (DOMAIN place) |->
                            IF t = {} THEN base ELSE after(h[t \ {Max(t)}], place[Max(t)])]
      h == CHOOSE f : Folds(f)
      P == [k \in 0..n |-> h[1..k]]
<1>1. n \in Nat /\ DOMAIN evs = 1..n
  BY DEF IsLog
<1>2. Derive(db, evs, baseline) = h[DOMAIN place]
  BY DEF Derive, FoldLeftDomain, FoldLeft, MapThenFoldSet, Basis, Applied, Advance
<1>3. DOMAIN place = 1..n /\ \A i \in 1..n : place[i] = i
  BY <1>1
<1> HIDE DEF n, base, place, after
<1>4. ASSUME NEW t \in SUBSET (1..n), t # {} PROVE place[Max(t)] = Max(t)
  BY <1>1, <1>3, <1>4, ExtremesOf
<1>5. \E f : Folds(f)
  <2> DEFINE Ok(f, k) == /\ f = [t \in SUBSET (1..k) |-> f[t]]
                         /\ \A t \in SUBSET (1..k) :
                              f[t] = IF t = {} THEN base ELSE after(f[t \ {Max(t)}], Max(t))
             T == {k \in Nat : \E f : Ok(f, k)}
  <2>1. 0 \in T
    <3> DEFINE f == [t \in SUBSET (1..0) |-> base]
    <3>1. 1..0 = {}
      OBVIOUS
    <3>2. Ok(f, 0)
      BY <3>1
    <3> HIDE DEF Ok
    <3> QED
      BY <3>2
  <2>2. ASSUME NEW k \in Nat, k \in T PROVE k + 1 \in T
    <3>1. PICK f : Ok(f, k)
      BY <2>2
    <3> DEFINE g == [t \in SUBSET (1..(k + 1)) |->
                       IF k + 1 \in t THEN after(f[t \ {k + 1}], k + 1) ELSE f[t]]
    <3>2. \A t \in SUBSET (1..(k + 1)) :
            t \ {k + 1} \in SUBSET (1..k) /\ (k + 1 \notin t => t \in SUBSET (1..k))
      OBVIOUS
    <3>3. ASSUME NEW t \in SUBSET (1..(k + 1))
          PROVE g[t] = IF t = {} THEN base ELSE after(g[t \ {Max(t)}], Max(t))
      <4>1. CASE k + 1 \in t
        <5>1. Max(t) = k + 1
          BY <4>1, MaxOfSegment
        <5>2. t \ {k + 1} \in SUBSET (1..(k + 1)) /\ k + 1 \notin t \ {k + 1}
          OBVIOUS
        <5> QED
          BY <4>1, <5>1, <5>2
      <4>2. CASE k + 1 \notin t
        <5>1. f[t] = IF t = {} THEN base ELSE after(f[t \ {Max(t)}], Max(t))
          BY <3>1, <3>2, <4>2
        <5>2. g[t] = f[t] /\ g[t \ {Max(t)}] = f[t \ {Max(t)}]
          BY <4>2
        <5> QED
          BY <5>1, <5>2
      <4> QED
        BY <4>1, <4>2
    <3>4. g = [t \in SUBSET (1..(k + 1)) |-> g[t]]
      OBVIOUS
    <3> HIDE DEF g
    <3>5. Ok(g, k + 1)
      BY <3>3, <3>4
    <3> HIDE DEF Ok
    <3> QED
      BY <3>5
  <2> HIDE DEF T
  <2>3. n \in T
    BY <1>1, <2>1, <2>2, Upwards
  <2>4. PICK f : Ok(f, n)
    BY <2>3 DEF T
  <2>5. \A t \in SUBSET (1..n) :
          f[t] = IF t = {} THEN base ELSE after(f[t \ {Max(t)}], place[Max(t)])
    BY <1>4, <2>4
  <2>6. f = [t \in SUBSET (1..n) |->
               IF t = {} THEN base ELSE after(f[t \ {Max(t)}], place[Max(t)])]
    BY <2>4, <2>5
  <2>7. Folds(f)
    BY <1>3, <2>6
  <2> HIDE DEF Folds
  <2> QED
    BY <2>7
<1>6. Folds(h)
  <2> HIDE DEF Folds
  <2> QED
    BY <1>5
<1> HIDE DEF h
<1>7. \A t \in SUBSET (1..n) : h[t] = IF t = {} THEN base ELSE after(h[t \ {Max(t)}], Max(t))
  BY <1>3, <1>4, <1>6
<1> HIDE DEF Folds
<1>8. P[0] = base
  <2>1. 1..0 = {} /\ 0 \in 0..n
    BY <1>1
  <2> QED
    BY <1>7, <2>1
<1>9. ASSUME NEW k \in 1..n PROVE P[k] = after(P[k - 1], k)
  <2> DEFINE u == 1..k
  <2>1. Max(u) = k /\ u \ {k} = 1..(k - 1) /\ u # {} /\ u \in SUBSET (1..n)
    BY <1>1, Segments
  <2> HIDE DEF u
  <2>2. h[u] = after(h[1..(k - 1)], k)
    BY <1>7, <2>1
  <2>3. k \in 0..n /\ k - 1 \in 0..n
    BY <1>1
  <2> QED
    BY <2>2, <2>3 DEF u
<1>10. P[n] = Derive(db, evs, baseline)
  BY <1>1, <1>2, <1>3
<1> HIDE DEF P
<1>11. Steps(P, db, evs, baseline)
  BY <1>8, <1>9 DEF Steps, n, base, after
<1> QED
  BY <1>10, <1>11 DEF n

-----------------------------------------------------------------------------
(* A replay of a log, with every artifact in its place. *)

\* Rows as Derive keeps them.
IsRows(d) ==
  /\ d = [turns |-> d.turns, docs |-> d.docs, fault |-> d.fault, epoch |-> d.epoch]
  /\ d.turns = [t \in DOMAIN d.turns |-> d.turns[t]]
  /\ d.fault \in BOOLEAN /\ d.epoch \in Nat

\* What ApplyEvent does with event e at place i when its artifact is there.
Apply(e, d, i) ==
  ApplyEvent([artifacts |-> {[event |-> <<i, e.life>>, blob |-> 0]}, blobs |-> {0}],
             [j \in {i} |-> e], d, i)

LEMMA ApplyIs ==
  ASSUME NEW db, NEW evs, NEW i \in DOMAIN evs, NEW d,
         evs[i].kind = "finish" /\ evs[i].body = "artifact" => HasArtifact(db, Id(evs, i))
  PROVE ApplyEvent(db, evs, d, i) = Apply(evs[i], d, i)
<1> DEFINE e == evs[i]
           one == [j \in {i} |-> e]
           has == [artifacts |-> {[event |-> <<i, e.life>>, blob |-> 0]}, blobs |-> {0}]
<1>1. one[i] = e /\ Id(one, i) = Id(evs, i) /\ \A x : Doc(one, i, x) = Doc(evs, i, x)
  BY DEF Id, Doc
<1>2. HasArtifact(has, Id(one, i))
  BY <1>1 DEF HasArtifact, Id
<1>3. Apply(e, d, i) = ApplyEvent(has, one, d, i)
  BY DEF Apply
<1>4. evs[i].kind = "finish" => ~(evs[i].body = "artifact" /\ ~HasArtifact(db, Id(evs, i)))
  OBVIOUS
<1>5. ~(one[i].body = "artifact" /\ ~HasArtifact(has, Id(one, i)))
  BY <1>2
<1> HIDE DEF one, has, e
<1>6. ApplyEvent(db, evs, d, i) = ApplyEvent(has, one, d, i)
  <2>1. CASE evs[i].kind = "finish"
    BY <1>1, <1>4, <1>5, <2>1 DEF ApplyEvent, e
  <2>2. CASE evs[i].kind = "turn"
    BY <1>1, <2>2 DEF ApplyEvent, e
  <2>3. CASE evs[i].kind = "close"
    BY <1>1, <2>3 DEF ApplyEvent, e
  <2>4. CASE evs[i].kind = "compact"
    BY <1>1, <2>4 DEF ApplyEvent, e
  <2>5. CASE evs[i].kind = "reset"
    BY <1>1, <2>5 DEF ApplyEvent, e
  <2>6. CASE evs[i].kind \notin {"turn", "close", "finish", "compact", "reset"}
    BY <1>1, <2>6 DEF ApplyEvent, e
  <2> QED
    BY <2>1, <2>2, <2>3, <2>4, <2>5, <2>6
<1> QED
  BY <1>3, <1>6 DEF e

\* A compaction names turns that are there and not retired.
Compactable(e, d, i) == \A t \in e.sources : t \in DOMAIN d.turns /\ d.turns[t].retired \in {0, i}

Documented(e, d, i) == e.kind \in {"turn", "finish"} \/ (e.kind = "compact" /\ Compactable(e, d, i))

\* The row of turn t after event e.
Row(e, d, i, t) ==
  IF e.kind = "turn" /\ t = <<i, e.life>>
  THEN [epoch |-> d.epoch, start |-> i, end |-> 0, retired |-> 0]
  ELSE IF e.kind = "close" /\ t = e.turn THEN Ending(d.turns[t], i)
  ELSE IF e.kind = "compact" /\ Compactable(e, d, i) /\ t \in e.sources
  THEN [d.turns[t] EXCEPT !.retired = i] ELSE d.turns[t]

\* The rows a that event e makes of the rows d.
Outcome(e, d, i, a) ==
  /\ IsRows(a)
  /\ a.fault <=> e.kind = "compact" /\ ~Compactable(e, d, i)
  /\ a.docs = IF Documented(e, d, i)
              THEN d.docs \cup {[seq |-> i, life |-> e.life, epoch |-> d.epoch]} ELSE d.docs
  /\ a.epoch = IF e.kind = "reset" THEN d.epoch + 1 ELSE d.epoch
  /\ DOMAIN a.turns = IF e.kind = "turn" THEN DOMAIN d.turns \cup {<<i, e.life>>}
                                         ELSE DOMAIN d.turns
  /\ \A t \in DOMAIN a.turns : a.turns[t] = Row(e, d, i, t)

LEMMA OutcomeOfApply ==
  ASSUME NEW e, NEW d, IsRows(d), ~d.fault, NEW i \in Nat
  PROVE  Outcome(e, d, i, Apply(e, d, i))
<1> DEFINE a == Apply(e, d, i)
           one == [j \in {i} |-> e]
           has == [artifacts |-> {[event |-> <<i, e.life>>, blob |-> 0]}, blobs |-> {0}]
           doc == [seq |-> i, life |-> e.life, epoch |-> d.epoch]
<1>1. one[i] = e /\ Id(one, i) = <<i, e.life>> /\ Doc(one, i, d.epoch) = doc
  BY DEF Id, Doc
<1>2. (one[i].body = "artifact" /\ ~HasArtifact(has, Id(one, i)) <=> FALSE)
  BY <1>1 DEF HasArtifact, Id
<1>3. a = ApplyEvent(has, one, d, i)
  BY DEF Apply
<1> HIDE DEF a, one, has
<1>4. CASE e.kind = "turn"
  <2> DEFINE row == [epoch |-> d.epoch, start |-> i, end |-> 0, retired |-> 0]
             more == Upsert(d.turns, [t \in {<<i, e.life>>} |-> row])
  <2>1. a = [d EXCEPT !.docs = @ \cup {doc}, !.turns = more]
    BY <1>1, <1>3, <1>4 DEF ApplyEvent
  <2>2. /\ DOMAIN more = DOMAIN d.turns \cup {<<i, e.life>>}
        /\ more = [t \in DOMAIN more |-> more[t]]
        /\ \A t \in DOMAIN more : more[t] = IF t = <<i, e.life>> THEN row ELSE d.turns[t]
    BY DEF Upsert
  <2> HIDE DEF more
  <2>3. a = [turns |-> more, docs |-> d.docs \cup {doc}, fault |-> d.fault, epoch |-> d.epoch]
    BY <2>1 DEF IsRows
  <2> QED
    BY <1>4, <2>2, <2>3 DEF IsRows, Row, Documented, Outcome, a
<1>5. CASE e.kind = "close"
  <2> DEFINE more == [d.turns EXCEPT ![e.turn] = Ending(@, i)]
  <2>1. a = [d EXCEPT !.turns = more]
    <3>1. a = [d EXCEPT !.turns[e.turn] = Ending(@, i)]
      BY <1>1, <1>3, <1>5 DEF ApplyEvent
    <3> QED
      BY <3>1 DEF IsRows
  <2>2. /\ DOMAIN more = DOMAIN d.turns
        /\ more = [t \in DOMAIN more |-> more[t]]
        /\ \A t \in DOMAIN more : more[t] = IF t = e.turn THEN Ending(d.turns[t], i) ELSE d.turns[t]
    BY DEF IsRows
  <2> HIDE DEF more
  <2>3. a = [turns |-> more, docs |-> d.docs, fault |-> d.fault, epoch |-> d.epoch]
    BY <2>1 DEF IsRows
  <2> QED
    BY <1>5, <2>2, <2>3 DEF IsRows, Row, Documented, Outcome, a
<1>6. CASE e.kind = "finish"
  <2>1. a = [d EXCEPT !.docs = @ \cup {doc}]
    BY <1>1, <1>2, <1>3, <1>6 DEF ApplyEvent
  <2>2. a = [turns |-> d.turns, docs |-> d.docs \cup {doc}, fault |-> d.fault, epoch |-> d.epoch]
    BY <2>1 DEF IsRows
  <2> QED
    BY <1>6, <2>2 DEF IsRows, Row, Documented, Outcome, a
<1>7. CASE e.kind = "compact" /\ Compactable(e, d, i)
  <2> DEFINE more == [t \in DOMAIN d.turns |-> IF t \in e.sources
                        THEN [d.turns[t] EXCEPT !.retired = i] ELSE d.turns[t]]
  <2>1. a = [d EXCEPT !.docs = @ \cup {doc}, !.turns = more]
    BY <1>1, <1>3, <1>7 DEF ApplyEvent, Compactable
  <2>2. /\ DOMAIN more = DOMAIN d.turns
        /\ more = [t \in DOMAIN more |-> more[t]]
        /\ \A t \in DOMAIN more : more[t] = IF t \in e.sources
             THEN [d.turns[t] EXCEPT !.retired = i] ELSE d.turns[t]
    OBVIOUS
  <2> HIDE DEF more
  <2>3. a = [turns |-> more, docs |-> d.docs \cup {doc}, fault |-> d.fault, epoch |-> d.epoch]
    BY <2>1 DEF IsRows
  <2> QED
    BY <1>7, <2>2, <2>3 DEF IsRows, Row, Documented, Outcome, a
<1>8. CASE e.kind = "compact" /\ ~Compactable(e, d, i)
  <2>1. a = [d EXCEPT !.fault = TRUE]
    BY <1>1, <1>3, <1>8 DEF ApplyEvent, Compactable
  <2>2. a = [turns |-> d.turns, docs |-> d.docs, fault |-> TRUE, epoch |-> d.epoch]
    BY <2>1 DEF IsRows
  <2> QED
    BY <1>8, <2>2 DEF IsRows, Row, Documented, Outcome, a
<1>9. CASE e.kind = "reset"
  <2>1. a = [d EXCEPT !.epoch = @ + 1]
    BY <1>1, <1>3, <1>9 DEF ApplyEvent
  <2>2. a = [turns |-> d.turns, docs |-> d.docs, fault |-> d.fault, epoch |-> d.epoch + 1]
    BY <2>1 DEF IsRows
  <2> QED
    BY <1>9, <2>2 DEF IsRows, Row, Documented, Outcome, a
<1>10. CASE e.kind \notin {"turn", "close", "finish", "compact", "reset"}
  <2>1. a = d
    BY <1>1, <1>3, <1>10 DEF ApplyEvent
  <2> QED
    BY <1>10, <2>1 DEF IsRows, Row, Documented, Outcome, a
<1> QED
  BY <1>4, <1>5, <1>6, <1>7, <1>8, <1>9, <1>10

After(e, d, i) == IF d.fault THEN d ELSE Apply(e, d, i)

Nothing == [turns |-> <<>>, docs |-> {}, fault |-> FALSE, epoch |-> 0]

\* P holds the rows after each event of a log.
Replay(P, L) ==
  /\ P[0] = Nothing
  /\ \A k \in 1..Len(L) : P[k] = After(L[k], P[k - 1], k)

LEMMA LogIsSequence ==
  ASSUME NEW L, IsLog(L)
  PROVE Len(L) \in Nat /\ DOMAIN L = 1..Len(L)
BY DEF IsLog

\* Steps upwards from 0 to a length.
LEMMA Climb ==
  ASSUME NEW n \in Nat, NEW T, 0 \in T, \A k \in 0..(n - 1) : k \in T => k + 1 \in T
  PROVE \A k \in 0..n : k \in T
<1> DEFINE U == {k \in Nat : k <= n => k \in T}
<1>1. 0 \in U
  OBVIOUS
<1>2. ASSUME NEW k \in Nat, k \in U PROVE k + 1 \in U
  <2> SUFFICES ASSUME k + 1 <= n PROVE k + 1 \in T
    OBVIOUS
  <2>1. k \in 0..(n - 1) /\ k <= n
    OBVIOUS
  <2> QED
    BY <1>2, <2>1
<1> HIDE DEF U
<1>3. Nat \subseteq U
  BY <1>1, <1>2, Upwards
<1>4. \A k \in 0..n : k \in Nat /\ k <= n
  OBVIOUS
<1> QED
  BY <1>3, <1>4 DEF U

LEMMA NothingIsRows == IsRows(Nothing)
<1> DEFINE none == <<>>
<1>1. none = [t \in DOMAIN none |-> none[t]]
  OBVIOUS
<1> HIDE DEF none
<1>2. IsRows([turns |-> none, docs |-> {}, fault |-> FALSE, epoch |-> 0])
  BY <1>1 DEF IsRows
<1> QED
  BY <1>2 DEF Nothing, none

LEMMA AfterIsRows ==
  ASSUME NEW e, NEW d, IsRows(d), NEW i \in Nat
  PROVE IsRows(After(e, d, i)) /\ (d.fault => After(e, d, i).fault)
<1>1. CASE d.fault
  BY <1>1 DEF After
<1>2. CASE ~d.fault
  BY <1>2, OutcomeOfApply DEF After, Outcome
<1> QED
  BY <1>1, <1>2

LEMMA ReplayRows ==
  ASSUME NEW L, IsLog(L), NEW P, Replay(P, L)
  PROVE \A k \in 0..Len(L) : IsRows(P[k])
<1> DEFINE n == Len(L)
           T == {k \in 0..n : IsRows(P[k])}
<1>1. n \in Nat
  BY LogIsSequence
<1>2. 0 \in T
  BY <1>1, NothingIsRows DEF Replay
<1>3. ASSUME NEW k \in 0..(n - 1), k \in T PROVE k + 1 \in T
  <2>1. k + 1 \in 1..n /\ k + 1 \in Nat /\ (k + 1) - 1 = k /\ k + 1 \in 0..n
    BY <1>1
  <2>2. P[k + 1] = After(L[k + 1], P[k], k + 1)
    BY <2>1 DEF Replay
  <2>3. IsRows(P[k])
    BY <1>3
  <2>4. IsRows(P[k + 1])
    BY <2>1, <2>2, <2>3, AfterIsRows
  <2> QED
    BY <2>1, <2>4
<1> HIDE DEF T, n
<1>4. \A k \in 0..n : k \in T
  BY <1>1, <1>2, <1>3, Climb
<1> QED
  BY <1>4 DEF T, n

\* One step of a replay.
LEMMA ReplayStep ==
  ASSUME NEW L, IsLog(L), NEW P, Replay(P, L), NEW k \in 0..(Len(L) - 1)
  PROVE /\ k + 1 \in 1..Len(L) /\ k + 1 \in Nat /\ k \in 0..Len(L) /\ k + 1 \in 0..Len(L)
        /\ IsRows(P[k]) /\ IsRows(P[k + 1]) /\ P[k + 1] = After(L[k + 1], P[k], k + 1)
<1>1. /\ k + 1 \in 1..Len(L) /\ k + 1 \in Nat /\ k \in 0..Len(L) /\ k + 1 \in 0..Len(L)
      /\ (k + 1) - 1 = k
  BY LogIsSequence
<1> QED
  BY <1>1, ReplayRows DEF Replay

\* A fault stays, so a replay that ends without one never had one.
LEMMA NoFaultBefore ==
  ASSUME NEW L, IsLog(L), NEW P, Replay(P, L), NEW n \in 0..Len(L), ~P[n].fault
  PROVE \A k \in 0..n : ~P[k].fault
<1>1. Len(L) \in Nat /\ n \in Nat
  BY LogIsSequence
<1> DEFINE U == {j \in 0..n : P[n - j].fault => FALSE}
<1>2. 0 \in U
  BY <1>1
<1>3. ASSUME NEW j \in 0..(n - 1), j \in U PROVE j + 1 \in U
  <2> DEFINE k == n - (j + 1)
  <2>1. k \in 0..(Len(L) - 1) /\ k + 1 = n - j /\ j + 1 \in 0..n
    BY <1>1
  <2>2. ~P[k + 1].fault
    BY <1>3, <2>1
  <2> HIDE DEF k
  <2>3. P[k + 1] = After(L[k + 1], P[k], k + 1)
    BY <2>1, ReplayStep
  <2>4. ~P[k].fault
    BY <2>2, <2>3 DEF After
  <2> QED
    BY <2>1, <2>4 DEF k
<1> HIDE DEF U
<1>4. \A j \in 0..n : j \in U
  BY <1>1, <1>2, <1>3, Climb
<1>5. ASSUME NEW k \in 0..n PROVE ~P[k].fault
  <2>1. n - k \in 0..n /\ n - (n - k) = k
    BY <1>1
  <2> QED
    BY <1>4, <2>1 DEF U
<1> QED
  BY <1>5

\* Logs with a common beginning have the same replay of it.
LEMMA SameReplay ==
  ASSUME NEW L, IsLog(L), NEW P, Replay(P, L), NEW M, IsLog(M), NEW Q, Replay(Q, M),
         NEW m \in Nat, m <= Len(L), m <= Len(M), \A i \in 1..m : L[i] = M[i]
  PROVE \A k \in 0..m : P[k] = Q[k]
<1> DEFINE T == {k \in 0..m : P[k] = Q[k]}
<1>1. Len(L) \in Nat /\ Len(M) \in Nat
  BY LogIsSequence
<1>2. 0 \in T
  BY DEF Replay
<1>3. ASSUME NEW k \in 0..(m - 1), k \in T PROVE k + 1 \in T
  <2>1. k + 1 \in 1..m /\ k + 1 \in 0..m /\ k \in 0..(Len(L) - 1) /\ k \in 0..(Len(M) - 1)
    BY <1>1
  <2>2. P[k + 1] = After(L[k + 1], P[k], k + 1) /\ Q[k + 1] = After(M[k + 1], Q[k], k + 1)
    BY <2>1, ReplayStep
  <2> QED
    BY <1>3, <2>1, <2>2
<1> HIDE DEF T
<1>4. \A k \in 0..m : k \in T
  BY <1>2, <1>3, Climb
<1> QED
  BY <1>4 DEF T

LEMMA ReplayExists ==
  ASSUME NEW L, IsLog(L)
  PROVE \E P : Replay(P, L)
<1> DEFINE db == [artifacts |-> {[event |-> Id(L, i), blob |-> 0] : i \in DOMAIN L}, blobs |-> {0}]
<1>1. ASSUME NEW i \in DOMAIN L PROVE HasArtifact(db, Id(L, i))
  <2> DEFINE row == [event |-> Id(L, i), blob |-> 0]
  <2>1. row \in db.artifacts /\ row.event = Id(L, i) /\ row.blob \in db.blobs
    OBVIOUS
  <2> QED
    BY <2>1 DEF HasArtifact
<1> HIDE DEF db
<1>2. PICK P : Steps(P, db, L, FALSE)
  BY DeriveSteps
<1>3. P[0] = Nothing
  BY <1>2 DEF Steps, Basis, Nothing
<1>4. ASSUME NEW k \in 1..Len(L) PROVE P[k] = After(L[k], P[k - 1], k)
  <2>1. k \in DOMAIN L /\ ~(k <= 0)
    BY LogIsSequence
  <2>2. P[k] = Advance(db, L, 0, P[k - 1], k)
    BY <1>2 DEF Steps, Applied
  <2>3. ApplyEvent(db, L, P[k - 1], k) = Apply(L[k], P[k - 1], k)
    BY <1>1, <2>1, ApplyIs
  <2> QED
    BY <2>1, <2>2, <2>3 DEF Advance, After
<1> QED
  BY <1>3, <1>4 DEF Replay

\* What a projection from nothing computes, where it finds every artifact.
LEMMA DeriveIsReplay ==
  ASSUME NEW L, IsLog(L), NEW P, Replay(P, L), NEW db,
         \A i \in DOMAIN L : L[i].kind = "finish" /\ L[i].body = "artifact"
                               => HasArtifact(db, Id(L, i))
  PROVE Derive(db, L, FALSE) = P[Len(L)]
<1> DEFINE n == Len(L)
<1>1. n \in Nat /\ DOMAIN L = 1..n
  BY LogIsSequence
<1>2. PICK Q : Steps(Q, db, L, FALSE) /\ Q[Len(L)] = Derive(db, L, FALSE)
  BY DeriveSteps
<1> DEFINE T == {k \in 0..n : P[k] = Q[k]}
<1>3. 0 \in T
  BY <1>1, <1>2 DEF Steps, Basis, Nothing, Replay
<1>4. ASSUME NEW k \in 0..(n - 1), k \in T PROVE k + 1 \in T
  <2>1. k + 1 \in 1..n /\ k + 1 \in 0..n /\ (k + 1) - 1 = k /\ ~(k + 1 <= 0) /\ k + 1 \in DOMAIN L
    BY <1>1
  <2>2. Q[k + 1] = Advance(db, L, 0, Q[k], k + 1)
    BY <1>2, <2>1 DEF Steps, Applied
  <2>3. ApplyEvent(db, L, Q[k], k + 1) = Apply(L[k + 1], Q[k], k + 1)
    BY <2>1, ApplyIs
  <2>4. P[k + 1] = After(L[k + 1], P[k], k + 1)
    BY <2>1 DEF Replay
  <2>5. P[k] = Q[k]
    BY <1>4
  <2>6. P[k + 1] = Q[k + 1]
    BY <2>1, <2>2, <2>3, <2>4, <2>5 DEF Advance, After
  <2> QED
    BY <2>1, <2>6
<1> HIDE DEF T, n
<1>5. \A k \in 0..n : k \in T
  BY <1>1, <1>3, <1>4, Climb
<1>6. n \in 0..n
  BY <1>1
<1> QED
  BY <1>2, <1>5, <1>6 DEF T, n

\* The document of place i.
Place(P, L, i) == [seq |-> i, life |-> L[i].life, epoch |-> P[i - 1].epoch]

LEMMA StepGrows ==
  ASSUME NEW L, IsLog(L), NEW P, Replay(P, L), NEW k \in 0..(Len(L) - 1)
  PROVE  /\ DOMAIN P[k].turns \subseteq DOMAIN P[k + 1].turns
         /\ P[k].docs \subseteq P[k + 1].docs
         /\ P[k + 1].docs \subseteq P[k].docs \cup {Place(P, L, k + 1)}
<1>1. /\ k + 1 \in Nat /\ IsRows(P[k]) /\ P[k + 1] = After(L[k + 1], P[k], k + 1)
  BY ReplayStep
<1>2. CASE P[k].fault
  BY <1>1, <1>2 DEF After
<1>3. CASE ~P[k].fault
  <2> DEFINE e == L[k + 1]
             d == P[k]
  <2>1. P[k + 1] = Apply(e, d, k + 1)
    BY <1>1, <1>3 DEF After
  <2>2. (k + 1) - 1 = k
    OBVIOUS
  <2>3. Place(P, L, k + 1) = [seq |-> k + 1, life |-> e.life, epoch |-> d.epoch]
    BY <2>2 DEF Place
  <2>4. IsRows(d) /\ ~d.fault
    BY <1>1, <1>3
  <2> DEFINE a == Apply(e, d, k + 1)
  <2>5. a = P[k + 1]
    BY <2>1
  <2> HIDE DEF e, d
  <2>6. /\ a.docs = IF Documented(e, d, k + 1)
                    THEN d.docs \cup {[seq |-> k + 1, life |-> e.life, epoch |-> d.epoch]}
                    ELSE d.docs
        /\ DOMAIN a.turns = IF e.kind = "turn" THEN DOMAIN d.turns \cup {<<k + 1, e.life>>}
                                               ELSE DOMAIN d.turns
    BY ONLY <1>1, <2>4, OutcomeOfApply DEF Outcome
  <2> HIDE DEF a
  <2>7. /\ DOMAIN d.turns \subseteq DOMAIN a.turns
        /\ d.docs \subseteq a.docs
        /\ a.docs \subseteq d.docs \cup {Place(P, L, k + 1)}
    BY <2>3, <2>6
  <2> QED
    BY <2>5, <2>7 DEF d
<1> QED
  BY <1>2, <1>3

\* What a replay has, it keeps: a document tells at which place it was added, and the rows
\* after k events hold those of the places up to k.
LEMMA Growth ==
  ASSUME NEW L, IsLog(L), NEW P, Replay(P, L), NEW n \in 0..Len(L)
  PROVE  /\ \A d \in P[n].docs : d.seq \in 1..n /\ d = Place(P, L, d.seq)
         /\ \A k \in 0..n : /\ DOMAIN P[k].turns \subseteq DOMAIN P[n].turns
                            /\ P[k].docs \subseteq P[n].docs
                            /\ \A d \in P[n].docs : d.seq <= k => d \in P[k].docs
<1> DEFINE
      T == {j \in 0..Len(L) :
              /\ \A d \in P[j].docs : d.seq \in 1..j /\ d = Place(P, L, d.seq)
              /\ \A k \in 0..j : /\ DOMAIN P[k].turns \subseteq DOMAIN P[j].turns
                                 /\ P[k].docs \subseteq P[j].docs
                                 /\ \A d \in P[j].docs : d.seq <= k => d \in P[k].docs}
<1>1. Len(L) \in Nat
  BY LogIsSequence
<1>2. 0 \in T
  <2>1. P[0].docs = {} /\ \A k \in 0..0 : k = 0
    BY DEF Replay, Nothing
  <2> QED
    BY <1>1, <2>1
<1>3. ASSUME NEW j \in 0..(Len(L) - 1), j \in T PROVE j + 1 \in T
  <2>1. /\ j + 1 \in 0..Len(L)
        /\ DOMAIN P[j].turns \subseteq DOMAIN P[j + 1].turns
        /\ P[j].docs \subseteq P[j + 1].docs
        /\ P[j + 1].docs \subseteq P[j].docs \cup {Place(P, L, j + 1)}
    BY <1>1, StepGrows
  <2>2. ASSUME NEW d \in P[j + 1].docs
        PROVE  /\ d.seq \in 1..(j + 1) /\ d = Place(P, L, d.seq)
               /\ d.seq <= j => d \in P[j].docs
    <3>1. CASE d \in P[j].docs
      <4>1. d.seq \in 1..j /\ d = Place(P, L, d.seq)
        BY <1>3, <3>1
      <4>2. d.seq \in 1..(j + 1)
        BY <4>1
      <4> QED
        BY <3>1, <4>1, <4>2
    <3>2. CASE d = Place(P, L, j + 1)
      <4>1. d.seq = j + 1
        BY <3>2 DEF Place
      <4> QED
        BY <3>2, <4>1
    <3> QED
      BY <2>1, <3>1, <3>2
  <2>3. ASSUME NEW k \in 0..(j + 1)
        PROVE  /\ DOMAIN P[k].turns \subseteq DOMAIN P[j + 1].turns
               /\ P[k].docs \subseteq P[j + 1].docs
               /\ \A d \in P[j + 1].docs : d.seq <= k => d \in P[k].docs
    <3>1. CASE k = j + 1
      BY <3>1
    <3>2. CASE k \in 0..j
      <4>1. /\ DOMAIN P[k].turns \subseteq DOMAIN P[j].turns
            /\ P[k].docs \subseteq P[j].docs
            /\ \A d \in P[j].docs : d.seq <= k => d \in P[k].docs
        BY <1>3, <3>2
      <4>2. ASSUME NEW d \in P[j + 1].docs, d.seq <= k PROVE d \in P[k].docs
        <5>1. d.seq \in 1..(j + 1) /\ (d.seq <= j => d \in P[j].docs)
          BY <2>2
        <5>2. d.seq <= j
          BY <3>2, <4>2, <5>1
        <5> QED
          BY <4>1, <4>2, <5>1, <5>2
      <4> QED
        BY <2>1, <4>1, <4>2
    <3> QED
      BY <3>1, <3>2
  <2> QED
    BY <2>1, <2>2, <2>3
<1> HIDE DEF T
<1>4. \A j \in 0..Len(L) : j \in T
  BY <1>1, <1>2, <1>3, Climb
<1> QED
  BY <1>4 DEF T

-----------------------------------------------------------------------------
(* Only the tail of the log. *)

\* The rows q that a projection holds in memory, over those of a file, are rows d of a
\* replay; the turns of S are loaded if there are any.
Agree(d, q, file, S) ==
  /\ IsRows(d) /\ IsRows(q) /\ ~d.fault /\ ~q.fault /\ q.epoch = d.epoch
  /\ d.docs = file.docs \cup q.docs
  /\ DOMAIN d.turns = DOMAIN file.turns \cup DOMAIN q.turns
  /\ \A t \in DOMAIN d.turns :
       d.turns[t] = IF t \in DOMAIN q.turns THEN q.turns[t] ELSE file.turns[t]
  /\ \A t \in S : t \in DOMAIN d.turns => t \in DOMAIN q.turns

LEMMA ApplyAgrees ==
  ASSUME NEW d, NEW q, NEW file, NEW S, Agree(d, q, file, S), NEW i \in Nat,
         NEW e, e.turn \in S, e.sources \subseteq S, ~Apply(e, q, i).fault
  PROVE  Agree(Apply(e, d, i), Apply(e, q, i), file, S)
<1> DEFINE a == Apply(e, d, i)
           b == Apply(e, q, i)
<1>1. /\ IsRows(d) /\ IsRows(q) /\ ~d.fault /\ ~q.fault /\ q.epoch = d.epoch
      /\ \A t \in DOMAIN q.turns : t \in DOMAIN d.turns /\ d.turns[t] = q.turns[t]
      /\ \A t \in S : t \in DOMAIN d.turns => t \in DOMAIN q.turns
  BY DEF Agree
<1>2. e.kind = "compact" => (Compactable(e, d, i) <=> Compactable(e, q, i))
  BY <1>1 DEF Compactable
<1> DEFINE doc == [seq |-> i, life |-> e.life, epoch |-> d.epoch]
<1>3. Outcome(e, d, i, a) /\ Outcome(e, q, i, b)
  BY ONLY <1>1, OutcomeOfApply
<1> HIDE DEF a, b
<1>4. /\ IsRows(a) /\ (a.fault <=> e.kind = "compact" /\ ~Compactable(e, d, i))
      /\ a.docs = IF Documented(e, d, i) THEN d.docs \cup {doc} ELSE d.docs
      /\ a.epoch = IF e.kind = "reset" THEN d.epoch + 1 ELSE d.epoch
      /\ DOMAIN a.turns = IF e.kind = "turn" THEN DOMAIN d.turns \cup {<<i, e.life>>}
                                             ELSE DOMAIN d.turns
      /\ \A t \in DOMAIN a.turns : a.turns[t] = Row(e, d, i, t)
  BY <1>3 DEF Outcome
<1>5. /\ IsRows(b) /\ (b.fault <=> e.kind = "compact" /\ ~Compactable(e, q, i))
      /\ b.docs = IF Documented(e, q, i)
                  THEN q.docs \cup {[seq |-> i, life |-> e.life, epoch |-> q.epoch]} ELSE q.docs
      /\ b.epoch = IF e.kind = "reset" THEN q.epoch + 1 ELSE q.epoch
      /\ DOMAIN b.turns = IF e.kind = "turn" THEN DOMAIN q.turns \cup {<<i, e.life>>}
                                             ELSE DOMAIN q.turns
      /\ \A t \in DOMAIN b.turns : b.turns[t] = Row(e, q, i, t)
  BY <1>3 DEF Outcome
<1>6. ~b.fault
  BY DEF b
<1>7. ~a.fault /\ a.epoch = b.epoch
  BY <1>1, <1>2, <1>4, <1>5, <1>6
<1>8. a.docs = file.docs \cup b.docs
  <2>1. Documented(e, d, i) <=> Documented(e, q, i)
    BY <1>2 DEF Documented
  <2>2. d.docs = file.docs \cup q.docs
    BY DEF Agree
  <2> HIDE DEF doc
  <2>3. b.docs = IF Documented(e, d, i) THEN q.docs \cup {doc} ELSE q.docs
    BY <1>1, <1>5, <2>1 DEF doc
  <2> QED
    BY <1>4, <2>2, <2>3
<1>9. DOMAIN a.turns = DOMAIN file.turns \cup DOMAIN b.turns
  <2>1. DOMAIN d.turns = DOMAIN file.turns \cup DOMAIN q.turns
    BY DEF Agree
  <2> QED
    BY <1>4, <1>5, <2>1
<1>10. ASSUME NEW t \in DOMAIN a.turns
      PROVE  a.turns[t] = IF t \in DOMAIN b.turns THEN b.turns[t] ELSE file.turns[t]
  <2>1. a.turns[t] = Row(e, d, i, t)
    BY <1>4
  <2>2. CASE t \in DOMAIN b.turns
    <3>1. b.turns[t] = Row(e, q, i, t)
      BY <1>5, <2>2
    <3>2. (e.kind = "turn" /\ t = <<i, e.life>>) \/ t \in DOMAIN q.turns
      BY <1>5, <2>2
    <3>3. (e.kind = "turn" /\ t = <<i, e.life>>) \/ d.turns[t] = q.turns[t]
      BY <1>1, <3>2
    <3>4. Row(e, d, i, t) = Row(e, q, i, t)
      BY <1>1, <1>2, <3>3 DEF Row
    <3> QED
      BY <2>1, <2>2, <3>1, <3>4
  <2>3. CASE t \notin DOMAIN b.turns
    <3>1. t \notin DOMAIN q.turns /\ ~(e.kind = "turn" /\ t = <<i, e.life>>)
      BY <1>5, <2>3
    <3>2. t \in DOMAIN d.turns
      BY <1>4, <3>1
    <3>3. t \notin S
      BY <1>1, <3>1, <3>2
    <3>4. Row(e, d, i, t) = d.turns[t]
      BY <3>1, <3>3 DEF Row
    <3>5. d.turns[t] = file.turns[t]
      BY <3>1, <3>2 DEF Agree
    <3> QED
      BY <2>1, <2>3, <3>4, <3>5
  <2> QED
    BY <2>2, <2>3
<1>11. \A t \in S : t \in DOMAIN a.turns => t \in DOMAIN b.turns
  BY <1>1, <1>4, <1>5
<1>12. Agree(a, b, file, S)
  BY <1>4, <1>5, <1>6, <1>7, <1>8, <1>9, <1>10, <1>11 DEF Agree
<1> QED
  BY <1>12 DEF a, b

\* The log's artifacts are in the file.
Stored(f, L) == \A i \in DOMAIN L : L[i].kind = "finish" /\ L[i].body = "artifact"
                                      => HasArtifact(f, Id(L, i))

\* The rows and the checkpoint of a file are those of a replay without a fault.
Derived(f, L, P) ==
  /\ ~P[Len(L)].fault
  /\ f.turns = P[Len(L)].turns /\ f.docs = P[Len(L)].docs
  /\ f.mark = [through |-> Len(L), hash |-> PrefixHash(L, Len(L)), epoch |-> P[Len(L)].epoch]

LEMMA UpsertAll ==
  ASSUME NEW a, NEW b, b = [t \in DOMAIN b |-> b[t]], DOMAIN a \subseteq DOMAIN b
  PROVE  Upsert(a, b) = b
<1>1. DOMAIN a \cup DOMAIN b = DOMAIN b
  OBVIOUS
<1>2. Upsert(a, b) = [t \in DOMAIN b |-> b[t]]
  BY <1>1 DEF Upsert
<1> QED
  BY <1>2

\* A projection from nothing over no rows, or over rows of a beginning of the same log.
LEMMA FromNothing ==
  ASSUME NEW f, IsFile(f), NEW L, IsLog(L), NEW P, Replay(P, L), Stored(f, L),
         DOMAIN f.turns \subseteq DOMAIN P[Len(L)].turns, f.docs \subseteq P[Len(L)].docs,
         ~Failing(f, L, FALSE)
  PROVE  Derived(Projected(f, L, FALSE), L, P)
<1> DEFINE dd == Derive(f, L, FALSE)
           t == Upsert(f.turns, dd.turns)
           o == f.docs \cup dd.docs
           m == [through |-> Len(L), hash |-> PrefixHash(L, Len(L)), epoch |-> dd.epoch]
<1>1. Projected(f, L, FALSE) = File(f.artifacts, f.blobs, t, o, m)
  BY ProjectedIs
<1>2. dd = P[Len(L)]
  BY DeriveIsReplay DEF Stored
<1>3. ~dd.fault
  BY DEF Failing
<1> HIDE DEF dd
<1>4. IsRows(dd)
  <2>1. Len(L) \in 0..Len(L)
    BY LogIsSequence
  <2> QED
    BY <1>2, <2>1, ReplayRows
<1>5. t = dd.turns /\ o = dd.docs
  BY <1>2, <1>4, UpsertAll DEF IsRows
<1> HIDE DEF t, o, m
<1> DEFINE g == Projected(f, L, FALSE)
<1>6. g = File(f.artifacts, f.blobs, t, o, m)
  BY <1>1
<1> HIDE DEF g
<1>7. g.turns = t /\ g.docs = o /\ g.mark = m
  BY <1>6, FileRows
<1> QED
  BY <1>2, <1>3, <1>5, <1>7 DEF Derived, m, g

\* A projection of the tail over the rows of the beginning.
LEMMA FromCheckpoint ==
  ASSUME NEW f, IsFile(f), NEW L, IsLog(L), NEW P, Replay(P, L), Stored(f, L),
         NEW m \in 0..Len(L), ~P[m].fault, f.turns = P[m].turns, f.docs = P[m].docs,
         f.mark.through = m, f.mark.epoch = P[m].epoch,
         ~Failing(f, L, TRUE)
  PROVE  Derived(Projected(f, L, TRUE), L, P)
<1> DEFINE n == Len(L)
           S == Touched(L, m)
<1>1. n \in Nat /\ m \in Nat /\ DOMAIN L = 1..n
  BY LogIsSequence
<1>2. PICK Q : Steps(Q, f, L, TRUE) /\ Q[Len(L)] = Derive(f, L, TRUE)
  BY DeriveSteps
<1>3. \A k \in 1..n : Q[k] = Advance(f, L, m, Q[k - 1], k)
  BY <1>2 DEF Steps, Applied
<1>4. \A j \in 0..m : Q[j] = Q[0]
  <2> DEFINE T == {j \in 0..m : Q[j] = Q[0]}
  <2>1. 0 \in T
    BY <1>1
  <2>2. ASSUME NEW j \in 0..(m - 1), j \in T PROVE j + 1 \in T
    <3>1. j + 1 \in 1..n /\ j + 1 <= m /\ (j + 1) - 1 = j /\ j + 1 \in 0..m
      BY <1>1
    <3>2. Q[j + 1] = Q[j]
      BY <1>3, <3>1 DEF Advance
    <3> QED
      BY <2>2, <3>1, <3>2
  <2> HIDE DEF T
  <2>3. \A j \in 0..m : j \in T
    BY <1>1, <2>1, <2>2, Climb
  <2> QED
    BY <2>3 DEF T
<1> DEFINE q == Q[0]
           d == P[m]
<1>5. IsRows(d)
  BY ReplayRows
<1>6. Agree(d, q, f, S)
  <2> DEFINE X == S \cap DOMAIN f.turns
             some == Restrict(f.turns, X)
  <2>1. q = [turns |-> some, docs |-> {}, fault |-> FALSE, epoch |-> d.epoch]
    BY <1>2 DEF Steps, Basis
  <2>2. /\ DOMAIN some = X /\ some = [t \in DOMAIN some |-> some[t]]
        /\ \A t \in X : some[t] = f.turns[t]
    BY DEF Restrict
  <2> HIDE DEF some
  <2>3. IsRows(q)
    BY <1>5, <2>1, <2>2 DEF IsRows
  <2> HIDE DEF q
  <2>4. q.turns = some /\ q.docs = {} /\ ~q.fault /\ q.epoch = d.epoch
    BY <2>1
  <2>5. f.turns = d.turns /\ f.docs = d.docs /\ ~d.fault
    OBVIOUS
  <2> HIDE DEF d
  <2> QED
    BY <1>5, <2>2, <2>3, <2>4, <2>5 DEF Agree
<1> DEFINE T == {j \in 0..(n - m) : ~Q[m + j].fault => Agree(P[m + j], Q[m + j], f, S)}
<1>7. 0 \in T
  <2>1. Q[m] = q /\ m + 0 = m /\ 0 \in 0..(n - m)
    BY <1>1, <1>4
  <2> QED
    BY <1>6, <2>1
<1>8. ASSUME NEW j \in 0..((n - m) - 1), j \in T PROVE j + 1 \in T
  <2> DEFINE k == m + j
  <2>1. /\ k \in 0..(n - 1) /\ k + 1 \in 1..n /\ (k + 1) - 1 = k /\ ~(k + 1 <= m)
        /\ k + 1 \in (m + 1)..n /\ m + (j + 1) = k + 1 /\ j + 1 \in 0..(n - m)
    <3>1. n \in Nat /\ m \in Nat
      BY <1>1
    <3> HIDE DEF n, T
    <3>2. j \in Nat /\ j + 1 <= n - m
      BY <3>1
    <3> QED
      BY <3>1, <3>2
  <2> SUFFICES ASSUME ~Q[k + 1].fault PROVE Agree(P[k + 1], Q[k + 1], f, S)
    BY <2>1
  <2>2. ~Q[k].fault => Agree(P[k], Q[k], f, S)
    BY <1>8
  <2> HIDE DEF k
  <2>3. Q[k + 1] = Advance(f, L, m, Q[k], k + 1)
    BY <1>3, <2>1
  <2>4. ~Q[k].fault
    BY <2>1, <2>3 DEF Advance
  <2>5. Q[k + 1] = Apply(L[k + 1], Q[k], k + 1)
    <3>1. ApplyEvent(f, L, Q[k], k + 1) = Apply(L[k + 1], Q[k], k + 1)
      <4>1. k + 1 \in DOMAIN L
        BY <1>1, <2>1
      <4>2. L[k + 1].kind = "finish" /\ L[k + 1].body = "artifact" => HasArtifact(f, Id(L, k + 1))
        BY <4>1 DEF Stored
      <4> QED
        BY <4>1, <4>2, ApplyIs
    <3> QED
      BY <2>1, <2>3, <2>4, <3>1 DEF Advance
  <2>6. Agree(P[k], Q[k], f, S)
    BY <2>2, <2>4
  <2>7. P[k + 1] = Apply(L[k + 1], P[k], k + 1)
    <3>1. P[k + 1] = After(L[k + 1], P[k], k + 1)
      BY <2>1, ReplayStep
    <3> QED
      BY <2>6, <3>1 DEF After, Agree
  <2>8. L[k + 1].turn \in S /\ L[k + 1].sources \subseteq S
    BY <2>1 DEF Touched
  <2>9. ~Apply(L[k + 1], Q[k], k + 1).fault
    BY <2>5
  <2>10. k + 1 \in Nat
    BY <2>1
  <2> HIDE DEF S, T
  <2>11. Agree(Apply(L[k + 1], P[k], k + 1), Apply(L[k + 1], Q[k], k + 1), f, S)
    BY ONLY <2>6, <2>8, <2>9, <2>10, ApplyAgrees
  <2> QED
    BY <2>5, <2>7, <2>11
<1> HIDE DEF T, S, q, d
<1>9. \A j \in 0..(n - m) : j \in T
  <2>1. n - m \in Nat
    BY <1>1
  <2> HIDE DEF n
  <2> QED
    BY <1>7, <1>8, <2>1, Climb
<1>10. n - m \in 0..(n - m) /\ m + (n - m) = n
  BY <1>1
<1> DEFINE dd == Derive(f, L, TRUE)
           t == Upsert(f.turns, dd.turns)
           o == f.docs \cup dd.docs
           mark == [through |-> Len(L), hash |-> PrefixHash(L, Len(L)), epoch |-> dd.epoch]
<1>11. ~dd.fault /\ dd = Q[n]
  BY <1>2 DEF Failing
<1>12. Projected(f, L, TRUE) = File(f.artifacts, f.blobs, t, o, mark)
  BY ProjectedIs
<1> HIDE DEF dd
<1>13. Agree(P[n], dd, f, S)
  <2>1. ~Q[m + (n - m)].fault => Agree(P[m + (n - m)], Q[m + (n - m)], f, S)
    BY <1>9, <1>10 DEF T
  <2> QED
    BY <1>10, <1>11, <2>1
<1> HIDE DEF n
<1>14. t = P[n].turns /\ o = P[n].docs /\ dd.epoch = P[n].epoch
  BY <1>13 DEF Agree, IsRows, Upsert
<1> HIDE DEF t, o, mark
<1> DEFINE g == Projected(f, L, TRUE)
<1>15. g = File(f.artifacts, f.blobs, t, o, mark)
  BY <1>12
<1> HIDE DEF g
<1>16. g.turns = t /\ g.docs = o /\ g.mark = mark
  BY <1>15, FileRows
<1>17. ~P[n].fault
  BY <1>13 DEF Agree
<1> QED
  BY <1>14, <1>17, <1>16 DEF Derived, mark, n, g

-----------------------------------------------------------------------------
(* Logs of earlier moments *)

IsEvent(e) == e = [kind |-> e.kind, life |-> e.life, turn |-> e.turn, call |-> e.call,
                   body |-> e.body, sources |-> e.sources]

RefersToArtifact(e) == e.kind = "finish" /\ e.body = "artifact"

\* The finish event of a call of the log.
FinishesCall(e, L) == /\ e.sources = {}
                      /\ \E c \in DOMAIN L : e.call = Id(L, c) /\ e.turn = L[c].turn

\* A log of lives up to the given one.
Written(L, life) ==
  /\ IsLog(L)
  /\ \A i \in DOMAIN L :
       /\ IsEvent(L[i]) /\ L[i].life \in Nat /\ L[i].life <= life
       /\ RefersToArtifact(L[i])
            => /\ L[i].sources = {} /\ L[i].call[1] \in 1 .. i - 1
               /\ L[i].call = Id(L, L[i].call[1]) /\ L[i].turn = L[L[i].call[1]].turn

\* What relates the log of the moment when a file was brought up to date to that of today,
\* evs: where the lives are the same so are the events, nothing is missing that was written
\* in this life, and nothing up to the sequence where a search was frozen.
Earlier(L, evs, life, frozen) ==
  /\ Written(L, life)
  /\ \A n \in DOMAIN L : n <= Len(evs) /\ (\A i \in 1 .. n : L[i].life = evs[i].life)
                           => L[n] = evs[n]
  /\ \A n \in DOMAIN L : L[n].life = life
                           => n <= Len(evs) /\ \A i \in 1 .. n : L[i] = evs[i]
  /\ \A i \in DOMAIN L : i <= frozen => i <= Len(evs) /\ L[i] = evs[i]

\* One more event.
Grown(evs2, evs, e) ==
  /\ IsLog(evs2) /\ Len(evs2) = Len(evs) + 1
  /\ \A i \in 1 .. Len(evs) : evs2[i] = evs[i]
  /\ evs2[Len(evs) + 1] = e

\* What may be appended in a life.
NewEvent(e, evs, life) ==
  /\ IsEvent(e) /\ e.life \in Nat /\ e.life <= life
  /\ RefersToArtifact(e) => FinishesCall(e, evs)

LEMMA WrittenGrows ==
  ASSUME NEW life \in Nat, NEW evs, Written(evs, life), NEW e, NewEvent(e, evs, life),
         NEW evs2, Grown(evs2, evs, e), NEW life2 \in Nat, life <= life2
  PROVE  Written(evs2, life2)
<1> DEFINE n == Len(evs)
<1>1. n \in Nat /\ DOMAIN evs = 1 .. n /\ DOMAIN evs2 = 1 .. n + 1 /\ IsLog(evs2)
  BY LogIsSequence DEF Written, Grown
<1> SUFFICES ASSUME NEW i \in 1 .. n + 1
             PROVE  /\ IsEvent(evs2[i]) /\ evs2[i].life \in Nat /\ evs2[i].life <= life2
                    /\ RefersToArtifact(evs2[i])
                         => /\ evs2[i].sources = {} /\ evs2[i].call[1] \in 1 .. i - 1
                            /\ evs2[i].call = Id(evs2, evs2[i].call[1])
                            /\ evs2[i].turn = evs2[evs2[i].call[1]].turn
  BY <1>1 DEF Written
<1>2. \A j \in 1 .. n : evs2[j] = evs[j] /\ Id(evs2, j) = Id(evs, j)
  BY DEF Grown, Id
<1>3. evs2[n + 1] = e
  BY DEF Grown
<1> HIDE DEF n
<1>4. CASE i \in 1 .. n
  <2>1. evs2[i] = evs[i]
    BY <1>2, <1>4
  <2>2. IsEvent(evs[i]) /\ evs[i].life \in Nat /\ evs[i].life <= life
    BY <1>1, <1>4 DEF Written
  <2>3. ASSUME RefersToArtifact(evs[i])
        PROVE  /\ evs[i].sources = {} /\ evs[i].call[1] \in 1 .. i - 1
               /\ evs[i].call = Id(evs2, evs[i].call[1])
               /\ evs[i].turn = evs2[evs[i].call[1]].turn
    <3>1. /\ evs[i].sources = {} /\ evs[i].call[1] \in 1 .. i - 1
          /\ evs[i].call = Id(evs, evs[i].call[1]) /\ evs[i].turn = evs[evs[i].call[1]].turn
      BY <1>1, <1>4, <2>3 DEF Written
    <3>2. evs[i].call[1] \in 1 .. n
      BY <1>1, <1>4, <3>1
    <3> QED
      BY <1>2, <3>1, <3>2
  <2> QED
    BY <2>1, <2>2, <2>3
<1>5. CASE i = n + 1
  <2>1. IsEvent(e) /\ e.life \in Nat /\ e.life <= life
    BY DEF NewEvent
  <2>2. ASSUME RefersToArtifact(e)
        PROVE  /\ e.sources = {} /\ e.call[1] \in 1 .. n
               /\ e.call = Id(evs2, e.call[1]) /\ e.turn = evs2[e.call[1]].turn
    <3>1. PICK c \in DOMAIN evs : e.call = Id(evs, c) /\ e.turn = evs[c].turn
      BY <2>2 DEF NewEvent, FinishesCall
    <3>2. e.sources = {}
      BY <2>2 DEF NewEvent, FinishesCall
    <3>3. e.call[1] = c
      BY <3>1 DEF Id
    <3> QED
      BY <1>1, <1>2, <3>1, <3>2, <3>3
  <2>3. i - 1 = n /\ evs2[i] = e
    BY <1>1, <1>3, <1>5
  <2> QED
    BY <2>1, <2>2, <2>3
<1> QED
  BY <1>1, <1>4, <1>5

\* The log of today is one.
LEMMA EarlierIsToday ==
  ASSUME NEW life, NEW evs, Written(evs, life), NEW frozen
  PROVE  Earlier(evs, evs, life, frozen)
<1>1. Len(evs) \in Nat /\ DOMAIN evs = 1 .. Len(evs)
  BY LogIsSequence DEF Written
<1> QED
  BY <1>1 DEF Earlier

\* An event is added that differs from the one in its place, if that is of the same life.
LEMMA EarlierGrows ==
  ASSUME NEW life \in Nat, NEW evs, IsLog(evs), NEW frozen, NEW L, Earlier(L, evs, life, frozen),
         NEW e, NEW evs2, Grown(evs2, evs, e), NEW life2 \in Nat, life <= life2,
         Len(evs) + 1 \in DOMAIN L /\ (\A i \in 1 .. Len(evs) : L[i] = evs[i])
           /\ L[Len(evs) + 1].life = e.life => L[Len(evs) + 1] = e
  PROVE  Earlier(L, evs2, life2, frozen)
<1> DEFINE n == Len(evs)
<1>1. n \in Nat /\ DOMAIN evs = 1 .. n /\ DOMAIN evs2 = 1 .. n + 1 /\ Len(evs2) = n + 1
  BY LogIsSequence DEF Grown
<1>2. DOMAIN L = 1 .. Len(L) /\ Len(L) \in Nat
  BY LogIsSequence DEF Earlier, Written
<1>3. \A j \in 1 .. n : evs2[j] = evs[j]
  BY DEF Grown
<1>4. evs2[n + 1] = e
  BY DEF Grown
<1>5. n + 1 \in DOMAIN L /\ (\A i \in 1 .. n : L[i] = evs[i]) /\ L[n + 1].life = e.life
        => L[n + 1] = e
  OBVIOUS
<1>6. \A k \in DOMAIN L : k <= n /\ (\A i \in 1 .. k : L[i].life = evs[i].life) => L[k] = evs[k]
  BY DEF Earlier
<1>7. \A k \in DOMAIN L : L[k].life = life => k <= n /\ \A i \in 1 .. k : L[i] = evs[i]
  BY DEF Earlier
<1>8. \A i \in DOMAIN L : i <= frozen => i <= n /\ L[i] = evs[i]
  BY DEF Earlier
<1>9. \A k \in DOMAIN L : L[k].life \in Nat /\ L[k].life <= life
  BY DEF Earlier, Written
<1> HIDE DEF n
<1>10. Written(L, life2)
  BY <1>9 DEF Earlier, Written
<1>11. ASSUME NEW k \in DOMAIN L, k <= n + 1, \A i \in 1 .. k : L[i].life = evs2[i].life
       PROVE  L[k] = evs2[k]
  <2>1. CASE k <= n
    <3>1. \A i \in 1 .. k : i \in 1 .. n
      BY <1>1, <1>2, <2>1
    <3> QED
      BY <1>1, <1>2, <1>3, <1>6, <1>11, <2>1, <3>1
  <2>2. CASE k = n + 1
    <3>1. ASSUME NEW j \in 1 .. n PROVE L[j] = evs[j]
      <4>1. j \in DOMAIN L /\ j <= n /\ \A i \in 1 .. j : i \in 1 .. n /\ i \in 1 .. k
        BY <1>1, <1>2, <2>2
      <4>2. \A i \in 1 .. j : L[i].life = evs[i].life
        BY <1>3, <1>11, <4>1
      <4> QED
        BY <1>6, <4>1, <4>2
    <3>2. L[n + 1].life = e.life
      <4>1. n + 1 \in 1 .. k
        BY <1>1, <2>2
      <4> QED
        BY <1>4, <1>11, <4>1
    <3> QED
      BY <1>4, <1>5, <2>2, <3>1, <3>2
  <2> QED
    BY <1>1, <1>2, <1>11, <2>1, <2>2
<1>12. ASSUME NEW k \in DOMAIN L, L[k].life = life2
       PROVE  k <= n + 1 /\ \A i \in 1 .. k : L[i] = evs2[i]
  <2>1. life2 = life
    BY <1>9, <1>12
  <2>2. k <= n /\ \A i \in 1 .. k : L[i] = evs[i]
    BY <1>7, <1>12, <2>1
  <2>3. \A i \in 1 .. k : i \in 1 .. n
    BY <1>1, <1>2, <2>2
  <2> QED
    BY <1>1, <1>2, <1>3, <2>2, <2>3
<1>13. ASSUME NEW i \in DOMAIN L, i <= frozen PROVE i <= n + 1 /\ L[i] = evs2[i]
  <2>1. i <= n /\ L[i] = evs[i]
    BY <1>8, <1>13
  <2>2. i \in 1 .. n
    BY <1>1, <1>2, <2>1
  <2> QED
    BY <1>1, <1>3, <2>1, <2>2
<1> QED
  BY <1>1, <1>10, <1>11, <1>12, <1>13 DEF Earlier

\* The end of the log is lost, or nothing, and a new life begins.
LEMMA EarlierCut ==
  ASSUME NEW life \in Nat, NEW evs, IsLog(evs), NEW frozen \in Nat, NEW L,
         Earlier(L, evs, life, frozen), NEW evs2, IsLog(evs2), Len(evs2) <= Len(evs),
         frozen <= Len(evs2), \A i \in 1 .. Len(evs2) : evs2[i] = evs[i]
  PROVE  Earlier(L, evs2, life + 1, frozen)
<1> DEFINE n == Len(evs2)
<1>1. n \in Nat /\ Len(evs) \in Nat
  BY LogIsSequence
<1>2. DOMAIN L = 1 .. Len(L) /\ Len(L) \in Nat
  BY LogIsSequence DEF Earlier, Written
<1>3. \A k \in DOMAIN L : L[k].life \in Nat /\ L[k].life <= life
  BY DEF Earlier, Written
<1>4. Written(L, life + 1) /\ \A k \in DOMAIN L : L[k].life # life + 1
  BY <1>3 DEF Earlier, Written
<1>5. ASSUME NEW k \in DOMAIN L, k <= n, \A i \in 1 .. k : L[i].life = evs2[i].life
      PROVE  L[k] = evs2[k]
  <2>1. \A i \in 1 .. k : evs2[i] = evs[i]
    BY <1>1, <1>2, <1>5
  <2>2. k <= Len(evs) /\ (\A i \in 1 .. k : L[i].life = evs[i].life) /\ k \in 1 .. k
    BY <1>1, <1>2, <1>5, <2>1
  <2> QED
    BY <2>1, <2>2 DEF Earlier
<1>6. ASSUME NEW i \in DOMAIN L, i <= frozen PROVE i <= n /\ L[i] = evs2[i]
  <2>1. L[i] = evs[i]
    BY <1>6 DEF Earlier
  <2>2. i \in 1 .. n
    BY <1>1, <1>2, <1>6
  <2> QED
    BY <1>1, <2>1, <2>2
<1> QED
  BY <1>4, <1>5, <1>6 DEF Earlier

\* Where the hash of a checkpoint fits, the log it was made from is the beginning of today's.
LEMMA EarlierMatches ==
  ASSUME NEW life, NEW evs, IsLog(evs), NEW frozen, NEW L, Earlier(L, evs, life, frozen),
         Len(L) <= Len(evs), PrefixHash(L, Len(L)) = PrefixHash(evs, Len(L))
  PROVE  \A i \in 1 .. Len(L) : L[i] = evs[i]
<1> DEFINE n == Len(L)
           a == [i \in 1 .. n |-> L[i].life]
           b == [i \in 1 .. n |-> evs[i].life]
<1>1. n \in Nat /\ DOMAIN L = 1 .. n /\ Len(evs) \in Nat
  BY LogIsSequence DEF Earlier, Written
<1>2. a = b
  BY DEF PrefixHash
<1>3. \A i \in 1 .. n : L[i].life = a[i] /\ evs[i].life = b[i]
  OBVIOUS
<1> HIDE DEF a, b
<1>4. ASSUME NEW k \in 1 .. n PROVE L[k] = evs[k]
  <2>1. k <= Len(evs) /\ \A i \in 1 .. k : L[i].life = evs[i].life
    BY <1>1, <1>2, <1>3
  <2> QED
    BY <1>1, <2>1 DEF Earlier
<1> QED
  BY <1>4

-----------------------------------------------------------------------------
(* Files beside the log *)

\* The finish event in the place of a row is that of the row.
RowsFit(L, rows) ==
  \A r \in rows : \A i \in DOMAIN L :
    r.event = Id(L, i) => RefersToArtifact(L[i]) /\ L[i].call = r.call

\* No row of this life is ahead of the log but the one that is being published, and the rows
\* of one place are of one call.
RowsOk(rows, evs, life, pending) ==
  /\ \A r \in rows :
       /\ r.seq \in Nat /\ r.event[2] \in Nat /\ r.event[2] <= life
       /\ r.event[2] = life => \/ r.seq <= Len(evs)
                               \/ r.seq = Len(evs) + 1 /\ r.call \in pending
  /\ \A r, s \in rows : r.seq = s.seq => r.call = s.call
  /\ RowsFit(evs, rows)

\* A file that was brought up to date when the log was L.
From(f, L, P, evs, life, frozen) ==
  Earlier(L, evs, life, frozen) /\ RowsFit(L, f.artifacts) /\ Replay(P, L) /\ Derived(f, L, P)

Sound(f, evs, life, frozen, pending) ==
  /\ RowsOk(f.artifacts, evs, life, pending)
  /\ \/ f.mark = NoMark /\ f.turns = <<>> /\ f.docs = {}
     \/ \E L, P : From(f, L, P, evs, life, frozen)

\* The event that is appended is the one that the row in its place names, and one of an
\* earlier life has such a row.
Matches(e, evs, life, rows) ==
  /\ \A r \in rows : r.event = <<Len(evs) + 1, e.life>>
                       => RefersToArtifact(e) /\ e.call = r.call
  /\ e.life # life => \E r \in rows : r.event = <<Len(evs) + 1, e.life>>

LEMMA RowsGrow ==
  ASSUME NEW life \in Nat, NEW evs, IsLog(evs), NEW rows, NEW pending,
         RowsOk(rows, evs, life, pending), NEW e, Matches(e, evs, life, rows),
         NEW evs2, Grown(evs2, evs, e), NEW life2 \in Nat, life <= life2
  PROVE  RowsOk(rows, evs2, life2, {})
<1> DEFINE n == Len(evs)
<1>1. n \in Nat /\ DOMAIN evs = 1 .. n /\ DOMAIN evs2 = 1 .. n + 1 /\ Len(evs2) = n + 1
  BY LogIsSequence DEF Grown
<1>2. ASSUME NEW r \in rows
      PROVE  /\ r.seq \in Nat /\ r.event[2] \in Nat /\ r.event[2] <= life2
             /\ r.event[2] = life2 => r.seq <= n + 1
  <2>1. /\ r.seq \in Nat /\ r.event[2] \in Nat /\ r.event[2] <= life
        /\ r.event[2] = life => r.seq <= n \/ r.seq = n + 1
    BY DEF RowsOk
  <2> QED
    BY <1>1, <2>1
<1>3. RowsFit(evs2, rows)
  <2> SUFFICES ASSUME NEW r \in rows, NEW i \in 1 .. n + 1, r.event = Id(evs2, i)
               PROVE  RefersToArtifact(evs2[i]) /\ evs2[i].call = r.call
    BY <1>1 DEF RowsFit
  <2>1. CASE i \in 1 .. n
    <3>1. evs2[i] = evs[i] /\ Id(evs2, i) = Id(evs, i)
      BY <2>1 DEF Grown, Id
    <3> QED
      BY <1>1, <2>1, <3>1 DEF RowsOk, RowsFit
  <2>2. CASE i = n + 1
    <3>1. evs2[i] = e
      BY <2>2 DEF Grown
    <3>2. r.event = <<n + 1, e.life>>
      BY <2>2, <3>1 DEF Id
    <3> QED
      BY <3>1, <3>2 DEF Matches
  <2> QED
    BY <1>1, <2>1, <2>2
<1>4. \A r, s \in rows : r.seq = s.seq => r.call = s.call
  BY DEF RowsOk
<1> QED
  BY <1>1, <1>2, <1>3, <1>4 DEF RowsOk

LEMMA RowsCut ==
  ASSUME NEW life \in Nat, NEW evs, IsLog(evs), NEW rows, NEW pending,
         RowsOk(rows, evs, life, pending), NEW evs2, IsLog(evs2), Len(evs2) <= Len(evs),
         \A i \in 1 .. Len(evs2) : evs2[i] = evs[i]
  PROVE  RowsOk(rows, evs2, life + 1, {})
<1>1. /\ Len(evs) \in Nat /\ DOMAIN evs = 1 .. Len(evs)
      /\ Len(evs2) \in Nat /\ DOMAIN evs2 = 1 .. Len(evs2)
  BY LogIsSequence
<1>2. ASSUME NEW r \in rows
      PROVE  r.seq \in Nat /\ r.event[2] \in Nat /\ r.event[2] <= life + 1 /\ r.event[2] # life + 1
  BY DEF RowsOk
<1>3. RowsFit(evs2, rows)
  <2> SUFFICES ASSUME NEW r \in rows, NEW i \in 1 .. Len(evs2), r.event = Id(evs2, i)
               PROVE  RefersToArtifact(evs2[i]) /\ evs2[i].call = r.call
    BY <1>1 DEF RowsFit
  <2>1. evs2[i] = evs[i] /\ Id(evs2, i) = Id(evs, i) /\ i \in DOMAIN evs
    BY <1>1 DEF Id
  <2> QED
    BY <2>1 DEF RowsOk, RowsFit
<1>4. \A r, s \in rows : r.seq = s.seq => r.call = s.call
  BY DEF RowsOk
<1> QED
  BY <1>2, <1>3, <1>4 DEF RowsOk

LEMMA SoundGrows ==
  ASSUME NEW life \in Nat, NEW evs, Written(evs, life), NEW f, Complete(f), NEW frozen,
         NEW pending, Sound(f, evs, life, frozen, pending),
         NEW e, NewEvent(e, evs, life), Matches(e, evs, life, f.artifacts),
         NEW evs2, Grown(evs2, evs, e), NEW life2 \in Nat, life <= life2
  PROVE  Sound(f, evs2, life2, frozen, {})
<1> DEFINE n == Len(evs)
           rows == f.artifacts
<1>1. n \in Nat /\ DOMAIN evs = 1 .. n /\ IsLog(evs)
  BY LogIsSequence DEF Written
<1>2. RowsOk(rows, evs2, life2, {})
  BY <1>1, RowsGrow DEF Sound
<1>3. ASSUME NEW L, NEW P, From(f, L, P, evs, life, frozen)
      PROVE  From(f, L, P, evs2, life2, frozen)
  <2>1. Earlier(L, evs, life, frozen) /\ Written(L, life) /\ RowsFit(L, rows)
    BY <1>3 DEF From, Earlier
  <2>2. DOMAIN L = 1 .. Len(L) /\ Len(L) \in Nat
    BY <2>1, LogIsSequence DEF Written
  <2>3. ASSUME n + 1 \in DOMAIN L, \A i \in 1 .. n : L[i] = evs[i], L[n + 1].life = e.life
        PROVE  L[n + 1] = e
    <3>1. e.life # life
      <4>1. L[n + 1].life = life => n + 1 <= n
        BY <2>1, <2>3 DEF Earlier
      <4> QED
        BY <1>1, <2>3, <4>1
    <3>2. PICK r \in rows : r.event = <<n + 1, e.life>>
      BY <3>1 DEF Matches
    <3>3. RefersToArtifact(e) /\ e.call = r.call
      BY <3>2 DEF Matches
    <3>4. RefersToArtifact(L[n + 1]) /\ L[n + 1].call = r.call
      BY <2>1, <2>3, <3>2 DEF RowsFit, Id
    <3>5. e.sources = {} /\ \E c \in 1 .. n : e.call = Id(evs, c) /\ e.turn = evs[c].turn
      BY <1>1, <3>3 DEF NewEvent, FinishesCall
    <3>6. PICK c \in 1 .. n : e.call = Id(evs, c) /\ e.turn = evs[c].turn
      BY <3>5
    <3>7. /\ L[n + 1].sources = {} /\ L[n + 1].turn = L[L[n + 1].call[1]].turn
          /\ IsEvent(L[n + 1])
      BY <2>1, <2>3, <3>4 DEF Written
    <3>8. L[n + 1].call = e.call /\ e.call[1] = c
      BY <3>3, <3>4, <3>6 DEF Id
    <3>9. L[n + 1].turn = e.turn
      BY <2>3, <3>6, <3>7, <3>8
    <3>10. L[n + 1].kind = e.kind /\ L[n + 1].body = e.body
      BY <3>3, <3>4 DEF RefersToArtifact
    <3>11. IsEvent(e)
      BY DEF NewEvent
    <3> QED
      BY <2>3, <3>5, <3>7, <3>8, <3>9, <3>10, <3>11 DEF IsEvent
  <2>4. Earlier(L, evs2, life2, frozen)
    BY <1>1, <2>1, <2>3, EarlierGrows
  <2> QED
    BY <1>3, <2>4 DEF From
<1> QED
  BY <1>2, <1>3 DEF Sound

LEMMA SoundCut ==
  ASSUME NEW life \in Nat, NEW evs, IsLog(evs), NEW f, NEW frozen \in Nat, NEW pending,
         Sound(f, evs, life, frozen, pending), NEW evs2, IsLog(evs2), Len(evs2) <= Len(evs),
         frozen <= Len(evs2), \A i \in 1 .. Len(evs2) : evs2[i] = evs[i]
  PROVE  Sound(f, evs2, life + 1, frozen, {})
<1>1. RowsOk(f.artifacts, evs2, life + 1, {})
  BY RowsCut DEF Sound
<1>2. ASSUME NEW L, NEW P, From(f, L, P, evs, life, frozen)
      PROVE  From(f, L, P, evs2, life + 1, frozen)
  BY <1>2, EarlierCut DEF From
<1> QED
  BY <1>1, <1>2 DEF Sound

\* Rows are removed.
LEMMA SoundLess ==
  ASSUME NEW evs, NEW life, NEW frozen, NEW pending, NEW f, Sound(f, evs, life, frozen, pending),
         NEW g, g.artifacts \subseteq f.artifacts, g.turns = f.turns, g.docs = f.docs,
         g.mark = f.mark
  PROVE  Sound(g, evs, life, frozen, pending)
<1>1. RowsOk(g.artifacts, evs, life, pending)
  <2>1. RowsOk(f.artifacts, evs, life, pending)
    BY DEF Sound
  <2> QED
    BY <2>1 DEF RowsOk, RowsFit
<1>2. ASSUME NEW L, NEW P, From(f, L, P, evs, life, frozen)
      PROVE  From(g, L, P, evs, life, frozen)
  BY <1>2 DEF From, RowsFit, Derived
<1> QED
  BY <1>1, <1>2 DEF Sound

\* The row of the result that is published next is added.
LEMMA SoundMore ==
  ASSUME NEW evs, NEW life \in Nat, Written(evs, life), NEW frozen, NEW f,
         Sound(f, evs, life, frozen, {}),
         NEW row, row.seq = Len(evs) + 1, row.event = <<Len(evs) + 1, life>>,
         \A r \in f.artifacts : r.seq # Len(evs) + 1,
         NEW g, g.artifacts = f.artifacts \cup {row}, g.turns = f.turns, g.docs = f.docs,
         g.mark = f.mark
  PROVE  Sound(g, evs, life, frozen, {row.call})
<1>1. Len(evs) \in Nat /\ DOMAIN evs = 1 .. Len(evs)
  BY LogIsSequence DEF Written
<1>2. row.event[1] = Len(evs) + 1 /\ row.event[2] = life
  OBVIOUS
<1>3. RowsOk(f.artifacts, evs, life, {})
  BY DEF Sound
<1>4. RowsFit(evs, g.artifacts)
  <2>1. \A i \in DOMAIN evs : row.event # Id(evs, i)
    BY <1>1, <1>2 DEF Id
  <2> QED
    BY <1>3, <2>1 DEF RowsOk, RowsFit
<1>5. ASSUME NEW r \in g.artifacts
      PROVE  /\ r.seq \in Nat /\ r.event[2] \in Nat /\ r.event[2] <= life
             /\ r.event[2] = life => \/ r.seq <= Len(evs)
                                     \/ r.seq = Len(evs) + 1 /\ r.call \in {row.call}
  <2>1. CASE r = row
    BY <1>1, <1>2, <2>1
  <2>2. CASE r \in f.artifacts
    BY <1>3, <2>2 DEF RowsOk
  <2> QED
    BY <2>1, <2>2
<1>6. ASSUME NEW r \in g.artifacts, NEW s \in g.artifacts, r.seq = s.seq PROVE r.call = s.call
  <2>1. CASE r = row /\ s = row
    BY <2>1
  <2>2. CASE r \in f.artifacts /\ s \in f.artifacts
    BY <1>3, <1>6, <2>2 DEF RowsOk
  <2>3. CASE r = row /\ s \in f.artifacts
    BY <1>6, <2>3
  <2>4. CASE r \in f.artifacts /\ s = row
    BY <1>6, <2>4
  <2> QED
    BY <2>1, <2>2, <2>3, <2>4
<1>7. RowsOk(g.artifacts, evs, life, {row.call})
  BY <1>4, <1>5, <1>6 DEF RowsOk
<1>8. ASSUME NEW L, NEW P, From(f, L, P, evs, life, frozen)
      PROVE  From(g, L, P, evs, life, frozen)
  <2>1. Earlier(L, evs, life, frozen) /\ RowsFit(L, f.artifacts)
    BY <1>8 DEF From
  <2>2. DOMAIN L = 1 .. Len(L) /\ Len(L) \in Nat
    BY <2>1, LogIsSequence DEF Earlier, Written
  <2>3. \A i \in DOMAIN L : row.event # Id(L, i)
    <3> SUFFICES ASSUME NEW i \in DOMAIN L, row.event = Id(L, i) PROVE FALSE
      OBVIOUS
    <3>1. i = Len(evs) + 1 /\ L[i].life = life
      BY <1>2 DEF Id
    <3>2. i <= Len(evs)
      BY <2>1, <3>1 DEF Earlier
    <3> QED
      BY <1>1, <3>1, <3>2
  <2>4. RowsFit(L, g.artifacts)
    BY <2>1, <2>3 DEF RowsFit
  <2> QED
    BY <1>8, <2>4 DEF From, Derived
<1> QED
  BY <1>7, <1>8 DEF Sound

\* A file with the same artifact rows, made from the log of today.
LEMMA SoundToday ==
  ASSUME NEW evs, NEW life, Written(evs, life), NEW frozen, NEW pending, NEW f,
         Sound(f, evs, life, frozen, pending),
         NEW g, g.artifacts = f.artifacts, NEW P, Replay(P, evs), Derived(g, evs, P)
  PROVE  Sound(g, evs, life, frozen, pending)
<1>1. RowsOk(g.artifacts, evs, life, pending)
  BY DEF Sound
<1>2. From(g, evs, P, evs, life, frozen)
  BY <1>1, EarlierIsToday DEF From, RowsOk
<1> QED
  BY <1>1, <1>2 DEF Sound

\* A beginning of a log, and the replay of it.
LEMMA Beginning ==
  ASSUME NEW evs, IsLog(evs), NEW n \in 0 .. Len(evs)
  PROVE  LET S == SubSeq(evs, 1, n)
         IN /\ IsLog(S) /\ Len(S) = n /\ DOMAIN S = 1 .. n
            /\ \A i \in 1 .. n : i \in DOMAIN evs /\ S[i] = evs[i] /\ Id(S, i) = Id(evs, i)
<1> DEFINE R == Range(evs)
           S == SubSeq(evs, 1, n)
<1>1. evs \in Seq(R) /\ Len(evs) \in Nat /\ DOMAIN evs = 1 .. Len(evs)
  BY LogIsSequence DEF IsLog
<1> HIDE DEF R
<1>2. S \in Seq(R) /\ Len(S) = n
  BY <1>1, SubSeqProperties
<1>3. \A i \in 1 .. n : S[i] = evs[i] /\ i \in DOMAIN evs
  BY <1>1
<1> HIDE DEF S
<1>4. S \in Seq(Range(S)) /\ DOMAIN S = 1 .. n
  BY <1>2, SeqOfRange
<1> QED
  BY <1>2, <1>3, <1>4 DEF IsLog, Id, S

LEMMA SameLives ==
  ASSUME NEW L, NEW M, NEW n, \A i \in 1 .. n : L[i] = M[i]
  PROVE  PrefixHash(L, n) = PrefixHash(M, n)
BY DEF PrefixHash

\* A file with the rows of the first n events.
HoldsReplay(g, P, evs, n) ==
  /\ g.turns = P[n].turns /\ g.docs = P[n].docs
  /\ g.mark = [through |-> n, hash |-> PrefixHash(evs, n), epoch |-> P[n].epoch]

\* What a replay of a beginning of the log gives, written into a copy of a file that has all
\* the artifacts of the log.
LEMMA ReplayedBeginning ==
  ASSUME NEW f, IsFile(f), NEW evs, IsLog(evs), Stored(f, evs), NEW P, Replay(P, evs),
         NEW n \in 0 .. Len(evs)
  PROVE  HoldsReplay(Projected(Copied(f), SubSeq(evs, 1, n), FALSE), P, evs, n)
<1> DEFINE S == SubSeq(evs, 1, n)
           c == Copied(f)
           no == {}
           row == <<>>
<1>1. /\ IsLog(S) /\ Len(S) = n /\ DOMAIN S = 1 .. n
      /\ \A i \in 1 .. n : i \in DOMAIN evs /\ S[i] = evs[i] /\ Id(S, i) = Id(evs, i)
  BY Beginning
<1>2. c = File(f.artifacts, f.blobs, row, no, NoMark)
  BY CopiedIs
<1>3. DOMAIN row = {}
  OBVIOUS
<1> HIDE DEF S, c, no, row
<1>4. /\ IsFile(c) /\ c.artifacts = f.artifacts /\ c.blobs = f.blobs
      /\ c.turns = row /\ c.docs = no
  BY <1>2, FileRows
<1>5. \A i \in DOMAIN S : S[i].kind = "finish" /\ S[i].body = "artifact" => HasArtifact(c, Id(S, i))
  BY <1>1, <1>4 DEF Stored, HasArtifact
<1>6. PICK Q : Replay(Q, S)
  BY <1>1, ReplayExists
<1>7. Q[n] = P[n]
  <2>1. n \in Nat /\ n <= Len(S) /\ n <= Len(evs) /\ n \in 0 .. n
    BY <1>1, LogIsSequence
  <2> QED
    BY <1>1, <1>6, <2>1, SameReplay
<1>8. Derive(c, S, FALSE) = P[n]
  BY <1>1, <1>5, <1>6, <1>7, DeriveIsReplay
<1>9. IsRows(P[n])
  BY ReplayRows
<1> DEFINE g == Projected(c, S, FALSE)
           dd == P[n]
           m == [through |-> n, hash |-> PrefixHash(S, n), epoch |-> dd.epoch]
           t == Upsert(c.turns, dd.turns)
           o == c.docs \cup dd.docs
<1>10. g = File(c.artifacts, c.blobs, t, o, m)
  BY <1>1, <1>4, <1>8, ProjectedIs
<1>11. PrefixHash(S, n) = PrefixHash(evs, n)
  BY <1>1, SameLives
<1>12. t = dd.turns
  <2>1. /\ DOMAIN c.turns \subseteq DOMAIN dd.turns
        /\ dd.turns = [x \in DOMAIN dd.turns |-> dd.turns[x]]
    BY <1>3, <1>4, <1>9 DEF IsRows
  <2> QED
    BY <2>1, UpsertAll
<1>13. o = dd.docs
  BY <1>4 DEF no
<1> HIDE DEF g, t, o, m
<1>14. g.turns = t /\ g.docs = o /\ g.mark = m
  BY <1>10, FileRows
<1> QED
  BY <1>11, <1>12, <1>13, <1>14 DEF g, m, S, c, HoldsReplay

\* L is the beginning of the log evs with the replay P, and the file holds the replay of it.
IsBeginning(f, L, evs, P) ==
  /\ f.mark.through = Len(L) /\ Len(L) \in 0 .. Len(evs)
  /\ \A i \in 1 .. Len(L) : L[i] = evs[i]
  /\ ~P[Len(L)].fault /\ f.turns = P[Len(L)].turns /\ f.docs = P[Len(L)].docs
  /\ f.mark = [through |-> Len(L), hash |-> PrefixHash(evs, Len(L)), epoch |-> P[Len(L)].epoch]

\* A sound file with a checkpoint that fits the log was brought up to date when the log was
\* the beginning of today's.
LEMMA FittingMark ==
  ASSUME NEW evs, IsLog(evs), NEW P, Replay(P, evs), NEW f, NEW L, NEW Q, NEW life, NEW frozen,
         From(f, L, Q, evs, life, frozen), SamePrefix(f.mark, evs)
  PROVE  IsBeginning(f, L, evs, P)
<1>1. Earlier(L, evs, life, frozen) /\ Replay(Q, L) /\ Derived(f, L, Q)
  BY DEF From
<1>2. IsLog(L) /\ Len(L) \in Nat /\ Len(evs) \in Nat
  BY <1>1, LogIsSequence DEF Earlier, Written
<1>3. /\ f.mark = [through |-> Len(L), hash |-> PrefixHash(L, Len(L)), epoch |-> Q[Len(L)].epoch]
      /\ f.turns = Q[Len(L)].turns /\ f.docs = Q[Len(L)].docs /\ ~Q[Len(L)].fault
  BY <1>1 DEF Derived
<1>4. f.mark.through = Len(L) /\ f.mark.hash = PrefixHash(L, Len(L))
  BY <1>3
<1>5. Len(L) <= Len(evs) /\ PrefixHash(L, Len(L)) = PrefixHash(evs, Len(L))
  BY <1>4 DEF SamePrefix
<1>6. \A i \in 1 .. Len(L) : L[i] = evs[i]
  BY <1>1, <1>5, EarlierMatches
<1>7. \A k \in 0 .. Len(L) : Q[k] = P[k]
  BY <1>1, <1>2, <1>5, <1>6, SameReplay
<1>8. Len(L) \in 0 .. Len(L) /\ Len(L) \in 0 .. Len(evs)
  BY <1>2, <1>5
<1>9. Q[Len(L)] = P[Len(L)]
  BY <1>7, <1>8
<1> QED
  BY <1>3, <1>4, <1>5, <1>6, <1>8, <1>9 DEF IsBeginning

\* Bringing a file up to date.
LEMMA SoundProjected ==
  ASSUME NEW evs, NEW life, Written(evs, life), NEW f, IsFile(f), Stored(f, evs),
         NEW frozen, NEW pending, Sound(f, evs, life, frozen, pending),
         NEW baseline \in BOOLEAN, ~Failing(f, evs, baseline), baseline => f.mark # NoMark,
         f.mark # NoMark => SamePrefix(f.mark, evs)
  PROVE  Sound(Projected(f, evs, baseline), evs, life, frozen, pending)
<1> DEFINE g == Projected(f, evs, baseline)
           n == Len(evs)
<1>1. IsLog(evs) /\ n \in Nat
  BY LogIsSequence DEF Written
<1>2. PICK P : Replay(P, evs)
  BY <1>1, ReplayExists
<1>3. g.artifacts = f.artifacts
  BY ProjectedKeeps
<1>4. n \in 0 .. n
  BY <1>1
<1>5. CASE f.mark = NoMark /\ f.turns = <<>> /\ f.docs = {}
  <2>1. baseline = FALSE
    BY <1>5
  <2>2. DOMAIN f.turns \subseteq DOMAIN P[Len(evs)].turns /\ f.docs \subseteq P[Len(evs)].docs
    BY <1>5
  <2>3. ~Failing(f, evs, FALSE)
    BY <2>1
  <2> HIDE DEF n
  <2>4. Derived(Projected(f, evs, FALSE), evs, P)
    BY <1>1, <1>2, <2>2, <2>3, FromNothing
  <2>5. Derived(g, evs, P)
    BY <2>1, <2>4
  <2> HIDE DEF g
  <2> QED
    BY <1>2, <1>3, <2>5, SoundToday DEF g
<1>6. CASE \E L, Q : From(f, L, Q, evs, life, frozen)
  <2>1. PICK L, Q : From(f, L, Q, evs, life, frozen)
    BY <1>6
  <2>2. f.mark # NoMark
    <3>1. f.mark.through = Len(L) /\ Len(L) \in Nat
      BY <2>1, LogIsSequence DEF From, Derived, Earlier, Written
    <3>2. NoMark.through = -1
      BY DEF NoMark
    <3> QED
      BY <3>1, <3>2
  <2>3. SamePrefix(f.mark, evs)
    BY <2>2
  <2> DEFINE m == Len(L)
  <2>4. /\ f.mark.through = Len(L) /\ Len(L) \in 0 .. Len(evs)
        /\ ~P[Len(L)].fault /\ f.turns = P[Len(L)].turns /\ f.docs = P[Len(L)].docs
        /\ f.mark = [through |-> Len(L), hash |-> PrefixHash(evs, Len(L)),
                     epoch |-> P[Len(L)].epoch]
    <3>1. IsBeginning(f, L, evs, P)
      BY ONLY <1>1, <1>2, <2>1, <2>3, FittingMark
    <3> QED
      BY ONLY <3>1 DEF IsBeginning
  <2>5. /\ f.mark.through = m /\ m \in 0 .. n /\ ~P[m].fault
        /\ f.turns = P[m].turns /\ f.docs = P[m].docs
        /\ f.mark = [through |-> m, hash |-> PrefixHash(evs, m), epoch |-> P[m].epoch]
    BY <2>4
  <2>6. f.mark.epoch = P[m].epoch
    BY <2>5
  <2> HIDE DEF m
  <2>7. Derived(g, evs, P)
    <3>1. CASE baseline = TRUE
      <4>1. ~Failing(f, evs, TRUE)
        BY <3>1
      <4>2. Derived(Projected(f, evs, TRUE), evs, P)
        BY <1>1, <1>2, <2>5, <2>6, <4>1, FromCheckpoint
      <4> QED
        BY <3>1, <4>2
    <3>2. CASE baseline = FALSE
      <4>1. ~Failing(f, evs, FALSE)
        BY <3>2
      <4>2. DOMAIN P[m].turns \subseteq DOMAIN P[n].turns /\ P[m].docs \subseteq P[n].docs
        BY <1>1, <1>2, <1>4, <2>5, Growth
      <4>3. DOMAIN f.turns \subseteq DOMAIN P[Len(evs)].turns /\ f.docs \subseteq P[Len(evs)].docs
        BY <2>5, <4>2
      <4>4. Derived(Projected(f, evs, FALSE), evs, P)
        BY <1>1, <1>2, <4>1, <4>3, FromNothing
      <4> QED
        BY <3>2, <4>4
    <3> QED
      BY <3>1, <3>2
  <2> HIDE DEF g, n
  <2>8. Sound(g, evs, life, frozen, pending)
    BY <1>2, <1>3, <2>7, SoundToday
  <2> QED
    BY <2>8 DEF g
<1> QED
  BY <1>5, <1>6 DEF Sound

LEMMA SoundRebuilt ==
  ASSUME NEW evs, NEW life, Written(evs, life), NEW f, IsFile(f), Stored(f, evs),
         NEW frozen, NEW pending, Sound(f, evs, life, frozen, pending),
         ~Failing(Copied(f), evs, FALSE)
  PROVE  Sound(Rebuilt(f, evs), evs, life, frozen, pending)
<1> DEFINE c == Copied(f)
           no == {}
           row == <<>>
<1>1. IsLog(evs)
  BY DEF Written
<1>2. PICK P : Replay(P, evs)
  BY <1>1, ReplayExists
<1>3. c = File(f.artifacts, f.blobs, row, no, NoMark)
  BY CopiedIs
<1>4. DOMAIN row = {}
  OBVIOUS
<1>5. ~Failing(c, evs, FALSE)
  OBVIOUS
<1>6. Rebuilt(f, evs) = Projected(c, evs, FALSE)
  BY DEF Rebuilt
<1> HIDE DEF c, no, row
<1>7. /\ IsFile(c) /\ c.artifacts = f.artifacts /\ c.blobs = f.blobs
      /\ c.turns = row /\ c.docs = no
  BY <1>3, FileRows
<1>8. Stored(c, evs)
  BY <1>7 DEF Stored, HasArtifact
<1>9. DOMAIN c.turns \subseteq DOMAIN P[Len(evs)].turns /\ c.docs \subseteq P[Len(evs)].docs
  BY <1>4, <1>7 DEF no
<1> DEFINE g == Projected(c, evs, FALSE)
<1>10. Derived(g, evs, P)
  BY <1>1, <1>2, <1>5, <1>7, <1>8, <1>9, FromNothing
<1>11. g.artifacts = f.artifacts
  BY <1>7, ProjectedKeeps
<1> HIDE DEF g
<1>12. Sound(g, evs, life, frozen, pending)
  BY <1>2, <1>10, <1>11, SoundToday
<1> QED
  BY <1>6, <1>12 DEF g

\* Another search, or none.
LEMMA SoundUnfrozen ==
  ASSUME NEW evs, NEW life, NEW frozen, NEW pending, NEW f, Sound(f, evs, life, frozen, pending)
  PROVE  Sound(f, evs, life, 0, pending)
<1>1. ASSUME NEW L, NEW P, From(f, L, P, evs, life, frozen)
      PROVE  From(f, L, P, evs, life, 0)
  <2>1. Earlier(L, evs, life, frozen)
    BY <1>1 DEF From
  <2>2. \A i \in DOMAIN L : ~(i <= 0)
    BY <2>1, LogIsSequence DEF Earlier, Written
  <2>3. Earlier(L, evs, life, 0)
    BY <2>1, <2>2 DEF Earlier
  <2> QED
    BY <1>1, <2>3 DEF From
<1> QED
  BY <1>1 DEF Sound

LEMMA SoundFrozen ==
  ASSUME NEW evs, IsLog(evs), NEW life, NEW frozen, NEW pending, NEW f,
         Sound(f, evs, life, frozen, pending), SamePrefix(f.mark, evs), NEW frozen2
  PROVE  Sound(f, evs, life, frozen2, pending)
<1>1. ASSUME NEW L, NEW P, From(f, L, P, evs, life, frozen)
      PROVE  From(f, L, P, evs, life, frozen2)
  <2>1. Earlier(L, evs, life, frozen)
    BY <1>1 DEF From
  <2>2. DOMAIN L = 1 .. Len(L) /\ Len(L) \in Nat /\ Len(evs) \in Nat
    BY <2>1, LogIsSequence DEF Earlier, Written
  <2>3. PICK Q : Replay(Q, evs)
    BY ReplayExists
  <2>4. Len(L) \in 0 .. Len(evs) /\ \A i \in 1 .. Len(L) : L[i] = evs[i]
    <3>1. IsBeginning(f, L, evs, Q)
      BY <1>1, <2>3, FittingMark
    <3> QED
      BY <3>1 DEF IsBeginning
  <2>5. Len(L) <= Len(evs) /\ \A i \in 1 .. Len(L) : L[i] = evs[i]
    BY <2>2, <2>4
  <2>6. Earlier(L, evs, life, frozen2)
    BY <2>1, <2>2, <2>5 DEF Earlier
  <2> QED
    BY <1>1, <2>6 DEF From
<1> QED
  BY <1>1 DEF Sound

-----------------------------------------------------------------------------
(* The log and the files of a process *)

\* The sequence up to which a search holds the log, unless its index was ahead of it.
Frozen == IF chain # NoChain /\ ~chain.phantom THEN chain.snapshot ELSE 0

\* The call whose result is stored and not yet published.
Pending == IF pc = "publish" THEN {Id(events, held)} ELSE {}

Derivable(f) == Sound(f, events, Life, Frozen, Pending)

DInv ==
  /\ kills \in Nat /\ losses \in Nat
  /\ Written(events, Life)
  /\ pc = "publish" => held \in DOMAIN events
  /\ Frozen \in 0 .. synced
  /\ main # Mixed => Derivable(Named)
  /\ pc = "built" => Derivable(rebuild)

LEMMA NamedStored ==
  ASSUME IInv, main # Mixed
  PROVE  Complete(Named) /\ IsFile(Named) /\ Stored(Named, events)
<1>1. Complete(Named)
  BY NamedIsComplete DEF IInv
<1>2. Stored(Named, events)
  BY DEF IInv, KeptInv, EventsOf, Stored
<1> QED
  BY <1>1, <1>2 DEF Complete

LEMMA MainIsNamed ==
  ASSUME IInv, Usable(main)
  PROVE  Named = main /\ main # Mixed /\ Complete(main) /\ IsFile(main) /\ Stored(main, events)
<1>1. Named = main /\ main # Mixed
  BY DEF Usable, Named
<1> QED
  BY <1>1, NamedStored

LEMMA OpenIsUsable ==
  ASSUME IInv, pc \in Open
  PROVE  Usable(main) /\ main # Missing
BY FileIsUsable DEF IInv, PcInv, Complete

LEMMA LifeIsNat == DInv => Life \in Nat
BY DEF DInv, Life

LEMMA InitDerivable == Init => DInv
<1> SUFFICES ASSUME Init PROVE DInv
  OBVIOUS
<1>1. events = <<>> /\ Life \in Nat /\ Frozen = 0 /\ Pending = {} /\ Named = Fresh
  BY DEF Init, Life, Frozen, Pending, Named
<1>2. IsLog(events) /\ DOMAIN events = {}
  BY <1>1 DEF IsLog
<1>3. Written(events, Life)
  BY <1>2 DEF Written
<1>4. Fresh.artifacts = {} /\ Fresh.mark = NoMark /\ Fresh.turns = <<>> /\ Fresh.docs = {}
  BY DEF Fresh
<1>5. Derivable(Named)
  BY <1>1, <1>4 DEF Derivable, Sound, RowsOk, RowsFit
<1> QED
  BY <1>1, <1>3, <1>5 DEF Init, DInv

\* The log is as it was, and so is the search; the file that is found may be another.
LEMMA LogStays ==
  ASSUME DInv, UNCHANGED <<log, kills, losses, chain>>, pc' # "publish", pc # "publish",
         main' # Mixed => Derivable(Named'), pc' = "built" => Derivable(rebuild')
  PROVE  DInv'
<1>1. Life' = Life /\ Frozen' = Frozen /\ Pending' = Pending /\ events' = events
  BY DEF Life, Frozen, Pending, log
<1>2. (main # Mixed)' => Derivable(Named)'
  BY <1>1 DEF Derivable
<1>3. (pc = "built")' => Derivable(rebuild)'
  BY <1>1 DEF Derivable
<1> QED
  BY <1>1, <1>2, <1>3 DEF DInv, log

\* An event is appended, and the process may be killed.
LEMMA WriteDerives ==
  ASSUME IInv, DInv, NEW e, NEW where \in {"repair", "loop", "project"}, Write(e, where),
         UNCHANGED chain, NewEvent(e, events, Life),
         main # Mixed => Matches(e, events, Life, Named.artifacts)
  PROVE  DInv'
<1> USE DEF Write, Go, files
<1>1. Life \in Nat /\ kills' \in Nat /\ losses' \in Nat /\ Life' \in Nat /\ Life <= Life'
  BY DEF DInv, Life
<1>2. Grown(events', events, e) /\ Len(events) \in Nat
  <2>1. events' = Append(events, e)
    OBVIOUS
  <2> QED
    BY <2>1, Appended DEF IInv, Grown, IsLog
<1>3. Written(events, Life)
  BY DEF DInv
<1>4. Written(events', Life')
  BY ONLY <1>1, <1>2, <1>3, NewEvent(e, events, Life), WrittenGrows
<1>5. pc' \notin {"publish", "built"} /\ Pending' = {} /\ Frozen' = Frozen
  BY DEF Pending, Frozen
<1>6. Frozen' \in 0 .. synced'
  BY <1>2, <1>5 DEF DInv, IInv, LogInv
<1>7. Named' = Named /\ (main' # Mixed => main # Mixed)
  BY DEF Named
<1>8. ASSUME main # Mixed PROVE Sound(Named, events', Life', Frozen, {})
  <2>1. Complete(Named)
    BY <1>8, NamedStored
  <2>2. Sound(Named, events, Life, Frozen, Pending)
    BY <1>8 DEF DInv, Derivable
  <2> DEFINE f == Named
             fr == Frozen
             pe == Pending
             l == Life
             l2 == Life'
             evs2 == events'
  <2>3. /\ l \in Nat /\ l2 \in Nat /\ l <= l2 /\ Written(events, l) /\ Complete(f)
        /\ Sound(f, events, l, fr, pe) /\ NewEvent(e, events, l)
        /\ Matches(e, events, l, f.artifacts) /\ Grown(evs2, events, e)
    BY <1>1, <1>2, <1>3, <1>8, <2>1, <2>2
  <2> HIDE DEF f, fr, pe, l, l2, evs2
  <2>4. Sound(f, evs2, l2, fr, {})
    BY ONLY <2>3, SoundGrows
  <2> QED
    BY <2>4 DEF f, fr, l2, evs2
<1>9. (main # Mixed)' => Derivable(Named)'
  BY <1>5, <1>7, <1>8 DEF Derivable
<1> QED
  BY <1>1, <1>4, <1>5, <1>6, <1>9 DEF DInv

\* Outside of a publication no row is ahead of the log.
LEMMA NothingAhead ==
  ASSUME IInv, DInv, pc # "publish", NEW e, e.life = Life
  PROVE  main # Mixed => Matches(e, events, Life, Named.artifacts)
<1> SUFFICES ASSUME main # Mixed PROVE Matches(e, events, Life, Named.artifacts)
  OBVIOUS
<1>1. RowsOk(Named.artifacts, events, Life, {})
  BY DEF DInv, Derivable, Sound, Pending
<1>2. Len(events) \in Nat
  BY LogIsSequence DEF DInv, Written
<1>3. ASSUME NEW r \in Named.artifacts PROVE r.event # <<Len(events) + 1, Life>>
  <2>1. r.event = <<r.seq, r.event[2]>>
    BY NamedStored DEF Complete
  <2>2. r.event[2] = Life => r.seq <= Len(events)
    BY <1>1 DEF RowsOk
  <2> QED
    BY <1>2, <2>1, <2>2
<1> QED
  BY <1>3 DEF Matches

LEMMA PlainEvents ==
  ASSUME DInv, NEW kind, NEW turn, NEW body, NEW sources, kind # "finish" \/ body # "artifact"
  PROVE  NewEvent(Event(kind, turn, body, sources), events, Life)
BY LifeIsNat DEF NewEvent, Event, IsEvent, RefersToArtifact

\* An event as a record of its fields.
LEMMA FieldsSet ==
  ASSUME NEW k, NEW l, NEW t, NEW c, NEW b, NEW s, NEW c2, NEW l2
  PROVE  LET e == [kind |-> k, life |-> l, turn |-> t, call |-> c, body |-> b, sources |-> s]
         IN /\ [e EXCEPT !.call = c2] = [kind |-> k, life |-> l, turn |-> t, call |-> c2, body |-> b,
                                         sources |-> s]
            /\ [e EXCEPT !.life = l2] = [kind |-> k, life |-> l2, turn |-> t, call |-> c, body |-> b,
                                         sources |-> s]
  OBVIOUS

LEMMA FinishOfIs ==
  ASSUME NEW c, NEW body, NEW life
  PROVE  LET e(l) == [kind |-> "finish", life |-> l, turn |-> events[c].turn,
                      call |-> Id(events, c), body |-> body, sources |-> {}]
         IN FinishOf(c, body) = e(Life) /\ [FinishOf(c, body) EXCEPT !.life = life] = e(life)
<1> DEFINE t == events[c].turn
           none == {}
           id == Id(events, c)
           e(l) == [kind |-> "finish", life |-> l, turn |-> t, call |-> id, body |-> body,
                    sources |-> none]
<1>1. FinishOf(c, body)
      = [[kind |-> "finish", life |-> Life, turn |-> t, call |-> NoId, body |-> body,
          sources |-> none] EXCEPT !.call = id]
  BY DEF FinishOf, Event
<1> HIDE DEF t, none, id
<1>2. FinishOf(c, body) = e(Life)
  BY <1>1, FieldsSet
<1>3. [FinishOf(c, body) EXCEPT !.life = life] = e(life)
  BY <1>2, FieldsSet
<1> QED
  BY <1>2, <1>3 DEF t, none, id

LEMMA FinishEvents ==
  ASSUME DInv, NEW c \in DOMAIN events, NEW body, NEW life \in Nat, life <= Life
  PROVE  LET e == [FinishOf(c, body) EXCEPT !.life = life]
         IN /\ NewEvent(e, events, Life) /\ e.life = life
            /\ e.call = Id(events, c) /\ e.kind = "finish" /\ e.body = body
<1> DEFINE e == [FinishOf(c, body) EXCEPT !.life = life]
<1>1. e = [kind |-> "finish", life |-> life, turn |-> events[c].turn, call |-> Id(events, c),
           body |-> body, sources |-> {}]
  BY FinishOfIs
<1> HIDE DEF e
<1>2. /\ e.kind = "finish" /\ e.life = life /\ e.turn = events[c].turn /\ e.call = Id(events, c)
      /\ e.body = body /\ e.sources = {} /\ IsEvent(e)
  BY <1>1 DEF IsEvent
<1>3. NewEvent(e, events, Life)
  BY <1>2 DEF NewEvent, FinishesCall
<1> QED
  BY <1>2, <1>3 DEF e

LEMMA FinishOfLife ==
  ASSUME NEW c, NEW body
  PROVE  FinishOf(c, body) = [FinishOf(c, body) EXCEPT !.life = Life]
<1> DEFINE F == [kind |-> "finish", life |-> Life, turn |-> events[c].turn,
                 call |-> Id(events, c), body |-> body, sources |-> {}]
<1>1. FinishOf(c, body) = F
  BY FinishOfIs
<1>2. [FinishOf(c, body) EXCEPT !.life = Life] = F
  BY FinishOfIs
<1> QED
  BY <1>1, <1>2

LEMMA FinishOfToday ==
  ASSUME DInv, NEW c \in DOMAIN events, NEW body
  PROVE  /\ NewEvent(FinishOf(c, body), events, Life) /\ FinishOf(c, body).life = Life
         /\ FinishOf(c, body).call = Id(events, c) /\ FinishOf(c, body).kind = "finish"
         /\ FinishOf(c, body).body = body
<1> DEFINE e == [FinishOf(c, body) EXCEPT !.life = Life]
<1>1. Life \in Nat /\ Life <= Life
  BY LifeIsNat
<1>2. /\ NewEvent(e, events, Life) /\ e.life = Life
      /\ e.call = Id(events, c) /\ e.kind = "finish" /\ e.body = body
  BY <1>1, FinishEvents
<1>3. FinishOf(c, body) = e
  BY FinishOfLife
<1> HIDE DEF e
<1> QED
  BY <1>2, <1>3

LEMMA FirstUnfinished ==
  ASSUME DInv, Unfinished # {}
  PROVE  Min(Unfinished) \in Unfinished /\ Unfinished \subseteq DOMAIN events
<1>1. DOMAIN events = 1 .. Len(events) /\ Len(events) \in Nat
  BY LogIsSequence DEF DInv, Written
<1>2. Unfinished \in SUBSET (1 .. Len(events))
  BY <1>1 DEF Unfinished, EventsOf
<1> QED
  BY <1>1, <1>2, ExtremesOf

LEMMA ResumeVerifyDerive == IInv /\ DInv /\ (Resume \/ Verify) => DInv'
<1> SUFFICES ASSUME IInv, DInv, Resume \/ Verify PROVE DInv'
  OBVIOUS
<1> USE DEF Resume, Verify, Go, counts, files
<1>1. pc \notin {"publish", "built"} /\ pc' \notin {"publish", "built"}
  OBVIOUS
<1>2. Named' = Named /\ (main' # Mixed => Derivable(Named))
  BY DEF Named, DInv
<1> QED
  BY <1>1, <1>2, LogStays

LEMMA RepairCallDerives == IInv /\ DInv /\ RepairCall => DInv'
<1> SUFFICES ASSUME IInv, DInv, RepairCall PROVE DInv'
  OBVIOUS
<1> DEFINE c == Min(Unfinished)
           rows == IF Usable(main) THEN Proof(main, c) ELSE {}
<1>1. c \in DOMAIN events /\ pc # "publish" /\ UNCHANGED chain /\ Life \in Nat
  BY FirstUnfinished, LifeIsNat DEF RepairCall
<1>2. CASE Write(FinishOf(c, "inline"), "repair")
  <2> DEFINE e == FinishOf(c, "inline")
  <2> HIDE DEF c, rows
  <2>1. NewEvent(e, events, Life) /\ e.life = Life
    BY <1>1, FinishOfToday
  <2> HIDE DEF e
  <2>2. main # Mixed => Matches(e, events, Life, Named.artifacts)
    BY <1>1, <2>1, NothingAhead
  <2>3. Write(e, "repair")
    BY <1>2 DEF e
  <2> QED
    BY <1>1, <2>1, <2>2, <2>3, WriteDerives
<1>3. CASE \E r \in rows : Write([FinishOf(c, "artifact") EXCEPT !.life = r.event[2]], "repair")
  <2>1. PICK r \in rows : Write([FinishOf(c, "artifact") EXCEPT !.life = r.event[2]], "repair")
    BY <1>3
  <2> DEFINE e == [FinishOf(c, "artifact") EXCEPT !.life = r.event[2]]
  <2>2. /\ r \in main.artifacts /\ r.seq = Len(events) + 1 /\ Usable(main)
        /\ r.call = Id(events, c)
    BY DEF Proof
  <2> HIDE DEF c, rows
  <2>3. Complete(main) /\ Named = main /\ main # Mixed
    BY <2>2, MainIsNamed
  <2>4. RowsOk(main.artifacts, events, Life, Pending)
    BY <2>3 DEF DInv, Derivable, Sound
  <2>5. r.event[2] \in Nat /\ r.event[2] <= Life /\ r.event = <<Len(events) + 1, r.event[2]>>
    BY <2>2, <2>3, <2>4 DEF RowsOk, Complete
  <2>6. /\ NewEvent(e, events, Life) /\ e.life = r.event[2] /\ e.call = Id(events, c)
        /\ RefersToArtifact(e)
    BY <1>1, <2>5, FinishEvents DEF RefersToArtifact
  <2>7. Write(e, "repair")
    BY <2>1
  <2> HIDE DEF e
  <2>8. Matches(e, events, Life, main.artifacts)
    <3>1. ASSUME NEW s \in main.artifacts, s.event = <<Len(events) + 1, e.life>>
          PROVE  e.call = s.call
      <4>1. s.event = <<s.seq, s.event[2]>>
        BY <2>3 DEF Complete
      <4>2. s.seq = r.seq
        BY <2>2, <3>1, <4>1
      <4> QED
        BY <2>2, <2>4, <2>6, <4>2 DEF RowsOk
    <3>2. r.event = <<Len(events) + 1, e.life>>
      BY <2>5, <2>6
    <3> QED
      BY <2>2, <2>6, <3>1, <3>2 DEF Matches
  <2> QED
    BY <1>1, <2>3, <2>6, <2>7, <2>8, WriteDerives
<1> QED
  BY <1>2, <1>3 DEF RepairCall

LEMMA CollectOrphansDerives == IInv /\ DInv /\ CollectOrphans => DInv'
<1> SUFFICES ASSUME IInv, DInv, CollectOrphans PROVE DInv'
  OBVIOUS
<1> USE DEF CollectOrphans, Go, counts
<1>1. CASE ~Usable(main)
  <2>1. Named' = Named /\ main' = main
    BY <1>1 DEF Named
  <2> QED
    BY <2>1, LogStays DEF DInv
<1>2. CASE Usable(main)
  <2>1. PICK rows \in SUBSET Orphans(main) : main' = Without(main, rows)
    BY <1>2
  <2>2. Complete(main) /\ main # Mixed /\ Named = main
    BY <1>2, MainIsNamed
  <2>3. /\ Complete(main') /\ main'.artifacts \subseteq main.artifacts
        /\ main'.turns = main.turns /\ main'.docs = main.docs /\ main'.mark = main.mark
    BY <2>1, <2>2, WithoutRows
  <2>4. Named' = main'
    BY <2>3, FileIsUsable DEF Complete, Named
  <2>5. Derivable(main)
    BY <2>2 DEF DInv
  <2> DEFINE f == main
             g == main'
             fr == Frozen
             pe == Pending
             l == Life
  <2>6. /\ Sound(f, events, l, fr, pe) /\ g.artifacts \subseteq f.artifacts
        /\ g.turns = f.turns /\ g.docs = f.docs /\ g.mark = f.mark
    BY <2>3, <2>5 DEF Derivable
  <2> HIDE DEF f, g, fr, pe, l
  <2>7. Sound(g, events, l, fr, pe)
    BY ONLY <2>6, SoundLess
  <2>8. Derivable(Named')
    BY <2>4, <2>7 DEF Derivable, g, fr, pe, l
  <2> QED
    BY <2>8, LogStays
<1> QED
  BY <1>1, <1>2

\* A file is opened under the name, or a new one made.
LEMMA OpenForLoopDerives == IInv /\ DInv /\ (OpenForLoop \/ OpenForRebuild) => DInv'
<1> SUFFICES ASSUME IInv, DInv, OpenForLoop \/ OpenForRebuild PROVE DInv'
  OBVIOUS
<1> USE DEF OpenForLoop, OpenForRebuild, OpenDatabase, Go, counts
<1>1. pc \notin {"publish", "built"} /\ pc' \notin {"publish", "built"}
  OBVIOUS
<1>2. ASSUME main' # Mixed PROVE Derivable(Named')
  <2>1. main # Mixed /\ main' = Named
    BY <1>2, NotAFile DEF Opened, Named
  <2>2. Complete(main')
    BY <2>1, NamedStored
  <2>3. Named' = main'
    BY <2>2, FileIsUsable DEF Complete, Named
  <2> QED
    BY <2>1, <2>3 DEF DInv
<1>3. UNCHANGED <<log, kills, losses, chain>>
  OBVIOUS
<1> QED
  BY <1>1, <1>2, <1>3, LogStays

\* The file is brought up to date.
LEMMA ProjectionDerives ==
  ASSUME IInv, DInv, Usable(main), NEW baseline \in BOOLEAN, ~Failing(main, events, baseline),
         baseline => main.mark # NoMark, main.mark # NoMark => SamePrefix(main.mark, events)
  PROVE  Derivable(Projected(main, events, baseline))
<1>1. Named = main /\ main # Mixed /\ IsFile(main) /\ Stored(main, events)
  BY MainIsNamed
<1> DEFINE f == main
           fr == Frozen
           pe == Pending
           l == Life
<1>2. /\ Sound(f, events, l, fr, pe) /\ Written(events, l) /\ IsFile(f) /\ Stored(f, events)
      /\ ~Failing(f, events, baseline) /\ (baseline => f.mark # NoMark)
      /\ (f.mark # NoMark => SamePrefix(f.mark, events))
  BY <1>1 DEF DInv, Derivable
<1> HIDE DEF f, fr, pe, l
<1>3. Sound(Projected(f, events, baseline), events, l, fr, pe)
  BY ONLY <1>2, baseline \in BOOLEAN, SoundProjected
<1> QED
  BY <1>3 DEF Derivable, f, fr, pe, l

LEMMA CatchUpDerives ==
  ASSUME IInv, DInv, Usable(main)
  PROVE  Derivable(CatchUp(main))
<1>1. Derivable(main)
  BY MainIsNamed DEF DInv
<1>2. CASE CheckpointState(main, events) = "invalid" \/ Failing(main, events, main.mark # NoMark)
  <2>1. CatchUp(main) = main
    BY <1>2 DEF CatchUp
  <2> QED
    BY <1>1, <2>1
<1>3. CASE CheckpointState(main, events) # "invalid" /\ ~Failing(main, events, main.mark # NoMark)
  <2> DEFINE b == main.mark # NoMark
  <2>1. CatchUp(main) = Projected(main, events, b)
    BY <1>3 DEF CatchUp
  <2>2. main.mark # NoMark => SamePrefix(main.mark, events)
    BY <1>3 DEF CheckpointState
  <2>3. b \in BOOLEAN /\ (b => main.mark # NoMark) /\ ~Failing(main, events, b)
    BY <1>3
  <2> HIDE DEF b
  <2>4. Derivable(Projected(main, events, b))
    BY <2>2, <2>3, ProjectionDerives
  <2> QED
    BY <2>1, <2>4
<1> QED
  BY <1>2, <1>3

\* The file that is found is the one that the process has open.
LEMMA MainStays ==
  ASSUME IInv, DInv, Usable(main), UNCHANGED <<log, kills, losses, chain>>,
         pc \notin {"publish"}, pc' \notin {"publish", "built"}, Derivable(main'), IsFile(main')
  PROVE  DInv'
<1>1. Named' = main'
  BY FileIsUsable DEF Named
<1> QED
  BY <1>1, LogStays

LEMMA ProjectDerives == IInv /\ DInv /\ (ProjectAtResume \/ Project \/ ProjectInLibrary) => DInv'
<1> SUFFICES ASSUME IInv, DInv, ProjectAtResume \/ Project \/ ProjectInLibrary PROVE DInv'
  OBVIOUS
<1> USE DEF Go, counts
<1>1. ASSUME Usable(main)
      PROVE  /\ IsFile(main) /\ Derivable(main)
             /\ IsFile(CatchUp(main)) /\ Derivable(CatchUp(main))
  BY <1>1, MainIsNamed, CatchUpKeeps, CatchUpDerives DEF DInv
<1>2. CASE ProjectAtResume
  <2>1. CASE Usable(main)
    <3>1. IsFile(main') /\ Derivable(main')
      <4>1. main' = main \/ main' = CatchUp(main)
        BY <1>2, <2>1 DEF ProjectAtResume
      <4> QED
        BY <1>1, <2>1, <4>1
    <3>2. /\ pc \notin {"publish"} /\ pc' \notin {"publish", "built"}
          /\ UNCHANGED <<log, kills, losses, chain>>
      BY <1>2 DEF ProjectAtResume
    <3> QED
      BY <2>1, <3>1, <3>2, MainStays
  <2>2. CASE ~Usable(main)
    <3>1. Named' = Named /\ main' = main
      BY <1>2, <2>2 DEF ProjectAtResume, Named
    <3>2. /\ pc \notin {"publish"} /\ pc' \notin {"publish", "built"}
          /\ UNCHANGED <<log, kills, losses, chain>>
      BY <1>2, <2>2 DEF ProjectAtResume
    <3> QED
      BY <3>1, <3>2, LogStays DEF DInv
  <2> QED
    BY <2>1, <2>2
<1>3. CASE Project
  <2>1. Usable(main)
    BY <1>3, OpenIsUsable DEF Project, Open
  <2>2. IsFile(main') /\ Derivable(main')
    BY <1>1, <1>3, <2>1 DEF Project
  <2>3. /\ pc \notin {"publish"} /\ pc' \notin {"publish", "built"}
        /\ UNCHANGED <<log, kills, losses, chain>>
    BY <1>3 DEF Project
  <2> QED
    BY <2>1, <2>2, <2>3, MainStays
<1>4. CASE ProjectInLibrary
  <2>1. Usable(main) /\ ~Failing(main, events, FALSE) /\ IsFile(main)
    BY <1>1, <1>4 DEF ProjectInLibrary
  <2>2. main.mark # NoMark => SamePrefix(main.mark, events)
    BY <1>4 DEF ProjectInLibrary, CheckpointState
  <2>3. Derivable(Projected(main, events, FALSE))
    BY <2>1, <2>2, ProjectionDerives
  <2>4. IsFile(Projected(main, events, FALSE))
    BY <2>1, ProjectedKeeps
  <2>5. /\ pc \notin {"publish"} /\ pc' \notin {"publish", "built"}
        /\ UNCHANGED <<log, kills, losses, chain>> /\ main' = Projected(main, events, FALSE)
    BY <1>4 DEF ProjectInLibrary
  <2> QED
    BY <2>1, <2>3, <2>4, <2>5, MainStays
<1> QED
  BY <1>2, <1>3, <1>4

-----------------------------------------------------------------------------
(* The turn loop, on files *)

LEMMA LoopWritesDerive ==
  IInv /\ DInv /\ (StartTurn \/ StartCall \/ FinishInline \/ CloseTurn \/ Compact \/ Reset) => DInv'
<1> SUFFICES ASSUME IInv, DInv,
                    StartTurn \/ StartCall \/ FinishInline \/ CloseTurn \/ Compact \/ Reset
             PROVE  DInv'
  OBVIOUS
<1>1. pc # "publish" /\ UNCHANGED chain
  BY DEF StartTurn, StartCall, FinishInline, CloseTurn, Compact, Reset
<1>2. ASSUME NEW e, NEW where \in {"loop", "project"}, Write(e, where),
             NewEvent(e, events, Life), e.life = Life
      PROVE  DInv'
  BY <1>1, <1>2, NothingAhead, WriteDerives
<1>3. ASSUME NEW k \in {"turn", "call", "close", "compact", "reset"}, NEW t, NEW src,
             NEW where \in {"loop", "project"}, Write(Event(k, t, "none", src), where)
      PROVE  DInv'
  <2>1. NewEvent(Event(k, t, "none", src), events, Life)
    BY PlainEvents
  <2>2. Event(k, t, "none", src).life = Life
    BY DEF Event
  <2> QED
    BY <1>2, <1>3, <2>1, <2>2
<1>4. CASE StartTurn
  BY <1>3, <1>4 DEF StartTurn
<1>5. CASE StartCall
  BY <1>3, <1>5 DEF StartCall
<1>6. CASE FinishInline
  <2>1. PICK c \in Unfinished : Write(FinishOf(c, "inline"), "loop")
    BY <1>6 DEF FinishInline
  <2>2. c \in DOMAIN events
    BY DEF Unfinished, EventsOf
  <2>3. NewEvent(FinishOf(c, "inline"), events, Life) /\ FinishOf(c, "inline").life = Life
    BY <2>2, FinishOfToday
  <2> QED
    BY <1>2, <2>1, <2>3
<1>7. CASE CloseTurn
  BY <1>3, <1>7 DEF CloseTurn
<1>8. CASE Compact
  BY <1>3, <1>8 DEF Compact
<1>9. CASE Reset
  BY <1>3, <1>9 DEF Reset
<1> QED
  BY <1>4, <1>5, <1>6, <1>7, <1>8, <1>9

LEMMA PersistArtifactDerives == IInv /\ DInv /\ PersistArtifact => DInv'
<1> SUFFICES ASSUME IInv, DInv, PersistArtifact PROVE DInv'
  OBVIOUS
<1> USE DEF Go, log, counts
<1>1. PICK c \in Unfinished, b \in {"blob"} :
        LET row == [call |-> Id(events, c), seq |-> Len(events) + 1,
                    event |-> <<Len(events) + 1, Life>>, blob |-> b]
        IN /\ held' = c
           /\ main' = File(main.artifacts \cup {row}, main.blobs \cup {b}, main.turns, main.docs,
                           main.mark)
  BY OneRowMore
<1> DEFINE row == [call |-> Id(events, c), seq |-> Len(events) + 1,
                   event |-> <<Len(events) + 1, Life>>, blob |-> b]
           rows == main.artifacts \cup {row}
           kept == main.blobs \cup {b}
<1>2. main' = File(rows, kept, main.turns, main.docs, main.mark) /\ held' = c
  BY <1>1
<1>3. row.seq = Len(events) + 1 /\ row.event = <<Len(events) + 1, Life>> /\ row.call = Id(events, c)
  OBVIOUS
<1> HIDE DEF row, kept
<1>4. /\ IsFile(main') /\ main'.artifacts = rows /\ main'.turns = main.turns
      /\ main'.docs = main.docs /\ main'.mark = main.mark
  <2> HIDE DEF rows
  <2> QED
    BY <1>2, FileRows
<1>5. Usable(main) /\ pc = "loop" /\ pc' = "publish"
  BY OpenIsUsable DEF PersistArtifact, Open
<1>6. Named = main /\ main # Mixed
  BY <1>5, MainIsNamed
<1>7. Named' = main'
  BY <1>4, FileIsUsable DEF Named
<1>8. Sound(main, events, Life, Frozen, {})
  BY <1>5, <1>6 DEF DInv, Derivable, Pending
<1>9. \A r \in main.artifacts : r.seq # Len(events) + 1
  BY DEF PersistArtifact
<1>10. Life \in Nat /\ Written(events, Life)
  BY LifeIsNat DEF DInv
<1> DEFINE f == main
           g == main'
           fr == Frozen
           l == Life
<1>11. /\ l \in Nat /\ Written(events, l) /\ Sound(f, events, l, fr, {})
       /\ row.seq = Len(events) + 1 /\ row.event = <<Len(events) + 1, l>>
       /\ (\A r \in f.artifacts : r.seq # Len(events) + 1)
       /\ g.artifacts = f.artifacts \cup {row} /\ g.turns = f.turns /\ g.docs = f.docs
       /\ g.mark = f.mark
  BY <1>3, <1>4, <1>8, <1>9, <1>10
<1> HIDE DEF f, g, fr, l
<1>12. Sound(g, events, l, fr, {row.call})
  BY ONLY <1>11, SoundMore
<1>13. /\ Life' = Life /\ Frozen' = Frozen /\ events' = events /\ synced' = synced
       /\ kills' = kills /\ losses' = losses
  BY DEF PersistArtifact, Life, Frozen
<1>14. Pending' = {row.call}
  BY <1>2, <1>3, <1>5, <1>13 DEF Pending
<1>15. Sound(main', events, Life, Frozen, {row.call})
  BY <1>12 DEF g, fr, l
<1>16. Derivable(Named)'
  BY <1>7, <1>13, <1>14, <1>15 DEF Derivable
<1>17. held' \in DOMAIN events
  BY <1>2 DEF Unfinished, EventsOf
<1> QED
  BY <1>5, <1>13, <1>16, <1>17 DEF DInv

LEMMA FinishArtifactDerives == IInv /\ DInv /\ FinishArtifact => DInv'
<1> SUFFICES ASSUME IInv, DInv, FinishArtifact PROVE DInv'
  OBVIOUS
<1> DEFINE e == FinishOf(held, "artifact")
<1>1. pc = "publish" /\ Write(e, "loop") /\ UNCHANGED chain /\ held \in DOMAIN events
  BY DEF FinishArtifact, DInv
<1>2. /\ NewEvent(e, events, Life) /\ e.life = Life /\ e.call = Id(events, held)
      /\ e.kind = "finish" /\ e.body = "artifact"
  BY <1>1, FinishOfToday
<1>3. Usable(main) /\ Named = main /\ Complete(main)
  BY <1>1, OpenIsUsable, MainIsNamed DEF Open
<1> HIDE DEF e
<1>4. RowsOk(main.artifacts, events, Life, {Id(events, held)})
  BY <1>1, <1>3, MainIsNamed DEF DInv, Derivable, Sound, Pending
<1>5. Len(events) \in Nat
  BY LogIsSequence DEF DInv, Written
<1>6. ASSUME NEW r \in main.artifacts, r.event = <<Len(events) + 1, Life>>
      PROVE  e.call = r.call
  <2>1. r.seq = Len(events) + 1 /\ r.event[2] = Life
    BY <1>3, <1>6 DEF Complete
  <2>2. r.seq <= Len(events) \/ r.call \in {Id(events, held)}
    BY <1>4, <2>1 DEF RowsOk
  <2> QED
    BY <1>2, <1>5, <2>1, <2>2
<1>7. Matches(e, events, Life, Named.artifacts)
  BY <1>2, <1>3, <1>6 DEF Matches, RefersToArtifact
<1> QED
  BY <1>1, <1>2, <1>7, WriteDerives

-----------------------------------------------------------------------------
(* A rebuild, kills and losses, on files *)

LEMMA BeginRebuildDerives == IInv /\ DInv /\ BeginRebuild => DInv'
<1> SUFFICES ASSUME IInv, DInv, BeginRebuild PROVE DInv'
  OBVIOUS
<1> USE DEF BeginRebuild, Go, counts
<1>1. Named' = Named /\ main # Mixed
  BY DEF Named, Usable
<1> QED
  BY <1>1, LogStays DEF DInv

LEMMA BuildDerives == IInv /\ DInv /\ Build => DInv'
<1> SUFFICES ASSUME IInv, DInv, Build PROVE DInv'
  OBVIOUS
<1> USE DEF Go, counts
<1>1. /\ Usable(main) /\ main # Missing /\ pc = "build"
      /\ UNCHANGED <<log, kills, losses, chain, main>>
  BY OpenIsUsable DEF Build, Open
<1>2. Named = main /\ main # Mixed /\ IsFile(main) /\ Stored(main, events) /\ Named' = main
  BY <1>1, MainIsNamed DEF Named
<1>3. Derivable(main)
  BY <1>2 DEF DInv
<1>4. CASE /\ ~Failing(Copied(main), events, FALSE)
           /\ rebuild' = Rebuilt(main, events) /\ pc' = "built"
  <2> DEFINE f == main
             fr == Frozen
             pe == Pending
             l == Life
  <2>1. /\ Written(events, l) /\ IsFile(f) /\ Stored(f, events) /\ Sound(f, events, l, fr, pe)
        /\ ~Failing(Copied(f), events, FALSE)
    BY <1>2, <1>3, <1>4 DEF Derivable, DInv
  <2> HIDE DEF f, fr, pe, l
  <2>2. Sound(Rebuilt(f, events), events, l, fr, pe)
    BY ONLY <2>1, SoundRebuilt
  <2>3. Derivable(rebuild')
    BY <1>4, <2>2 DEF Derivable, f, fr, pe, l
  <2> QED
    BY <1>1, <1>2, <1>3, <1>4, <2>3, LogStays
<1>5. CASE pc' = "library"
  BY <1>1, <1>2, <1>3, <1>5, LogStays
<1> QED
  BY <1>4, <1>5 DEF Build

\* From here on the rebuilt file is the one that is found.
LEMMA MovesDerive == IInv /\ DInv /\ (MoveAside \/ MoveSidecars \/ PutInPlace) => DInv'
<1> SUFFICES ASSUME IInv, DInv, MoveAside \/ MoveSidecars \/ PutInPlace PROVE DInv'
  OBVIOUS
<1> USE DEF Go, counts
<1>1. CASE MoveAside
  <2>1. Complete(rebuild) /\ main' = Missing /\ rebuild' = rebuild
    BY <1>1 DEF IInv, PcInv, MoveAside
  <2>2. Named' = rebuild
    BY <2>1, FileIsUsable DEF Named, Complete
  <2>3. Derivable(rebuild)
    BY <1>1 DEF DInv, MoveAside
  <2>4. /\ UNCHANGED <<log, kills, losses, chain>> /\ pc # "publish"
        /\ pc' \notin {"publish", "built"}
    BY <1>1 DEF MoveAside
  <2> QED
    BY <2>2, <2>3, <2>4, LogStays
<1>2. CASE MoveSidecars
  <2>1. Named' = Named /\ main' = main
    BY <1>2 DEF Named, MoveSidecars
  <2>2. /\ UNCHANGED <<log, kills, losses, chain>> /\ pc # "publish"
        /\ pc' \notin {"publish", "built"}
    BY <1>2 DEF MoveSidecars
  <2> QED
    BY <2>1, <2>2, LogStays DEF DInv
<1>3. CASE PutInPlace
  <2>1. main = Missing /\ Complete(rebuild) /\ main' = rebuild
    BY <1>3 DEF IInv, PcInv, PutInPlace
  <2>2. Named = rebuild /\ Named' = rebuild /\ main # Mixed
    BY <2>1, FileIsUsable, NotAFile DEF Named, Complete
  <2>3. /\ UNCHANGED <<log, kills, losses, chain>> /\ pc # "publish"
        /\ pc' \notin {"publish", "built"}
    BY <1>3 DEF PutInPlace
  <2> QED
    BY <2>2, <2>3, LogStays DEF DInv
<1> QED
  BY <1>1, <1>2, <1>3

\* A new life begins, with less of the log or all of it.
LEMMA NewLife ==
  ASSUME IInv, DInv, LogInv', Len(events') <= Len(events),
         \A i \in 1 .. Len(events') : events'[i] = events[i],
         synced <= synced', UNCHANGED <<files, chain>>, pc' = "away",
         Life' = Life + 1, kills' \in Nat, losses' \in Nat
  PROVE  DInv'
<1>1. /\ Life \in Nat /\ Frozen \in Nat /\ Frozen <= synced /\ Written(events, Life)
      /\ synced \in Nat
  BY LifeIsNat DEF DInv, IInv, LogInv
<1>2. IsLog(events) /\ IsLog(events') /\ synced' \in 0 .. Len(events') /\ Len(events') \in Nat
  BY <1>1, LogIsSequence DEF LogInv, Written, IsLog
<1>3. Frozen' = Frozen /\ Pending' = {} /\ Named' = Named /\ main' = main
  BY DEF Frozen, Pending, Named, files
<1>4. Frozen <= Len(events') /\ Frozen \in 0 .. synced'
  BY <1>1, <1>2
<1>5. Written(events', Life')
  <2> DEFINE evs2 == events'
  <2>1. DOMAIN evs2 = 1 .. Len(evs2) /\ DOMAIN events = 1 .. Len(events) /\ Len(events) \in Nat
    BY <1>2, LogIsSequence
  <2>2. ASSUME NEW i \in DOMAIN evs2
        PROVE  /\ IsEvent(evs2[i]) /\ evs2[i].life \in Nat /\ evs2[i].life <= Life + 1
               /\ RefersToArtifact(evs2[i])
                    => /\ evs2[i].sources = {} /\ evs2[i].call[1] \in 1 .. i - 1
                       /\ evs2[i].call = Id(evs2, evs2[i].call[1])
                       /\ evs2[i].turn = evs2[evs2[i].call[1]].turn
    <3>1. i \in DOMAIN events /\ evs2[i] = events[i]
      BY <1>2, <2>1
    <3>2. \A j \in 1 .. i - 1 : evs2[j] = events[j] /\ Id(evs2, j) = Id(events, j)
      BY <1>2, <2>1, <2>2 DEF Id
    <3>3. IsEvent(events[i]) /\ events[i].life \in Nat /\ events[i].life <= Life
      BY <1>1, <3>1 DEF Written
    <3>4. RefersToArtifact(events[i])
            => /\ events[i].sources = {} /\ events[i].call[1] \in 1 .. i - 1
               /\ events[i].call = Id(events, events[i].call[1])
               /\ events[i].turn = events[events[i].call[1]].turn
      BY <1>1, <3>1 DEF Written
    <3> HIDE DEF evs2
    <3> QED
      BY <1>1, <3>1, <3>2, <3>3, <3>4
  <2> QED
    BY <1>2, <2>2 DEF Written
<1>6. ASSUME main # Mixed PROVE Sound(Named, events', Life + 1, Frozen, {})
  <2> DEFINE f == Named
             fr == Frozen
             pe == Pending
             l == Life
             evs2 == events'
  <2>1. /\ l \in Nat /\ IsLog(events) /\ fr \in Nat /\ Sound(f, events, l, fr, pe)
        /\ IsLog(evs2) /\ Len(evs2) <= Len(events) /\ fr <= Len(evs2)
        /\ \A i \in 1 .. Len(evs2) : evs2[i] = events[i]
    BY <1>1, <1>2, <1>4, <1>6 DEF DInv, Derivable
  <2> HIDE DEF f, fr, pe, l, evs2
  <2>2. Sound(f, evs2, l + 1, fr, {})
    BY ONLY <2>1, SoundCut
  <2> QED
    BY <2>2 DEF f, fr, l, evs2
<1>7. (main # Mixed)' => Derivable(Named)'
  BY <1>3, <1>6 DEF Derivable
<1> QED
  BY <1>3, <1>4, <1>5, <1>7 DEF DInv

LEMMA KillDerives == IInv /\ DInv /\ (Kill \/ PowerLoss) => DInv'
<1> SUFFICES ASSUME IInv, DInv, Kill \/ PowerLoss PROVE DInv'
  OBVIOUS
<1> USE DEF Go
<1>1. CASE Kill
  <2>1. LogInv' /\ Len(events') <= Len(events) /\ synced <= synced' /\ events' = events
    BY <1>1 DEF Kill, log, IInv, LogInv
  <2>2. kills' \in Nat /\ losses' \in Nat /\ Life' = Life + 1
    BY <1>1 DEF Kill, DInv, Life
  <2>3. UNCHANGED <<files, chain>> /\ pc' = "away"
    BY <1>1 DEF Kill
  <2> QED
    BY <2>1, <2>2, <2>3, NewLife
<1>2. CASE PowerLoss
  <2>1. PICK n \in synced .. Len(events) : events' = SubSeq(events, 1, n) /\ synced' = n
    BY <1>2 DEF PowerLoss
  <2>2. n \in 0 .. Len(events) /\ n <= Len(events) /\ synced <= n
    BY DEF IInv, LogInv
  <2>3. /\ events' \in Seq(Range(events')) /\ Len(events') = n
        /\ \A i \in 1 .. n : events'[i] = events[i]
    BY <2>1, <2>2, Shortened DEF IInv
  <2>4. LogInv'
    BY <2>1, <2>2, <2>3 DEF LogInv
  <2>5. kills' \in Nat /\ losses' \in Nat /\ Life' = Life + 1
    BY <1>2 DEF PowerLoss, DInv, Life
  <2>6. UNCHANGED <<files, chain>> /\ pc' = "away"
    BY <1>2 DEF PowerLoss
  <2> QED
    BY <2>1, <2>2, <2>3, <2>4, <2>5, <2>6, NewLife
<1> QED
  BY <1>1, <1>2

-----------------------------------------------------------------------------
(* Searches, on files *)

\* A page is read, or none: the search goes on, ends, or begins with an index that the log
\* has or has not.
LEMMA SearchDerives ==
  ASSUME IInv, DInv, UNCHANGED <<events, files, kills, losses>>, pc = "search", pc' = "loop",
         synced <= synced', synced' \in 0 .. Len(events),
         \/ Frozen' \in {0, Frozen}
         \/ /\ SamePrefix(main.mark, events) /\ main.mark # NoMark
            /\ Frozen' = main.mark.through /\ synced' = Len(events)
  PROVE  DInv'
<1>1. Usable(main) /\ Named = main /\ main # Mixed /\ Named' = Named /\ main' = main
  BY OpenIsUsable, MainIsNamed DEF Open, Named, files
<1>2. Life' = Life /\ Pending' = {} /\ Pending = {}
  BY DEF Life, Pending
<1>3. /\ Sound(main, events, Life, Frozen, {}) /\ IsLog(events) /\ Frozen \in 0 .. synced
      /\ synced \in Nat
  BY <1>1, <1>2 DEF DInv, Derivable, Written, IInv, LogInv
<1>4. Sound(main, events, Life, Frozen', {}) /\ Frozen' \in 0 .. synced'
  <2>1. CASE Frozen' = 0
    <3>1. Sound(main, events, Life, 0, {})
      BY <1>3, SoundUnfrozen
    <3> QED
      BY <2>1, <3>1
  <2>2. CASE Frozen' = Frozen
    BY <1>3, <2>2
  <2>3. CASE /\ SamePrefix(main.mark, events) /\ main.mark # NoMark
             /\ Frozen' = main.mark.through /\ synced' = Len(events)
    <3>1. Sound(main, events, Life, Frozen', {})
      BY <1>3, <2>3, SoundFrozen
    <3>2. PICK L, Q : From(main, L, Q, events, Life, Frozen)
      BY <1>3, <2>3 DEF Sound
    <3>3. PICK P : Replay(P, events)
      BY <1>3, ReplayExists
    <3>4. IsBeginning(main, L, events, P)
      BY <1>3, <2>3, <3>2, <3>3, FittingMark
    <3> QED
      BY <2>3, <3>1, <3>4 DEF IsBeginning
  <2> QED
    BY <2>1, <2>2, <2>3
<1>5. (main # Mixed)' => Derivable(Named)'
  BY <1>1, <1>2, <1>4 DEF Derivable
<1> QED
  BY <1>2, <1>4, <1>5 DEF DInv

LEMMA ReadDerives == IInv /\ DInv /\ (ReadPage \/ ReadNothing \/ Leave) => DInv'
<1> SUFFICES ASSUME IInv, DInv, ReadPage \/ ReadNothing \/ Leave PROVE DInv'
  OBVIOUS
<1> USE DEF Go, counts
<1>1. synced \in 0 .. Len(events) /\ Len(events) \in Nat
  BY LogIsSequence DEF IInv, LogInv, DInv, Written
<1>2. CASE ReadPage
  <2>1. /\ UNCHANGED <<events, files, kills, losses>> /\ pc = "search" /\ pc' = "loop"
        /\ synced' = Len(events) /\ main.mark # NoMark
    BY <1>2 DEF ReadPage
  <2>2. /\ chain'.snapshot = IF chain = NoChain THEN main.mark.through ELSE chain.snapshot
        /\ chain'.phantom = IF chain = NoChain THEN ~SamePrefix(main.mark, events)
                                               ELSE chain.phantom
    BY <1>2 DEF ReadPage
  <2>3. \/ Frozen' \in {0, Frozen}
        \/ SamePrefix(main.mark, events) /\ Frozen' = main.mark.through
    BY <2>2 DEF Frozen
  <2> QED
    BY <1>1, <2>1, <2>3, SearchDerives
<1>3. CASE ReadNothing
  <2>1. /\ UNCHANGED <<events, files, kills, losses>> /\ pc = "search" /\ pc' = "loop"
        /\ synced' = synced
    BY <1>3 DEF ReadNothing, log
  <2>2. chain' = chain \/ chain' = NoChain
    BY <1>3 DEF ReadNothing
  <2>3. Frozen' \in {0, Frozen}
    BY <2>2 DEF Frozen
  <2> QED
    BY <1>1, <2>1, <2>3, SearchDerives
<1>4. CASE Leave
  <2>1. Named' = Named /\ main' = main
    BY <1>4 DEF Leave, files, Named
  <2>2. /\ UNCHANGED <<log, kills, losses, chain>> /\ pc # "publish"
        /\ pc' \notin {"publish", "built"}
    BY <1>4 DEF Leave
  <2> QED
    BY <2>1, <2>2, LogStays DEF DInv
<1> QED
  BY <1>2, <1>3, <1>4

LEMMA StepDerives == IInv /\ DInv /\ [Next]_vars => DInv'
<1> SUFFICES ASSUME IInv, DInv, [Next]_vars PROVE DInv'
  OBVIOUS
<1>1. CASE Opens
  BY <1>1, ResumeVerifyDerive, RepairCallDerives, CollectOrphansDerives, OpenForLoopDerives,
     ProjectDerives DEF Opens
<1>2. CASE Works
  BY <1>2, LoopWritesDerive, PersistArtifactDerives, FinishArtifactDerives, ProjectDerives,
     ReadDerives DEF Works
<1>3. CASE Replaces
  BY <1>3, OpenForLoopDerives, BeginRebuildDerives, ProjectDerives, BuildDerives, MovesDerive
     DEF Replaces
<1>4. CASE Kill \/ PowerLoss
  BY <1>4, KillDerives
<1>5. CASE UNCHANGED vars
  BY <1>5 DEF vars, log, files, counts, DInv, Derivable, Named, Life, Frozen, Pending
<1> QED
  BY <1>1, <1>2, <1>3, <1>4, <1>5 DEF Next

LEMMA SpecDerives == Spec => [](IInv /\ DInv)
<1>1. Init => IInv /\ DInv
  BY InitHolds, InitDerivable
<1>2. IInv /\ DInv /\ [Next]_vars => (IInv /\ DInv)'
  BY StepKeeps, StepDerives
<1> QED
  BY <1>1, <1>2, PTL DEF Spec

\* Whoever opens a database whose checkpoint fits the log reads under it what a replay of that
\* prefix of the log gives: a projection of the tail at the checkpoint adds what a replay
\* would, a rebuild makes the rows from nothing, and a file that outlived the end of its log
\* has a checkpoint whose hash fits no log that grew anew, since those events are of a later
\* life.  Also where a rebuild can be killed inside its first rename.
THEOREM SpecDerivedIsReplay == Spec => []DerivedIsReplay
<1>1. IInv /\ DInv => DerivedIsReplay
  <2> DEFINE db == Opened
             S == SubSeq(events, 1, db.mark.through)
             replayed == Projected(Copied(db), S, FALSE)
  <2> SUFFICES ASSUME IInv, DInv, Usable(db), db.mark # NoMark, SamePrefix(db.mark, events)
               PROVE  /\ db.turns = replayed.turns /\ db.docs = replayed.docs
                      /\ db.mark = replayed.mark
    BY DEF DerivedIsReplay
  <2>1. db = Named /\ main # Mixed
    BY NotAFile DEF Opened, Usable, Named
  <2>2. IsFile(db) /\ Stored(db, events) /\ IsLog(events)
    BY <2>1, NamedStored DEF DInv, Written
  <2>3. Sound(db, events, Life, Frozen, Pending)
    BY <2>1 DEF DInv, Derivable
  <2> HIDE DEF db
  <2>4. PICK L, Q : From(db, L, Q, events, Life, Frozen)
    BY <2>3 DEF Sound
  <2>5. PICK P : Replay(P, events)
    BY <2>2, ReplayExists
  <2>6. IsBeginning(db, L, events, P)
    BY <2>2, <2>4, <2>5, FittingMark
  <2> DEFINE n == Len(L)
  <2>7. /\ db.mark.through = n /\ n \in 0 .. Len(events)
        /\ db.turns = P[n].turns /\ db.docs = P[n].docs
        /\ db.mark = [through |-> n, hash |-> PrefixHash(events, n), epoch |-> P[n].epoch]
    BY <2>6 DEF IsBeginning
  <2> HIDE DEF n
  <2>8. n \in 0 .. Len(events)
    BY <2>7
  <2>9. HoldsReplay(Projected(Copied(db), SubSeq(events, 1, n), FALSE), P, events, n)
    BY ONLY <2>2, <2>5, <2>8, ReplayedBeginning
  <2> QED
    BY <2>7, <2>9 DEF HoldsReplay
<1> QED
  BY <1>1, SpecDerives, PTL

-----------------------------------------------------------------------------
(* The pages of a search *)

\* The pages read so far, best first, and what follows them, in an index that was frozen.
Pages(seen, done, epoch, index) ==
  LET found == {d \in index : d.epoch = epoch}
  IN /\ IsLog(seen) /\ Len(seen) > 0
     /\ \A i \in DOMAIN seen : seen[i] \in found
     /\ \A i, j \in DOMAIN seen :
          i < j => Relevance(seen[j], index) < Relevance(seen[i], index)
     /\ \A d \in found : \/ \E i \in DOMAIN seen : seen[i] = d
                         \/ Relevance(d, index) < Relevance(Last(seen), index)
     /\ done => \A d \in found : \E i \in DOMAIN seen : seen[i] = d

\* Documents of a replay: each sequence has one.
IsIndex(index, n) ==
  /\ \A d \in index : d.seq \in 1 .. n
  /\ \A d, o \in index : d.seq = o.seq => d = o

LEMMA RelevanceOrders ==
  ASSUME NEW n \in Nat, NEW index, IsIndex(index, n), NEW d \in index, NEW o \in index
  PROVE  /\ Relevance(d, index) \in Int
         /\ Relevance(d, index) = Relevance(o, index) => d = o
<1>1. d.seq \in Nat /\ o.seq \in Nat
  BY DEF IsIndex
<1>2. Relevance(d, index) = Relevance(o, index) => d.seq = o.seq
  BY <1>1 DEF Relevance
<1>3. Relevance(d, index) \in Int
  BY <1>1 DEF Relevance
<1> QED
  BY <1>2, <1>3 DEF IsIndex

LEMMA BestExists ==
  ASSUME NEW n \in Nat, NEW index, IsIndex(index, n), NEW rest \in SUBSET index, rest # {}
  PROVE  \E d \in rest : \A o \in rest : Relevance(o, index) <= Relevance(d, index)
<1> DEFINE S == {d.seq : d \in rest}
<1>1. S \in SUBSET (1 .. n) /\ S # {}
  BY DEF IsIndex
<1>2. \A d \in rest : d.seq \in S
  OBVIOUS
<1>3. \A x \in S : \E d \in rest : d.seq = x
  OBVIOUS
<1> HIDE DEF S
<1>4. Max(S) \in S /\ Min(S) \in S /\ \A x \in S : x <= Max(S) /\ Min(S) <= x
  BY <1>1, ExtremesOf
<1>5. CASE Cardinality(index) % 2 = 0
  <2>1. PICK d \in rest : d.seq = Max(S)
    BY <1>3, <1>4
  <2>2. \A o \in rest : o.seq <= d.seq
    BY <1>2, <1>4, <2>1
  <2> QED
    BY <1>5, <2>2 DEF Relevance
<1>6. CASE ~(Cardinality(index) % 2 = 0)
  <2>1. PICK d \in rest : d.seq = Min(S)
    BY <1>3, <1>4
  <2>2. \A o \in rest : d.seq <= o.seq /\ d.seq \in Nat /\ o.seq \in Nat
    <3> SUFFICES ASSUME NEW o \in rest
                 PROVE  d.seq <= o.seq /\ d.seq \in Nat /\ o.seq \in Nat
      OBVIOUS
    <3>1. o.seq \in S /\ d.seq \in S
      BY <1>2, <2>1
    <3>2. o.seq \in 1 .. n /\ d.seq \in 1 .. n
      BY <1>1, <3>1
    <3> QED
      BY <1>4, <2>1, <3>1, <3>2
  <2>3. \A o \in rest : 0 - o.seq <= 0 - d.seq
    BY <2>2
  <2> QED
    BY <1>6, <2>3 DEF Relevance
<1> QED
  BY <1>5, <1>6

LEMMA FunctionIsSequence ==
  ASSUME NEW n \in Nat, NEW S, NEW f \in [1 .. n -> S]
  PROVE  f \in Seq(S) /\ Len(f) = n
  OBVIOUS

\* The result of a page, as a sequence.
LEMMA OnePage ==
  ASSUME NEW b
  PROVE  SetToSeq({b}) \in Seq({b}) /\ Len(SetToSeq({b})) = 1 /\ SetToSeq({b})[1] = b
<1> DEFINE f == [i \in 1 .. 1 |-> b]
<1>1. Cardinality({b}) = 1
  BY FS_Singleton
<1>2. f \in [1 .. 1 -> {b}] /\ IsInjective(f)
  BY DEF IsInjective
<1>3. SetToSeq({b}) = CHOOSE g \in [1 .. 1 -> {b}] : IsInjective(g)
  BY <1>1 DEF SetToSeq
<1> HIDE DEF f
<1> DEFINE s == SetToSeq({b})
<1>4. s \in [1 .. 1 -> {b}]
  BY <1>2, <1>3
<1> HIDE DEF s
<1>5. s \in Seq({b}) /\ Len(s) = 1
  BY <1>4, 1 \in Nat, FunctionIsSequence
<1>6. s[1] = b
  BY <1>4
<1> QED
  BY <1>5, <1>6 DEF s

LEMMA NoPage == SetToSeq({}) \in Seq({}) /\ Len(SetToSeq({})) = 0
<1> DEFINE f == [i \in 1 .. 0 |-> 0]
<1>1. Cardinality({}) = 0
  BY FS_EmptySet
<1>2. f \in [1 .. 0 -> {}] /\ IsInjective(f)
  BY DEF IsInjective
<1>3. SetToSeq({}) = CHOOSE g \in [1 .. 0 -> {}] : IsInjective(g)
  BY <1>1 DEF SetToSeq
<1> HIDE DEF f
<1> DEFINE s == SetToSeq({})
<1>4. s \in [1 .. 0 -> {}]
  BY <1>2, <1>3
<1> HIDE DEF s
<1>5. s \in Seq({}) /\ Len(s) = 0
  BY <1>4
<1> QED
  BY <1>5 DEF s

\* One page more, of what follows the last result, best first.
LEMMA NextPage ==
  ASSUME NEW n \in Nat, NEW index, IsIndex(index, n), NEW epoch,
         NEW seen, seen = <<>> \/ Pages(seen, FALSE, epoch, index),
         NEW rest, rest = {d \in index : /\ d.epoch = epoch
                                         /\ seen # <<>> => Relevance(d, index)
                                                             < Relevance(Last(seen), index)},
         NEW b \in rest, \A o \in rest : Relevance(o, index) <= Relevance(b, index)
  PROVE  Pages(seen \o SetToSeq({b}), rest = {b}, epoch, index)
<1> DEFINE found == {d \in index : d.epoch = epoch}
           R(d) == Relevance(d, index)
           m == Len(seen)
           more == seen \o SetToSeq({b})
<1>1. IsLog(seen) /\ (seen = <<>> => m = 0)
  <2>1. CASE seen = <<>>
    BY <2>1 DEF IsLog
  <2>2. CASE Pages(seen, FALSE, epoch, index)
    <3>1. m > 0 /\ IsLog(seen)
      BY <2>2 DEF Pages
    <3>2. seen = <<>> => m = 0
      OBVIOUS
    <3> QED
      BY <3>1, <3>2
  <2> QED
    BY <2>1, <2>2
<1>2. m \in Nat /\ DOMAIN seen = 1 .. m
  BY <1>1, LogIsSequence
<1>3. /\ IsLog(more) /\ Len(more) = m + 1 /\ DOMAIN more = 1 .. m + 1
      /\ \A i \in 1 .. m : more[i] = seen[i]
      /\ more[m + 1] = b
  <2> DEFINE S == Range(seen) \cup {b}
             s == SetToSeq({b})
  <2>1. s \in Seq({b}) /\ Len(s) = 1 /\ s[1] = b
    BY OnePage
  <2>2. seen \in Seq(S) /\ s \in Seq(S)
    BY <1>1, <2>1 DEF IsLog
  <2> HIDE DEF S, s
  <2>3. /\ seen \o s \in Seq(S) /\ Len(seen \o s) = m + 1
        /\ \A i \in 1 .. m + 1 : (seen \o s)[i] = IF i <= m THEN seen[i] ELSE s[i - m]
    <3>1. seen \o s \in Seq(S) /\ Len(seen \o s) = Len(seen) + Len(s)
      BY <2>2, ConcatProperties
    <3>2. \A i \in 1 .. Len(seen) + Len(s) :
            (seen \o s)[i] = IF i <= Len(seen) THEN seen[i] ELSE s[i - Len(seen)]
      BY <2>2, ConcatProperties
    <3> QED
      BY <2>1, <3>1, <3>2
  <2>4. seen \o s \in Seq(Range(seen \o s)) /\ DOMAIN (seen \o s) = 1 .. m + 1
    <3> DEFINE t == seen \o s
    <3>1. t \in Seq(S) /\ Len(t) = m + 1
      BY <2>3
    <3> HIDE DEF t
    <3>2. t \in Seq(Range(t))
      BY <3>1, SeqOfRange
    <3>3. DOMAIN t = 1 .. m + 1
      BY <3>1
    <3> QED
      BY <3>2, <3>3 DEF t
  <2>5. (seen \o s)[m + 1] = b
    <3>1. m + 1 \in 1 .. m + 1 /\ ~(m + 1 <= m) /\ (m + 1) - m = 1
      BY <1>2
    <3> QED
      BY <2>1, <2>3, <3>1
  <2>6. \A i \in 1 .. m : (seen \o s)[i] = seen[i]
    BY <1>2, <2>3
  <2> QED
    BY <2>3, <2>4, <2>5, <2>6 DEF IsLog, s
<1> HIDE DEF more
<1>4. b \in found /\ (m > 0 => R(b) < R(seen[m]))
  BY <1>1, <1>2 DEF Last
<1>5. \A d \in found : d \in index
  OBVIOUS
<1>6. m > 0 => Pages(seen, FALSE, epoch, index)
  <2>1. m > 0 => seen # <<>>
    BY <1>1, <1>2
  <2> QED
    BY <2>1
<1>7. /\ \A i \in 1 .. m : seen[i] \in found
      /\ \A i, j \in 1 .. m : i < j => R(seen[j]) < R(seen[i])
      /\ m > 0 => \A d \in found : (\E i \in 1 .. m : seen[i] = d) \/ R(d) < R(seen[m])
  BY <1>2, <1>6 DEF Pages, Last
<1>8. \A d \in found : R(d) \in Int /\ \A o \in found : R(d) = R(o) => d = o
  BY <1>5, RelevanceOrders
<1>9. \A d \in found : (m > 0 => R(d) < R(seen[m])) => d \in rest
  BY <1>1, <1>2 DEF Last
<1>10. \A o \in rest : R(o) <= R(b)
  OBVIOUS
<1> HIDE DEF found, R, m
<1>11. ASSUME NEW i \in 1 .. m + 1 PROVE more[i] \in found
  BY <1>2, <1>3, <1>4, <1>7
<1>12. ASSUME NEW i \in 1 .. m + 1, NEW j \in 1 .. m + 1, i < j PROVE R(more[j]) < R(more[i])
  <2>1. CASE j \in 1 .. m
    <3>1. i \in 1 .. m
      BY <1>2, <1>12, <2>1
    <3> QED
      BY <1>3, <1>7, <1>12, <2>1, <3>1
  <2>2. CASE j = m + 1
    <3>1. i \in 1 .. m /\ m > 0 /\ m \in 1 .. m
      BY <1>2, <1>12, <2>2
    <3>2. R(b) < R(seen[m]) /\ (i = m \/ R(seen[m]) < R(seen[i]))
      BY <1>2, <1>4, <1>7, <3>1
    <3>3. R(b) \in Int /\ R(seen[m]) \in Int /\ R(seen[i]) \in Int
      BY <1>4, <1>7, <1>8, <3>1
    <3>4. R(b) < R(seen[i])
      BY <3>2, <3>3
    <3> QED
      BY <1>3, <2>2, <3>1, <3>4
  <2> QED
    BY <1>2, <2>1, <2>2
<1>13. ASSUME NEW d \in found
       PROVE  (\E i \in 1 .. m + 1 : more[i] = d) \/ (d \in rest /\ R(d) < R(b))
  <2>1. CASE \E i \in 1 .. m : seen[i] = d
    BY <1>2, <1>3, <2>1
  <2>2. CASE d \in rest
    <3>1. R(d) <= R(b) /\ R(d) \in Int /\ R(b) \in Int
      BY <1>4, <1>8, <1>10, <2>2
    <3>2. CASE R(d) = R(b)
      <4>1. d = b /\ m + 1 \in 1 .. m + 1
        BY <1>2, <1>4, <1>8, <3>2
      <4> QED
        BY <1>3, <4>1
    <3> QED
      BY <2>2, <3>1, <3>2
  <2> QED
    BY <1>7, <1>9, <2>1, <2>2
<1>14. ASSUME rest = {b}, NEW d \in found PROVE \E i \in 1 .. m + 1 : more[i] = d
  <2>1. R(b) \in Int
    BY <1>4, <1>8
  <2>2. ~(d \in rest /\ R(d) < R(b))
    BY <1>14, <2>1
  <2> QED
    BY <1>13, <2>2
<1>15. Last(more) = b /\ Len(more) > 0
  BY <1>2, <1>3 DEF Last
<1> QED
  BY <1>3, <1>11, <1>12, <1>13, <1>14, <1>15 DEF Pages, found, R, more

\* The page after the last.
LEMMA LastPage ==
  ASSUME NEW n \in Nat, NEW index, IsIndex(index, n), NEW epoch,
         NEW seen, Pages(seen, FALSE, epoch, index),
         {d \in index : d.epoch = epoch /\ Relevance(d, index) < Relevance(Last(seen), index)} = {}
  PROVE  Pages(seen \o SetToSeq({}), TRUE, epoch, index)
<1> DEFINE S == Range(seen)
           s == SetToSeq({})
           m == Len(seen)
<1>1. seen \in Seq(S) /\ m \in Nat /\ DOMAIN seen = 1 .. m
  BY LogIsSequence DEF Pages, IsLog
<1>2. s \in Seq(S) /\ Len(s) = 0
  BY NoPage
<1> HIDE DEF S, s
<1>3. /\ Len(seen \o s) = m /\ seen \o s \in Seq(S)
      /\ \A i \in 1 .. m : (seen \o s)[i] = seen[i]
  <2>1. /\ Len(seen \o s) = m + 0
        /\ \A i \in 1 .. m + 0 : (seen \o s)[i] = IF i <= m THEN seen[i] ELSE s[i - m]
    BY <1>1, <1>2, ConcatProperties
  <2>2. seen \o s \in Seq(S)
    BY <1>1, <1>2, ConcatProperties
  <2> QED
    BY <1>1, <2>1, <2>2
<1> DEFINE more == seen \o s
<1>4. more \in Seq(S) /\ Len(more) = m
  BY <1>3
<1> HIDE DEF more
<1>5. more \in Seq(Range(more))
  BY <1>4, SeqOfRange
<1>6. IsLog(more) /\ DOMAIN more = 1 .. m
  BY <1>4, <1>5 DEF IsLog
<1>7. /\ Len(more) = m /\ \A i \in 1 .. m : more[i] = seen[i]
  BY <1>3 DEF more
<1>8. m > 0 /\ Last(more) = Last(seen)
  BY <1>1, <1>7 DEF Pages, Last
<1> HIDE DEF m
<1>9. Pages(more, TRUE, epoch, index)
  BY <1>1, <1>6, <1>7, <1>8 DEF Pages
<1> QED
  BY <1>9 DEF more, s

LEMMA ReplayIsIndex ==
  ASSUME NEW L, IsLog(L), NEW P, Replay(P, L), NEW n \in 0 .. Len(L)
  PROVE  IsIndex(P[n].docs, n)
<1>1. \A d \in P[n].docs : d.seq \in 1 .. n /\ d = Place(P, L, d.seq)
  BY Growth
<1> QED
  BY <1>1 DEF IsIndex

\* The index of a search: the documents that the file has of the frozen part of the log are
\* those of its replay.
LEMMA IndexIsReplay ==
  ASSUME NEW evs, IsLog(evs), NEW P, Replay(P, evs), NEW f, NEW L, NEW Q, NEW life, NEW frozen,
         From(f, L, Q, evs, life, frozen), NEW k \in 0 .. Len(evs), k <= f.mark.through,
         SamePrefix(f.mark, evs) \/ frozen = k
  PROVE  IndexAt(f.docs, k) = P[k].docs
<1>1. /\ Earlier(L, evs, life, frozen) /\ Replay(Q, L) /\ f.docs = Q[Len(L)].docs
      /\ f.mark.through = Len(L)
  BY DEF From, Derived
<1>2. IsLog(L) /\ Len(L) \in Nat /\ DOMAIN L = 1 .. Len(L) /\ Len(evs) \in Nat
  BY <1>1, LogIsSequence DEF Earlier, Written
<1>3. k \in Nat /\ k \in 0 .. Len(L) /\ k <= Len(L) /\ k <= Len(evs) /\ Len(L) \in 0 .. Len(L)
      /\ k \in 0 .. k
  BY <1>1, <1>2
<1>4. \A i \in 1 .. k : L[i] = evs[i]
  <2>1. CASE SamePrefix(f.mark, evs)
    <3>1. IsBeginning(f, L, evs, P)
      BY <2>1, FittingMark
    <3> QED
      BY <1>2, <1>3, <3>1 DEF IsBeginning
  <2>2. CASE frozen = k
    BY <1>1, <1>2, <1>3, <2>2 DEF Earlier
  <2> QED
    BY <2>1, <2>2
<1>5. Q[k] = P[k]
  <2>1. /\ IsLog(L) /\ Replay(Q, L) /\ IsLog(evs) /\ Replay(P, evs)
        /\ k \in Nat /\ k <= Len(L) /\ k <= Len(evs)
    BY <1>1, <1>2, <1>3
  <2>2. \A j \in 0 .. k : Q[j] = P[j]
    BY ONLY <1>4, <2>1, SameReplay
  <2> QED
    BY <1>3, <2>2
<1>6. /\ Q[k].docs \subseteq Q[Len(L)].docs
      /\ \A d \in Q[Len(L)].docs : d.seq <= k => d \in Q[k].docs
  BY <1>1, <1>2, <1>3, Growth
<1>7. \A d \in Q[k].docs : d.seq \in 1 .. k
  BY <1>1, <1>2, <1>3, Growth
<1>8. \A d \in Q[k].docs : d.seq <= k
  BY <1>3, <1>7
<1> QED
  BY <1>1, <1>5, <1>6, <1>8 DEF IndexAt

-----------------------------------------------------------------------------
(* The search of the conversation *)

CInv ==
  chain # NoChain /\ ~chain.phantom
  => \E P : /\ Replay(P, events)
            /\ Pages(chain.seen, chain.done, chain.epoch, P[chain.snapshot].docs)

\* The log changes only behind the frozen part.
LEMMA ChainStays ==
  ASSUME IInv, DInv, CInv, IInv', DInv', UNCHANGED chain,
         \A i \in 1 .. Len(events) : i <= Len(events') => events'[i] = events[i]
  PROVE  CInv'
<1> SUFFICES ASSUME chain # NoChain, ~chain.phantom
             PROVE  \E P : /\ Replay(P, events')
                           /\ Pages(chain.seen, chain.done, chain.epoch, P[chain.snapshot].docs)
  BY DEF CInv
<1> DEFINE n == chain.snapshot
<1>1. Frozen = n /\ Frozen' = n
  BY DEF Frozen
<1>2. /\ n \in 0 .. synced /\ n \in 0 .. synced'
      /\ synced \in 0 .. Len(events) /\ synced' \in 0 .. Len(events')
      /\ IsLog(events) /\ IsLog(events')
  BY <1>1 DEF DInv, Written, IInv, LogInv
<1>3. Len(events) \in Nat /\ Len(events') \in Nat
  BY <1>2, LogIsSequence
<1>4. n \in Nat /\ n <= Len(events) /\ n <= Len(events') /\ n \in 0 .. n
  BY <1>2, <1>3
<1>5. PICK P : /\ Replay(P, events)
               /\ Pages(chain.seen, chain.done, chain.epoch, P[n].docs)
  BY DEF CInv
<1>6. PICK Q : Replay(Q, events')
  BY <1>2, ReplayExists
<1> HIDE DEF n
<1>7. \A i \in 1 .. n : events[i] = events'[i]
  BY <1>3, <1>4
<1> DEFINE evs2 == events'
<1>8. IsLog(events) /\ IsLog(evs2) /\ Replay(P, events) /\ Replay(Q, evs2)
      /\ n <= Len(events) /\ n <= Len(evs2) /\ \A i \in 1 .. n : events[i] = evs2[i]
  BY <1>2, <1>4, <1>5, <1>6, <1>7
<1> HIDE DEF evs2
<1>9. \A k \in 0 .. n : P[k] = Q[k]
  BY ONLY <1>4, <1>8, SameReplay
<1>10. Pages(chain.seen, chain.done, chain.epoch, Q[n].docs)
  BY <1>4, <1>5, <1>9
<1> QED
  BY <1>6, <1>10 DEF n

LEMMA ReadPageKeepsPages == IInv /\ DInv /\ CInv /\ DInv' /\ ReadPage => CInv'
<1> SUFFICES ASSUME IInv, DInv, CInv, DInv', ReadPage, chain' # NoChain, ~chain'.phantom
             PROVE  \E P : /\ Replay(P, events')
                           /\ Pages(chain'.seen, chain'.done, chain'.epoch,
                                    P[chain'.snapshot].docs)
  BY DEF CInv
<1> DEFINE first == chain = NoChain
           snapshot == IF first THEN main.mark.through ELSE chain.snapshot
           epoch == main.mark.epoch
           seen == chain.seen
           rest == Following(main.docs, snapshot, epoch, seen)
           page == IF rest = {} THEN {} ELSE {Best(main.docs, snapshot, rest)}
<1>1. /\ IF first THEN rest # {} ELSE CursorHolds
      /\ chain'.snapshot = snapshot /\ chain'.epoch = epoch
      /\ chain'.seen = seen \o SetToSeq(page) /\ chain'.done = (rest = page)
      /\ chain'.phantom = IF first THEN ~SamePrefix(main.mark, events) ELSE chain.phantom
      /\ events' = events /\ main.mark # NoMark /\ pc = "search"
  BY DEF ReadPage
<1>2. Usable(main) /\ Named = main /\ main # Mixed
  BY <1>1, OpenIsUsable, MainIsNamed DEF Open
<1>3. IsLog(events) /\ Sound(main, events, Life, Frozen, Pending)
  BY <1>2 DEF DInv, Derivable, Written
<1>4. PICK L, Q : From(main, L, Q, events, Life, Frozen)
  BY <1>1, <1>3 DEF Sound
<1>5. Len(events) \in Nat /\ synced \in 0 .. Len(events)
  BY <1>3, LogIsSequence DEF IInv, LogInv
<1>6. PICK P : /\ Replay(P, events)
               /\ ~first => Pages(seen, chain.done, chain.epoch, P[chain.snapshot].docs)
  <2>1. CASE first
    BY <1>3, <2>1, ReplayExists
  <2>2. CASE ~first
    BY <1>1, <2>2 DEF CInv
  <2> QED
    BY <2>1, <2>2
<1>7. first => SamePrefix(main.mark, events)
  BY <1>1
<1>8. ~first => Frozen = snapshot /\ Frozen \in 0 .. synced /\ snapshot <= main.mark.through
                /\ chain.epoch = epoch
  BY <1>1 DEF Frozen, DInv, CursorHolds
<1>9. snapshot \in 0 .. Len(events) /\ snapshot <= main.mark.through
  <2>1. CASE first
    <3>1. IsBeginning(main, L, events, P)
      BY <1>3, <1>4, <1>6, <1>7, <2>1, FittingMark
    <3>2. main.mark.through \in 0 .. Len(events)
      BY <3>1 DEF IsBeginning
    <3> QED
      BY <2>1, <3>2
  <2>2. CASE ~first
    BY <1>5, <1>8, <2>2
  <2> QED
    BY <2>1, <2>2
<1> DEFINE index == P[snapshot].docs
<1>10. first => seen = <<>>
  BY DEF NoChain
<1>11. ~first => Pages(seen, FALSE, epoch, index)
  <2> SUFFICES ASSUME ~first PROVE Pages(seen, FALSE, epoch, index)
    OBVIOUS
  <2>1. Pages(seen, chain.done, epoch, index)
    BY <1>6, <1>8
  <2> HIDE DEF seen, epoch, index
  <2> QED
    BY <2>1 DEF Pages
<1>12. IndexAt(main.docs, snapshot) = index
  <2>1. SamePrefix(main.mark, events) \/ Frozen = snapshot
    BY <1>7, <1>8
  <2> HIDE DEF snapshot
  <2> QED
    BY <1>3, <1>4, <1>6, <1>9, <2>1, IndexIsReplay
<1>13. IsIndex(index, snapshot)
  <2> HIDE DEF snapshot
  <2> QED
    BY <1>3, <1>6, <1>9, ReplayIsIndex
<1>14. snapshot \in Nat
  BY <1>5, <1>9
<1>15. rest = {d \in index : /\ d.epoch = epoch
                             /\ seen # <<>> => Relevance(d, index) < Relevance(Last(seen), index)}
  <2> HIDE DEF index, snapshot, epoch, seen
  <2> QED
    BY <1>12 DEF Following, Candidates, IndexAt
<1>16. rest # {} => page = {Best(main.docs, snapshot, rest)}
  OBVIOUS
<1>17. rest = {} => page = {}
  OBVIOUS
<1> DEFINE b == Best(main.docs, snapshot, rest)
<1>18. rest # {} => b \in rest /\ \A o \in rest : Relevance(o, index) <= Relevance(b, index)
  <2> SUFFICES ASSUME rest # {}
               PROVE  b \in rest /\ \A o \in rest : Relevance(o, index) <= Relevance(b, index)
    OBVIOUS
  <2> HIDE DEF index, snapshot, rest
  <2>1. rest \in SUBSET index
    BY <1>15
  <2>2. \E d \in rest : \A o \in rest : Relevance(o, index) <= Relevance(d, index)
    BY <1>13, <1>14, <2>1, BestExists
  <2>3. b = CHOOSE d \in rest : \A o \in rest : Relevance(o, index) <= Relevance(d, index)
    BY <1>12 DEF Best
  <2> HIDE DEF b
  <2> QED
    BY <2>2, <2>3
<1> HIDE DEF b, page, index, rest, snapshot, epoch, seen
<1>19. Pages(chain'.seen, chain'.done, chain'.epoch, index)
  <2>1. CASE rest # {}
    <3>1. seen = <<>> \/ Pages(seen, FALSE, epoch, index)
      BY <1>10, <1>11
    <3>2. b \in rest /\ \A o \in rest : Relevance(o, index) <= Relevance(b, index)
      BY <1>18, <2>1
    <3>3. Pages(seen \o SetToSeq({b}), rest = {b}, epoch, index)
      BY ONLY <1>13, <1>14, <1>15, <3>1, <3>2, NextPage
    <3>4. page = {b}
      BY <1>16, <2>1 DEF b
    <3> QED
      BY <1>1, <3>3, <3>4
  <2>2. CASE rest = {}
    <3>1. ~first
      BY <1>1, <2>2
    <3>2. Pages(seen, FALSE, epoch, index)
      BY <1>11, <3>1
    <3>3. {d \in index : d.epoch = epoch /\ Relevance(d, index) < Relevance(Last(seen), index)} = {}
      BY <1>15, <2>2
    <3>4. Pages(seen \o SetToSeq({}), TRUE, epoch, index)
      BY ONLY <1>13, <1>14, <3>2, <3>3, LastPage
    <3>5. page = {} /\ chain'.done = TRUE
      BY <1>1, <1>17, <2>2
    <3> QED
      BY <1>1, <3>4, <3>5
  <2> QED
    BY <2>1, <2>2
<1>20. index = P[chain'.snapshot].docs
  BY <1>1 DEF index
<1> QED
  BY <1>1, <1>6, <1>19, <1>20

LEMMA StepKeepsPages == IInv /\ DInv /\ CInv /\ IInv' /\ DInv' /\ [Next]_vars => CInv'
<1> SUFFICES ASSUME IInv, DInv, CInv, IInv', DInv', [Next]_vars PROVE CInv'
  OBVIOUS
<1>1. Len(events) \in Nat
  BY LogIsSequence DEF DInv, Written
<1>2. ASSUME UNCHANGED <<events, chain>> PROVE CInv'
  BY <1>2, ChainStays
<1>3. ASSUME NEW e, NEW where, Write(e, where), UNCHANGED chain PROVE CInv'
  <2>1. \A i \in 1 .. Len(events) : events'[i] = events[i]
    BY <1>3, Appended DEF Write, IInv
  <2> QED
    BY <1>3, <2>1, ChainStays
<1>4. CASE StartTurn \/ StartCall \/ FinishInline \/ FinishArtifact \/ CloseTurn \/ Compact \/ Reset
  BY <1>3, <1>4 DEF StartTurn, StartCall, FinishInline, FinishArtifact, CloseTurn, Compact, Reset
<1>5. CASE RepairCall
  BY <1>3, <1>5 DEF RepairCall
<1>6. CASE PowerLoss
  <2>1. PICK n \in synced .. Len(events) : events' = SubSeq(events, 1, n)
    BY <1>6 DEF PowerLoss
  <2>2. n \in 0 .. Len(events)
    BY DEF IInv, LogInv
  <2>3. Len(events') = n /\ \A i \in 1 .. n : events'[i] = events[i]
    BY <2>1, <2>2, Shortened DEF IInv
  <2>4. \A i \in 1 .. Len(events) : i <= Len(events') => events'[i] = events[i]
    BY <1>1, <2>2, <2>3
  <2> QED
    BY <1>6, <2>4, ChainStays DEF PowerLoss
<1>7. CASE ReadPage
  BY <1>7, ReadPageKeepsPages
<1>8. CASE ReadNothing
  <2>1. CASE chain' = NoChain
    BY <2>1 DEF CInv
  <2>2. CASE chain' = chain
    BY <1>2, <1>8, <2>2 DEF ReadNothing, log
  <2> QED
    BY <1>8, <2>1, <2>2 DEF ReadNothing
<1>9. CASE Resume \/ Verify \/ CollectOrphans \/ OpenForLoop \/ ProjectAtResume
  BY <1>2, <1>9 DEF Resume, Verify, CollectOrphans, OpenForLoop, ProjectAtResume, log
<1>10. CASE PersistArtifact \/ Project \/ Leave
  BY <1>2, <1>10 DEF PersistArtifact, Project, Leave, log
<1>11. CASE Replaces
  BY <1>2, <1>11 DEF Replaces, OpenForRebuild, BeginRebuild, ProjectInLibrary, Build, MoveAside,
     MoveSidecars, PutInPlace, log
<1>12. CASE Kill
  BY <1>2, <1>12 DEF Kill, log
<1>13. CASE UNCHANGED vars
  BY <1>2, <1>13 DEF vars, log
<1> QED
  BY <1>4, <1>5, <1>6, <1>7, <1>8, <1>9, <1>10, <1>11, <1>12, <1>13 DEF Next, Opens, Works

LEMMA SpecPages == Spec => [](IInv /\ DInv /\ CInv)
<1>1. Init => IInv /\ DInv /\ CInv
  <2>1. Init => CInv
    BY DEF Init, CInv
  <2> QED
    BY <2>1, InitHolds, InitDerivable
<1>2. IInv /\ DInv /\ CInv /\ [Next]_vars => (IInv /\ DInv /\ CInv)'
  <2> SUFFICES ASSUME IInv, DInv, CInv, [Next]_vars PROVE IInv' /\ DInv' /\ CInv'
    OBVIOUS
  <2>1. IInv' /\ DInv'
    BY StepKeeps, StepDerives
  <2> QED
    BY <2>1, StepKeepsPages
<1> QED
  BY <1>1, <1>2, PTL DEF Spec

\* The pages of one search are together the documents of the prefix its first page froze,
\* each once, unless the file is overlaid with the write-ahead log of another: that prefix is
\* synced, so no kill takes it, a file brought up to date since has the same documents of
\* it, and a page goes on below the last result of the page before.
THEOREM SpecPagesAreSnapshot == Spec => []PagesAreSnapshot
<1>1. IInv /\ DInv /\ CInv => PagesAreSnapshot
  <2> DEFINE db == Opened
             n == chain.snapshot
             seen == chain.seen
             found == Candidates(Projected(Copied(db), SubSeq(events, 1, n), FALSE).docs, n,
                                 chain.epoch)
  <2> SUFFICES ASSUME IInv, DInv, CInv, Opened # Mixed, chain # NoChain, ~chain.phantom
               PROVE  /\ \A i, j \in DOMAIN seen : seen[i] = seen[j] => i = j
                      /\ Range(seen) \subseteq found
                      /\ chain.done => Range(seen) = found
    BY DEF PagesAreSnapshot
  <2>1. db = Named /\ main # Mixed
    BY OverlaidOrNamed
  <2>2. IsFile(db) /\ Stored(db, events) /\ IsLog(events)
    BY <2>1, NamedStored DEF DInv, Written
  <2>3. n \in 0 .. Len(events)
    <3>1. Frozen = n /\ Frozen \in 0 .. synced /\ synced \in 0 .. Len(events)
      BY DEF Frozen, DInv, IInv, LogInv
    <3>2. Len(events) \in Nat
      BY <2>2, LogIsSequence
    <3> QED
      BY <3>1, <3>2
  <2>4. PICK P : Replay(P, events) /\ Pages(seen, chain.done, chain.epoch, P[n].docs)
    BY DEF CInv
  <2> HIDE DEF db, n, seen
  <2>5. HoldsReplay(Projected(Copied(db), SubSeq(events, 1, n), FALSE), P, events, n)
    BY ONLY <2>2, <2>3, <2>4, ReplayedBeginning
  <2> DEFINE index == P[n].docs
  <2>6. IsIndex(index, n)
    BY ONLY <2>2, <2>3, <2>4, ReplayIsIndex
  <2>7. n \in Nat
    BY <2>2, <2>3, LogIsSequence
  <2>8. found = {d \in index : d.epoch = chain.epoch}
    <3>1. Projected(Copied(db), SubSeq(events, 1, n), FALSE).docs = index
      BY <2>5 DEF HoldsReplay
    <3>2. \A d \in index : d.seq <= n
      BY <2>6, <2>7 DEF IsIndex
    <3> QED
      BY <3>1, <3>2 DEF Candidates
  <2>9. Pages(seen, chain.done, chain.epoch, index)
    BY <2>4
  <2> HIDE DEF index, found
  <2>10. /\ IsLog(seen) /\ \A i \in DOMAIN seen : seen[i] \in found
         /\ \A i, j \in DOMAIN seen :
              i < j => Relevance(seen[j], index) < Relevance(seen[i], index)
         /\ chain.done => \A d \in found : \E i \in DOMAIN seen : seen[i] = d
    BY <2>8, <2>9 DEF Pages
  <2>11. ASSUME NEW i \in DOMAIN seen, NEW j \in DOMAIN seen, seen[i] = seen[j] PROVE i = j
    <3>1. i \in Nat /\ j \in Nat
      BY <2>10, LogIsSequence
    <3>2. seen[i] \in index
      BY <2>8, <2>10
    <3>3. Relevance(seen[i], index) \in Int
      BY <2>6, <2>7, <3>2, RelevanceOrders
    <3>4. ~(i < j) /\ ~(j < i)
      BY <2>10, <2>11, <3>3
    <3> QED
      BY <3>1, <3>4
  <2> QED
    BY <2>10, <2>11 DEF Range
<1> QED
  BY <1>1, SpecPages, PTL
=============================================================================
