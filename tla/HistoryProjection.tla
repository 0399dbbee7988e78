------------------------- MODULE HistoryProjection -------------------------
(***************************************************************************)
(* What history.db holds and how it is derived from the session log: the   *)
(* rows of artifacts, which nothing can rebuild, and the rows of turns and *)
(* search documents, which a projection brings up to date from its         *)
(* checkpoint or computes again from nothing.                              *)
(*                                                                         *)
(* An event is identified by its place in the log and the life (the count  *)
(* of crashes before it) in which it was written: an event that was lost   *)
(* and the one written in its place later differ in their life.            *)
(***************************************************************************)
EXTENDS Integers, Sequences, FiniteSets, Functions, SequencesExt

NoId == <<0, 0>>
Id(evs, i) == <<i, evs[i].life>>
Ids(evs) == {Id(evs, i) : i \in DOMAIN evs}

\* event_prefix_hash: equal exactly for equal prefixes.
PrefixHash(evs, n) == [i \in 1 .. n |-> evs[i].life]

NoMark == [through |-> -1, hash |-> <<>>, epoch |-> 0]

\* A database as its schema creates it.
Fresh == [artifacts |-> {}, blobs |-> {}, turns |-> <<>>, docs |-> {}, mark |-> NoMark]

-----------------------------------------------------------------------------
(* The checkpoint against the log *)

SamePrefix(mark, evs) == /\ mark.through <= Len(evs)
                         /\ mark.hash = PrefixHash(evs, mark.through)

\* Bug: the prefix hash is not compared.
StateBySequence(db, evs) ==
  CASE db.mark = NoMark -> "absent"
    [] db.mark.through > Len(evs) -> "invalid"
    [] db.mark.through = Len(evs) -> "fresh"
    [] db.mark.through \in 0 .. Len(evs) - 1 -> "stale"

\* Behind the log is not wrong: the hash is compared at the checkpoint's own sequence.
CheckpointState(db, evs) ==
  IF db.mark # NoMark /\ ~SamePrefix(db.mark, evs) THEN "invalid" ELSE StateBySequence(db, evs)

-----------------------------------------------------------------------------
(* The projection *)

\* The row of an artifact and the bytes it refers to.
HasArtifact(db, event) == \E r \in db.artifacts : r.event = event /\ r.blob \in db.blobs

\* One searchable document; the epoch is the one the projection has reached.
Doc(evs, i, epoch) == [seq |-> i, life |-> evs[i].life, epoch |-> epoch]

\* Rows written over those that are there.
Upsert(there, rows) ==
  [t \in DOMAIN there \cup DOMAIN rows |-> IF t \in DOMAIN rows THEN rows[t] ELSE there[t]]

Ending(row, i) == IF row.end = 0 THEN [row EXCEPT !.end = i] ELSE row

\* One event folded into the rows d, read beside the artifacts of db.
ApplyEvent(db, evs, d, i) ==
  LET e == evs[i]
      doc == {Doc(evs, i, d.epoch)}
  IN CASE e.kind = "turn" ->
            [d EXCEPT !.docs = @ \cup doc,
                      !.turns = Upsert(@, [t \in {Id(evs, i)} |->
                                             [epoch |-> d.epoch, start |-> i, end |-> 0,
                                              retired |-> 0]])]
       [] e.kind = "close" ->
            [d EXCEPT !.turns[e.turn] = Ending(@, i)]
       [] e.kind = "finish" ->
            IF e.body = "artifact" /\ ~HasArtifact(db, Id(evs, i))
            THEN [d EXCEPT !.fault = TRUE]
            ELSE [d EXCEPT !.docs = @ \cup doc]
       [] e.kind = "compact" ->
            IF \A t \in e.sources : t \in DOMAIN d.turns /\ d.turns[t].retired \in {0, i}
            THEN [d EXCEPT !.docs = @ \cup doc,
                           !.turns = [t \in DOMAIN @ |-> IF t \in e.sources
                                        THEN [@[t] EXCEPT !.retired = i] ELSE @[t]]]
            ELSE [d EXCEPT !.fault = TRUE]
       [] e.kind = "reset" -> [d EXCEPT !.epoch = @ + 1]
       [] OTHER -> d

\* The turns that an event of the tail names.
Touched(evs, applied) ==
  UNION {evs[i].sources \cup {evs[i].turn} : i \in applied + 1 .. Len(evs)}

\* The rows the tail of the log gives, from the checkpoint or from nothing.
Derive(db, evs, baseline) ==
  LET applied == IF baseline THEN db.mark.through ELSE 0
      loaded == IF baseline THEN Restrict(db.turns, Touched(evs, applied) \cap DOMAIN db.turns)
                            ELSE <<>>
      rows == [turns |-> loaded, docs |-> {}, fault |-> FALSE,
               epoch |-> IF baseline THEN db.mark.epoch ELSE 0]
  IN FoldLeftDomain(LAMBDA d, i : IF i <= applied \/ d.fault THEN d
                                                            ELSE ApplyEvent(db, evs, d, i),
                    rows, evs)

Failing(db, evs, baseline) == Derive(db, evs, baseline).fault

\* One transaction: turn rows are overwritten, documents added, the checkpoint moved.
Projected(db, evs, baseline) ==
  LET d == Derive(db, evs, baseline)
  IN [db EXCEPT !.turns = Upsert(@, d.turns),
                !.docs = @ \cup d.docs,
                !.mark = [through |-> Len(evs), hash |-> PrefixHash(evs, Len(evs)),
                          epoch |-> d.epoch]]

-----------------------------------------------------------------------------
(* The files of a rebuild *)

\* Copy of the rows nothing can rebuild, then a projection of the whole log.
Copied(db) == [Fresh EXCEPT !.artifacts = db.artifacts, !.blobs = db.blobs]

CopyIsSound(db) == \A r \in db.artifacts : r.blob \in db.blobs

Rebuilt(db, evs) == Projected(Copied(db), evs, FALSE)
=============================================================================
