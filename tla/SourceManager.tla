--------------------------- MODULE SourceManager ---------------------------
(***************************************************************************)
(* The Sources of a Project: their normalized paths, the snapshot of each  *)
(* file that was read, and the include graph in both directions            *)
(* (source/source_manager.cpp, source_generation_storage.hpp).             *)
(*                                                                         *)
(* A source_id is the position of its path: records are only ever added.   *)
(* Includes and dependents live in two append-only edge arenas, and the    *)
(* graph record of a Source selects its current range of each.  All change *)
(* goes through an update that collects new paths and candidate snapshots  *)
(* and includes, prepares everything that can fail, and then publishes.    *)
(*                                                                         *)
(* A file on disk, and the snapshot taken of it, is its text, the ticks of *)
(* its last write and its file reference on the volume; equal texts have   *)
(* equal hashes, and TextLength is the byte size of a text.                *)
(***************************************************************************)
EXTENDS ImageFile

CONSTANTS PathHash,       \* hash_path of a normalized path
          PathLength,     \* its length in bytes
          TextLength,     \* the size of a text
          NoSnapshot      \* a Source whose file is gone

EmptyManager ==
  [paths |-> <<>>, snapshots |-> <<>>, graph |-> <<>>, forward |-> <<>>, reverse |-> <<>>,
   index |-> <<>>, baseline |-> 0, text_bytes |-> 0]

SourceCount(m) == Len(m.paths)
NoRange == [begin |-> 0, count |-> 0]
Selected(arena, range) == SubSeq(arena, range.begin + 1, range.begin + range.count)

Includes(m, s) == IF s > SourceCount(m) THEN <<>> ELSE Selected(m.forward, m.graph[s].includes)
Dependents(m, s) == IF s > SourceCount(m) THEN <<>> ELSE Selected(m.reverse, m.graph[s].dependents)
Current(m, s) == IF s > SourceCount(m) THEN NoSnapshot ELSE m.snapshots[s]

\* find: the Sources of the mapped baseline are found through its own path
\* index, later ones through the local index.
FindPath(m, path) ==
  LET mapped == {s \in 1..m.baseline : m.paths[s] = path} IN
  IF mapped # {} THEN CHOOSE s \in mapped : TRUE
  ELSE IF m.index = <<>> THEN 0
  ELSE Find(m.index, PathHash[path], LAMBDA s : m.paths[s] = path)

\* Breadth-first: each value of the queue appends its new successors.
Explore(start, limit, Successors(_)) ==
  FoldLeft(LAMBDA queue, n :
             IF n > Len(queue) THEN queue
             ELSE FoldLeft(LAMBDA q, x : IF x \in ToSet(q) THEN q ELSE Append(q, x),
                           queue, Successors(queue[n])),
           start, SlotsFrom(1, limit))

\* Mutant: only those who include the Source themselves.
CollectDependentsDirect(m, s) == Dependents(m, s)

\* collect_dependents: everyone who includes the Source, however indirectly.
CollectDependents(m, s) ==
  Tail(Explore(<<s>>, SourceCount(m), LAMBDA x : Dependents(m, x)))

----------------------------------------------------------------------------
(* An update.                                                              *)

BeginSourceUpdate == [new |-> <<>>, candidates |-> <<>>, semantic |-> <<>>, physical |-> <<>>]

Known(m, u) == SourceCount(m) + Len(u.new)

PathOf(m, u, s) == IF s <= SourceCount(m) THEN m.paths[s] ELSE u.new[s - SourceCount(m)]

\* resolve_normalized: a committed Source, one this update added, or a new id.
ResolvedId(m, u, path) ==
  IF FindPath(m, path) # 0 THEN FindPath(m, path)
  ELSE IF path \in ToSet(u.new)
       THEN SourceCount(m) + (CHOOSE i \in DOMAIN u.new : u.new[i] = path)
       ELSE Known(m, u) + 1

Resolve(m, u, path) ==
  IF ResolvedId(m, u, path) <= Known(m, u) THEN u ELSE [u EXCEPT !.new = Append(@, path)]

NoCandidate(s) ==
  [source |-> s, has_snapshot |-> FALSE, snapshot |-> NoSnapshot, has_includes |-> FALSE,
   includes |-> <<>>, has_dependents |-> FALSE, dependents |-> <<>>]

CandidateIndex(u, s) == {i \in DOMAIN u.candidates : u.candidates[i].source = s}

Candidate(u, s) ==
  IF CandidateIndex(u, s) = {} THEN NoCandidate(s)
  ELSE u.candidates[CHOOSE i \in CandidateIndex(u, s) : TRUE]

\* touch and then assign: the candidate of a Source, added when it is new.
TouchCandidate(u, c) ==
  [u EXCEPT !.candidates =
     IF CandidateIndex(u, c.source) = {} THEN Append(@, c)
     ELSE ReplaceAt(@, CHOOSE i \in CandidateIndex(u, c.source) : TRUE, c)]

SnapshotOf(m, u, s) ==
  IF Candidate(u, s).has_snapshot THEN Candidate(u, s).snapshot ELSE Current(m, s)

IncludesOf(m, u, s) ==
  IF Candidate(u, s).has_includes THEN Candidate(u, s).includes ELSE Includes(m, s)

\* execute_acquire: a file with the observed ticks and size is not read again.
Acquire(file, absent, previous) ==
  IF file = absent THEN [kind |-> "missing"]
  ELSE IF previous # NoSnapshot /\ previous.ticks = file.ticks
            /\ TextLength[previous.text] = TextLength[file.text]
       THEN [kind |-> "unchanged"]
       ELSE [kind |-> "present", snapshot |-> file]

\* apply_acquire: the physical change is recorded once, the semantic one only
\* when the hash of the text differs.
ApplyAcquire(m, u, s, acquired) ==
  LET previous == SnapshotOf(m, u, s)
      c == Candidate(u, s)
      value == IF acquired.kind = "missing" THEN NoSnapshot ELSE acquired.snapshot
      differs == value = NoSnapshot \/ previous = NoSnapshot \/ previous.text # value.text
      touched == TouchCandidate(u, [c EXCEPT !.has_snapshot = TRUE, !.snapshot = value])
  IN IF acquired.kind = "unchanged" THEN [status |-> "ok", u |-> u]
     ELSE IF acquired.kind = "missing" /\ (s > SourceCount(m) \/ previous = NoSnapshot)
     THEN [status |-> "not_found", u |-> u]
     ELSE [status |-> "ok",
           u |-> [touched EXCEPT
                    !.semantic = IF differs THEN Append(@, s) ELSE @,
                    !.physical = IF c.has_snapshot THEN @ ELSE Append(@, s)]]

\* set_includes: no Source includes itself.
SetIncludes(m, u, s, includes) ==
  IF s \in ToSet(includes) THEN [status |-> "invalid_argument", u |-> u]
  ELSE [status |-> "ok",
        u |-> TouchCandidate(u, [Candidate(u, s) EXCEPT !.has_includes = TRUE, !.includes = includes])]

----------------------------------------------------------------------------
(* Cycles.                                                                 *)

\* validate_source_graph: Sources nobody includes are processed first; each
\* lowers the in-degree of what it includes.  All are reached iff no cycle.
ValidateSourceGraph(m, u) ==
  LET all == 1..Known(m, u)
      degree(s, done) == Cardinality({t \in all \ done : s \in ToSet(IncludesOf(m, u, t))})
      free(done) == {s \in all \ done : degree(s, done) = 0}
      reached == FoldLeft(LAMBDA done, n : done \cup free(done), {}, SlotsFrom(1, Known(m, u)))
  IN IF reached = all THEN "ok" ELSE "semantic_conflict"

\* validate_changed_source_graph: a new cycle passes through a Source whose
\* includes changed, so it is enough to look for a way from each back to it.
ValidateChangedSourceGraph(m, u, changed) ==
  LET from(s) == Explore(IncludesOf(m, u, s), Known(m, u), LAMBDA x : IncludesOf(m, u, x)) IN
  IF \E i \in DOMAIN changed : changed[i] \in ToSet(from(changed[i]))
  THEN "semantic_conflict" ELSE "ok"

----------------------------------------------------------------------------
(* Publication.                                                            *)

\* The edge patches of one candidate: includes that went, then those that came.
EdgePatches(m, c) ==
  LET before == Includes(m, c.source)
      gone == SelectSeq(before, LAMBDA t : t \notin ToSet(c.includes))
      came == SelectSeq(c.includes, LAMBDA t : t \notin ToSet(before))
      patch(t, add) == [target |-> t, dependent |-> c.source, add |-> add]
  IN IF ~c.has_includes THEN <<>>
     ELSE [i \in DOMAIN gone |-> patch(gone[i], FALSE)]
            \o [i \in DOMAIN came |-> patch(came[i], TRUE)]

\* A dependent is added at the end; the last one takes the place of one that
\* is removed, so the order of dependents is the history of edits.
PatchedDependents(dependents, p) ==
  LET at == {i \in DOMAIN dependents : dependents[i] = p.dependent} IN
  IF p.add THEN IF at = {} THEN Append(dependents, p.dependent) ELSE dependents
  ELSE IF at = {} THEN dependents
  ELSE Front([dependents EXCEPT ![CHOOSE i \in at : TRUE] = Last(dependents)])

\* Mutant: a target that already has candidate dependents is read again from
\* the committed graph.
ApplyEdgePatchCommitted(m, u, p) ==
  TouchCandidate(u, [Candidate(u, p.target) EXCEPT !.has_dependents = TRUE,
              !.dependents = PatchedDependents(Dependents(m, p.target), p)])

ApplyEdgePatch(m, u, p) ==
  LET c == Candidate(u, p.target)
      before == IF c.has_dependents THEN c.dependents ELSE Dependents(m, p.target)
  IN TouchCandidate(u, [c EXCEPT !.has_dependents = TRUE, !.dependents = PatchedDependents(before, p)])

PrepareDependentPatches(m, u) ==
  LET patches == FlattenSeq([i \in DOMAIN u.candidates |-> EdgePatches(m, u.candidates[i])])
  IN FoldLeft(LAMBDA v, p : ApplyEdgePatch(m, v, p), u, patches)

Bytes(snapshot) == IF snapshot = NoSnapshot THEN 0 ELSE TextLength[snapshot.text]

\* Mutant: the previous text of a replaced Source stays counted.
PreparedTextBytesKept(m, u) ==
  FoldLeft(LAMBDA total, c : IF c.has_snapshot THEN total + Bytes(c.snapshot) ELSE total,
           m.text_bytes, u.candidates)

\* The text bytes a generation will persist: out with the previous snapshot of
\* every candidate, in with the new one.
PreparedTextBytes(m, u) ==
  FoldLeft(LAMBDA total, c :
             IF c.has_snapshot
             THEN total - Bytes(Current(m, c.source)) + Bytes(c.snapshot) ELSE total,
           m.text_bytes, u.candidates)

\* build_prepared_path_index: all local records and the new ones.
PreparedPathIndex(m, u) ==
  LET local == SlotsFrom(m.baseline + 1, Known(m, u)) IN
  InsertAll(EmptyIndex(Slots(Len(local))),
            [i \in DOMAIN local |-> [hash |-> PathHash[PathOf(m, u, local[i])], id |-> local[i]]])

NoGraphRecord == [includes |-> NoRange, dependents |-> NoRange]

\* publish_includes and publish_dependents append to the arena and repoint.
PublishEdges(m, c) ==
  LET s == c.source
      added(arena, edges) == [begin |-> Len(arena), count |-> Len(edges)]
      forwarded == IF c.has_includes
                   THEN [m EXCEPT !.forward = @ \o c.includes,
                                  !.graph[s].includes = added(m.forward, c.includes)]
                   ELSE m
  IN IF c.has_dependents
     THEN [forwarded EXCEPT !.reverse = @ \o c.dependents,
                            !.graph[s].dependents = added(m.reverse, c.dependents)]
     ELSE forwarded

PublishCandidate(m, c) ==
  PublishEdges(IF c.has_snapshot THEN [m EXCEPT !.snapshots[c.source] = c.snapshot] ELSE m, c)

\* prepare_publish and publish_prepared on an empty manager or one that is
\* backed by a mapped baseline.
Publish(m, u) ==
  LET p == PrepareDependentPatches(m, u)
      grown == [m EXCEPT
                  !.paths = @ \o u.new,
                  !.snapshots = @ \o [i \in DOMAIN u.new |-> NoSnapshot],
                  !.graph = @ \o [i \in DOMAIN u.new |-> NoGraphRecord],
                  !.index = IF u.new = <<>> THEN @ ELSE PreparedPathIndex(m, u),
                  !.text_bytes = PreparedTextBytes(m, p)]
  IN FoldLeft(PublishCandidate, grown, p.candidates)
============================================================================
