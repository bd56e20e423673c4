----------------------- MODULE IncrementalBuild_proofs -----------------------
(***************************************************************************)
(* BUILD publishes nothing stale and the journal loses no edit, for any    *)
(* number of managers, Sources, edits and journal faults, as long as an    *)
(* edit changes the stamp of the file it makes.                            *)
(***************************************************************************)
EXTENDS IncrementalBuild, SequenceTheorems, TLAPS

(* A snapshot of path s: without a reference it is of no file, and its     *)
(* stamp tells whether it is of the file that is there now.                *)
SnapOK(x, s) ==
    /\ x.ref = NoRef => x = Nothing
    /\ x.stamp <= edits
    /\ x # Nothing /\ file[s] # Nothing /\ x.stamp = file[s].stamp => x = file[s]

SnapsOK(snap) == \A s \in Sources : SnapOK(snap[s], s)

(* A checkpoint is of this journal or of an earlier one.                   *)
CheckOK(c) == c.id <= journalId /\ InJournal(c)

(* What the journal tells of g, about Source s: the file is as g has it,   *)
(* or it is the same file and a record names it.                           *)
Named(g, s) == \E r \in Since(g) : About(g, r, s)

Kept(g, s) ==
    \/ g.snap[s] = file[s]
    \/ g.snap[s].ref = file[s].ref /\ Named(g, s)

(* A generation can be brought up to date from the journal, if that can be *)
(* read and shows no topology change.                                      *)
Tracked(g) ==
    Told(g) =>
        /\ directory \in g.dirs
        /\ \A s \in Sources : g.snap[s].ref = NoRef => directory \in g.arrivals
        /\ \A s \in Sources : Kept(g, s)

GenerationOK(g) == SnapsOK(g.snap) /\ CheckOK(g.checkpoint) /\ Tracked(g)

(* The same of a construction whose Sources outside todo were acquired     *)
(* since its checkpoint: the journal will show a topology change of the    *)
(* Generation it publishes, or those Sources are kept.                     *)
Swapped(g) == Moved(directory) \in Since(g)

TopologyWill(g, done) ==
    \/ Swapped(g)
    \/ \E s \in done : \E r \in Since(g) : r.kind \in {"topology", "arrival"} /\ About(g, r, s)
    \/ /\ \E s \in done : g.snap[s].ref = NoRef
       /\ \E r \in Since(g) : r.kind = "arrival" /\ r.dir = directory

TrackedSoFar(g) ==
    LET done == Sources \ g.todo
    IN  Readable(g) =>
          /\ TopologyWill(g, done) \/ \A s \in done : Kept(g, s)
          /\ \A s \in done : g.snap[s].ref = NoRef =>
                \/ Swapped(g)
                \/ directory \in g.base.arrivals
                \/ s \in g.physical

(* Where a session is in BUILD, what it has is what the files held.        *)
Fresh(m, snap, S) == \A s \in S : snap[s].content \in seen[m][s]

SessionOK(m, g) ==
    /\ SnapsOK(g.snap)
    /\ CheckOK(g.checkpoint)
    /\ GenerationOK(g.base)
    /\ g.pc \notin {"unloaded", "ready"} => Fresh(m, file, Sources)
    /\ g.pc \in {"detect", "scan"} => g.base # NoBaseline /\ g.snap = g.base.snap
    /\ g.pc = "scan" =>
         /\ g.checkpoint = NoCheckpoint
         /\ Fresh(m, g.base.snap, Sources \ (g.todo \cup g.dirty))
    /\ g.pc = "activate" => Fresh(m, g.base.snap, Sources)
    /\ g.pc = "acquire" =>
         /\ \A s \in g.todo : g.snap[s] = g.base.snap[s]
         /\ Fresh(m, g.snap, Sources \ g.todo)
         /\ \A s \in Sources \ (g.todo \cup g.semantic) :
               g.snap[s].content = g.base.snap[s].content
         /\ g.base = NoBaseline => \A s \in Sources \ g.todo : g.snap[s].ref # NoRef
         /\ TrackedSoFar(g)
    /\ g.pc = "ready" => Tracked(g) /\ (g.built => Fresh(m, g.snap, Sources))

IndInv ==
    /\ TypeOK
    /\ journalId <= faults + 1
    /\ SnapsOK(file)
    /\ \A g \in {current} : GenerationOK(g)
    /\ \A m \in Managers : \A g \in {session[m]} : SessionOK(m, g)

-----------------------------------------------------------------------------
(* Types                                                                   *)

(* The reference of a file is never the missing one.                       *)
LEMMA PairIsNoRef == \A s, k : <<s, k>> # NoRef
BY DEF NoRef

(* The values that stand for no file, no checkpoint and no baseline.       *)
LEMMA Constants ==
    /\ Nothing \in Snapshots /\ Nothing.ref = NoRef /\ Nothing.stamp = 0 /\ Nothing.content = Absent
    /\ NoCheckpoint \in Checkpoint
    /\ NoBaseline \in Baselines
    /\ NoBaseline.snap = [s \in Sources |-> Nothing]
    /\ NoBaseline.checkpoint = NoCheckpoint
    /\ NoBaseline.arrivals = {}
<1>1. Nothing \in Snapshots /\ Nothing.ref = NoRef /\ Nothing.stamp = 0 /\ Nothing.content = Absent
  BY BuildAssumption DEF Nothing, Snapshots, Refs
<1>2. NoCheckpoint \in Checkpoint
  BY BuildAssumption DEF NoCheckpoint, Checkpoint
<1>3. [s \in Sources |-> Nothing] \in [Sources -> Snapshots]
  BY <1>1
<1>4. NoBaseline \in Baselines
  BY <1>2, <1>3, BuildAssumption DEF NoBaseline, Baselines
<1> QED BY <1>1, <1>2, <1>4 DEF NoBaseline

(* An unloaded session is a session.                                       *)
LEMMA UnloadedType ==
    /\ Unloaded \in Sessions
    /\ Unloaded.pc = "unloaded" /\ Unloaded.base = NoBaseline /\ Unloaded.checkpoint = NoCheckpoint
    /\ Unloaded.snap = [s \in Sources |-> Nothing]
<1>1. [s \in Sources |-> Nothing] \in [Sources -> Snapshots]
  BY Constants
<1> QED BY <1>1, Constants, BuildAssumption DEF Unloaded, Sessions

(* The fields of a session.                                                *)
LEMMA SessionFields ==
    ASSUME NEW g \in Sessions
    PROVE  /\ g.base \in Baselines
           /\ g.base.snap \in [Sources -> Snapshots] /\ g.base.checkpoint \in Checkpoint
           /\ g.snap \in [Sources -> Snapshots]
           /\ g.checkpoint \in Checkpoint /\ g.todo \subseteq Sources /\ g.dirty \subseteq Sources
           /\ g.physical \subseteq Sources /\ g.semantic \subseteq Sources
BY DEF Sessions, Baselines

(* So is one that begins a BUILD.                                          *)
LEMMA Starts ==
    ASSUME NEW b \in Baselines, NEW g, g = [Unloaded EXCEPT !.pc = "capture", !.base = b]
    PROVE  /\ g \in Sessions
           /\ g.pc = "capture" /\ g.base = b /\ g.checkpoint = NoCheckpoint
           /\ g.snap = [s \in Sources |-> Nothing]
BY UnloadedType DEF Sessions

(* So is one that falls back to the scan.                                 *)
LEMMA Falls ==
    ASSUME NEW me \in Sessions, NEW g,
           g = [me EXCEPT !.pc = "scan", !.checkpoint = NoCheckpoint, !.todo = Sources]
    PROVE  /\ g \in Sessions
           /\ g.pc = "scan" /\ g.checkpoint = NoCheckpoint /\ g.todo = Sources
           /\ g.snap = me.snap /\ g.base = me.base
BY Constants DEF Sessions

Published(n) ==
    [n EXCEPT !.pc = "ready", !.base = NoBaseline, !.physical = {}, !.semantic = {}, !.built = TRUE]

-----------------------------------------------------------------------------
(* Edits                                                                   *)

(* The edit appends the record r.                                          *)
Has(n, r) == \E i \in 1..Len(n) : n[i] = r

(* What an edit that appends the records n does at path s: a change leaves *)
(* a record that names the file that was there, or the arrival of one in   *)
(* the directory, or the move of the directory.                            *)
PathMove(s, n) ==
    /\ \/ file'[s] = file[s]
       \/ file'[s].ref = file[s].ref /\ file[s].ref # NoRef /\ Has(n, Record("data", file[s].ref))
       \/ file[s].ref # NoRef /\ Has(n, Record("topology", file[s].ref))
       \/ file[s].ref = NoRef /\ \E ref : Has(n, Record("arrival", ref))
       \/ Has(n, Moved(directory))
    /\ \/ file'[s] = file[s]
       \/ file'[s] = Nothing
       \/ file'[s].stamp = edits + 1 /\ file'[s].ref # NoRef

TreeMove(n) ==
    /\ n \in Seq(Records)
    /\ journal' = journal \o n
    /\ \A s \in Sources : PathMove(s, n)
    /\ \/ directory' = directory
       \/ Has(n, Moved(directory)) /\ Has(n, Moved(directory'))
    /\ file' \in [Sources -> Snapshots]
    /\ directory' \in 0..MaxEdits
    /\ edits' = edits + 1 /\ edits < MaxEdits
    /\ UNCHANGED <<firstUsn, journalId, faults, current, session>>
    /\ seen' = [m \in Managers |-> [s \in Sources |->
                   IF Building(m) THEN seen[m][s] \cup {file'[s].content} ELSE seen[m][s]]]

(* The records of a replacement, as one sequence.                          *)
LEMMA Joined ==
    ASSUME NEW q, NEW r
    PROVE  <<>> \o <<r>> = <<r>> /\ <<q>> \o <<r>> = <<q, r>>
<1>1. <<>> \o <<r>> = <<r>>
  <2>1. <<r>> \in Seq({r})
    OBVIOUS
  <2> QED BY <2>1
<1>2. <<q>> \o <<r>> = <<q, r>>
  <2> DEFINE S == {q, r}
  <2>1. <<q>> \in Seq(S) /\ <<r>> \in Seq(S) /\ <<q, r>> \in Seq(S) /\ <<q>> \o <<r>> \in Seq(S)
    OBVIOUS
  <2>2. Len(<<q>> \o <<r>>) = 2 /\ (<<q>> \o <<r>>)[1] = q /\ (<<q>> \o <<r>>)[2] = r
    BY <2>1
  <2>3. Len(<<q, r>>) = 2 /\ <<q, r>>[1] = q /\ <<q, r>>[2] = r
    OBVIOUS
  <2>4. \A i \in 1..2 : (<<q>> \o <<r>>)[i] = <<q, r>>[i]
    BY <2>2, <2>3
  <2> HIDE DEF S
  <2> QED BY <2>1, <2>2, <2>3, <2>4, SeqEqual
<1> QED BY <1>1, <1>2

(* Every edit moves the tree as TreeMove says.                             *)
LEMMA EditMoves ==
    ASSUME IndInv, SameStampWrites = FALSE, EditTree
    PROVE  \E n : TreeMove(n)
<1>0. /\ file \in [Sources -> Snapshots] /\ directory \in 0..MaxEdits /\ edits \in 0..MaxEdits
      /\ MaxEdits \in Nat
      /\ \A s \in Sources : file[s].ref = NoRef => file[s] = Nothing
  BY BuildAssumption DEF IndInv, TypeOK, SnapsOK, SnapOK
<1>a. ASSUME NEW ref \in Refs, NEW kind \in {"data", "topology", "arrival"}
      PROVE  Record(kind, ref) \in Records
  BY <1>0 DEF Record, Records
<1>b. \A s \in Sources : file[s].ref \in Refs
  BY <1>0 DEF Snapshots
<1>c. \A r : Has(<<r>>, r)
  BY DEF Has
<1>d. \A r, q : Has(<<r, q>>, r) /\ Has(<<r, q>>, q)
  <2> SUFFICES ASSUME NEW r, NEW q
               PROVE  Has(<<r, q>>, r) /\ Has(<<r, q>>, q)
    OBVIOUS
  <2>1. Len(<<r, q>>) = 2 /\ <<r, q>>[1] = r /\ <<r, q>>[2] = q
    OBVIOUS
  <2> QED BY <2>1 DEF Has
<1>1. ASSUME NEW s \in Sources, NEW c \in Contents, NEW t \in 0..MaxEdits, Write(s, c, t)
      PROVE  \E n : TreeMove(n)
  <2> DEFINE n == <<Record("data", file[s].ref)>>
             x == [file[s] EXCEPT !.content = c, !.stamp = t]
  <2>1. t = edits + 1 /\ edits < MaxEdits /\ file[s] # Nothing
    BY <1>1 DEF Write, Stamps, Edit
  <2>2. n \in Seq(Records)
    BY <1>a, <1>b
  <2>3. x \in Snapshots /\ x.ref = file[s].ref /\ x.stamp = edits + 1
    BY <1>0, <2>1 DEF Snapshots
  <2>4. file' = [file EXCEPT ![s] = x]
    BY <1>0, <1>1 DEF Write, Edit, Snapshots
  <2>5. Has(n, Record("data", file[s].ref))
    BY <1>c
  <2>6. /\ journal' = journal \o n /\ edits' = edits + 1
        /\ UNCHANGED <<directory, firstUsn, journalId, faults, current, session>>
        /\ seen' = [m \in Managers |-> [p \in Sources |->
                       IF Building(m) THEN seen[m][p] \cup {file'[p].content} ELSE seen[m][p]]]
    BY <1>1 DEF Write, Edit
  <2> HIDE DEF n, x
  <2>7. \A p \in Sources : PathMove(p, n)
    BY <1>0, <2>1, <2>3, <2>4, <2>5 DEF PathMove
  <2> QED BY <1>0, <2>1, <2>2, <2>3, <2>4, <2>6, <2>7 DEF TreeMove
<1>2. ASSUME NEW s \in Sources, NEW c \in Contents, NEW t \in 0..MaxEdits, Replace(s, c, t)
      PROVE  \E n : TreeMove(n)
  <2> DEFINE ref == <<s, edits + 1>>
             x == [content |-> c, stamp |-> t, ref |-> ref]
             r == Record("arrival", ref)
             q == Record("topology", file[s].ref)
             n == IF file[s] = Nothing THEN <<r>> ELSE <<q, r>>
  <2>1. t = edits + 1 /\ edits < MaxEdits
    BY <1>2 DEF Replace, Stamps, Edit
  <2>2. ref \in Refs /\ ref # NoRef
    BY <1>0, <2>1, PairIsNoRef DEF Refs
  <2>3. n \in Seq(Records)
    <3>1. r \in Records /\ q \in Records
      BY <1>a, <1>b, <2>2
    <3> QED BY <3>1
  <2>4. x \in Snapshots /\ x.stamp = edits + 1 /\ x.ref # NoRef
    BY <1>0, <2>1, <2>2 DEF Snapshots
  <2>5. file' = [file EXCEPT ![s] = x]
    BY <1>2 DEF Replace, Edit
  <2>6. (IF file[s] = Nothing THEN <<>> ELSE <<q>>) \o <<r>> = n
    <3> HIDE DEF q, r
    <3> QED BY Joined
  <2>7. /\ journal' = journal \o n /\ edits' = edits + 1
        /\ UNCHANGED <<directory, firstUsn, journalId, faults, current, session>>
        /\ seen' = [m \in Managers |-> [p \in Sources |->
                       IF Building(m) THEN seen[m][p] \cup {file'[p].content} ELSE seen[m][p]]]
    <3>1. journal' = journal \o ((IF file[s] = Nothing THEN <<>> ELSE <<q>>) \o <<r>>)
      BY <1>2 DEF Replace, Edit
    <3>2. journal' = journal \o n
      BY <2>6, <3>1
    <3> HIDE DEF n
    <3> QED BY <1>2, <3>2 DEF Replace, Edit
  <2>8. /\ file[s] = Nothing => file[s].ref = NoRef /\ Has(n, r)
        /\ file[s] # Nothing => file[s].ref # NoRef /\ Has(n, q)
    <3> HIDE DEF q, r
    <3> QED BY <1>0, <1>c, <1>d, Constants
  <2> HIDE DEF n, x
  <2>9. \A p \in Sources : PathMove(p, n)
    <3>1. PathMove(s, n)
      BY <1>0, <2>4, <2>5, <2>8 DEF PathMove
    <3> QED BY <1>0, <2>5, <3>1 DEF PathMove
  <2> QED BY <1>0, <2>1, <2>3, <2>4, <2>5, <2>7, <2>9 DEF TreeMove
<1>3. ASSUME NEW s \in Sources, Delete(s)
      PROVE  \E n : TreeMove(n)
  <2> DEFINE n == <<Record("topology", file[s].ref)>>
  <2>1. edits < MaxEdits /\ file[s].ref # NoRef
    BY <1>0, <1>3 DEF Delete, Edit
  <2>2. n \in Seq(Records)
    BY <1>a, <1>b
  <2>3. file' = [file EXCEPT ![s] = Nothing]
    BY <1>3 DEF Delete, Edit
  <2>4. Has(n, Record("topology", file[s].ref))
    BY <1>c
  <2>5. /\ journal' = journal \o n /\ edits' = edits + 1
        /\ UNCHANGED <<directory, firstUsn, journalId, faults, current, session>>
        /\ seen' = [m \in Managers |-> [p \in Sources |->
                       IF Building(m) THEN seen[m][p] \cup {file'[p].content} ELSE seen[m][p]]]
    BY <1>3 DEF Delete, Edit
  <2> HIDE DEF n
  <2>6. \A p \in Sources : PathMove(p, n)
    BY <1>0, <2>1, <2>3, <2>4 DEF PathMove
  <2> QED BY <1>0, <2>1, <2>2, <2>3, <2>5, <2>6, Constants DEF TreeMove
<1>4. ASSUME NEW c \in Contents, SwapDirectory(c)
      PROVE  \E n : TreeMove(n)
  <2> DEFINE n == <<Moved(directory), Moved(edits + 1)>>
             new == [s \in Sources |-> [content |-> c, stamp |-> edits + 1, ref |-> <<s, edits + 1>>]]
  <2>1. edits < MaxEdits /\ file' = new /\ directory' = edits + 1
    BY <1>4 DEF SwapDirectory, Edit
  <2>2. Moved(directory) \in Records /\ Moved(edits + 1) \in Records
    BY <1>0, <2>1 DEF Moved, Records, Refs
  <2>3. n \in Seq(Records) /\ Has(n, Moved(directory)) /\ Has(n, Moved(edits + 1))
    BY <1>d, <2>2
  <2>4. \A s \in Sources : new[s] \in Snapshots /\ new[s].stamp = edits + 1 /\ new[s].ref # NoRef
    BY <1>0, <2>1, PairIsNoRef DEF Snapshots, Refs
  <2>5. /\ journal' = journal \o n /\ edits' = edits + 1
        /\ UNCHANGED <<firstUsn, journalId, faults, current, session>>
        /\ seen' = [m \in Managers |-> [p \in Sources |->
                       IF Building(m) THEN seen[m][p] \cup {file'[p].content} ELSE seen[m][p]]]
    BY <1>4 DEF SwapDirectory, Edit
  <2>6. new \in [Sources -> Snapshots]
    BY <2>4
  <2>7. edits + 1 \in 0..MaxEdits
    BY <1>0, <2>1
  <2> HIDE DEF n, new
  <2>8. \A p \in Sources : PathMove(p, n)
    BY <2>1, <2>3, <2>4 DEF PathMove
  <2> QED BY <1>0, <2>1, <2>3, <2>5, <2>6, <2>7, <2>8 DEF TreeMove
<1> QED BY <1>1, <1>2, <1>3, <1>4 DEF EditTree

(* The records since a checkpoint are those there were, and the new ones.  *)
LEMMA SinceGrows ==
    ASSUME TypeOK, NEW n, TreeMove(n), NEW g, g.checkpoint.usn \in Nat,
           g.checkpoint.usn <= Len(journal)
    PROVE  /\ Since(g) \subseteq Since(g)'
           /\ \A r : Has(n, r) => r \in Since(g)'
<1> DEFINE u == g.checkpoint.usn
<1>0. /\ journal \in Seq(Records) /\ n \in Seq(Records) /\ journal' = journal \o n
      /\ firstUsn \in 0..Len(journal) /\ firstUsn' = firstUsn /\ u \in Nat /\ u <= Len(journal)
  BY DEF TypeOK, TreeMove
<1>1. /\ Len(journal') = Len(journal) + Len(n) /\ Len(journal) \in Nat /\ Len(n) \in Nat
      /\ \A i \in 1..(Len(journal) + Len(n)) :
            journal'[i] = IF i <= Len(journal) THEN journal[i] ELSE n[i - Len(journal)]
  BY <1>0, ConcatProperties
<1>2. Since(g)' = {journal'[i] : i \in {k \in 1..Len(journal') : firstUsn' < k /\ u < k}}
  BY DEF Since
<1>3. Since(g) = {journal[i] : i \in {k \in 1..Len(journal) : firstUsn < k /\ u < k}}
  BY DEF Since
<1> HIDE DEF u
<1>4. ASSUME NEW i \in 1..Len(journal), firstUsn < i, u < i
      PROVE  journal[i] \in Since(g)'
  <2>1. i \in 1..Len(journal') /\ journal'[i] = journal[i] /\ firstUsn' < i
    BY <1>0, <1>1, <1>4
  <2> QED BY <1>2, <1>4, <2>1
<1>5. ASSUME NEW i \in 1..Len(n)
      PROVE  n[i] \in Since(g)'
  <2> DEFINE k == Len(journal) + i
  <2>1. k \in 1..Len(journal') /\ firstUsn' < k /\ u < k /\ ~(k <= Len(journal))
    BY <1>0, <1>1
  <2>2. k - Len(journal) = i
    BY <1>1
  <2>3. journal'[k] = n[i]
    BY <1>1, <2>1, <2>2
  <2> QED BY <1>2, <2>1, <2>3
<1> QED BY <1>3, <1>4, <1>5 DEF Has

(* A checkpoint stays one of this journal or of an earlier one, and what   *)
(* can be read after an edit could be read before it.                      *)
LEMMA EditCheck ==
    ASSUME TypeOK, NEW n, TreeMove(n), NEW c \in Checkpoint, CheckOK(c)
    PROVE  CheckOK(c)'
<1>1. Len(journal) \in Nat /\ Len(journal') = Len(journal) + Len(n) /\ Len(n) \in Nat
  BY ConcatProperties DEF TypeOK, TreeMove
<1> QED BY <1>1 DEF CheckOK, InJournal, TreeMove, Checkpoint

(* The journal can be read since a checkpoint after an edit only if it     *)
(* could be read before.                                                   *)
LEMMA EditReadable ==
    ASSUME TypeOK, NEW n, TreeMove(n), NEW g, g.checkpoint \in Checkpoint, CheckOK(g.checkpoint),
           Readable(g)'
    PROVE  /\ Readable(g)
           /\ Since(g) \subseteq Since(g)'
           /\ \A r : Has(n, r) => r \in Since(g)'
<1>1. Readable(g)
  BY DEF Readable, CheckOK, InJournal, TreeMove
<1>2. g.checkpoint.usn \in Nat /\ g.checkpoint.usn <= Len(journal)
  BY <1>1 DEF Readable, Checkpoint
<1> QED BY <1>1, <1>2, SinceGrows

(* A snapshot from before an edit is not taken for the file the edit made: *)
(* the stamp is new.                                                       *)
LEMMA EditSnap ==
    ASSUME TypeOK, NEW n, TreeMove(n), NEW s \in Sources, NEW x \in Snapshots, SnapOK(x, s)
    PROVE  SnapOK(x, s)'
<1>1. x.stamp \in Nat /\ edits \in Nat /\ x.stamp <= edits /\ edits' = edits + 1
  BY DEF TypeOK, TreeMove, Snapshots, SnapOK
<1>2. \/ file'[s] = file[s]
      \/ file'[s] = Nothing
      \/ file'[s].stamp = edits + 1
  BY DEF TreeMove, PathMove
<1> QED BY <1>1, <1>2 DEF SnapOK

(* Files keep telling themselves apart by their stamps.                    *)
LEMMA EditFiles ==
    ASSUME TypeOK, SnapsOK(file), NEW n, TreeMove(n)
    PROVE  SnapsOK(file)'
<1> SUFFICES ASSUME NEW s \in Sources
             PROVE  SnapOK(file[s], s)'
  BY DEF SnapsOK
<1>1. edits \in Nat /\ edits' = edits + 1
  BY DEF TypeOK, TreeMove
<1>2. file[s].stamp \in Nat /\ file[s].stamp <= edits /\ (file[s].ref = NoRef => file[s] = Nothing)
  BY DEF SnapsOK, SnapOK, TypeOK, Snapshots
<1>3. \/ file'[s] = file[s]
      \/ file'[s] = Nothing
      \/ file'[s].stamp = edits + 1 /\ file'[s].ref # NoRef
  BY DEF TreeMove, PathMove
<1> QED BY <1>1, <1>2, <1>3, Constants DEF SnapOK

(* A Source that was kept is kept, or the journal shows why not.           *)
LEMMA EditKept ==
    ASSUME TypeOK, SnapsOK(file), NEW n, TreeMove(n), NEW g, g.checkpoint \in Checkpoint,
           CheckOK(g.checkpoint), Readable(g)', NEW s \in Sources, Kept(g, s)
    PROVE  \/ Kept(g, s)'
           \/ \E r \in Since(g)' : r.kind = "topology" /\ About(g, r, s)
           \/ g.snap[s].ref = NoRef /\ \E r \in Since(g)' : r.kind = "arrival" /\ r.dir = directory
           \/ Moved(directory) \in Since(g)'
<1>0. Since(g) \subseteq Since(g)' /\ \A r : Has(n, r) => r \in Since(g)'
  BY EditReadable
<1>1. g.snap[s].ref = file[s].ref
  BY DEF Kept
<1>2. CASE file'[s] = file[s]
  BY <1>0, <1>2 DEF Kept, Named
<1>3. CASE file'[s].ref = file[s].ref /\ Has(n, Record("data", file[s].ref))
  <2>1. Record("data", file[s].ref) \in Since(g)' /\ About(g, Record("data", file[s].ref), s)
    BY <1>0, <1>1, <1>3 DEF About, Record
  <2> QED BY <1>1, <1>3, <2>1 DEF Kept, Named
<1>4. CASE Has(n, Record("topology", file[s].ref))
  <2>1. Record("topology", file[s].ref) \in Since(g)' /\ About(g, Record("topology", file[s].ref), s)
    BY <1>0, <1>1, <1>4 DEF About, Record
  <2>2. Record("topology", file[s].ref).kind = "topology"
    BY DEF Record
  <2> QED BY <2>1, <2>2
<1>5. ASSUME file[s].ref = NoRef, NEW ref, Has(n, Record("arrival", ref))
      PROVE  g.snap[s].ref = NoRef /\ \E r \in Since(g)' : r.kind = "arrival" /\ r.dir = directory
  <2>1. Record("arrival", ref) \in Since(g)'
    BY <1>0, <1>5
  <2>2. Record("arrival", ref).kind = "arrival" /\ Record("arrival", ref).dir = directory
    BY DEF Record
  <2> QED BY <1>1, <1>5, <2>1, <2>2
<1> QED BY <1>0, <1>2, <1>3, <1>4, <1>5 DEF TreeMove, PathMove

(* A record about a moved directory.                                       *)
LEMMA MovedFields ==
    \A d : Moved(d).kind = "directory" /\ Moved(d).dir = d
BY DEF Moved

(* A tracked generation stays tracked through an edit: what the edit       *)
(* changes, its records show.                                              *)
LEMMA EditTracked ==
    ASSUME TypeOK, SnapsOK(file), NEW n, TreeMove(n), NEW g, g.checkpoint \in Checkpoint,
           CheckOK(g.checkpoint), Tracked(g)
    PROVE  Tracked(g)'
<1> SUFFICES ASSUME Told(g)'
             PROVE  /\ directory' \in g.dirs
                    /\ \A s \in Sources : g.snap[s].ref = NoRef => directory' \in g.arrivals
                    /\ \A s \in Sources : Kept(g, s)'
  BY DEF Tracked
<1>0. Readable(g)' /\ ~TopologyChanged(g)'
  BY DEF Told
<1>1. Readable(g) /\ Since(g) \subseteq Since(g)' /\ \A r : Has(n, r) => r \in Since(g)'
  BY <1>0, EditReadable
<1>2. \A r \in Since(g)' :
        /\ ~(r.kind = "directory" /\ r.dir \in g.dirs)
        /\ ~(r.kind = "arrival" /\ r.dir \in g.arrivals)
        /\ ~(r.kind \in {"topology", "arrival"} /\ \E s \in Sources : About(g, r, s))
  BY <1>0 DEF TopologyChanged, About
<1>3. ~TopologyChanged(g)
  BY <1>1, <1>2 DEF TopologyChanged
<1>4. /\ directory \in g.dirs
      /\ \A s \in Sources : g.snap[s].ref = NoRef => directory \in g.arrivals
      /\ \A s \in Sources : Kept(g, s)
  BY <1>1, <1>3 DEF Tracked, Told
<1>5. Moved(directory) \notin Since(g)'
  BY <1>2, <1>4, MovedFields
<1>6. directory' = directory
  BY <1>1, <1>5 DEF TreeMove
<1>7. \A s \in Sources : Kept(g, s)'
  BY <1>0, <1>2, <1>4, <1>5, EditKept
<1> QED BY <1>4, <1>6, <1>7

(* So does what a construction has acquired so far.                        *)
LEMMA EditTrackedSoFar ==
    ASSUME TypeOK, SnapsOK(file), NEW n, TreeMove(n), NEW g, g.checkpoint \in Checkpoint,
           CheckOK(g.checkpoint), TrackedSoFar(g)
    PROVE  TrackedSoFar(g)'
<1> DEFINE done == Sources \ g.todo
<1> SUFFICES ASSUME Readable(g)'
             PROVE  /\ TopologyWill(g, done)' \/ \A s \in done : Kept(g, s)'
                    /\ \A s \in done : g.snap[s].ref = NoRef =>
                         Swapped(g)' \/ directory' \in g.base.arrivals \/ s \in g.physical
  BY DEF TrackedSoFar
<1>1. Readable(g) /\ Since(g) \subseteq Since(g)' /\ \A r : Has(n, r) => r \in Since(g)'
  BY EditReadable
<1>2. /\ TopologyWill(g, done) \/ \A s \in done : Kept(g, s)
      /\ \A s \in done : g.snap[s].ref = NoRef =>
           Swapped(g) \/ directory \in g.base.arrivals \/ s \in g.physical
  BY <1>1 DEF TrackedSoFar
<1>3. CASE directory' # directory
  <2>1. Has(n, Moved(directory'))
    BY <1>3 DEF TreeMove
  <2>2. Swapped(g)'
    BY <1>1, <2>1 DEF Swapped
  <2> QED BY <2>2 DEF TopologyWill
<1>4. CASE directory' = directory
  <2>1. Swapped(g) => Swapped(g)'
    BY <1>1, <1>4 DEF Swapped
  <2>2. CASE TopologyWill(g, done)
    <3>1. TopologyWill(g, done)'
      BY <1>1, <1>4, <2>1, <2>2 DEF TopologyWill, About
    <3> QED BY <1>2, <1>4, <2>1, <3>1
  <2>3. CASE \A s \in done : Kept(g, s)
    <3>1. ASSUME NEW s \in done, ~Kept(g, s)'
          PROVE  TopologyWill(g, done)'
      <4>1. CASE \E r \in Since(g)' : r.kind = "topology" /\ About(g, r, s)
        BY <4>1 DEF TopologyWill, About
      <4>2. CASE g.snap[s].ref = NoRef /\ \E r \in Since(g)' : r.kind = "arrival" /\ r.dir = directory
        BY <1>4, <4>2 DEF TopologyWill
      <4>3. CASE Moved(directory) \in Since(g)'
        BY <1>4, <4>3 DEF TopologyWill, Swapped
      <4> QED BY <2>3, <3>1, <4>1, <4>2, <4>3, EditKept
    <3> QED BY <1>2, <1>4, <2>1, <3>1
  <2> QED BY <1>2, <2>2, <2>3
<1> QED BY <1>3, <1>4

-----------------------------------------------------------------------------
(* Steps that leave the tree alone                                         *)

(* The journal is as it was, or has lost records or been re-created.       *)
JournalMove ==
    /\ UNCHANGED <<file, directory, edits>>
    /\ \/ UNCHANGED <<journal, firstUsn, journalId>>
       \/ UNCHANGED <<journal, journalId>> /\ firstUsn' \in firstUsn..Len(journal)
       \/ journalId' = journalId + 1 /\ journal' = <<>> /\ firstUsn' = 0

(* Journal faults leave every checkpoint one of this journal or of an      *)
(* earlier one.                                                            *)
LEMMA StillCheck ==
    ASSUME TypeOK, JournalMove, NEW c \in Checkpoint, CheckOK(c)
    PROVE  CheckOK(c)'
BY DEF TypeOK, JournalMove, CheckOK, InJournal, Checkpoint

(* What can be read after such a step is what could be read before it.     *)
LEMMA StillReadable ==
    ASSUME TypeOK, JournalMove, NEW g, g.checkpoint \in Checkpoint, CheckOK(g.checkpoint),
           Readable(g)'
    PROVE  Readable(g) /\ Since(g)' = Since(g)
<1>0. /\ journalId \in Nat /\ firstUsn \in Nat /\ g.checkpoint.id \in Nat /\ g.checkpoint.usn \in Nat
      /\ g.checkpoint.id <= journalId /\ Len(journal) \in Nat
  BY DEF TypeOK, Checkpoint, CheckOK
<1>1. CASE UNCHANGED <<journal, firstUsn, journalId>>
  BY <1>1 DEF Readable, Since
<1>2. CASE UNCHANGED <<journal, journalId>> /\ firstUsn' \in firstUsn..Len(journal)
  <2>1. firstUsn' <= g.checkpoint.usn /\ firstUsn <= g.checkpoint.usn /\ firstUsn' \in Nat
    BY <1>0, <1>2 DEF Readable
  <2>2. {k \in 1..Len(journal) : firstUsn' < k /\ g.checkpoint.usn < k}
          = {k \in 1..Len(journal) : firstUsn < k /\ g.checkpoint.usn < k}
    BY <1>0, <2>1
  <2>3. Since(g)' = Since(g)
    BY <1>2, <2>2 DEF Since
  <2> QED BY <1>2, <2>1, <2>3 DEF Readable
<1>3. CASE journalId' = journalId + 1
  BY <1>0, <1>3 DEF Readable
<1> QED BY <1>1, <1>2, <1>3 DEF JournalMove

(* And they leave every generation tracked: one that lost records can no   *)
(* longer be read.                                                         *)
LEMMA StillTracked ==
    ASSUME TypeOK, JournalMove, NEW g, g.checkpoint \in Checkpoint, CheckOK(g.checkpoint)
    PROVE  /\ Tracked(g) => Tracked(g)'
           /\ TrackedSoFar(g) => TrackedSoFar(g)'
<1>1. Readable(g)' => Readable(g) /\ Since(g)' = Since(g)
  BY StillReadable
<1>2. UNCHANGED <<file, directory>>
  BY DEF JournalMove
<1>3. Readable(g)' => \A s : Kept(g, s)' <=> Kept(g, s)
  BY <1>1, <1>2 DEF Kept, Named, About
<1>4. ASSUME Tracked(g)
      PROVE  Tracked(g)'
  <2> SUFFICES ASSUME Told(g)'
               PROVE  /\ directory' \in g.dirs
                      /\ \A s \in Sources : g.snap[s].ref = NoRef => directory' \in g.arrivals
                      /\ \A s \in Sources : Kept(g, s)'
    BY DEF Tracked
  <2>1. Readable(g)' /\ ~TopologyChanged(g)'
    BY DEF Told
  <2>2. Told(g)
    BY <1>1, <2>1 DEF Told, TopologyChanged, About
  <2> QED BY <1>2, <1>3, <1>4, <2>1, <2>2 DEF Tracked
<1>5. ASSUME TrackedSoFar(g)
      PROVE  TrackedSoFar(g)'
  <2> DEFINE done == Sources \ g.todo
  <2> SUFFICES ASSUME Readable(g)'
               PROVE  /\ TopologyWill(g, done)' \/ \A s \in done : Kept(g, s)'
                      /\ \A s \in done : g.snap[s].ref = NoRef =>
                           Swapped(g)' \/ directory' \in g.base.arrivals \/ s \in g.physical
    BY DEF TrackedSoFar
  <2>1. Swapped(g)' <=> Swapped(g)
    BY <1>1, <1>2 DEF Swapped
  <2>2. TopologyWill(g, done)' <=> TopologyWill(g, done)
    BY <1>1, <1>2, <2>1 DEF TopologyWill, About
  <2> QED BY <1>1, <1>2, <1>3, <1>5, <2>1, <2>2 DEF TrackedSoFar
<1> QED BY <1>4, <1>5

(* Every step edits the tree or leaves it alone.                           *)
LEMMA TreeMoves ==
    ASSUME IndInv, SameStampWrites = FALSE, [Next]_vars
    PROVE  (\E n : TreeMove(n)) \/ JournalMove
<1>0. firstUsn \in Nat /\ Len(journal) \in Nat
  BY DEF IndInv, TypeOK
<1>1. CASE EditTree
  BY <1>1, EditMoves
<1>2. CASE Truncate
  <2>1. firstUsn' \in firstUsn..Len(journal)
    BY <1>0, <1>2 DEF Truncate
  <2> QED BY <1>2, <2>1 DEF Truncate, JournalFault, treeVars, JournalMove
<1>3. CASE Recreate
  BY <1>3 DEF Recreate, JournalFault, treeVars, JournalMove
<1>4. ASSUME NEW m \in Managers, Build(m) \/ Load(m) \/ Save(m) \/ Unload(m)
      PROVE  UNCHANGED <<treeVars, journalVars>>
  BY <1>4 DEF Build, Load, Save, Unload, BeginFull, BeginIncremental, Begin, CaptureCheckpoint, DetectFast,
              DetectFallback, Scan, Detected, ActivateBaseline, Activate, Acquire, AcquireUnchanged,
              AcquireMissing, AcquirePresent, PublishUnchanged, PublishFull, PublishSparse, PublishAs,
              AbandonConstruction, Forget, Step
<1>5. CASE UNCHANGED <<treeVars, journalVars>>
  BY <1>5 DEF treeVars, journalVars, JournalMove
<1> QED BY <1>1, <1>2, <1>3, <1>4, <1>5 DEF Next, vars

(* So what holds of a generation goes on holding while it stays as it is.  *)
LEMMA SnapsStay ==
    ASSUME IndInv, SameStampWrites = FALSE, [Next]_vars, NEW h \in [Sources -> Snapshots], SnapsOK(h)
    PROVE  SnapsOK(h)'
<1>0. TypeOK
  BY DEF IndInv
<1>1. CASE \E n : TreeMove(n)
  BY <1>0, <1>1, EditSnap DEF SnapsOK
<1>2. CASE JournalMove
  BY <1>2 DEF JournalMove, SnapsOK, SnapOK
<1> QED BY <1>1, <1>2, TreeMoves

(* The same of the files themselves.                                       *)
LEMMA FilesStay ==
    ASSUME IndInv, SameStampWrites = FALSE, [Next]_vars
    PROVE  SnapsOK(file)'
<1>1. CASE \E n : TreeMove(n)
  BY <1>1, EditFiles DEF IndInv
<1>2. CASE JournalMove
  BY <1>2 DEF IndInv, JournalMove, SnapsOK, SnapOK
<1> QED BY <1>1, <1>2, TreeMoves

(* The same of a checkpoint.                                               *)
LEMMA CheckStays ==
    ASSUME IndInv, SameStampWrites = FALSE, [Next]_vars, NEW c \in Checkpoint, CheckOK(c)
    PROVE  CheckOK(c)'
BY TreeMoves, EditCheck, StillCheck DEF IndInv

(* The same of being tracked by the journal.                               *)
LEMMA TrackedStays ==
    ASSUME IndInv, SameStampWrites = FALSE, [Next]_vars, NEW g, g.checkpoint \in Checkpoint,
           CheckOK(g.checkpoint)
    PROVE  /\ Tracked(g) => Tracked(g)'
           /\ TrackedSoFar(g) => TrackedSoFar(g)'
BY TreeMoves, EditTracked, EditTrackedSoFar, StillTracked DEF IndInv

(* The same of a baseline.                                                 *)
LEMMA GenerationStays ==
    ASSUME IndInv, SameStampWrites = FALSE, [Next]_vars, NEW g \in Baselines, GenerationOK(g)
    PROVE  GenerationOK(g)'
<1>1. g.snap \in [Sources -> Snapshots] /\ g.checkpoint \in Checkpoint
  BY DEF Baselines
<1> QED BY <1>1, SnapsStay, CheckStays, TrackedStays DEF GenerationOK

(* A generation without a checkpoint is tracked by no journal.             *)
LEMMA NoneTracked ==
    ASSUME NEW g, g.checkpoint = NoCheckpoint
    PROVE  /\ Tracked(g) /\ TrackedSoFar(g)
           /\ Tracked(g)' /\ TrackedSoFar(g)'
BY DEF Tracked, TrackedSoFar, Told, Readable

(* Nothing, no checkpoint and no baseline satisfy the invariant.           *)
LEMMA NothingOK ==
    ASSUME TypeOK
    PROVE  SnapsOK([s \in Sources |-> Nothing]) /\ CheckOK(NoCheckpoint) /\ GenerationOK(NoBaseline)
<1>1. edits >= 0 /\ journalId \in Nat /\ journalId >= 1
  BY DEF TypeOK
<1>2. \A s \in Sources : SnapOK(Nothing, s)
  BY <1>1, Constants DEF SnapOK
<1>3. SnapsOK([s \in Sources |-> Nothing])
  BY <1>2 DEF SnapsOK
<1>4. CheckOK(NoCheckpoint)
  BY <1>1 DEF CheckOK, InJournal, NoCheckpoint
<1>5. SnapsOK(NoBaseline.snap) /\ CheckOK(NoBaseline.checkpoint) /\ Tracked(NoBaseline)
  BY <1>3, <1>4, Constants, NoneTracked
<1> QED BY <1>3, <1>4, <1>5 DEF GenerationOK

-----------------------------------------------------------------------------
(* Sessions                                                                *)

(* A session that stays as it is.                                          *)
LEMMA SessionStays ==
    ASSUME IndInv, SameStampWrites = FALSE, [Next]_vars, NEW m \in Managers, NEW g \in Sessions,
           SessionOK(m, g), \A s \in Sources : seen[m][s] \subseteq seen'[m][s],
           g.pc \notin {"unloaded", "ready"} => Fresh(m, file, Sources)'
    PROVE  SessionOK(m, g)'
<1>1. /\ g.snap \in [Sources -> Snapshots] /\ g.checkpoint \in Checkpoint /\ g.base \in Baselines
  BY SessionFields
<1>2. SnapsOK(g.snap)' /\ CheckOK(g.checkpoint)' /\ GenerationOK(g.base)'
  BY <1>1, SnapsStay, CheckStays, GenerationStays DEF SessionOK
<1>3. \A h : \A S \in SUBSET Sources : Fresh(m, h, S) => Fresh(m, h, S)'
  BY DEF Fresh
<1>4. (Tracked(g) => Tracked(g)') /\ (TrackedSoFar(g) => TrackedSoFar(g)')
  BY <1>1, TrackedStays DEF SessionOK
<1>5. g.pc = "scan" => Fresh(m, g.base.snap, Sources \ (g.todo \cup g.dirty))'
  BY <1>3 DEF SessionOK
<1>6. g.pc = "activate" => Fresh(m, g.base.snap, Sources)'
  BY <1>3 DEF SessionOK
<1>7. g.pc = "acquire" => Fresh(m, g.snap, Sources \ g.todo)' /\ TrackedSoFar(g)'
  BY <1>3, <1>4 DEF SessionOK
<1>8. g.pc = "ready" => Tracked(g)' /\ (g.built => Fresh(m, g.snap, Sources)')
  BY <1>3, <1>4 DEF SessionOK
<1> QED BY <1>2, <1>5, <1>6, <1>7, <1>8 DEF SessionOK

(* A step takes the session of m to g.                                     *)
Moves(m, g) ==
    /\ g \in Sessions
    /\ session' = [session EXCEPT ![m] = g]
    /\ SessionOK(m, g)'

(* What is known of a session after a step that leaves files and seen.     *)
LEMMA MeNow ==
    ASSUME IndInv, SameStampWrites = FALSE, [Next]_vars, NEW m \in Managers, UNCHANGED <<file, seen>>
    PROVE  \E me \in Sessions :
             /\ session[m] = me /\ SessionOK(m, me)
             /\ SnapsOK(me.snap)' /\ CheckOK(me.checkpoint)' /\ GenerationOK(me.base)'
             /\ me.pc \notin {"unloaded", "ready"} => Fresh(m, file, Sources)'
<1>1. PICK me \in Sessions : session[m] = me
  BY DEF IndInv, TypeOK
<1>2. SessionOK(m, me)
  BY <1>1 DEF IndInv
<1>3. /\ me.snap \in [Sources -> Snapshots] /\ me.checkpoint \in Checkpoint /\ me.base \in Baselines
  BY SessionFields
<1>4. SnapsOK(me.snap)' /\ CheckOK(me.checkpoint)' /\ GenerationOK(me.base)'
  BY <1>2, <1>3, SnapsStay, CheckStays, GenerationStays DEF SessionOK
<1>5. me.pc \notin {"unloaded", "ready"} => Fresh(m, file, Sources)'
  BY <1>2 DEF SessionOK, Fresh
<1> QED BY <1>1, <1>2, <1>4, <1>5

(* And they do so after every step.                                        *)
LEMMA NothingStays ==
    ASSUME IndInv, SameStampWrites = FALSE, [Next]_vars
    PROVE  /\ SnapsOK([s \in Sources |-> Nothing])' /\ CheckOK(NoCheckpoint)'
           /\ GenerationOK(NoBaseline)'
<1>1. [s \in Sources |-> Nothing] \in [Sources -> Snapshots]
  BY Constants
<1> QED BY <1>1, Constants, NothingOK, SnapsStay, CheckStays, GenerationStays DEF IndInv

(* BUILD begins.                                                           *)
LEMMA BeginMoves ==
    ASSUME IndInv, SameStampWrites = FALSE, [Next]_vars, NEW m \in Managers,
           BeginFull(m) \/ BeginIncremental(m)
    PROVE  \E g : Moves(m, g)
<1>1. PICK b \in Baselines : Begin(m, b) /\ (b = NoBaseline \/ b = current)
  BY Constants DEF BeginFull, BeginIncremental, IndInv, TypeOK
<1>2. GenerationOK(b)
  BY <1>1, NothingOK DEF IndInv
<1>3. GenerationOK(b)' /\ SnapsOK([s \in Sources |-> Nothing])' /\ CheckOK(NoCheckpoint)'
  BY <1>2, GenerationStays, NothingStays
<1>4. PICK g : g = [Unloaded EXCEPT !.pc = "capture", !.base = b]
  OBVIOUS
<1>5. /\ g \in Sessions /\ g.pc = "capture" /\ g.base = b /\ g.checkpoint = NoCheckpoint
      /\ g.snap = [s \in Sources |-> Nothing]
  BY <1>4, Starts
<1>6. session' = [session EXCEPT ![m] = g] /\ UNCHANGED file
      /\ seen' = [seen EXCEPT ![m] = [s \in Sources |-> {file[s].content}]]
  BY <1>1, <1>4 DEF Begin, Step, treeVars
<1>7. Fresh(m, file, Sources)'
  BY <1>6 DEF IndInv, TypeOK, Fresh
<1> QED BY <1>3, <1>5, <1>6, <1>7 DEF Moves, SessionOK

(* BUILD takes its checkpoint before it looks at a Source.                 *)
LEMMA CaptureMoves ==
    ASSUME IndInv, SameStampWrites = FALSE, [Next]_vars, NEW m \in Managers, CaptureCheckpoint(m)
    PROVE  \E g : Moves(m, g)
<1>0. UNCHANGED <<file, seen>> /\ session[m].pc = "capture"
  BY DEF CaptureCheckpoint, Step, treeVars
<1>1. PICK me \in Sessions :
         /\ session[m] = me /\ SessionOK(m, me)
         /\ SnapsOK(me.snap)' /\ CheckOK(me.checkpoint)' /\ GenerationOK(me.base)'
         /\ me.pc \notin {"unloaded", "ready"} => Fresh(m, file, Sources)'
  BY <1>0, MeNow
<1> DEFINE here == [id |-> journalId, usn |-> Len(journal)]
<1>2. here \in Checkpoint /\ CheckOK(here) /\ NoCheckpoint \in Checkpoint /\ CheckOK(NoCheckpoint)
  <2>1. journalId \in 0..(MaxJournalFaults + 1) /\ Len(journal) \in Nat
    BY BuildAssumption DEF IndInv, TypeOK
  <2>2. here \in Checkpoint
    BY <2>1 DEF Checkpoint
  <2>3. CheckOK(here)
    BY <2>1 DEF CheckOK, InJournal
  <2> QED BY <2>2, <2>3, NothingOK, Constants DEF IndInv
<1>3. PICK c \in {here, NoCheckpoint} :
         session' = [session EXCEPT ![m] =
            [me EXCEPT !.pc = IF me.base = NoBaseline THEN "acquire" ELSE "detect",
                       !.checkpoint = c,
                       !.snap = me.base.snap,
                       !.todo = IF me.base = NoBaseline THEN Sources ELSE {}]]
  BY <1>1 DEF CaptureCheckpoint, Step
<1>4. c \in Checkpoint /\ CheckOK(c)'
  BY <1>2, <1>3, CheckStays
<1>5. PICK to \in {"acquire", "detect"}, todo \in SUBSET Sources :
         /\ to = IF me.base = NoBaseline THEN "acquire" ELSE "detect"
         /\ todo = IF me.base = NoBaseline THEN Sources ELSE {}
  OBVIOUS
<1>6. PICK g : g = [me EXCEPT !.pc = to, !.checkpoint = c, !.snap = me.base.snap, !.todo = todo]
  OBVIOUS
<1>7. /\ g \in Sessions
      /\ g.pc = to /\ g.checkpoint = c /\ g.snap = me.base.snap /\ g.todo = todo
      /\ g.base = me.base
  BY <1>4, <1>6 DEF Sessions, Baselines
<1>8. session' = [session EXCEPT ![m] = g]
  BY <1>3, <1>5, <1>6
<1>9. SnapsOK(me.base.snap)' /\ Fresh(m, file, Sources)'
  BY <1>0, <1>1 DEF GenerationOK
<1>10. CASE me.base # NoBaseline
  BY <1>1, <1>4, <1>5, <1>7, <1>8, <1>9, <1>10 DEF Moves, SessionOK
<1>11. CASE me.base = NoBaseline
  <2>1. g.pc = "acquire" /\ g.todo = Sources
    BY <1>5, <1>7, <1>11
  <2>2. TrackedSoFar(g)'
    BY <2>1 DEF TrackedSoFar
  <2>3. Fresh(m, g.snap, {})'
    BY DEF Fresh
  <2>4. SessionOK(m, g)'
    BY <1>1, <1>4, <1>7, <1>9, <2>1, <2>2, <2>3 DEF SessionOK
  <2> QED BY <1>7, <1>8, <2>4 DEF Moves
<1> QED BY <1>10, <1>11

(* The journal tells what changed: every other Source is as the baseline   *)
(* has it.                                                                 *)
LEMMA FastMoves ==
    ASSUME IndInv, SameStampWrites = FALSE, [Next]_vars, NEW m \in Managers, DetectFast(m)
    PROVE  \E g : Moves(m, g)
<1>0. UNCHANGED <<file, seen>> /\ session[m].pc = "detect"
  BY DEF DetectFast, Detected, Step, treeVars
<1>1. PICK me \in Sessions :
         /\ session[m] = me /\ SessionOK(m, me)
         /\ SnapsOK(me.snap)' /\ CheckOK(me.checkpoint)' /\ GenerationOK(me.base)'
         /\ me.pc \notin {"unloaded", "ready"} => Fresh(m, file, Sources)'
  BY <1>0, MeNow
<1>2. PICK dirty \in SUBSET Sources : dirty = Touched(me.base)
  BY DEF Touched
<1>3. /\ directory \in me.base.dirs
      /\ \A s \in Sources : me.base.snap[s].ref = NoRef => directory \in me.base.arrivals
      /\ \A s \in Sources \ dirty : me.base.snap[s] = file[s]
  <2>1. Told(me.base)
    BY <1>1 DEF DetectFast, Told
  <2> QED BY <1>1, <1>2, <2>1 DEF SessionOK, GenerationOK, Tracked, Kept, Named, Touched
<1>4. PICK g : g = [me EXCEPT !.pc = IF dirty = {} THEN "activate" ELSE "acquire",
                              !.dirty = {}, !.todo = dirty]
  OBVIOUS
<1>5. /\ g \in Sessions
      /\ g.pc = IF dirty = {} THEN "activate" ELSE "acquire"
      /\ g.checkpoint = me.checkpoint /\ g.snap = me.snap /\ g.todo = dirty
      /\ g.base = me.base /\ g.physical = me.physical /\ g.semantic = me.semantic
  BY <1>4 DEF Sessions
<1>6. session' = [session EXCEPT ![m] = g]
  BY <1>1, <1>2, <1>4 DEF DetectFast, Detected, Step
<1>7. me.snap = me.base.snap /\ me.base # NoBaseline /\ Fresh(m, file, Sources)'
  BY <1>0, <1>1 DEF SessionOK
<1>8. Fresh(m, me.base.snap, Sources \ dirty)'
  BY <1>0, <1>3, <1>7 DEF Fresh
<1>9. TrackedSoFar(g)'
  <2>1. TrackedSoFar(g)
    BY <1>3, <1>5, <1>7 DEF TrackedSoFar, Kept
  <2>2. g.checkpoint \in Checkpoint /\ CheckOK(g.checkpoint)
    BY <1>1, <1>5, SessionFields DEF SessionOK
  <2> QED BY <2>1, <2>2, TrackedStays
<1>10. dirty = {} => Fresh(m, me.base.snap, Sources)'
  BY <1>8 DEF Fresh
<1>11. SessionOK(m, g)'
  <2>1. CASE dirty = {}
    BY <1>1, <1>5, <1>7, <1>9, <1>10, <2>1 DEF SessionOK
  <2>2. CASE dirty # {}
    BY <1>1, <1>5, <1>7, <1>8, <1>9, <2>2 DEF SessionOK
  <2> QED BY <2>1, <2>2
<1> QED BY <1>5, <1>6, <1>11 DEF Moves

(* The detector falls back to the scan and gives the checkpoint up.        *)
LEMMA FallbackMoves ==
    ASSUME IndInv, SameStampWrites = FALSE, [Next]_vars, NEW m \in Managers, DetectFallback(m)
    PROVE  \E g : Moves(m, g)
<1>0. UNCHANGED <<file, seen>> /\ session[m].pc = "detect"
  BY DEF DetectFallback, Step, treeVars
<1>1. PICK me \in Sessions :
         /\ session[m] = me /\ SessionOK(m, me)
         /\ SnapsOK(me.snap)' /\ CheckOK(me.checkpoint)' /\ GenerationOK(me.base)'
         /\ me.pc \notin {"unloaded", "ready"} => Fresh(m, file, Sources)'
  BY <1>0, MeNow
<1>2. PICK g : g = [me EXCEPT !.pc = "scan", !.checkpoint = NoCheckpoint, !.todo = Sources]
  OBVIOUS
<1>3. /\ g \in Sessions
      /\ g.pc = "scan" /\ g.checkpoint = NoCheckpoint /\ g.todo = Sources
      /\ g.snap = me.snap /\ g.base = me.base
  BY <1>2, Falls
<1>4. session' = [session EXCEPT ![m] = g]
  BY <1>1, <1>2 DEF DetectFallback, Step
<1>5. me.snap = me.base.snap /\ me.base # NoBaseline
  BY <1>0, <1>1 DEF SessionOK
<1>6. Fresh(m, g.base.snap, Sources \ (g.todo \cup g.dirty))'
  BY <1>3 DEF Fresh
<1> QED BY <1>0, <1>1, <1>3, <1>4, <1>5, <1>6, NothingStays DEF Moves, SessionOK

(* A Source is compared with the baseline, by its contents.                *)
LEMMA ScanMoves ==
    ASSUME IndInv, SameStampWrites = FALSE, [Next]_vars, NEW m \in Managers, NEW s \in Sources, Scan(m, s)
    PROVE  \E g : Moves(m, g)
<1>0. UNCHANGED <<file, seen>> /\ session[m].pc = "scan"
  BY DEF Scan, Detected, Step, treeVars
<1>1. PICK me \in Sessions :
         /\ session[m] = me /\ SessionOK(m, me)
         /\ SnapsOK(me.snap)' /\ CheckOK(me.checkpoint)' /\ GenerationOK(me.base)'
         /\ me.pc \notin {"unloaded", "ready"} => Fresh(m, file, Sources)'
  BY <1>0, MeNow
<1>2. PICK dirty \in SUBSET Sources :
         dirty = me.dirty \cup {x \in {s} : file[s].content # me.base.snap[s].content}
  BY SessionFields
<1>3. /\ me.snap = me.base.snap /\ me.base # NoBaseline /\ me.checkpoint = NoCheckpoint
      /\ Fresh(m, me.base.snap, Sources \ (me.todo \cup me.dirty)) /\ Fresh(m, file, Sources)
  BY <1>0, <1>1 DEF SessionOK
<1>4. Fresh(m, me.base.snap, Sources \ ((me.todo \ {s}) \cup dirty))'
  BY <1>0, <1>2, <1>3 DEF Fresh
<1>5. CASE me.todo = {s}
  <2>1. PICK g : g = [me EXCEPT !.pc = IF dirty = {} THEN "activate" ELSE "acquire",
                                !.dirty = {}, !.todo = dirty]
    OBVIOUS
  <2>2. /\ g \in Sessions
        /\ g.pc = IF dirty = {} THEN "activate" ELSE "acquire"
        /\ g.checkpoint = me.checkpoint /\ g.snap = me.snap /\ g.todo = dirty
        /\ g.base = me.base /\ g.physical = me.physical /\ g.semantic = me.semantic
    BY <2>1 DEF Sessions
  <2>3. session' = [session EXCEPT ![m] = g]
    BY <1>1, <1>2, <1>5, <2>1 DEF Scan, Detected, Step
  <2>4. Fresh(m, me.base.snap, Sources \ dirty)'
    BY <1>4, <1>5 DEF Fresh
  <2>5. TrackedSoFar(g)'
    BY <1>3, <2>2, NoneTracked
  <2>6. dirty = {} => Fresh(m, me.base.snap, Sources)'
    BY <2>4 DEF Fresh
  <2>7. SessionOK(m, g)'
    <3>1. CASE dirty = {}
      BY <1>0, <1>1, <1>3, <2>2, <2>5, <2>6, <3>1 DEF SessionOK
    <3>2. CASE dirty # {}
      BY <1>0, <1>1, <1>3, <2>2, <2>4, <2>5, <3>2 DEF SessionOK
    <3> QED BY <3>1, <3>2
  <2> QED BY <2>2, <2>3, <2>7 DEF Moves
<1>6. CASE me.todo # {s}
  <2>1. PICK g : g = [me EXCEPT !.dirty = dirty, !.todo = @ \ {s}]
    OBVIOUS
  <2>2. /\ g \in Sessions
        /\ g.pc = me.pc /\ g.checkpoint = me.checkpoint /\ g.todo = me.todo \ {s} /\ g.dirty = dirty
        /\ g.snap = me.snap /\ g.base = me.base
    BY <2>1 DEF Sessions
  <2>3. session' = [session EXCEPT ![m] = g]
    BY <1>1, <1>2, <1>6, <2>1 DEF Scan, Step
  <2>4. SessionOK(m, g)'
    BY <1>0, <1>1, <1>3, <1>4, <2>2 DEF SessionOK
  <2> QED BY <2>2, <2>3, <2>4 DEF Moves
<1> QED BY <1>5, <1>6

(* A baseline becomes READY: by LOAD, or by a BUILD that found its         *)
(* contents in the files.                                                  *)
LEMMA ActivateMoves ==
    ASSUME IndInv, SameStampWrites = FALSE, [Next]_vars, NEW m \in Managers,
           NEW b \in Baselines, SnapsOK(b.snap), NEW built \in BOOLEAN, Activate(m, b, built),
           UNCHANGED seen, built => Fresh(m, b.snap, Sources)
    PROVE  \E g : Moves(m, g)
<1>1. PICK g : g = [Unloaded EXCEPT !.pc = "ready", !.snap = b.snap,
                                    !.persisted = b.tx, !.built = built]
  OBVIOUS
<1>2. /\ g \in Sessions
      /\ g.pc = "ready" /\ g.base = NoBaseline /\ g.checkpoint = NoCheckpoint
      /\ g.snap = b.snap /\ g.built = built
  <2>1. b.snap \in [Sources -> Snapshots] /\ b.tx \in 0..MaxSaves
    BY DEF Baselines
  <2> QED BY <1>1, <2>1, UnloadedType DEF Sessions
<1>3. session' = [session EXCEPT ![m] = g]
  BY <1>1 DEF Activate, Step
<1>4. SnapsOK(g.snap)'
  BY <1>2, SnapsStay DEF Baselines
<1>5. built => Fresh(m, g.snap, Sources)'
  BY <1>2 DEF Fresh
<1>6. Tracked(g)'
  BY <1>2, NoneTracked
<1> QED BY <1>2, <1>3, <1>4, <1>5, <1>6, NothingStays DEF Moves, SessionOK

(* LOAD, and the two ways a BUILD ends in its baseline.                    *)
LEMMA ReadyMoves ==
    ASSUME IndInv, SameStampWrites = FALSE, [Next]_vars, NEW m \in Managers,
           ActivateBaseline(m) \/ PublishUnchanged(m) \/ Load(m)
    PROVE  \E g : Moves(m, g)
<1>0. UNCHANGED <<file, seen>>
  BY DEF ActivateBaseline, PublishUnchanged, Load, Activate, Step, treeVars
<1>1. PICK me \in Sessions : session[m] = me /\ SessionOK(m, me)
  BY <1>0, MeNow
<1>2. me.base \in Baselines /\ SnapsOK(me.base.snap)
  BY <1>1, SessionFields DEF SessionOK, GenerationOK
<1>3. CASE ActivateBaseline(m)
  <2>1. Activate(m, me.base, TRUE) /\ Fresh(m, me.base.snap, Sources)
    BY <1>1, <1>3 DEF ActivateBaseline, SessionOK
  <2> QED BY <1>0, <1>2, <2>1, ActivateMoves
<1>4. CASE PublishUnchanged(m)
  <2>1. /\ Activate(m, me.base, TRUE) /\ me.pc = "acquire" /\ me.todo = {} /\ me.semantic = {}
    BY <1>1, <1>4 DEF PublishUnchanged
  <2>2. Fresh(m, me.base.snap, Sources)
    BY <1>1, <2>1 DEF SessionOK, Fresh
  <2> QED BY <1>0, <1>2, <2>1, <2>2, ActivateMoves
<1>5. CASE Load(m)
  <2>1. PICK b \in Baselines : current = b
    BY DEF IndInv, TypeOK
  <2>2. Activate(m, b, FALSE) /\ SnapsOK(b.snap)
    BY <1>5, <2>1 DEF Load, IndInv, GenerationOK
  <2> QED BY <1>0, <2>2, ActivateMoves
<1> QED BY <1>3, <1>4, <1>5

(* A Source is acquired, or found to be as it was: it is the file that is  *)
(* there now.                                                              *)
LEMMA AcquireMoves ==
    ASSUME IndInv, SameStampWrites = FALSE, [Next]_vars, NEW m \in Managers, NEW s \in Sources, Acquire(m, s)
    PROVE  \E g : Moves(m, g)
<1>0. UNCHANGED <<file, seen>> /\ session[m].pc = "acquire" /\ s \in session[m].todo
  BY DEF Acquire, AcquireUnchanged, AcquireMissing, AcquirePresent, Step, treeVars
<1>1. PICK me \in Sessions :
         /\ session[m] = me /\ SessionOK(m, me)
         /\ SnapsOK(me.snap)' /\ CheckOK(me.checkpoint)' /\ GenerationOK(me.base)'
         /\ me.pc \notin {"unloaded", "ready"} => Fresh(m, file, Sources)'
  BY <1>0, MeNow
<1>2. PICK x \in Snapshots : x = file[s]
  BY DEF IndInv, TypeOK
<1>3. me.snap \in [Sources -> Snapshots] /\ me.checkpoint \in Checkpoint /\ me.todo \subseteq Sources
  BY SessionFields
<1>4. me.pc = "acquire" /\ s \in me.todo
  BY <1>0, <1>1
<1>5. /\ Fresh(m, me.snap, Sources \ me.todo) /\ Fresh(m, file, Sources) /\ TrackedSoFar(me)
      /\ \A p \in me.todo : me.snap[p] = me.base.snap[p]
      /\ \A p \in Sources \ (me.todo \cup me.semantic) : me.snap[p].content = me.base.snap[p].content
      /\ me.base = NoBaseline => \A p \in Sources \ me.todo : me.snap[p].ref # NoRef
      /\ CheckOK(me.checkpoint) /\ SnapsOK(me.snap)
  BY <1>1, <1>4 DEF SessionOK
<1>6. PICK g \in Sessions :
         /\ session' = [session EXCEPT ![m] = g]
         /\ g.pc = me.pc /\ g.checkpoint = me.checkpoint /\ g.todo = me.todo \ {s}
         /\ g.base = me.base
         /\ g.snap \in [Sources -> Snapshots] /\ g.snap[s] = x
         /\ \A p \in Sources : p # s => g.snap[p] = me.snap[p]
         /\ me.physical \subseteq g.physical /\ me.semantic \subseteq g.semantic
         /\ x.ref = NoRef => s \in g.physical /\ me.snap[s] # Nothing
         /\ s \in g.semantic \/ x.content = me.snap[s].content
  <2>0. x.ref = NoRef <=> x = Nothing
    BY <1>2, Constants DEF IndInv, SnapsOK, SnapOK
  <2>1. CASE AcquireUnchanged(m, s)
    <3>1. me.snap[s] # Nothing /\ x # Nothing /\ me.snap[s].stamp = x.stamp
      BY <1>1, <1>2, <2>1 DEF AcquireUnchanged
    <3>2. me.snap[s] = x
      BY <1>2, <1>5, <3>1 DEF SnapsOK, SnapOK
    <3>3. PICK g : g = [me EXCEPT !.todo = @ \ {s}]
      OBVIOUS
    <3>4. /\ g \in Sessions
          /\ g.pc = me.pc /\ g.checkpoint = me.checkpoint /\ g.todo = me.todo \ {s}
          /\ g.snap = me.snap /\ g.base = me.base
          /\ g.physical = me.physical /\ g.semantic = me.semantic
      BY <3>3 DEF Sessions
    <3>5. session' = [session EXCEPT ![m] = g]
      BY <1>1, <2>1, <3>3 DEF AcquireUnchanged, Step
    <3> QED BY <1>3, <2>0, <3>1, <3>2, <3>4, <3>5
  <2>3. CASE AcquireMissing(m, s)
    <3>1. PICK g : g = [me EXCEPT !.todo = @ \ {s}, !.snap[s] = x, !.physical = @ \cup {s},
                                  !.semantic = @ \cup {s}]
      OBVIOUS
    <3>2. /\ g \in Sessions
          /\ g.pc = me.pc /\ g.checkpoint = me.checkpoint /\ g.todo = me.todo \ {s}
          /\ g.snap = [me.snap EXCEPT ![s] = x] /\ g.base = me.base
          /\ g.physical = me.physical \cup {s} /\ g.semantic = me.semantic \cup {s}
      BY <3>1 DEF Sessions
    <3>3. session' = [session EXCEPT ![m] = g] /\ me.snap[s] # Nothing
      BY <1>1, <1>2, <2>3, <3>1 DEF AcquireMissing, Step
    <3>4. /\ g.snap \in [Sources -> Snapshots] /\ g.snap[s] = x
          /\ \A p \in Sources : p # s => g.snap[p] = me.snap[p]
      BY <1>3, <3>2
    <3> QED BY <3>2, <3>3, <3>4
  <2>4. CASE AcquirePresent(m, s)
    <3>1. PICK S \in SUBSET Sources : S = {y \in {s} : me.snap[s].content # file[s].content}
      OBVIOUS
    <3>2. PICK g : g = [me EXCEPT !.todo = @ \ {s}, !.snap[s] = x, !.physical = @ \cup {s},
                                  !.semantic = @ \cup S]
      OBVIOUS
    <3>3. /\ g \in Sessions
          /\ g.pc = me.pc /\ g.checkpoint = me.checkpoint /\ g.todo = me.todo \ {s}
          /\ g.snap = [me.snap EXCEPT ![s] = x] /\ g.base = me.base
          /\ g.physical = me.physical \cup {s} /\ g.semantic = me.semantic \cup S
      BY <3>2 DEF Sessions
    <3>4. session' = [session EXCEPT ![m] = g] /\ x # Nothing
      BY <1>1, <1>2, <2>4, <3>1, <3>2 DEF AcquirePresent, Step
    <3>5. /\ g.snap \in [Sources -> Snapshots] /\ g.snap[s] = x
          /\ \A p \in Sources : p # s => g.snap[p] = me.snap[p]
      BY <1>3, <3>3
    <3> QED BY <1>2, <2>0, <3>1, <3>3, <3>4, <3>5
  <2> QED BY <2>1, <2>3, <2>4 DEF Acquire
<1>7. SnapsOK(g.snap)'
  <2>1. SnapsOK(g.snap)
    BY <1>2, <1>5, <1>6 DEF SnapsOK, IndInv
  <2> QED BY <1>6, <2>1, SnapsStay
<1>8. \A p \in g.todo : g.snap[p] = g.base.snap[p]
  BY <1>3, <1>5, <1>6
<1>9. Fresh(m, g.snap, Sources \ g.todo)'
  BY <1>0, <1>2, <1>5, <1>6 DEF Fresh
<1>10. \A p \in Sources \ (g.todo \cup g.semantic) : g.snap[p].content = g.base.snap[p].content
  BY <1>4, <1>5, <1>6
<1>11. g.base = NoBaseline => \A p \in Sources \ g.todo : g.snap[p].ref # NoRef
  <2>1. \A p \in Sources : NoBaseline.snap[p] = Nothing
    BY Constants
  <2> QED BY <1>4, <1>5, <1>6, <2>1
<1>12. TrackedSoFar(g)'
  <2>1. /\ Readable(g) => Readable(me)
        /\ Since(g) = Since(me)
    BY <1>6 DEF Readable, Since
  <2>2. ASSUME NEW p \in Sources \ me.todo
        PROVE  /\ p \in Sources \ g.todo /\ g.snap[p] = me.snap[p]
               /\ Kept(me, p) => Kept(g, p)
               /\ \A r : About(me, r, p) => About(g, r, p)
    BY <1>4, <1>6, <2>1 DEF Kept, Named, About
  <2>3. Kept(g, s)
    BY <1>2, <1>6 DEF Kept
  <2>4. Swapped(me) <=> Swapped(g)
    BY <2>1 DEF Swapped
  <2>5. TopologyWill(me, Sources \ me.todo) => TopologyWill(g, Sources \ g.todo)
    BY <2>1, <2>2, <2>4 DEF TopologyWill
  <2>6. \A p \in Sources \ g.todo : p = s \/ p \in Sources \ me.todo
    BY <1>6
  <2>7. TrackedSoFar(g)
    <3> SUFFICES ASSUME Readable(g)
                 PROVE  /\ TopologyWill(g, Sources \ g.todo) \/ \A p \in Sources \ g.todo : Kept(g, p)
                        /\ \A p \in Sources \ g.todo : g.snap[p].ref = NoRef =>
                             Swapped(g) \/ directory \in g.base.arrivals \/ p \in g.physical
      BY DEF TrackedSoFar
    <3>1. /\ TopologyWill(me, Sources \ me.todo) \/ \A p \in Sources \ me.todo : Kept(me, p)
          /\ \A p \in Sources \ me.todo : me.snap[p].ref = NoRef =>
               Swapped(me) \/ directory \in me.base.arrivals \/ p \in me.physical
      BY <1>5, <2>1 DEF TrackedSoFar
    <3>2. TopologyWill(g, Sources \ g.todo) \/ \A p \in Sources \ g.todo : Kept(g, p)
      BY <2>2, <2>3, <2>5, <2>6, <3>1
    <3>3. \A p \in Sources \ g.todo : g.snap[p].ref = NoRef =>
             Swapped(g) \/ directory \in g.base.arrivals \/ p \in g.physical
      BY <1>6, <2>2, <2>4, <2>6, <3>1
    <3> QED BY <3>2, <3>3
  <2> QED BY <1>3, <1>5, <1>6, <2>7, TrackedStays
<1> QED BY <1>0, <1>1, <1>4, <1>6, <1>7, <1>8, <1>9, <1>10, <1>11, <1>12 DEF Moves, SessionOK

(* A construction whose Sources are all acquired becomes a Generation the  *)
(* journal tracks: its directories are looked up now.                      *)
LEMMA PublishMoves ==
    ASSUME IndInv, SameStampWrites = FALSE, [Next]_vars, NEW m \in Managers, NEW me \in Sessions,
           SessionOK(m, me), me.pc = "acquire", me.todo = {}, UNCHANGED seen,
           NEW arrivals \in SUBSET (0..MaxEdits), PublishAs(m, Capture(me, arrivals)),
           \A s \in Sources : me.snap[s].ref = NoRef /\ s \in me.physical => directory \in arrivals
    PROVE  \E g : Moves(m, g)
<1>0. directory \in 0..MaxEdits
  BY DEF IndInv, TypeOK
<1>1. PICK n \in Capture(me, arrivals) :
         session' = [session EXCEPT ![m] = Published(n)]
  BY DEF PublishAs, Step, Published
<1>2. PICK g : g = Published(n)
  OBVIOUS
<1>3. /\ g \in Sessions
      /\ g.pc = "ready" /\ g.base = NoBaseline /\ g.snap = me.snap /\ g.built = TRUE
      /\ g.checkpoint \in {me.checkpoint, NoCheckpoint}
      /\ g.dirs = me.base.dirs \cup {directory}
      /\ g.arrivals = me.base.arrivals \cup arrivals
  <2>1. PICK c \in {me.checkpoint, NoCheckpoint} :
          n = [me EXCEPT !.checkpoint = c,
                         !.dirs = me.base.dirs \cup {directory},
                         !.arrivals = me.base.arrivals \cup arrivals]
    BY <1>1 DEF Capture
  <2>2. c \in Checkpoint /\ me.base.dirs \subseteq 0..MaxEdits /\ me.base.arrivals \subseteq 0..MaxEdits
    BY Constants DEF Sessions, Baselines
  <2> DEFINE D == me.base.dirs \cup {directory}
             A == me.base.arrivals \cup arrivals
  <2>3. D \in SUBSET (0..MaxEdits) /\ A \in SUBSET (0..MaxEdits) /\ NoBaseline \in Baselines
    BY <1>0, <2>2, Constants
  <2>4. n = [me EXCEPT !.checkpoint = c, !.dirs = D, !.arrivals = A]
    BY <2>1
  <2> HIDE DEF D, A
  <2>5. /\ n \in Sessions /\ n.snap = me.snap /\ n.checkpoint = c /\ n.dirs = D /\ n.arrivals = A
    BY <2>2, <2>3, <2>4 DEF Sessions
  <2>6. /\ g \in Sessions /\ g.pc = "ready" /\ g.base = NoBaseline /\ g.built = TRUE
        /\ g.snap = n.snap /\ g.checkpoint = n.checkpoint /\ g.dirs = n.dirs /\ g.arrivals = n.arrivals
    BY <1>2, <2>3, <2>5 DEF Sessions, Published
  <2> QED BY <2>5, <2>6 DEF D, A
<1>4. session' = [session EXCEPT ![m] = g]
  BY <1>1, <1>2
<1>5. me.snap \in [Sources -> Snapshots] /\ me.checkpoint \in Checkpoint
  BY SessionFields
<1>6. g.checkpoint \in Checkpoint /\ CheckOK(g.checkpoint)
  BY <1>3, <1>5, Constants, NothingOK DEF SessionOK, IndInv
<1>7. Tracked(g)
  <2> SUFFICES ASSUME Told(g)
               PROVE  /\ directory \in g.dirs
                      /\ \A s \in Sources : g.snap[s].ref = NoRef => directory \in g.arrivals
                      /\ \A s \in Sources : Kept(g, s)
    BY DEF Tracked
  <2>1. g.checkpoint = me.checkpoint
    BY <1>3 DEF Told, Readable
  <2>2. Readable(me) /\ Since(g) = Since(me)
    BY <2>1 DEF Told, Readable, Since
  <2>3. \A r \in Since(g) :
          /\ ~(r.kind = "directory" /\ r.dir \in g.dirs)
          /\ ~(r.kind = "arrival" /\ r.dir \in g.arrivals)
          /\ ~(r.kind \in {"topology", "arrival"} /\ \E s \in Sources : About(g, r, s))
    BY DEF Told, TopologyChanged
  <2>4. ~Swapped(me)
    BY <1>3, <2>2, <2>3, MovedFields DEF Swapped
  <2>5. /\ TopologyWill(me, Sources) \/ \A s \in Sources : Kept(me, s)
        /\ \A s \in Sources : me.snap[s].ref = NoRef =>
             directory \in me.base.arrivals \/ s \in me.physical
    <3>1. Sources \ me.todo = Sources
      OBVIOUS
    <3> QED BY <2>2, <2>4, <3>1 DEF SessionOK, TrackedSoFar
  <2>6. \A s \in Sources : g.snap[s].ref = NoRef => directory \in g.arrivals
    BY <1>3, <2>5
  <2>7. ~TopologyWill(me, Sources)
    BY <1>3, <2>2, <2>3, <2>4, <2>6 DEF TopologyWill, About
  <2>8. \A s \in Sources : Kept(g, s)
    BY <1>3, <2>2, <2>5, <2>7 DEF Kept, Named, About
  <2> QED BY <1>3, <2>6, <2>8
<1>8. Tracked(g)' /\ CheckOK(g.checkpoint)' /\ SnapsOK(g.snap)'
  BY <1>3, <1>5, <1>6, <1>7, TrackedStays, CheckStays, SnapsStay DEF SessionOK
<1>9. Fresh(m, g.snap, Sources)'
  BY <1>3 DEF SessionOK, Fresh
<1> QED BY <1>3, <1>4, <1>8, <1>9, NothingStays DEF Moves, SessionOK

(* The full and the sparse publication.                                    *)
LEMMA PublishesMove ==
    ASSUME IndInv, SameStampWrites = FALSE, [Next]_vars, NEW m \in Managers,
           PublishFull(m) \/ PublishSparse(m)
    PROVE  \E g : Moves(m, g)
<1>0. UNCHANGED <<file, seen>> /\ directory \in 0..MaxEdits
  BY DEF PublishFull, PublishSparse, PublishAs, Step, treeVars, IndInv, TypeOK
<1>1. PICK me \in Sessions : session[m] = me /\ SessionOK(m, me)
  BY <1>0, MeNow
<1>2. CASE PublishFull(m)
  <2>1. /\ PublishAs(m, Capture(me, {})) /\ me.pc = "acquire" /\ me.todo = {} /\ me.base = NoBaseline
    BY <1>1, <1>2 DEF PublishFull
  <2>2. \A s \in Sources : me.snap[s].ref # NoRef
    BY <1>1, <2>1 DEF SessionOK
  <2> QED BY <1>0, <1>1, <2>1, <2>2, PublishMoves
<1>3. CASE PublishSparse(m)
  <2> DEFINE lost == {s \in me.physical : me.snap[s] = Nothing}
  <2>1. PICK arrivals \in SUBSET (0..MaxEdits) : arrivals = IF lost = {} THEN {} ELSE {directory}
    BY <1>0
  <2>2. /\ PublishAs(m, Capture(me, arrivals)) /\ me.pc = "acquire" /\ me.todo = {}
    BY <1>1, <1>3, <2>1 DEF PublishSparse
  <2>3. \A s \in Sources : me.snap[s].ref = NoRef /\ s \in me.physical => directory \in arrivals
    BY <1>1, <2>1 DEF SessionOK, SnapsOK, SnapOK
  <2> QED BY <1>0, <1>1, <2>2, <2>3, PublishMoves
<1> QED BY <1>2, <1>3

(* UNLOAD, or a construction that is abandoned.                            *)
LEMMA ForgetMoves ==
    ASSUME IndInv, SameStampWrites = FALSE, [Next]_vars, NEW m \in Managers, Forget(m)
    PROVE  \E g : Moves(m, g)
<1>1. session' = [session EXCEPT ![m] = Unloaded]
  BY DEF Forget, Step
<1> QED BY <1>1, UnloadedType, NothingStays DEF Moves, SessionOK

(* SAVE: the session goes on, and CURRENT is the Generation it holds.      *)
LEMMA SaveMoves ==
    ASSUME IndInv, SameStampWrites = FALSE, [Next]_vars, NEW m \in Managers, Save(m)
    PROVE  /\ \E g : Moves(m, g)
           /\ current' \in Baselines
           /\ \A b \in {current'} : GenerationOK(b)'
<1>0. UNCHANGED <<file, seen>> /\ session[m].pc = "ready"
  BY DEF Save, treeVars
<1>1. PICK me \in Sessions :
         /\ session[m] = me /\ SessionOK(m, me)
         /\ SnapsOK(me.snap)' /\ CheckOK(me.checkpoint)' /\ GenerationOK(me.base)'
         /\ me.pc \notin {"unloaded", "ready"} => Fresh(m, file, Sources)'
  BY <1>0, MeNow
<1>2. PICK k \in 0..MaxSaves : k = current.tx + 1
  <2>1. current.tx \in 0..MaxSaves /\ current.tx < MaxSaves
    BY DEF IndInv, TypeOK, Baselines, Save
  <2> QED BY <2>1, BuildAssumption
<1>3. PICK g : g = [me EXCEPT !.persisted = k]
  OBVIOUS
<1>4. /\ g \in Sessions
      /\ g.pc = me.pc /\ g.checkpoint = me.checkpoint /\ g.snap = me.snap /\ g.base = me.base
      /\ g.built = me.built /\ g.dirs = me.dirs /\ g.arrivals = me.arrivals
  BY <1>3 DEF Sessions
<1>5. session' = [session EXCEPT ![m] = g]
  BY <1>1, <1>2, <1>3 DEF Save
<1>6. PICK b : b = Materialize(me)
  OBVIOUS
<1>7. /\ b \in Baselines /\ b.snap = me.snap /\ b.dirs = me.dirs /\ b.arrivals = me.arrivals
      /\ b.checkpoint \in {me.checkpoint, NoCheckpoint}
  BY <1>2, <1>6, Constants DEF Materialize, Baselines, Sessions
<1>8. \A h : h.checkpoint = me.checkpoint /\ h.snap = me.snap /\ h.dirs = me.dirs
              /\ h.arrivals = me.arrivals => Tracked(h)
  <2>1. Tracked(me)
    BY <1>0, <1>1 DEF SessionOK
  <2> QED BY <2>1 DEF Tracked, Told, Readable, TopologyChanged, Since, Kept, Named, About
<1>9. GenerationOK(b)
  <2>1. Tracked(b)
    BY <1>7, <1>8, NoneTracked
  <2>2. CheckOK(b.checkpoint)
    BY <1>1, <1>7, NothingOK DEF SessionOK, IndInv
  <2> QED BY <1>1, <1>7, <2>1, <2>2 DEF SessionOK, GenerationOK
<1>10. current' = b
  BY <1>1, <1>6 DEF Save
<1>11. Tracked(g)'
  <2>1. Tracked(g) /\ g.checkpoint \in Checkpoint /\ CheckOK(g.checkpoint)
    BY <1>1, <1>4, <1>8, SessionFields DEF SessionOK
  <2> QED BY <2>1, TrackedStays
<1>12. g.built => Fresh(m, g.snap, Sources)'
  BY <1>0, <1>1, <1>4 DEF SessionOK, Fresh
<1>13. Moves(m, g)
  BY <1>0, <1>1, <1>4, <1>5, <1>11, <1>12 DEF Moves, SessionOK
<1> QED BY <1>7, <1>9, <1>10, <1>13, GenerationStays

(* A step of one manager leaves the sessions of the others alone.          *)
LEMMA OthersStill ==
    ASSUME IndInv, NEW m \in Managers, Build(m) \/ Load(m) \/ Save(m) \/ Unload(m)
    PROVE  /\ UNCHANGED <<file, faults>>
           /\ seen' \in [Managers -> [Sources -> SUBSET (Contents \cup {Absent})]]
           /\ \A k \in Managers : k # m => seen'[k] = seen[k]
<1>0. seen \in [Managers -> [Sources -> SUBSET (Contents \cup {Absent})]] /\ file \in [Sources -> Snapshots]
  BY DEF IndInv, TypeOK
<1>1. UNCHANGED <<file, faults>>
  BY DEF Build, Load, Save, Unload, BeginFull, BeginIncremental, Begin, CaptureCheckpoint, DetectFast,
         DetectFallback, Scan, Detected, ActivateBaseline, Activate, Acquire, AcquireUnchanged,
         AcquireMissing, AcquirePresent, PublishUnchanged, PublishFull, PublishSparse, PublishAs,
         AbandonConstruction, Forget, Step, treeVars
<1>2. \E v \in [Sources -> SUBSET (Contents \cup {Absent})] : seen' = [seen EXCEPT ![m] = v]
  <2>1. CASE UNCHANGED seen
    <3>1. seen' = [seen EXCEPT ![m] = seen[m]] /\ seen[m] \in [Sources -> SUBSET (Contents \cup {Absent})]
      BY <1>0, <2>1
    <3> QED BY <3>1
  <2>2. CASE seen' = [seen EXCEPT ![m] = [s \in Sources |-> {}]]
    <3>1. [s \in Sources |-> {}] \in [Sources -> SUBSET (Contents \cup {Absent})]
      OBVIOUS
    <3> QED BY <2>2, <3>1
  <2>3. CASE seen' = [seen EXCEPT ![m] = [s \in Sources |-> {file[s].content}]]
    <3>1. \A s \in Sources : file[s].content \in Contents \cup {Absent}
      BY <1>0 DEF Snapshots
    <3>2. [s \in Sources |-> {file[s].content}] \in [Sources -> SUBSET (Contents \cup {Absent})]
      BY <3>1
    <3> QED BY <2>3, <3>2
  <2> QED
    BY <2>1, <2>2, <2>3
       DEF Build, Load, Save, Unload, BeginFull, BeginIncremental, Begin, CaptureCheckpoint, DetectFast,
           DetectFallback, Scan, ActivateBaseline, Acquire, PublishUnchanged, PublishFull, PublishSparse,
           AbandonConstruction, Forget
<1> QED BY <1>0, <1>1, <1>2

(* Every step of a manager takes its session to one that is in order.      *)
LEMMA ManagerMoves ==
    ASSUME IndInv, SameStampWrites = FALSE, [Next]_vars, NEW m \in Managers,
           Build(m) \/ Load(m) \/ Save(m) \/ Unload(m)
    PROVE  \E g : Moves(m, g)
BY BeginMoves, CaptureMoves, FastMoves, FallbackMoves, ScanMoves, ReadyMoves, AcquireMoves,
   PublishesMove, ForgetMoves, SaveMoves
   DEF Build, AbandonConstruction, Unload

(* Every session, through every step.                                      *)
LEMMA SessionsStep ==
    ASSUME IndInv, SameStampWrites = FALSE, [Next]_vars
    PROVE  /\ session' \in [Managers -> Sessions]
           /\ \A m \in Managers : \A g \in {session'[m]} : SessionOK(m, g)'
           /\ seen' \in [Managers -> [Sources -> SUBSET (Contents \cup {Absent})]]
<1>0. /\ session \in [Managers -> Sessions]
      /\ seen \in [Managers -> [Sources -> SUBSET (Contents \cup {Absent})]]
  BY DEF IndInv, TypeOK
<1>a. ASSUME NEW m \in Managers, session'[m] = session[m], seen'[m] = seen[m], UNCHANGED file
      PROVE  \A g \in {session'[m]} : SessionOK(m, g)'
  <2>1. PICK g \in Sessions : session[m] = g
    BY <1>0
  <2>2. SessionOK(m, g)
    BY <2>1 DEF IndInv
  <2>3. g.pc \notin {"unloaded", "ready"} => Fresh(m, file, Sources)'
    BY <1>a, <2>2 DEF SessionOK, Fresh
  <2>4. SessionOK(m, g)'
    BY <1>a, <2>2, <2>3, SessionStays
  <2> QED BY <1>a, <2>1, <2>4
<1>1. ASSUME NEW n, TreeMove(n)
      PROVE  /\ session' \in [Managers -> Sessions]
             /\ \A m \in Managers : \A g \in {session'[m]} : SessionOK(m, g)'
             /\ seen' \in [Managers -> [Sources -> SUBSET (Contents \cup {Absent})]]
  <2>0. UNCHANGED session /\ file' \in [Sources -> Snapshots]
    BY <1>1 DEF TreeMove
  <2>1. \A s \in Sources : file'[s].content \in Contents \cup {Absent}
    BY <2>0 DEF Snapshots
  <2>2. seen' = [m \in Managers |-> [s \in Sources |->
                   IF Building(m) THEN seen[m][s] \cup {file'[s].content} ELSE seen[m][s]]]
    BY <1>1 DEF TreeMove
  <2>3. seen' \in [Managers -> [Sources -> SUBSET (Contents \cup {Absent})]]
    BY <1>0, <2>1, <2>2
  <2>4. ASSUME NEW m \in Managers
        PROVE  \A g \in {session'[m]} : SessionOK(m, g)'
    <3>1. PICK g \in Sessions : session[m] = g
      BY <1>0
    <3>2. SessionOK(m, g)
      BY <3>1 DEF IndInv
    <3>3. \A s \in Sources : seen[m][s] \subseteq seen'[m][s]
      BY <2>2
    <3>4. g.pc \notin {"unloaded", "ready"} => Fresh(m, file, Sources)'
      BY <2>2, <3>1 DEF Building, Fresh
    <3>5. SessionOK(m, g)'
      BY <3>2, <3>3, <3>4, SessionStays
    <3> QED BY <2>0, <3>1, <3>5
  <2> QED BY <1>0, <2>0, <2>3, <2>4
<1>2. ASSUME NEW m \in Managers, Build(m) \/ Load(m) \/ Save(m) \/ Unload(m)
      PROVE  /\ session' \in [Managers -> Sessions]
             /\ \A k \in Managers : \A g \in {session'[k]} : SessionOK(k, g)'
             /\ seen' \in [Managers -> [Sources -> SUBSET (Contents \cup {Absent})]]
  <2>1. PICK g : Moves(m, g)
    BY <1>2, ManagerMoves
  <2>2. g \in Sessions /\ session' = [session EXCEPT ![m] = g] /\ SessionOK(m, g)'
    BY <2>1 DEF Moves
  <2>3. /\ UNCHANGED file
        /\ seen' \in [Managers -> [Sources -> SUBSET (Contents \cup {Absent})]]
        /\ \A k \in Managers : k # m => seen'[k] = seen[k]
    BY <1>2, OthersStill
  <2>4. session' \in [Managers -> Sessions] /\ session'[m] = g
        /\ \A k \in Managers : k # m => session'[k] = session[k]
    BY <1>0, <2>2
  <2>5. ASSUME NEW k \in Managers
        PROVE  \A h \in {session'[k]} : SessionOK(k, h)'
    BY <1>a, <2>2, <2>3, <2>4
  <2> QED BY <2>3, <2>4, <2>5
<1>3. CASE UNCHANGED <<session, seen, file>>
  BY <1>0, <1>3, <1>a
<1>4. CASE Truncate \/ Recreate \/ UNCHANGED vars
  BY <1>3, <1>4 DEF Truncate, Recreate, JournalFault, treeVars, vars
<1>5. CASE EditTree
  BY <1>1, <1>5, EditMoves
<1> QED BY <1>2, <1>4, <1>5 DEF Next

(* What CURRENT selects stays in order.                                    *)
LEMMA CurrentStep ==
    ASSUME IndInv, SameStampWrites = FALSE, [Next]_vars
    PROVE  current' \in Baselines /\ \A b \in {current'} : GenerationOK(b)'
<1>1. ASSUME NEW m \in Managers, Save(m)
      PROVE  current' \in Baselines /\ \A b \in {current'} : GenerationOK(b)'
  BY <1>1, SaveMoves
<1>2. CASE UNCHANGED current
  <2>1. PICK b \in Baselines : current = b
    BY DEF IndInv, TypeOK
  <2>2. GenerationOK(b)
    BY <2>1 DEF IndInv
  <2> QED BY <1>2, <2>1, <2>2, GenerationStays
<1>3. ASSUME NEW m \in Managers, Build(m) \/ Load(m) \/ Unload(m)
      PROVE  UNCHANGED current
  BY <1>3 DEF Build, Load, Unload, BeginFull, BeginIncremental, Begin, CaptureCheckpoint, DetectFast,
              DetectFallback, Scan, Detected, ActivateBaseline, Activate, Acquire, AcquireUnchanged,
              AcquireMissing, AcquirePresent, PublishUnchanged, PublishFull, PublishSparse, PublishAs,
              AbandonConstruction, Forget, Step
<1>4. CASE Truncate \/ Recreate \/ UNCHANGED vars
  BY <1>2, <1>4 DEF Truncate, Recreate, JournalFault, vars
<1>5. CASE EditTree
  BY <1>2, <1>5, EditMoves DEF TreeMove
<1> QED BY <1>1, <1>2, <1>3, <1>4, <1>5 DEF Next

(* The tree and the journal keep their types.                              *)
LEMMA WorldStep ==
    ASSUME IndInv, SameStampWrites = FALSE, [Next]_vars
    PROVE  /\ file' \in [Sources -> Snapshots] /\ directory' \in 0..MaxEdits
           /\ journal' \in Seq(Records) /\ firstUsn' \in 0..Len(journal')
           /\ journalId' \in 1..(MaxJournalFaults + 1) /\ edits' \in 0..MaxEdits
           /\ faults' \in 0..MaxJournalFaults /\ journalId' <= faults' + 1
<1>0. /\ file \in [Sources -> Snapshots] /\ directory \in 0..MaxEdits
      /\ journal \in Seq(Records) /\ firstUsn \in 0..Len(journal) /\ Len(journal) \in Nat
      /\ journalId \in 1..(MaxJournalFaults + 1) /\ edits \in 0..MaxEdits
      /\ faults \in 0..MaxJournalFaults /\ journalId <= faults + 1
      /\ MaxEdits \in Nat /\ MaxJournalFaults \in Nat
  BY BuildAssumption DEF IndInv, TypeOK
<1>1. CASE EditTree
  <2>1. PICK n : TreeMove(n)
    BY <1>1, EditMoves
  <2>2. /\ n \in Seq(Records) /\ journal' = journal \o n /\ edits' = edits + 1 /\ edits < MaxEdits
        /\ UNCHANGED <<firstUsn, journalId, faults>>
        /\ file' \in [Sources -> Snapshots] /\ directory' \in 0..MaxEdits
    BY <2>1 DEF TreeMove
  <2>3. journal' \in Seq(Records) /\ Len(journal') = Len(journal) + Len(n) /\ Len(n) \in Nat
    BY <1>0, <2>2, ConcatProperties
  <2> QED BY <1>0, <2>2, <2>3
<1>2. CASE Truncate
  <2>1. /\ faults < MaxJournalFaults /\ faults' = faults + 1 /\ firstUsn' \in (firstUsn + 1)..Len(journal)
        /\ UNCHANGED <<file, directory, edits, journal, journalId>>
    BY <1>2 DEF Truncate, JournalFault, treeVars
  <2> QED BY <1>0, <2>1
<1>3. CASE Recreate
  <2>1. /\ faults < MaxJournalFaults /\ faults' = faults + 1 /\ firstUsn' = 0 /\ journal' = <<>>
        /\ journalId' = journalId + 1
        /\ UNCHANGED <<file, directory, edits>>
    BY <1>3 DEF Recreate, JournalFault, treeVars
  <2> QED BY <1>0, <2>1
<1>4. CASE UNCHANGED <<treeVars, journalVars, faults>>
  BY <1>0, <1>4 DEF treeVars, journalVars
<1>5. ASSUME NEW m \in Managers, Build(m) \/ Load(m) \/ Save(m) \/ Unload(m)
      PROVE  UNCHANGED <<treeVars, journalVars, faults>>
  BY <1>5 DEF Build, Load, Save, Unload, BeginFull, BeginIncremental, Begin, CaptureCheckpoint, DetectFast,
              DetectFallback, Scan, Detected, ActivateBaseline, Activate, Acquire, AcquireUnchanged,
              AcquireMissing, AcquirePresent, PublishUnchanged, PublishFull, PublishSparse, PublishAs,
              AbandonConstruction, Forget, Step
<1> QED BY <1>1, <1>2, <1>3, <1>4, <1>5 DEF Next, vars

-----------------------------------------------------------------------------
(* The theorems                                                            *)

(* The first tree, journal and empty store satisfy the invariant.          *)
LEMMA InitInv == Init => IndInv
<1> SUFFICES ASSUME Init
             PROVE  IndInv
  OBVIOUS
<1>1. PICK c \in [Sources -> Contents] :
         file = [s \in Sources |-> [content |-> c[s], stamp |-> 0, ref |-> <<s, 0>>]]
  BY DEF Init
<1>2. \A s \in Sources : file[s] \in Snapshots /\ file[s].stamp = 0 /\ file[s].ref # NoRef
  BY <1>1, BuildAssumption, PairIsNoRef DEF Snapshots, Refs
<1>3. InJournal(NoCheckpoint)
  BY DEF Init, InJournal, NoCheckpoint
<1>4. TypeOK
  <2>1. file \in [Sources -> Snapshots]
    BY <1>1, <1>2
  <2>2. session \in [Managers -> Sessions] /\ \A m \in Managers : session[m] = Unloaded
    BY UnloadedType DEF Init
  <2>3. InJournal(current.checkpoint) /\ \A m \in Managers : InJournal(session[m].checkpoint)
    BY <1>3, <2>2, UnloadedType, Constants DEF Init
  <2>4. current \in Baselines
    BY Constants DEF Init
  <2>5. seen \in [Managers -> [Sources -> SUBSET (Contents \cup {Absent})]]
    BY DEF Init
  <2>6. /\ directory \in 0..MaxEdits /\ journal \in Seq(Records) /\ firstUsn \in 0..Len(journal)
        /\ journalId \in 1..(MaxJournalFaults + 1) /\ edits \in 0..MaxEdits
        /\ faults \in 0..MaxJournalFaults
    BY BuildAssumption DEF Init
  <2> QED BY <2>1, <2>2, <2>3, <2>4, <2>5, <2>6 DEF TypeOK
<1>5. SnapsOK(file)
  BY <1>2 DEF SnapsOK, SnapOK, Init
<1>6. \A g \in {current} : GenerationOK(g)
  BY <1>4, NothingOK DEF Init
<1>7. \A m \in Managers : \A g \in {session[m]} : SessionOK(m, g)
  <2>1. \A m \in Managers : session[m] = Unloaded
    BY DEF Init
  <2>2. \A m \in Managers : SessionOK(m, Unloaded)
    BY <1>4, NothingOK, UnloadedType DEF SessionOK
  <2> QED BY <2>1, <2>2
<1>8. journalId <= faults + 1
  BY DEF Init
<1> QED BY <1>4, <1>5, <1>6, <1>7, <1>8 DEF IndInv

(* Every step keeps the invariant.                                         *)
LEMMA StepInv ==
    ASSUME IndInv, SameStampWrites = FALSE, [Next]_vars
    PROVE  IndInv'
<1>1. /\ session' \in [Managers -> Sessions]
      /\ \A m \in Managers : \A g \in {session'[m]} : SessionOK(m, g)'
      /\ seen' \in [Managers -> [Sources -> SUBSET (Contents \cup {Absent})]]
  BY SessionsStep
<1>2. current' \in Baselines /\ \A b \in {current'} : GenerationOK(b)'
  BY CurrentStep
<1>3. InJournal(current.checkpoint)'
  <2>1. PICK b : current' = b
    OBVIOUS
  <2>2. InJournal(b.checkpoint)'
    BY <1>2, <2>1 DEF GenerationOK, CheckOK
  <2> QED BY <2>1, <2>2 DEF InJournal
<1>4. ASSUME NEW m \in Managers
      PROVE  InJournal(session[m].checkpoint)'
  <2>1. PICK g : session'[m] = g
    OBVIOUS
  <2>2. InJournal(g.checkpoint)'
    BY <1>1, <2>1 DEF SessionOK, CheckOK
  <2> QED BY <2>1, <2>2 DEF InJournal
<1>5. TypeOK' /\ (journalId <= faults + 1)'
  BY <1>1, <1>2, <1>3, <1>4, WorldStep DEF TypeOK
<1> QED BY <1>1, <1>2, <1>5, FilesStay DEF IndInv

(* The invariant holds in every behaviour.                                 *)
THEOREM Inductive ==
    ASSUME SameStampWrites = FALSE
    PROVE  Spec => []IndInv
BY InitInv, StepInv, PTL DEF Spec

(* Types hold, and no checkpoint is ahead of its journal.                  *)
THEOREM TypeCorrect ==
    ASSUME SameStampWrites = FALSE
    PROVE  Spec => []TypeOK
<1>1. IndInv => TypeOK
  BY DEF IndInv
<1> QED BY <1>1, Inductive, PTL

(* What a BUILD publishes was in the files while it ran.                   *)
THEOREM BuildsFresh ==
    ASSUME SameStampWrites = FALSE
    PROVE  Spec => []ReadyFresh
<1>1. IndInv => ReadyFresh
  BY DEF IndInv, SessionOK, Fresh, ReadyFresh
<1> QED BY <1>1, Inductive, PTL

(* Every generation that may be the base of a BUILD is tracked.            *)
LEMMA GenerationsTracked ==
    ASSUME IndInv, NEW g \in Generations
    PROVE  Tracked(g)
BY DEF IndInv, Generations, GenerationOK, SessionOK

(* No edit since the checkpoint of a baseline is lost: the journal reports *)
(* it, or sends the detector to the full scan.                             *)
THEOREM EditsFound ==
    ASSUME SameStampWrites = FALSE
    PROVE  Spec => []NoLostEdit
<1>1. IndInv => NoLostEdit
  BY GenerationsTracked DEF NoLostEdit, Tracked, Kept, Named, Touched
<1> QED BY <1>1, Inductive, PTL

(* While the journal shows no topology change, every path is the file the  *)
(* index names.                                                            *)
THEOREM IndexNames ==
    ASSUME SameStampWrites = FALSE
    PROVE  Spec => []IndexExact
<1>1. IndInv => IndexExact
  BY GenerationsTracked DEF IndexExact, Tracked, Kept
<1> QED BY <1>1, Inductive, PTL
=============================================================================
