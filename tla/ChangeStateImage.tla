-------------------------- MODULE ChangeStateImage --------------------------
(***************************************************************************)
(* What a generation remembers of the file system in order to find its     *)
(* changes: the capture of file and directory references                   *)
(* (source/source_change_tracker.cpp) and the gates made of it,            *)
(* change_state.bin (persistence/change_state_image.cpp).                  *)
(*                                                                         *)
(* A full build captures the references of all Sources and of all their    *)
(* directories.  An incremental build only prepares an overlay with the    *)
(* Sources it read again; freezing the generation merges it with the       *)
(* tables of the baseline's source manager image.  The gates are Bloom     *)
(* filters that later journal records are tested against: a record they    *)
(* miss is a change nobody sees.                                           *)
(*                                                                         *)
(* Windows is modelled; elsewhere every capture is disabled.               *)
(***************************************************************************)
EXTENDS SourceManager

CONSTANTS Ancestors,      \* references of a path's directories, parent first
          BloomHashes,    \* probes of a filter (bloom_hash_count)
          BloomBits,      \* bits per entry (bloom_bits_per_entry)
          MinBloom        \* bits of the smallest filter

ASSUME BloomConstants ==
  /\ BloomHashes \in Nat \ {0} /\ BloomBits \in Nat \ {0}
  /\ \E k \in 0..MinBloom : MinBloom = 2^k

----------------------------------------------------------------------------
(* Reference tables: open addressing on the reference itself.              *)

NoReference == [ref |-> 0, value |-> {}]

\* next_capacity: load below 80%.
NextCapacity(n) ==
  LET required == n + (n + 3) \div 4 + 1
      fits == {k \in 0..n : MinSlots * 2^k >= required}
  IN MinSlots * 2^Min(fits)

EmptyReferences(slots) ==
  FoldLeft(LAMBDA t, i : Append(t, NoReference), <<>>, SlotsFrom(1, slots))

ReferenceProbe(table, ref) ==
  FirstProbe(table, LAMBDA k : table[Position(table, Mix(ref), k)].ref \in {0, ref})

\* A table that could not take an entry.
Overfull == <<>>

\* insert_file_identity: a reference belongs to one Source.
InsertFile(table, ref, source) ==
  LET at == Position(table, Mix(ref), ReferenceProbe(table, ref)) IN
  IF table = Overfull \/ ReferenceProbe(table, ref) = Len(table) THEN Overfull
  ELSE IF table[at].ref = ref /\ table[at].value # {source} THEN Overfull
  ELSE [table EXCEPT ![at] = [ref |-> ref, value |-> {source}]]

\* insert_directory_identity: the flags of a directory add up.
InsertDirectory(table, ref, flags) ==
  LET at == Position(table, Mix(ref), ReferenceProbe(table, ref)) IN
  IF table = Overfull \/ ReferenceProbe(table, ref) = Len(table) THEN Overfull
  ELSE [table EXCEPT ![at] = [ref |-> ref, value |-> @.value \cup flags]]

\* find_source_file and directory_watch_flags on a table.
FindReference(table, ref) ==
  IF table = <<>> THEN {}
  ELSE LET p == ReferenceProbe(table, ref) IN
       IF p = Len(table) THEN {} ELSE table[Position(table, Mix(ref), p)].value

UsedReferences(table) == SelectSeq(table, LAMBDA e : e.ref # 0)

InsertReferences(table, entries, Put(_, _, _)) ==
  FoldLeft(LAMBDA t, e : Put(t, e.ref, e.value), table, entries)

PutFile(t, ref, value) == InsertFile(t, ref, CHOOSE s \in value : TRUE)

----------------------------------------------------------------------------
(* Captures.                                                               *)

NoCapture == [kind |-> "disabled", files |-> <<>>, directories |-> <<>>]

\* unique_path_set: the directories of some paths, each once, with the
\* flags of all its insertions.  The parent of a missing file awaits it.
Directories(paths, missing) ==
  LET all == FlattenSeq([i \in DOMAIN paths |->
               LET up == Ancestors[paths[i]] IN
               [k \in DOMAIN up |->
                  [ref |-> up[k], value |-> IF k = 1 /\ i \in missing
                                            THEN {"topology", "arrival"} ELSE {"topology"}]]])
      refs == FoldLeft(LAMBDA seen, e : IF e.ref \in ToSet(seen) THEN seen ELSE Append(seen, e.ref),
                       <<>>, all)
  IN [i \in DOMAIN refs |->
        [ref |-> refs[i], value |-> UNION {e.value : e \in {x \in ToSet(all) : x.ref = refs[i]}}]]

PhysicalPaths(m, u) == [i \in DOMAIN u.physical |-> PathOf(m, u, u.physical[i])]

\* prepare_generation_source_change_capture: all Sources are present.
FullCapture(m, tracked) ==
  LET all == SlotsFrom(1, SourceCount(m))
      files == InsertReferences(EmptyReferences(NextCapacity(Len(all))),
                 [i \in DOMAIN all |-> [ref |-> Current(m, all[i]).ref, value |-> {all[i]}]], PutFile)
      watched == Directories(m.paths, {})
      directories == IF watched = <<>> THEN <<>>
                     ELSE InsertReferences(EmptyReferences(NextCapacity(Len(watched))),
                                           watched, InsertDirectory)
  IN IF ~tracked \/ files = Overfull THEN NoCapture
     ELSE [kind |-> "full", files |-> files, directories |-> directories]

\* Mutant: the parent of a file that went missing is watched for its topology
\* only.
OverlayCaptureNoArrival(m, u, tracked) ==
  IF ~tracked THEN NoCapture
  ELSE [kind |-> "overlay",
        files |-> [i \in DOMAIN u.physical |->
                     LET c == SnapshotOf(m, u, u.physical[i]) IN
                     [ref |-> IF c = NoSnapshot THEN 0 ELSE c.ref, value |-> {u.physical[i]}]],
        directories |-> Directories(PhysicalPaths(m, u), {})]

\* prepare_incremental_generation_source_change_capture: the Sources whose
\* file was read again or is gone, and their directories.
OverlayCapture(m, u, tracked) ==
  LET ref(s) == IF SnapshotOf(m, u, s) = NoSnapshot THEN 0 ELSE SnapshotOf(m, u, s).ref IN
  IF ~tracked THEN NoCapture
  ELSE [kind |-> "overlay",
        files |-> [i \in DOMAIN u.physical |->
                     [ref |-> ref(u.physical[i]), value |-> {u.physical[i]}]],
        directories |-> Directories(PhysicalPaths(m, u),
                         {i \in DOMAIN u.physical : SnapshotOf(m, u, u.physical[i]) = NoSnapshot})]

\* The files of the baseline whose Source was not read again, then the updates.
MaterializedFiles(capture, files) ==
  LET updated == UNION {e.value : e \in ToSet(capture.files)}
      kept == SelectSeq(UsedReferences(files), LAMBDA e : e.value \cap updated = {})
      present == SelectSeq(capture.files, LAMBDA e : e.ref # 0)
      bound == Len(UsedReferences(files)) + Len(capture.files)
  IN InsertReferences(EmptyReferences(NextCapacity(bound)), kept \o present, PutFile)

\* Directories keep the capacity of the baseline unless it is exhausted.
MaterializedDirectories(capture, directories) ==
  LET entries == UsedReferences(directories) \o capture.directories
      into(slots) == InsertReferences(EmptyReferences(slots), entries, InsertDirectory)
  IN IF entries = <<>> THEN <<>>
     ELSE IF directories # <<>> /\ into(Len(directories)) # Overfull THEN into(Len(directories))
     ELSE into(NextCapacity(Len(entries)))

\* materialize_generation_source_change_capture over the baseline's tables,
\* which must be there.
MaterializeCapture(capture, files, directories) ==
  LET merged == MaterializedFiles(capture, files) IN
  IF files = <<>> \/ merged = Overfull THEN [status |-> "artifact_corrupt", capture |-> NoCapture]
  ELSE [status |-> "ok",
        capture |-> IF UsedReferences(merged) = <<>> THEN NoCapture
                    ELSE [kind |-> "full", files |-> merged,
                          directories |-> MaterializedDirectories(capture, directories)]]

----------------------------------------------------------------------------
(* Gates.                                                                  *)

BloomSize(n) ==
  IF n = 0 THEN 0 ELSE MinBloom * 2^Min({k \in 0..(n * BloomBits) : MinBloom * 2^k >= n * BloomBits})

\* The probes of a reference: double hashing with an odd step.
BloomProbes(size, ref) ==
  {((Mix(ref) + i * (2 * ref + 1)) % size) + 1 : i \in 0..(BloomHashes - 1)}

BloomAdd(bloom, ref) == [i \in DOMAIN bloom |-> bloom[i] \/ i \in BloomProbes(Len(bloom), ref)]

BloomMaybe(bloom, ref) ==
  bloom # <<>> /\ ref # 0 /\ \A i \in BloomProbes(Len(bloom), ref) : bloom[i]

Bloom(refs) ==
  FoldLeft(BloomAdd, FoldLeft(LAMBDA b, i : Append(b, FALSE), <<>>, SlotsFrom(1, BloomSize(Len(refs)))),
           refs)

ChangeMagic == "change_state"
ChangeVersion == 3

RefsWith(table, flag) ==
  LET used == SelectSeq(UsedReferences(table), LAMBDA e : flag \in e.value) IN
  [i \in DOMAIN used |-> used[i].ref]

\* encode_change_state_image: one filter for files, two for directories.
EncodeChangeState(count, capture) ==
  LET files == UsedReferences(capture.files)
      image == Sealed(ChangeMagic, ChangeVersion,
                 [sources |-> count, checkpoint |-> capture.kind # "disabled"],
                 [source |-> Bloom([i \in DOMAIN files |-> files[i].ref]),
                  topology |-> Bloom(RefsWith(capture.directories, "topology")),
                  arrival |-> Bloom(RefsWith(capture.directories, "arrival"))])
  IN IF \E e \in ToSet(files) : ~(e.value \subseteq 1..count)
     THEN [status |-> "invalid_argument"] ELSE [status |-> "ok", image |-> image]

\* valid_checkpoint and bind: filters are powers of two; without a checkpoint
\* there are none, with one there is a filter for the Sources.
BindChangeState(image) ==
  LET bound == BindFile(image, ChangeMagic, ChangeVersion)
      n(s) == image.directory[s].count
      counts == image.header.counts
  IN IF bound # "ok" THEN bound
     ELSE IF /\ \A s \in DOMAIN image.directory : n(s) = 0 \/ \E k \in 0..n(s) : n(s) = 2^k
             /\ ~counts.checkpoint => \A s \in DOMAIN image.directory : n(s) = 0
             /\ counts.checkpoint /\ counts.sources # 0 => n("source") # 0
          THEN "ok" ELSE "artifact_corrupt"

VerifyChangeState(image) == SectionsIntact(image)

MayContainSourceFile(image, ref) == BloomMaybe(image.sections.source, ref)
MayWatchTopology(image, ref) == BloomMaybe(image.sections.topology, ref)
MayWatchArrival(image, ref) == BloomMaybe(image.sections.arrival, ref)
=============================================================================
