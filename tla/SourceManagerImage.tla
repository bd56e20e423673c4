------------------------ MODULE SourceManagerImage ------------------------
(***************************************************************************)
(* source_manager.bin (persistence/source_manager_image.cpp): the paths of *)
(* a Project's Sources, what each file looked like, the include graph in   *)
(* both directions, the roots, and the tables of file and directory        *)
(* references.                                                             *)
(*                                                                         *)
(* There are three writers.  The native one takes the arrays of a full     *)
(* build as they are.  The sparse one borrows the sections of the baseline *)
(* and splices in the physical records that changed; it refuses whatever   *)
(* it cannot express, with not_found.  The encoder writes everything from  *)
(* the source manager.                                                     *)
(***************************************************************************)
EXTENDS ChangeStateImage

CONSTANT SparseExtents    \* source_manager_sparse_extent_budget

SourcesMagic == "source_manager"
SourcesVersion == 3

SourceSections ==
  {"source_core", "physical_state", "graph_records", "forward_edges", "reverse_edges", "roots",
   "path_index", "path_bytes", "source_file_identity_index", "tracked_directory_identity_index"}

\* The sections a sparse image shares with its baseline.
DirectSections ==
  SourceSections \ {"physical_state", "source_file_identity_index",
                    "tracked_directory_identity_index"}

PathText(path) == [i \in 1..PathLength[path] |-> <<path, i>>]

NoPhysical == [present |-> FALSE, ticks |-> 0, size |-> 0, hash |-> ""]

PhysicalRecord(snapshot) ==
  IF snapshot = NoSnapshot THEN NoPhysical
  ELSE [present |-> TRUE, ticks |-> snapshot.ticks, size |-> TextLength[snapshot.text],
        hash |-> snapshot.text]

----------------------------------------------------------------------------
(* Reading.                                                                *)

ImageSources(image) == image.directory["source_core"].count

PathAt(image, s) ==
  LET core == image.sections["source_core"]
      bytes == image.sections["path_bytes"]
  IN IF s \notin DOMAIN core \/ core[s].offset + core[s].length > Len(bytes) THEN <<>>
     ELSE SubSeq(bytes, core[s].offset + 1, core[s].offset + core[s].length)

PhysicalAt(image, s) == image.sections["physical_state"][s]

EdgesAt(edges, range) ==
  IF range.begin + range.count > Len(edges) THEN <<>> ELSE Selected(edges, range)

IncludesAt(image, s) ==
  EdgesAt(image.sections["forward_edges"], image.sections["graph_records"][s].includes)

DependentsAt(image, s) ==
  EdgesAt(image.sections["reverse_edges"], image.sections["graph_records"][s].dependents)

RootValid(image, source) == source \in 1..ImageSources(image)

FindSource(image, text) ==
  IF text = <<>> THEN 0
  ELSE Find(image.sections["path_index"], PathHash[text[1][1]], LAMBDA s : PathAt(image, s) = text)

FindSourceFile(image, ref) ==
  FindReference(image.sections["source_file_identity_index"], ref)

DirectoryWatchFlags(image, ref) ==
  FindReference(image.sections["tracked_directory_identity_index"], ref)

\* The slots a freeze may read back: a Source in range, known flags.
SlotsReadable(image) ==
  /\ \A e \in ToSet(image.sections["source_file_identity_index"]) :
       IF e.ref = 0 THEN e.value = {} ELSE e.value \subseteq 1..ImageSources(image) /\ e.value # {}
  /\ \A e \in ToSet(image.sections["tracked_directory_identity_index"]) :
       IF e.ref = 0 THEN e.value = {} ELSE e.value # {}

----------------------------------------------------------------------------
(* Binding.                                                                *)

OptionalIndex(n) == n = 0 \/ \E k \in 0..n : n = 2^k

\* Without a checkpoint there are no reference tables; with one there is a
\* table for the files.
CheckpointFits(image) ==
  LET files == image.directory["source_file_identity_index"].count
      directories == image.directory["tracked_directory_identity_index"].count
  IN /\ OptionalIndex(files) /\ OptionalIndex(directories)
     /\ IF image.header.counts.checkpoint
        THEN image.header.counts.sources = 0 \/ files # 0
        ELSE files = 0 /\ directories = 0

SourceCountsFit(image) ==
  LET n(s) == image.directory[s].count IN
  /\ \A s \in {"source_core", "physical_state", "graph_records"} :
       n(s) = image.header.counts.sources
  /\ n("roots") = image.header.counts.roots
  /\ n("forward_edges") = image.header.counts.forward
  /\ n("reverse_edges") = image.header.counts.reverse
  /\ \E k \in 0..n("path_index") : n("path_index") = 2^k

BindSources(image) ==
  LET bound == BindFile(image, SourcesMagic, SourcesVersion) IN
  IF bound # "ok" \/ (CheckpointFits(image) /\ SourceCountsFit(image)) THEN bound
  ELSE "artifact_corrupt"

BindSourceSections(image) ==
  LET bound == BindSections(image, SourcesMagic, SourcesVersion) IN
  IF bound # "ok" \/ (CheckpointFits(image) /\ SourceCountsFit(image)) THEN bound
  ELSE "artifact_corrupt"

\* verify_contents: checksums, ranges, edges between Sources, every path found.
VerifySources(image) ==
  LET all == 1..ImageSources(image)
      graph == image.sections["graph_records"]
  IN /\ SectionsIntact(image)
     /\ \A s \in all :
          /\ graph[s].includes.begin + graph[s].includes.count
               <= Len(image.sections["forward_edges"])
          /\ graph[s].dependents.begin + graph[s].dependents.count
               <= Len(image.sections["reverse_edges"])
          /\ PathAt(image, s) # <<>>
          /\ ToSet(IncludesAt(image, s)) \subseteq all
          /\ ToSet(DependentsAt(image, s)) \subseteq all
          /\ FindSource(image, PathAt(image, s)) = s
     /\ \A i \in DOMAIN image.sections["roots"] : RootValid(image, image.sections["roots"][i])

----------------------------------------------------------------------------
(* What all writers are given: the roots and the materialized capture.     *)

Options(roots, capture) == [roots |-> roots, capture |-> capture]

SourceCounts(m, options, sections) ==
  [sources |-> SourceCount(m), roots |-> Len(options.roots),
   forward |-> Len(sections["forward_edges"]), reverse |-> Len(sections["reverse_edges"]),
   checkpoint |-> options.capture.kind # "disabled"]

\* The preflight of the writers.
OptionsValid(m, options) ==
  /\ ToSet(options.roots) \subseteq 1..SourceCount(m)
  /\ options.capture.kind = "disabled"
       => options.capture.files = <<>> /\ options.capture.directories = <<>>
  /\ options.capture.kind # "disabled" /\ SourceCount(m) # 0 => options.capture.files # <<>>

SealedSources(m, options, sections) ==
  Sealed(SourcesMagic, SourcesVersion, SourceCounts(m, options, sections), sections)

Frozen(image, bound) == IF bound = "ok" THEN [status |-> "ok", image |-> image] ELSE [status |-> bound]

\* Paths one after another, and where each lies.
PathSections(m) ==
  FoldLeft(LAMBDA a, p : [core |-> Append(a.core, [offset |-> Len(a.bytes), length |-> PathLength[p]]),
                          bytes |-> a.bytes \o PathText(p)],
           [core |-> <<>>, bytes |-> <<>>], m.paths)

\* The sections that do not depend on how the edges are stored.
CommonSections(m, options) ==
  [source_core |-> PathSections(m).core, path_bytes |-> PathSections(m).bytes,
   physical_state |-> [s \in 1..SourceCount(m) |-> PhysicalRecord(Current(m, s))],
   roots |-> options.roots,
   path_index |-> InsertAll(EmptyIndex(Slots(SourceCount(m))),
                    [s \in 1..SourceCount(m) |-> [hash |-> PathHash[m.paths[s]], id |-> s]]),
   source_file_identity_index |-> options.capture.files,
   tracked_directory_identity_index |-> options.capture.directories]

\* freeze_source_manager_native_image: arenas and records as the manager of a
\* full build keeps them.
FreezeNative(m, options) ==
  LET common == CommonSections(m, options)
      edges == [graph_records |-> m.graph, forward_edges |-> m.forward, reverse_edges |-> m.reverse]
      image == SealedSources(m, options, [s \in SourceSections |->
                 IF s \in DOMAIN edges THEN edges[s] ELSE common[s]])
  IN IF m.baseline # 0 THEN [status |-> "invalid_state"]
     ELSE IF ~OptionsValid(m, options) THEN [status |-> "invalid_argument"]
     ELSE Frozen(image, BindSourceSections(image))

\* Current edges one list after another: ranges that were replaced are gone.
CompactEdges(m) ==
  FoldLeft(LAMBDA a, s :
             [graph |-> Append(a.graph,
                [includes |-> [begin |-> Len(a.forward), count |-> Len(Includes(m, s))],
                 dependents |-> [begin |-> Len(a.reverse), count |-> Len(Dependents(m, s))]]),
              forward |-> a.forward \o Includes(m, s),
              reverse |-> a.reverse \o Dependents(m, s)],
           [graph |-> <<>>, forward |-> <<>>, reverse |-> <<>>], SlotsFrom(1, SourceCount(m)))

\* encode_source_manager_image: everything, and then read back.
EncodeSources(m, options) ==
  LET common == CommonSections(m, options)
      compact == CompactEdges(m)
      image == SealedSources(m, options, [s \in SourceSections |->
                 CASE s = "graph_records" -> compact.graph
                   [] s = "forward_edges" -> compact.forward
                   [] s = "reverse_edges" -> compact.reverse
                   [] OTHER -> common[s]])
  IN IF ~OptionsValid(m, options) THEN [status |-> "invalid_argument"]
     ELSE IF BindSources(image) = "ok" /\ ~VerifySources(image) THEN [status |-> "artifact_corrupt"]
     ELSE Frozen(image, BindSources(image))

----------------------------------------------------------------------------
(* The sparse image.                                                       *)

\* Pieces of the file: the prefix, each patched record, what lies before it
\* and after the last one, and the two tables.
ExtentCount(image, patched) ==
  2 + Cardinality(patched) + Cardinality({s \in patched : s - 1 \notin patched})
    + Cardinality({s \in {"source_file_identity_index", "tracked_directory_identity_index"} :
                     image.sections[s] # <<>>})

\* Mutant: the include lists of the patched Sources are not compared.
SparseEligibleAnyIncludes(m, image, options, updates) ==
  /\ SourceCount(m) = ImageSources(image) /\ SourceCount(m) # 0
  /\ options.roots = image.sections["roots"]
  /\ Len(options.capture.files) = Len(image.sections["source_file_identity_index"])
  /\ Len(options.capture.directories) = Len(image.sections["tracked_directory_identity_index"])
  /\ ExtentCount(image, ToSet(updates)) <= SparseExtents

\* Everything the sparse form cannot express.
SparseEligible(m, image, options, updates) ==
  /\ SourceCount(m) = ImageSources(image) /\ SourceCount(m) # 0
  /\ options.roots = image.sections["roots"]
  /\ Len(options.capture.files) = Len(image.sections["source_file_identity_index"])
  /\ Len(options.capture.directories) = Len(image.sections["tracked_directory_identity_index"])
  /\ ExtentCount(image, ToSet(updates)) <= SparseExtents
  /\ \A s \in ToSet(updates) : Includes(m, s) = IncludesAt(image, s)

\* The directory and header of the baseline with three checksums patched.
SealedOver(image, m, options, sections) ==
  LET directory == [s \in DOMAIN image.directory |->
                      IF s \in DirectSections THEN image.directory[s]
                      ELSE [image.directory[s] EXCEPT !.crc = Checksum(sections[s])]]
      header == [image.header EXCEPT
                   !.counts.sources = SourceCount(m), !.counts.roots = Len(options.roots),
                   !.counts.checkpoint = options.capture.kind # "disabled",
                   !.directory_crc = Checksum(directory)]
  IN [header |-> header, header_crc |-> Checksum(header), directory |-> directory,
      sections |-> sections]

\* freeze_source_manager_sparse_baseline_image; updates are the Sources of the
\* capture's overlay.
FreezeSparse(m, image, options, updates) ==
  LET patched == ToSet(updates)
      physical == [s \in 1..SourceCount(m) |->
                     IF s \in patched THEN PhysicalRecord(Current(m, s)) ELSE PhysicalAt(image, s)]
      sections == [s \in SourceSections |->
                     CASE s = "physical_state" -> physical
                       [] s = "source_file_identity_index" -> options.capture.files
                       [] s = "tracked_directory_identity_index" -> options.capture.directories
                       [] OTHER -> image.sections[s]]
      sparse == SealedOver(image, m, options, sections)
  IN IF ~SparseEligible(m, image, options, updates) THEN [status |-> "not_found"]
     ELSE IF Cardinality(patched) # Len(updates) THEN [status |-> "invalid_argument"]
     ELSE Frozen(sparse, BindSourceSections(sparse))

----------------------------------------------------------------------------
(* Which writer a freeze uses.                                             *)

UpdatedSources(overlay) ==
  [i \in DOMAIN overlay.files |-> CHOOSE s \in overlay.files[i].value : TRUE]

\* The native one for a manager with arrays of its own, the sparse one over an
\* overlay capture, and the encoder when neither can.
FreezeSources(m, image, options, overlay) ==
  LET sparse == FreezeSparse(m, image, options, UpdatedSources(overlay))
  IN IF m.baseline = 0 THEN FreezeNative(m, options)
     ELSE IF overlay.kind = "overlay" /\ sparse.status # "not_found" THEN sparse
     ELSE EncodeSources(m, options)

\* What a Project opened over an image has as its source manager.  The texts
\* are in build_cache.bin; references are only in the tables.
OpenedManager(image, paths, texts) ==
  [paths |-> paths,
   snapshots |-> [s \in 1..ImageSources(image) |->
                    IF PhysicalAt(image, s).present
                    THEN [text |-> texts[s], ticks |-> PhysicalAt(image, s).ticks, ref |-> 0]
                    ELSE NoSnapshot],
   graph |-> image.sections["graph_records"], forward |-> image.sections["forward_edges"],
   reverse |-> image.sections["reverse_edges"], index |-> <<>>,
   baseline |-> ImageSources(image),
   text_bytes |-> Sum([s \in 1..ImageSources(image) |-> PhysicalAt(image, s).size])]
===========================================================================
