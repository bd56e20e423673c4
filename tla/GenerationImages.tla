------------------------- MODULE GenerationImages -------------------------
(***************************************************************************)
(* The generations of one Project, from files to images and back:          *)
(* project_manager::build over project_build_orchestrator.cpp, and         *)
(* freeze_project_generation (project_persistence.cpp).                    *)
(*                                                                         *)
(* BUILD either rebuilds everything from the roots, or opens the images of *)
(* the last saved generation and updates what changed on disk since.  SAVE *)
(* freezes the generation that was built into four images, verifies them   *)
(* against each other, and from then on they are the baseline.  An update  *)
(* that was not saved is lost with the next BUILD, which opens the         *)
(* baseline again.                                                         *)
(*                                                                         *)
(* The environment chooses what the disk holds at every build, whether the *)
(* volume has a change journal (tracked), and which threads could not be   *)
(* started.                                                                *)
(***************************************************************************)
EXTENDS BuildOrchestrator, BuildCacheImage

CONSTANTS Disks,          \* the contents of the disk a build may find
          Roots,          \* the paths of project.json
          LaunchOutcomes  \* how starting the encoder threads may end

VARIABLES manager,        \* the source_manager of the Project
          frontend,       \* its source_frontend_cache
          strings,        \* its string table, by string id
          identities,     \* its identity space, by slot
          roots,          \* the source ids of the roots
          capture,        \* the source_change capture of the generation
          disk,           \* the files the generation was built from
          finalized,      \* the images of a full build that is not saved yet
          stage,          \* none, built, updated, touched or saved
          saved,          \* how the last SAVE ended
          opened          \* what BUILD opens: the last saved generation

project == <<manager, frontend, strings, identities, roots, capture, disk, finalized>>
allvars == <<vars, project, stage, saved, opened>>

Limit == Cardinality(Sources)

----------------------------------------------------------------------------
(* Names.  Parsing interns the names of a Source and declares identities.  *)

NamesOf(f) ==
  [i \in DOMAIN f.types |-> f.types[i].identity]
    \o [i \in DOMAIN f.objects |-> f.objects[i].identity]
    \o [i \in DOMAIN f.members |-> f.members[i].name]
    \o [i \in DOMAIN f.enum_values |-> f.enum_values[i].name]

\* A race to intern that was lost leaves a hole before the new entries.
WithNew(table, entries, lost) ==
  LET new == SelectSeq(Distinct(entries), LAMBDA e : e \notin ToSet(table)) IN
  table \o (IF lost /\ new # <<>> THEN <<Hole>> ELSE <<>>) \o new

Interned(table, f, parsed, lost) ==
  WithNew(table, FlattenSeq([i \in DOMAIN parsed |-> NamesOf(f[parsed[i]])]), lost)

RootIdentity == [kind |-> "root", parent |-> 0, name |-> 0]

DeclaredIdentities(f, table) ==
  LET record(kind, n) ==
        [kind |-> kind, parent |-> 1, name |-> FirstWhere(table, LAMBDA x : x = n)]
  IN [i \in DOMAIN f.types |-> record("type", f.types[i].identity)]
       \o [i \in DOMAIN f.objects |-> record("object", f.objects[i].identity)]

Identified(known, table, f, parsed, lost) ==
  WithNew(known, FlattenSeq([i \in DOMAIN parsed |-> DeclaredIdentities(f[parsed[i]], table)]), lost)

----------------------------------------------------------------------------
(* Freezing: freeze_project_generation and the finalization of a full      *)
(* build.                                                                  *)

\* The Project as the encoders see it; was is the generation it was opened
\* over, and touch says whether slots were patched with what they held.
Encodable(names, slots, g, c, m, fc, was, touch) ==
  [strings |-> names, identities |-> slots, graph |-> g, cache |-> c, manager |-> m,
   frontend |-> fc, opened |-> was, touch |-> touch]

FirstFailure(results) ==
  LET failed == {i \in DOMAIN results : results[i] # "ok"} IN
  IF failed = {} THEN "ok" ELSE results[Min(failed)]

FrozenIf(status, sources, gates, build, compiled) ==
  IF status # "ok" THEN Failed(status)
  ELSE [status |-> "ok", images |->
          [sources |-> sources.image, change |-> gates.image, cache |-> build.image,
           compiled |-> compiled.image]]

\* change-state.bin has no audit in its encoder: it is bound and verified.
AuditChange(gates) ==
  IF gates.status # "ok" THEN gates.status
  ELSE FirstFailure(<<BindChangeState(gates.image),
                      IF VerifyChangeState(gates.image) THEN "ok" ELSE "artifact_corrupt">>)

FrozenInOrder(sources, gates, build, compiled) ==
  FrozenIf(FirstFailure(<<sources.status, gates.status, build.status, AuditChange(gates),
                          compiled.status>>),
           sources, gates, build, compiled)

\* A full build is frozen without compiled.bin, which is then made of the
\* Graph storage itself.  No image is verified against another one.
FinalizeFull(p, ids, change, launch) ==
  FrozenInOrder(FreezeNative(p.manager, Options(ids, change)),
                EncodeChangeState(SourceCount(p.manager), change),
                EncodeBuildCache(p, change, change, NoImage),
                BuildFullG0(p, launch))

\* An overlay capture is merged with the tables of the baseline.
Materialize(change, sources) ==
  IF change.kind = "overlay"
  THEN MaterializeCapture(change, sources.sections["source_file_identity_index"],
                          sources.sections["tracked_directory_identity_index"])
  ELSE [status |-> "ok", capture |-> change]

\* The images are bound and, when each is sound, checked against each other.
CrossCheck(p, writer, compiled, sources, gates, build) ==
  FirstFailure(
    <<BindCompiled(compiled), BindChangeState(gates),
      IF VerifyChangeState(gates) THEN "ok" ELSE "artifact_corrupt",
      IF VerifyGeneration(build, compiled, sources, p, writer) THEN "ok" ELSE "artifact_corrupt">>)

Verified(p, writer, encoded, compiled, sources, gates, build) ==
  IF encoded # "ok" THEN Failed(encoded)
  ELSE FrozenIf(CrossCheck(p, writer, compiled.image, sources.image, gates.image, build.image),
                sources, gates, build, compiled)

VerifiedInOrder(p, writer, compiled, sources, gates, build) ==
  Verified(p, writer,
           FirstFailure(<<compiled.status, sources.status, gates.status, build.status>>),
           compiled, sources, gates, build)

FreezeMaterialized(p, ids, change, merged, baseline, launch) ==
  LET options == Options(ids, merged.capture)
      sparse == change.kind = "overlay"
                  /\ SparseEligible(p.manager, baseline.sources, options, UpdatedSources(change))
  IN IF merged.status # "ok" THEN Failed(merged.status)
     ELSE VerifiedInOrder(p, IF sparse THEN "sparse" ELSE "other",
            EncodeCompiledImage(p, baseline.compiled, launch),
            FreezeSources(p.manager, baseline.sources, options, change),
            EncodeChangeState(SourceCount(p.manager), merged.capture),
            EncodeBuildCache(p, merged.capture, change, baseline.cache))

\* An updated generation: the capture is merged with the baseline's tables,
\* everything is encoded over the baseline, bound, and cross-checked.
FreezeUpdate(p, ids, change, baseline, launch) ==
  FreezeMaterialized(p, ids, change, Materialize(change, baseline.sources), baseline, launch)

----------------------------------------------------------------------------
(* Builds.                                                                 *)

FactsById(m, u) ==
  [s \in Sources |-> IF s <= Known(m, u) /\ SnapshotOf(m, u, s) # NoSnapshot
                     THEN FactsOf(m, u, s) ELSE Absent]

PublishGeneration(built, f, full) ==
  IF full.status # "ok" THEN FrontendFailed(full.status)
  ELSE [status |-> "ok", facts |-> f, cache |-> full.cache, graph |-> full.graph,
        manager |-> Publish(EmptyManager, built.u), frontend |-> FullCache(built.blocks),
        roots |-> built.roots]

BuildFacts(built, f) == PublishGeneration(built, f, FullBuild(f, Ordered(Present(f))))

BuildGeneration(built) ==
  IF built.status # "ok" THEN FrontendFailed(built.status)
  ELSE BuildFacts(built, FactsById(EmptyManager, built.u))

\* rebuild_current up to its publication, for every disk.
Rebuilt == [d \in Disks |-> BuildGeneration(FullFrontend(d, Roots, Limit))]

GenerationInit ==
  /\ Init
  /\ manager = EmptyManager /\ frontend = FullCache(<<>>)
  /\ strings = <<>> /\ identities = <<RootIdentity>> /\ roots = <<>> /\ capture = NoCapture
  /\ disk = NoFile /\ finalized = NoImage /\ stage = "none" /\ saved = "ok" /\ opened = NoImage

\* A build that fails leaves the Project as it was.
Abandon(d, status) ==
  /\ attempt' = [status |-> status, disk |-> d]
  /\ UNCHANGED <<facts, cache, graph, capacity, updates, project, stage>>

BuiltProject(b, names, lost) ==
  Encodable(names, Identified(<<RootIdentity>>, names, b.facts, Ordered(Present(b.facts)), lost),
            b.graph, b.cache, b.manager, b.frontend, NoImage, FALSE)

PublishRebuilt(d, p, b, change, final) ==
  /\ attempt' = [status |-> "ok", disk |-> d]
  /\ updates' = 1 /\ stage' = "built" /\ finalized' = final.images
  /\ facts' = b.facts /\ cache' = b.cache /\ graph' = b.graph
  /\ capacity' = ReservedArenas(b.cache)
  /\ manager' = b.manager /\ frontend' = b.frontend /\ roots' = b.roots
  /\ strings' = p.strings /\ identities' = p.identities /\ capture' = change /\ disk' = d

\* A rebuild replaces the Project when it succeeds and leaves it when not.  A
\* rebuild over a saved generation reads nothing of it: its result is one of
\* those that start here.
RebuildFrom(d, lost, tracked, launch) ==
  /\ opened = NoImage /\ updates = 0
  /\ \E b \in {Rebuilt[d]} :
       IF b.status # "ok" THEN Abandon(d, b.status)
       ELSE \E p \in {BuiltProject(b, Interned(<<>>, b.facts, Ordered(Present(b.facts)), lost), lost)},
               change \in {FullCapture(b.manager, tracked)} :
            \E final \in {FinalizeFull(p, b.roots, change, launch)} :
              IF final.status # "ok" THEN Abandon(d, final.status)
              ELSE PublishRebuilt(d, p, b, change, final)
  /\ UNCHANGED <<saved, opened>>

\* The Sources of a baseline that changed on disk: every file with a journal
\* record, or without a journal those whose text is another.
Dirty(m, d, tracked) ==
  Ordered({s \in 1..SourceCount(m) :
             LET c == Current(m, s)
                 file == d[m.paths[s]]
             IN IF c = NoSnapshot \/ file = NoFile THEN (c = NoSnapshot) # (file = NoFile)
                ELSE file.text # c.text \/ (tracked /\ file.ticks # c.ticks)})

\* The Sources collect_builder_inputs hands to the builder.
ReplacedSources(o, built, f) ==
  SelectSeq(built.entries, LAMBDA s : s \notin built.removed /\ ~Equivalent(o.cache, s, f[s]))

RemovedSources(o, built) ==
  SelectSeq(built.entries, LAMBDA s : s \in built.removed /\ o.cache.sources[s] # NoState)

Reparsed(built) == SelectSeq(built.entries, LAMBDA s : s \notin built.removed)

PublishOver(o, p) ==
  IF p.status # "ok" THEN Failed(p.status)
  ELSE [status |-> "ok", graph |-> PublishUpdate(o.graph, p.u), cache |-> PublishSparse(o.cache, p.c)]

\* The builder part of update: nothing to do without contributions to replace.
PrepareOver(o, f, replaced, removed) ==
  IF replaced \o removed = <<>> THEN [status |-> "ok", graph |-> o.graph, cache |-> o.cache]
  ELSE PublishOver(o, PrepareIncremental(o.cache, o.graph, replaced, removed, f, capacity))

PublishUpdated(o, d, built, f, updated, tracked) ==
  /\ attempt' = [status |-> "ok", disk |-> d]
  /\ updates' = o.updates + 1
  /\ stage' = IF built.entries = <<>> THEN "touched" ELSE "updated"
  /\ facts' = f /\ graph' = updated.graph /\ cache' = updated.cache
  /\ manager' = Publish(o.manager, built.u)
  /\ frontend' = ReplaceInterfaces(o.frontend, built, Known(o.manager, built.u))
  /\ strings' = Interned(o.strings, f, Reparsed(built), FALSE)
  /\ identities' = Identified(o.identities, strings', f, Reparsed(built), FALSE)
  /\ roots' = o.roots
  /\ capture' = IF built.entries = <<>> THEN NoCapture
                ELSE OverlayCapture(o.manager, built.u, tracked)
  /\ disk' = d /\ finalized' = NoImage
  /\ UNCHANGED capacity

\* update on a candidate opened over the baseline.  Without a changed text
\* only the sources are published, and there is nothing to save.  A build over
\* a generation that was not saved, or after one that was refused, opens the
\* same baseline: what it does is done here from the saved stage.
UpdateFrom(d, tracked) ==
  /\ stage = "saved" /\ attempt.status = "ok" /\ updates < MaxUpdates
  /\ tracked => opened.images.sources.header.counts.checkpoint
  /\ Dirty(opened.manager, d, tracked) # <<>>
  /\ \E built \in {IncrementalFrontend(opened.manager, d, Dirty(opened.manager, d, tracked),
                                        opened.frontend.blocks, Limit)} :
       IF built.status # "ok" THEN Abandon(d, built.status)
       ELSE \E f \in {FactsById(opened.manager, built.u)} :
            \E updated \in {PrepareOver(opened, f, ReplacedSources(opened, built, f),
                                        RemovedSources(opened, built))} :
              IF updated.status # "ok" THEN Abandon(d, updated.status)
              ELSE PublishUpdated(opened, d, built, f, updated, tracked)
  /\ UNCHANGED <<saved, opened>>

\* What a later BUILD opens: Sources, texts and paths are read back from the
\* images, the arrays that stay mapped are those that were encoded.
Opened(images) ==
  LET all == SlotsFrom(1, ImageSources(images.sources))
      arenas == images.cache.sections
  IN [images |-> images, graph |-> Reopened(graph), cache |-> cache, updates |-> updates,
      strings |-> strings, identities |-> identities,
      roots |-> images.sources.sections["roots"],
      manager |-> OpenedManager(images.sources, [i \in DOMAIN all |-> PathAt(images.sources, i)[1][1]],
                    [i \in DOMAIN all |->
                       IF TextAt(images.cache, i) = <<>> THEN "" ELSE TextAt(images.cache, i)[1][1]]),
      frontend |-> [blocks |-> frontend.blocks, baseline |-> Len(frontend.blocks), overlay |-> {},
                    summary |-> [k \in DOMAIN frontend.summary |->
                                   IF k = "frontends" THEN images.cache.header.counts.frontends
                                   ELSE Len(arenas[k])]]]

\* The images of a full build were made with it; those of an update are made
\* now.
FreezeGeneration(touch, launch) ==
  IF stage = "built" THEN [status |-> "ok", images |-> finalized]
  ELSE FreezeUpdate(Encodable(strings, identities, graph, cache, manager, frontend, opened, touch),
                    roots, capture, opened.images, launch)

\* SAVE of a generation that is not the baseline yet.
Save(touch, launch) ==
  /\ stage \in {"built", "updated"}
  /\ \E frozen \in {FreezeGeneration(touch, launch)} :
       /\ saved' = frozen.status
       /\ IF frozen.status = "ok" THEN opened' = Opened(frozen.images) /\ stage' = "saved"
          ELSE UNCHANGED <<opened, stage>>
  /\ UNCHANGED <<vars, project>>

GenerationNext ==
  \/ \E d \in Disks, lost, tracked \in BOOLEAN, launch \in LaunchOutcomes :
       RebuildFrom(d, lost, tracked, launch)
  \/ \E d \in Disks, tracked \in BOOLEAN : UpdateFrom(d, tracked)
  \/ \E touch \in BOOLEAN, launch \in LaunchOutcomes : Save(touch, launch)

GenerationSpec == GenerationInit /\ [][GenerationNext]_allvars

----------------------------------------------------------------------------
(* Sources.                                                                *)

\* The reverse include lists that decide who is reparsed are exactly the
\* inverse of the include lists, after any history of edits, saves and loads
\* (source_manager.cpp, prepare_dependent_patches).
DependentsInverse ==
  \A s \in 1..SourceCount(manager) :
    /\ ToSet(Dependents(manager, s)) =
         {t \in 1..SourceCount(manager) : s \in ToSet(Includes(manager, t))}
    /\ Cardinality(ToSet(Dependents(manager, s))) = Len(Dependents(manager, s))

\* Whoever must be reparsed was: every present Source still parses, against
\* the interfaces it includes now, to the facts its contribution was made of,
\* and these are the facts of the file on disk.
EverySourceResolves ==
  \A s \in Present(facts) :
    LET seen == {frontend.blocks[t] : t \in IncludeClosure(manager, BeginSourceUpdate, s)} IN
    /\ NoBlock \notin seen
    /\ Parse(facts[s], seen) = "ok"
    /\ facts[s] = TextFacts[disk[manager.paths[s]].text]

SpelledPaths(t) == [i \in DOMAIN TextIncludes[t] |-> Normalize[TextIncludes[t][i]]]

\* The paths some paths lead to on a disk.
ReachedFrom(d, paths) ==
  ToSet(Explore(paths, Limit, LAMBDA p : IF d[p] = NoFile THEN <<>> ELSE SpelledPaths(d[p].text)))

\* A reason to refuse a disk: a missing file, a cycle, a name that no included
\* file declares, or contributions that contradict each other.
Cause(d) ==
  LET reached == ReachedFrom(d, Roots)
      visible(p) == ReachedFrom(d, SpelledPaths(d[p].text))
      declared(p) == {Block(LocalTypes(f), InterfaceObjects(f), InterfaceMembers(f)) :
                        f \in {TextFacts[d[q].text] : q \in visible(p)}}
      order == SetToSeq(reached)
      f == [s \in Sources |-> IF s \in DOMAIN order THEN TextFacts[d[order[s]].text] ELSE Absent]
  IN \/ \E p \in reached : d[p] = NoFile
     \/ \E p \in reached : p \in visible(p)
     \/ \E p \in reached : Parse(TextFacts[d[p].text], declared(p)) # "ok"
     \/ FullBuild(f, Ordered(Present(f))).status # "ok"

\* A full build is refused only for cause: neither the order in which Sources
\* are parsed nor freezing the generation loses a Project that is sound
\* (docs/SE_V3_07AB_GENERATION_BUILDER_G0.md: correctness includes legal
\* redeclaration).
RefusedForCause ==
  attempt.status # "ok" /\ stage = "none" => Cause(attempt.disk)

----------------------------------------------------------------------------
(* Images.                                                                 *)

\* Every generation an update published can be saved: no encoder refuses it,
\* and the checks a freeze makes on its own output never fail.
EveryBuildSaves == saved = "ok"

Images == opened.images

\* The saved images pass every check a later process makes of them, and those
\* of VERIFY: binding as files, contents, and the cross-check of build_cache.bin
\* with the other two.
EncodedVerifies ==
  stage = "saved" =>
    /\ BindCompiled(Images.compiled) = "ok" /\ VerifyCompiled(Images.compiled)
    /\ BindSources(Images.sources) = "ok" /\ VerifySources(Images.sources) /\ SlotsReadable(Images.sources)
    /\ BindChangeState(Images.change) = "ok" /\ VerifyChangeState(Images.change)
    /\ BindCache(Images.cache) = "ok" /\ VerifyCache(Images.cache)
    /\ VerifyAgainst(Images.cache, Images.compiled, Images.sources.sections["physical_state"],
                     FALSE, FALSE)
    /\ updates = 1 => VerifyEncodedGeneration(Images.cache, Images.compiled,
         Encodable(strings, identities, graph, cache, manager, frontend, NoImage, FALSE))

\* compiled.bin says what the Project says, whichever records were borrowed
\* from the baseline: names, identities, and every array of the Graph.  An
\* index is the one a complete encoding gives, also where the baseline's was
\* taken over and added to (docs/SE_V3_10D1_COMPILED_IMAGE_V1.md, Determinism).
CompiledIsProject ==
  stage = "saved" =>
    LET p == Encodable(strings, identities, graph, cache, manager, frontend, NoImage, FALSE)
        written == Images.compiled.sections
        slots == IndexSlots(p)
    IN
    /\ written["string_index"] = EncodeStrings(NoStrings(slots.string_index), p).index
    /\ written["identity_index"] = EncodeIdentities(NoIdentities(slots.identity_index), p).index
    /\ \A s \in DOMAIN IndexEntries(p) : written[s] = BuiltIndex(p, s)
    /\ \A id \in DOMAIN strings :
         IF strings[id] = Hole THEN StringAt(Images.compiled, id) = <<>>
         ELSE /\ StringAt(Images.compiled, id) = Text(strings[id])
              /\ FindString(Images.compiled, Text(strings[id])) = id
    /\ \A slot \in LiveIdentities(p) \ {1} :
         LET r == identities[slot] IN
         FindIdentityRef(Images.compiled, [slot |-> r.parent, kind |-> "root"], r.name, r.kind)
           = [slot |-> slot, kind |-> r.kind]
    /\ \A s \in DOMAIN GraphArrays(p) : written[s] = NativeGraphSections(p)[s]
    /\ \A h \in DOMAIN graph.links :
         FindLinkHandle(Images.compiled, graph.links[h].target) = IF h \in LiveLinks(graph) THEN h ELSE 0

\* source_manager.bin says what the source manager says, whichever of its
\* three writers wrote it.
SourcesAreManager ==
  stage = "saved" =>
    /\ ImageSources(Images.sources) = SourceCount(manager)
    /\ Images.sources.sections["roots"] = roots
    /\ \A s \in 1..SourceCount(manager) :
         /\ PathAt(Images.sources, s) = PathText(manager.paths[s])
         /\ PhysicalAt(Images.sources, s) = PhysicalRecord(Current(manager, s))
         /\ IncludesAt(Images.sources, s) = Includes(manager, s)
         /\ DependentsAt(Images.sources, s) = Dependents(manager, s)

\* build_cache.bin says what the Project says, however much of it was borrowed
\* from the baseline: texts, interfaces, contributions and the Graph's lineage.
CacheIsProject ==
  stage = "saved" =>
    LET p == Encodable(strings, identities, graph, cache, manager, frontend, NoImage, FALSE) IN
    /\ \A s \in 1..SourceCount(manager) :
         /\ SourceRecordAt(Images.cache, s).snapshot = (Current(manager, s) # NoSnapshot)
         /\ SourceRecordAt(Images.cache, s).frontend = (frontend.blocks[s] # NoBlock)
         /\ TextAt(Images.cache, s) = SourceText(Current(manager, s))
         /\ BlockAt(Images.cache, s) = WrittenBlock(p, frontend.blocks[s])
    /\ \A s \in DOMAIN MappedSections(p, NoImage) :
         Images.cache.sections[s] = MappedSections(p, NoImage)[s]

\* No change is missed by the gates: the reference of every file of a tracked
\* generation and of every directory above it passes the filters and is found
\* in the tables, and the directory of a missing file awaits it.
GatesCoverSources ==
  stage = "saved" /\ Images.sources.header.counts.checkpoint =>
    \A s \in 1..SourceCount(manager) :
      LET file == disk[manager.paths[s]]
          up == Ancestors[manager.paths[s]]
      IN /\ Current(manager, s) # NoSnapshot =>
              /\ MayContainSourceFile(Images.change, file.ref)
              /\ FindSourceFile(Images.sources, file.ref) = {s}
         /\ \A i \in DOMAIN up : /\ MayWatchTopology(Images.change, up[i])
                                 /\ "topology" \in DirectoryWatchFlags(Images.sources, up[i])
         /\ Current(manager, s) = NoSnapshot =>
              /\ MayWatchArrival(Images.change, up[1])
              /\ "arrival" \in DirectoryWatchFlags(Images.sources, up[1])
=============================================================================
