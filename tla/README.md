# ServerEngine: TLA+ models and proofs

ServerEngine keeps one compiled *Project* in memory: it reads C++-like Source files,
parses them with several threads, builds a semantic Graph, saves the result as an
immutable *baseline* on disk, and serves tasks (QUERY, RUN, SAVE) from the READY
Project while coordinators LOAD, BUILD, REBUILD and UNLOAD it. This directory holds
models of the parts whose correctness depends on interleavings, crashes or changes
made from outside, the TLC runs that check them, and TLAPS proofs.

All paths below are relative to `src/server_engine/project/` unless they say otherwise.

## Inventory

| component | state | operations | meets | hard behaviour |
|---|---|---|---|---|
| project lifecycle and activity gate (`project_manager`) | `lifecycle` word, gate word (CLOSED bit + task count), `project` pointer | acquire/reset tokens, reserve/abandon construction, activate, unload, destructor | every task and coordinator, through atomics only | an acquire that races UNLOAD and the next LOAD; the drain's sleep and the last leave; count saturation |
| baseline store (`persistence/baseline_store`) | CURRENT selector, transaction directories, hard-linked section files, mappings, collector | commit, open/map, close, collect_garbage | SAVE, LOAD, BUILD of several processes | crash or power loss between any two steps; a failing task of several; links shared between transactions; collection under a mapped snapshot |
| transaction I/O executor (same file) | job ring, batch counters on stacks, threads | submit, wait (helping), worker loop, stop | one commit | nested batches that wait for each other; full ring; threads that do not start; stack lifetime |
| BUILD/SAVE/LOAD session (`project_manager`, `project_context`, `project_persistence`) | checkpoint, baseline opened, dirty set, captured directories, persisted transaction | build, rebuild, save, load, unload | change tracker, source manager, store | Sources edited while they are read; an epoch taken too late; a stale READY saved over a newer baseline |
| source change tracker (`source/source_change_tracker`) | checkpoint (journal id, USN), file and directory index | capture, read gate, detect, materialize | USN journal, BUILD | truncated or re-created journal; renamed directory; a deleted Source that comes back |
| file snapshot, source hash (`source/`) | - | acquire_file_snapshot | source manager | size+time equality taken for content equality |
| source manager (`source/source_manager`) | paths and their index, snapshots, forward and reverse include edges, the candidates of an update | resolve, acquire, set includes, validate, publish | frontend, change tracker, its image | cycles; reverse edges that must follow the forward ones through patches; an overlay over a mapped baseline |
| string table, byte arena, identity space (`string/`, `storage/`, `identity/`) | lock-free hash chains, direct slot pages, bump pages | intern, find, get, enumerate; resolve_declaration; allocate | all parser threads | compare-exchange retries, page installation races, candidates abandoned after they became visible, exhaustion |
| frontend (`frontend/`) | waves, per-Source state, interface blocks and their counters | discover, acquire, parse, incremental closure, replace interfaces | source manager, parser, builder | ordering by includes; a full build and an update must accept the same Sources |
| parser and source environment (`parser/`) | token stream, interfaces, visible names | parse, build an interface, look up | string table, identity space | one interface is built by two pieces of code |
| contributions, generation builder, graph (`builder/`, `graph/`) | per-Source slices of seven arenas, per-type aggregates, type, object and link slots, canonical references, reverse dependency chains | prepare and publish, full and incremental | frontend, orchestrator, images | a long sequence of updates must equal one full build; subtraction of what was contributed before; headroom; slots that are reused |
| build orchestrator (`project_build_orchestrator`) | the Generation it owns | rebuild, update | all of the above | update that fails half way |
| mapped vector (`storage/mapped_vector.hpp`) | mapped base, materialized elements, local tail | read, write, append | images, builder | copy on write |
| images (`persistence/*_image`, `crc64_ecma.hpp`) | sections of compiled.bin, source_manager.bin, change_state.bin, build_cache.bin | encode complete, over a baseline, or sparse; bind; verify; look up | SAVE, LOAD, BUILD, store | what is borrowed from the baseline must be what is in memory; indexes that are reused; verification that must accept everything a build can produce |
| managed runtime (`runtime/`) | storage of the objects, resolved links | construct, read, write, propagate | READY Project | sequential |
| configuration loaders, JSON parser, diagnostics, `main` | - | parse, report | - | sequential |

What makes each modelled component correct is stated as the properties below. What is
hard to test in the code is listed, line by line, under `hazards` in `PROJECT.json`.

How the components interact in the models: a **coordinator** of `ProjectLifecycle`
owns the Project slot while it constructs; the construction is a session of
`IncrementalBuild`; what the session reads, parses, builds and freezes is
`GenerationImages`, which composes `SourceManager`, `SourceFrontend`,
`BuildOrchestrator` (with `GenerationBuilder`, `ProjectGraph` and `SourceContribution`)
and the four images; its parser threads use `StringTable` and `IdentitySpace` (and
through them `ByteArena`); a SAVE of that session is a commit of `BaselineStore`; that
commit's artifact tasks are run by `TransactionIo`. The upper models use what the
lower ones promise: `IncrementalBuild` replaces CURRENT in one step because
`BaselineStore` shows the commit to be atomic; `BaselineStore` waits for "every task
is done" in one step because of `TransactionIo`'s `WaitMeansDone`; `StringTable`
allocates a fresh record in one step because of `ByteArena`'s `BlocksDisjoint`;
`GenerationImages` parses a wave in one step, and interns its names in some order,
because `StringTable` and `IdentitySpace` refine `CanonicalAtoms`.

## Modules

| module | models | role |
|---|---|---|
| `ReadyProject` | the promise of `project_manager` to its tasks | abstract specification |
| `ProjectLifecycle` | `project_manager.hpp` 46-264, `project_manager.cpp` 120-194, 2535-2587 | one action per atomic operation |
| `ProjectLifecycle_proofs` | - | inductive invariant, refinement of `ReadyProject` |
| `BaselineStore` | `persistence/baseline_store.cpp` commit, open, map, collect | crashes, power loss, I/O errors |
| `BaselineStore_proofs` | - | inductive invariant, two action properties |
| `TransactionIo` | `transaction_io_executor` of the same file | threads, frames on stacks |
| `TransactionIo_proofs` | - | inductive invariant |
| `IncrementalBuild` | BUILD, SAVE, LOAD across change tracker, source manager, store | edits racing reads |
| `IncrementalBuild_proofs` | - | inductive invariant, for edits that change the stamp |
| `CanonicalAtoms` | what an interning table promises | abstract specification |
| `StringTable` | `string/string_table.cpp` | refines `CanonicalAtoms` |
| `StringTable_proofs` | - | inductive invariant, refinement of `CanonicalAtoms` |
| `IdentitySpace` | `identity/identity_space.cpp` | refines `CanonicalAtoms` |
| `IdentitySpace_proofs` | - | inductive invariant, refinement of `CanonicalAtoms` |
| `ByteArena` | `storage/byte_arena.cpp` | - |
| `ByteArena_proofs` | - | inductive invariant |
| `SourceContribution` | `builder/source_contribution.cpp`, `.hpp` | arenas and slices: operators and state of `BuildOrchestrator` |
| `ProjectGraph` | `graph/graph.cpp`, `.hpp`, `storage/mapped_vector.hpp` | the Graph's slots, indexes and sparse publication |
| `GenerationBuilder` | `builder/generation_builder.cpp` | full and incremental preparation |
| `BuildOrchestrator` | `project_build_orchestrator.cpp` | the machine: rebuild, update, save and load over changing facts |
| `BuildOrchestrator_proofs` | - | induction over the builder's folds: the contributions, the canonical records and the counters of every build |
| `ImageFile` | headers, checksums, hash indexes and sections shared by the images | operators |
| `SourceManager` | `source/source_manager.cpp` | operators of an update |
| `SourceFrontend` | `frontend/`, `parser/source_environment.cpp` | full and incremental frontend |
| `CompiledImage`, `SourceManagerImage`, `ChangeStateImage`, `BuildCacheImage` | `persistence/*_image.cpp`, capture and materialization of `source/source_change_tracker.cpp` | encode, bind, verify, look up |
| `GenerationImages` | `project_persistence.cpp` (freeze), `project_build_orchestrator.cpp`, `project_manager.cpp` (BUILD, SAVE) | the machine: files to Generation to images and back; extends all of the above |
| `MC*` | - | instances for TLC: values of the constants, budgets and symmetry |

Definitions marked *Mutant* or *Mutation* are not part of the specifications. Each is
the definition that follows it with a plausible slip, and shows that a property notices
it: with the slip in place TLC reports the property violated.

### ProjectLifecycle

`lifecycle`, `gate` and `project` are the members of `project_manager`; the gate word
is a record of its CLOSED bit and its count. Readers run `acquire` (`AcquireReset`,
`FirstCheck`, `EnterLoad`, `EnterRefused`, `EnterCas`, `SecondCheck`, `Bind`) and
`project_access::reset` (`Release`, `Leave`, `LeaveNotify`); coordinators run a
construction (`Reserve` ... `PublishReady`, or `AbandonConstruction`) and `unload`
(`UnloadReserve`, `CloseGate`, `RequestStop`, `DrainLoad`, `DrainWait`,
`DestroyProject`, `UnloadFinish`). `std::atomic::wait` sleeps only while the word is
the one loaded, `notify_all` wakes a sleeper only if the word differs. What a
construction computes is not part of this module. The manager object outlives the calls
in flight, as for any C++ object.

Properties: `GateCountExact` (the count is the number of tasks inside),
`TokenPinsProject` (a token's Project is the one in memory), `SingleOwner`,
`NoLostWakeup`, `UnloadCompletes` (liveness), `ImplementsReady` (refinement).

### BaselineStore

A transaction directory holds plain files and section files; a section may be a hard
link to an earlier transaction's inode. The file system is the weakest POSIX allows:
bytes survive after fsync of the file, names after fsync of the directory, and a power
loss may keep or drop everything else. Every I/O call may fail. `commit` is the
sequence ReadPrevious, CreateTransaction, link or write every artifact (in any order,
as the executor's threads do), FlushTransaction, FlushRoot, ReplaceCurrent, FinalFlush,
with Cleanup after a failure. Readers open CURRENT and map the files later, one part at
a time. Garbage is collected at a cold boundary (no commit under way, CURRENT on disk),
which is what the documentation asks of callers and the code does not enforce.

Properties: `SurvivesPowerLoss` (what CURRENT selects, now or after a power loss, is
complete), `SnapshotCoherent`, and the action properties `CommittedImmutable` and
`PinnedStaysMappable` (a transaction that a Project has open goes only in a collection, and
only when it is neither CURRENT nor the one that the collecting Project has mapped:
`collect_garbage` pins its caller's transaction and no one else's. A Project whose
transaction is a third one can lose it; what it has mapped by then keeps its bytes, which
is `SnapshotCoherent`, and a later mapping fails as `artifact_corrupt`).

### TransactionIo

The outer batch has one job per artifact; the job of a sectioned artifact submits
copies of a worker function that draw files from a shared counter and write them (two
steps: a copy may find the counter exhausted while another still writes), and waits, helping
with whatever is queued. Stacks of frames are explicit, because batches live on them.

Properties: `WaitMeansDone` (every file written, and once), `StackOutlivesJobs`, `CommitFinishes`
(liveness, with any subset of the pool threads failing to start).

### IncrementalBuild

The tree is edited at any time (write in place, replace, delete, swap of the whole
directory), and every edit appends records to the change journal, which may be
truncated or re-created. BUILD takes the checkpoint, asks the journal what changed since
the baseline's checkpoint or scans all contents, acquires the dirty Sources one by one,
and publishes; SAVE materializes the Generation with the checkpoint *of its own
reading*. Several managers may share the store.

Assumed: SHA-256 is injective; a single file is read atomically (the code compares
identity, size and time before and after reading, and on Windows denies writers); file
references are not reused; all tracked Sources are in one directory; the set of Sources
is fixed. The proof that project.json did not change (tokens and fingerprints) is not
modelled yet.

Properties: `ReadyFresh` (a BUILD publishes nothing older than what the files held
while it ran), `NoLostEdit` (what differs from a saved or READY Generation is reported
by the journal, or the journal sends the detector to the full scan), `IndexExact` (the
file index still names the very files at the Source paths).

The passing runs assume that an edit changes size or modification time
(`SameStampWrites = FALSE`). With `SameStampWrites = TRUE` the run `build_same_stamp`
violates `ReadyFresh`: `source_manager::prepare_acquire` hands the old size and time to
`acquire_file_snapshot`, which answers *unchanged* without reading, also for a Source
that the journal or the full content scan has just reported; the comment in
`project_persistence.cpp` says that equal size and time must never suppress content
verification. See `findings` in `PROJECT.json`.

### StringTable, IdentitySpace, ByteArena

The parser threads share these without a lock. One action per atomic operation;
thread-private work is merged into the neighbouring shared step. A hash chain only grows
at its head, records do not change once linked and are never freed, so a chain is a
sequence and a loaded head pointer is the length it had; the compare-exchange on the
head succeeds only if the length is still that. The model is sequentially consistent:
records are filled before the release operation that publishes them and read after an
acquire load, and counters carry no data. `StringTable` installs bucket pages and
record pages step by step (load, allocate, compare-exchange, loser uses the winner's);
`IdentitySpace` takes that protocol as one step. The persisted strings and identities of
a mapped baseline, abandoned slots included, are constants.

Properties: `Canonicalises` (refinement of `CanonicalAtoms`: one atom per key, one key
per atom, nothing forgotten, every caller told the same), `AnswersReadable`,
`SavedExactly` (what the image encoder enumerates when nothing is under way is what was
interned, and as many as `size()` says: the encoder refuses to save otherwise),
`InternReturns` (liveness), `RefusalsJustified` (a semantic conflict is reported only
where there is one, and no walk is cut short), `ParentsFirst` (following parents ends at
the root), `BlocksDisjoint`, `PagesOwned`.

`next_id` is a 32-bit counter that goes on counting after `maximum_id` (2^28). It would
come round to ids in use after about four thousand million refused calls, each of which
also leaks a record; the model has the modulus, the runs stay below it, and the theorems
of `StringTable_proofs` say so in their hypothesis `NoWrap`.

### BuildOrchestrator, GenerationBuilder, ProjectGraph, SourceContribution

The facts of two Sources change at will among valid facts that resolve against each other
(record definitions and forward declarations, enumerations, members with modifiers,
objects, links); `ValidFacts` is what `validate_source_facts` accepts as far as the builder
reads it (`source_parser.cpp:514` hands over nothing it refused), and an assumption of the
module that TLC evaluates on the instances' facts, and the orchestrator rebuilds, updates, saves and loads. A full build
(`FullBuild`) validates, declares, selects the underlying types of enumerations, defines,
links and seals. An update (`PrepareIncremental`) subtracts the previous slices of the
changed Sources from the aggregates, adds the new ones, touches the slots it will write,
materializes the changed types, retires and claims objects and links, validates the types
reached through reverse dependencies, and publishes; whatever fails leaves the Project as
it was. Arena capacity, headroom and index sizes are the code's, with small constants.

`GraphIsFullBuild` is the refinement in state form: after any sequence of operations the
Graph *means* what `FullBuild` of the current facts means (slots may differ, what can be
looked up may not). `ConstructionExact`, `DependentsReachable`,
`ContributionsReproduceFacts` and `CanonicalUnique` are the facts about the aggregates, the
reverse chains, the slices and the canonical table that the next update relies on.

Met while modelling: an update never falls back to a full build, it reports
`rebuild_required` (`README.md:95` of the repository and
`docs/SE_V3_09_COMPLETE_GRAPH.md:136` say it falls back). A definition that moves from a
later changed Source to an earlier one is reported as `semantic_conflict`. A record keeps
its struct or class key over an update. A Source that is no longer included keeps its
contribution until the next full build, so the facts of a model's update are those of the
Sources still registered. `docs/SE_V3_07C` names the refusal `not_available`.
With a baseline underneath, an update that adds a record together with a member of that
record's type is refused with `invalid_argument`: run `sparse_update_refused`.

### GenerationImages and the images

The disk holds a text per path; a text is given with the includes it spells and the facts
it parses to when every name is visible. `RebuildFrom` discovers from the roots, refuses
cycles and missing files, parses in waves, builds the Graph and the reverse edges, and
finalizes the four images. `UpdateFrom` starts from what was saved, determines the dirty
Sources (through the journal's index, or by scanning), reacquires them, follows the
dependents and the new includes, updates the Graph, and freezes. `Save` encodes, binds what
was encoded and verifies it in the order of the code; only then is it opened as the next
baseline. An image is a header and sections, a section a sequence of records, with
checksums over the records; hash indexes are tables with linear probing and fingerprints,
so that collisions, wrap-around and reuse happen. Three encoders are modelled: record by
record, over the mapped baseline (copy, patch what was materialized, append), and sparse
(extents borrowed from the baseline with owned records in between, directory patches, and
the fallback to compaction when the number of extents or the carrier's reserve is
exceeded). Threads may intern in any order and abandon slots (`lost`), which changes ids and
nothing else.

Properties: `DependentsInverse` (reverse edges are the inverse of the includes),
`EverySourceResolves` (what was published refers only to what it can see),
`RefusedForCause` (a disk is refused only for a reason that an independent definition,
`Cause`, finds on that disk), `EveryBuildSaves` (no Generation that was built is refused by
its own freeze), `EncodedVerifies` (what is saved passes the verification that LOAD and
BUILD apply, with every index exact), `CompiledIsProject`, `SourcesAreManager`,
`CacheIsProject` (what the images decode to is what is in memory, whichever encoder wrote
them; and each index of compiled.bin is the one that a complete encoding would give, also
where the baseline's was taken over and added to), `GatesCoverSources` (each file and directory a Source depends on passes the filters
and is in the index). Cycles are excluded twice, by `validate_changed_source_graph` and by
the schedule, so that acyclicity is not a property of its own: no single slip breaks it.

A Source that declares a type and then defines it, or declares it twice, is refused with
`initialization_failed` by a full build (`parser/source_environment.cpp:603`), although the
documentation accepts identical forward declarations: run `redeclaration_refused`.

Not in the disks: two Sources that are hard links to one file (the index of an update then
has no place for the second, `source_change_tracker.cpp:2112`, and SAVE fails with
`artifact_corrupt`); a Project without any type (its type index has no slots, which
`build_cache_image.cpp:1546` refuses: it can be built but not saved, and `EveryBuildSaves`
says nothing of it).

`LaunchOutcomes` says how starting the two threads of the compiled encoder may end. With
`"second_failed"` the first thread is joined and both sections are encoded serially, into
the string index that the first thread has filled (`compiled_image.cpp:2943`): the index
then has every string twice, and `verify_contents` rejects the saved image. That is a
defect of the code - the document on the image promises indexes that depend on the numeric
sequences only - and the runs leave the outcome out (`LaunchOutcomes = {"started"}`): with
it in the set TLC finds `EncodedVerifies` violated at once. The threads are used from 4096
slots on, a threshold the model leaves out.

Within a wave the threads that parse are not modelled: a wave is one step, whose Sources
are interned in some order. That an array slot of a mapped vector which was patched is
also marked as materialized holds by the type (`mapped_vector.hpp`: a slot that is not
materialized *is* the baseline's), and in the model `MappedOver` derives it.

## Runs

| run | instance | what it shows |
|---|---|---|
| `lifecycle` | 2 readers, 2 coordinators, 3 generations, gate of 2 | all safety properties, the refinement and `UnloadCompletes` |
| `store` | 2 clients, 3 transactions, 1 section, 2 contents, 1 crash or power loss; transactions, clients at work and faults within a budget of 4, one directory left behind by a failed commit | two committers, a reader and the collector interleaved; three generations of links of one Project |
| `commit_executor` | caller and 2 threads, 2 sectioned artifacts of 2 files and a plain one, ring of 2 | safety and termination, any threads missing |
| `build_races_edits` | 2 managers, 2 Sources, 2 edits, 1 journal fault, 2 saves; edits, faults and (as two) the second manager within a budget of 3 | every edit and fault at every point of BUILD, SAVE, LOAD, BUILD; SAVE of an older Generation over a newer one |
| `build_same_stamp` | 1 Source, 1 edit | the violation described above |
| `graph_updates` | 2 Sources with the facts of `MCBuildOrchestrator`, 3 updates | full builds, updates, saves and loads in any order |
| `sparse_update_refused` | the same | the violation described above |
| `generation_images` | 3 Sources, the disks of `MCGenerationImages`, 3 updates, indexes of 4 slots, filters of 4 bits, 10 extents | every sequence of rebuilds, updates and saves over those disks, with collisions in every index |
| `redeclaration_refused` | the same, with a text that declares and defines a type | the violation described above |
| `string_table` | 2 threads, 3 strings of which 2 collide, baseline of 2 slots, 3 ids left, pages of 2 | baseline hits, page and bucket installation, races in one bucket, exhaustion, termination |
| `identity_space` | 3 threads, 1 name, 2 kinds, baseline of 3 slots, 2 slots left | nested scopes, conflicts with the baseline and between threads, exhaustion |
| `byte_arena` | 3 threads, 4 blocks, 3 pages of 5 bytes | small, aligned and oversized blocks |

Bounds. Two committers suffice for the store because a commit interacts with another
only through CURRENT, names and shared inodes; three transactions are needed for a link
to a link. Two coordinators, two readers and three generations allow "unload, reload and a
reader from before" twice; that the saturated gate turns a third task away is proved, for
any width, in `ProjectLifecycle_proofs`. One re-creation of a journal is enough
because journal ids are only compared for equality. Two edits and a fault allow a change
before, during and after a BUILD; the older Generation saved over a newer one needs two
managers and one edit. The facts and disks of the builder and image runs are chosen, not
enumerated: each is there for a case (a definition that moves, a type that loses its last
definition, a link whose endpoint goes, a member of another Source's type, a Source that
appears, disappears, changes its includes or closes a cycle, texts that grow and shrink),
and three updates reach every ordered triple of them. `CHECK_DEADLOCK FALSE` is set where
the history ends with the bound on updates. Three threads (`identity_space`, `byte_arena`) allow one to
lose a compare-exchange to a second while a third installs the page both need;
`string_table` has two; its safety properties, as those of the other two, are proved for any number.
Symmetry is used for sets of model values in runs without liveness only. Every counter that could grow without end has a
named bound (`Max...`).

Fairness. `lifecycle`: weak fairness of each thread's next step, and of a
task's release once the stop request has reached it - `unload` documents that tasks
must return their tokens - with strong fairness nowhere. `commit_executor`: weak fairness of
every thread, which is what an operating system's scheduler gives runnable threads.
`string_table`: weak fairness of a thread inside `intern`, and strong fairness
of its compare-exchange, because a weak compare-exchange may fail spuriously but not for
ever.

## Proofs

`ProjectLifecycle_proofs` proves, for any set of tasks (finite), any coordinators, any
width of the count and any number of generations, that `TypeOK`, `GateCountExact`,
`TokenPinsProject`, `SingleOwner` and `NoLostWakeup` are invariant and that `Spec`
implements `ReadyProject!Spec`. None of the properties is inductive by itself. The
invariant `IndInv` adds: the gate is closed unless its owner says otherwise
(`GateFollowsOwner`), the Project pointer follows the owner's position
(`ProjectFollowsOwner`), a sleeping drain saw tasks inside (`SleepsOnTasks`), and the
destructor runs alone (`QuietDestruction`). The argument: only the coordinator that
reserved can move the lifecycle word, so at most one coordinator is past the gate's
closing; a task that entered is counted until it leaves; hence a drain that reads a
count of zero behind a closed gate knows that no token exists. The gate count is a
cardinality, so each step that enters or leaves uses the finite-set theorems on adding
or removing one element.

`StringTable_proofs` proves, for any threads, strings, hash function and finite set of
buckets, any baseline, page size and number of ids, with or without preallocated buckets
(`Dense`; the run has the table over a baseline, the proof both), that `TypeOK` and
`AnswersReadable` are invariant and that `Spec` implements `CanonicalAtoms!Spec`. The
one hypothesis is `NoWrap`: `next_id` does not come round. The invariant `IndInv` says
of the shared memory that every record handed out has an id of its own (`IdInv`), that
no two buckets or id pages share a page (`PageInv`), and that each linked record is in
its text's bucket, in the slot of its id, with a text that nothing else in the chain and
nothing in the baseline has (`ChainInv`); of each thread, what it knows at its position
(`ThreadInv`: its record is its own and not linked yet, its pages are the installed
ones, no record up to the head it walked from has its text); and that no two threads
hold one record (`OwnRecords`). `ThreadInv` is what makes the refinement step go
through: a compare-exchange that succeeds finds the chain as long as it was when the
walk began, so the text is not in it and the pair that becomes visible is new on both
sides. Most lemmas say what a step leaves alone (`Growth`, `ChainsKept`, `SlotsKept`),
so that what the other threads know survives it.

A second layer, `SaveInv`, gives `SavedExactly` under the same hypothesis: a record in a
slot is interned or is the candidate of a call still under way (`NoOrphans`), and
`live_count` lags behind the chains by exactly the calls about to count (`CountExact`).
Between calls there are neither.

`IdentitySpace_proofs` proves the same of `identity_space`, for any threads, names,
parents, kinds and buckets, and without a hypothesis: `create` refuses when the ids run
out instead of wrapping. `IndInv` keeps the cursor beyond the baseline (`NextInv`), says
of each linked ref that it can be read, is in its name's chain, is the only one with its
scope and name, and has a declared scope in a smaller slot (`LinkedInv`), of each thread
what it has established at its position (`ThreadInv`), that no two threads fill one slot
(`OwnSlots`), that a slot that is filled and not linked is the candidate of a call under
way (`NoOrphans`), and that the count is exact up to the increments still due
(`CountExact`). `ParentsFirst` follows from `LinkedInv`; `RefusalsJustified` is a
conjunct, because the conflict a thread saw must still be there later: records are never
unlinked. The refinement maps the linked records to the abstract table and is the
argument of the string table once more.

`ByteArena_proofs` proves `TypeOK`, `BlocksDisjoint` and `PagesOwned` for any threads,
requests, alignments and page size. `IndInv` adds that a call has its request
(`CallsHaveRequests`), that a block lies below its page's cursor (`BlocksReserved`) and
that an installer has its page (`InstallersHavePages`). The argument: the `fetch_add` is
the only step that hands out bytes, it hands out those between the old and the new
cursor, and everything handed out earlier lies below the old one.

`BaselineStore_proofs` proves `TypeOK`, `SurvivesPowerLoss`, `SnapshotCoherent` and the
action properties `CommittedImmutable` and `PinnedStaysMappable` for any clients,
artifacts, transactions, inodes and crashes. `SurvivesPowerLoss` speaks of the one
instant after a crash; the invariant has to say at each position of a commit what the
disk would be left with. `CommitPositions` does: from FlushTransaction on the files of
the new directory are durable, from FlushRoot on its name is, and only then can a
selector name it (`SelectedDurable`, for CURRENT and for every value of it that a power
loss could leave). `NamesWhole` and `InodesWhole` tie names to inodes whose contents are
complete unless their own commit is still writing them (`ArtifactTasks`), `MapsWhole`
ties what a snapshot has mapped to the transaction it opened, and `CollectionCold` says
that a collection runs beside no commit and keeps CURRENT and what its own callers
pinned.

`IncrementalBuild_proofs` proves `TypeOK`, `ReadyFresh`, `NoLostEdit` and `IndexExact`
for any managers, Sources, contents, edits and journal faults, under the hypothesis
`SameStampWrites = FALSE`, which the run `build_same_stamp` shows to be needed. `IndInv`
says that a stamp determines a content (`SnapsOK`), and of CURRENT and of every session
that its snapshots are in agreement with the files up to what the journal says since its
checkpoint (`GenerationOK`, `SessionOK`, one clause per position of a BUILD: what is
captured, detected, scanned, acquired). The argument: a record is appended in the step
that edits, so between a checkpoint and now the journal either is complete for the
checkpoint's id or shows the fault that sends the detector to the scan.

`TransactionIo_proofs` proves `TypeOK`, `WaitMeansDone` and `StackOutlivesJobs` for any
workers, any subset of which fails to start, any artifacts, tasks and copies, and any
capacity of the ring. The assumption on the artifacts is that commit submits each once:
`run` is called with as many distinct functions (`baseline_store.cpp:5657`). `IndInv`
says which positions may stand on which on a stack (`StackOK`), that a queued worker
copy belongs to its artifact's batch (`QueueOK`), that a batch's counter is the number
of its jobs queued, plus those running and not yet counted down (`CountOK`), that a
batch whose counter is not zero has a frame that submits or waits (`WaitersOK`), that a
task the counter has passed is written, once, or in the hand of one copy (`TasksOK`),
which has not ended (`WritersOK`), how far an artifact is at each position of its frames
(`ProgressOK`), that an artifact's job is in one place (`OnceOK`) and that it is
somewhere or over (`PendingOK`). The argument: `wait` returns on a counter of zero; a
copy that has finished saw the tasks run out, so with none queued or running every task
has been drawn and none is in hand. `CountOK` is an equation between cardinalities: a
frame of a job is counted on the stack it is on, so every push, pop and change of a
frame's position has its lemma on the sets it moves a job between.

`BuildOrchestrator_proofs` proves `ContributionsReproduceFacts` and `CanonicalUnique` for any
finite set of Sources, any facts that `ValidFacts` accepts and any number of builds. After every
rebuild, update, SAVE and LOAD, each present Source has a slice of every arena that says what
its facts say, an absent one has none, and the statistics are exact; no TypeRef has two
canonical records, the named cache points at the record of its type, and the live counters are
the numbers of live slots. The assumptions are `SourcesAreIds` (ids are 1 to n),
`FactsAreValid`, and `NoStateIsNone` (the empty state is not a slice).

One invariant, `StateInv`, gives both. Of the cache it says what the first property says, and
for every Source that its ranges lie inside the arenas, so that a range taken from the facts
can be shifted into them and read back (`CacheOk`, `Stored`); and that the definition a
construction state points at is one of the declarations (`StateOk`), without which an update
that rematerialises a type would read outside them. Of the Graph (`GraphOk`) it says that the
arrays of slots, identities and caches have one length, that the records agree with both
caches in *both* directions (`CanonOk`: a cache entry points at its record, and a named or
intrinsic record that exists is cached, which is why a build that finds no entry may append),
and that the counters are exact (`LiveCounted`). It is not enough to say so of the committed Graph: an
update prepares against a Graph it may not write, and looks a record up first there and then
among its own. `UpdOk` therefore speaks of what *would* be published: the records of Graph and
update joined, the caches overlaid, the live slots of the overlay counted against the update's
own counters. `Pass` collects what each pass of the update keeps; publication turns `UpdOk` into
`GraphOk` and `LiveCounted` (`PublishUpdateOk`). Two facts that look like details are needed for the counters. A handle
is touched once (`Exchanging`), otherwise a new type would be counted twice when it is
rematerialised; a link slot whose patch has a source was claimed (`LinkRules`), otherwise a
target claimed after being retired would be counted twice.

Every pass of the builder is a fold over a sequence: the Sources of a build, the types of a
slice, the members of a type. The library's induction rule takes a predicate as a parameter
and cannot be used; the module has its own, for sets: a non-empty set of naturals has a least element
(`LeastNat`, from the well-foundedness of the naturals), so a set of naturals that contains 0 and
the successor of each of its members contains them all (`SetInduction`). `Recursion` builds
the recursive function that the community modules' fold is defined by, and one *Trace*
lemma per fold states that its value is the end of a run of one step per element. After
that each pass is a few lemmas about one step: capturing the facts of a full build appends
one slice and leaves the earlier ones where they were; an update captures the changed
Sources in a sparse overlay (`Exchanged`) and then runs the passes over types, objects
and links, which keep what was captured and may only stop (the `...Pass` lemmas);
publication joins the overlay to the arenas. The statistics are sums over
the Sources: an update subtracts what a Source counted and adds what it counts, and the
lemmas on `SumSeq` (`SumWithout`, `SumOfSome`) show the result to be the sum again.

Only model-checked: liveness (`UnloadCompletes`, `CommitFinishes`, `InternReturns`;
outside the prover's reach), `GraphIsFullBuild`, `ConstructionExact` and `DependentsReachable` of
`BuildOrchestrator`, and the properties of
`GenerationImages`. `GraphIsFullBuild` and `EveryBuildSaves` compare one run of folds with
another, and `ConstructionExact` compares the aggregates with a fold in another order than the
one that computed them; `DependentsReachable` speaks of chains of edges, which only
a recursion reads. The images' properties rest on tables with linear probing, on hash values and on
twelve modules at once. The safety properties of the other seven machines are all proved.

## Not modelled

The byte layout of records (a record is a value; the checksum is a function of the section),
the grammar and the lexer (a text is given with its facts), the source ranges and orders that
the validation of facts also checks, configuration loading and the proof that project.json did not
change, JSON, diagnostics, logging, the command line, the managed runtime, memory orderings
weaker than sequential consistency, and Windows-specific handle code. Two tasks that SAVE the
same READY Project at once assign the persisted transaction's name without synchronisation
(`project_context.hpp:176`); no document allows or forbids that, and the models save one at a
time. The branch of SAVE that commits the files of an opened baseline once more
(`project_manager.cpp:2477`) is taken only by a Project without construction state that was
not persisted, and is left out. `leave` and the executor notify on an atomic after the decrement that may let its owner
go; the models let the owner outlive the calls in flight, as for any C++ object.

## Plan

1. Done: `ProjectLifecycle` and `StringTable` with their proofs; `BaselineStore`;
   `TransactionIo`; `IncrementalBuild`; `IdentitySpace` and `ByteArena`; the builder
   (`SourceContribution`, `ProjectGraph`, `GenerationBuilder`, `BuildOrchestrator`); the
   frontend and the images (`SourceManager`, `SourceFrontend`, `ImageFile`, the four images,
   `GenerationImages`).
2. Proved: all safety properties of `ProjectLifecycle`, `BaselineStore`, `TransactionIo`,
   `IncrementalBuild`, `StringTable`, `IdentitySpace` and `ByteArena`, and of
   `BuildOrchestrator` that the contributions are the facts, that canonical records are unique
   and that the live counters are exact.
3. Proofs that remain: with the same induction over folds, the other invariants of
   `BuildOrchestrator` and then lookups in the indexes of the images.
4. Models that remain: `ConfigurationProof` (tokens and fingerprints of project.json around a
   BUILD and a SAVE), SAVE as a task of `ProjectLifecycle`.
