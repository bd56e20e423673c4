--------------------------- MODULE SourceFrontend ---------------------------
(***************************************************************************)
(* From files to parsed facts (frontend/source_frontend_generation.cpp,    *)
(* source_frontend_incremental.cpp, source_frontend_cache.cpp and the      *)
(* interfaces of parser/source_environment.cpp).                           *)
(*                                                                         *)
(* A full build discovers Sources from the roots through their includes,   *)
(* in waves that read and lex in parallel, refuses cycles, and parses each *)
(* Source once everything it includes has an interface.  An incremental    *)
(* build reads the dirty Sources again and reparses those whose text       *)
(* changed, everyone who depends on them, and what they newly include.     *)
(* An interface is what a Source declares; names are looked up in it and,  *)
(* through its imports, in the interfaces behind it.                       *)
(*                                                                         *)
(* The parser itself is abstracted: a text is given with the includes it   *)
(* spells and the facts it parses to when every name it uses is visible.   *)
(***************************************************************************)
EXTENDS SourceManager, SourceContribution

CONSTANTS TextFacts,      \* TextFacts[t]: the facts of a text
          TextIncludes,   \* TextIncludes[t]: the includes it spells
          Normalize,      \* Normalize[i]: the path an include resolves to
          NoFile,         \* what a path with no file holds
          NoBlock         \* a Source without an interface

Distinct(values) ==
  FoldLeft(LAMBDA seen, v : IF v \in ToSet(seen) THEN seen ELSE Append(seen, v), <<>>, values)

----------------------------------------------------------------------------
(* Interfaces.                                                             *)

\* Records are declared before enumerations, whatever their order in the text.
DeclaredOrder(f) ==
  SelectSeq(f.types, LAMBDA t : t.kind = "record")
    \o SelectSeq(f.types, LAMBDA t : t.kind # "record")

LocalTypes(f) ==
  Distinct([i \in DOMAIN f.types |-> DeclaredOrder(f)[i].identity])

\* Only an object of a plain named type can be the root of an endpoint.
ObjectSlot(o) ==
  [identity |-> o.identity,
   named_type |-> IF o.type.modifiers.count = 0 THEN o.type.identity ELSE ""]

InterfaceObjects(f) == Distinct([i \in DOMAIN f.objects |-> ObjectSlot(f.objects[i])])

InterfaceMembers(f) ==
  FlattenSeq([i \in DOMAIN f.types |->
    LET t == f.types[i] IN
    IF t.kind # "record" \/ ~t.definition THEN <<>>
    ELSE [k \in 1..t.items.count |->
            [type |-> t.identity, name |-> f.members[t.items.begin + k].name, index |-> k]]])

\* The slots of a hash table in table order: what a full build persists.
TableOrder(slots, hashes) ==
  LET table == InsertAll(EmptyIndex(Slots(Len(slots))),
                         [i \in DOMAIN slots |-> [hash |-> hashes[i], id |-> i]])
      used == SelectSeq(table, LAMBDA e : e.id # 0)
  IN [i \in DOMAIN slots |-> slots[used[i].id]]

SameBinding(keys) == \E i, j \in DOMAIN keys : i # j /\ keys[i] = keys[j]

\* What an interface is searched by, and the hashes of its tables.
ObjectKeys(f) == [i \in DOMAIN InterfaceObjects(f) |-> InterfaceObjects(f)[i].identity]

MemberKeys(f) ==
  [i \in DOMAIN InterfaceMembers(f) |->
     <<InterfaceMembers(f)[i].type, InterfaceMembers(f)[i].name>>]

ObjectHashes(f) == [i \in DOMAIN ObjectKeys(f) |-> NameHash[ObjectKeys(f)[i]]]

MemberHashes(f) ==
  [i \in DOMAIN MemberKeys(f) |-> NameHash[MemberKeys(f)[i][1]] + NameHash[MemberKeys(f)[i][2]]]

Block(types, objects, members) ==
  [local_types |-> types, type_slots |-> types, object_slots |-> objects,
   member_slots |-> members]

FrontendFailed(status) == [status |-> status]

\* initialize_external: the interface of a full build, in shared pages sized
\* by the number of declarations.
InitializeExternal(f) ==
  IF Len(LocalTypes(f)) # Len(f.types) THEN FrontendFailed("initialization_failed")
  ELSE IF SameBinding(ObjectKeys(f)) \/ SameBinding(MemberKeys(f))
  THEN FrontendFailed("semantic_conflict")
  ELSE [status |-> "ok",
        block |-> Block(LocalTypes(f),
                        TableOrder(InterfaceObjects(f), ObjectHashes(f)),
                        TableOrder(InterfaceMembers(f), MemberHashes(f)))]

\* initialize: the interface of an incremental build, in vectors of its own.
InitializeOwned(f) ==
  IF SameBinding(ObjectKeys(f)) \/ SameBinding(MemberKeys(f))
  THEN FrontendFailed("semantic_conflict")
  ELSE [status |-> "ok", block |-> Block(LocalTypes(f), InterfaceObjects(f), InterfaceMembers(f))]

----------------------------------------------------------------------------
(* Name lookup.                                                            *)

\* What some interfaces declare: find_type, find_object and find_member search
\* an interface and, recursively, the ones it imports.
Names(blocks) ==
  [types |-> UNION {ToSet(b.local_types) : b \in blocks},
   objects |-> UNION {ToSet(b.object_slots) : b \in blocks},
   members |-> UNION {{<<m.type, m.index>> : m \in ToSet(b.member_slots)} : b \in blocks}]

EndpointVisible(names, e) ==
  \E o \in names.objects : o.identity = e.object /\ <<o.named_type, e.member + 1>> \in names.members

\* Parsing succeeds when every type, object and member the facts name is
\* declared here or visible through an include.
Parse(f, blocks) ==
  LET names == Names(blocks \cup {Block(LocalTypes(f), InterfaceObjects(f), InterfaceMembers(f))})
      used == UNION {{f[a][i].type : i \in DOMAIN f[a]} : a \in {"members", "objects"}}
  IN IF /\ \A t \in used : t.intrinsic # "none" \/ t.identity \in names.types
        /\ \A i \in DOMAIN f.links : /\ EndpointVisible(names, f.links[i].source)
                                     /\ EndpointVisible(names, f.links[i].target)
     THEN "ok" ELSE "not_found"

----------------------------------------------------------------------------
(* Discovery.                                                              *)

\* The includes of a text become source ids; an include spelled twice is one
\* dependency.
ResolveIncludes(m, u, text) ==
  FoldLeft(LAMBDA a, spelled :
             LET path == Normalize[spelled] IN
             [u |-> Resolve(m, a.u, path),
              ids |-> Distinct(Append(a.ids, ResolvedId(m, a.u, path)))],
           [u |-> u, ids |-> <<>>], TextIncludes[text])

\* The includes of a Source, resolved, are published and scheduled.
ScheduleIncludes(d, linked, ids) ==
  IF linked.status # "ok" THEN [d EXCEPT !.status = linked.status]
  ELSE [d EXCEPT !.u = linked.u, !.states = Distinct(@ \o ids)]

PublishIncludes(d, s, resolved) ==
  ScheduleIncludes(d, SetIncludes(EmptyManager, resolved.u, s, resolved.ids), resolved.ids)

\* A Source that was read is lexed for its includes.
LexIncludes(d, s, acquired) ==
  IF acquired.status # "ok" THEN [d EXCEPT !.status = acquired.status]
  ELSE PublishIncludes(d, s, ResolveIncludes(EmptyManager, acquired.u,
                               SnapshotOf(EmptyManager, acquired.u, s).text))

\* One Source of a wave.
DiscoverSource(d, disk, n) ==
  IF d.status # "ok" \/ n > Len(d.states) THEN d
  ELSE LexIncludes(d, d.states[n],
         ApplyAcquire(EmptyManager, d.u, d.states[n],
           Acquire(disk[PathOf(EmptyManager, d.u, d.states[n])], NoFile, NoSnapshot)))

ResolveRoots(roots) ==
  FoldLeft(LAMBDA d, path :
             [d EXCEPT !.u = Resolve(EmptyManager, @, path),
                       !.roots = Append(@, ResolvedId(EmptyManager, d.u, path)),
                       !.states = Distinct(Append(@, ResolvedId(EmptyManager, d.u, path)))],
           [u |-> BeginSourceUpdate, states |-> <<>>, roots |-> <<>>, status |-> "ok"], roots)

\* The roots, then wave after wave of what they include.
Discover(disk, roots, limit) ==
  FoldLeft(LAMBDA d, n : DiscoverSource(d, disk, n), ResolveRoots(roots), SlotsFrom(1, limit))

----------------------------------------------------------------------------
(* Scheduling: a Source is ready when the count of what it still awaits is *)
(* zero; every Source parsed lowers the count of those that await it.      *)

\* Mutant: one wave too many is ready.
LoweredOffByOne(remaining, awaits, parsed) == IF remaining = 0 THEN 0 ELSE
  IF \E i \in DOMAIN awaits : awaits[i] \in parsed THEN 0 ELSE remaining

Lowered(remaining, awaits, parsed) ==
  remaining - Len(SelectSeq(awaits, LAMBDA t : t \in parsed))

\* One wave: all ready Sources are parsed, in parallel, against interfaces of
\* earlier waves; the first failure in order ends the build.
ParseWave(w, awaits, ParseOne(_, _)) ==
  LET parsed == [s \in w.ready |-> ParseOne(s, w.blocks)]
      failed == {s \in w.ready : parsed[s].status # "ok"}
      lowered == [s \in DOMAIN w.remaining |-> Lowered(w.remaining[s], awaits[s], w.ready)]
  IN IF w.status # "ok" \/ w.ready = {} THEN w
     ELSE IF failed # {} THEN [w EXCEPT !.status = parsed[Min(failed)].status]
     ELSE [status |-> "ok", remaining |-> lowered,
           ready |-> {s \in DOMAIN lowered : w.remaining[s] # 0 /\ lowered[s] = 0},
           blocks |-> [s \in DOMAIN w.blocks \cup w.ready |->
                         IF s \in w.ready THEN parsed[s].block ELSE w.blocks[s]]]

AllParsed(w, awaits) ==
  IF w.status = "ok" /\ DOMAIN w.blocks # DOMAIN awaits
  THEN [w EXCEPT !.status = "semantic_conflict"] ELSE w

\* awaits[s]: what s waits for.  A cycle leaves Sources that never get ready.
Schedule(awaits, ParseOne(_, _)) ==
  AllParsed(FoldLeft(LAMBDA w, n : ParseWave(w, awaits, ParseOne),
              [status |-> "ok", remaining |-> [s \in DOMAIN awaits |-> Len(awaits[s])],
               ready |-> {s \in DOMAIN awaits : awaits[s] = <<>>}, blocks |-> <<>>],
              SlotsFrom(1, Cardinality(DOMAIN awaits))), awaits)

----------------------------------------------------------------------------
(* The full build.                                                         *)

FactsOf(m, u, s) == TextFacts[SnapshotOf(m, u, s).text]

\* Everything a Source sees: what it includes, however indirectly.
IncludeClosure(m, u, s) ==
  ToSet(Explore(IncludesOf(m, u, s), Known(m, u), LAMBDA x : IncludesOf(m, u, x)))

\* One Source against the interfaces of earlier waves.
ParseFull(u, s, blocks) ==
  LET parsed == Parse(FactsOf(EmptyManager, u, s),
                      {blocks[t] : t \in IncludeClosure(EmptyManager, u, s)})
  IN IF ~(ToSet(IncludesOf(EmptyManager, u, s)) \subseteq DOMAIN blocks)
     THEN FrontendFailed("initialization_failed")
     ELSE IF parsed # "ok" THEN FrontendFailed(parsed)
     ELSE InitializeExternal(FactsOf(EmptyManager, u, s))

GenerationOf(d, w) ==
  IF w.status # "ok" THEN FrontendFailed(w.status)
  ELSE [status |-> "ok", u |-> d.u, roots |-> d.roots,
        blocks |-> [s \in 1..Len(d.states) |-> w.blocks[s]]]

ParseDiscovered(d, cycles) ==
  IF d.status # "ok" THEN FrontendFailed(d.status)
  ELSE IF cycles # "ok" THEN FrontendFailed(cycles)
  ELSE GenerationOf(d, Schedule([s \in ToSet(d.states) |-> IncludesOf(EmptyManager, d.u, s)],
                                LAMBDA s, blocks : ParseFull(d.u, s, blocks)))

CheckDiscovered(d) == ParseDiscovered(d, ValidateSourceGraph(EmptyManager, d.u))

\* build: discover, refuse cycles, parse in waves.
FullFrontend(disk, roots, limit) == CheckDiscovered(Discover(disk, roots, limit))

----------------------------------------------------------------------------
(* The incremental build.                                                  *)

\* The dirty Sources are read again, in parallel, and applied in order.
AcquireDirty(m, disk, dirty) ==
  FoldLeft(LAMBDA a, s :
             LET applied == ApplyAcquire(m, a.u, s,
                              Acquire(disk[m.paths[s]], NoFile, SnapshotOf(m, a.u, s))) IN
             IF a.status # "ok" THEN a ELSE applied,
           [status |-> "ok", u |-> BeginSourceUpdate], dirty)

\* Each changed Source, followed by everyone who depends on it.
Affected(m, changed) ==
  Distinct(FlattenSeq([i \in DOMAIN changed |->
             <<changed[i]>> \o IF changed[i] > SourceCount(m) THEN <<>>
                               ELSE CollectDependents(m, changed[i])]))

\* A new include target is read, and joins the affected Sources.
AcquireNew(m, d, disk, ids) ==
  FoldLeft(LAMBDA a, t :
             LET applied == ApplyAcquire(m, a.u, t,
                              Acquire(disk[PathOf(m, a.u, t)], NoFile, SnapshotOf(m, a.u, t))) IN
             IF a.status # "ok" \/ t <= SourceCount(m) \/ t \in ToSet(a.states) THEN a
             ELSE [a EXCEPT !.status = applied.status, !.u = applied.u,
                            !.states = Append(@, t), !.changed = @ \cup {t}],
           d, ids)

\* A changed Source gets its new includes; they are the same when only a
\* Source behind it changed.
RelinkChanged(d, s, linked) ==
  [d EXCEPT !.status = linked.status, !.u = linked.u, !.relinked = Append(@, s)]

RelinkSource(d, m, s, ids) ==
  IF d.status # "ok" \/ s \notin d.changed THEN d
  ELSE RelinkChanged(d, s, SetIncludes(m, d.u, s, ids))

FollowIncludes(d, m, disk, s, resolved) ==
  RelinkSource(AcquireNew(m, [d EXCEPT !.u = resolved.u], disk, resolved.ids), m, s, resolved.ids)

\* One affected Source.  A changed Source whose file is gone is removed, with
\* no includes left; another Source without a file ends the build.
RediscoverSource(d, m, disk, s) ==
  IF SnapshotOf(m, d.u, s) # NoSnapshot
  THEN FollowIncludes(d, m, disk, s, ResolveIncludes(m, d.u, SnapshotOf(m, d.u, s).text))
  ELSE IF s \notin d.changed \/ s > SourceCount(m) THEN [d EXCEPT !.status = "not_found"]
  ELSE [d EXCEPT !.u = SetIncludes(m, @, s, <<>>).u, !.removed = @ \cup {s},
                 !.relinked = Append(@, s)]

Rediscover(d, m, disk, n) ==
  IF d.status # "ok" \/ n > Len(d.states) THEN d ELSE RediscoverSource(d, m, disk, d.states[n])

Dependencies(m, u, s) == ResolveIncludes(m, u, SnapshotOf(m, u, s).text).ids

\* The interface a Source has while its dependents are parsed: the one this
\* build made, the cached one unless it is to be replaced, or none yet.
Available(d, cached, blocks, s) ==
  IF s \in DOMAIN blocks THEN blocks[s]
  ELSE IF s \in ToSet(d.states) \/ s > Len(cached) THEN NoBlock ELSE cached[s]

ParseIncremental(m, d, cached, s, blocks) ==
  LET seen == {Available(d, cached, blocks, t) : t \in IncludeClosure(m, d.u, s)}
      parsed == Parse(FactsOf(m, d.u, s), seen \ {NoBlock})
  IN IF \E t \in ToSet(Dependencies(m, d.u, s)) : Available(d, cached, blocks, t) = NoBlock
     THEN FrontendFailed("not_found")
     ELSE IF parsed # "ok" THEN FrontendFailed(parsed)
     ELSE InitializeOwned(FactsOf(m, d.u, s))

ReplacementOf(d, w) ==
  IF w.status # "ok" THEN FrontendFailed(w.status)
  ELSE [status |-> "ok", u |-> d.u, entries |-> d.states, removed |-> d.removed,
        blocks |-> w.blocks]

ParseAffected(m, d, cached, parsing, cycles) ==
  IF d.status # "ok" THEN FrontendFailed(d.status)
  ELSE IF cycles # "ok" THEN FrontendFailed(cycles)
  ELSE ReplacementOf(d, Schedule(
         [s \in parsing |-> SelectSeq(Dependencies(m, d.u, s), LAMBDA t : t \in parsing)],
         LAMBDA s, blocks : ParseIncremental(m, d, cached, s, blocks)))

CheckAffected(m, d, cached) ==
  ParseAffected(m, d, cached, ToSet(d.states) \ d.removed,
                ValidateChangedSourceGraph(m, d.u, d.relinked))

\* Everything after the dirty Sources were read.
BuildAffected(m, disk, acquired, cached, limit) ==
  IF acquired.status # "ok" THEN FrontendFailed(acquired.status)
  ELSE IF acquired.u.semantic = <<>>
  THEN [status |-> "ok", u |-> acquired.u, entries |-> <<>>, removed |-> {}, blocks |-> <<>>]
  ELSE CheckAffected(m,
         FoldLeft(LAMBDA d, n : Rediscover(d, m, disk, n),
           [status |-> "ok", u |-> acquired.u, states |-> Affected(m, acquired.u.semantic),
            changed |-> ToSet(acquired.u.semantic), removed |-> {}, relinked |-> <<>>],
           SlotsFrom(1, limit)),
         cached)

\* build_incremental over a complete cache of interfaces.
IncrementalFrontend(m, disk, dirty, cached, limit) ==
  BuildAffected(m, disk, AcquireDirty(m, disk, dirty), cached, limit)

----------------------------------------------------------------------------
(* The cache of interfaces: all of a full build, or those of a mapped      *)
(* baseline with an overlay of replaced ones.                              *)

Counts(b) ==
  IF b = NoBlock
  THEN [frontends |-> 0, local_types |-> 0, type_slots |-> 0, object_slots |-> 0, member_slots |-> 0]
  ELSE [frontends |-> 1, local_types |-> Len(b.local_types), type_slots |-> Len(b.type_slots),
        object_slots |-> Len(b.object_slots), member_slots |-> Len(b.member_slots)]

\* add_persistence_record over all Sources.
Summary(blocks) ==
  FoldLeft(LAMBDA sum, b : [k \in DOMAIN sum |-> sum[k] + Counts(b)[k]], Counts(NoBlock), blocks)

FullCache(blocks) ==
  [blocks |-> blocks, baseline |-> 0, overlay |-> {}, summary |-> Summary(blocks)]

\* prepare_publish subtracts the previous record of every replaced Source and
\* adds the new one.
ReplacedSummary(fc, blocks, replaced) ==
  LET before(s) == IF s <= Len(fc.blocks) THEN fc.blocks[s] ELSE NoBlock IN
  [k \in DOMAIN fc.summary |->
     fc.summary[k] + Sum([s \in replaced |-> Counts(blocks[s])[k]])
                   - Sum([s \in replaced |-> Counts(before(s))[k]])]

\* publish_prepared over a mapped baseline: the entries of the build override
\* it, a removed Source with no interface.
ReplaceInterfaces(fc, built, count) ==
  LET replaced == ToSet(built.entries)
      blocks == [s \in 1..count |->
                   IF s \in DOMAIN built.blocks THEN built.blocks[s]
                   ELSE IF s \in replaced \/ s > Len(fc.blocks) THEN NoBlock
                   ELSE fc.blocks[s]]
  IN [fc EXCEPT !.blocks = blocks, !.overlay = @ \cup replaced,
                !.summary = ReplacedSummary(fc, blocks, replaced)]
=============================================================================
