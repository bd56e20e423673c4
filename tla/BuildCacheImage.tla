-------------------------- MODULE BuildCacheImage --------------------------
(***************************************************************************)
(* build_cache.bin (persistence/build_cache_image.cpp): what only BUILD    *)
(* needs of a Project.  The texts and the interfaces of its Sources, one   *)
(* after another; the contribution arenas with their stale slices; the     *)
(* construction states; the lineage of the Graph; and the tables of file   *)
(* and directory references.                                               *)
(*                                                                         *)
(* Texts and interfaces have two writers.  One writes all Sources in order *)
(* (the native, the parallel and the serial loop produce the same records).*)
(* The other, over a mapped baseline and a capture of what was read again, *)
(* walks the baseline once, borrows the runs between changed Sources, and  *)
(* falls back to the first whenever something does not fit.  The other     *)
(* sections are copied from the baseline, patched and extended.  A section *)
(* the writer marks exact is not written at all: the store reuses the      *)
(* bytes of the baseline for it.                                           *)
(*                                                                         *)
(* The all-zero first record of the sections that are indexed by one-based *)
(* ids is left out.                                                        *)
(***************************************************************************)
EXTENDS CompiledImage, SourceManagerImage, SourceFrontend

CONSTANTS MaxExtents,     \* pieces one section may consist of (96)
          CarrierReserve, \* pieces kept for the other sections (26)
          NoImage         \* a Project without a baseline

CacheMagic == "build_cache"
CacheVersion == 6

FrontendArenas == {"local_types", "type_slots", "object_slots", "member_slots"}

HistoricalIndexes == {"type_identity_index", "object_identity_index", "link_target_index"}

CacheSections ==
  {"source_directory", "source_bytes", "states", "construction", "intrinsic_refs",
   "named_refs", "derived_index", "versions", "heads", "edges",
   "source_file_identity_index", "tracked_directory_identity_index"}
    \cup FrontendArenas \cup Arenas \cup HistoricalIndexes

SourceText(snapshot) ==
  IF snapshot = NoSnapshot THEN <<>>
  ELSE [i \in 1..TextLength[snapshot.text] |-> <<snapshot.text, i>>]

NoRanges == [a \in FrontendArenas |-> NoRange]

NoDirectoryRecord ==
  [snapshot |-> FALSE, frontend |-> FALSE, offset |-> 0, length |-> 0, ranges |-> NoRanges]

----------------------------------------------------------------------------
(* Records as they are written.                                            *)

RefOf(p, kind, name) ==
  IF IdentitySlot(p, kind, name) = 0 THEN NoIdentityRef ELSE IdentityOf(p, kind, name)

WriteInterface(p, arena, v) ==
  CASE arena = "local_types" -> RefOf(p, "type", v)
    [] arena = "type_slots" ->
         [parent |-> 1, name |-> StringId(p, v), identity |-> RefOf(p, "type", v)]
    [] arena = "object_slots" ->
         [parent |-> 1, name |-> StringId(p, v.identity), identity |-> RefOf(p, "object", v.identity),
          named_type |-> RefOf(p, "type", v.named_type)]
    [] OTHER -> [type |-> RefOf(p, "type", v.type), name |-> StringId(p, v.name), index |-> v.index]

WrittenBlock(p, block) ==
  [a \in FrontendArenas |->
     IF block = NoBlock THEN <<>>
     ELSE [i \in DOMAIN block[a] |-> WriteInterface(p, a, block[a][i])]]

WriteTypeRef(p, type) == [type EXCEPT !.identity = RefOf(p, "type", @)]

WriteContributionType(p, v) == [v EXCEPT !.identity = RefOf(p, "type", @)]

WriteContributionMember(p, v) == [name |-> StringId(p, v.name), type |-> WriteTypeRef(p, v.type)]

WriteContributionEnumValue(p, v) == [v EXCEPT !.name = StringId(p, @)]

WriteContributionObject(p, v) ==
  [identity |-> RefOf(p, "object", v.identity), type |-> WriteTypeRef(p, v.type)]

WriteContributionLink(p, v) ==
  LET end(e) == [e EXCEPT !.object = RefOf(p, "object", @)] IN
  [source |-> end(v.source), target |-> end(v.target)]

WriteContribution(p, section, v) ==
  CASE section = "types" -> WriteContributionType(p, v)
    [] section = "members" -> WriteContributionMember(p, v)
    [] section = "enum_values" -> WriteContributionEnumValue(p, v)
    [] section = "objects" -> WriteContributionObject(p, v)
    [] section = "links" -> WriteContributionLink(p, v)
    [] OTHER -> v

IntrinsicOrder == SetToSeq(Intrinsics)

DerivedHash(c) == Mix(2 * c.child + IF c.detail = "pointer" THEN 1 ELSE 0)

\* The lookup tables of a Graph: every slot, live or not, in handle order.
LineageIndex(p, g, s) ==
  LET all(n, Hash(_)) == [h \in 1..n |-> [hash |-> Hash(h), id |-> h]]
      derived == SelectSeq(SlotsFrom(1, Len(g.canonical)), LAMBDA r : g.canonical[r].kind = "derived")
  IN CASE s = "type_identity_index" ->
            InsertAll(EmptyIndex(g.index.types), all(Len(g.types), LAMBDA h :
              GraphIdentityHash(RefOf(p, "type", g.identities[h]))))
       [] s = "object_identity_index" ->
            InsertAll(EmptyIndex(g.index.objects), all(Len(g.objects), LAMBDA h :
              GraphIdentityHash(RefOf(p, "object", g.object_identities[h]))))
       [] s = "link_target_index" ->
            InsertAll(EmptyIndex(g.index.links), all(Len(g.links), LAMBDA h :
              EndpointHash(g.links[h].target)))
       [] OTHER -> InsertAll(EmptyIndex(g.index.derived), [i \in DOMAIN derived |->
                     [hash |-> DerivedHash(g.canonical[derived[i]]), id |-> derived[i]]])

LineageIndexes == HistoricalIndexes \cup {"derived_index"}

\* The mapped arrays behind the sections: contributions c, Graph g, n Sources.
CacheArrays(p, c, g, n) ==
  [s \in Arenas \cup LineageIndexes
          \cup {"states", "construction", "named_refs", "versions", "heads", "edges"} |->
     CASE s \in Arenas -> c.arena[s]
       [] s \in LineageIndexes -> LineageIndex(p, g, s)
       [] s = "states" -> [i \in 1..n |-> c.sources[i]]
       [] s = "construction" -> c.construction
       [] OTHER -> g[s]]

----------------------------------------------------------------------------
(* Reading.                                                                *)

CacheSourceCount(image) == image.header.counts.sources

SourceRecordAt(image, s) == image.sections["source_directory"][s]

TextAt(image, s) ==
  LET r == SourceRecordAt(image, s)
      bytes == image.sections["source_bytes"]
  IN IF ~r.snapshot \/ r.offset + r.length > Len(bytes) THEN <<>>
     ELSE SubSeq(bytes, r.offset + 1, r.offset + r.length)

\* frontend_local_type, frontend_type_slot, frontend_object_slot and
\* frontend_member_slot, for each index of a range.
FrontendSlots(image, arena, range) == EdgesAt(image.sections[arena], range)

\* frontend_block_view: the interface of a Source as four spans.
BlockAt(image, s) ==
  LET r == SourceRecordAt(image, s) IN
  [a \in FrontendArenas |-> IF r.frontend THEN FrontendSlots(image, a, r.ranges[a]) ELSE <<>>]

\* contribution_type, _member, _enum_value, _object and _link.
Contributions(image, arena) == ToSet(image.sections[arena])

ContributionStateAt(image, s) == image.sections["states"][s]

ConstructionAt(image, h) == image.sections["construction"][h]

\* named_ref, dependency_version, reverse_dependency_head, dependency_edge.
LineageAt(image, section, h) == image.sections[section][h]

FindTypeIdentity(image, compiled, identity) ==
  Find(image.sections["type_identity_index"], GraphIdentityHash(identity),
       LAMBDA h : compiled.sections["type_identities"][h] = identity)

FindObjectIdentityAt(image, compiled, identity) ==
  Find(image.sections["object_identity_index"], GraphIdentityHash(identity),
       LAMBDA h : compiled.sections["object_identities"][h] = identity)

FindLinkTarget(image, compiled, target) ==
  Find(image.sections["link_target_index"], EndpointHash(target),
       LAMBDA h : LinkRaw(compiled, h).target = target)

----------------------------------------------------------------------------
(* Binding.                                                                *)

\* The Graph lookups need a table even when it is empty; a capture is all or
\* nothing.
CacheCountsFit(image) ==
  LET n(s) == image.directory[s].count
      counts == image.header.counts
  IN /\ counts.frontends <= counts.sources
     /\ n("source_directory") = counts.sources /\ n("states") = counts.sources
     /\ n("source_bytes") = counts.bytes
     /\ n("intrinsic_refs") = Cardinality(Intrinsics)
     /\ n("named_refs") = n("versions") /\ n("heads") = n("versions")
     /\ \A s \in HistoricalIndexes : n(s) # 0 /\ OptionalIndex(n(s))
     /\ OptionalIndex(n("source_file_identity_index"))
     /\ OptionalIndex(n("tracked_directory_identity_index"))
     /\ IF counts.checkpoint THEN counts.sources = 0 \/ n("source_file_identity_index") # 0
        ELSE n("source_file_identity_index") = 0 /\ n("tracked_directory_identity_index") = 0
     /\ counts.derived <= n("derived_index")

BindCache(image) ==
  LET bound == BindFile(image, CacheMagic, CacheVersion) IN
  IF bound # "ok" \/ CacheCountsFit(image) THEN bound ELSE "artifact_corrupt"

BindCacheSections(image) ==
  LET bound == BindSections(image, CacheMagic, CacheVersion) IN
  IF bound # "ok" \/ CacheCountsFit(image) THEN bound ELSE "artifact_corrupt"

----------------------------------------------------------------------------
(* verify_contents.                                                        *)

RangeFits(range, values) == range.begin + range.count <= Len(values)

\* Texts and interfaces lie one after another without gaps, in source order.
VerifyDirectory(image) ==
  LET directory == image.sections["source_directory"]
      before(s, Size(_)) == Sum([t \in 1..(s - 1) |-> Size(directory[t])])
      bytes(r) == r.length
      records(a, r) == r.ranges[a].count
      n == CacheSourceCount(image)
  IN /\ \A s \in 1..n :
          /\ directory[s].offset = IF directory[s].snapshot THEN before(s, bytes) ELSE 0
          /\ ~directory[s].snapshot => directory[s].length = 0 /\ ~directory[s].frontend
          /\ ~directory[s].frontend => directory[s].ranges = NoRanges
          /\ directory[s].frontend => \A a \in FrontendArenas :
               /\ directory[s].ranges[a].begin = before(s, LAMBDA r : records(a, r))
               /\ RangeFits(directory[s].ranges[a], image.sections[a])
     /\ Len(image.sections["source_bytes"]) = before(n + 1, bytes)
     /\ \A a \in FrontendArenas :
          Len(image.sections[a]) = before(n + 1, LAMBDA r : records(a, r))
     /\ Cardinality({s \in 1..n : directory[s].frontend}) = image.header.counts.frontends

\* Every reference is found where the table says.
VerifyReferences(image) ==
  LET files == image.sections["source_file_identity_index"]
      directories == image.sections["tracked_directory_identity_index"]
  IN /\ \A e \in ToSet(files) :
          IF e.ref = 0 THEN e.value = {}
          ELSE e.value \subseteq 1..CacheSourceCount(image) /\ FindReference(files, e.ref) = e.value
     /\ \A e \in ToSet(directories) :
          IF e.ref = 0 THEN e.value = {}
          ELSE e.value # {} /\ FindReference(directories, e.ref) = e.value

\* The ranges of every Source lie in the arenas and add up to the statistics.
VerifyContributionStates(image) ==
  LET state(s) == ContributionStateAt(image, s)
      used == {s \in 1..CacheSourceCount(image) : state(s) # NoState}
      statistics == image.header.counts.statistics
  IN /\ \A s \in used : \A a \in Arenas : RangeFits(state(s)[a], image.sections[a])
     /\ \A a \in Arenas : statistics[a] = Sum([s \in used |-> state(s)[a].count])
     /\ statistics["sources"] = Cardinality(used)

\* Every range inside a record lies in its arena, stale records included.
VerifyContributions(image) ==
  /\ \A t \in Contributions(image, "types") :
       RangeFits(t.items, image.sections[IF t.kind = "record" THEN "members" ELSE "enum_values"])
  /\ \A a \in {"members", "objects"} : \A v \in Contributions(image, a) :
       RangeFits(v.type.modifiers, image.sections["modifiers"])

VerifyConstruction(image) ==
  \A h \in DOMAIN image.sections["construction"] :
    LET c == ConstructionAt(image, h) IN
    /\ c.definition_type <= Len(image.sections["types"]) /\ c.definitions <= 1
    /\ (c.definitions = 0) <=> (c.definition_type = 0)

\* Chains of edges only lead to older edges, so they end.
VerifyLineage(image) ==
  LET edge(i) == LineageAt(image, "edges", i)
      edges == DOMAIN image.sections["edges"]
      types == DOMAIN image.sections["versions"]
  IN
  /\ Cardinality(Occupied(image.sections["derived_index"])) = image.header.counts.derived
  /\ \A h \in types : LineageAt(image, "heads", h) \in edges \cup {0}
  /\ \A i \in edges : edge(i).owner \in types /\ edge(i).version # 0 /\ edge(i).next < i
  /\ \A s \in HistoricalIndexes : SlotsWellFormed(image.sections[s])

VerifyCache(image) ==
  /\ SectionsIntact(image) /\ VerifyDirectory(image) /\ VerifyReferences(image)
  /\ VerifyContributionStates(image) /\ VerifyContributions(image)
  /\ VerifyConstruction(image) /\ VerifyLineage(image)

----------------------------------------------------------------------------
(* verify_against: the image and compiled.bin are of one generation.       *)

IdentityOfKind(compiled, identity, kind) ==
  IdentityValid(compiled, identity) /\ identity.kind = kind

\* A text has the size, and unless that is proven the hash, of its file.
VerifySource(image, compiled, s, physical, hashed) ==
  LET r == SourceRecordAt(image, s)
      block == BlockAt(image, s)
      type(i) == IdentityOfKind(compiled, i, "type")
      named(n) == StringAt(compiled, n) # <<>>
  IN /\ r.snapshot = physical.present
     /\ r.snapshot => /\ Len(TextAt(image, s)) = physical.size
                      /\ hashed \/ \A b \in ToSet(TextAt(image, s)) : b[1] = physical.hash
     /\ \A i \in ToSet(block["local_types"]) : type(i)
     /\ \A t \in ToSet(block["type_slots"]) : type(t.identity) /\ named(t.name)
     /\ \A o \in ToSet(block["object_slots"]) :
          /\ IdentityOfKind(compiled, o.identity, "object") /\ named(o.name)
          /\ o.named_type = NoIdentityRef \/ type(o.named_type)
     /\ \A m \in ToSet(block["member_slots"]) : type(m.type) /\ named(m.name)

\* Stale contributions still name strings and identities that exist.
VerifyContributionNames(image, compiled) ==
  LET named(n) == StringAt(compiled, n) # <<>>
      typed(t) == IF t.identity = NoIdentityRef THEN t.intrinsic # "none"
                  ELSE IdentityOfKind(compiled, t.identity, "type") /\ t.intrinsic = "none"
      object(i) == IdentityOfKind(compiled, i, "object")
  IN /\ \A t \in Contributions(image, "types") : IdentityOfKind(compiled, t.identity, "type")
     /\ \A m \in Contributions(image, "members") : named(m.name) /\ typed(m.type)
     /\ \A v \in Contributions(image, "enum_values") : named(v.name)
     /\ \A o \in Contributions(image, "objects") : object(o.identity) /\ typed(o.type)
     /\ \A l \in Contributions(image, "links") : object(l.source.object) /\ object(l.target.object)

\* The caches of canonical TypeRefs point at records of their kind.
VerifyTypeRefs(image, compiled) ==
  LET refs == image.sections["intrinsic_refs"]
      named(h) == LineageAt(image, "named_refs", h)
      derived == image.sections["derived_index"]
  IN /\ \A i \in DOMAIN refs : refs[i] # 0 =>
          CanonicalAt(compiled, refs[i]) = [kind |-> "intrinsic", detail |-> IntrinsicOrder[i], child |-> 0]
     /\ \A h \in DOMAIN image.sections["named_refs"] : named(h) # 0 =>
          CanonicalAt(compiled, named(h)).kind = "named" /\ CanonicalAt(compiled, named(h)).child = h
     /\ \A i \in Occupied(derived) : CanonicalAt(compiled, derived[i].id).kind = "derived"

\* Every slot of the Graph, live or not, is found by its key.
VerifyHistorical(image, compiled) ==
  /\ \A h \in DOMAIN compiled.sections["types"] :
       FindTypeIdentity(image, compiled, compiled.sections["type_identities"][h]) = h
  /\ \A h \in DOMAIN compiled.sections["objects"] :
       FindObjectIdentityAt(image, compiled, compiled.sections["object_identities"][h]) = h
  /\ \A h \in DOMAIN compiled.sections["links"] :
       FindLinkTarget(image, compiled, LinkRaw(compiled, h).target) = h

\* verify_against_impl; physical[s] is what the other side says of a file.
VerifyAgainst(image, compiled, physical, hashed, indexed) ==
  /\ CacheSourceCount(image) = Len(physical)
  /\ Len(image.sections["construction"]) = Len(compiled.sections["types"])
  /\ Len(image.sections["versions"]) = Len(compiled.sections["types"])
  /\ \A s \in DOMAIN physical : VerifySource(image, compiled, s, physical[s], hashed)
  /\ VerifyContributionNames(image, compiled)
  /\ VerifyTypeRefs(image, compiled)
  /\ indexed \/ VerifyHistorical(image, compiled)

ManagerPhysical(m) == [s \in 1..SourceCount(m) |-> PhysicalRecord(Current(m, s))]

\* verify_against_encoded_generation: the lookup tables of a full build are
\* compared with the Graph they were copied from.
VerifyEncodedGeneration(image, compiled, p) ==
  /\ p.manager.baseline = 0 /\ ~p.graph.backed
  /\ compiled.sections["type_identities"] =
       [h \in DOMAIN p.graph.identities |-> RefOf(p, "type", p.graph.identities[h])]
  /\ compiled.sections["object_identities"] =
       [h \in DOMAIN p.graph.objects |-> RefOf(p, "object", p.graph.object_identities[h])]
  /\ compiled.sections["links"] = p.graph.links
  /\ \A s \in HistoricalIndexes : image.sections[s] = LineageIndex(p, p.graph, s)
  /\ VerifyAgainst(image, compiled, ManagerPhysical(p.manager), TRUE, TRUE)

\* What a freeze checks, by how source_manager.bin was written.
VerifyGeneration(image, compiled, sources, p, writer) ==
  CASE writer = "native" -> VerifyEncodedGeneration(image, compiled, p)
    [] writer = "sparse" -> VerifyAgainst(image, compiled, ManagerPhysical(p.manager), TRUE, FALSE)
    [] OTHER -> VerifyAgainst(image, compiled, sources.sections["physical_state"], FALSE, FALSE)

----------------------------------------------------------------------------
(* The writer of all Sources.                                              *)

CompactSource(st, p, s) ==
  LET snapshot == Current(p.manager, s)
      block == p.frontend.blocks[s]
      records == WrittenBlock(p, block)
      present == snapshot # NoSnapshot
      range(a) == [begin |-> Len(st.arenas[a]), count |-> Len(records[a])]
  IN [ok |-> st.ok /\ (block # NoBlock => present),
      directory |-> Append(st.directory,
        [snapshot |-> present, frontend |-> block # NoBlock,
         offset |-> IF present THEN Len(st.bytes) ELSE 0, length |-> Len(SourceText(snapshot)),
         ranges |-> IF block = NoBlock THEN NoRanges ELSE [a \in FrontendArenas |-> range(a)]]),
      bytes |-> st.bytes \o SourceText(snapshot),
      arenas |-> [a \in FrontendArenas |-> st.arenas[a] \o records[a]]]

\* What was written must be what the manager and the cache had announced.
TotalsAgree(st, p) ==
  /\ Len(st.bytes) = p.manager.text_bytes
  /\ \A a \in FrontendArenas : Len(st.arenas[a]) = p.frontend.summary[a]
  /\ Cardinality({s \in DOMAIN st.directory : st.directory[s].frontend}) = p.frontend.summary.frontends

CompactSources(p) ==
  LET written == FoldLeft(LAMBDA st, s : CompactSource(st, p, s),
                   [ok |-> TRUE, directory |-> <<>>, bytes |-> <<>>,
                    arenas |-> [a \in FrontendArenas |-> <<>>]],
                   SlotsFrom(1, SourceCount(p.manager)))
  IN [written EXCEPT !.ok = @ /\ TotalsAgree(written, p)]

----------------------------------------------------------------------------
(* The writer over a baseline.  An arena walks the baseline's records: all *)
(* up to logical were accounted for, all up to copy were copied to out or  *)
(* dropped.  While it is a candidate it has only written what the baseline *)
(* holds at the same place, and the whole section is borrowed.             *)

StartArena(base, current) ==
  [base |-> base, current |-> current, logical |-> 0, copy |-> 0, out |-> <<>>, ok |-> TRUE,
   candidate |-> base # <<>> /\ Len(base) = current, owned |-> FALSE, extents |-> 0]

Refuse(arena) == [arena EXCEPT !.ok = FALSE]

Room(arena) == arena.current - Len(arena.out)

FlushOwned(arena) ==
  IF arena.owned THEN [arena EXCEPT !.owned = FALSE, !.extents = @ + 1] ELSE arena

\* copy_arena_until and copy_text_until: borrow a run of the baseline.
CopyUntil(arena, target) ==
  LET run == SubSeq(arena.base, arena.copy + 1, target)
      borrowed == [FlushOwned(arena) EXCEPT !.out = @ \o run, !.copy = target, !.extents = @ + 1]
  IN IF target < arena.copy \/ target > Len(arena.base) THEN Refuse(arena)
     ELSE IF run = <<>> THEN arena
     ELSE IF Len(run) > Room(arena) THEN Refuse(arena) ELSE borrowed

\* A range the baseline has and the generation keeps, shifted by what was
\* replaced before it.
UnchangedRange(arena, old) ==
  [arena |-> IF old.begin # arena.logical \/ old.count > Len(arena.base) - arena.logical
                  \/ arena.logical < arena.copy
             THEN Refuse(arena) ELSE [arena EXCEPT !.logical = @ + old.count],
   range |-> [begin |-> Len(arena.out) + arena.logical - arena.copy, count |-> old.count]]

\* Everything before a replaced range is borrowed, the range itself dropped.
\* A Source the baseline does not have comes after all it has.
DropRange(arena, old, present, known) ==
  LET copied == CopyUntil(arena, arena.logical) IN
  IF ~known
  THEN IF arena.logical = Len(arena.base) THEN CopyUntil(arena, Len(arena.base)) ELSE Refuse(arena)
  ELSE IF ~present THEN IF old = NoRange THEN copied ELSE Refuse(arena)
  ELSE IF old.begin # arena.logical \/ old.count > Len(arena.base) - arena.logical THEN Refuse(arena)
  ELSE [copied EXCEPT !.copy = @ + old.count, !.logical = @ + old.count]

\* The records of a replaced range, borrowed when they are the same.
PutRecords(dropped, before, records, same) ==
  LET written == [dropped EXCEPT !.out = @ \o records]
      replaced ==
        IF records = <<>> THEN [written EXCEPT !.candidate = @ /\ before = 0]
        ELSE IF same THEN [FlushOwned(written) EXCEPT !.extents = @ + 1]
        ELSE [written EXCEPT !.candidate = FALSE, !.owned = TRUE]
  IN [arena |-> IF Len(records) > Room(dropped) THEN Refuse(dropped) ELSE replaced,
      range |-> [begin |-> Len(dropped.out), count |-> Len(records)]]

\* Mutant: as many records as before are taken to be the same records.
ReplaceRangeCounted(arena, old, present, records, known) ==
  LET before == IF known /\ present THEN old.count ELSE 0 IN
  PutRecords(DropRange(arena, old, present, known), before, records,
             arena.candidate /\ before = Len(records))

\* replace_arena_range.
ReplaceRange(arena, old, present, records, known) ==
  LET dropped == DropRange(arena, old, present, known)
      begin == Len(dropped.out)
      before == IF known /\ present THEN old.count ELSE 0
  IN PutRecords(dropped, before, records,
       /\ arena.candidate /\ before = Len(records)
       /\ SubSeq(arena.base, begin + 1, begin + Len(records)) = records)

\* A text that was read again, appended as a piece of its own.
ReplaceText(arena, old, present, text, known) ==
  LET dropped == DropRange(arena, old, present, known) IN
  [arena |-> IF Len(text) > Room(dropped) THEN Refuse(dropped)
             ELSE [dropped EXCEPT !.out = @ \o text,
                                  !.extents = IF text = <<>> THEN @ ELSE @ + 1],
   range |-> [begin |-> Len(dropped.out), count |-> Len(text)]]

\* One Source of try_sparse_source_frontend.
SparseSource(st, p, baseline, read, s) ==
  LET known == s <= CacheSourceCount(baseline)
      old == IF known THEN SourceRecordAt(baseline, s) ELSE NoDirectoryRecord
      oldText == [begin |-> old.offset, count |-> old.length]
      snapshot == Current(p.manager, s)
      overlaid == s \in p.frontend.overlay
      block == p.frontend.blocks[s]
      records == WrittenBlock(p, block)
      text == IF s \in read THEN ReplaceText(st.text, oldText, old.snapshot, SourceText(snapshot), known)
              ELSE IF old.snapshot THEN UnchangedRange(st.text, oldText)
              ELSE [arena |-> st.text, range |-> oldText]
      arenas == [a \in FrontendArenas |->
        IF overlaid THEN ReplaceRange(st.arenas[a], old.ranges[a], old.frontend, records[a], known)
        ELSE IF old.frontend THEN UnchangedRange(st.arenas[a], old.ranges[a])
        ELSE [arena |-> st.arenas[a], range |-> NoRange]]
      present == IF s \in read THEN snapshot # NoSnapshot ELSE old.snapshot
      frontend == IF overlaid THEN block # NoBlock ELSE old.frontend
  IN [ok |-> /\ st.ok /\ (known \/ s \in read)
             /\ old.frontend => old.snapshot
             /\ overlaid /\ frontend => present
             /\ ~overlaid /\ ~known => ~present,
      directory |-> Append(st.directory,
        [snapshot |-> present, frontend |-> frontend,
         offset |-> IF present THEN text.range.begin ELSE 0,
         length |-> IF present THEN text.range.count ELSE 0,
         ranges |-> IF frontend THEN [a \in FrontendArenas |-> arenas[a].range] ELSE NoRanges]),
      text |-> text.arena,
      arenas |-> [a \in FrontendArenas |-> arenas[a].arena]]

\* Pieces of the directory: runs of records as in the baseline and runs of
\* others.  Near the limit the rest becomes one run.
DirectoryExtents(old, new) ==
  LET step(e, s) ==
        LET same == s <= Len(old) /\ new[s] = old[s] /\ ~e.forced
            full == same /\ e.run = "owned" /\ e.flushed >= MaxExtents - 6
            run == IF same /\ ~full THEN "borrowed" ELSE "owned"
        IN [forced |-> e.forced \/ full, run |-> run,
            flushed |-> IF e.run \in {"none", run} THEN e.flushed ELSE e.flushed + 1]
  IN FoldLeft(step, [forced |-> FALSE, run |-> "none", flushed |-> 0],
              SlotsFrom(1, Len(new))).flushed + 1

\* The rest of the baseline is borrowed, and all of it is accounted for.
FinishArena(arena) ==
  LET done == FlushOwned(CopyUntil(arena, Len(arena.base))) IN
  [done EXCEPT !.ok = /\ @ /\ arena.logical = Len(arena.base) /\ Len(done.out) = arena.current
                      /\ done.extents <= MaxExtents]

WalkSources(p, baseline, read) ==
  FoldLeft(LAMBDA st, s : SparseSource(st, p, baseline, read, s),
    [ok |-> TRUE, directory |-> <<>>,
     text |-> StartArena(baseline.sections["source_bytes"], p.manager.text_bytes),
     arenas |-> [a \in FrontendArenas |->
                   StartArena(baseline.sections[a], p.frontend.summary[a])]],
    SlotsFrom(1, SourceCount(p.manager)))

FinishWalk(walked) ==
  [walked EXCEPT !.text = FinishArena(@),
                 !.arenas = [a \in FrontendArenas |-> FinishArena(@[a])]]

\* The pieces all sections together consist of.
SparseExtentCount(walked, directory) ==
  directory + walked.text.extents
    + Sum([a \in FrontendArenas |->
             IF walked.arenas[a].candidate THEN 0 ELSE walked.arenas[a].extents])

\* The sections are accepted if they are complete and of few enough pieces.
AcceptWalk(p, baseline, walked, directory) ==
  [ok |-> /\ CacheSourceCount(baseline) <= SourceCount(p.manager)
          /\ walked.ok /\ walked.text.ok /\ \A a \in FrontendArenas : walked.arenas[a].ok
          /\ directory <= MaxExtents
          /\ SparseExtentCount(walked, directory) <= MaxExtents - CarrierReserve
          /\ Cardinality({s \in DOMAIN walked.directory : walked.directory[s].frontend})
               = p.frontend.summary.frontends,
   directory |-> walked.directory, bytes |-> walked.text.out,
   arenas |-> [a \in FrontendArenas |-> IF walked.arenas[a].candidate THEN walked.arenas[a].base
                                        ELSE walked.arenas[a].out]]

AcceptSources(p, baseline, walked) ==
  AcceptWalk(p, baseline, walked,
             DirectoryExtents(baseline.sections["source_directory"], walked.directory))

\* try_sparse_source_frontend; read are the Sources of the capture's overlay
\* and of the overlay of interfaces.
SparseSources(p, baseline, read) ==
  AcceptSources(p, baseline, FinishWalk(WalkSources(p, baseline, read)))

\* The sparse writer when there is something to be sparse over, and the other
\* when it refuses.
SparseOrCompact(p, sparse) == IF sparse.ok THEN sparse ELSE CompactSources(p)

WriteSources(p, overlay, baseline) ==
  IF baseline # NoImage /\ overlay.kind = "overlay"
  THEN SparseOrCompact(p, SparseSources(p, baseline,
         p.frontend.overlay \cup UNION {e.value : e \in ToSet(overlay.files)}))
  ELSE CompactSources(p)

----------------------------------------------------------------------------
(* The whole image.                                                        *)

\* encode_mapped_baseline_section: with nothing appended, and every patched
\* record as it was, the section is the baseline's.
EncodeMapped(array, written, section) ==
  LET exact == /\ Len(section) = array.baseline /\ Len(array.values) = array.baseline
               /\ \A i \in array.materialized : written[i] = section[i]
  IN IF exact THEN section ELSE OverBaseline(array, written, section)

MappedSections(p, baseline) ==
  LET now == CacheArrays(p, p.cache, p.graph, SourceCount(p.manager))
      before == CacheArrays(p, p.opened.cache, p.opened.graph, p.manager.baseline)
      write(s, v) == IF s \in Arenas THEN WriteContribution(p, s, v) ELSE v
  IN [s \in DOMAIN now |->
        LET written == [i \in DOMAIN now[s] |-> write(s, now[s][i])] IN
        IF baseline = NoImage THEN written
        ELSE EncodeMapped(MappedOver(now[s], before[s], p.touch), written, baseline.sections[s])]

CacheCounts(p, capture) ==
  [sources |-> SourceCount(p.manager), frontends |-> p.frontend.summary.frontends,
   bytes |-> p.manager.text_bytes,
   derived |-> Cardinality({r \in DOMAIN p.graph.canonical : p.graph.canonical[r].kind = "derived"}),
   statistics |-> [k \in Arenas \cup {"sources"} |-> p.cache.statistics[k]],
   checkpoint |-> capture.kind # "disabled"]

CacheSectionsOf(p, capture, sources, mapped) ==
  [s \in CacheSections |->
     CASE s = "source_directory" -> sources.directory
       [] s = "source_bytes" -> sources.bytes
       [] s \in FrontendArenas -> sources.arenas[s]
       [] s = "intrinsic_refs" ->
            [i \in DOMAIN IntrinsicOrder |-> p.graph.intrinsic_refs[IntrinsicOrder[i]]]
       [] s = "source_file_identity_index" -> capture.files
       [] s = "tracked_directory_identity_index" -> capture.directories
       [] OTHER -> mapped[s]]

BoundCache(image) == Encoded(image, BindCacheSections(image))

SealCache(p, capture, sources, mapped) ==
  IF ~p.cache.complete THEN Failed("invalid_state")
  ELSE IF \/ Len(p.frontend.blocks) # SourceCount(p.manager)
          \/ Len(p.graph.named_refs) # Len(p.graph.versions)
          \/ Len(p.graph.heads) # Len(p.graph.versions)
          \/ Len(p.cache.construction) # Len(p.graph.types)
          \/ ~sources.ok
  THEN Failed("initialization_failed")
  ELSE BoundCache(Sealed(CacheMagic, CacheVersion, CacheCounts(p, capture),
                         CacheSectionsOf(p, capture, sources, mapped)))

\* encode_build_cache_image: capture is the materialized one, overlay the one
\* the build prepared.
EncodeBuildCache(p, capture, overlay, baseline) ==
  SealCache(p, capture, WriteSources(p, overlay, baseline), MappedSections(p, baseline))
============================================================================
