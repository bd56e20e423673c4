--------------------------- MODULE CompiledImage ---------------------------
(***************************************************************************)
(* compiled.bin (persistence/compiled_image.cpp): the strings, identities  *)
(* and Graph of a READY Project, with the query indexes a loaded Project   *)
(* answers from without building anything in memory.                       *)
(*                                                                         *)
(* There are two writers.  build_full_g0 encodes the sections of a Project *)
(* that was built from nothing.  encode_compiled_image encodes a Project   *)
(* that was opened over an earlier compiled.bin: it copies what it can     *)
(* from the baseline, overwrites patched records, appends new ones, and    *)
(* takes over whole indexes when no slot changed its liveness.  Both run   *)
(* the string and the identity sections on threads of their own when the   *)
(* tables are large.                                                       *)
(*                                                                         *)
(* A Project p is its string table p.strings (names by string id), its     *)
(* identity space p.identities (records by slot, the root first) and its   *)
(* Graph p.graph.  An identity is the pair of its slot and its kind.       *)
(***************************************************************************)
EXTENDS ImageFile, ProjectGraph

CONSTANTS NameLength,     \* NameLength[n]: the length of a name in bytes
          Hole            \* a slot that a lost race to intern left empty

CompiledMagic == "compiled"
CompiledVersion == 3

CompiledSections ==
  {"string_core", "string_index", "string_bytes", "identity_core", "identity_index",
   "types", "type_identities", "members", "enum_values", "objects", "object_identities",
   "links", "canonical_types", "graph_type_index", "graph_object_index", "graph_link_index"}

CompiledIndexes ==
  {"string_index", "identity_index", "graph_type_index", "graph_object_index",
   "graph_link_index"}

\* The bytes of a name; two names share no text.
Text(name) == [i \in 1..NameLength[name] |-> <<name, i>>]
StringHash(text) == NameHash[text[1][1]]
SemanticIdentityHash(parent, name) == Mix(parent + 2 * name)
GraphIdentityHash(identity) == Mix(identity.slot)
EndpointHash(endpoint) == Mix(2 * endpoint.object + endpoint.member)

NoIdentityRef == [slot |-> 0, kind |-> "none"]
NoIdentityRecord == [identity |-> NoIdentityRef, parent |-> 0, name |-> 0]

\* What a Project's tables answer: string id and identity of a name.
StringId(p, name) == FirstWhere(p.strings, LAMBDA n : n = name)

IdentitySlot(p, kind, name) ==
  FirstWhere(p.identities, LAMBDA r : r # Hole /\ r.kind = kind /\ r.name = StringId(p, name))

IdentityOf(p, kind, name) == [slot |-> IdentitySlot(p, kind, name), kind |-> kind]

----------------------------------------------------------------------------
(* Reading a bound image.                                                  *)

StringAt(image, id) ==
  LET core == image.sections["string_core"]
      bytes == image.sections["string_bytes"]
  IN IF id = 0 \/ id > Len(core) THEN <<>>
     ELSE IF core[id].length = 0 \/ core[id].offset + core[id].length > Len(bytes) THEN <<>>
     ELSE SubSeq(bytes, core[id].offset + 1, core[id].offset + core[id].length)

FindString(image, text) ==
  IF text = <<>> THEN 0
  ELSE Find(image.sections["string_index"], StringHash(text),
            LAMBDA id : StringAt(image, id) = text)

IdentityValid(image, identity) ==
  LET core == image.sections["identity_core"] IN
  /\ identity.slot \in 1..Len(core)
  /\ core[identity.slot].identity = identity

IdentityRecord(image, identity) ==
  IF IdentityValid(image, identity) THEN image.sections["identity_core"][identity.slot]
  ELSE NoIdentityRecord

\* find_identity: type and object of one name share their hash, the kind
\* tells them apart.
FindIdentityRef(image, parent, name, kind) ==
  LET core == image.sections["identity_core"]
      slot == Find(image.sections["identity_index"], SemanticIdentityHash(parent.slot, name),
                   LAMBDA s : /\ core[s].identity.kind = kind
                              /\ core[s].parent = parent.slot /\ core[s].name = name)
  IN IF ~IdentityValid(image, parent) \/ name = 0 \/ kind = "root" \/ slot = 0
     THEN NoIdentityRef ELSE core[slot].identity

TypeRaw(image, handle) ==
  LET types == image.sections["types"] IN
  IF handle \in 1..Len(types) THEN types[handle]
  ELSE [begin |-> 0, count |-> 0, kind |-> "record", record_kind |-> "struct",
        underlying |-> "none", flags |-> {}]

TypeLive(image, handle) == "live" \in TypeRaw(image, handle).flags

\* identity(handle) hides the identity of a tombstone.
TypeIdentity(image, handle) ==
  IF TypeLive(image, handle) THEN image.sections["type_identities"][handle]
  ELSE NoIdentityRef

FindTypeHandle(image, identity) ==
  IF ~IdentityValid(image, identity) THEN 0
  ELSE Find(image.sections["graph_type_index"], GraphIdentityHash(identity),
            LAMBDA h : TypeIdentity(image, h) = identity)

MemberCount(image, handle) ==
  LET t == TypeRaw(image, handle) IN
  IF TypeLive(image, handle) /\ t.kind = "record" /\ t.begin # 0 THEN t.count ELSE 0

MembersAt(image, handle) ==
  LET t == TypeRaw(image, handle) IN
  IF MemberCount(image, handle) = 0 THEN <<>>
  ELSE SubSeq(image.sections["members"], t.begin, t.begin + t.count - 1)

EnumValuesAt(image, handle) ==
  LET t == TypeRaw(image, handle) IN
  IF ~TypeLive(image, handle) \/ t.kind # "enumeration" \/ t.begin = 0 THEN <<>>
  ELSE SubSeq(image.sections["enum_values"], t.begin, t.begin + t.count - 1)

ObjectRaw(image, handle) ==
  LET objects == image.sections["objects"] IN
  IF handle \in 1..Len(objects) THEN objects[handle] ELSE [type |-> 0, flags |-> {}]

ObjectLive(image, handle) == "live" \in ObjectRaw(image, handle).flags

ObjectIdentity(image, handle) ==
  IF ObjectLive(image, handle) THEN image.sections["object_identities"][handle]
  ELSE NoIdentityRef

FindObjectHandle(image, identity) ==
  IF ~IdentityValid(image, identity) THEN 0
  ELSE Find(image.sections["graph_object_index"], GraphIdentityHash(identity),
            LAMBDA h : ObjectIdentity(image, h) = identity)

LinkRaw(image, handle) ==
  LET links == image.sections["links"] IN
  IF handle \in 1..Len(links) THEN links[handle]
  ELSE [source |-> NoEndpoint, target |-> NoEndpoint]

LinkLive(image, handle) ==
  LinkRaw(image, handle).source.object # 0 /\ LinkRaw(image, handle).target.object # 0

FindLinkHandle(image, target) ==
  IF target.object = 0 THEN 0
  ELSE Find(image.sections["graph_link_index"], EndpointHash(target),
            LAMBDA h : LinkLive(image, h) /\ LinkRaw(image, h).target = target)

\* The first canonical record is the null TypeRef.
NullCanonical == [kind |-> "intrinsic", detail |-> "", child |-> 0]

CanonicalAt(image, ref) ==
  LET records == image.sections["canonical_types"] IN
  IF ref = 0 \/ ref >= Len(records) THEN NullCanonical ELSE records[ref + 1]

NamedHandle(image, ref) ==
  LET c == CanonicalAt(image, ref) IN
  IF c.kind = "named" /\ TypeLive(image, c.child) THEN c.child ELSE 0

----------------------------------------------------------------------------
(* Binding: what makes direct reads safe.                                  *)

LiveCounts(strings, identities, live) ==
  [strings |-> strings, identities |-> identities, types |-> live.types,
   objects |-> live.objects, links |-> live.links]

\* No live count exceeds its slots, and there is a root identity.
LiveCountsFit(image) ==
  LET live == image.header.counts
      n(s) == image.directory[s].count
  IN /\ live.strings <= n("string_core")
     /\ live.identities \in 1..n("identity_core")
     /\ live.types <= n("types")
     /\ live.objects <= n("objects")
     /\ live.links <= n("links")

\* Parallel arrays agree and every index can be masked.
SectionCountsFit(image) ==
  LET n(s) == image.directory[s].count IN
  /\ n("type_identities") = n("types")
  /\ n("object_identities") = n("objects")
  /\ \A s \in CompiledIndexes : ValidSlots(n(s))

BindCompiled(image) ==
  LET bound == BindFile(image, CompiledMagic, CompiledVersion) IN
  IF bound # "ok" \/ (LiveCountsFit(image) /\ SectionCountsFit(image)) THEN bound
  ELSE "artifact_corrupt"

BindCompiledSections(image) ==
  LET bound == BindSections(image, CompiledMagic, CompiledVersion) IN
  IF bound # "ok" \/ (LiveCountsFit(image) /\ SectionCountsFit(image)) THEN bound
  ELSE "artifact_corrupt"

----------------------------------------------------------------------------
(* verify_contents: every record, every index slot and every count.        *)

\* Every slot of an index Agrees with its record, and there is one per live.
IndexExact(index, live, Agrees(_, _)) ==
  /\ SlotsWellFormed(index)
  /\ Cardinality(Occupied(index)) = live
  /\ \A i \in Occupied(index) : Agrees(index[i].id, index[i].fingerprint)

VerifyStrings(image) ==
  LET core == image.sections["string_core"]
      used == {id \in DOMAIN core : core[id].length # 0}
  IN /\ \A id \in DOMAIN core \ used : core[id].offset = 0
     /\ \A id \in used : /\ StringAt(image, id) # <<>>
                         /\ FindString(image, StringAt(image, id)) = id
     /\ Cardinality(used) = image.header.counts.strings

VerifyStringIndex(image) ==
  IndexExact(image.sections["string_index"], image.header.counts.strings,
    LAMBDA id, fingerprint :
      /\ StringAt(image, id) # <<>>
      /\ Fold32(StringHash(StringAt(image, id))) = fingerprint
      /\ FindString(image, StringAt(image, id)) = id)

\* An identity names a live parent and a live string and is found by them.
IdentitySound(image, record) ==
  LET parent == image.sections["identity_core"][record.parent].identity IN
  /\ record.identity.kind # "root"
  /\ record.parent \in DOMAIN image.sections["identity_core"]
  /\ IdentityValid(image, parent)
  /\ StringAt(image, record.name) # <<>>
  /\ FindIdentityRef(image, parent, record.name, record.identity.kind) = record.identity

VerifyIdentities(image) ==
  LET core == image.sections["identity_core"]
      used == {slot \in DOMAIN core : core[slot] # NoIdentityRecord}
  IN /\ core[1] = [identity |-> [slot |-> 1, kind |-> "root"], parent |-> 0, name |-> 0]
     /\ \A slot \in used \ {1} : core[slot].identity.slot = slot
                               /\ IdentitySound(image, core[slot])
     /\ Cardinality(used) = image.header.counts.identities

VerifyIdentityIndex(image) ==
  IndexExact(image.sections["identity_index"], image.header.counts.identities - 1,
    LAMBDA slot, fingerprint :
      LET record == image.sections["identity_core"][slot] IN
      /\ slot \in DOMAIN image.sections["identity_core"]
      /\ Fold32(SemanticIdentityHash(record.parent, record.name)) = fingerprint
      /\ IdentitySound(image, record))

VerifyTypes(image) ==
  LET types == image.sections["types"]
      limit(t) == Len(image.sections[IF t.kind = "record" THEN "members" ELSE "enum_values"])
  IN /\ \A h \in DOMAIN types :
          LET identity == image.sections["type_identities"][h] IN
          /\ identity.kind = "type" /\ IdentityValid(image, identity)
          /\ types[h].begin # 0 => types[h].begin - 1 + types[h].count <= limit(types[h])
          /\ TypeLive(image, h) => FindTypeHandle(image, identity) = h
     /\ Cardinality({h \in DOMAIN types : TypeLive(image, h)}) = image.header.counts.types

VerifyTypeIndex(image) ==
  IndexExact(image.sections["graph_type_index"], image.header.counts.types,
    LAMBDA h, fingerprint :
      /\ TypeIdentity(image, h) # NoIdentityRef
      /\ Fold32(GraphIdentityHash(TypeIdentity(image, h))) = fingerprint
      /\ FindTypeHandle(image, TypeIdentity(image, h)) = h)

VerifyMembers(image) ==
  \A i \in DOMAIN image.sections["members"] :
    LET m == image.sections["members"][i] IN
    /\ StringAt(image, m.name) # <<>>
    /\ m.type \in 1..(Len(image.sections["canonical_types"]) - 1)

VerifyEnumValues(image) ==
  \A i \in DOMAIN image.sections["enum_values"] :
    StringAt(image, image.sections["enum_values"][i].name) # <<>>

VerifyObjects(image) ==
  LET objects == image.sections["objects"] IN
  /\ \A h \in DOMAIN objects :
       LET identity == image.sections["object_identities"][h] IN
       /\ identity.kind = "object" /\ IdentityValid(image, identity)
       /\ objects[h].type \in 0..(Len(image.sections["canonical_types"]) - 1)
       /\ ObjectLive(image, h) => objects[h].type # 0
                                  /\ FindObjectHandle(image, identity) = h
  /\ Cardinality({h \in DOMAIN objects : ObjectLive(image, h)}) = image.header.counts.objects

VerifyObjectIndex(image) ==
  IndexExact(image.sections["graph_object_index"], image.header.counts.objects,
    LAMBDA h, fingerprint :
      /\ ObjectIdentity(image, h) # NoIdentityRef
      /\ Fold32(GraphIdentityHash(ObjectIdentity(image, h))) = fingerprint
      /\ FindObjectHandle(image, ObjectIdentity(image, h)) = h)

VerifyCanonical(image) ==
  LET records == image.sections["canonical_types"] IN
  \A i \in DOMAIN records :
    CASE i = 1 -> records[i] = NullCanonical
      [] records[i].kind = "named" -> records[i].child \in DOMAIN image.sections["types"]
      [] records[i].kind = "derived" -> records[i].child \in 1..(Len(records) - 1)
      [] OTHER -> records[i].detail # ""

\* An endpoint is a member of the record that a live object has as its type.
EndpointSound(image, e) ==
  /\ ObjectLive(image, e.object)
  /\ LET t == NamedHandle(image, ObjectRaw(image, e.object).type) IN
     t # 0 /\ e.member < MemberCount(image, t)

VerifyLinks(image) ==
  LET live == {h \in DOMAIN image.sections["links"] : LinkLive(image, h)} IN
  /\ \A h \in live : LET l == LinkRaw(image, h) IN
       /\ EndpointSound(image, l.source) /\ EndpointSound(image, l.target)
       /\ FindLinkHandle(image, l.target) = h
  /\ Cardinality(live) = image.header.counts.links

VerifyLinkIndex(image) ==
  IndexExact(image.sections["graph_link_index"], image.header.counts.links,
    LAMBDA h, fingerprint :
      /\ LinkLive(image, h)
      /\ Fold32(EndpointHash(LinkRaw(image, h).target)) = fingerprint
      /\ FindLinkHandle(image, LinkRaw(image, h).target) = h)

VerifyCompiled(image) ==
  /\ SectionsIntact(image)
  /\ VerifyStrings(image) /\ VerifyStringIndex(image)
  /\ VerifyIdentities(image) /\ VerifyIdentityIndex(image)
  /\ VerifyTypes(image) /\ VerifyTypeIndex(image)
  /\ VerifyMembers(image) /\ VerifyEnumValues(image)
  /\ VerifyObjects(image) /\ VerifyObjectIndex(image)
  /\ VerifyCanonical(image)
  /\ VerifyLinks(image) /\ VerifyLinkIndex(image)

----------------------------------------------------------------------------
(* Records as they are written.                                            *)

WriteType(e) ==
  [begin |-> e.begin, count |-> e.count, kind |-> e.kind, record_kind |-> e.record_kind,
   underlying |-> e.underlying,
   flags |-> {f \in {"live", "scoped", "fixed"} : e[f]}]

WriteMember(p, m) == [m EXCEPT !.name = StringId(p, @)]
WriteEnumValue(p, v) == [v EXCEPT !.name = StringId(p, @)]

WriteObject(o) == [type |-> o.type, flags |-> IF o.live THEN {"live"} ELSE {}]

\* The arrays of the Graph behind the sections, as the code keeps them.
GraphArrays(p) ==
  [types |-> p.graph.types, type_identities |-> p.graph.identities,
   members |-> p.graph.members, enum_values |-> p.graph.enum_values,
   objects |-> p.graph.objects, object_identities |-> p.graph.object_identities,
   links |-> p.graph.links, canonical_types |-> <<NullCanonical>> \o p.graph.canonical]

WriteGraphRecord(p, section, value) ==
  CASE section = "types" -> WriteType(value)
    [] section = "type_identities" -> IdentityOf(p, "type", value)
    [] section = "members" -> WriteMember(p, value)
    [] section = "enum_values" -> WriteEnumValue(p, value)
    [] section = "objects" -> WriteObject(value)
    [] section = "object_identities" -> IdentityOf(p, "object", value)
    [] OTHER -> value

NativeGraphSections(p) ==
  [s \in DOMAIN GraphArrays(p) |->
     [i \in DOMAIN GraphArrays(p)[s] |-> WriteGraphRecord(p, s, GraphArrays(p)[s][i])]]

----------------------------------------------------------------------------
(* Strings and identities, appended to what the sections already hold.     *)

LiveStrings(p) == {id \in DOMAIN p.strings : p.strings[id] # Hole}
LiveIdentities(p) == {slot \in DOMAIN p.identities : p.identities[slot] # Hole}

NoStrings(slots) == [core |-> <<>>, bytes |-> <<>>, index |-> EmptyIndex(slots)]
NoIdentities(slots) == [core |-> <<>>, index |-> EmptyIndex(slots)]

\* A hole keeps the zeros of the allocation.
AppendString(st, p, id) ==
  LET text == Text(p.strings[id]) IN
  IF p.strings[id] = Hole
  THEN [st EXCEPT !.core = Append(@, [offset |-> 0, length |-> 0])]
  ELSE [core |-> Append(st.core, [offset |-> Len(st.bytes), length |-> Len(text)]),
        bytes |-> st.bytes \o text,
        index |-> Insert(st.index, StringHash(text), id)]

AppendIdentity(st, p, slot) ==
  LET r == p.identities[slot]
      record == [identity |-> [slot |-> slot, kind |-> r.kind],
                 parent |-> r.parent, name |-> r.name]
  IN IF r = Hole THEN [st EXCEPT !.core = Append(@, NoIdentityRecord)]
     ELSE [core |-> Append(st.core, record),
           index |-> IF r.kind = "root" THEN st.index
                     ELSE Insert(st.index, SemanticIdentityHash(r.parent, r.name), slot)]

EncodeStrings(st, p) ==
  FoldLeft(LAMBDA a, id : AppendString(a, p, id), st,
           SlotsFrom(Len(st.core) + 1, Len(p.strings)))

EncodeIdentities(st, p) ==
  FoldLeft(LAMBDA a, slot : AppendIdentity(a, p, slot), st,
           SlotsFrom(Len(st.core) + 1, Len(p.identities)))

\* The slots of the five indexes, by what the Project has live.
IndexSlots(p) ==
  [string_index |-> Slots(Cardinality(LiveStrings(p))),
   identity_index |-> Slots(Cardinality(LiveIdentities(p)) - 1),
   graph_type_index |-> Slots(p.graph.live.types),
   graph_object_index |-> Slots(p.graph.live.objects),
   graph_link_index |-> Slots(p.graph.live.links)]

\* Strings are encoded on one thread and identities on another.  When the
\* second thread cannot be started the first is joined and both are encoded
\* serially, into the buffers the first has already filled.
StringsAfterLaunch(start, p, launch) ==
  LET once == EncodeStrings(start, p) IN
  IF launch = "second_failed" THEN EncodeStrings([start EXCEPT !.index = once.index], p)
  ELSE once

\* The live handles of a Graph array, in order, as index entries.
LiveEntries(count, Live(_), Hash(_)) ==
  LET handles == SelectSeq(SlotsFrom(1, count), Live) IN
  [i \in DOMAIN handles |-> [hash |-> Hash(handles[i]), id |-> handles[i]]]

TypeEntries(p) ==
  LiveEntries(Len(p.graph.types), LAMBDA h : p.graph.types[h].live,
              LAMBDA h : GraphIdentityHash(IdentityOf(p, "type", p.graph.identities[h])))

ObjectEntries(p) ==
  LiveEntries(Len(p.graph.objects), LAMBDA h : p.graph.objects[h].live,
              LAMBDA h : GraphIdentityHash(IdentityOf(p, "object", p.graph.object_identities[h])))

LinkEntries(p) ==
  LiveEntries(Len(p.graph.links), LAMBDA h : p.graph.links[h].source # NoEndpoint,
              LAMBDA h : EndpointHash(p.graph.links[h].target))

IndexEntries(p) ==
  [graph_type_index |-> TypeEntries(p), graph_object_index |-> ObjectEntries(p),
   graph_link_index |-> LinkEntries(p)]

BuiltIndex(p, s) == InsertAll(EmptyIndex(IndexSlots(p)[s]), IndexEntries(p)[s])

\* What has to agree before a prefix is written: the arrays are parallel and
\* as many handles were indexed as the Graph counts live.
CountsAgree(p) ==
  /\ Len(p.graph.types) = Len(p.graph.identities)
  /\ Len(p.graph.objects) = Len(p.graph.object_identities)
  /\ Len(TypeEntries(p)) = p.graph.live.types
  /\ Len(ObjectEntries(p)) = p.graph.live.objects
  /\ Len(LinkEntries(p)) = p.graph.live.links

Failed(status) == [status |-> status]
Encoded(image, bound) ==
  IF bound = "ok" THEN [status |-> "ok", image |-> image] ELSE Failed(bound)

CompiledOf(p, strings, identities, graph, indexes) ==
  Sealed(CompiledMagic, CompiledVersion,
         LiveCounts(Cardinality(LiveStrings(p)), Cardinality(LiveIdentities(p)), p.graph.live),
         [s \in CompiledSections |->
            CASE s = "string_core" -> strings.core
              [] s = "string_index" -> strings.index
              [] s = "string_bytes" -> strings.bytes
              [] s = "identity_core" -> identities.core
              [] s = "identity_index" -> identities.index
              [] s \in DOMAIN graph -> graph[s]
              [] OTHER -> indexes[s]])

----------------------------------------------------------------------------
(* The two writers.                                                        *)

BoundFullG0(image) == Encoded(image, BindCompiledSections(image))

\* build_full_g0: a Project built from nothing keeps its Graph arrays as the
\* sections; strings, identities and indexes are encoded.
BuildFullG0(p, launch) ==
  IF CountsAgree(p)
  THEN BoundFullG0(CompiledOf(p,
         StringsAfterLaunch(NoStrings(IndexSlots(p).string_index), p, launch),
         EncodeIdentities(NoIdentities(IndexSlots(p).identity_index), p),
         NativeGraphSections(p),
         [s \in DOMAIN IndexEntries(p) |-> BuiltIndex(p, s)]))
  ELSE Failed("initialization_failed")

\* The string sections of the baseline are taken over when the Project only
\* appended to them and the index has kept its size.  Copying them in also
\* clears what an earlier attempt left.
StringsReusable(p, baseline) ==
  /\ Len(baseline.sections["string_core"]) <= Len(p.strings)
  /\ Len(baseline.sections["string_index"]) = IndexSlots(p).string_index

StringsOver(p, baseline, launch) ==
  IF StringsReusable(p, baseline)
  THEN EncodeStrings([core |-> baseline.sections["string_core"],
                      bytes |-> baseline.sections["string_bytes"],
                      index |-> baseline.sections["string_index"]], p)
  ELSE StringsAfterLaunch(NoStrings(IndexSlots(p).string_index), p, launch)

BaselineIdentities(p, baseline) ==
  LET core == baseline.sections["identity_core"]
      index == baseline.sections["identity_index"]
  IN IF Len(core) <= Len(p.identities) /\ Len(index) = IndexSlots(p).identity_index
     THEN [core |-> core, index |-> index]
     ELSE NoIdentities(IndexSlots(p).identity_index)

\* Mutant: a slot that was patched twice is taken to be unpatched.
MappedOverUnpatched(values, old, touch) ==
  Mapped(values, Len(old), {i \in DOMAIN old : ~touch /\ values[i] # old[i]})

\* The arrays of the Project over those it was opened with.  A slot that was
\* patched is materialized; p.touch adds the slots patched with what they held.
MappedOver(values, old, touch) ==
  Mapped(values, Len(old),
         {i \in DOMAIN old : touch \/ values[i] # old[i]})

GraphSectionsOver(p, baseline) ==
  [s \in DOMAIN GraphArrays(p) |->
     LET now == GraphArrays(p)[s] IN
     OverBaseline(MappedOver(now, GraphArrays(p.opened)[s], p.touch),
                  [i \in DOMAIN now |-> WriteGraphRecord(p, s, now[i])], baseline.sections[s])]

\* A query index is taken over when no slot was added and none changed its
\* liveness; the link index also depends on the records themselves.
SameLiveness(p, baseline, s, LiveBefore(_), LiveNow(_)) ==
  LET array == MappedOver(GraphArrays(p)[s], GraphArrays(p.opened)[s], p.touch) IN
  /\ Len(array.values) = array.baseline
  /\ Len(baseline.sections[s]) = array.baseline
  /\ \A h \in array.materialized : LiveBefore(h) <=> LiveNow(h)

ReuseTypeIndex(p, baseline) ==
  /\ SameLiveness(p, baseline, "types", LAMBDA h : TypeLive(baseline, h),
                  LAMBDA h : p.graph.types[h].live)
  /\ baseline.header.counts.types = p.graph.live.types

ReuseObjectIndex(p, baseline) ==
  /\ SameLiveness(p, baseline, "objects", LAMBDA h : ObjectLive(baseline, h),
                  LAMBDA h : p.graph.objects[h].live)
  /\ baseline.header.counts.objects = p.graph.live.objects

\* Mutant: a patched link is trusted to stay where it was indexed.
ReuseLinkIndexPatched(p, baseline) ==
  /\ Len(p.graph.links) = Len(baseline.sections["links"])

ReuseLinkIndex(p, baseline) ==
  LET array == MappedOver(p.graph.links, p.opened.graph.links, p.touch) IN
  /\ array.materialized = {}
  /\ Len(array.values) = array.baseline
  /\ Len(baseline.sections["links"]) = array.baseline
  /\ baseline.header.counts.links = p.graph.live.links

\* A reused index must also have kept its size.
IndexOver(p, baseline, s, reusable) ==
  IF reusable /\ Len(baseline.sections[s]) = IndexSlots(p)[s]
  THEN baseline.sections[s] ELSE BuiltIndex(p, s)

IndexesOver(p, baseline) ==
  [s \in DOMAIN IndexEntries(p) |->
     IndexOver(p, baseline, s,
       CASE s = "graph_type_index" -> ReuseTypeIndex(p, baseline)
         [] s = "graph_object_index" -> ReuseObjectIndex(p, baseline)
         [] OTHER -> ReuseLinkIndex(p, baseline))]

BoundCompiled(image) == Encoded(image, BindCompiled(image))

\* encode_compiled_image over the image the Project was opened from.
EncodeCompiledImage(p, baseline, launch) ==
  IF CountsAgree(p)
  THEN BoundCompiled(CompiledOf(p, StringsOver(p, baseline, launch),
         EncodeIdentities(BaselineIdentities(p, baseline), p),
         GraphSectionsOver(p, baseline), IndexesOver(p, baseline)))
  ELSE Failed("initialization_failed")
============================================================================
