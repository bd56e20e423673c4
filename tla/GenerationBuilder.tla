------------------------- MODULE GenerationBuilder -------------------------
(***************************************************************************)
(* The Generation Builder (builder/generation_builder.cpp): how the facts  *)
(* parsed from every Source become the Project Graph.                      *)
(*                                                                         *)
(* PrepareGraph builds a whole Graph from all contributions.  Incremental  *)
(* preparation subtracts the old contribution of each changed Source, adds *)
(* the new one, rematerialises the touched types, objects and links        *)
(* against the committed Graph, validates the reverse dependency closure   *)
(* and asks the Graph whether the update can be published.  Either way     *)
(* nothing is published unless every step succeeded.                       *)
(*                                                                         *)
(* Facts are what the Parser resolved: identities, not spellings.  Enum    *)
(* values are integers; the widths of int and long are scaled constants.   *)
(***************************************************************************)
EXTENDS Integers, SourceContribution, ProjectGraph

CONSTANTS IntBits, LongBits    \* widths of int and of the widest integer

ASSUME BuilderConstants == IntBits \in Nat \ {0} /\ LongBits \in Nat /\ IntBits < LongBits

Ok(value) == [status |-> "ok", value |-> value]
Fail(code) == [status |-> code]

----------------------------------------------------------------------------
(* Aggregating the declarations of one type.                               *)

RecordCounter(contribution) ==
  CASE contribution.record_kind = "class" -> "record_class"
    [] contribution.record_kind = "union" -> "record_union"
    [] OTHER -> "record_struct"

Conflicting(state) ==
  \/ state.record_union # 0 /\ state.record_struct + state.record_class # 0
  \/ state.enum_scoped # 0 /\ state.enum_unscoped # 0

\* One more declaration of a type, the index-th of the types arena.
AddConstruction(state, contribution, index) ==
  LET counter == IF contribution.kind = "record" THEN RecordCounter(contribution)
                 ELSE IF contribution.scoped THEN "enum_scoped" ELSE "enum_unscoped"
      counted == [state EXCEPT !.kind = contribution.kind,
                               !.declarations = @ + 1, ![counter] = @ + 1]
      fixes == contribution.kind = "enumeration" /\ contribution.underlying # "none"
      typed == IF fixes
               THEN [counted EXCEPT !.enum_fixed = @ + 1,
                                    !.fixed_underlying = contribution.underlying]
               ELSE counted
  IN IF \/ state.declarations # 0 /\ state.kind # contribution.kind
        \/ Conflicting(counted)
        \/ fixes /\ state.enum_fixed # 0
                 /\ state.fixed_underlying # contribution.underlying
        \/ contribution.definition /\ state.definitions # 0
     THEN Fail("semantic_conflict")
     ELSE Ok(IF contribution.definition
             THEN [typed EXCEPT !.definitions = 1, !.definition_type = index]
             ELSE typed)

\* Mutant: the definition slot survives the definition.
RemoveConstructionKeepsDefinition(state, contribution, index) ==
  IF state.declarations = 1 THEN Ok(EmptyConstruction)
  ELSE Ok([state EXCEPT !.declarations = @ - 1,
             ![IF contribution.kind = "record" THEN RecordCounter(contribution)
               ELSE "enum_unscoped"] = @ - 1])

\* One declaration less; the last one resets the whole state.
RemoveConstruction(state, contribution, index) ==
  LET counter == IF contribution.kind = "record" THEN RecordCounter(contribution)
                 ELSE IF contribution.scoped THEN "enum_scoped" ELSE "enum_unscoped"
      fixes == contribution.kind = "enumeration" /\ contribution.underlying # "none"
      undefined == IF contribution.definition
                   THEN [state EXCEPT !.definitions = 0, !.definition_type = 0]
                   ELSE state
      untyped == IF fixes
                 THEN [undefined EXCEPT !.enum_fixed = @ - 1,
                        !.fixed_underlying = IF state.enum_fixed = 1 THEN "none" ELSE @]
                 ELSE undefined
  IN IF \/ state.declarations = 0 \/ state.kind # contribution.kind
        \/ contribution.definition
             /\ (state.definitions # 1 \/ state.definition_type # index)
        \/ state[counter] = 0
        \/ fixes /\ (state.enum_fixed = 0 \/ state.fixed_underlying # contribution.underlying)
     THEN Fail("invalid_argument")
     ELSE Ok(IF state.declarations = 1 THEN EmptyConstruction
             ELSE [untyped EXCEPT ![counter] = @ - 1, !.declarations = @ - 1])

\* select_enum_underlying: the first of int, unsigned int, long, unsigned long
\* that holds every enumerator.
SelectEnumUnderlying(values) ==
  LET numbers == {values[i].value : i \in DOMAIN values} \cup {0}
      lo == Min(numbers)
      hi == Max(numbers)
      fits(low, high) == lo >= low /\ hi <= high
  IN IF fits(-(2^(IntBits-1)), 2^(IntBits-1) - 1) THEN Ok("int")
     ELSE IF fits(0, 2^IntBits - 1) THEN Ok("unsigned int")
     ELSE IF hi < 2^(LongBits-1) THEN Ok("long")
     ELSE IF lo = 0 THEN Ok("unsigned long")
     ELSE Fail("semantic_conflict")

----------------------------------------------------------------------------
(* The full build.  b is the build under way: its status, the captured     *)
(* cache, the detached Graph and the TypeRefs of its members and objects.  *)

NoIdentity == "no_identity"

\* The entry of a type at its first declaration, and after another one.
FirstEntry(c) ==
  [NoEntry EXCEPT !.live = TRUE, !.kind = c.kind,
     !.record_kind = c.record_kind, !.scoped = c.scoped,
     !.fixed = c.underlying # "none",
     !.underlying = IF c.kind = "record" THEN "none"
                    ELSE IF c.underlying = "none" THEN "int" ELSE c.underlying]

MergedEntry(e, c) ==
  IF c.kind = "record"
  THEN IF c.definition THEN [e EXCEPT !.record_kind = c.record_kind] ELSE e
  ELSE IF c.underlying = "none" THEN e
  ELSE [e EXCEPT !.fixed = TRUE, !.underlying = c.underlying]

NewSlot(g, entry, identity) ==
  [g EXCEPT !.types = Append(@, entry), !.identities = Append(@, identity),
            !.named_refs = Append(@, 0), !.versions = Append(@, 1),
            !.heads = Append(@, 0)]

\* A redeclaration in the slot its identity already has.
\* A redeclaration in the slot its identity already has.
MergeSlot(g, h, c) == [g EXCEPT !.types[h] = MergedEntry(@, c)]

\* One declaration in the type pass: a new slot, or a redeclaration merged
\* into the slot its identity already has.
DeclareFull(b, i) ==
  LET c == b.cache.arena["types"][i]
      found == FindIdentity(b.g, c.identity)
      h == IF found # 0 THEN found ELSE Len(b.g.types) + 1
      known == h \in DOMAIN b.cache.construction
      state == AddConstruction(IF known THEN b.cache.construction[h]
                               ELSE EmptyConstruction, c, i)
  IN IF b.status # "ok" THEN b
     ELSE IF state.status # "ok" THEN [b EXCEPT !.status = state.status]
     ELSE [b EXCEPT
             !.cache.construction = IF known THEN [@ EXCEPT ![h] = state.value]
                                    ELSE Append(@, state.value),
             !.g = IF known THEN MergeSlot(@, h, c)
                   ELSE NewSlot(@, FirstEntry(c), c.identity)]

\* Every identity a member or an object names must be a declared type, and no
\* object may be declared twice.
BasesDeclared(b) ==
  \A f \in {"members", "objects"} : \A i \in DOMAIN b.cache.arena[f] :
     LET t == b.cache.arena[f][i].type IN
     t.identity = NoIdentity \/ FindIdentity(b.g, t.identity) # 0

ObjectsDistinct(b) ==
  LET o == b.cache.arena["objects"] IN
  \A i, j \in DOMAIN o : o[i].identity = o[j].identity => i = j

\* get_intrinsic, get_named, get_derived: the record if the Graph has it,
\* appended otherwise.
CanonicalFull(g, record) ==
  LET found == FirstWhere(g.canonical, LAMBDA x : x = record) IN
  IF found # 0 THEN [g |-> g, ref |-> found]
  ELSE [g |-> [g EXCEPT !.canonical = Append(@, record),
                        !.derived_entries = IF record.kind = "derived" THEN @ + 1 ELSE @],
        ref |-> Len(g.canonical) + 1]

\* One derived record per modifier around a base.
DerivedFull(base, modifiers) ==
  FoldLeft(LAMBDA a, m :
             CanonicalFull(a.g, [kind |-> "derived", detail |-> m, child |-> a.ref]),
           base, modifiers)

\* The TypeRef of a contribution's type: its base, then its modifiers.
TypeRefFull(cache, g, type) ==
  LET base ==
        IF type.identity # NoIdentity
        THEN LET h == FindIdentity(g, type.identity)
                 r == CanonicalFull(g, [kind |-> "named", detail |-> "", child |-> h])
             IN [r EXCEPT !.g.named_refs[h] = r.ref]
        ELSE LET r == CanonicalFull(g, [kind |-> "intrinsic", detail |-> type.intrinsic,
                                        child |-> 0])
             IN [r EXCEPT !.g.intrinsic_refs[type.intrinsic] = r.ref]
  IN DerivedFull(base, Span(cache.arena["modifiers"], type.modifiers))

WithTypeRef(b, f, r) == [b EXCEPT !.g = r.g, !.refs[f] = Append(@, r.ref)]

\* The TypeRefs of all records of an arena, in arena order.
TypeRefsFull(b, f) ==
  FoldLeft(LAMBDA a, x : WithTypeRef(a, f, TypeRefFull(a.cache, a.g, x.type)),
           b, b.cache.arena[f])

\* One definition in the definition pass: members with their dependency
\* edges, or enumerators with the underlying type they need.
DefineFull(b, i) ==
  LET c == b.cache.arena["types"][i]
      h == FindIdentity(b.g, c.identity)
      items == Span(b.cache.arena[IF c.kind = "record" THEN "members" ELSE "enum_values"],
                    c.items)
      member(k) == [name |-> items[k].name, type |-> b.refs["members"][c.items.begin + k]]
      pending == [k \in DOMAIN items |->
                    [target |-> FindIdentity(b.g, items[k].type.identity),
                     owner |-> h, version |-> 1]]
      pushed == PushEdges(b.g.heads, b.g.edges,
                          SelectSeq(pending, LAMBDA e : e.target # 0))
      chosen == IF b.g.types[h].fixed \/ c.scoped THEN Ok(b.g.types[h].underlying)
                ELSE SelectEnumUnderlying(items)
  IN IF b.status # "ok" \/ ~c.definition THEN b
     ELSE IF c.kind = "record"
     THEN [b EXCEPT !.g.types[h].begin = Len(b.g.members) + 1,
                    !.g.types[h].count = Len(items),
                    !.g.members = @ \o [k \in DOMAIN items |-> member(k)],
                    !.g.heads = pushed.heads, !.g.edges = pushed.edges]
     ELSE IF chosen.status # "ok" THEN [b EXCEPT !.status = chosen.status]
     ELSE [b EXCEPT !.g.types[h].begin = Len(b.g.enum_values) + 1,
                    !.g.types[h].count = Len(items),
                    !.g.types[h].underlying = chosen.value,
                    !.g.enum_values = @ \o items]

\* An endpoint must be a live object of a defined record that has the member;
\* the type is the one its canonical reference names.
EndpointValid(object, canonical, type, member) ==
  /\ object.live
  /\ canonical.kind = "named"
  /\ type.live /\ type.kind = "record" /\ type.begin # 0 /\ member < type.count

EndpointValidFull(g, e) ==
  /\ e.object # 0
  /\ LET canonical == g.canonical[g.objects[e.object].type] IN
     EndpointValid(g.objects[e.object], canonical, g.types[canonical.child], e.member)

LinkFull(b, link) ==
  LET source == [link.source EXCEPT !.object = FindObjectIdentity(b.g, @)]
      target == [link.target EXCEPT !.object = FindObjectIdentity(b.g, @)]
  IN IF b.status # "ok" THEN b
     ELSE IF \/ ~EndpointValidFull(b.g, source) \/ ~EndpointValidFull(b.g, target)
             \/ FindLinkRaw(b.g, target) # 0
     THEN [b EXCEPT !.status = "semantic_conflict"]
     ELSE [b EXCEPT !.g.links = Append(@, [source |-> source, target |-> target])]

\* Live counts, index sizes and headroom, set once the arrays are complete.
SealFull(b) ==
  LET g == b.g
      atLeast(n) == IF n = 0 THEN MinIndex ELSE IndexCapacity(n)
      sealed == [g EXCEPT
        !.live = [types |-> Len(g.types), objects |-> Len(g.objects), links |-> Len(g.links)],
        !.index = [types |-> IndexCapacity(Len(g.types)), objects |-> atLeast(Len(g.objects)),
                   links |-> atLeast(Len(g.links)),
                   derived |-> atLeast(Len(b.cache.arena["modifiers"]))]]
  IN [b EXCEPT !.g = [sealed EXCEPT !.capacity = ReservedCapacity(sealed)]]

\* The last look at the detached Graph: ranges inside their arrays, live
\* objects and links, and TypeRefs that only name what exists.
DetachedValid(g) ==
  /\ \A h \in DOMAIN g.types : g.types[h].begin # 0 =>
       g.types[h].begin + g.types[h].count - 1 <=
         Len(IF g.types[h].kind = "record" THEN g.members ELSE g.enum_values)
  /\ \A h \in DOMAIN g.objects : g.objects[h].live /\ g.objects[h].type \in DOMAIN g.canonical
  /\ \A h \in DOMAIN g.links : g.links[h].source # NoEndpoint
  /\ \A r \in DOMAIN g.canonical :
       CASE g.canonical[r].kind = "named" -> g.canonical[r].child \in DOMAIN g.types
         [] g.canonical[r].kind = "derived" -> g.canonical[r].child \in DOMAIN g.canonical
         [] OTHER -> TRUE

Validated(b) == IF b.status = "ok" /\ ~DetachedValid(b.g)
                THEN [b EXCEPT !.status = "invalid_argument"] ELSE b

Indices(seq) == [i \in DOMAIN seq |-> i]

StartBuild(cache) ==
  [status |-> "ok", cache |-> cache, g |-> EmptyGraph,
   refs |-> [f \in {"members", "objects"} |-> <<>>]]

\* The type pass over every declaration.
DeclareTypes(cache) ==
  FoldLeft(DeclareFull, StartBuild(cache), Indices(cache.arena["types"]))

PlaceObjects(b) ==
  LET o == b.cache.arena["objects"] IN
  [b EXCEPT !.g.objects = [i \in DOMAIN o |-> [live |-> TRUE, type |-> b.refs["objects"][i]]],
            !.g.object_identities = [i \in DOMAIN o |-> o[i].identity]]

DefineTypes(b) == FoldLeft(DefineFull, b, Indices(b.cache.arena["types"]))

LinkObjects(b) == FoldLeft(LinkFull, b, b.cache.arena["links"])

\* The passes after the type pass.
CompleteGraph(b) ==
  IF b.status # "ok" THEN b
  ELSE IF ~BasesDeclared(b) \/ ~ObjectsDistinct(b)
  THEN [b EXCEPT !.status = "semantic_conflict"]
  ELSE Validated(SealFull(LinkObjects(DefineTypes(PlaceObjects(
         TypeRefsFull(TypeRefsFull(b, "members"), "objects"))))))

\* prepare_graph over a captured cache.
PrepareGraph(cache) == CompleteGraph(DeclareTypes(cache))

\* publish_prepared of a detached build.
PublishDetached(b) ==
  IF b.status # "ok" THEN Fail(b.status)
  ELSE [status |-> "ok", cache |-> PublishFull(b.cache), graph |-> b.g]

\* The facts of every Source of order, captured in a detached cache.
CaptureFull(facts, order) ==
  FoldLeft(LAMBDA c, s : ReplaceFull(c, s, facts[s]), EmptyCache(DOMAIN facts), order)

\* prepare_g0 and the publication of its result, for facts[s] of every Source
\* that exists.
FullBuild(facts, order) ==
  IF \E i \in DOMAIN order : HasBases(facts[order[i]]) THEN Fail("not_available")
  ELSE PublishDetached(PrepareGraph(CaptureFull(facts, order)))

----------------------------------------------------------------------------
(* The incremental build.  p is the update under way: its status, the      *)
(* sparse contributions c, the Graph update u, the touched handles in the  *)
(* order they were touched, and what the object and link passes have       *)
(* retired and claimed.                                                    *)

BeginUpdate(cache, g) ==
  [status |-> "ok", c |-> BeginIncremental(cache), u |-> EmptyUpdate(g),
   touched |-> <<>>, retired_objects |-> {}, claimed_objects |-> {},
   retired_links |-> {}, claimed_targets |-> {}]

Refused(p, code) == [p EXCEPT !.status = code]

Touch(touched, h) == IF \E i \in DOMAIN touched : touched[i] = h THEN touched
                     ELSE Append(touched, h)

FindOrCreateHandle(g, u, identity) ==
  LET old == FindIdentity(g, identity)
      new == FirstWhere(u.new_identities, LAMBDA x : x = identity)
  IN IF old # 0 THEN [u |-> u, handle |-> old]
     ELSE IF new # 0 THEN [u |-> u, handle |-> Len(g.types) + new]
     ELSE [u |-> [u EXCEPT !.new_identities = Append(@, identity)],
           handle |-> TypeSlots(g, u) + 1]

FindOrCreateObject(g, u, identity) ==
  LET old == FindObjectIdentity(g, identity)
      new == FirstWhere(u.new_object_identities, LAMBDA x : x = identity)
  IN IF old # 0 THEN [u |-> u, handle |-> old]
     ELSE IF new # 0 THEN [u |-> u, handle |-> Len(g.objects) + new]
     ELSE [u |-> [u EXCEPT !.new_object_identities = Append(@, identity)],
           handle |-> ObjectSlots(g, u) + 1]

\* Take one old declaration out of the type it belonged to.
SubtractType(cache, g, p, s, i) ==
  LET contribution == PreviousSlice(cache, s, "types")[i]
      h == FindIdentity(g, contribution.identity)
      next == RemoveConstruction(ConstructionOf(cache, p.c, h), contribution,
                                 cache.sources[s]["types"].begin + i)
  IN IF p.status # "ok" THEN p
     ELSE IF h = 0 THEN Refused(p, "invalid_argument")
     ELSE IF next.status # "ok" THEN Refused(p, next.status)
     ELSE [p EXCEPT !.c = SetConstruction(@, h, next.value), !.touched = Touch(@, h)]

\* Put one new declaration into its type, whose slot may be new too.
AddType(cache, g, p, s, i) ==
  LET contribution == ReplacementSlice(cache, p.c, s, "types")[i]
      slot == FindOrCreateHandle(g, p.u, contribution.identity)
      next == AddConstruction(ConstructionOf(cache, p.c, slot.handle), contribution,
                              p.c.sources[s]["types"].begin + i)
  IN IF p.status # "ok" THEN p
     ELSE IF next.status # "ok" THEN Refused(p, next.status)
     ELSE [p EXCEPT !.c = SetConstruction(@, slot.handle, next.value),
                    !.u = slot.u, !.touched = Touch(@, slot.handle)]

SubtractTypes(cache, g, p, s) ==
  FoldLeft(LAMBDA q, i : SubtractType(cache, g, q, s, i), p,
           Indices(PreviousSlice(cache, s, "types")))

AddTypes(cache, g, p, s) ==
  FoldLeft(LAMBDA q, i : AddType(cache, g, q, s, i), p,
           Indices(ReplacementSlice(cache, p.c, s, "types")))

\* The type pass goes Source by Source: subtract all it had, add all it has.
ExchangeTypes(cache, g, p, s) == AddTypes(cache, g, SubtractTypes(cache, g, p, s), s)

AppendCanonical(g, u, record) ==
  [u |-> [u EXCEPT !.canonical = Append(@, record),
                   !.new_derived = IF record.kind = "derived" THEN @ + 1 ELSE @],
   ref |-> Len(g.canonical) + Len(u.canonical) + 1]

GetIntrinsic(g, u, intrinsic) ==
  IF u.intrinsic_refs[intrinsic] # 0 THEN [u |-> u, ref |-> u.intrinsic_refs[intrinsic]]
  ELSE LET r == AppendCanonical(g, u, [kind |-> "intrinsic", detail |-> intrinsic, child |-> 0])
       IN [r EXCEPT !.u.intrinsic_refs[intrinsic] = r.ref]

\* The committed TypeRef of a named type, the one this update already made,
\* or a new one.
GetNamed(g, u, h) ==
  IF h \in DOMAIN g.named_refs /\ g.named_refs[h] # 0 THEN [u |-> u, ref |-> g.named_refs[h]]
  ELSE IF h \in DOMAIN u.named_refs THEN [u |-> u, ref |-> u.named_refs[h]]
  ELSE LET r == AppendCanonical(g, u, [kind |-> "named", detail |-> "", child |-> h])
       IN [r EXCEPT !.u.named_refs = Patched(@, h, r.ref)]

\* Mutant: the derived records this update already made are not looked up.
GetDerivedCommittedOnly(g, u, modifier, child) ==
  LET record == [kind |-> "derived", detail |-> modifier, child |-> child]
      old == FirstWhere(g.canonical, LAMBDA x : x = record)
  IN IF old # 0 THEN [u |-> u, ref |-> old] ELSE AppendCanonical(g, u, record)

\* The committed derived index first, then the local one of this update.
GetDerived(g, u, modifier, child) ==
  LET record == [kind |-> "derived", detail |-> modifier, child |-> child]
      old == FirstWhere(g.canonical, LAMBDA x : x = record)
      new == FirstWhere(u.canonical, LAMBDA x : x = record)
  IN IF old # 0 THEN [u |-> u, ref |-> old]
     ELSE IF new # 0 THEN [u |-> u, ref |-> Len(g.canonical) + new]
     ELSE AppendCanonical(g, u, record)

\* One derived record per modifier around a base.
Derived(g, base, modifiers) ==
  FoldLeft(LAMBDA a, m : GetDerived(g, a.u, m, a.ref), base, modifiers)

\* The TypeRef of a member or an object, and the handle its base names (0 for
\* an intrinsic).
MaterializeTypeRef(cache, g, c, u, type) ==
  LET slot == FindOrCreateHandle(g, u, type.identity)
      base == IF type.identity # NoIdentity THEN GetNamed(g, slot.u, slot.handle)
              ELSE GetIntrinsic(g, u, type.intrinsic)
      full == Derived(g, base, CombinedRange(cache, c, "modifiers", type.modifiers))
  IN [u |-> full.u, ref |-> full.ref,
      base |-> IF type.identity # NoIdentity THEN slot.handle ELSE 0]

\* One member of a redefined record, whose type came out as t: its record and,
\* for a named type, the edge that makes the owner a dependent of that type.
AddMember(t, owner, version, name) ==
  [t.u EXCEPT !.members = Append(@, [name |-> name, type |-> t.ref]),
              !.edges = IF t.base = 0 THEN @
                        ELSE Append(@, [target |-> t.base, owner |-> owner,
                                        version |-> version])]

MaterializeMember(cache, g, c, u, owner, version, member) ==
  AddMember(MaterializeTypeRef(cache, g, c, u, member.type), owner, version, member.name)

MaterializeMembers(cache, g, c, u, owner, version, members) ==
  FoldLeft(LAMBDA v, m : MaterializeMember(cache, g, c, v, owner, version, m), u, members)

\* Mutant: a type that was live keeps its old slot, definition included.
EntryOfStale(construction, old) ==
  IF old.live THEN old
  ELSE [NoEntry EXCEPT !.live = TRUE, !.kind = construction.kind]

\* The slot of a live type, from its aggregated declarations.  A record that
\* was live keeps the class-key it had, unless a union is involved.
EntryOf(construction, old) ==
  LET kept == old.live /\ old.kind = "record" /\ old.record_kind # "union"
      record_kind == CASE construction.record_union # 0 -> "union"
                       [] construction.record_union = 0 /\ kept -> old.record_kind
                       [] OTHER -> IF construction.record_class # 0
                                      /\ construction.record_struct = 0
                                   THEN "class" ELSE "struct"
  IN IF construction.kind = "record"
     THEN [NoEntry EXCEPT !.live = TRUE, !.record_kind = record_kind]
     ELSE [NoEntry EXCEPT !.live = TRUE, !.kind = "enumeration",
             !.scoped = construction.enum_scoped # 0,
             !.fixed = construction.enum_fixed # 0,
             !.underlying = IF construction.enum_fixed # 0 THEN construction.fixed_underlying
                            ELSE IF construction.enum_scoped # 0 THEN "int" ELSE "none"]

\* The type has a new version, so every edge it owned before is stale.
Versioned(g, u, h) ==
  [u EXCEPT !.versions = Patched(@, h, IF h <= Len(g.versions) THEN g.versions[h] + 1 ELSE 1)]

\* A slot without declarations is dead; one that gets its first is live.
Tombstoned(u, h, old) ==
  [u EXCEPT !.types = Patched(@, h, NoEntry),
            !.live.types = IF old.live THEN @ - 1 ELSE @]

Counted(u, old) == IF old.live THEN u ELSE [u EXCEPT !.live.types = @ + 1]

Placed(u, h, entry) == [u EXCEPT !.types = Patched(@, h, entry)]

\* Rematerialise one touched type: tombstone it, or give it a new entry and,
\* when it is defined, fresh members or enumerators.
MaterializeType(cache, g, p, h) ==
  LET construction == ConstructionOf(cache, p.c, h)
      old == IF h <= Len(g.types) THEN g.types[h] ELSE NoEntry
      versioned == Versioned(g, p.u, h)
      u == Counted(versioned, old)
      entry == EntryOf(construction, old)
      definition == TypeAt(cache, p.c, construction.definition_type)
      arena == IF definition.kind = "record" THEN "members" ELSE "enum_values"
      items == CombinedRange(cache, p.c, arena, definition.items)
      underlying == IF entry.fixed \/ entry.scoped THEN Ok(entry.underlying)
                    ELSE SelectEnumUnderlying(items)
      defined == [entry EXCEPT !.begin = Len(g[arena]) + Len(u[arena]) + 1,
                               !.count = Len(items)]
  IN IF p.status # "ok" THEN p
     ELSE IF construction.declarations = 0 THEN [p EXCEPT !.u = Tombstoned(versioned, h, old)]
     ELSE IF construction.definitions = 0 THEN [p EXCEPT !.u = Placed(u, h, entry)]
     ELSE IF definition.kind = "record"
     THEN [p EXCEPT !.u = Placed(MaterializeMembers(cache, g, p.c, u, h, u.versions[h], items),
                                 h, defined)]
     ELSE IF underlying.status # "ok" THEN Refused(p, underlying.status)
     ELSE [p EXCEPT !.u = Placed([u EXCEPT !.enum_values = @ \o items], h,
                                 [defined EXCEPT !.underlying = underlying.value])]

----------------------------------------------------------------------------
(* Objects and links: everything the changed Sources had is retired first, *)
(* then everything they have now is claimed.                               *)

RetireObject(g, p, object) ==
  LET h == FindObjectIdentity(g, object.identity) IN
  IF p.status # "ok" THEN p
  ELSE IF h = 0 THEN Refused(p, "invalid_argument")
  ELSE [p EXCEPT !.u.live.objects = IF CandidateObject(g, p.u, h).live THEN @ - 1 ELSE @,
                 !.u.objects = Patched(@, h, NoObject),
                 !.retired_objects = @ \cup {h}]

RetireLink(g, p, link) ==
  LET target == [link.target EXCEPT !.object = FindObjectIdentity(g, @)]
      h == FindLinkRaw(g, target)
      record == Overlaid(g.links, p.u.links, h)
  IN IF p.status # "ok" THEN p
     ELSE IF \/ FindObjectIdentity(g, link.source.object) = 0
             \/ target.object = 0 \/ h = 0
     THEN Refused(p, "invalid_argument")
     ELSE [p EXCEPT !.u.live.links = IF record.source # NoEndpoint THEN @ - 1 ELSE @,
                    !.u.links = Patched(@, h, [record EXCEPT !.source = NoEndpoint]),
                    !.retired_links = @ \cup {h}]

RetireObjects(g, p, objects) == FoldLeft(LAMBDA q, o : RetireObject(g, q, o), p, objects)

RetireLinks(g, p, links) == FoldLeft(LAMBDA q, l : RetireLink(g, q, l), p, links)

RetireSource(cache, g, p, s) ==
  RetireLinks(g, RetireObjects(g, p, PreviousSlice(cache, s, "objects")),
              PreviousSlice(cache, s, "links"))

ClaimObject(cache, g, p, object) ==
  LET slot == FindOrCreateObject(g, p.u, object.identity)
      h == slot.handle
      before == CandidateObject(g, slot.u, h)
      t == MaterializeTypeRef(cache, g, p.c, slot.u, object.type)
  IN IF p.status # "ok" THEN p
     ELSE IF h \in p.claimed_objects \/ before.live
     THEN Refused(p, "semantic_conflict")
     ELSE [p EXCEPT !.u = [t.u EXCEPT
                             !.objects = Patched(@, h, [live |-> TRUE, type |-> t.ref]),
                             !.live.objects = @ + 1],
                    !.claimed_objects = @ \cup {h}]

CandidateEndpointValid(g, u, e) ==
  LET object    == CandidateObject(g, u, e.object)
      canonical == CandidateCanonical(g, u, object.type)
  IN /\ object.live
     /\ EndpointValid(object, canonical, CandidateType(g, u, canonical.child), e.member)

\* A link takes over the retired slot of its target endpoint, or a new one; a
\* target that is still linked, or claimed twice, is a conflict.
ClaimLink(g, p, link) ==
  LET from == FindOrCreateObject(g, p.u, link.source.object)
      to == FindOrCreateObject(g, from.u, link.target.object)
      source == [link.source EXCEPT !.object = from.handle]
      target == [link.target EXCEPT !.object = to.handle]
      h == FindLinkRaw(g, target)
      record == [source |-> source, target |-> target]
      claimed == [p EXCEPT !.u = [to.u EXCEPT !.live.links = @ + 1],
                           !.claimed_targets = @ \cup {target}]
  IN IF p.status # "ok" THEN p
     ELSE IF \/ ~CandidateEndpointValid(g, to.u, source)
             \/ ~CandidateEndpointValid(g, to.u, target)
             \/ target \in p.claimed_targets
             \/ h # 0 /\ g.links[h].source # NoEndpoint /\ h \notin p.retired_links
     THEN Refused(p, "semantic_conflict")
     ELSE IF h # 0 THEN [claimed EXCEPT !.u.links = Patched(@, h, record)]
     ELSE [claimed EXCEPT !.u.new_links = Append(@, record)]

\* The touched types and everything that depends on them must name only live
\* types once the update is published.
MembersLive(g, u, touched) ==
  LET published == PublishUpdate([g EXCEPT !.heads = <<>>, !.edges = <<>>],
                                 [u EXCEPT !.edges = <<>>])
      base(ref) == Spelled(published, ref).base
  IN \A h \in DependencyClosure(g, touched) :
       \A i \in DOMAIN MembersOf(published, h) :
          LET b == base(MembersOf(published, h)[i].type) IN
          b \in Intrinsics \/ FindType(published, b) # 0

ValidateUpdate(g, p) ==
  IF p.status # "ok" THEN p
  ELSE IF ~MembersLive(g, p.u, {p.touched[i] : i \in DOMAIN p.touched})
  THEN Refused(p, "semantic_conflict")
  ELSE IF ~IndexesHold(g, p.u) THEN Refused(p, "rebuild_required")
  ELSE [p EXCEPT !.status = PrepareSparsePublication(g, p.u)]

\* capture: replacements first, removals after them.
ReplaceSources(cache, replacements, facts) ==
  FoldLeft(LAMBDA c, s : ReplaceSparse(c, s, facts[s]), BeginIncremental(cache), replacements)

RemoveSources(c, removals) == FoldLeft(RemoveSparse, c, removals)

CaptureUpdate(cache, g, replacements, removals, facts) ==
  [BeginUpdate(cache, g) EXCEPT
     !.c = RemoveSources(ReplaceSources(cache, replacements, facts), removals),
     !.status = IF \E i \in DOMAIN replacements : HasBases(facts[replacements[i]])
                THEN "not_available" ELSE "ok"]

\* The passes of prepare_incremental_graph, each over all changed Sources.
ExchangeAllTypes(cache, g, p) ==
  FoldLeft(LAMBDA q, s : ExchangeTypes(cache, g, q, s), p, p.c.changed)

MaterializeTypes(cache, g, p) ==
  FoldLeft(LAMBDA q, h : MaterializeType(cache, g, q, h), p, p.touched)

RetireSources(cache, g, p) ==
  FoldLeft(LAMBDA q, s : RetireSource(cache, g, q, s), p, p.c.changed)

ClaimObjectsOf(cache, g, p, s) ==
  FoldLeft(LAMBDA q, o : ClaimObject(cache, g, q, o), p,
           ReplacementSlice(cache, p.c, s, "objects"))

ClaimObjects(cache, g, p) ==
  FoldLeft(LAMBDA q, s : ClaimObjectsOf(cache, g, q, s), p, p.c.changed)

ClaimLinksOf(cache, g, p, s) ==
  FoldLeft(LAMBDA q, l : ClaimLink(g, q, l), p, ReplacementSlice(cache, p.c, s, "links"))

ClaimLinks(cache, g, p) ==
  FoldLeft(LAMBDA q, s : ClaimLinksOf(cache, g, q, s), p, p.c.changed)

PrepareIncrementalGraph(cache, g, captured) ==
  IF captured.status # "ok" THEN captured
  ELSE ValidateUpdate(g, ClaimLinks(cache, g, ClaimObjects(cache, g, RetireSources(cache, g,
         MaterializeTypes(cache, g, ExchangeAllTypes(cache, g, captured))))))

\* prepare_publish of the contributions: they must fit in their headroom.
FitContributions(cache, g, p, capacity) ==
  IF p.status # "ok" \/ g.backed \/ FitsHeadroom(cache, p.c, capacity) THEN p
  ELSE Refused(p, "rebuild_required")

\* prepare_incremental: the Graph first, then the contributions' headroom.
PrepareIncremental(cache, g, replacements, removals, facts, capacity) ==
  FitContributions(cache, g,
    PrepareIncrementalGraph(cache, g, CaptureUpdate(cache, g, replacements, removals, facts)),
    capacity)
============================================================================
