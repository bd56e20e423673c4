--------------------------- MODULE ProjectGraph ---------------------------
(***************************************************************************)
(* The compiled Graph of a Project (graph/graph.cpp): flat arrays of       *)
(* types, members, enumerators, objects, links and canonical TypeRefs,     *)
(* joined by one-based handles, plus the build-side lineage (identity      *)
(* indexes, dependency versions and reverse dependency edges).             *)
(*                                                                         *)
(* An incremental build prepares a sparse update (new records and patches  *)
(* of existing slots) that prepare_sparse_publication admits or refuses    *)
(* and publish_prepared applies without failing.  Slots are never freed:   *)
(* the last declaration of a type tombstones its slot, a later one revives *)
(* it.  A hash index is modelled by the lookup it answers and by its size, *)
(* which bounds its load.                                                  *)
(***************************************************************************)
EXTENDS Naturals, Sequences, SequencesExt, FiniteSets, FiniteSetsExt

CONSTANTS Intrinsics,    \* the intrinsic types in use
          MinIndex,      \* smallest hash index (8 in the code)
          Headroom       \* spare capacity of a full build (size / 16 + 64)

ASSUME GraphConstants == MinIndex \in Nat \ {0} /\ Headroom \in Nat

NoEntry ==
  [live |-> FALSE, kind |-> "record", record_kind |-> "struct", scoped |-> FALSE,
   fixed |-> FALSE, underlying |-> "none", begin |-> 0, count |-> 0]

NoObject == [live |-> FALSE, type |-> 0]

\* A link is live while it has a source endpoint; its target endpoint is its
\* key and survives retirement.
NoEndpoint == [object |-> 0, member |-> 0]

EmptyGraph ==
  [types |-> <<>>, identities |-> <<>>, members |-> <<>>, enum_values |-> <<>>,
   objects |-> <<>>, object_identities |-> <<>>, links |-> <<>>,
   canonical |-> <<>>, intrinsic_refs |-> [i \in Intrinsics |-> 0],
   named_refs |-> <<>>, derived_entries |-> 0,
   versions |-> <<>>, heads |-> <<>>, edges |-> <<>>,
   live |-> [types |-> 0, objects |-> 0, links |-> 0],
   index |-> [types |-> 0, objects |-> 0, links |-> 0, derived |-> 0],
   capacity |-> <<>>, backed |-> FALSE]

\* The least power of two that is at least n.
BitCeil(n) == CHOOSE p \in {2^k : k \in 0..n} :
                p >= n /\ \A k \in 0..n : 2^k >= n => p <= 2^k

IndexCapacity(count) ==
  IF count = 0 THEN 0 ELSE BitCeil(Max({MinIndex, 2 * count}))

----------------------------------------------------------------------------
(* Lookups.                                                                *)

FirstWhere(seq, P(_)) ==
  LET hits == {i \in DOMAIN seq : P(seq[i])} IN IF hits = {} THEN 0 ELSE Min(hits)

\* find_identity: the slot of an identity, live or tombstoned; 0 when none.
FindIdentity(g, identity) == FirstWhere(g.identities, LAMBDA x : x = identity)

FindType(g, identity) ==
  LET h == FindIdentity(g, identity) IN
  IF h # 0 /\ g.types[h].live THEN h ELSE 0

FindObjectIdentity(g, identity) ==
  FirstWhere(g.object_identities, LAMBDA x : x = identity)

FindLinkRaw(g, target) == FirstWhere(g.links, LAMBDA l : l.target = target)

FindLink(g, target) ==
  LET h == FindLinkRaw(g, target) IN
  IF h # 0 /\ g.links[h].source # NoEndpoint THEN h ELSE 0

\* members(): the slice of the member array a defined record owns.
MembersOf(g, handle) ==
  LET e == g.types[handle] IN
  IF ~e.live \/ e.kind # "record" \/ e.begin = 0 THEN <<>>
  ELSE SubSeq(g.members, e.begin, e.begin + e.count - 1)

EnumValuesOf(g, handle) ==
  LET e == g.types[handle] IN
  IF ~e.live \/ e.kind # "enumeration" \/ e.begin = 0 THEN <<>>
  ELSE SubSeq(g.enum_values, e.begin, e.begin + e.count - 1)

\* find_member: one-based position of a name among the members of a type.
FindMember(g, handle, name) ==
  FirstWhere(MembersOf(g, handle), LAMBDA m : m.name = name)

\* A TypeRef spelled out: its base and the modifiers around it, inner first.
\* Derived records always wrap an earlier record.
Spelled(g, ref) ==
  LET spell[r \in 0..ref] ==
        IF r = 0 THEN [base |-> "null", modifiers |-> <<>>]
        ELSE LET c == g.canonical[r] IN
             CASE c.kind = "intrinsic" -> [base |-> c.detail, modifiers |-> <<>>]
               [] c.kind = "named" -> [base |-> g.identities[c.child], modifiers |-> <<>>]
               [] OTHER -> [spell[c.child] EXCEPT !.modifiers = Append(@, c.detail)]
  IN spell[ref]

----------------------------------------------------------------------------
(* The sparse update a build prepares against g.                           *)

\* type_patches and new_types in one overlay, keyed by handle; the same for
\* objects.  named_refs, versions and links patch existing or new slots.
EmptyUpdate(g) ==
  [types |-> <<>>, new_identities |-> <<>>, members |-> <<>>, enum_values |-> <<>>,
   canonical |-> <<>>, intrinsic_refs |-> g.intrinsic_refs, named_refs |-> <<>>,
   new_derived |-> 0, versions |-> <<>>, edges |-> <<>>,
   objects |-> <<>>, new_object_identities |-> <<>>,
   links |-> <<>>, new_links |-> <<>>, live |-> g.live]

Overlaid(values, patches, h) ==
  IF h \in DOMAIN patches THEN patches[h] ELSE values[h]

\* candidate_entry, candidate_object_entry, canonical_record: what a handle
\* will mean once u is published.
TypeSlots(g, u) == Len(g.types) + Len(u.new_identities)
ObjectSlots(g, u) == Len(g.objects) + Len(u.new_object_identities)

CandidateType(g, u, h) ==
  IF h \in DOMAIN u.types THEN u.types[h]
  ELSE IF h <= Len(g.types) THEN g.types[h] ELSE NoEntry

CandidateObject(g, u, h) ==
  IF h \in DOMAIN u.objects THEN u.objects[h]
  ELSE IF h <= Len(g.objects) THEN g.objects[h] ELSE NoObject

CandidateCanonical(g, u, ref) ==
  IF ref <= Len(g.canonical) THEN g.canonical[ref]
  ELSE u.canonical[ref - Len(g.canonical)]

\* The arrays whose growth a full build left headroom for.
Growth(u) ==
  [members |-> Len(u.members), enum_values |-> Len(u.enum_values),
   canonical |-> Len(u.canonical), types |-> Len(u.new_identities),
   objects |-> Len(u.new_object_identities), links |-> Len(u.new_links),
   edges |-> Len(u.edges)]

ReservedCapacity(g) ==
  [f \in {"members", "enum_values", "canonical", "types", "objects", "links", "edges"} |->
     Len(g[f]) + Headroom]

\* prepare_sparse_publication.  Without a baseline the update must fit in the
\* headroom; over a mapped baseline the local parts grow, but every edge must
\* point at a slot that exists before publication.
PrepareSparsePublication(g, u) ==
  IF ~g.backed
  THEN IF \A f \in DOMAIN g.capacity : Len(g[f]) + Growth(u)[f] <= g.capacity[f]
       THEN "ok" ELSE "rebuild_required"
  ELSE IF \A i \in DOMAIN u.edges : u.edges[i].target \in 1..Len(g.heads)
       THEN "ok" ELSE "invalid_argument"

\* The indexes may fill to three quarters before a rebuild is asked for.
Overloaded(size, added, total) == added # 0 /\ total > size - size \div 4

IndexesHold(g, u) ==
  /\ ~Overloaded(g.index.types, Len(u.new_identities), TypeSlots(g, u))
  /\ ~Overloaded(g.index.objects, Len(u.new_object_identities), ObjectSlots(g, u))
  /\ ~Overloaded(g.index.links, Len(u.new_links), Len(g.links) + Len(u.new_links))
  /\ ~Overloaded(g.index.derived, u.new_derived, g.derived_entries + u.new_derived)

\* Mutant: a pushed edge forgets the chain behind it.
PushEdgesUnchained(heads, edges, pending) ==
  FoldLeft(LAMBDA a, e :
             [heads |-> [a.heads EXCEPT ![e.target] = Len(a.edges) + 1],
              edges |-> Append(a.edges, [owner |-> e.owner, version |-> e.version, next |-> 0])],
           [heads |-> heads, edges |-> edges], pending)

\* The reverse dependency edges are pushed in front of their target's chain.
PushEdges(heads, edges, pending) ==
  FoldLeft(LAMBDA a, e :
             [heads |-> [a.heads EXCEPT ![e.target] = Len(a.edges) + 1],
              edges |-> Append(a.edges, [owner |-> e.owner, version |-> e.version,
                                         next |-> a.heads[e.target]])],
           [heads |-> heads, edges |-> edges], pending)

\* publish_prepared(prepared_graph_update): append, patch, then push edges.
PublishUpdate(g, u) ==
  LET n == TypeSlots(g, u)
      fresh == [i \in DOMAIN u.new_identities |-> 0]
      pushed == PushEdges(g.heads \o fresh, g.edges, u.edges)
      versions == g.versions \o [i \in DOMAIN fresh |-> 1]
      named == g.named_refs \o fresh
      links == g.links \o u.new_links
  IN [g EXCEPT
        !.types = [h \in 1..n |-> CandidateType(g, u, h)],
        !.identities = @ \o u.new_identities,
        !.members = @ \o u.members,
        !.enum_values = @ \o u.enum_values,
        !.canonical = @ \o u.canonical,
        !.objects = [h \in 1..ObjectSlots(g, u) |-> CandidateObject(g, u, h)],
        !.object_identities = @ \o u.new_object_identities,
        !.links = [h \in DOMAIN links |-> Overlaid(links, u.links, h)],
        !.intrinsic_refs = u.intrinsic_refs,
        !.named_refs = [h \in 1..n |-> Overlaid(named, u.named_refs, h)],
        !.derived_entries = @ + u.new_derived,
        !.versions = [h \in 1..n |-> Overlaid(versions, u.versions, h)],
        !.heads = pushed.heads,
        !.edges = pushed.edges,
        !.live = u.live]

\* The baseline-backed constructor: the same logical arrays, mapped.
Reopened(g) == [g EXCEPT !.backed = TRUE]

----------------------------------------------------------------------------
(* The reverse dependency chains.                                          *)

\* The owners on the chain of a type whose edge is current.
CurrentOwners(g, handle) ==
  LET owners[e \in 0..Len(g.edges)] ==
        IF e = 0 THEN {}
        ELSE LET edge == g.edges[e] IN
             owners[edge.next] \cup
               (IF edge.version = g.versions[edge.owner] THEN {edge.owner} ELSE {})
  IN IF handle > Len(g.heads) THEN {} ELSE owners[g.heads[handle]]

\* Everything that reaches a touched type through current edges.
DependencyClosure(g, touched) ==
  LET grow[k \in 0..Len(g.types)] ==
        IF k = 0 THEN touched
        ELSE grow[k-1] \cup UNION {CurrentOwners(g, h) : h \in grow[k-1]}
  IN grow[Len(g.types)]
============================================================================
