------------------------- MODULE BuildOrchestrator -------------------------
(***************************************************************************)
(* Full and incremental builds of one Project over its life                *)
(* (project_build_orchestrator.cpp over builder/ and graph/).              *)
(*                                                                         *)
(* A rebuild makes a detached Graph from the facts of every Source and     *)
(* replaces the compiled state only when it succeeds.  An update sends the *)
(* Sources whose facts really changed through the incremental builder.     *)
(* SAVE writes the compiled state, LOAD reopens it over a mapped baseline, *)
(* where arrays grow locally.  The environment edits Sources freely        *)
(* between builds, but the frontend only ever delivers facts in which      *)
(* every name was resolved.                                                *)
(***************************************************************************)
EXTENDS GenerationBuilder

CONSTANTS Sources,         \* source ids, 1..n
          SourceFacts,     \* SourceFacts[s]: the facts Source s may parse to
          Absent,          \* a Source that is not there
          MaxUpdates       \* bound on builds after the first

ASSUME SourcesAreIds == IsFiniteSet(Sources) /\ Sources = 1..Cardinality(Sources)

\* The empty state is not a slice.
ASSUME NoStateIsNone == NoState \notin [Arenas -> [begin : Nat, count : Nat]]

VARIABLES facts,       \* facts[s] the compiled state was built from, or Absent
          cache,       \* source_contribution_cache
          graph,       \* the compiled Graph
          capacity,    \* arena capacities the last full build reserved
          attempt,     \* how the last build ended, and a full build would have
          updates      \* builds published so far

vars == <<facts, cache, graph, capacity, attempt, updates>>

Present(f) == {s \in Sources : f[s] # Absent}

\* Source ids in ascending order.
Ordered(S) == CHOOSE q \in [1..Cardinality(S) -> S] :
                \A i, j \in 1..Cardinality(S) : i < j => q[i] < q[j]

----------------------------------------------------------------------------
(* What the frontend guarantees of a set of facts.                         *)

Ranges == [begin : Nat, count : Nat]

Within(range, values) == range \in Ranges /\ range.begin + range.count <= Len(values)

\* A type, its kind and its items, which are inside the facts.
ValidType(t, f) ==
  /\ t \in [identity : {t.identity}, kind : {"record", "enumeration"},
             record_kind : {"struct", "class", "union"}, scoped : BOOLEAN,
             underlying : {t.underlying}, definition : BOOLEAN, items : Ranges, bases : BOOLEAN]
  /\ t.identity # NoIdentity
  /\ Within(t.items, IF t.kind = "record" THEN f.members ELSE f.enum_values)

\* Exactly one base, and modifiers inside the facts.
ValidReference(t, f) ==
  /\ t \in [identity : {t.identity}, intrinsic : Intrinsics \cup {"none"}, modifiers : Ranges]
  /\ (t.identity = NoIdentity) # (t.intrinsic = "none")
  /\ Within(t.modifiers, f.modifiers)

ValidEndpoint(e) == e \in [object : {e.object}, member : Nat]

\* validate_source_facts: the parser hands over no other facts.
ValidFacts(f) ==
  /\ DOMAIN f = Arenas /\ \A a \in Arenas : f[a] \in Seq(ToSet(f[a]))
  /\ \A i \in DOMAIN f.types : ValidType(f.types[i], f)
  /\ \A i \in DOMAIN f.members :
       /\ f.members[i] \in [name : {f.members[i].name}, type : {f.members[i].type}]
       /\ ValidReference(f.members[i].type, f)
  /\ \A i \in DOMAIN f.objects :
       /\ f.objects[i] \in [identity : {f.objects[i].identity}, type : {f.objects[i].type}]
       /\ ValidReference(f.objects[i].type, f)
  /\ \A i \in DOMAIN f.enum_values :
       f.enum_values[i] \in [name : {f.enum_values[i].name}, value : Int]
  /\ \A i \in DOMAIN f.links :
       /\ f.links[i] \in [source : {f.links[i].source}, target : {f.links[i].target}]
       /\ ValidEndpoint(f.links[i].source) /\ ValidEndpoint(f.links[i].target)

ASSUME FactsAreValid == \A s \in Sources : \A f \in SourceFacts[s] : ValidFacts(f)

DeclaredTypes(f) ==
  UNION {{f[s].types[i].identity : i \in DOMAIN f[s].types} : s \in Present(f)}

UsedTypes(f) ==
  (UNION {UNION {{f[s][a][i].type.identity : i \in DOMAIN f[s][a]}
                   : a \in {"members", "objects"}} : s \in Present(f)}) \ {NoIdentity}

\* The member counts the declared definitions of a type give it.
MemberCounts(f, identity) ==
  UNION {{f[s].types[i].items.count : i \in {k \in DOMAIN f[s].types :
            f[s].types[k].identity = identity /\ f[s].types[k].definition}}
           : s \in Present(f)}

EndpointResolved(f, e) ==
  \E s \in Present(f) : \E i \in DOMAIN f[s].objects :
     /\ f[s].objects[i].identity = e.object
     /\ \E n \in MemberCounts(f, f[s].objects[i].type.identity) : e.member < n

\* Parsing succeeded: every type a member or object names is declared, and
\* every link endpoint is a member of an object's record.
Resolved(f) ==
  /\ UsedTypes(f) \subseteq DeclaredTypes(f)
  /\ \A s \in Present(f) : \A i \in DOMAIN f[s].links :
        EndpointResolved(f, f[s].links[i].source) /\ EndpointResolved(f, f[s].links[i].target)

AnyFacts == (UNION {SourceFacts[s] : s \in Sources}) \cup {Absent}

\* What a build may be given.
Delivered(f) ==
  /\ \A s \in Sources : f[s] \in SourceFacts[s] \cup {Absent}
  /\ Resolved(f)

----------------------------------------------------------------------------

ReservedArenas(c) == [a \in Arenas |-> Len(c.arena[a]) + Headroom]

Init ==
  /\ facts = [s \in Sources |-> Absent]
  /\ cache = EmptyCache(Sources)
  /\ graph = EmptyGraph
  /\ capacity = [a \in Arenas |-> 0]
  /\ attempt = [status |-> "ok", full |-> "ok"]
  /\ updates = 0

\* rebuild: a detached full build that replaces the compiled state if it
\* succeeds and leaves it alone if it fails.
Rebuild(f) ==
  /\ Delivered(f) /\ updates < MaxUpdates
  /\ \E built \in {FullBuild(f, Ordered(Present(f)))} :
       /\ attempt' = [status |-> built.status, full |-> built.status]
       /\ IF built.status = "ok"
          THEN /\ updates' = updates + 1
               /\ facts' = f /\ cache' = built.cache /\ graph' = built.graph
               /\ capacity' = ReservedArenas(built.cache)
          ELSE UNCHANGED <<facts, cache, graph, capacity, updates>>

\* collect_builder_inputs: reparsed Sources whose contribution is the cached
\* one are dropped; vanished Sources are removals if they contributed.
Replacements(c, f) == Ordered({s \in Present(f) : ~Equivalent(c, s, f[s])})
Removals(c, f) == Ordered({s \in Sources \ Present(f) : c.sources[s] # NoState})

\* update: all prepared, then all published.
Update(f) ==
  /\ Delivered(f) /\ cache.complete /\ updates < MaxUpdates
  /\ Replacements(cache, f) \o Removals(cache, f) # <<>>
  /\ \E p \in {PrepareIncremental(cache, graph, Replacements(cache, f), Removals(cache, f),
                                  f, capacity)} :
       /\ attempt' = [status |-> p.status,
                      full |-> FullBuild(f, Ordered(Present(f))).status]
       /\ IF p.status = "ok"
          THEN /\ updates' = updates + 1
               /\ facts' = f
               /\ graph' = PublishUpdate(graph, p.u)
               /\ cache' = PublishSparse(cache, p.c)
          ELSE UNCHANGED <<facts, graph, cache, updates>>
  /\ UNCHANGED capacity

\* SAVE writes the logical arrays, stale slices included, and a later process
\* opens them again over mapped arrays.
SaveAndLoad ==
  /\ cache.complete /\ ~graph.backed
  /\ graph' = Reopened(graph)
  /\ UNCHANGED <<facts, cache, capacity, attempt, updates>>

Next ==
  \/ \E f \in [Sources -> AnyFacts] : Rebuild(f)
  \/ \E f \in [Sources -> AnyFacts] : Update(f)
  \/ SaveAndLoad

Spec == Init /\ [][Next]_vars

----------------------------------------------------------------------------
(* What the Graph says, independent of handles and history.                *)

TypeMeaning(g, h) ==
  LET e == g.types[h]
      members == MembersOf(g, h)
  IN [identity |-> g.identities[h], kind |-> e.kind,
      union |-> e.kind = "record" /\ e.record_kind = "union",
      scoped |-> e.scoped, fixed |-> e.fixed, underlying |-> e.underlying,
      defined |-> e.begin # 0,
      members |-> [i \in DOMAIN members |->
                     [name |-> members[i].name, type |-> Spelled(g, members[i].type)]],
      enum_values |-> EnumValuesOf(g, h)]

EndpointMeaning(g, e) == [object |-> g.object_identities[e.object], member |-> e.member]

LiveTypes(g) == {h \in DOMAIN g.types : g.types[h].live}
LiveObjects(g) == {h \in DOMAIN g.objects : g.objects[h].live}
LiveLinks(g) == {h \in DOMAIN g.links : g.links[h].source # NoEndpoint}

Meaning(g) ==
  [types |-> {TypeMeaning(g, h) : h \in LiveTypes(g)},
   objects |-> {[identity |-> g.object_identities[h], type |-> Spelled(g, g.objects[h].type)]
                  : h \in LiveObjects(g)},
   links |-> {[source |-> EndpointMeaning(g, g.links[h].source),
               target |-> EndpointMeaning(g, g.links[h].target)] : h \in LiveLinks(g)}]

Reference == FullBuild(facts, Ordered(Present(facts)))

\* After any sequence of rebuilds, updates, saves and loads the Graph means
\* what a full build of the same facts means (docs/SE_V3_07C: the builder
\* subtracts the previous contribution and adds the candidate one).
GraphIsFullBuild ==
  cache.complete => Reference.status = "ok" /\ Meaning(graph) = Meaning(Reference.graph)

\* The per-type aggregates that updates subtract from and add to are the ones
\* that aggregating all current contributions anew would give.
ConstructionExact ==
  \A h \in DOMAIN graph.types :
    LET current == UNION {{cache.sources[s]["types"].begin + i :
                             i \in DOMAIN PreviousSlice(cache, s, "types")} : s \in Sources}
        mine == Ordered({i \in current :
                          cache.arena["types"][i].identity = graph.identities[h]})
        total == FoldLeft(LAMBDA st, i :
                   AddConstruction(st, cache.arena["types"][i], i).value,
                   EmptyConstruction, mine)
    IN cache.construction[h] = total

\* No member of a live record can lose its type unnoticed: the type's reverse
\* chain holds a current edge of every record that names it.
DependentsReachable ==
  \A h \in LiveTypes(graph) : \A i \in DOMAIN MembersOf(graph, h) :
    LET t == FindIdentity(graph, Spelled(graph, MembersOf(graph, h)[i].type).base) IN
    t # 0 => /\ graph.types[t].live
             /\ h \in CurrentOwners(graph, t)

\* What the records of a slice say, with every range into another arena
\* replaced by what it reads there.
SpelledSlice(arena, slice) ==
  [f \in Arenas |->
     LET records == Span(arena[f], slice[f])
         items(t) == Span(arena[IF t.kind = "record" THEN "members" ELSE "enum_values"], t.items)
     IN [i \in DOMAIN records |->
           CASE f = "types" -> [records[i] EXCEPT !.items =
                                  [k \in DOMAIN items(records[i]) |-> items(records[i])[k].name]]
             [] f \in {"members", "objects"} ->
                  [records[i] EXCEPT !.type.modifiers = Span(arena["modifiers"], @)]
             [] OTHER -> records[i]]]

\* The slices of the Sources say what their facts say, whatever was appended
\* and rebased before them, and the statistics count exactly the live records.
ContributionsReproduceFacts ==
  cache.complete =>
    /\ \A s \in Sources :
         IF facts[s] = Absent THEN cache.sources[s] = NoState
         ELSE SpelledSlice(cache.arena, cache.sources[s])
                = SpelledSlice(facts[s], SliceOf(facts[s], [a \in Arenas |-> 0]))
    /\ \A a \in Arenas : cache.statistics[a] =
         SumSeq([i \in DOMAIN Ordered(Present(facts)) |->
                   Len(facts[Ordered(Present(facts))[i]][a])])

\* A canonical TypeRef is never recorded twice, the caches point at it, and
\* the live counters are the numbers of live slots.
CanonicalUnique ==
  /\ \A i, j \in DOMAIN graph.canonical : graph.canonical[i] = graph.canonical[j] => i = j
  /\ \A h \in DOMAIN graph.named_refs : graph.named_refs[h] # 0 =>
       graph.canonical[graph.named_refs[h]] = [kind |-> "named", detail |-> "", child |-> h]
  /\ graph.live = [types |-> Cardinality(LiveTypes(graph)),
                   objects |-> Cardinality(LiveObjects(graph)),
                   links |-> Cardinality(LiveLinks(graph))]

\* docs/SE_V3_10D3B: over a saved baseline BUILD is sparse, and where it
\* cannot be it fails closed with rebuild_required.  An update that a full
\* build of the same Sources accepts is never answered by invalid_argument.
SparseUpdateFailsClosed ==
  attempt.status = "invalid_argument" => attempt.full # "ok"
============================================================================
