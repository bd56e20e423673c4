------------------------ MODULE SourceContribution ------------------------
(***************************************************************************)
(* The build-side provenance of the Graph: what every Source contributed,  *)
(* in six flat append-only arenas (builder/source_contribution.cpp).       *)
(* A full build writes the arenas from nothing; an incremental update      *)
(* appends the new slices of the changed Sources, repoints their ranges    *)
(* and leaves the old slices behind as stale history.  Every index inside  *)
(* a record (a type's items, a member's modifiers) is relative in the      *)
(* parsed facts and absolute in the arena, so each copy rebases it.        *)
(*                                                                         *)
(* Names and values are model values; a range is [begin, count] with the   *)
(* zero-based begin of the code.                                           *)
(***************************************************************************)
EXTENDS Naturals, Sequences, SequencesExt, FiniteSetsExt

CONSTANT NoState     \* the state of a Source that contributes nothing

Arenas == {"types", "members", "modifiers", "enum_values", "objects", "links"}

EmptyArena == [f \in Arenas |-> <<>>]

EmptyConstruction ==
  [declarations |-> 0, definitions |-> 0, definition_type |-> 0,
   record_struct |-> 0, record_class |-> 0, record_union |-> 0,
   enum_scoped |-> 0, enum_unscoped |-> 0, enum_fixed |-> 0,
   fixed_underlying |-> "none", kind |-> "record"]

\* A cache that holds no build yet.
EmptyCache(Sources) ==
  [arena |-> EmptyArena, sources |-> [s \in Sources |-> NoState],
   construction |-> <<>>,
   statistics |-> [f \in Arenas \cup {"sources"} |-> 0], complete |-> FALSE]

Span(values, range) ==
  IF range.begin > Len(values) \/ range.count > Len(values) - range.begin
  THEN <<>>
  ELSE SubSeq(values, range.begin + 1, range.begin + range.count)

\* A range of an update reads the committed arena below base and the appended
\* part from base on, and is refused when it crosses the border.
CombinedSpan(committed, appended, base, range) ==
  IF range.begin < base
  THEN IF range.begin + range.count > base THEN <<>> ELSE Span(committed, range)
  ELSE Span(appended, [range EXCEPT !.begin = @ - base])

SumSeq(counts) == FoldLeft(LAMBDA sum, n : sum + n, 0, counts)

Sizes(arena) == [f \in Arenas |-> Len(arena[f])]

----------------------------------------------------------------------------
(* Capturing the facts of one Source.                                      *)

\* Mutant: the copy keeps the range it had in the facts.
RebasedTypeRelative(type, base) == type

\* A type reference copied into arenas whose modifiers start at base.
RebasedType(type, base) ==
  [type EXCEPT !.modifiers.begin = @ + base["modifiers"]]

RebasedDeclaration(declaration, base) ==
  [declaration EXCEPT !.items.begin =
     @ + base[IF declaration.kind = "record" THEN "members" ELSE "enum_values"]]

\* The records that replace() appends for facts, when the arenas already hold
\* base[f] records.  An appended record points into the arenas, not into facts.
Appended(facts, base) ==
  [f \in Arenas |->
     CASE f = "types" -> [i \in DOMAIN facts.types |->
                             RebasedDeclaration(facts.types[i], base)]
       [] f \in {"members", "objects"} ->
            [i \in DOMAIN facts[f] |->
               [facts[f][i] EXCEPT !.type = RebasedType(@, base)]]
       [] OTHER -> facts[f]]

\* The slice of each arena that belongs to the Source after replace().
SliceOf(facts, base) ==
  [f \in Arenas |-> [begin |-> base[f], count |-> Len(facts[f])]]

Joined(arena, tail) == [f \in Arenas |-> arena[f] \o tail[f]]

\* The construction capability gate: a record with bases is never published.
HasBases(facts) == \E i \in DOMAIN facts.types : facts.types[i].bases

\* source_contribution_cache_update::replace for one Source of a full build.
ReplaceFull(cache, source, facts) ==
  LET base == Sizes(cache.arena) IN
  [cache EXCEPT !.arena = Joined(@, Appended(facts, base)),
                !.sources[source] = SliceOf(facts, base),
                !.statistics = [f \in DOMAIN @ |->
                   IF f = "sources" THEN @[f] + 1 ELSE base[f] + Len(facts[f])]]

\* publish_prepared of a full build: the candidate replaces the committed
\* storage whole.
PublishFull(cache) == [cache EXCEPT !.complete = TRUE]

----------------------------------------------------------------------------
(* The sparse update: appended records, one patch per changed Source and   *)
(* one construction patch per touched type.                                *)

BeginIncremental(cache) ==
  [base |-> Sizes(cache.arena), arena |-> EmptyArena, sources |-> <<>>,
   changed |-> <<>>, construction |-> <<>>]

\* A patch of the update: a partial function as a sequence-free overlay.
Patched(patches, key, value) ==
  [k \in DOMAIN patches \cup {key} |-> IF k = key THEN value ELSE patches[k]]

\* source_contribution_sparse_update::replace: bases are the committed sizes
\* plus what this update appended so far.
ReplaceSparse(update, source, facts) ==
  LET base == [f \in Arenas |-> update.base[f] + Len(update.arena[f])] IN
  [update EXCEPT !.arena = Joined(@, Appended(facts, base)),
                 !.sources = Patched(@, source, SliceOf(facts, base)),
                 !.changed = Append(@, source)]

RemoveSparse(update, source) ==
  [update EXCEPT !.sources = Patched(@, source, NoState),
                 !.changed = Append(@, source)]

PreviousSlice(cache, source, f) ==
  IF cache.sources[source] = NoState THEN <<>>
  ELSE Span(cache.arena[f], cache.sources[source][f])

CombinedRange(cache, update, f, range) ==
  CombinedSpan(cache.arena[f], update.arena[f], update.base[f], range)

ReplacementSlice(cache, update, source, f) ==
  IF update.sources[source] = NoState THEN <<>>
  ELSE CombinedRange(cache, update, f, update.sources[source][f])

\* The type contribution at a one-based arena index.
TypeAt(cache, update, index) ==
  IF index <= update.base["types"] THEN cache.arena["types"][index]
  ELSE update.arena["types"][index - update.base["types"]]

ConstructionOf(cache, update, handle) ==
  IF handle \in DOMAIN update.construction THEN update.construction[handle]
  ELSE IF handle \in DOMAIN cache.construction THEN cache.construction[handle]
  ELSE EmptyConstruction

SetConstruction(update, handle, state) ==
  [update EXCEPT !.construction = Patched(@, handle, state)]

\* prepare_publish recounts the live records: out with the old slice of every
\* patched Source, in with the new one.
PreparedStatistics(cache, update) ==
  LET Count(state, f) == IF state = NoState THEN 0
                         ELSE IF f = "sources" THEN 1 ELSE state[f].count
  IN [f \in DOMAIN cache.statistics |->
        cache.statistics[f]
          + SumSeq([i \in DOMAIN update.changed |->
                      Count(update.sources[update.changed[i]], f)])
          - SumSeq([i \in DOMAIN update.changed |->
                      Count(cache.sources[update.changed[i]], f)])]

\* The committed arenas may not relocate: without a mapped baseline the update
\* must fit in the headroom the full build reserved.
FitsHeadroom(cache, update, capacity) ==
  \A f \in Arenas : update.base[f] + Len(update.arena[f]) <= capacity[f]

\* publish_prepared of a sparse update.
PublishSparse(cache, update) ==
  LET slots == Max({Len(cache.construction)} \cup DOMAIN update.construction) IN
  [cache EXCEPT
     !.arena = Joined(@, update.arena),
     !.sources = [s \in DOMAIN @ |->
                    IF s \in DOMAIN update.sources THEN update.sources[s] ELSE @[s]],
     !.construction = [h \in 1..slots |-> ConstructionOf(cache, update, h)],
     !.statistics = PreparedStatistics(cache, update)]

\* equivalent(): the cached slices of the Source are the records that facts
\* would contribute, compared relative to the slice.
Equivalent(cache, source, facts) ==
  /\ cache.sources[source] # NoState
  /\ LET slice == cache.sources[source]
         base == [f \in Arenas |-> slice[f].begin]
     IN \A f \in Arenas : Span(cache.arena[f], slice[f]) = Appended(facts, base)[f]
============================================================================
