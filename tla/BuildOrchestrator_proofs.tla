---------------------- MODULE BuildOrchestrator_proofs ----------------------
(***************************************************************************)
(* What full and incremental builds keep true for any set of Sources, any  *)
(* facts the Parser may deliver and any number of builds.                  *)
(*                                                                         *)
(* Every pass of the builder is a fold over a sequence.  Induction over a  *)
(* fold rests on one fact about the natural numbers, that a non-empty set  *)
(* of them has a least element: Recursion gives the recursive function a   *)
(* fold is defined by, the Trace lemmas turn each fold into a run with one *)
(* step per element, and SetInduction carries an invariant along the run.  *)
(***************************************************************************)
EXTENDS BuildOrchestrator, WellFoundedInduction, SequenceTheorems, FiniteSetTheorems, TLAPS

----------------------------------------------------------------------------
(* Induction over the folds of the builder. *)

\* A non-empty set of naturals has a least element.
LEMMA LeastNat ==
  ASSUME NEW T, T \subseteq Nat, T # {}
  PROVE \E x \in T : \A y \in T : x <= y
<1> DEFINE R == {ss \in Nat \X Nat : ss[1] < ss[2]}
<1>1. IsWellFoundedOn(R, Nat)
  BY NatLessThanWellFounded DEF OpToRel
<1>2. PICK x \in T : \A y \in T : ~(<<y, x>> \in R)
  BY <1>1, WFMin, Zenon
<1>3. ASSUME NEW y \in T PROVE x <= y
  <2>1. <<y, x>> \in Nat \X Nat /\ <<y,x>>[1] = y /\ <<y,x>>[2] = x
    OBVIOUS
  <2> QED BY <2>1, <1>2
<1> QED BY <1>3

\* Induction over an interval, for a set of numbers.
LEMMA SetInduction ==
  ASSUME NEW n \in Nat, NEW S, 0 \in S, \A i \in 0..(n-1) : i \in S => i+1 \in S
  PROVE 0..n \subseteq S
<1> DEFINE T == (0..n) \ S
<1>1. SUFFICES ASSUME T # {} PROVE FALSE
  OBVIOUS
<1>2. T \subseteq Nat
  OBVIOUS
<1>3. PICK x \in T : \A y \in T : x <= y
  <2> HIDE DEF T
  <2> QED BY <1>1, <1>2, LeastNat, Zenon
<1>4. x # 0 /\ x - 1 \in 0..(n-1) /\ ~(x-1 \in T)
  BY <1>3
<1> QED BY <1>4

\* The largest number of a set that holds its upper bound.
LEMMA Greatest ==
  ASSUME NEW m \in Nat, NEW s \in SUBSET (1..m), m \in s
  PROVE Max(s) = m
<1>1. \E x \in s : \A y \in s : x >= y
  OBVIOUS
<1>2. Max(s) \in s /\ \A y \in s : Max(s) >= y
  BY <1>1, Zenon DEF Max
<1>3. Max(s) \in 1..m /\ Max(s) >= m
  BY <1>2, Zenon
<1> QED BY <1>3

Step(pass, env, b, x) ==
  CASE pass = "sum" -> b + x
    [] pass = "capture" -> ReplaceFull(b, x, env[1][x])
    [] pass = "declare" -> DeclareFull(b, x)
    [] pass = "derive" -> CanonicalFull(b.g, [kind |-> "derived", detail |-> x, child |-> b.ref])
    [] pass = "reference" -> WithTypeRef(b, env[1], TypeRefFull(b.cache, b.g, x.type))
    [] pass = "define" -> DefineFull(b, x)
    [] pass = "link" -> LinkFull(b, x)
    [] pass = "replace" -> ReplaceSparse(b, x, env[1][x])
    [] pass = "remove" -> RemoveSparse(b, x)
    [] pass = "subtract" -> SubtractType(env[1], env[2], b, env[3], x)
    [] pass = "add" -> AddType(env[1], env[2], b, env[3], x)
    [] pass = "exchange" -> ExchangeTypes(env[1], env[2], b, x)
    [] pass = "derive sparsely" -> GetDerived(env[1], b.u, x, b.ref)
    [] pass = "members" -> MaterializeMember(env[1], env[2], env[3], b, env[4], env[5], x)
    [] pass = "materialize" -> MaterializeType(env[1], env[2], b, x)
    [] pass = "retire objects" -> RetireObject(env[1], b, x)
    [] pass = "retire links" -> RetireLink(env[1], b, x)
    [] pass = "retire" -> RetireSource(env[1], env[2], b, x)
    [] pass = "claim objects of" -> ClaimObject(env[1], env[2], b, x)
    [] pass = "claim objects" -> ClaimObjectsOf(env[1], env[2], b, x)
    [] pass = "claim links of" -> ClaimLink(env[1], b, x)
    [] pass = "claim links" -> ClaimLinksOf(env[1], env[2], b, x)
    [] OTHER -> b

Folds(it, pass, env, base, seq, n) ==
  it = [s \in SUBSET (1..n) |->
         IF s = {} THEN base ELSE Step(pass, env, it[s \ {Max(s)}], seq[Max(s)])]

\* The recursive function that a fold is defined by exists.
LEMMA Recursion ==
  ASSUME NEW pass, NEW env, NEW base, NEW seq, NEW n \in Nat
  PROVE  \E it : Folds(it, pass, env, base, seq, n)
<1> DEFINE S == {m \in Nat : \E it : Folds(it, pass, env, base, seq, m)}
<1>1. 0 \in S
  <2> DEFINE it == [s \in SUBSET (1..0) |-> base]
  <2>1. Folds(it, pass, env, base, seq, 0)
    BY DEF Folds
  <2> QED BY <2>1
<1>2. ASSUME NEW m \in 0..(n-1), m \in S PROVE m + 1 \in S
  <2>1. PICK it : Folds(it, pass, env, base, seq, m)
    BY <1>2
  <2> DEFINE jt == [s \in SUBSET (1..(m+1)) |->
               IF m + 1 \in s THEN Step(pass, env, it[s \ {m+1}], seq[m+1]) ELSE it[s]]
  <2>2. ASSUME NEW s \in SUBSET (1..(m+1))
        PROVE jt[s] = IF s = {} THEN base ELSE Step(pass, env, jt[s \ {Max(s)}], seq[Max(s)])
    <3>1. CASE m + 1 \in s
      <4>1. Max(s) = m + 1
        BY <3>1, Greatest
      <4>2. s \ {m+1} \in SUBSET (1..(m+1)) /\ m + 1 \notin s \ {m+1}
        OBVIOUS
      <4>3. jt[s \ {m+1}] = it[s \ {m+1}]
        BY <4>2
      <4>4. jt[s] = Step(pass, env, it[s \ {m+1}], seq[m+1])
        BY <3>1
      <4> QED BY <3>1, <4>1, <4>3, <4>4
    <3>2. CASE m + 1 \notin s
      <4>1. s \in SUBSET (1..m) /\ s \ {Max(s)} \in SUBSET (1..m)
        <5>1. \A x \in s : x \in 1..m
          BY <3>2
        <5> QED BY <5>1, Zenon
      <4>2. jt[s] = it[s] /\ jt[s \ {Max(s)}] = it[s \ {Max(s)}]
        BY <3>2, <4>1
      <4>3. it[s] = IF s = {} THEN base ELSE Step(pass, env, it[s \ {Max(s)}], seq[Max(s)])
        BY <4>1, <2>1, Zenon DEF Folds
      <4> QED BY <4>2, <4>3
    <3> QED BY <3>1, <3>2
  <2>3. Folds(jt, pass, env, base, seq, m + 1)
    BY <2>2, Zenon DEF Folds
  <2>4. \E kt : Folds(kt, pass, env, base, seq, m + 1)
    <3> HIDE DEF jt
    <3> QED BY <2>3
  <2> QED BY <2>4
<1>3. n \in S
  <2> HIDE DEF S
  <2> QED BY <1>1, <1>2, SetInduction
<1> QED BY <1>3

Traced(tr, pass, env, base, seq, n, result) ==
  /\ tr[0] = base /\ tr[n] = result
  /\ \A m \in 1..n : tr[m] = Step(pass, env, tr[m-1], seq[m])

\* The first numbers of an interval.
LEMMA Prefix ==
  ASSUME NEW n \in Nat, NEW m \in 1..n
  PROVE  1..m \in SUBSET (1..n) /\ 1..m # {} /\ m \in 1..m
<1>1. m \in Nat /\ 1 <= m /\ m <= n
  OBVIOUS
<1>2. \A x \in 1..m : x \in 1..n
  BY <1>1
<1>3. m \in 1..m
  BY <1>1
<1> QED BY <1>2, <1>3, Zenon

\* The values of that function on the prefixes of the sequence are the run.
LEMMA Unfolded ==
  ASSUME NEW pass, NEW env, NEW base, NEW seq, NEW n \in Nat, NEW it,
         Folds(it, pass, env, base, seq, n), NEW result, result = it[1..n]
  PROVE  \E tr : Traced(tr, pass, env, base, seq, n, result)
<1> DEFINE tr == [m \in 0..n |-> it[1..m]]
<1>1. tr[0] = base
  BY DEF Folds
<1>2. ASSUME NEW m \in 1..n PROVE tr[m] = Step(pass, env, tr[m-1], seq[m])
  <2>1. 1..m \in SUBSET (1..n) /\ 1..m # {} /\ m \in 1..m
    BY Prefix, Zenon
  <2>2. Max(1..m) = m /\ (1..m) \ {m} = 1..(m-1)
    BY Greatest
  <2>3. it[1..m] = Step(pass, env, it[1..(m-1)], seq[m])
    BY <2>1, <2>2, Zenon DEF Folds
  <2> QED BY <2>3
<1>3. tr[n] = result
  OBVIOUS
<1>4. Traced(tr, pass, env, base, seq, n, result)
  <2> HIDE DEF tr
  <2> QED BY <1>1, <1>2, <1>3 DEF Traced
<1> QED BY <1>4

----------------------------------------------------------------------------
(* The run of every fold. *)

\* The run of the fold SumSeq: its base, then one step per element.
LEMMA SumSeqTrace ==
  ASSUME NEW counts, NEW n \in Nat, DOMAIN (counts) = 1..n
  PROVE  \E tr : Traced(tr, "sum", <<>>, 0, counts, n, SumSeq(counts))
<1> DEFINE seq == counts
           P(iter) == iter = [part \in SUBSET (1..n) |->
             IF part = {} THEN 0
             ELSE iter[part \ {Max(part)}] + seq[Max(part)]]
           it == CHOOSE iter : P(iter)
<1>1. \A q, x : Step("sum", <<>>, q, x) = q + x
  BY DEF Step
<1>2. \A iter : P(iter) <=> Folds(iter, "sum", <<>>, 0, seq, n)
  BY <1>1, ZenonT(30) DEF Folds
<1>3. Folds(it, "sum", <<>>, 0, seq, n)
  <2> HIDE DEF P
  <2>1. \E iter : P(iter)
    BY <1>2, Recursion, Zenon
  <2> QED BY <1>2, <2>1, Zenon
<1>4. SumSeq(counts) = it[1..n]
  BY DEF SumSeq, FoldLeft, MapThenFoldSet
<1> HIDE DEF it
<1> QED BY <1>3, <1>4, Unfolded

\* The run of the fold CaptureFull: its base, then one step per element.
LEMMA CaptureFullTrace ==
  ASSUME NEW fs, NEW order, NEW n \in Nat, DOMAIN (order) = 1..n
  PROVE  \E tr : Traced(tr, "capture", <<fs>>, EmptyCache(DOMAIN fs), order, n, CaptureFull(fs, order))
<1> DEFINE seq == order
           P(iter) == iter = [part \in SUBSET (1..n) |->
             IF part = {} THEN EmptyCache(DOMAIN fs)
             ELSE ReplaceFull(iter[part \ {Max(part)}], seq[Max(part)], fs[seq[Max(part)]])]
           it == CHOOSE iter : P(iter)
<1>1. \A q, x : Step("capture", <<fs>>, q, x) = ReplaceFull(q, x, fs[x])
  BY DEF Step
<1>2. \A iter : P(iter) <=> Folds(iter, "capture", <<fs>>, EmptyCache(DOMAIN fs), seq, n)
  BY <1>1, ZenonT(30) DEF Folds
<1>3. Folds(it, "capture", <<fs>>, EmptyCache(DOMAIN fs), seq, n)
  <2> HIDE DEF P
  <2>1. \E iter : P(iter)
    BY <1>2, Recursion, Zenon
  <2> QED BY <1>2, <2>1, Zenon
<1>4. CaptureFull(fs, order) = it[1..n]
  BY DEF CaptureFull, FoldLeft, MapThenFoldSet
<1> HIDE DEF it
<1> QED BY <1>3, <1>4, Unfolded

\* The run of the fold DeclareTypes: its base, then one step per element.
LEMMA DeclareTypesTrace ==
  ASSUME NEW cs, NEW n \in Nat, DOMAIN (Indices(cs.arena["types"])) = 1..n
  PROVE  \E tr : Traced(tr, "declare", <<>>, StartBuild(cs), Indices(cs.arena["types"]), n, DeclareTypes(cs))
<1> DEFINE seq == Indices(cs.arena["types"])
           P(iter) == iter = [part \in SUBSET (1..n) |->
             IF part = {} THEN StartBuild(cs)
             ELSE DeclareFull(iter[part \ {Max(part)}], seq[Max(part)])]
           it == CHOOSE iter : P(iter)
<1>1. \A q, x : Step("declare", <<>>, q, x) = DeclareFull(q, x)
  BY DEF Step
<1>2. \A iter : P(iter) <=> Folds(iter, "declare", <<>>, StartBuild(cs), seq, n)
  BY <1>1, ZenonT(30) DEF Folds
<1>3. Folds(it, "declare", <<>>, StartBuild(cs), seq, n)
  <2> HIDE DEF P
  <2>1. \E iter : P(iter)
    BY <1>2, Recursion, Zenon
  <2> QED BY <1>2, <2>1, Zenon
<1>4. DeclareTypes(cs) = it[1..n]
  BY DEF DeclareTypes, FoldLeft, MapThenFoldSet
<1> HIDE DEF it
<1> QED BY <1>3, <1>4, Unfolded

\* The run of the fold DerivedFull: its base, then one step per element.
LEMMA DerivedFullTrace ==
  ASSUME NEW base, NEW modifiers, NEW n \in Nat, DOMAIN (modifiers) = 1..n
  PROVE  \E tr : Traced(tr, "derive", <<>>, base, modifiers, n, DerivedFull(base, modifiers))
<1> DEFINE seq == modifiers
           P(iter) == iter = [part \in SUBSET (1..n) |->
             IF part = {} THEN base
             ELSE CanonicalFull(iter[part \ {Max(part)}].g, [kind |-> "derived", detail |-> seq[Max(part)], child |-> iter[part \ {Max(part)}].ref])]
           it == CHOOSE iter : P(iter)
<1>1. \A q, x : Step("derive", <<>>, q, x) = CanonicalFull(q.g, [kind |-> "derived", detail |-> x, child |-> q.ref])
  BY DEF Step
<1>2. \A iter : P(iter) <=> Folds(iter, "derive", <<>>, base, seq, n)
  BY <1>1, ZenonT(30) DEF Folds
<1>3. Folds(it, "derive", <<>>, base, seq, n)
  <2> HIDE DEF P
  <2>1. \E iter : P(iter)
    BY <1>2, Recursion
  <2> QED BY <1>2, <2>1, Zenon
<1>4. DerivedFull(base, modifiers) = it[1..n]
  BY DEF DerivedFull, FoldLeft, MapThenFoldSet
<1> HIDE DEF it
<1> QED BY <1>3, <1>4, Unfolded

\* The run of the fold TypeRefsFull: its base, then one step per element.
LEMMA TypeRefsFullTrace ==
  ASSUME NEW b, NEW f, NEW n \in Nat, DOMAIN (b.cache.arena[f]) = 1..n
  PROVE  \E tr : Traced(tr, "reference", <<f>>, b, b.cache.arena[f], n, TypeRefsFull(b, f))
<1> DEFINE seq == b.cache.arena[f]
           P(iter) == iter = [part \in SUBSET (1..n) |->
             IF part = {} THEN b
             ELSE WithTypeRef(iter[part \ {Max(part)}], f, TypeRefFull(iter[part \ {Max(part)}].cache, iter[part \ {Max(part)}].g, seq[Max(part)].type))]
           it == CHOOSE iter : P(iter)
<1>1. \A q, x : Step("reference", <<f>>, q, x) = WithTypeRef(q, f, TypeRefFull(q.cache, q.g, x.type))
  BY DEF Step
<1>2. \A iter : P(iter) <=> Folds(iter, "reference", <<f>>, b, seq, n)
  BY <1>1, ZenonT(30) DEF Folds
<1>3. Folds(it, "reference", <<f>>, b, seq, n)
  <2> HIDE DEF P
  <2>1. \E iter : P(iter)
    BY <1>2, Recursion
  <2> QED BY <1>2, <2>1, Zenon
<1>4. TypeRefsFull(b, f) = it[1..n]
  BY DEF TypeRefsFull, FoldLeft, MapThenFoldSet
<1> HIDE DEF it
<1> QED BY <1>3, <1>4, Unfolded

\* The run of the fold DefineTypes: its base, then one step per element.
LEMMA DefineTypesTrace ==
  ASSUME NEW b, NEW n \in Nat, DOMAIN (Indices(b.cache.arena["types"])) = 1..n
  PROVE  \E tr : Traced(tr, "define", <<>>, b, Indices(b.cache.arena["types"]), n, DefineTypes(b))
<1> DEFINE seq == Indices(b.cache.arena["types"])
           P(iter) == iter = [part \in SUBSET (1..n) |->
             IF part = {} THEN b
             ELSE DefineFull(iter[part \ {Max(part)}], seq[Max(part)])]
           it == CHOOSE iter : P(iter)
<1>1. \A q, x : Step("define", <<>>, q, x) = DefineFull(q, x)
  BY DEF Step
<1>2. \A iter : P(iter) <=> Folds(iter, "define", <<>>, b, seq, n)
  BY <1>1, ZenonT(30) DEF Folds
<1>3. Folds(it, "define", <<>>, b, seq, n)
  <2> HIDE DEF P
  <2>1. \E iter : P(iter)
    BY <1>2, Recursion, Zenon
  <2> QED BY <1>2, <2>1, Zenon
<1>4. DefineTypes(b) = it[1..n]
  BY DEF DefineTypes, FoldLeft, MapThenFoldSet
<1> HIDE DEF it
<1> QED BY <1>3, <1>4, Unfolded

\* The run of the fold LinkObjects: its base, then one step per element.
LEMMA LinkObjectsTrace ==
  ASSUME NEW b, NEW n \in Nat, DOMAIN (b.cache.arena["links"]) = 1..n
  PROVE  \E tr : Traced(tr, "link", <<>>, b, b.cache.arena["links"], n, LinkObjects(b))
<1> DEFINE seq == b.cache.arena["links"]
           P(iter) == iter = [part \in SUBSET (1..n) |->
             IF part = {} THEN b
             ELSE LinkFull(iter[part \ {Max(part)}], seq[Max(part)])]
           it == CHOOSE iter : P(iter)
<1>1. \A q, x : Step("link", <<>>, q, x) = LinkFull(q, x)
  BY DEF Step
<1>2. \A iter : P(iter) <=> Folds(iter, "link", <<>>, b, seq, n)
  BY <1>1, ZenonT(30) DEF Folds
<1>3. Folds(it, "link", <<>>, b, seq, n)
  <2> HIDE DEF P
  <2>1. \E iter : P(iter)
    BY <1>2, Recursion, Zenon
  <2> QED BY <1>2, <2>1, Zenon
<1>4. LinkObjects(b) = it[1..n]
  BY DEF LinkObjects, FoldLeft, MapThenFoldSet
<1> HIDE DEF it
<1> QED BY <1>3, <1>4, Unfolded

\* The run of the fold ReplaceSources: its base, then one step per element.
LEMMA ReplaceSourcesTrace ==
  ASSUME NEW cs, NEW replacements, NEW fs, NEW n \in Nat, DOMAIN (replacements) = 1..n
  PROVE  \E tr : Traced(tr, "replace", <<fs>>, BeginIncremental(cs), replacements, n, ReplaceSources(cs, replacements, fs))
<1> DEFINE seq == replacements
           P(iter) == iter = [part \in SUBSET (1..n) |->
             IF part = {} THEN BeginIncremental(cs)
             ELSE ReplaceSparse(iter[part \ {Max(part)}], seq[Max(part)], fs[seq[Max(part)]])]
           it == CHOOSE iter : P(iter)
<1>1. \A q, x : Step("replace", <<fs>>, q, x) = ReplaceSparse(q, x, fs[x])
  BY DEF Step
<1>2. \A iter : P(iter) <=> Folds(iter, "replace", <<fs>>, BeginIncremental(cs), seq, n)
  BY <1>1, ZenonT(30) DEF Folds
<1>3. Folds(it, "replace", <<fs>>, BeginIncremental(cs), seq, n)
  <2> HIDE DEF P
  <2>1. \E iter : P(iter)
    BY <1>2, Recursion, Zenon
  <2> QED BY <1>2, <2>1, Zenon
<1>4. ReplaceSources(cs, replacements, fs) = it[1..n]
  BY DEF ReplaceSources, FoldLeft, MapThenFoldSet
<1> HIDE DEF it
<1> QED BY <1>3, <1>4, Unfolded

\* The run of the fold RemoveSources: its base, then one step per element.
LEMMA RemoveSourcesTrace ==
  ASSUME NEW c, NEW removals, NEW n \in Nat, DOMAIN (removals) = 1..n
  PROVE  \E tr : Traced(tr, "remove", <<>>, c, removals, n, RemoveSources(c, removals))
<1> DEFINE seq == removals
           P(iter) == iter = [part \in SUBSET (1..n) |->
             IF part = {} THEN c
             ELSE RemoveSparse(iter[part \ {Max(part)}], seq[Max(part)])]
           it == CHOOSE iter : P(iter)
<1>1. \A q, x : Step("remove", <<>>, q, x) = RemoveSparse(q, x)
  BY DEF Step
<1>2. \A iter : P(iter) <=> Folds(iter, "remove", <<>>, c, seq, n)
  BY <1>1, ZenonT(30) DEF Folds
<1>3. Folds(it, "remove", <<>>, c, seq, n)
  <2> HIDE DEF P
  <2>1. \E iter : P(iter)
    BY <1>2, Recursion, Zenon
  <2> QED BY <1>2, <2>1, Zenon
<1>4. RemoveSources(c, removals) = it[1..n]
  BY DEF RemoveSources, FoldLeft, MapThenFoldSet
<1> HIDE DEF it
<1> QED BY <1>3, <1>4, Unfolded

\* The run of the fold SubtractTypes: its base, then one step per element.
LEMMA SubtractTypesTrace ==
  ASSUME NEW cs, NEW g, NEW p, NEW source, NEW n \in Nat, DOMAIN (Indices(PreviousSlice(cs, source, "types"))) = 1..n
  PROVE  \E tr : Traced(tr, "subtract", <<cs, g, source>>, p, Indices(PreviousSlice(cs, source, "types")), n, SubtractTypes(cs, g, p, source))
<1> DEFINE seq == Indices(PreviousSlice(cs, source, "types"))
           P(iter) == iter = [part \in SUBSET (1..n) |->
             IF part = {} THEN p
             ELSE SubtractType(cs, g, iter[part \ {Max(part)}], source, seq[Max(part)])]
           it == CHOOSE iter : P(iter)
<1>1. \A q, x : Step("subtract", <<cs, g, source>>, q, x) = SubtractType(cs, g, q, source, x)
  BY DEF Step
<1>2. \A iter : P(iter) <=> Folds(iter, "subtract", <<cs, g, source>>, p, seq, n)
  BY <1>1, ZenonT(30) DEF Folds
<1>3. Folds(it, "subtract", <<cs, g, source>>, p, seq, n)
  <2> HIDE DEF P
  <2>1. \E iter : P(iter)
    BY <1>2, Recursion
  <2> QED BY <1>2, <2>1, Zenon
<1>4. SubtractTypes(cs, g, p, source) = it[1..n]
  BY Zenon DEF SubtractTypes, FoldLeft, MapThenFoldSet
<1> HIDE DEF it
<1> QED BY <1>3, <1>4, Unfolded

\* The run of the fold AddTypes: its base, then one step per element.
LEMMA AddTypesTrace ==
  ASSUME NEW cs, NEW g, NEW p, NEW source, NEW n \in Nat, DOMAIN (Indices(ReplacementSlice(cs, p.c, source, "types"))) = 1..n
  PROVE  \E tr : Traced(tr, "add", <<cs, g, source>>, p, Indices(ReplacementSlice(cs, p.c, source, "types")), n, AddTypes(cs, g, p, source))
<1> DEFINE seq == Indices(ReplacementSlice(cs, p.c, source, "types"))
           P(iter) == iter = [part \in SUBSET (1..n) |->
             IF part = {} THEN p
             ELSE AddType(cs, g, iter[part \ {Max(part)}], source, seq[Max(part)])]
           it == CHOOSE iter : P(iter)
<1>1. \A q, x : Step("add", <<cs, g, source>>, q, x) = AddType(cs, g, q, source, x)
  BY DEF Step
<1>2. \A iter : P(iter) <=> Folds(iter, "add", <<cs, g, source>>, p, seq, n)
  BY <1>1, ZenonT(30) DEF Folds
<1>3. Folds(it, "add", <<cs, g, source>>, p, seq, n)
  <2> HIDE DEF P
  <2>1. \E iter : P(iter)
    BY <1>2, Recursion, Zenon
  <2> QED BY <1>2, <2>1, Zenon
<1>4. AddTypes(cs, g, p, source) = it[1..n]
  BY Zenon DEF AddTypes, FoldLeft, MapThenFoldSet
<1> HIDE DEF it
<1> QED BY <1>3, <1>4, Unfolded

\* The run of the fold ExchangeAllTypes: its base, then one step per element.
LEMMA ExchangeAllTypesTrace ==
  ASSUME NEW cs, NEW g, NEW p, NEW n \in Nat, DOMAIN (p.c.changed) = 1..n
  PROVE  \E tr : Traced(tr, "exchange", <<cs, g>>, p, p.c.changed, n, ExchangeAllTypes(cs, g, p))
<1> DEFINE seq == p.c.changed
           P(iter) == iter = [part \in SUBSET (1..n) |->
             IF part = {} THEN p
             ELSE ExchangeTypes(cs, g, iter[part \ {Max(part)}], seq[Max(part)])]
           it == CHOOSE iter : P(iter)
<1>1. \A q, x : Step("exchange", <<cs, g>>, q, x) = ExchangeTypes(cs, g, q, x)
  BY DEF Step
<1>2. \A iter : P(iter) <=> Folds(iter, "exchange", <<cs, g>>, p, seq, n)
  BY <1>1, ZenonT(30) DEF Folds
<1>3. Folds(it, "exchange", <<cs, g>>, p, seq, n)
  <2> HIDE DEF P
  <2>1. \E iter : P(iter)
    BY <1>2, Recursion
  <2> QED BY <1>2, <2>1, Zenon
<1>4. ExchangeAllTypes(cs, g, p) = it[1..n]
  BY DEF ExchangeAllTypes, FoldLeft, MapThenFoldSet
<1> HIDE DEF it
<1> QED BY <1>3, <1>4, Unfolded

\* The run of the fold Derived: its base, then one step per element.
LEMMA DerivedTrace ==
  ASSUME NEW g, NEW base, NEW modifiers, NEW n \in Nat, DOMAIN (modifiers) = 1..n
  PROVE  \E tr : Traced(tr, "derive sparsely", <<g>>, base, modifiers, n, Derived(g, base, modifiers))
<1> DEFINE seq == modifiers
           P(iter) == iter = [part \in SUBSET (1..n) |->
             IF part = {} THEN base
             ELSE GetDerived(g, iter[part \ {Max(part)}].u, seq[Max(part)], iter[part \ {Max(part)}].ref)]
           it == CHOOSE iter : P(iter)
<1>1. \A q, x : Step("derive sparsely", <<g>>, q, x) = GetDerived(g, q.u, x, q.ref)
  BY DEF Step
<1>2. \A iter : P(iter) <=> Folds(iter, "derive sparsely", <<g>>, base, seq, n)
  BY <1>1, ZenonT(30) DEF Folds
<1>3. Folds(it, "derive sparsely", <<g>>, base, seq, n)
  <2> HIDE DEF P
  <2>1. \E iter : P(iter)
    BY <1>2, Recursion, Zenon
  <2> QED BY <1>2, <2>1, Zenon
<1>4. Derived(g, base, modifiers) = it[1..n]
  BY DEF Derived, FoldLeft, MapThenFoldSet
<1> HIDE DEF it
<1> QED BY <1>3, <1>4, Unfolded, Zenon

\* The run of the fold MaterializeMembers: its base, then one step per
\* element.
LEMMA MaterializeMembersTrace ==
  ASSUME NEW cs, NEW g, NEW c, NEW u, NEW owner, NEW version, NEW members, NEW n \in Nat, DOMAIN (members) = 1..n
  PROVE  \E tr : Traced(tr, "members", <<cs, g, c, owner, version>>, u, members, n, MaterializeMembers(cs, g, c, u, owner, version, members))
<1> DEFINE seq == members
           P(iter) == iter = [part \in SUBSET (1..n) |->
             IF part = {} THEN u
             ELSE MaterializeMember(cs, g, c, iter[part \ {Max(part)}], owner, version, seq[Max(part)])]
           it == CHOOSE iter : P(iter)
<1>1. \A q, x : Step("members", <<cs, g, c, owner, version>>, q, x) = MaterializeMember(cs, g, c, q, owner, version, x)
  BY DEF Step
<1>2. \A iter : P(iter) <=> Folds(iter, "members", <<cs, g, c, owner, version>>, u, seq, n)
  BY <1>1, ZenonT(30) DEF Folds
<1>3. Folds(it, "members", <<cs, g, c, owner, version>>, u, seq, n)
  <2> HIDE DEF P
  <2>1. \E iter : P(iter)
    BY <1>2, Recursion, Zenon
  <2> QED BY <1>2, <2>1, Zenon
<1>4. MaterializeMembers(cs, g, c, u, owner, version, members) = it[1..n]
  BY DEF MaterializeMembers, FoldLeft, MapThenFoldSet
<1> HIDE DEF it
<1> QED BY <1>3, <1>4, Unfolded

\* The run of the fold MaterializeTypes: its base, then one step per element.
LEMMA MaterializeTypesTrace ==
  ASSUME NEW cs, NEW g, NEW p, NEW n \in Nat, DOMAIN (p.touched) = 1..n
  PROVE  \E tr : Traced(tr, "materialize", <<cs, g>>, p, p.touched, n, MaterializeTypes(cs, g, p))
<1> DEFINE seq == p.touched
           P(iter) == iter = [part \in SUBSET (1..n) |->
             IF part = {} THEN p
             ELSE MaterializeType(cs, g, iter[part \ {Max(part)}], seq[Max(part)])]
           it == CHOOSE iter : P(iter)
<1>1. \A q, x : Step("materialize", <<cs, g>>, q, x) = MaterializeType(cs, g, q, x)
  BY DEF Step
<1>2. \A iter : P(iter) <=> Folds(iter, "materialize", <<cs, g>>, p, seq, n)
  BY <1>1, ZenonT(30) DEF Folds
<1>3. Folds(it, "materialize", <<cs, g>>, p, seq, n)
  <2> HIDE DEF P
  <2>1. \E iter : P(iter)
    BY <1>2, Recursion
  <2> QED BY <1>2, <2>1, Zenon
<1>4. MaterializeTypes(cs, g, p) = it[1..n]
  BY DEF MaterializeTypes, FoldLeft, MapThenFoldSet
<1> HIDE DEF it
<1> QED BY <1>3, <1>4, Unfolded

\* The run of the fold RetireObjects: its base, then one step per element.
LEMMA RetireObjectsTrace ==
  ASSUME NEW g, NEW p, NEW objects, NEW n \in Nat, DOMAIN (objects) = 1..n
  PROVE  \E tr : Traced(tr, "retire objects", <<g>>, p, objects, n, RetireObjects(g, p, objects))
<1> DEFINE seq == objects
           P(iter) == iter = [part \in SUBSET (1..n) |->
             IF part = {} THEN p
             ELSE RetireObject(g, iter[part \ {Max(part)}], seq[Max(part)])]
           it == CHOOSE iter : P(iter)
<1>1. \A q, x : Step("retire objects", <<g>>, q, x) = RetireObject(g, q, x)
  BY DEF Step
<1>2. \A iter : P(iter) <=> Folds(iter, "retire objects", <<g>>, p, seq, n)
  BY <1>1, ZenonT(30) DEF Folds
<1>3. Folds(it, "retire objects", <<g>>, p, seq, n)
  <2> HIDE DEF P
  <2>1. \E iter : P(iter)
    BY <1>2, Recursion, Zenon
  <2> QED BY <1>2, <2>1, Zenon
<1>4. RetireObjects(g, p, objects) = it[1..n]
  BY DEF RetireObjects, FoldLeft, MapThenFoldSet
<1> HIDE DEF it
<1> QED BY <1>3, <1>4, Unfolded, Zenon

\* The run of the fold RetireLinks: its base, then one step per element.
LEMMA RetireLinksTrace ==
  ASSUME NEW g, NEW p, NEW links, NEW n \in Nat, DOMAIN (links) = 1..n
  PROVE  \E tr : Traced(tr, "retire links", <<g>>, p, links, n, RetireLinks(g, p, links))
<1> DEFINE seq == links
           P(iter) == iter = [part \in SUBSET (1..n) |->
             IF part = {} THEN p
             ELSE RetireLink(g, iter[part \ {Max(part)}], seq[Max(part)])]
           it == CHOOSE iter : P(iter)
<1>1. \A q, x : Step("retire links", <<g>>, q, x) = RetireLink(g, q, x)
  BY DEF Step
<1>2. \A iter : P(iter) <=> Folds(iter, "retire links", <<g>>, p, seq, n)
  BY <1>1, ZenonT(30) DEF Folds
<1>3. Folds(it, "retire links", <<g>>, p, seq, n)
  <2> HIDE DEF P
  <2>1. \E iter : P(iter)
    BY <1>2, Recursion, Zenon
  <2> QED BY <1>2, <2>1, Zenon
<1>4. RetireLinks(g, p, links) = it[1..n]
  BY DEF RetireLinks, FoldLeft, MapThenFoldSet
<1> HIDE DEF it
<1> QED BY <1>3, <1>4, Unfolded, Zenon

\* The run of the fold RetireSources: its base, then one step per element.
LEMMA RetireSourcesTrace ==
  ASSUME NEW cs, NEW g, NEW p, NEW n \in Nat, DOMAIN (p.c.changed) = 1..n
  PROVE  \E tr : Traced(tr, "retire", <<cs, g>>, p, p.c.changed, n, RetireSources(cs, g, p))
<1> DEFINE seq == p.c.changed
           P(iter) == iter = [part \in SUBSET (1..n) |->
             IF part = {} THEN p
             ELSE RetireSource(cs, g, iter[part \ {Max(part)}], seq[Max(part)])]
           it == CHOOSE iter : P(iter)
<1>1. \A q, x : Step("retire", <<cs, g>>, q, x) = RetireSource(cs, g, q, x)
  BY DEF Step
<1>2. \A iter : P(iter) <=> Folds(iter, "retire", <<cs, g>>, p, seq, n)
  BY <1>1, ZenonT(30) DEF Folds
<1>3. Folds(it, "retire", <<cs, g>>, p, seq, n)
  <2> HIDE DEF P
  <2>1. \E iter : P(iter)
    BY <1>2, Recursion
  <2> QED BY <1>2, <2>1, Zenon
<1>4. RetireSources(cs, g, p) = it[1..n]
  BY DEF RetireSources, FoldLeft, MapThenFoldSet
<1> HIDE DEF it
<1> QED BY <1>3, <1>4, Unfolded

\* The run of the fold ClaimObjectsOf: its base, then one step per element.
LEMMA ClaimObjectsOfTrace ==
  ASSUME NEW cs, NEW g, NEW p, NEW s, NEW n \in Nat, DOMAIN (ReplacementSlice(cs, p.c, s, "objects")) = 1..n
  PROVE  \E tr : Traced(tr, "claim objects of", <<cs, g>>, p, ReplacementSlice(cs, p.c, s, "objects"), n, ClaimObjectsOf(cs, g, p, s))
<1> DEFINE seq == ReplacementSlice(cs, p.c, s, "objects")
           P(iter) == iter = [part \in SUBSET (1..n) |->
             IF part = {} THEN p
             ELSE ClaimObject(cs, g, iter[part \ {Max(part)}], seq[Max(part)])]
           it == CHOOSE iter : P(iter)
<1>1. \A q, x : Step("claim objects of", <<cs, g>>, q, x) = ClaimObject(cs, g, q, x)
  BY DEF Step
<1>2. \A iter : P(iter) <=> Folds(iter, "claim objects of", <<cs, g>>, p, seq, n)
  BY <1>1, ZenonT(30) DEF Folds
<1>3. Folds(it, "claim objects of", <<cs, g>>, p, seq, n)
  <2> HIDE DEF P
  <2>1. \E iter : P(iter)
    BY <1>2, Recursion, Zenon
  <2> QED BY <1>2, <2>1, Zenon
<1>4. ClaimObjectsOf(cs, g, p, s) = it[1..n]
  BY Zenon DEF ClaimObjectsOf, FoldLeft, MapThenFoldSet
<1> HIDE DEF it
<1> QED BY <1>3, <1>4, Unfolded, Zenon

\* The run of the fold ClaimObjects: its base, then one step per element.
LEMMA ClaimObjectsTrace ==
  ASSUME NEW cs, NEW g, NEW p, NEW n \in Nat, DOMAIN (p.c.changed) = 1..n
  PROVE  \E tr : Traced(tr, "claim objects", <<cs, g>>, p, p.c.changed, n, ClaimObjects(cs, g, p))
<1> DEFINE seq == p.c.changed
           P(iter) == iter = [part \in SUBSET (1..n) |->
             IF part = {} THEN p
             ELSE ClaimObjectsOf(cs, g, iter[part \ {Max(part)}], seq[Max(part)])]
           it == CHOOSE iter : P(iter)
<1>1. \A q, x : Step("claim objects", <<cs, g>>, q, x) = ClaimObjectsOf(cs, g, q, x)
  BY DEF Step
<1>2. \A iter : P(iter) <=> Folds(iter, "claim objects", <<cs, g>>, p, seq, n)
  BY <1>1, ZenonT(30) DEF Folds
<1>3. Folds(it, "claim objects", <<cs, g>>, p, seq, n)
  <2> HIDE DEF P
  <2>1. \E iter : P(iter)
    BY <1>2, Recursion, Zenon
  <2> QED BY <1>2, <2>1, Zenon
<1>4. ClaimObjects(cs, g, p) = it[1..n]
  BY DEF ClaimObjects, FoldLeft, MapThenFoldSet
<1> HIDE DEF it
<1> QED BY <1>3, <1>4, Unfolded, Zenon

\* The run of the fold ClaimLinksOf: its base, then one step per element.
LEMMA ClaimLinksOfTrace ==
  ASSUME NEW cs, NEW g, NEW p, NEW s, NEW n \in Nat, DOMAIN (ReplacementSlice(cs, p.c, s, "links")) = 1..n
  PROVE  \E tr : Traced(tr, "claim links of", <<g>>, p, ReplacementSlice(cs, p.c, s, "links"), n, ClaimLinksOf(cs, g, p, s))
<1> DEFINE seq == ReplacementSlice(cs, p.c, s, "links")
           P(iter) == iter = [part \in SUBSET (1..n) |->
             IF part = {} THEN p
             ELSE ClaimLink(g, iter[part \ {Max(part)}], seq[Max(part)])]
           it == CHOOSE iter : P(iter)
<1>1. \A q, x : Step("claim links of", <<g>>, q, x) = ClaimLink(g, q, x)
  BY DEF Step
<1>2. \A iter : P(iter) <=> Folds(iter, "claim links of", <<g>>, p, seq, n)
  BY <1>1, ZenonT(30) DEF Folds
<1>3. Folds(it, "claim links of", <<g>>, p, seq, n)
  <2> HIDE DEF P
  <2>1. \E iter : P(iter)
    BY <1>2, Recursion, Zenon
  <2> QED BY <1>2, <2>1, Zenon
<1>4. ClaimLinksOf(cs, g, p, s) = it[1..n]
  BY Zenon DEF ClaimLinksOf, FoldLeft, MapThenFoldSet
<1> HIDE DEF it
<1> QED BY <1>3, <1>4, Unfolded, Zenon

\* The run of the fold ClaimLinks: its base, then one step per element.
LEMMA ClaimLinksTrace ==
  ASSUME NEW cs, NEW g, NEW p, NEW n \in Nat, DOMAIN (p.c.changed) = 1..n
  PROVE  \E tr : Traced(tr, "claim links", <<cs, g>>, p, p.c.changed, n, ClaimLinks(cs, g, p))
<1> DEFINE seq == p.c.changed
           P(iter) == iter = [part \in SUBSET (1..n) |->
             IF part = {} THEN p
             ELSE ClaimLinksOf(cs, g, iter[part \ {Max(part)}], seq[Max(part)])]
           it == CHOOSE iter : P(iter)
<1>1. \A q, x : Step("claim links", <<cs, g>>, q, x) = ClaimLinksOf(cs, g, q, x)
  BY DEF Step
<1>2. \A iter : P(iter) <=> Folds(iter, "claim links", <<cs, g>>, p, seq, n)
  BY <1>1, ZenonT(30) DEF Folds
<1>3. Folds(it, "claim links", <<cs, g>>, p, seq, n)
  <2> HIDE DEF P
  <2>1. \E iter : P(iter)
    BY <1>2, Recursion, Zenon
  <2> QED BY <1>2, <2>1, Zenon
<1>4. ClaimLinks(cs, g, p) = it[1..n]
  BY DEF ClaimLinks, FoldLeft, MapThenFoldSet
<1> HIDE DEF it
<1> QED BY <1>3, <1>4, Unfolded, Zenon

----------------------------------------------------------------------------
(* Sequences. *)

IsSeq(q) == q \in Seq(ToSet(q))

\* Len under a name of its own: a number the provers need not look into.
Length(q) == Len(q)

\* A sequence is a function on an interval.
LEMMA SeqShape ==
  ASSUME NEW q, IsSeq(q)
  PROVE  /\ Len(q) \in Nat /\ DOMAIN q = 1..Len(q)
         /\ q = [i \in 1..Len(q) |-> q[i]]
         /\ \A i \in 1..Len(q) : q[i] \in ToSet(q)
<1>1. q \in [1..Len(q) -> ToSet(q)] /\ Len(q) \in Nat
  BY LenProperties DEF IsSeq
<1> QED BY <1>1

\* A sequence over any set is a sequence.
LEMMA MemberIsSeq ==
  ASSUME NEW S, NEW q \in Seq(S)
  PROVE  IsSeq(q)
<1>1. Len(q) \in Nat /\ q \in [1..Len(q) -> S]
  BY LenProperties
<1>2. q \in [1..Len(q) -> ToSet(q)]
  BY <1>1 DEF ToSet
<1> QED BY <1>1, <1>2 DEF IsSeq

\* A function on an interval is a sequence of that length.
LEMMA FunctionIsSeq ==
  ASSUME NEW n \in Nat, NEW q, q = [i \in 1..n |-> q[i]]
  PROVE  IsSeq(q) /\ Len(q) = n
<1>1. q \in [1..n -> ToSet(q)] /\ DOMAIN q = 1..n
  BY DEF ToSet
<1>2. q \in Seq(ToSet(q))
  BY <1>1
<1>3. Len(q) \in Nat /\ DOMAIN q = 1..Len(q)
  BY <1>2, LenProperties
<1>4. Len(q) = n
  BY <1>1, <1>3
<1> QED BY <1>2, <1>4 DEF IsSeq

\* The empty sequence.
LEMMA EmptyIsSeq == IsSeq(<<>>) /\ Len(<<>>) = 0
BY DEF IsSeq

\* Sequences of the same length and elements are equal.
LEMMA SameSeq ==
  ASSUME NEW p, NEW q, IsSeq(p), IsSeq(q), Len(p) = Len(q),
         \A i \in 1..Len(p) : p[i] = q[i]
  PROVE  p = q
<1>1. p = [i \in 1..Len(p) |-> p[i]] /\ q = [i \in 1..Len(q) |-> q[i]]
  BY SeqShape
<1> QED BY <1>1

\* SeqShape, for the opaque length.
LEMMA LengthSeq ==
  ASSUME NEW q, IsSeq(q)
  PROVE  /\ Length(q) \in Nat /\ DOMAIN q = 1..Length(q)
         /\ q = [i \in 1..Length(q) |-> q[i]]
         /\ \A i \in 1..Length(q) : q[i] \in ToSet(q)
BY SeqShape DEF Length

\* The elements of a concatenation.
LEMMA JoinSeq ==
  ASSUME NEW p, NEW q, IsSeq(p), IsSeq(q)
  PROVE  /\ IsSeq(p \o q) /\ Length(p \o q) = Length(p) + Length(q)
         /\ \A i \in 1..(Length(p) + Length(q)) :
              (p \o q)[i] = IF i <= Length(p) THEN p[i] ELSE q[i - Length(p)]
<1> DEFINE S == ToSet(p) \cup ToSet(q)
<1>2. p \in Seq(S) /\ q \in Seq(S)
  BY DEF IsSeq
<1> HIDE DEF S
<1>3. /\ p \o q \in Seq(S) /\ Len(p \o q) = Len(p) + Len(q)
      /\ \A i \in 1..(Len(p) + Len(q)) :
           (p \o q)[i] = IF i <= Len(p) THEN p[i] ELSE q[i - Len(p)]
  BY <1>2, ConcatProperties
<1>4. IsSeq(p \o q)
  BY <1>3, MemberIsSeq, Zenon
<1> QED BY <1>3, <1>4 DEF Length

\* The elements of an extended sequence.
LEMMA AppendSeq ==
  ASSUME NEW p, NEW x, IsSeq(p)
  PROVE  /\ IsSeq(Append(p, x)) /\ Len(Append(p, x)) = Len(p) + 1
         /\ \A i \in 1..Len(p) : Append(p, x)[i] = p[i]
         /\ Append(p, x)[Len(p) + 1] = x
<1> DEFINE S == ToSet(p) \cup {x}
<1>1. p \in Seq(S) /\ x \in S
  BY DEF IsSeq
<1> HIDE DEF S
<1>2. /\ Append(p, x) \in Seq(S) /\ Len(Append(p, x)) = Len(p) + 1
      /\ \A i \in 1..Len(p) : Append(p, x)[i] = p[i]
      /\ Append(p, x)[Len(p) + 1] = x
  BY <1>1, AppendProperties
<1>3. IsSeq(Append(p, x))
  BY <1>2, MemberIsSeq, Zenon
<1> QED BY <1>2, <1>3

\* Concatenation is associative.
LEMMA JoinAssociative ==
  ASSUME NEW p, NEW q, NEW r, IsSeq(p), IsSeq(q), IsSeq(r)
  PROVE  (p \o q) \o r = p \o (q \o r)
<1> DEFINE S == ToSet(p) \cup ToSet(q) \cup ToSet(r)
<1>1. p \in Seq(S) /\ q \in Seq(S) /\ r \in Seq(S)
  BY DEF IsSeq
<1> QED BY <1>1, ConcatAssociative

\* A range inside a sequence reads its elements.
LEMMA SpanSeq ==
  ASSUME NEW v, IsSeq(v), NEW r, r.begin \in Nat, r.count \in Nat,
         r.begin + r.count <= Len(v)
  PROVE  Span(v, r) = [i \in 1..r.count |-> v[r.begin + i]]
<1>1. Len(v) \in Nat
  BY SeqShape
<1>2. Span(v, r) = SubSeq(v, r.begin + 1, r.begin + r.count)
  <2>1. ~(r.begin > Len(v) \/ r.count > Len(v) - r.begin)
    BY <1>1
  <2> QED BY <2>1, Zenon DEF Span
<1> DEFINE m == r.begin + 1
           k == r.begin + r.count
<1>3. m \in Int /\ k \in Int /\ \A i \in m..k : v[i] \in ToSet(v)
  BY <1>1, SeqShape
<1>4. /\ SubSeq(v, m, k) \in Seq(ToSet(v))
      /\ Len(SubSeq(v, m, k)) = IF m <= k THEN k - m + 1 ELSE 0
      /\ \A i \in 1..(k - m + 1) : SubSeq(v, m, k)[i] = v[m + i - 1]
  <2> HIDE DEF m, k
  <2> QED BY <1>3, SubSeqProperties
<1> DEFINE w == Span(v, r)
<1> HIDE DEF w
<1>5. IsSeq(w)
  BY <1>2, <1>4, MemberIsSeq, Zenon DEF w
<1>6. Len(w) = r.count
  BY <1>2, <1>4 DEF w
<1>7. ASSUME NEW i \in 1..r.count PROVE w[i] = v[r.begin + i]
  <2>1. i \in 1..(k - m + 1) /\ m + i - 1 = r.begin + i
    OBVIOUS
  <2>2. SubSeq(v, m, k)[i] = v[m + i - 1]
    <3> HIDE DEF m, k
    <3> QED BY <1>4, <2>1
  <2>3. w[i] = SubSeq(v, m, k)[i]
    BY <1>2, Zenon DEF w
  <2> QED BY <2>1, <2>2, <2>3, Zenon
<1>8. w = [i \in 1..r.count |-> w[i]]
  BY <1>5, <1>6, SeqShape
<1>9. w = [i \in 1..r.count |-> v[r.begin + i]]
  BY <1>7, <1>8, Zenon
<1> QED BY <1>9 DEF w

\* A range reads a sequence of elements, wherever it points.
LEMMA SpanWithin ==
  ASSUME NEW v, IsSeq(v), NEW r, r.begin \in Nat, r.count \in Nat
  PROVE  IsSeq(Span(v, r)) /\ \A i \in DOMAIN Span(v, r) : Span(v, r)[i] \in ToSet(v)
<1>1. Len(v) \in Nat
  BY SeqShape
<1>2. CASE r.begin + r.count <= Len(v)
  <2>1. Span(v, r) = [i \in 1..r.count |-> v[r.begin + i]]
    BY <1>2, SpanSeq
  <2>2. IsSeq(Span(v, r))
    <3>1. Span(v, r) = [i \in 1..r.count |-> Span(v, r)[i]]
      BY <2>1
    <3> QED BY <3>1, FunctionIsSeq
  <2>3. \A i \in 1..r.count : v[r.begin + i] \in ToSet(v)
    BY <1>1, <1>2, SeqShape
  <2> QED BY <2>1, <2>2, <2>3
<1>3. CASE ~(r.begin + r.count <= Len(v))
  <2>1. Span(v, r) = <<>>
    BY <1>1, <1>3 DEF Span
  <2> QED BY <2>1, EmptyIsSeq
<1> QED BY <1>2, <1>3

----------------------------------------------------------------------------
(* Sums. *)

\* tr is the run of the sum of the first n values of w.
SumRun(tr, w, n) == tr[0] = 0 /\ \A m \in 1..n : tr[m] = tr[m-1] + w[m]

\* SumSeq is the end of the run of partial sums.
LEMMA SumIsRun ==
  ASSUME NEW n \in Nat, NEW w, DOMAIN w = 1..n
  PROVE  \E tr : SumRun(tr, w, n) /\ tr[n] = SumSeq(w)
<1>1. PICK tr : Traced(tr, "sum", <<>>, 0, w, n, SumSeq(w))
  BY SumSeqTrace
<1>2. \A b, x : Step("sum", <<>>, b, x) = b + x
  BY DEF Step
<1> QED BY <1>1, <1>2, Zenon DEF Traced, SumRun

\* Partial sums of integers are integers.
LEMMA SumRunInt ==
  ASSUME NEW n \in Nat, NEW w, \A i \in 1..n : w[i] \in Int, NEW tr, SumRun(tr, w, n)
  PROVE  \A m \in 0..n : tr[m] \in Int
<1> DEFINE S == {m \in 0..n : tr[m] \in Int}
<1>1. 0 \in S
  BY DEF SumRun
<1>2. ASSUME NEW m \in 0..(n-1), m \in S PROVE m + 1 \in S
  <2>1. m + 1 \in 1..n /\ m + 1 - 1 = m
    OBVIOUS
  <2> QED BY <1>2, <2>1 DEF SumRun
<1>3. 0..n \subseteq S
  <2> HIDE DEF S
  <2> QED BY <1>1, <1>2, SetInduction
<1> QED BY <1>3

\* A sum of integers is an integer.
LEMMA SumInt ==
  ASSUME NEW n \in Nat, NEW w \in [1..n -> Int]
  PROVE  SumSeq(w) \in Int
<1>1. PICK tr : SumRun(tr, w, n) /\ tr[n] = SumSeq(w)
  BY SumIsRun
<1> QED BY <1>1, SumRunInt

\* The sum of a pointwise sum.
LEMMA SumPlus ==
  ASSUME NEW n \in Nat, NEW v \in [1..n -> Int], NEW w \in [1..n -> Int]
  PROVE  SumSeq([i \in 1..n |-> v[i] + w[i]]) = SumSeq(v) + SumSeq(w)
<1> DEFINE z == [i \in 1..n |-> v[i] + w[i]]
<1>1. PICK a : SumRun(a, v, n) /\ a[n] = SumSeq(v)
  BY SumIsRun
<1>2. PICK b : SumRun(b, w, n) /\ b[n] = SumSeq(w)
  BY SumIsRun
<1>3. PICK c : SumRun(c, z, n) /\ c[n] = SumSeq(z)
  BY SumIsRun, Zenon
<1>4. \A m \in 0..n : a[m] \in Int /\ b[m] \in Int
  BY <1>1, <1>2, SumRunInt, Zenon
<1> DEFINE S == {m \in 0..n : c[m] = a[m] + b[m]}
<1>5. 0 \in S
  BY <1>1, <1>2, <1>3 DEF SumRun
<1>6. ASSUME NEW m \in 0..(n-1), m \in S PROVE m + 1 \in S
  <2>1. m + 1 \in 1..n /\ m + 1 - 1 = m /\ m \in 0..n
    OBVIOUS
  <2>2. a[m+1] = a[m] + v[m+1] /\ b[m+1] = b[m] + w[m+1] /\ c[m+1] = c[m] + z[m+1]
    BY <1>1, <1>2, <1>3, <2>1 DEF SumRun
  <2>3. z[m+1] = v[m+1] + w[m+1] /\ v[m+1] \in Int /\ w[m+1] \in Int
    BY <2>1
  <2> QED BY <1>4, <1>6, <2>1, <2>2, <2>3
<1>7. 0..n \subseteq S
  <2> HIDE DEF S
  <2> QED BY <1>5, <1>6, SetInduction, Zenon
<1> QED BY <1>1, <1>2, <1>3, <1>7

\* The sum after one value was set to zero.
LEMMA SumWithout ==
  ASSUME NEW n \in Nat, NEW w \in [1..n -> Int], NEW k \in 1..n
  PROVE  SumSeq(w) = SumSeq([w EXCEPT ![k] = 0]) + w[k]
<1> DEFINE z == [w EXCEPT ![k] = 0]
<1>0. z \in [1..n -> Int]
  OBVIOUS
<1>1. PICK a : SumRun(a, w, n) /\ a[n] = SumSeq(w)
  BY SumIsRun
<1>2. PICK c : SumRun(c, z, n) /\ c[n] = SumSeq(z)
  BY <1>0, SumIsRun, Zenon
<1>3. \A m \in 0..n : a[m] \in Int /\ c[m] \in Int
  BY <1>0, <1>1, <1>2, SumRunInt, Zenon
<1> DEFINE S == {m \in 0..n : a[m] = c[m] + (IF m < k THEN 0 ELSE w[k])}
<1>4. 0 \in S
  BY <1>1, <1>2 DEF SumRun
<1>5. ASSUME NEW m \in 0..(n-1), m \in S PROVE m + 1 \in S
  <2>1. m + 1 \in 1..n /\ m + 1 - 1 = m /\ m \in 0..n
    OBVIOUS
  <2>2. a[m+1] = a[m] + w[m+1] /\ c[m+1] = c[m] + z[m+1]
    BY <1>1, <1>2, <2>1 DEF SumRun
  <2>3. z[m+1] = (IF m + 1 = k THEN 0 ELSE w[m+1]) /\ w[m+1] \in Int /\ w[k] \in Int
    BY <2>1
  <2>4. a[m] = c[m] + (IF m < k THEN 0 ELSE w[k])
    BY <1>5
  <2> QED BY <1>3, <2>1, <2>2, <2>3, <2>4
<1>6. 0..n \subseteq S
  <2> HIDE DEF S
  <2> QED BY <1>4, <1>5, SetInduction, Zenon
<1>7. a[n] = c[n] + w[k]
  BY <1>6
<1> QED BY <1>1, <1>2, <1>7

\* A sum of zeros.
LEMMA SumOfZeros ==
  ASSUME NEW n \in Nat, NEW w, DOMAIN w = 1..n, \A i \in 1..n : w[i] = 0
  PROVE  SumSeq(w) = 0
<1>1. PICK a : SumRun(a, w, n) /\ a[n] = SumSeq(w)
  BY SumIsRun
<1> DEFINE S == {m \in 0..n : a[m] = 0}
<1>2. 0 \in S
  BY <1>1 DEF SumRun
<1>3. ASSUME NEW m \in 0..(n-1), m \in S PROVE m + 1 \in S
  <2>1. m + 1 \in 1..n /\ m + 1 - 1 = m /\ m \in 0..n
    OBVIOUS
  <2> QED BY <1>1, <1>3, <2>1 DEF SumRun
<1>4. 0..n \subseteq S
  <2> HIDE DEF S
  <2> QED BY <1>2, <1>3, SetInduction, Zenon
<1> QED BY <1>1, <1>4

\* The sum of one more value.
LEMMA SumLast ==
  ASSUME NEW n \in Nat, NEW w \in [1..(n+1) -> Int]
  PROVE  SumSeq(w) = SumSeq([i \in 1..n |-> w[i]]) + w[n+1]
<1> DEFINE z == [i \in 1..n |-> w[i]]
<1>1. PICK a : SumRun(a, w, n+1) /\ a[n+1] = SumSeq(w)
  BY SumIsRun
<1>2. PICK c : SumRun(c, z, n) /\ c[n] = SumSeq(z)
  BY SumIsRun, Zenon
<1> DEFINE S == {m \in 0..n : a[m] = c[m]}
<1>4. 0 \in S
  BY <1>1, <1>2 DEF SumRun
<1>5. ASSUME NEW m \in 0..(n-1), m \in S PROVE m + 1 \in S
  <2>1. m + 1 \in 1..n /\ m + 1 \in 1..(n+1) /\ m + 1 - 1 = m /\ m \in 0..n /\ m+1 \in 0..n
    OBVIOUS
  <2>2. a[m+1] = a[m] + w[m+1] /\ c[m+1] = c[m] + z[m+1]
    BY <1>1, <1>2, <2>1 DEF SumRun
  <2>3. z[m+1] = w[m+1]
    BY <2>1
  <2> QED BY <1>5, <2>1, <2>2, <2>3
<1>6. 0..n \subseteq S
  <2> HIDE DEF S
  <2> QED BY <1>4, <1>5, SetInduction, Zenon
<1>7. a[n] = c[n] /\ a[n+1] = a[n] + w[n+1]
  <2>1. n \in S /\ n + 1 \in 1..(n+1) /\ n + 1 - 1 = n
    BY <1>6
  <2> QED BY <1>1, <2>1 DEF SumRun
<1> QED BY <1>1, <1>2, <1>7

\* The sum over a list of distinct indices is the sum over all when the other
\* terms are zero.
LEMMA SumOfSome ==
  ASSUME NEW n \in Nat, NEW m \in Nat, NEW q \in [1..m -> 1..n],
         \A i, j \in 1..m : q[i] = q[j] => i = j,
         NEW w \in [1..n -> Int],
         \A s \in 1..n : (\A i \in 1..m : q[i] # s) => w[s] = 0
  PROVE  SumSeq([i \in 1..m |-> w[q[i]]]) = SumSeq(w)
<1> DEFINE Only(v, k) == \A s \in 1..n : (\A i \in 1..k : q[i] # s) => v[s] = 0
           Sums(k) == \A v \in [1..n -> Int] :
                         Only(v, k) => SumSeq([i \in 1..k |-> v[q[i]]]) = SumSeq(v)
           S == {k \in 0..m : Sums(k)}
<1>1. Sums(0)
  <2> SUFFICES ASSUME NEW v \in [1..n -> Int], Only(v, 0)
               PROVE  SumSeq([i \in 1..0 |-> v[q[i]]]) = SumSeq(v)
    OBVIOUS
  <2>1. SumSeq(v) = 0
    BY SumOfZeros
  <2>2. SumSeq([i \in 1..0 |-> v[q[i]]]) = 0
    <3> DEFINE z == [i \in 1..0 |-> v[q[i]]]
    <3>1. DOMAIN z = 1..0 /\ \A i \in 1..0 : z[i] = 0
      OBVIOUS
    <3> HIDE DEF z
    <3> QED BY <3>1, SumOfZeros
  <2> QED BY <2>1, <2>2
<1>2. ASSUME NEW k \in 0..(m-1), Sums(k) PROVE Sums(k + 1)
  <2> SUFFICES ASSUME NEW v \in [1..n -> Int], Only(v, k+1)
               PROVE  SumSeq([i \in 1..(k+1) |-> v[q[i]]]) = SumSeq(v)
    BY Zenon
  <2> DEFINE t == q[k+1]
             z == [v EXCEPT ![t] = 0]
             e == [i \in 1..(k+1) |-> v[q[i]]]
  <2>0. k + 1 \in 1..m /\ k \in Nat
    OBVIOUS
  <2>1. t \in 1..n /\ z \in [1..n -> Int] /\ e \in [1..(k+1) -> Int]
    <3>1. \A i \in 1..(k+1) : i \in 1..m
      OBVIOUS
    <3> QED BY <2>0, <3>1
  <2>2. Only(z, k)
    <3> SUFFICES ASSUME NEW s \in 1..n, \A i \in 1..k : q[i] # s, s # t
                 PROVE  v[s] = 0
      BY <2>1
    <3>1. ASSUME NEW i \in 1..(k+1) PROVE q[i] # s
      <4>1. i \in 1..k \/ i = k + 1
        BY <2>0
      <4> QED BY <4>1, Zenon
    <3> QED BY <3>1, Zenon
  <2>3. SumSeq([i \in 1..k |-> z[q[i]]]) = SumSeq(z)
    BY <1>2, <2>1, <2>2, Zenon
  <2>4. [i \in 1..k |-> z[q[i]]] = [i \in 1..k |-> e[i]]
    <3>1. ASSUME NEW i \in 1..k PROVE z[q[i]] = e[i]
      <4>1. i \in 1..m /\ k + 1 \in 1..m /\ i # k + 1
        OBVIOUS
      <4>2. q[i] # t
        BY <4>1
      <4> QED BY <4>1, <4>2
    <3> HIDE DEF z, e
    <3> QED BY <3>1
  <2>5. SumSeq(e) = SumSeq([i \in 1..k |-> e[i]]) + e[k+1]
    <3> HIDE DEF e
    <3> QED BY <2>0, <2>1, SumLast, Zenon
  <2>6. SumSeq(v) = SumSeq(z) + v[t]
    <3>1. \A r \in 1..n : SumSeq(v) = SumSeq([v EXCEPT ![r] = 0]) + v[r]
      BY SumWithout, Zenon
    <3> QED BY <2>1, <3>1, Zenon
  <2>7. e[k+1] = v[t]
    BY <2>0
  <2> HIDE DEF t, z
  <2> QED BY <2>3, <2>4, <2>5, <2>6, <2>7, Zenon
<1>3. 0..m \subseteq S
  <2> HIDE DEF Sums
  <2>1. 0 \in S /\ \A k \in 0..(m-1) : k \in S => k + 1 \in S
    BY <1>1, <1>2
  <2> HIDE DEF S
  <2> QED BY <2>1, SetInduction, Zenon
<1>4. Sums(m)
  <2> HIDE DEF Sums
  <2> QED BY <1>3
<1> QED BY <1>4, Zenon

Increasing(q, m) == \A i, j \in 1..m : i < j => q[i] < q[j]

\* A set of small numbers can be listed in ascending order.
LEMMA OrderExists ==
  ASSUME NEW n \in Nat, NEW T \in SUBSET (1..n)
  PROVE  \E q \in [1..Cardinality(T) -> T] : Increasing(q, Cardinality(T))
<1> DEFINE S == {k \in 0..n : \A U \in SUBSET (1..k) :
                  \E q \in [1..Cardinality(U) -> U] : Increasing(q, Cardinality(U))}
<1>1. 0 \in S
  <2>1. ASSUME NEW U \in SUBSET (1..0)
        PROVE  \E q \in [1..Cardinality(U) -> U] : Increasing(q, Cardinality(U))
    <3>1. U = {} /\ Cardinality(U) = 0
      <4>1. U = {}
        OBVIOUS
      <4> QED BY <4>1, FS_EmptySet
    <3>2. <<>> \in [1..0 -> U] /\ Increasing(<<>>, 0)
      BY DEF Increasing
    <3> QED BY <3>1, <3>2, Zenon
  <2> QED BY <2>1
<1>2. ASSUME NEW k \in 0..(n-1), k \in S PROVE k + 1 \in S
  <2> SUFFICES ASSUME NEW U \in SUBSET (1..(k+1))
        PROVE  \E q \in [1..Cardinality(U) -> U] : Increasing(q, Cardinality(U))
    OBVIOUS
  <2>1. CASE k + 1 \notin U
    <3>1. U \in SUBSET (1..k)
      BY <2>1
    <3> QED BY <1>2, <3>1
  <2>2. CASE k + 1 \in U
    <3> DEFINE V == U \ {k+1}
               c == Cardinality(V)
    <3>1. V \in SUBSET (1..k) /\ V \subseteq U
      BY <2>2
    <3>2. IsFiniteSet(U) /\ Cardinality(U) \in Nat
      <4>1. IsFiniteSet(1..(k+1))
        BY FS_Interval
      <4> QED BY <4>1, FS_Subset, FS_CardinalityType, Zenon
    <3>3. IsFiniteSet(V) /\ c \in Nat /\ Cardinality(U) = c + 1
      <4>1. IsFiniteSet(V) /\ c = Cardinality(U) - 1
        BY <2>2, <3>2, FS_RemoveElement
      <4>2. c \in Nat
        BY <4>1, FS_CardinalityType
      <4> QED BY <3>2, <4>1, <4>2
    <3>4. PICK q \in [1..c -> V] : Increasing(q, c)
      BY <1>2, <3>1, Zenon
    <3> HIDE DEF c
    <3> DEFINE r == [i \in 1..(c+1) |-> IF i = c + 1 THEN k + 1 ELSE q[i]]
    <3>5. r \in [1..(c+1) -> U]
      BY <2>2, <3>1, <3>3, <3>4
    <3>6. Increasing(r, c+1)
      <4> SUFFICES ASSUME NEW i \in 1..(c+1), NEW j \in 1..(c+1), i < j PROVE r[i] < r[j]
        BY DEF Increasing
      <4>1. i \in 1..c /\ i # c + 1 /\ q[i] \in V
        BY <3>3, <3>4
      <4>2. q[i] < k + 1
        <5>1. q[i] \in 1..k
          BY <3>1, <4>1, Zenon
        <5> QED BY <5>1
      <4>3. r[i] = q[i]
        BY <4>1
      <4>4. CASE j = c + 1
        BY <4>2, <4>3, <4>4
      <4>5. CASE j # c + 1
        <5>1. j \in 1..c /\ r[j] = q[j]
          BY <3>3, <4>5
        <5> QED BY <3>4, <4>1, <4>3, <5>1 DEF Increasing
      <4> QED BY <4>4, <4>5
    <3> QED BY <3>3, <3>5, <3>6
  <2> QED BY <2>1, <2>2
<1>3. 0..n \subseteq S
  <2> HIDE DEF S
  <2> QED BY <1>1, <1>2, SetInduction
<1>4. n \in S
  BY <1>3
<1> QED BY <1>4

\* Ordered lists every element of a set of Sources exactly once.
LEMMA OrderedLists ==
  ASSUME NEW T \in SUBSET Sources
  PROVE  /\ Cardinality(T) \in Nat
         /\ Ordered(T) \in [1..Cardinality(T) -> T]
         /\ \A i, j \in 1..Cardinality(T) : Ordered(T)[i] = Ordered(T)[j] => i = j
         /\ \A s \in T : \E i \in 1..Cardinality(T) : Ordered(T)[i] = s
<1> DEFINE c == Cardinality(T)
           q == Ordered(T)
<1>1. IsFiniteSet(T) /\ c \in Nat /\ T \in SUBSET (1..Cardinality(Sources))
      /\ Cardinality(Sources) \in Nat
  BY SourcesAreIds, FS_Subset, FS_CardinalityType
<1>2. \E r \in [1..c -> T] : Increasing(r, c)
  <2> HIDE DEF c
  <2> QED BY <1>1, OrderExists, Zenon DEF c
<1>3. q \in [1..c -> T] /\ Increasing(q, c)
  BY <1>2, Zenon DEF Ordered, Increasing
<1> HIDE DEF q, c
<1>4. \A i, j \in 1..c : q[i] = q[j] => i = j
  <2> SUFFICES ASSUME NEW i \in 1..c, NEW j \in 1..c, i # j PROVE q[i] # q[j]
    OBVIOUS
  <2>1. q[i] \in Nat /\ q[j] \in Nat
    <3>1. q[i] \in T /\ q[j] \in T
      BY <1>3
    <3>2. \A s \in T : s \in Nat
      BY <1>1
    <3> QED BY <3>1, <3>2
  <2>2. i < j \/ j < i
    BY <1>1
  <2> QED BY <1>3, <2>1, <2>2 DEF Increasing
<1>5. q \in Injection(1..c, T)
  BY <1>3, <1>4 DEF Injection, IsInjective
<1>6. Cardinality(1..c) = c
  BY <1>1, FS_Interval
<1>7. q \in Surjection(1..c, T)
  BY <1>1, <1>5, <1>6, FS_Injection DEF c
<1>8. \A s \in T : \E i \in 1..c : q[i] = s
  BY <1>7 DEF Surjection
<1> QED BY <1>1, <1>3, <1>4, <1>8 DEF c, q

----------------------------------------------------------------------------
(* A full build keeps the contributions it captured. *)

CacheShape(c) ==
  c \in [arena : {c.arena}, sources : {c.sources}, construction : {c.construction},
         statistics : {c.statistics}, complete : {c.complete}]

\* The cache d differs from c in its construction states at most.
SameContributions(c, d) == CacheShape(d) /\ d = [c EXCEPT !.construction = d.construction]

BuildOn(c, b) ==
  /\ b \in [status : {b.status}, cache : {b.cache}, g : {b.g}, refs : {b.refs}]
  /\ SameContributions(c, b.cache)

\* A cache that differs in its construction states holds the same slices.
LEMMA SameContributionsKeep ==
  ASSUME NEW c, CacheShape(c), NEW d, SameContributions(c, d)
  PROVE  /\ d.arena = c.arena /\ d.sources = c.sources /\ d.statistics = c.statistics
         /\ d.complete = c.complete
BY DEF CacheShape, SameContributions

\* A declaration of the type pass keeps the captured contributions.
LEMMA DeclareFullOn ==
  ASSUME NEW c, CacheShape(c), NEW b, BuildOn(c, b), NEW i
  PROVE  BuildOn(c, DeclareFull(b, i))
BY ZenonT(30) DEF CacheShape, SameContributions, BuildOn, DeclareFull

\* A TypeRef keeps the captured contributions.
LEMMA WithTypeRefOn ==
  ASSUME NEW c, CacheShape(c), NEW b, BuildOn(c, b), NEW f, NEW r
  PROVE  BuildOn(c, WithTypeRef(b, f, r))
BY Zenon DEF CacheShape, SameContributions, BuildOn, WithTypeRef

\* A definition keeps the captured contributions.
LEMMA DefineFullOn ==
  ASSUME NEW c, CacheShape(c), NEW b, BuildOn(c, b), NEW i
  PROVE  BuildOn(c, DefineFull(b, i))
<1> DEFINE t == b.cache.arena["types"][i]
           r == DefineFull(b, i)
<1>1. b \in [status : {b.status}, cache : {b.cache}, g : {b.g}, refs : {b.refs}]
  BY DEF BuildOn
<1>2. r \in [status : {r.status}, cache : {b.cache}, g : {r.g}, refs : {b.refs}]
  <2>1. CASE b.status # "ok" \/ ~t.definition
    BY <1>1, <2>1, Zenon DEF DefineFull
  <2>2. CASE b.status = "ok" /\ t.definition /\ t.kind = "record"
    BY <1>1, <2>2, Zenon DEF DefineFull
  <2>3. CASE b.status = "ok" /\ t.definition /\ t.kind # "record"
    BY <1>1, <2>3, ZenonT(30) DEF DefineFull
  <2> QED BY <2>1, <2>2, <2>3
<1> HIDE DEF r
<1>3. r.cache = b.cache /\ r.refs = b.refs
  BY <1>2
<1> QED BY <1>2, <1>3 DEF BuildOn, r

\* A link keeps the captured contributions.
LEMMA LinkFullOn ==
  ASSUME NEW c, CacheShape(c), NEW b, BuildOn(c, b), NEW l
  PROVE  BuildOn(c, LinkFull(b, l))
BY Zenon DEF CacheShape, SameContributions, BuildOn, LinkFull

ArenaSeqs(arena) == arena = [f \in Arenas |-> arena[f]] /\ \A f \in Arenas : IsSeq(arena[f])

\* Placing the objects keeps the captured contributions.
LEMMA PlaceObjectsOn ==
  ASSUME NEW c, CacheShape(c), NEW b, BuildOn(c, b)
  PROVE  BuildOn(c, PlaceObjects(b))
BY Zenon DEF CacheShape, SameContributions, BuildOn, PlaceObjects

\* Sealing and validating keep the captured contributions.
LEMMA SealFullOn ==
  ASSUME NEW c, CacheShape(c), NEW b, BuildOn(c, b)
  PROVE  BuildOn(c, SealFull(b)) /\ BuildOn(c, Validated(b))
BY DEF CacheShape, SameContributions, BuildOn, SealFull, Validated

----------------------------------------------------------------------------
(* Slices of the arenas. *)

Slices == [Arenas -> [begin : Nat, count : Nat]]
Begins(slice) == [a \in Arenas |-> slice[a].begin]

Stored(arena, slice, f) ==
  /\ slice \in Slices
  /\ \A a \in Arenas : /\ slice[a].count = Length(f[a])
                       /\ slice[a].begin + Length(f[a]) <= Length(arena[a])
  /\ \A a \in Arenas : \A i \in 1..Length(f[a]) :
       arena[a][slice[a].begin + i] = Appended(f, Begins(slice))[a][i]

\* The arenas of valid facts are sequences.
LEMMA FactsSeqs ==
  ASSUME NEW f, ValidFacts(f)
  PROVE  \A a \in Arenas : IsSeq(f[a]) /\ Length(f[a]) \in Nat /\ DOMAIN f[a] = 1..Length(f[a])
<1>1. \A a \in Arenas : IsSeq(f[a])
  BY DEF ValidFacts, IsSeq
<1> QED BY <1>1, LengthSeq

\* The rebased records are as many as the facts have.
LEMMA AppendedSeqs ==
  ASSUME NEW f, ValidFacts(f), NEW base
  PROVE  /\ ArenaSeqs(Appended(f, base))
         /\ \A a \in Arenas : Length(Appended(f, base)[a]) = Length(f[a])
<1> DEFINE A == Appended(f, base)
<1>1. A = [a \in Arenas |-> A[a]]
  BY DEF Appended
<1>2. ASSUME NEW a \in Arenas PROVE IsSeq(A[a]) /\ Length(A[a]) = Length(f[a])
  <2>1. IsSeq(f[a]) /\ Length(f[a]) \in Nat /\ DOMAIN f[a] = 1..Length(f[a])
    BY FactsSeqs
  <2>2. A[a] = [i \in 1..Length(f[a]) |-> A[a][i]]
    <3>1. CASE a = "types"
      BY <2>1, <3>1 DEF Appended
    <3>2. CASE a \in {"members", "objects"}
      BY <2>1, <3>2, Zenon DEF Appended
    <3>3. CASE a \notin {"types", "members", "objects"}
      <4>1. A[a] = f[a]
        BY <3>3 DEF Appended
      <4> QED BY <2>1, <4>1, LengthSeq, Zenon
    <3> QED BY <3>1, <3>2, <3>3
  <2> HIDE DEF A
  <2> QED BY <2>1, <2>2, FunctionIsSeq DEF Length
<1> QED BY <1>1, <1>2 DEF ArenaSeqs

\* The records of joined arenas.
LEMMA JoinedAt ==
  ASSUME NEW arena, NEW tail, ArenaSeqs(arena), ArenaSeqs(tail), NEW a \in Arenas
  PROVE  /\ IsSeq(Joined(arena, tail)[a])
         /\ Length(Joined(arena, tail)[a]) = Length(arena[a]) + Length(tail[a])
         /\ Length(arena[a]) \in Nat /\ Length(tail[a]) \in Nat
         /\ \A i \in 1..(Length(arena[a]) + Length(tail[a])) :
              Joined(arena, tail)[a][i] =
                IF i <= Length(arena[a]) THEN arena[a][i] ELSE tail[a][i - Length(arena[a])]
<1>1. Joined(arena, tail)[a] = arena[a] \o tail[a]
  BY Zenon DEF Joined
<1>2. IsSeq(arena[a]) /\ IsSeq(tail[a])
  BY DEF ArenaSeqs
<1>3. Length(arena[a]) \in Nat /\ Length(tail[a]) \in Nat
  BY <1>2, LengthSeq
<1>4. /\ IsSeq(arena[a] \o tail[a])
      /\ Length(arena[a] \o tail[a]) = Length(arena[a]) + Length(tail[a])
      /\ \A i \in 1..(Length(arena[a]) + Length(tail[a])) :
           (arena[a] \o tail[a])[i] =
             IF i <= Length(arena[a]) THEN arena[a][i] ELSE tail[a][i - Length(arena[a])]
  BY <1>2, JoinSeq, Zenon
<1> QED BY <1>1, <1>3, <1>4, Zenon

\* Joined arenas are arenas.
LEMMA JoinedSeqs ==
  ASSUME NEW arena, NEW tail, ArenaSeqs(arena), ArenaSeqs(tail)
  PROVE  ArenaSeqs(Joined(arena, tail))
<1>1. Joined(arena, tail) = [a \in Arenas |-> Joined(arena, tail)[a]]
  BY Zenon DEF Joined
<1>2. \A a \in Arenas : IsSeq(Joined(arena, tail)[a])
  BY JoinedAt
<1> QED BY <1>1, <1>2 DEF ArenaSeqs

\* Joining arenas is associative.
LEMMA JoinedAssociative ==
  ASSUME NEW arena, NEW tail, NEW more, ArenaSeqs(arena), ArenaSeqs(tail), ArenaSeqs(more)
  PROVE  Joined(Joined(arena, tail), more) = Joined(arena, Joined(tail, more))
<1>1. ASSUME NEW a \in Arenas
      PROVE  (arena[a] \o tail[a]) \o more[a] = arena[a] \o (tail[a] \o more[a])
  BY JoinAssociative DEF ArenaSeqs
<1> QED BY <1>1, Zenon DEF Joined

\* A slice stays what it is when the arenas grow.
LEMMA StoredGrows ==
  ASSUME NEW arena, NEW tail, ArenaSeqs(arena), ArenaSeqs(tail), NEW slice,
         NEW f, ValidFacts(f), Stored(arena, slice, f)
  PROVE  Stored(Joined(arena, tail), slice, f)
<1> DEFINE A == Appended(f, Begins(slice))
<1>1. \A a \in Arenas : \A i \in 1..Length(f[a]) : arena[a][slice[a].begin + i] = A[a][i]
  BY DEF Stored
<1> HIDE DEF A
<1>2. ASSUME NEW a \in Arenas
      PROVE  /\ slice[a].begin + Length(f[a]) <= Length(Joined(arena, tail)[a])
             /\ \A i \in 1..Length(f[a]) : Joined(arena, tail)[a][slice[a].begin + i] = A[a][i]
  <2>1. /\ Length(Joined(arena, tail)[a]) = Length(arena[a]) + Length(tail[a])
        /\ Length(arena[a]) \in Nat /\ Length(tail[a]) \in Nat
        /\ \A i \in 1..(Length(arena[a]) + Length(tail[a])) :
             Joined(arena, tail)[a][i] =
               IF i <= Length(arena[a]) THEN arena[a][i] ELSE tail[a][i - Length(arena[a])]
    BY JoinedAt
  <2>2. slice[a].begin \in Nat /\ Length(f[a]) \in Nat
    BY FactsSeqs DEF Stored, Slices
  <2>3. slice[a].begin + Length(f[a]) <= Length(arena[a])
    BY DEF Stored
  <2>4. \A i \in 1..Length(f[a]) : slice[a].begin + i \in 1..Length(arena[a])
    BY <2>1, <2>2, <2>3
  <2>5. slice[a].begin + Length(f[a]) <= Length(Joined(arena, tail)[a])
    BY <2>1, <2>2, <2>3
  <2> QED BY <1>1, <2>1, <2>4, <2>5
<1> QED BY <1>2 DEF Stored, A

\* The slice of freshly appended records.
LEMMA StoredNew ==
  ASSUME NEW arena, ArenaSeqs(arena), NEW f, ValidFacts(f)
  PROVE  Stored(Joined(arena, Appended(f, Sizes(arena))), SliceOf(f, Sizes(arena)), f)
<1> DEFINE base == Sizes(arena)
           T == Appended(f, base)
           slice == SliceOf(f, base)
<1>0. ArenaSeqs(T) /\ \A a \in Arenas : Length(T[a]) = Length(f[a])
  BY AppendedSeqs
<1>1. ASSUME NEW a \in Arenas
      PROVE  /\ base[a] = Length(arena[a]) /\ Length(arena[a]) \in Nat /\ Length(f[a]) \in Nat
             /\ slice[a].begin = Length(arena[a]) /\ slice[a].count = Length(f[a])
             /\ slice[a] \in [begin : Nat, count : Nat]
  <2>1. IsSeq(arena[a])
    BY DEF ArenaSeqs
  <2>2. base[a] = Length(arena[a]) /\ slice[a] = [begin |-> base[a], count |-> Length(f[a])]
    BY DEF Sizes, SliceOf, Length
  <2>3. Length(arena[a]) \in Nat /\ Length(f[a]) \in Nat
    BY <2>1, LengthSeq, FactsSeqs
  <2> HIDE DEF slice, base
  <2> QED BY <2>2, <2>3
<1>2. slice \in Slices
  <2>1. slice = [a \in Arenas |-> slice[a]]
    BY DEF SliceOf
  <2> HIDE DEF slice
  <2> QED BY <1>1, <2>1 DEF Slices
<1>3. Begins(slice) = base
  <2> HIDE DEF slice, base
  <2>1. Begins(slice) = [a \in Arenas |-> Length(arena[a])]
    BY <1>1 DEF Begins
  <2> QED BY <2>1 DEF Sizes, base, Length
<1> HIDE DEF T, slice, base
<1>5. ASSUME NEW a \in Arenas
      PROVE  /\ slice[a].count = Length(f[a])
             /\ slice[a].begin + Length(f[a]) <= Length(Joined(arena, T)[a])
             /\ \A i \in 1..Length(f[a]) : Joined(arena, T)[a][slice[a].begin + i] = T[a][i]
  <2>1. /\ Length(Joined(arena, T)[a]) = Length(arena[a]) + Length(T[a])
        /\ \A i \in 1..(Length(arena[a]) + Length(T[a])) :
             Joined(arena, T)[a][i] =
               IF i <= Length(arena[a]) THEN arena[a][i] ELSE T[a][i - Length(arena[a])]
    BY <1>0, JoinedAt
  <2>2. ASSUME NEW i \in 1..Length(f[a])
        PROVE  Joined(arena, T)[a][slice[a].begin + i] = T[a][i]
    <3> DEFINE k == slice[a].begin + i
    <3>1. /\ k \in 1..(Length(arena[a]) + Length(T[a]))
          /\ ~(k <= Length(arena[a])) /\ k - Length(arena[a]) = i
      BY <1>0, <1>1
    <3> HIDE DEF k
    <3>2. Joined(arena, T)[a][k] = T[a][k - Length(arena[a])]
      BY <2>1, <3>1
    <3> QED BY <3>1, <3>2, Zenon DEF k
  <2> QED BY <1>0, <1>1, <2>1, <2>2
<1>7. Stored(Joined(arena, T), slice, f)
  BY <1>2, <1>3, <1>5 DEF Stored, T
<1> QED BY <1>7 DEF T, slice, base

\* What a type reference in an arena says: a base and a range of modifiers.
TypeOk(t) == (t.identity # NoIdentity \/ t.intrinsic \in Intrinsics) /\ t.modifiers \in Ranges

\* What the passes of a build rely on in a record of an arena, stale or not.
RecordOk(a, x) ==
  CASE a = "types" -> x.items \in Ranges
    [] a \in {"members", "objects"} -> TypeOk(x.type)
    [] a = "links" -> "object" \in DOMAIN x.source
    [] OTHER -> TRUE

ArenaOk(arena) == \A a \in Arenas : \A i \in 1..Length(arena[a]) : RecordOk(a, arena[a][i])

\* A reference of validated facts stays well formed when it is rebased.
LEMMA RebasedTypeOk ==
  ASSUME NEW t, NEW f, ValidReference(t, f), NEW base, base["modifiers"] \in Nat
  PROVE  TypeOk(RebasedType(t, base))
<1>1. /\ t \in [identity : {t.identity}, intrinsic : Intrinsics \cup {"none"}, modifiers : Ranges]
      /\ (t.identity = NoIdentity) # (t.intrinsic = "none")
  BY DEF ValidReference
<1>2. PICK d : d = RebasedType(t, base)
  OBVIOUS
<1>3. d.identity = t.identity /\ d.intrinsic = t.intrinsic
  BY <1>1, <1>2 DEF RebasedType
<1>4. d.modifiers \in Ranges
  BY <1>1, <1>2 DEF RebasedType, Ranges
<1> QED BY <1>1, <1>2, <1>3, <1>4 DEF TypeOk

\* The records that valid facts append are well formed.
LEMMA AppendedOk ==
  ASSUME NEW f, ValidFacts(f), NEW base, \A a \in Arenas : base[a] \in Nat
  PROVE  ArenaOk(Appended(f, base))
<1>0. /\ "types" \in Arenas /\ "members" \in Arenas /\ "modifiers" \in Arenas
      /\ "objects" \in Arenas /\ "links" \in Arenas /\ "enum_values" \in Arenas
  BY DEF Arenas
<1>1. ASSUME NEW a \in Arenas, NEW i \in 1..Length(f[a])
      PROVE  RecordOk(a, Appended(f, base)[a][i])
  <2>1. i \in DOMAIN f[a]
    BY FactsSeqs
  <2>2. CASE a = "types"
    <3>1. PICK t : t = f.types[i]
      OBVIOUS
    <3>2. ValidType(t, f)
      BY <2>1, <2>2, <3>1 DEF ValidFacts
    <3>3. Appended(f, base)[a][i] = RebasedDeclaration(t, base)
      BY <2>1, <2>2, <3>1, <1>0 DEF Appended
    <3>4. t \in [identity : {t.identity}, kind : {"record", "enumeration"},
                 record_kind : {"struct", "class", "union"}, scoped : BOOLEAN,
                 underlying : {t.underlying}, definition : BOOLEAN, items : Ranges, bases : BOOLEAN]
      BY <3>2 DEF ValidType
    <3>5. RebasedDeclaration(t, base).items \in Ranges
      <4>1. PICK n \in Nat : n = base[IF t.kind = "record" THEN "members" ELSE "enum_values"]
        BY <1>0
      <4>2. RebasedDeclaration(t, base) = [t EXCEPT !.items = [t.items EXCEPT !.begin = t.items.begin + n]]
        BY <3>4, <4>1 DEF RebasedDeclaration
      <4>3. [t.items EXCEPT !.begin = t.items.begin + n] \in Ranges
        BY <3>4 DEF Ranges
      <4> QED BY <3>4, <4>2, <4>3
    <3> QED BY <2>2, <3>3, <3>5 DEF RecordOk
  <2>3. CASE a \in {"members", "objects"}
    <3>1. PICK x : x = f[a][i]
      OBVIOUS
    <3>2. ValidReference(x.type, f) /\ x = [x EXCEPT !.type = x.type] /\ "type" \in DOMAIN x
      BY <2>1, <2>3, <3>1 DEF ValidFacts
    <3>3. Appended(f, base)[a][i] = [x EXCEPT !.type = RebasedType(x.type, base)]
      BY <2>1, <2>3, <3>1 DEF Appended
    <3>4. TypeOk(RebasedType(x.type, base))
      BY <1>0, <3>2, RebasedTypeOk
    <3>5. Appended(f, base)[a][i].type = RebasedType(x.type, base)
      BY <3>2, <3>3
    <3> QED BY <2>3, <3>4, <3>5 DEF RecordOk
  <2>4. CASE a = "links"
    <3>1. PICK x : x = f.links[i]
      OBVIOUS
    <3>2. x.source \in [object : {x.source.object}, member : Nat]
      BY <2>1, <2>4, <3>1 DEF ValidFacts, ValidEndpoint
    <3>3. Appended(f, base)[a][i] = x
      BY <2>4, <3>1, <1>0 DEF Appended
    <3>4. "object" \in DOMAIN x.source
      BY <3>2
    <3> QED BY <2>4, <3>3, <3>4 DEF RecordOk
  <2> QED BY <2>2, <2>3, <2>4 DEF RecordOk
<1>2. \A a \in Arenas : Length(Appended(f, base)[a]) = Length(f[a])
  BY AppendedSeqs
<1> QED BY <1>1, <1>2 DEF ArenaOk

\* Joined arenas hold the records of both.
LEMMA JoinedOk ==
  ASSUME NEW arena, NEW tail, ArenaSeqs(arena), ArenaSeqs(tail), ArenaOk(arena), ArenaOk(tail)
  PROVE  ArenaOk(Joined(arena, tail))
<1>1. ASSUME NEW a \in Arenas, NEW i \in 1..Length(Joined(arena, tail)[a])
      PROVE  RecordOk(a, Joined(arena, tail)[a][i])
  <2>1. /\ Length(Joined(arena, tail)[a]) = Length(arena[a]) + Length(tail[a])
        /\ Length(arena[a]) \in Nat /\ Length(tail[a]) \in Nat
        /\ \A j \in 1..(Length(arena[a]) + Length(tail[a])) :
             Joined(arena, tail)[a][j] =
               IF j <= Length(arena[a]) THEN arena[a][j] ELSE tail[a][j - Length(arena[a])]
    BY JoinedAt
  <2>2. CASE i <= Length(arena[a])
    BY <2>1, <2>2 DEF ArenaOk
  <2>3. CASE i > Length(arena[a])
    <3>1. i - Length(arena[a]) \in 1..Length(tail[a])
      BY <2>1, <2>3
    <3> QED BY <2>1, <2>3, <3>1 DEF ArenaOk
  <2> QED BY <2>1, <2>2, <2>3
<1> QED BY <1>1 DEF ArenaOk

\* The empty arenas, and where the next records of an arena go.
LEMMA EmptyArenaOk == ArenaOk(EmptyArena)
<1>1. \A a \in Arenas : Length(EmptyArena[a]) = 0
  BY EmptyIsSeq DEF EmptyArena, Length
<1> QED BY <1>1 DEF ArenaOk

\* The arena sizes are natural numbers.
LEMMA SizesNat ==
  ASSUME NEW arena, ArenaSeqs(arena)
  PROVE  \A a \in Arenas : Sizes(arena)[a] = Length(arena[a]) /\ Length(arena[a]) \in Nat
BY LengthSeq DEF ArenaSeqs, Sizes, Length

----------------------------------------------------------------------------
(* Capturing the facts of a full build. *)

\* How many records of an arena each Source contributes.
Weight(sources, a) ==
  [s \in Sources |-> IF sources[s] = NoState THEN 0 ELSE sources[s][a].count]

StatisticsShape(x) == x = [f \in Arenas \cup {"sources"} |-> x[f]]

\* The records of a cache that counts what its Sources contribute.
CacheOk(c) ==
  /\ CacheShape(c) /\ ArenaSeqs(c.arena) /\ ArenaOk(c.arena)
  /\ c.sources \in [Sources -> Slices \cup {NoState}]
  /\ StatisticsShape(c.statistics)
  /\ \A a \in Arenas : c.statistics[a] = SumSeq(Weight(c.sources, a))

\* The Sources are the numbers from 1 on.
LEMMA SourcesAreInterval ==
  /\ Cardinality(Sources) \in Nat /\ Sources = 1..Cardinality(Sources)
  /\ \A s \in Sources : s \in Nat
BY SourcesAreIds, FS_CardinalityType

\* The state of a Source without contribution is not a slice.
LEMMA SlicesAreStates == NoState \notin Slices
BY NoStateIsNone DEF Slices

\* Contributions are counted by integers.
LEMMA WeightInt ==
  ASSUME NEW sources \in [Sources -> Slices \cup {NoState}], NEW a \in Arenas
  PROVE  Weight(sources, a) \in [Sources -> Int]
<1>1. ASSUME NEW s \in Sources
      PROVE  (IF sources[s] = NoState THEN 0 ELSE sources[s][a].count) \in Int
  <2>1. CASE sources[s] = NoState
    BY <2>1
  <2>2. CASE sources[s] # NoState
    <3>1. sources[s] \in Slices
      BY <2>2
    <3>2. sources[s][a] \in [begin : Nat, count : Nat]
      BY <3>1 DEF Slices
    <3> QED BY <2>2, <3>2
  <2> QED BY <2>1, <2>2
<1> QED BY <1>1 DEF Weight

\* The first m Sources of order are captured, the others contribute nothing.
Captured(c, fs, order, m) ==
  /\ CacheOk(c) /\ c.construction = <<>>
  /\ \A a \in Arenas : c.statistics[a] = Length(c.arena[a])
  /\ \A i \in 1..m : Stored(c.arena, c.sources[order[i]], fs[order[i]])
  /\ \A s \in Sources : (\A i \in 1..m : order[i] # s) => c.sources[s] = NoState

\* A detached cache begins with nothing captured.
LEMMA EmptyCacheCaptures ==
  ASSUME NEW fs, NEW order
  PROVE  Captured(EmptyCache(Sources), fs, order, 0)
<1> DEFINE c == EmptyCache(Sources)
<1>1. /\ CacheShape(c) /\ c.arena = EmptyArena /\ c.sources = [s \in Sources |-> NoState]
      /\ c.statistics = [f \in Arenas \cup {"sources"} |-> 0] /\ c.construction = <<>>
  BY DEF EmptyCache, CacheShape
<1> HIDE DEF c
<1>2. ArenaSeqs(c.arena) /\ \A a \in Arenas : Length(c.arena[a]) = 0
  BY <1>1, EmptyIsSeq DEF ArenaSeqs, EmptyArena, Length
<1>3. ASSUME NEW a \in Arenas PROVE SumSeq(Weight(c.sources, a)) = 0
  <2>1. DOMAIN Weight(c.sources, a) = Sources
        /\ \A s \in Sources : Weight(c.sources, a)[s] = 0
    BY <1>1 DEF Weight
  <2> QED BY <2>1, SumOfZeros, SourcesAreInterval
<1>4. CacheOk(c)
  BY <1>1, <1>2, <1>3, EmptyArenaOk DEF CacheOk, StatisticsShape
<1> QED BY <1>1, <1>2, <1>4 DEF Captured, c

\* What replace() writes, field by field.
LEMMA ReplaceFullIs ==
  ASSUME NEW c, CacheOk(c), NEW s \in Sources, NEW f, ValidFacts(f)
  PROVE  /\ CacheShape(ReplaceFull(c, s, f))
         /\ ReplaceFull(c, s, f).arena = Joined(c.arena, Appended(f, Sizes(c.arena)))
         /\ ReplaceFull(c, s, f).sources = [c.sources EXCEPT ![s] = SliceOf(f, Sizes(c.arena))]
         /\ ReplaceFull(c, s, f).construction = c.construction /\ ReplaceFull(c, s, f).complete = c.complete
         /\ StatisticsShape(ReplaceFull(c, s, f).statistics)
         /\ \A a \in Arenas : ReplaceFull(c, s, f).statistics[a] = Length(c.arena[a]) + Length(f[a])
<1> DEFINE d == ReplaceFull(c, s, f)
<1>1. CacheShape(c) /\ DOMAIN c.statistics = Arenas \cup {"sources"}
  BY DEF CacheOk, StatisticsShape
<1> DEFINE st == [g \in Arenas \cup {"sources"} |->
                    IF g = "sources" THEN c.statistics[g] + 1
                    ELSE Sizes(c.arena)[g] + Len(f[g])]
<1>2. d = [c EXCEPT !.arena = Joined(c.arena, Appended(f, Sizes(c.arena))),
                    !.sources = [c.sources EXCEPT ![s] = SliceOf(f, Sizes(c.arena))],
                    !.statistics = st]
  BY <1>1 DEF ReplaceFull, CacheShape
<1>3. \A a \in Arenas : st[a] = Length(c.arena[a]) + Length(f[a])
  <2>1. \A a \in Arenas : a # "sources"
    BY DEF Arenas
  <2> QED BY <2>1, Zenon DEF Sizes, Length
<1>4. StatisticsShape(st)
  BY DEF StatisticsShape
<1> HIDE DEF st, d
<1>5. /\ CacheShape(d) /\ d.arena = Joined(c.arena, Appended(f, Sizes(c.arena)))
      /\ d.sources = [c.sources EXCEPT ![s] = SliceOf(f, Sizes(c.arena))]
      /\ d.construction = c.construction /\ d.complete = c.complete /\ d.statistics = st
  BY <1>1, <1>2, Zenon DEF CacheShape
<1> QED BY <1>3, <1>4, <1>5 DEF d

\* One more Source captured: its slice is stored, the earlier slices still
\* are.
LEMMA ReplaceFullCaptures ==
  ASSUME NEW k \in Nat, NEW order \in [1..k -> Sources],
         \A i, j \in 1..k : order[i] = order[j] => i = j,
         NEW fs, NEW m \in 0..(k-1), ValidFacts(fs[order[m+1]]),
         \A i \in 1..m : ValidFacts(fs[order[i]]),
         NEW c, Captured(c, fs, order, m)
  PROVE  Captured(ReplaceFull(c, order[m+1], fs[order[m+1]]), fs, order, m+1)
<1> DEFINE s == order[m+1]
           f == fs[order[m+1]]
<1>0. CacheOk(c) /\ s \in Sources /\ m \in Nat /\ ValidFacts(f)
  BY DEF Captured
<1> HIDE DEF s, f
<1>20. PICK d : d = ReplaceFull(c, s, f)
  OBVIOUS
<1> DEFINE base == Sizes(c.arena)
           T == Appended(f, base)
<1>1. /\ CacheShape(d) /\ d.arena = Joined(c.arena, Appended(f, Sizes(c.arena)))
      /\ d.sources = [c.sources EXCEPT ![s] = SliceOf(f, Sizes(c.arena))]
      /\ StatisticsShape(d.statistics) /\ d.construction = c.construction
      /\ \A a \in Arenas : d.statistics[a] = Length(c.arena[a]) + Length(f[a])
  BY <1>0, <1>20, ReplaceFullIs
<1>2. ArenaSeqs(c.arena) /\ ArenaSeqs(T) /\ \A a \in Arenas : Length(T[a]) = Length(f[a])
  BY <1>0, AppendedSeqs DEF CacheOk
<1>3. Stored(d.arena, SliceOf(f, base), f)
  BY <1>0, <1>1, <1>2, StoredNew
<1>4. c.sources \in [Sources -> Slices \cup {NoState}] /\ c.sources[s] = NoState
  <2>1. \A i \in 1..m : order[i] # s
    BY <1>0 DEF s
  <2> QED BY <1>0, <2>1 DEF Captured, CacheOk
<1> HIDE DEF base, T
<1>5. d.sources \in [Sources -> Slices \cup {NoState}] /\ d.sources[s] = SliceOf(f, base)
      /\ SliceOf(f, base) \in Slices
  BY <1>0, <1>1, <1>3, <1>4 DEF Stored, base
<1>6. ASSUME NEW a \in Arenas PROVE d.statistics[a] = Length(d.arena[a])
  BY <1>1, <1>2, JoinedAt DEF T, base
<1>7. ASSUME NEW a \in Arenas PROVE d.statistics[a] = SumSeq(Weight(d.sources, a))
  <2> DEFINE w == Weight(d.sources, a)
             v == Weight(c.sources, a)
  <2>1. w \in [Sources -> Int] /\ v \in [Sources -> Int]
    BY <1>4, <1>5, WeightInt, Zenon
  <2>2. v = [w EXCEPT ![s] = 0]
    BY <1>0, <1>1, <1>4, <2>1, Zenon DEF Weight
  <2>3. w[s] = Length(f[a])
    <3>1. SliceOf(f, base) # NoState
      BY <1>5, SlicesAreStates
    <3>2. SliceOf(f, base)[a].count = Length(f[a])
      BY <1>3 DEF Stored
    <3> QED BY <1>0, <1>5, <3>1, <3>2 DEF Weight
  <2> HIDE DEF w, v
  <2>4. SumSeq(w) = SumSeq(v) + w[s]
    <3>1. \A r \in Sources : SumSeq(w) = SumSeq([w EXCEPT ![r] = 0]) + w[r]
      BY <2>1, SumWithout, SourcesAreInterval, Zenon
    <3> QED BY <1>0, <2>2, <3>1, Zenon
  <2>5. SumSeq(v) = Length(c.arena[a])
    BY DEF Captured, CacheOk, v
  <2>6. d.statistics[a] = Length(c.arena[a]) + Length(f[a])
    BY <1>1
  <2> QED BY <2>3, <2>4, <2>5, <2>6 DEF w
<1>8. CacheOk(d)
  <2>1. ArenaSeqs(d.arena)
    BY <1>1, <1>2, JoinedSeqs DEF T, base
  <2>2. ArenaOk(d.arena)
    <3>1. ArenaOk(T)
      <4>1. \A a \in Arenas : base[a] \in Nat
        BY <1>2, SizesNat DEF base
      <4> QED BY <1>0, <4>1, AppendedOk DEF T
    <3>2. ArenaOk(c.arena)
      BY <1>0 DEF CacheOk
    <3> QED BY <1>1, <1>2, <3>1, <3>2, JoinedOk DEF T, base
  <2> QED BY <1>1, <1>5, <1>7, <2>1, <2>2 DEF CacheOk
<1>9. ASSUME NEW i \in 1..(m+1) PROVE Stored(d.arena, d.sources[order[i]], fs[order[i]])
  <2>1. CASE i = m + 1
    BY <1>3, <1>5, <2>1 DEF s, f
  <2>2. CASE i # m + 1
    <3>1. i \in 1..m /\ i \in 1..k /\ m + 1 \in 1..k
      BY <1>0, <2>2
    <3>2. order[i] # s /\ order[i] \in Sources
      BY <2>2, <3>1 DEF s
    <3>3. Stored(c.arena, c.sources[order[i]], fs[order[i]])
      BY <3>1 DEF Captured
    <3>4. d.sources[order[i]] = c.sources[order[i]]
      BY <1>1, <1>4, <3>2
    <3> QED BY <1>1, <1>2, <3>1, <3>3, <3>4, StoredGrows DEF T, base
  <2> QED BY <2>1, <2>2
<1>10. ASSUME NEW r \in Sources, \A i \in 1..(m+1) : order[i] # r PROVE d.sources[r] = NoState
  <2>1. r # s /\ \A i \in 1..m : order[i] # r
    BY <1>0, <1>10 DEF s
  <2> QED BY <1>1, <1>4, <2>1 DEF Captured
<1>11. d.construction = <<>>
  BY <1>1 DEF Captured
<1> QED BY <1>6, <1>8, <1>9, <1>10, <1>11, <1>20 DEF Captured, f, s

\* All Sources of the order are captured.
LEMMA CaptureFullCaptures ==
  ASSUME NEW k \in Nat, NEW order \in [1..k -> Sources],
         \A i, j \in 1..k : order[i] = order[j] => i = j,
         NEW fs, DOMAIN fs = Sources, \A i \in 1..k : ValidFacts(fs[order[i]])
  PROVE  Captured(CaptureFull(fs, order), fs, order, k)
<1>1. PICK tr : Traced(tr, "capture", <<fs>>, EmptyCache(DOMAIN fs), order, k,
                       CaptureFull(fs, order))
  BY CaptureFullTrace
<1> DEFINE S == {m \in 0..k : Captured(tr[m], fs, order, m)}
<1>2. 0 \in S
  BY <1>1, EmptyCacheCaptures DEF Traced
<1>3. ASSUME NEW m \in 0..(k-1), m \in S PROVE m + 1 \in S
  <2>1. m + 1 \in 1..k /\ m + 1 \in 0..k /\ m + 1 - 1 = m
    OBVIOUS
  <2>2. tr[m+1] = ReplaceFull(tr[m], order[m+1], fs[order[m+1]])
    BY <1>1, <2>1 DEF Traced, Step
  <2>3. \A i \in 1..m : ValidFacts(fs[order[i]])
    OBVIOUS
  <2>4. ValidFacts(fs[order[m+1]])
    BY <2>1
  <2>5. Captured(tr[m], fs, order, m)
    BY <1>3
  <2>6. Captured(ReplaceFull(tr[m], order[m+1], fs[order[m+1]]), fs, order, m+1)
    BY <2>3, <2>4, <2>5, ReplaceFullCaptures, Zenon
  <2> QED BY <2>1, <2>2, <2>6
<1>4. k \in S
  <2> HIDE DEF S
  <2>1. 0..k \subseteq S
    BY <1>2, <1>3, SetInduction, Zenon
  <2> QED BY <2>1
<1> QED BY <1>1, <1>4 DEF Traced

\* What the cache holds is what the facts say.
Contributes(c, fs) ==
  /\ CacheOk(c)
  /\ \A s \in Sources : IF fs[s] = Absent THEN c.sources[s] = NoState
                        ELSE Stored(c.arena, c.sources[s], fs[s])

\* A capture of all present Sources holds what the facts say.
LEMMA CapturedContributes ==
  ASSUME NEW fs, DOMAIN fs = Sources, \A s \in Present(fs) : ValidFacts(fs[s])
  PROVE  /\ Contributes(CaptureFull(fs, Ordered(Present(fs))), fs)
         /\ CaptureFull(fs, Ordered(Present(fs))).construction = <<>>
<1> DEFINE P == Present(fs)
           order == Ordered(P)
           k == Cardinality(P)
           c == CaptureFull(fs, order)
<1>1. P \in SUBSET Sources /\ \A s \in Sources : s \in P <=> fs[s] # Absent
  BY DEF Present
<1> HIDE DEF P
<1>2. /\ k \in Nat /\ order \in [1..k -> P]
      /\ \A i, j \in 1..k : order[i] = order[j] => i = j
      /\ \A s \in P : \E i \in 1..k : order[i] = s
  BY <1>1, OrderedLists
<1> HIDE DEF order, k
<1>3. order \in [1..k -> Sources] /\ \A i \in 1..k : ValidFacts(fs[order[i]])
  BY <1>1, <1>2 DEF P
<1>4. Captured(c, fs, order, k)
  BY <1>2, <1>3, CaptureFullCaptures
<1> HIDE DEF c
<1>5. ASSUME NEW s \in Sources
      PROVE  IF fs[s] = Absent THEN c.sources[s] = NoState
             ELSE Stored(c.arena, c.sources[s], fs[s])
  <2>1. CASE fs[s] = Absent
    <3>1. \A i \in 1..k : order[i] # s
      BY <1>1, <1>2, <2>1
    <3> QED BY <1>4, <2>1, <3>1 DEF Captured
  <2>2. CASE fs[s] # Absent
    <3>1. PICK i \in 1..k : order[i] = s
      BY <1>1, <1>2, <2>2
    <3>2. Stored(c.arena, c.sources[order[i]], fs[order[i]])
      BY <1>4 DEF Captured
    <3> QED BY <2>2, <3>1, <3>2
  <2> QED BY <2>1, <2>2
<1>6. CacheOk(c) /\ c.construction = <<>>
  BY <1>4 DEF Captured
<1> QED BY <1>5, <1>6 DEF Contributes, c, order, P

\* Contributes reads only the arenas, the slices and the statistics.
LEMMA ContributesKeep ==
  ASSUME NEW fs, NEW c, Contributes(c, fs), NEW d, CacheShape(d),
         d.arena = c.arena, d.sources = c.sources, d.statistics = c.statistics
  PROVE  Contributes(d, fs)
BY DEF Contributes, CacheOk

----------------------------------------------------------------------------
(* A stored slice says what the facts say. *)

\* SpanSeq, for the opaque length.
LEMMA SpanLength ==
  ASSUME NEW v, IsSeq(v), NEW r, r.begin \in Nat, r.count \in Nat,
         r.begin + r.count <= Length(v)
  PROVE  Span(v, r) = [i \in 1..r.count |-> v[r.begin + i]]
BY SpanSeq DEF Length

Zero == [a \in Arenas |-> 0]

\* A range of the facts reads in the arenas, once rebased, what it reads in the facts.
LEMMA SpanOfStored ==
  ASSUME NEW arena, ArenaSeqs(arena), NEW f, ValidFacts(f), NEW slice, Stored(arena, slice, f),
         NEW a \in Arenas, NEW r \in Ranges, Within(r, f[a]),
         NEW p, p.begin = r.begin + slice[a].begin, p.count = r.count
  PROVE  /\ Span(arena[a], p) = [i \in 1..r.count |-> Appended(f, Begins(slice))[a][r.begin + i]]
         /\ Span(f[a], r) = [i \in 1..r.count |-> f[a][r.begin + i]]
<1>1. /\ IsSeq(f[a]) /\ Length(f[a]) \in Nat /\ IsSeq(arena[a])
      /\ slice[a].begin \in Nat /\ r.begin \in Nat /\ r.count \in Nat
      /\ slice[a].begin + Length(f[a]) <= Length(arena[a])
      /\ r.begin + r.count <= Length(f[a])
  BY FactsSeqs DEF ArenaSeqs, Stored, Slices, Ranges, Within, Length
<1>2. Span(f[a], r) = [i \in 1..r.count |-> f[a][r.begin + i]]
  <2>1. PICK v : v = f[a]
    OBVIOUS
  <2>2. IsSeq(v) /\ r.begin \in Nat /\ r.count \in Nat /\ r.begin + r.count <= Length(v)
    BY <1>1, <2>1
  <2>3. Span(v, r) = [i \in 1..r.count |-> v[r.begin + i]]
    BY <2>2, SpanLength
  <2> QED BY <2>1, <2>3
<1>3. Length(arena[a]) \in Nat
  BY <1>1, LengthSeq
<1>4. /\ p.begin \in Nat /\ p.count \in Nat /\ p.begin + p.count <= Length(arena[a])
  BY <1>1, <1>3
<1>5. Span(arena[a], p) = [i \in 1..r.count |-> arena[a][p.begin + i]]
  <2>1. Span(arena[a], p) = [i \in 1..p.count |-> arena[a][p.begin + i]]
    <3>1. IsSeq(arena[a])
      BY <1>1
    <3>2. PICK v : v = arena[a]
      OBVIOUS
    <3>3. Span(v, p) = [i \in 1..p.count |-> v[p.begin + i]]
      BY <1>4, <3>1, <3>2, SpanLength
    <3> QED BY <3>2, <3>3
  <2> QED BY <1>1, <2>1
<1> DEFINE A == Appended(f, Begins(slice))
<1>6. \A i \in 1..Length(f[a]) : arena[a][slice[a].begin + i] = A[a][i]
  BY DEF Stored
<1> HIDE DEF A
<1>7. ASSUME NEW i \in 1..r.count PROVE arena[a][p.begin + i] = A[a][r.begin + i]
  <2>1. r.begin + i \in 1..Length(f[a]) /\ p.begin + i = slice[a].begin + (r.begin + i)
    BY <1>1
  <2> DEFINE k == r.begin + i
  <2>2. k \in 1..Length(f[a]) /\ p.begin + i = slice[a].begin + k
    BY <2>1
  <2> HIDE DEF k
  <2>3. arena[a][slice[a].begin + k] = A[a][k]
    BY <1>6, <2>2
  <2> QED BY <2>2, <2>3, Zenon DEF k
<1> QED BY <1>2, <1>5, <1>7 DEF A

\* All records of an arena that a Source contributed.
LEMMA RecordsOfStored ==
  ASSUME NEW arena, ArenaSeqs(arena), NEW f, ValidFacts(f), NEW slice, Stored(arena, slice, f),
         NEW a \in Arenas
  PROVE  /\ Length(f[a]) \in Nat
         /\ Span(arena[a], slice[a]) = [i \in 1..Length(f[a]) |-> Appended(f, Begins(slice))[a][i]]
         /\ Span(f[a], SliceOf(f, Zero)[a]) = [i \in 1..Length(f[a]) |-> f[a][i]]
<1> DEFINE r == [begin |-> 0, count |-> Length(f[a])]
<1>1. Length(f[a]) \in Nat /\ r \in Ranges /\ Within(r, f[a])
  BY FactsSeqs DEF Ranges, Within, Length
<1>2. slice[a].begin = r.begin + slice[a].begin /\ slice[a].count = r.count
  BY DEF Stored, Slices
<1>3. SliceOf(f, Zero)[a] = r
  BY DEF SliceOf, Zero, Length
<1>4. /\ Span(arena[a], slice[a])
           = [i \in 1..r.count |-> Appended(f, Begins(slice))[a][r.begin + i]]
      /\ Span(f[a], r) = [i \in 1..r.count |-> f[a][r.begin + i]]
  BY <1>1, <1>2, SpanOfStored
<1>5. \A i \in 1..Length(f[a]) : r.begin + i = i
  BY <1>1
<1> QED BY <1>1, <1>3, <1>4, <1>5

\* The items of a rebased declaration are the ones the facts gave it.
LEMMA ItemsOfStored ==
  ASSUME NEW arena, ArenaSeqs(arena), NEW f, ValidFacts(f), NEW slice, Stored(arena, slice, f),
         NEW t, ValidType(t, f), NEW a \in Arenas,
         a = IF t.kind = "record" THEN "members" ELSE "enum_values"
  PROVE  LET d == RebasedDeclaration(t, Begins(slice)) IN
         /\ d.kind = t.kind /\ d = [t EXCEPT !.items = d.items]
         /\ DOMAIN Span(arena[a], d.items) = DOMAIN Span(f[a], t.items)
         /\ \A k \in DOMAIN Span(f[a], t.items) :
              Span(arena[a], d.items)[k].name = Span(f[a], t.items)[k].name
<1> DEFINE base == Begins(slice)
           d == RebasedDeclaration(t, base)
           r == t.items
<1>1. /\ t \in [identity : {t.identity}, kind : {"record", "enumeration"},
             record_kind : {"struct", "class", "union"}, scoped : BOOLEAN,
             underlying : {t.underlying}, definition : BOOLEAN, items : Ranges, bases : BOOLEAN]
      /\ r \in Ranges /\ Within(r, f[a])
  BY DEF ValidType, Arenas
<1>2. base[a] = slice[a].begin
  BY DEF Begins
<1>3. /\ d.kind = t.kind /\ d = [t EXCEPT !.items = d.items]
      /\ d.items.begin = r.begin + slice[a].begin /\ d.items.count = r.count
  BY <1>1, <1>2 DEF RebasedDeclaration, Ranges
<1> HIDE DEF d, base
<1>4. /\ Span(arena[a], d.items)
           = [i \in 1..r.count |-> Appended(f, Begins(slice))[a][r.begin + i]]
      /\ Span(f[a], r) = [i \in 1..r.count |-> f[a][r.begin + i]]
  <2> HIDE DEF r
  <2> QED BY <1>1, <1>3, SpanOfStored
<1>5. ASSUME NEW k \in 1..r.count
      PROVE  Appended(f, Begins(slice))[a][r.begin + k].name = f[a][r.begin + k].name
  <2>1. IsSeq(f[a]) /\ Length(f[a]) \in Nat /\ DOMAIN f[a] = 1..Length(f[a])
    BY FactsSeqs
  <2>2. r.begin + k \in 1..Length(f[a])
    BY <1>1, <2>1 DEF Ranges, Within, Length
  <2> DEFINE j == r.begin + k
  <2>3. j \in DOMAIN f[a]
    BY <2>1, <2>2
  <2> HIDE DEF j
  <2>4. Appended(f, Begins(slice))[a][j].name = f[a][j].name
    <3>1. CASE a = "members"
      <4>1. f["members"][j] \in [name : {f["members"][j].name}, type : {f["members"][j].type}]
        BY <2>3, <3>1 DEF ValidFacts
      <4>2. Appended(f, Begins(slice))[a][j]
              = [f["members"][j] EXCEPT !.type = RebasedType(@, Begins(slice))]
        BY <2>3, <3>1 DEF Appended, Arenas
      <4> QED BY <3>1, <4>1, <4>2
    <3>2. CASE a = "enum_values"
      BY <3>2 DEF Appended, Arenas
    <3> QED BY <3>1, <3>2
  <2> QED BY <2>4 DEF j
<1>6. /\ DOMAIN Span(arena[a], d.items) = DOMAIN Span(f[a], r)
      /\ \A k \in DOMAIN Span(f[a], r) : Span(arena[a], d.items)[k].name = Span(f[a], r)[k].name
  <2> HIDE DEF r
  <2> QED BY <1>4, <1>5
<1> QED BY <1>3, <1>6 DEF d, base

\* The modifiers of a rebased type reference are the ones the facts gave it.
LEMMA ModifiersOfStored ==
  ASSUME NEW arena, ArenaSeqs(arena), NEW f, ValidFacts(f), NEW slice, Stored(arena, slice, f),
         NEW t, ValidReference(t, f)
  PROVE  LET d == RebasedType(t, Begins(slice)) IN
         /\ d = [t EXCEPT !.modifiers = d.modifiers]
         /\ Span(arena["modifiers"], d.modifiers) = Span(f["modifiers"], t.modifiers)
<1> DEFINE base == Begins(slice)
           d == RebasedType(t, base)
           r == t.modifiers
           a == "modifiers"
<1>1. /\ t \in [identity : {t.identity}, intrinsic : Intrinsics \cup {"none"}, modifiers : Ranges]
      /\ r \in Ranges /\ Within(r, f[a]) /\ a \in Arenas
  BY DEF ValidReference, Arenas
<1>2. base[a] = slice[a].begin
  BY <1>1 DEF Begins
<1>3. /\ d = [t EXCEPT !.modifiers = d.modifiers]
      /\ d.modifiers.begin = r.begin + slice[a].begin /\ d.modifiers.count = r.count
  BY <1>1, <1>2 DEF RebasedType, Ranges
<1> HIDE DEF d, base
<1>4. /\ Span(arena[a], d.modifiers)
           = [i \in 1..r.count |-> Appended(f, Begins(slice))[a][r.begin + i]]
      /\ Span(f[a], r) = [i \in 1..r.count |-> f[a][r.begin + i]]
  <2> HIDE DEF r, a
  <2> QED BY <1>1, <1>3, SpanOfStored
<1>5. Appended(f, Begins(slice))[a] = f[a]
  BY <1>1 DEF Appended
<1> QED BY <1>3, <1>4, <1>5 DEF d, base

\* One record as SpelledSlice spells it.
SpelledRecord(arena, a, record) ==
  LET items(t) == Span(arena[IF t.kind = "record" THEN "members" ELSE "enum_values"], t.items) IN
  CASE a = "types" -> [record EXCEPT !.items =
                         [k \in DOMAIN items(record) |-> items(record)[k].name]]
    [] a \in {"members", "objects"} ->
         [record EXCEPT !.type.modifiers = Span(arena["modifiers"], @)]
    [] OTHER -> record

\* SpelledSlice, record by record.
LEMMA SpelledSliceIs ==
  ASSUME NEW arena, NEW slice
  PROVE  SpelledSlice(arena, slice) =
           [a \in Arenas |-> [i \in DOMAIN Span(arena[a], slice[a]) |->
                                SpelledRecord(arena, a, Span(arena[a], slice[a])[i])]]
BY DEF SpelledSlice, SpelledRecord

\* A stored declaration says what the facts say.
LEMMA SpelledTypeStored ==
  ASSUME NEW arena, ArenaSeqs(arena), NEW f, ValidFacts(f), NEW slice, Stored(arena, slice, f),
         NEW t, ValidType(t, f)
  PROVE  SpelledRecord(arena, "types", RebasedDeclaration(t, Begins(slice)))
           = SpelledRecord(f, "types", t)
<1> DEFINE a == IF t.kind = "record" THEN "members" ELSE "enum_values"
           d == RebasedDeclaration(t, Begins(slice))
           old == Span(f[a], t.items)
           new == Span(arena[a], d.items)
<1>1. a \in Arenas
  BY DEF Arenas
<1>2. /\ d.kind = t.kind /\ d = [t EXCEPT !.items = d.items]
      /\ DOMAIN new = DOMAIN old
      /\ \A k \in DOMAIN old : new[k].name = old[k].name
  <2> HIDE DEF a
  <2>1. a = IF t.kind = "record" THEN "members" ELSE "enum_values"
    BY DEF a
  <2> QED BY <1>1, <2>1, ItemsOfStored
<1>3. SpelledRecord(f, "types", t) = [t EXCEPT !.items = [k \in DOMAIN old |-> old[k].name]]
  BY DEF SpelledRecord
<1>4. SpelledRecord(arena, "types", d) = [d EXCEPT !.items = [k \in DOMAIN new |-> new[k].name]]
  <2> HIDE DEF d
  <2> QED BY <1>2 DEF SpelledRecord
<1> HIDE DEF d, old, new
<1>5. [k \in DOMAIN new |-> new[k].name] = [k \in DOMAIN old |-> old[k].name]
  BY <1>2
<1>6. \A x : [d EXCEPT !.items = x] = [t EXCEPT !.items = x]
  BY <1>2 DEF ValidType
<1> QED BY <1>3, <1>4, <1>5, <1>6, Zenon DEF d

\* A stored member or object says what the facts say.
LEMMA SpelledTypedStored ==
  ASSUME NEW arena, ArenaSeqs(arena), NEW f, ValidFacts(f), NEW slice, Stored(arena, slice, f),
         NEW a \in Arenas, a \in {"members", "objects"}, NEW i \in 1..Length(f[a])
  PROVE  SpelledRecord(arena, a, Appended(f, Begins(slice))[a][i]) = SpelledRecord(f, a, f[a][i])
<1> DEFINE x == f[a][i]
           t == x.type
           d == RebasedType(t, Begins(slice))
<1>0. i \in DOMAIN f[a]
  BY FactsSeqs
<1>1. ValidReference(t, f)
  BY <1>0 DEF ValidFacts
<1>2. /\ d = [t EXCEPT !.modifiers = d.modifiers]
      /\ Span(arena["modifiers"], d.modifiers) = Span(f["modifiers"], t.modifiers)
  <2> HIDE DEF t
  <2> QED BY <1>1, ModifiersOfStored
<1>3. Appended(f, Begins(slice))[a][i] = [x EXCEPT !.type = d]
  BY <1>0 DEF Appended, Arenas
<1>4. \/ x \in [name : {x.name}, type : {x.type}]
      \/ x \in [identity : {x.identity}, type : {x.type}]
  BY <1>0 DEF ValidFacts
<1>5. t \in [identity : {t.identity}, intrinsic : Intrinsics \cup {"none"}, modifiers : Ranges]
  BY <1>1 DEF ValidReference
<1> HIDE DEF d, t, x
<1>6. SpelledRecord(f, a, x) = [x EXCEPT !.type.modifiers = Span(f["modifiers"], t.modifiers)]
  BY <1>4, <1>5 DEF SpelledRecord, t
<1>7. /\ [x EXCEPT !.type = d].type = d
      /\ \A y : [[x EXCEPT !.type = d] EXCEPT !.type = y] = [x EXCEPT !.type = y]
  BY <1>4, Zenon
<1>8. SpelledRecord(arena, a, [x EXCEPT !.type = d])
        = [x EXCEPT !.type = [d EXCEPT !.modifiers = Span(arena["modifiers"], d.modifiers)]]
  BY <1>4, <1>7, Zenon DEF SpelledRecord
<1>9. [d EXCEPT !.modifiers = Span(arena["modifiers"], d.modifiers)]
        = [t EXCEPT !.modifiers = Span(f["modifiers"], t.modifiers)]
  BY <1>2, <1>5
<1>10. SpelledRecord(f, a, x)
         = [x EXCEPT !.type = [t EXCEPT !.modifiers = Span(f["modifiers"], t.modifiers)]]
  BY <1>4, <1>6 DEF t
<1> QED BY <1>3, <1>8, <1>9, <1>10 DEF x

\* What a stored Source contributed says what its facts say.
LEMMA SpelledStored ==
  ASSUME NEW arena, ArenaSeqs(arena), NEW f, ValidFacts(f), NEW slice, Stored(arena, slice, f)
  PROVE  SpelledSlice(arena, slice) = SpelledSlice(f, SliceOf(f, Zero))
<1>1. ASSUME NEW a \in Arenas
      PROVE  [i \in DOMAIN Span(arena[a], slice[a]) |->
                SpelledRecord(arena, a, Span(arena[a], slice[a])[i])]
             = [i \in DOMAIN Span(f[a], SliceOf(f, Zero)[a]) |->
                  SpelledRecord(f, a, Span(f[a], SliceOf(f, Zero)[a])[i])]
  <2> DEFINE A == Appended(f, Begins(slice))[a]
  <2>1. /\ Length(f[a]) \in Nat
        /\ Span(arena[a], slice[a]) = [i \in 1..Length(f[a]) |-> A[i]]
        /\ Span(f[a], SliceOf(f, Zero)[a]) = [i \in 1..Length(f[a]) |-> f[a][i]]
    BY RecordsOfStored
  <2>2. DOMAIN f[a] = 1..Length(f[a])
    BY FactsSeqs
  <2>3. ASSUME NEW i \in 1..Length(f[a])
        PROVE  SpelledRecord(arena, a, A[i]) = SpelledRecord(f, a, f[a][i])
    <3>1. CASE a = "types"
      <4>1. A[i] = RebasedDeclaration(f["types"][i], Begins(slice))
        BY <2>2, <3>1, Zenon DEF Appended
      <4>2. ValidType(f["types"][i], f)
        BY <2>2, <3>1, Zenon DEF ValidFacts
      <4> QED BY <3>1, <4>1, <4>2, SpelledTypeStored
    <3>2. CASE a \in {"members", "objects"}
      BY <3>2, SpelledTypedStored
    <3>3. CASE a \notin {"types", "members", "objects"}
      BY <3>3, Zenon DEF Appended, SpelledRecord
    <3> QED BY <3>1, <3>2, <3>3
  <2> HIDE DEF A
  <2> QED BY <2>1, <2>3
<1> QED BY <1>1, SpelledSliceIs, Zenon

Along(w, q, m) == [i \in 1..m |-> w[q[i]]]

\* SumOfSome, for an opaque selection.
LEMMA SumAlong ==
  ASSUME NEW n \in Nat, NEW m \in Nat, NEW q \in [1..m -> 1..n],
         \A i, j \in 1..m : q[i] = q[j] => i = j,
         NEW w \in [1..n -> Int],
         \A s \in 1..n : (\A i \in 1..m : q[i] # s) => w[s] = 0
  PROVE  SumSeq(Along(w, q, m)) = SumSeq(w)
<1>1. SumSeq([i \in 1..m |-> w[q[i]]]) = SumSeq(w)
  BY SumOfSome, Zenon
<1> QED BY <1>1 DEF Along

\* What the statistics of such a cache count.
LEMMA StatisticsOfFacts ==
  ASSUME NEW fs, DOMAIN fs = Sources, \A s \in Present(fs) : ValidFacts(fs[s]),
         NEW c, Contributes(c, fs), NEW a \in Arenas
  PROVE  c.statistics[a] = SumSeq([i \in DOMAIN Ordered(Present(fs)) |->
                                     Len(fs[Ordered(Present(fs))[i]][a])])
<1> DEFINE P == Present(fs)
           q == Ordered(P)
           m == Cardinality(P)
           n == Cardinality(Sources)
           w == Weight(c.sources, a)
<1>1. P \in SUBSET Sources /\ \A s \in Sources : s \in P <=> fs[s] # Absent
  BY DEF Present
<1> HIDE DEF P
<1>2. /\ m \in Nat /\ q \in [1..m -> P]
      /\ \A i, j \in 1..m : q[i] = q[j] => i = j
      /\ \A s \in P : \E i \in 1..m : q[i] = s
  BY <1>1, OrderedLists
<1>3. n \in Nat /\ Sources = 1..n
  BY SourcesAreInterval
<1>4. c.sources \in [Sources -> Slices \cup {NoState}]
  BY DEF Contributes, CacheOk
<1>5. w \in [1..n -> Int]
  <2>1. w \in [Sources -> Int]
    BY <1>4, WeightInt
  <2> HIDE DEF w
  <2> QED BY <1>3, <2>1
<1>6. ASSUME NEW s \in Sources, s \notin P PROVE w[s] = 0
  BY <1>1, <1>6 DEF Contributes, Weight
<1>7. ASSUME NEW s \in P PROVE w[s] = Length(fs[s][a])
  <2>1. s \in Sources /\ Stored(c.arena, c.sources[s], fs[s])
    BY <1>1 DEF Contributes
  <2>2. c.sources[s] \in Slices /\ c.sources[s][a].count = Length(fs[s][a])
    BY <2>1 DEF Stored
  <2>3. c.sources[s] # NoState
    BY <2>2, SlicesAreStates
  <2> QED BY <2>1, <2>2, <2>3 DEF Weight
<1> HIDE DEF q, m, n, w
<1>8. q \in [1..m -> 1..n]
  BY <1>1, <1>2, <1>3, Zenon
<1>9. \A s \in 1..n : (\A i \in 1..m : q[i] # s) => w[s] = 0
  BY <1>2, <1>3, <1>6
<1>10. SumSeq(Along(w, q, m)) = SumSeq(w)
  BY <1>2, <1>3, <1>5, <1>8, <1>9, SumAlong, Zenon
<1>11. [i \in DOMAIN q |-> Len(fs[q[i]][a])] = Along(w, q, m)
  <2>1. \A i \in 1..m : w[q[i]] = Length(fs[q[i]][a])
    BY <1>2, <1>7
  <2>2. \A i \in 1..m : Length(fs[q[i]][a]) = Len(fs[q[i]][a])
    BY DEF Length
  <2>3. DOMAIN q = 1..m
    BY <1>2
  <2> QED BY <2>1, <2>2, <2>3 DEF Along
<1>12. c.statistics[a] = SumSeq(w)
  BY DEF Contributes, CacheOk, w
<1> QED BY <1>10, <1>11, <1>12 DEF q, P

\* A cache that holds what the facts say reproduces them.
LEMMA ContributesReproduces ==
  ASSUME NEW fs, DOMAIN fs = Sources, \A s \in Present(fs) : ValidFacts(fs[s]),
         NEW c, Contributes(c, fs)
  PROVE  /\ \A s \in Sources :
              IF fs[s] = Absent THEN c.sources[s] = NoState
              ELSE SpelledSlice(c.arena, c.sources[s])
                     = SpelledSlice(fs[s], SliceOf(fs[s], [a \in Arenas |-> 0]))
         /\ \A a \in Arenas : c.statistics[a] =
              SumSeq([i \in DOMAIN Ordered(Present(fs)) |->
                        Len(fs[Ordered(Present(fs))[i]][a])])
<1>1. ASSUME NEW s \in Sources
      PROVE  IF fs[s] = Absent THEN c.sources[s] = NoState
             ELSE SpelledSlice(c.arena, c.sources[s])
                    = SpelledSlice(fs[s], SliceOf(fs[s], [a \in Arenas |-> 0]))
  <2>1. CASE fs[s] = Absent
    BY <2>1 DEF Contributes
  <2>2. CASE fs[s] # Absent
    <3>1. Stored(c.arena, c.sources[s], fs[s]) /\ ArenaSeqs(c.arena) /\ ValidFacts(fs[s])
      BY <2>2 DEF Contributes, CacheOk, Present
    <3>2. SpelledSlice(c.arena, c.sources[s]) = SpelledSlice(fs[s], SliceOf(fs[s], Zero))
      BY <3>1, SpelledStored
    <3> QED BY <2>2, <3>2 DEF Zero
  <2> QED BY <2>1, <2>2
<1>2. ASSUME NEW a \in Arenas
      PROVE  c.statistics[a] = SumSeq([i \in DOMAIN Ordered(Present(fs)) |->
                                         Len(fs[Ordered(Present(fs))[i]][a])])
  BY StatisticsOfFacts
<1> QED BY <1>1, <1>2

\* A Source that is left alone because it is equivalent says what it says.
LEMMA EquivalentStored ==
  ASSUME NEW c, CacheOk(c), NEW s \in Sources, NEW old, ValidFacts(old),
         Stored(c.arena, c.sources[s], old),
         NEW f, ValidFacts(f), Equivalent(c, s, f)
  PROVE  Stored(c.arena, c.sources[s], f)
<1> DEFINE slice == c.sources[s]
           arena == c.arena
<1>1. slice \in Slices /\ ArenaSeqs(arena)
  BY DEF Stored, CacheOk
<1>2. \A a \in Arenas : Span(arena[a], slice[a]) = Appended(f, Begins(slice))[a]
  BY DEF Equivalent, Begins
<1> HIDE DEF slice, arena
<1>3. ASSUME NEW a \in Arenas
      PROVE  /\ slice[a].count = Length(f[a])
             /\ slice[a].begin + Length(f[a]) <= Length(arena[a])
             /\ \A i \in 1..Length(f[a]) :
                  arena[a][slice[a].begin + i] = Appended(f, Begins(slice))[a][i]
  <2> DEFINE A == Appended(f, Begins(slice))[a]
             r == slice[a]
  <2>1. /\ IsSeq(arena[a]) /\ r.begin \in Nat /\ r.count \in Nat
        /\ r.begin + r.count <= Length(arena[a])
    BY <1>1 DEF Stored, Slices, ArenaSeqs, slice, arena
  <2>2. IsSeq(A) /\ Length(A) = Length(f[a])
    BY AppendedSeqs DEF ArenaSeqs
  <2> HIDE DEF A, r
  <2>3. PICK v : v = arena[a]
    OBVIOUS
  <2>4. Span(v, r) = [i \in 1..r.count |-> v[r.begin + i]]
    BY <2>1, <2>3, SpanLength
  <2>5. A = [i \in 1..r.count |-> v[r.begin + i]]
    BY <1>2, <2>3, <2>4 DEF A, r
  <2>6. Length(A) \in Nat /\ DOMAIN A = 1..Length(A)
    BY <2>2, LengthSeq
  <2>7. r.count = Length(A)
    <3>1. 1..Length(A) = 1..r.count
      BY <2>5, <2>6
    <3> QED BY <2>1, <2>6, <3>1
  <2>8. \A i \in 1..Length(f[a]) : arena[a][r.begin + i] = A[i]
    BY <2>2, <2>3, <2>5, <2>7
  <2> QED BY <2>1, <2>2, <2>7, <2>8 DEF A, r
<1> QED BY <1>1, <1>3 DEF Stored, slice, arena

----------------------------------------------------------------------------
(* Capturing the facts of an incremental update. *)

SparseShape(u) ==
  u \in [base : {u.base}, arena : {u.arena}, sources : {u.sources}, changed : {u.changed},
         construction : {u.construction}]

\* The first m Sources of order.
Taken(order, m) == {order[i] : i \in 1..m}

\* The first m Sources of order were exchanged in the sparse update u of c: the
\* first r of them replaced, the others removed.
Exchanged(c, u, fs, order, r, m) ==
  /\ SparseShape(u) /\ u.base = Sizes(c.arena) /\ ArenaSeqs(u.arena) /\ ArenaOk(u.arena)
  /\ u.construction = <<>>
  /\ DOMAIN u.sources = Taken(order, m)
  /\ IsSeq(u.changed) /\ Len(u.changed) = m
  /\ \A i \in 1..m : u.changed[i] = order[i]
  /\ \A i \in 1..m : IF i <= r THEN Stored(Joined(c.arena, u.arena), u.sources[order[i]], fs[order[i]])
                     ELSE u.sources[order[i]] = NoState

\* A sparse update begins with nothing exchanged.
LEMMA BeginExchanges ==
  ASSUME NEW c, CacheOk(c), NEW fs, NEW order, NEW r
  PROVE  Exchanged(c, BeginIncremental(c), fs, order, r, 0)
<1> DEFINE u == BeginIncremental(c)
<1>1. /\ SparseShape(u) /\ u.base = Sizes(c.arena) /\ u.arena = EmptyArena
      /\ u.construction = <<>> /\ u.sources = <<>> /\ u.changed = <<>>
  BY DEF BeginIncremental, SparseShape
<1> HIDE DEF u
<1>2. ArenaSeqs(u.arena)
  BY <1>1, EmptyIsSeq DEF ArenaSeqs, EmptyArena
<1>3. DOMAIN u.sources = Taken(order, 0)
  BY <1>1 DEF Taken
<1> QED BY <1>1, <1>2, <1>3, EmptyIsSeq, EmptyArenaOk DEF Exchanged, u

\* One more Source of the order.
LEMMA TakenNext ==
  ASSUME NEW order, NEW m \in Nat
  PROVE  Taken(order, m+1) = Taken(order, m) \cup {order[m+1]}
<1>1. 1..(m+1) = (1..m) \cup {m+1}
  OBVIOUS
<1> QED BY <1>1 DEF Taken

\* A patch of an overlay.
LEMMA PatchedIs ==
  ASSUME NEW sources, NEW s, NEW value
  PROVE  /\ \A x : x \in DOMAIN Patched(sources, s, value) <=> x \in DOMAIN sources \/ x = s
         /\ Patched(sources, s, value)[s] = value
         /\ \A x \in DOMAIN sources : x # s => Patched(sources, s, value)[x] = sources[x]
BY DEF Patched

\* Where the update's next records go.
Bases(u) == [f \in Arenas |-> u.base[f] + Len(u.arena[f])]

\* The bases of an update are the sizes of the combined arenas.
LEMMA CombinedSizes ==
  ASSUME NEW c, ArenaSeqs(c.arena), NEW u, u.base = Sizes(c.arena), ArenaSeqs(u.arena)
  PROVE  Bases(u) = Sizes(Joined(c.arena, u.arena))
<1>1. ASSUME NEW a \in Arenas
      PROVE  u.base[a] + Len(u.arena[a]) = Len(Joined(c.arena, u.arena)[a])
  <2>1. Length(Joined(c.arena, u.arena)[a]) = Length(c.arena[a]) + Length(u.arena[a])
    BY JoinedAt
  <2>2. u.base[a] = Length(c.arena[a])
    BY DEF Sizes, Length
  <2>3. Length(u.arena[a]) = Len(u.arena[a])
        /\ Length(Joined(c.arena, u.arena)[a]) = Len(Joined(c.arena, u.arena)[a])
    BY DEF Length
  <2> QED BY <2>1, <2>2, <2>3
<1> QED BY <1>1, Zenon DEF Sizes, Bases

\* What a sparse replace() writes, field by field.
LEMMA ReplaceSparseIs ==
  ASSUME NEW u, SparseShape(u), NEW s, NEW f
  PROVE  /\ SparseShape(ReplaceSparse(u, s, f))
         /\ ReplaceSparse(u, s, f).base = u.base
         /\ ReplaceSparse(u, s, f).construction = u.construction
         /\ ReplaceSparse(u, s, f).arena = Joined(u.arena, Appended(f, Bases(u)))
         /\ ReplaceSparse(u, s, f).sources = Patched(u.sources, s, SliceOf(f, Bases(u)))
         /\ ReplaceSparse(u, s, f).changed = Append(u.changed, s)
BY Zenon DEF SparseShape, ReplaceSparse, Bases

\* What a sparse removal writes, field by field.
LEMMA RemoveSparseIs ==
  ASSUME NEW u, SparseShape(u), NEW s
  PROVE  /\ SparseShape(RemoveSparse(u, s))
         /\ RemoveSparse(u, s).base = u.base
         /\ RemoveSparse(u, s).construction = u.construction
         /\ RemoveSparse(u, s).arena = u.arena
         /\ RemoveSparse(u, s).sources = Patched(u.sources, s, NoState)
         /\ RemoveSparse(u, s).changed = Append(u.changed, s)
BY Zenon DEF SparseShape, RemoveSparse

\* One more Source replaced by an update.
LEMMA ReplaceExchanges ==
  ASSUME NEW c, CacheOk(c), NEW k \in Nat, NEW order \in [1..k -> Sources],
         \A i, j \in 1..k : order[i] = order[j] => i = j,
         NEW fs, NEW r \in 0..k, NEW m \in 0..(k-1), m < r,
         \A i \in 1..r : ValidFacts(fs[order[i]]),
         NEW u, Exchanged(c, u, fs, order, r, m)
  PROVE  Exchanged(c, ReplaceSparse(u, order[m+1], fs[order[m+1]]), fs, order, r, m+1)
<1> DEFINE s == order[m+1]
           f == fs[order[m+1]]
<1>0. m \in Nat /\ m + 1 \in 1..k /\ m + 1 \in 1..r /\ ValidFacts(f) /\ ArenaSeqs(c.arena)
  BY DEF CacheOk
<1>13. /\ s = order[m+1] /\ DOMAIN order = 1..k
       /\ DOMAIN u.sources = Taken(order, m) /\ IsSeq(u.changed) /\ Len(u.changed) = m
       /\ \A i \in 1..m : u.changed[i] = order[i]
  BY DEF Exchanged
<1>1. SparseShape(u) /\ u.base = Sizes(c.arena) /\ ArenaSeqs(u.arena)
  BY DEF Exchanged
<1> HIDE DEF s, f
<1>2. PICK v : v = ReplaceSparse(u, s, f)
  OBVIOUS
<1>3. PICK base : base = Bases(u)
  OBVIOUS
<1>4. /\ SparseShape(v) /\ v.base = u.base /\ v.construction = u.construction
      /\ v.arena = Joined(u.arena, Appended(f, base))
      /\ v.sources = Patched(u.sources, s, SliceOf(f, base))
      /\ v.changed = Append(u.changed, s)
  BY <1>1, <1>2, <1>3, ReplaceSparseIs
<1>5. base = Sizes(Joined(c.arena, u.arena))
  BY <1>0, <1>1, <1>3, CombinedSizes
<1>6. /\ ArenaSeqs(Joined(c.arena, u.arena)) /\ ArenaSeqs(Appended(f, base))
  BY <1>0, <1>1, JoinedSeqs, AppendedSeqs
<1>7. /\ ArenaSeqs(v.arena)
      /\ Joined(c.arena, v.arena) = Joined(Joined(c.arena, u.arena), Appended(f, base))
  <2>1. ArenaSeqs(Joined(u.arena, Appended(f, base)))
    BY <1>1, <1>6, JoinedSeqs
  <2>2. Joined(Joined(c.arena, u.arena), Appended(f, base))
          = Joined(c.arena, Joined(u.arena, Appended(f, base)))
    BY <1>0, <1>1, <1>6, JoinedAssociative
  <2> QED BY <1>4, <2>1, <2>2
<1>8. Stored(Joined(c.arena, v.arena), SliceOf(f, base), f)
  BY <1>0, <1>5, <1>6, <1>7, StoredNew
<1>9. /\ DOMAIN v.sources = Taken(order, m+1)
      /\ v.sources[s] = SliceOf(f, base)
      /\ \A x \in DOMAIN u.sources : x # s => v.sources[x] = u.sources[x]
  <2>1. Taken(order, m+1) = Taken(order, m) \cup {s}
    BY <1>0, <1>13, TakenNext, Zenon
  <2>2. DOMAIN u.sources = Taken(order, m)
    BY <1>13
  <2>3. /\ \A x : x \in DOMAIN v.sources <=> x \in DOMAIN u.sources \/ x = s
        /\ v.sources[s] = SliceOf(f, base)
        /\ \A x \in DOMAIN u.sources : x # s => v.sources[x] = u.sources[x]
    <3>1. PICK q : q = u.sources
      OBVIOUS
    <3>2. PICK y : y = SliceOf(f, base)
      OBVIOUS
    <3>3. v.sources = Patched(q, s, y)
      BY <1>4, <3>1, <3>2
    <3> QED BY <3>1, <3>2, <3>3, PatchedIs
  <2>4. DOMAIN v.sources = Taken(order, m+1)
    BY <2>1, <2>2, <2>3, Zenon
  <2> QED BY <2>3, <2>4
<1>10. IsSeq(v.changed) /\ Len(v.changed) = m + 1 /\ \A i \in 1..(m+1) : v.changed[i] = order[i]
  <2>1. v.changed = Append(u.changed, s)
    BY <1>4
  <2>2. PICK q : q = u.changed
    OBVIOUS
  <2>3. /\ IsSeq(Append(q, s)) /\ Len(Append(q, s)) = Len(q) + 1
        /\ \A i \in 1..Len(q) : Append(q, s)[i] = q[i]
        /\ Append(q, s)[Len(q) + 1] = s
    BY <1>13, <2>2, AppendSeq
  <2>4. Len(q) = m /\ \A i \in 1..m : q[i] = order[i]
    BY <1>13, <2>2
  <2> QED BY <1>0, <1>13, <2>1, <2>2, <2>3, <2>4
<1>11. ASSUME NEW i \in 1..(m+1)
       PROVE  IF i <= r THEN Stored(Joined(c.arena, v.arena), v.sources[order[i]], fs[order[i]])
              ELSE v.sources[order[i]] = NoState
  <2>1. i <= r
    BY <1>0
  <2>2. CASE i = m + 1
    BY <1>8, <1>9, <2>1, <2>2 DEF s, f
  <2>3. CASE i # m + 1
    <3>1. i \in 1..m /\ i \in 1..k /\ i \in 1..r
      BY <1>0, <2>3
    <3>2. order[i] # s /\ order[i] \in DOMAIN u.sources
      BY <1>0, <1>13, <2>3, <3>1 DEF Taken
    <3>3. Stored(Joined(c.arena, u.arena), u.sources[order[i]], fs[order[i]])
      BY <2>1, <3>1 DEF Exchanged
    <3>4. ValidFacts(fs[order[i]])
      BY <3>1
    <3>5. Stored(Joined(c.arena, v.arena), u.sources[order[i]], fs[order[i]])
      BY <1>6, <1>7, <3>3, <3>4, StoredGrows
    <3> QED BY <1>9, <2>1, <3>2, <3>5
  <2> QED BY <2>2, <2>3
<1>12. v.base = Sizes(c.arena) /\ v.construction = <<>>
  BY <1>1, <1>4 DEF Exchanged
<1>14. ArenaOk(v.arena)
  <2>1. ArenaOk(u.arena)
    BY DEF Exchanged
  <2>2. \A a \in Arenas : base[a] \in Nat
    BY <1>5, <1>6, SizesNat
  <2>3. ArenaOk(Appended(f, base))
    BY <1>0, <2>2, AppendedOk
  <2> QED BY <1>1, <1>4, <1>6, <2>1, <2>3, JoinedOk
<1> QED BY <1>2, <1>4, <1>7, <1>9, <1>10, <1>11, <1>12, <1>14 DEF Exchanged, s, f

\* One more Source removed by an update.
LEMMA RemoveExchanges ==
  ASSUME NEW c, CacheOk(c), NEW k \in Nat, NEW order \in [1..k -> Sources],
         \A i, j \in 1..k : order[i] = order[j] => i = j,
         NEW fs, NEW r \in 0..k, NEW m \in 0..(k-1), r <= m,
         NEW u, Exchanged(c, u, fs, order, r, m)
  PROVE  Exchanged(c, RemoveSparse(u, order[m+1]), fs, order, r, m+1)
<1> DEFINE s == order[m+1]
<1>0. m \in Nat /\ m + 1 \in 1..k
  OBVIOUS
<1>13. /\ s = order[m+1] /\ DOMAIN order = 1..k
       /\ DOMAIN u.sources = Taken(order, m) /\ IsSeq(u.changed) /\ Len(u.changed) = m
       /\ \A i \in 1..m : u.changed[i] = order[i]
  BY DEF Exchanged
<1>1. SparseShape(u) /\ u.base = Sizes(c.arena) /\ ArenaSeqs(u.arena)
  BY DEF Exchanged
<1> HIDE DEF s
<1>2. PICK v : v = RemoveSparse(u, s)
  OBVIOUS
<1>4. /\ SparseShape(v) /\ v.base = u.base /\ v.construction = u.construction
      /\ v.arena = u.arena /\ v.sources = Patched(u.sources, s, NoState)
      /\ v.changed = Append(u.changed, s)
  BY <1>1, <1>2, RemoveSparseIs
<1>9. /\ DOMAIN v.sources = Taken(order, m+1)
      /\ v.sources[s] = NoState
      /\ \A x \in DOMAIN u.sources : x # s => v.sources[x] = u.sources[x]
  <2>1. Taken(order, m+1) = Taken(order, m) \cup {s}
    BY <1>0, <1>13, TakenNext, Zenon
  <2>2. DOMAIN u.sources = Taken(order, m)
    BY <1>13
  <2>3. /\ \A x : x \in DOMAIN v.sources <=> x \in DOMAIN u.sources \/ x = s
        /\ v.sources[s] = NoState
        /\ \A x \in DOMAIN u.sources : x # s => v.sources[x] = u.sources[x]
    <3>1. PICK q : q = u.sources
      OBVIOUS
    <3>2. PICK y : y = NoState
      OBVIOUS
    <3>3. v.sources = Patched(q, s, y)
      BY <1>4, <3>1, <3>2
    <3> QED BY <3>1, <3>2, <3>3, PatchedIs
  <2>4. DOMAIN v.sources = Taken(order, m+1)
    BY <2>1, <2>2, <2>3, Zenon
  <2> QED BY <2>3, <2>4
<1>10. IsSeq(v.changed) /\ Len(v.changed) = m + 1 /\ \A i \in 1..(m+1) : v.changed[i] = order[i]
  <2>1. v.changed = Append(u.changed, s)
    BY <1>4
  <2>2. PICK q : q = u.changed
    OBVIOUS
  <2>3. /\ IsSeq(Append(q, s)) /\ Len(Append(q, s)) = Len(q) + 1
        /\ \A i \in 1..Len(q) : Append(q, s)[i] = q[i]
        /\ Append(q, s)[Len(q) + 1] = s
    BY <1>13, <2>2, AppendSeq
  <2>4. Len(q) = m /\ \A i \in 1..m : q[i] = order[i]
    BY <1>13, <2>2
  <2> QED BY <1>0, <1>13, <2>1, <2>2, <2>3, <2>4
<1>11. ASSUME NEW i \in 1..(m+1)
       PROVE  IF i <= r THEN Stored(Joined(c.arena, v.arena), v.sources[order[i]], fs[order[i]])
              ELSE v.sources[order[i]] = NoState
  <2>2. CASE i = m + 1
    BY <1>9, <2>2 DEF s
  <2>3. CASE i # m + 1
    <3>1. i \in 1..m /\ i \in 1..k
      BY <1>0, <2>3
    <3>2. order[i] # s /\ order[i] \in DOMAIN u.sources
      BY <1>0, <1>13, <2>3, <3>1 DEF Taken
    <3>3. IF i <= r THEN Stored(Joined(c.arena, u.arena), u.sources[order[i]], fs[order[i]])
          ELSE u.sources[order[i]] = NoState
      BY <3>1 DEF Exchanged
    <3> QED BY <1>4, <1>9, <3>2, <3>3
  <2> QED BY <2>2, <2>3
<1>12. ArenaOk(v.arena) /\ v.construction = <<>>
  BY <1>4 DEF Exchanged
<1> QED BY <1>1, <1>2, <1>4, <1>9, <1>10, <1>11, <1>12 DEF Exchanged, s

\* All replacements of an update are captured.
LEMMA ReplaceSourcesExchanges ==
  ASSUME NEW c, CacheOk(c), NEW k \in Nat, NEW order \in [1..k -> Sources],
         \A i, j \in 1..k : order[i] = order[j] => i = j,
         NEW fs, NEW r \in 0..k, \A i \in 1..r : ValidFacts(fs[order[i]]),
         NEW rep, DOMAIN rep = 1..r, \A i \in 1..r : rep[i] = order[i]
  PROVE  Exchanged(c, ReplaceSources(c, rep, fs), fs, order, r, r)
<1>0. r \in Nat
  OBVIOUS
<1>1. PICK tr : Traced(tr, "replace", <<fs>>, BeginIncremental(c), rep, r,
                       ReplaceSources(c, rep, fs))
  BY <1>0, ReplaceSourcesTrace, Zenon
<1> DEFINE S == {m \in 0..r : Exchanged(c, tr[m], fs, order, r, m)}
<1>2. 0 \in S
  BY <1>1, BeginExchanges DEF Traced
<1>3. ASSUME NEW m \in 0..(r-1), m \in S PROVE m + 1 \in S
  <2>1. m + 1 \in 1..r /\ m + 1 \in 0..r /\ m + 1 - 1 = m /\ m \in 0..(k-1) /\ m < r
    OBVIOUS
  <2>2. tr[m+1] = ReplaceSparse(tr[m], order[m+1], fs[order[m+1]])
    BY <1>1, <2>1 DEF Traced, Step
  <2>3. Exchanged(c, tr[m], fs, order, r, m)
    BY <1>3
  <2>4. Exchanged(c, ReplaceSparse(tr[m], order[m+1], fs[order[m+1]]), fs, order, r, m+1)
    BY <2>1, <2>3, ReplaceExchanges, Zenon
  <2> QED BY <2>1, <2>2, <2>4
<1>4. 0..r \subseteq S
  <2> HIDE DEF S
  <2> QED BY <1>0, <1>2, <1>3, SetInduction, Zenon
<1>5. Exchanged(c, tr[r], fs, order, r, r)
  BY <1>4
<1> QED BY <1>1, <1>5 DEF Traced

\* All removals of an update are captured after them.
LEMMA RemoveSourcesExchanges ==
  ASSUME NEW c, CacheOk(c), NEW k \in Nat, NEW order \in [1..k -> Sources],
         \A i, j \in 1..k : order[i] = order[j] => i = j,
         NEW fs, NEW r \in 0..k, NEW u, Exchanged(c, u, fs, order, r, r),
         NEW rem, DOMAIN rem = 1..(k - r), \A i \in 1..(k - r) : rem[i] = order[r + i]
  PROVE  Exchanged(c, RemoveSources(u, rem), fs, order, r, k)
<1> DEFINE n == k - r
<1>0. r \in Nat /\ n \in Nat
  OBVIOUS
<1>1. PICK tr : Traced(tr, "remove", <<>>, u, rem, n, RemoveSources(u, rem))
  BY <1>0, RemoveSourcesTrace, Zenon
<1> DEFINE S == {m \in 0..n : Exchanged(c, tr[m], fs, order, r, r + m)}
<1>2. 0 \in S
  BY <1>0, <1>1 DEF Traced
<1>3. ASSUME NEW m \in 0..(n-1), m \in S PROVE m + 1 \in S
  <2> DEFINE j == r + m
  <2>1. /\ m + 1 \in 1..n /\ m + 1 \in 0..n /\ m + 1 - 1 = m /\ j \in 0..(k-1) /\ r <= j
        /\ r + (m + 1) = j + 1
    BY <1>0
  <2>2. tr[m+1] = RemoveSparse(tr[m], order[j+1])
    BY <1>1, <2>1 DEF Traced, Step
  <2>3. Exchanged(c, tr[m], fs, order, r, j)
    BY <1>3
  <2> HIDE DEF j
  <2>4. Exchanged(c, RemoveSparse(tr[m], order[j+1]), fs, order, r, j+1)
    BY <2>1, <2>3, RemoveExchanges, Zenon
  <2> QED BY <2>1, <2>2, <2>4, Zenon
<1>4. 0..n \subseteq S
  <2> HIDE DEF S, n
  <2> QED BY <1>0, <1>2, <1>3, SetInduction, Zenon
<1>5. Exchanged(c, tr[n], fs, order, r, r + n) /\ r + n = k
  BY <1>0, <1>4
<1> QED BY <1>1, <1>5 DEF Traced

\* The captured replacements and removals of an update.
LEMMA CaptureUpdateExchanges ==
  ASSUME NEW c, CacheOk(c), NEW k \in Nat, NEW order \in [1..k -> Sources],
         \A i, j \in 1..k : order[i] = order[j] => i = j,
         NEW fs, NEW r \in 0..k, \A i \in 1..r : ValidFacts(fs[order[i]]),
         NEW rep, DOMAIN rep = 1..r, \A i \in 1..r : rep[i] = order[i],
         NEW rem, DOMAIN rem = 1..(k - r), \A i \in 1..(k - r) : rem[i] = order[r + i],
         NEW g
  PROVE  Exchanged(c, CaptureUpdate(c, g, rep, rem, fs).c, fs, order, r, k)
<1>1. Exchanged(c, ReplaceSources(c, rep, fs), fs, order, r, r)
  BY ReplaceSourcesExchanges, Zenon
<1>2. Exchanged(c, RemoveSources(ReplaceSources(c, rep, fs), rem), fs, order, r, k)
  BY <1>1, RemoveSourcesExchanges, Zenon
<1> QED BY <1>2 DEF CaptureUpdate, BeginUpdate

----------------------------------------------------------------------------
(* Publishing the contributions of an incremental update. *)

PublishedCount(state, a) == IF state = NoState THEN 0 ELSE state[a].count

Counts(state, order, k, a) == [i \in 1..k |-> PublishedCount(state[order[i]], a)]

\* The recount of prepare_publish counts what the patched sources contribute.
LEMMA RecountedWeight ==
  ASSUME NEW old \in [Sources -> Slices \cup {NoState}],
         NEW new \in [Sources -> Slices \cup {NoState}], NEW a \in Arenas,
         NEW k \in Nat, NEW order \in [1..k -> Sources],
         \A i, j \in 1..k : order[i] = order[j] => i = j,
         \A s \in Sources : (\A i \in 1..k : order[i] # s) => new[s] = old[s]
  PROVE  SumSeq(Weight(new, a)) = SumSeq(Weight(old, a))
           + SumSeq(Counts(new, order, k, a))
           - SumSeq(Counts(old, order, k, a))
<1> DEFINE n == Cardinality(Sources)
           taken == {order[i] : i \in 1..k}
           w == Weight(old, a)
           z == Weight(new, a)
           rest == [s \in 1..n |-> IF s \in taken THEN 0 ELSE w[s]]
           out == [s \in 1..n |-> IF s \in taken THEN w[s] ELSE 0]
           in == [s \in 1..n |-> IF s \in taken THEN z[s] ELSE 0]
<1>1. n \in Nat /\ Sources = 1..n
  BY SourcesAreInterval
<1>2. w \in [1..n -> Int] /\ z \in [1..n -> Int]
  <2>1. w \in [Sources -> Int] /\ z \in [Sources -> Int]
    BY WeightInt, Zenon
  <2> HIDE DEF w, z
  <2> QED BY <1>1, <2>1
<1>3. \A s \in Sources : s \notin taken => z[s] = w[s]
  BY DEF Weight
<1>4. \A s \in Sources : w[s] = PublishedCount(old[s], a) /\ z[s] = PublishedCount(new[s], a)
  BY DEF Weight, PublishedCount
<1> HIDE DEF w, z, n
<1>5. rest \in [1..n -> Int] /\ out \in [1..n -> Int] /\ in \in [1..n -> Int]
  BY <1>2
<1>6. w = [s \in 1..n |-> rest[s] + out[s]] /\ z = [s \in 1..n |-> rest[s] + in[s]]
  <2>1. \A s \in 1..n : w[s] = rest[s] + out[s] /\ z[s] = rest[s] + in[s]
    BY <1>1, <1>2, <1>3
  <2>2. w = [s \in 1..n |-> w[s]] /\ z = [s \in 1..n |-> z[s]]
    BY <1>2
  <2> HIDE DEF rest, out, in
  <2> QED BY <2>1, <2>2
<1>7. /\ Along(out, order, k) = Counts(old, order, k, a)
      /\ Along(in, order, k) = Counts(new, order, k, a)
  <2>1. ASSUME NEW i \in 1..k
        PROVE  /\ out[order[i]] = PublishedCount(old[order[i]], a)
               /\ in[order[i]] = PublishedCount(new[order[i]], a)
    <3>1. order[i] \in 1..n /\ order[i] \in taken /\ order[i] \in Sources
      BY <1>1
    <3> HIDE DEF taken
    <3> QED BY <1>4, <3>1
  <2> HIDE DEF out, in
  <2> QED BY <2>1 DEF Along, Counts
<1>8. \A s \in 1..n : (\A i \in 1..k : order[i] # s) => out[s] = 0 /\ in[s] = 0
  OBVIOUS
<1> HIDE DEF rest, out, in, taken
<1>9. order \in [1..k -> 1..n]
  BY <1>1
<1>10. SumSeq(Along(out, order, k)) = SumSeq(out) /\ SumSeq(Along(in, order, k)) = SumSeq(in)
  BY <1>1, <1>5, <1>8, <1>9, SumAlong, Zenon
<1>11. /\ SumSeq([s \in 1..n |-> rest[s] + out[s]]) = SumSeq(rest) + SumSeq(out)
       /\ SumSeq([s \in 1..n |-> rest[s] + in[s]]) = SumSeq(rest) + SumSeq(in)
  BY <1>1, <1>5, SumPlus, Zenon
<1>12. SumSeq(rest) \in Int /\ SumSeq(out) \in Int /\ SumSeq(in) \in Int
  BY <1>1, <1>5, SumInt
<1>13. SumSeq(w) = SumSeq(rest) + SumSeq(out) /\ SumSeq(z) = SumSeq(rest) + SumSeq(in)
  BY <1>6, <1>11, Zenon
<1> QED BY <1>7, <1>10, <1>12, <1>13 DEF w, z

\* What fs says of the Sources the update left alone.
Untouched(c, fs, s) ==
  IF fs[s] = Absent THEN c.sources[s] = NoState ELSE Stored(c.arena, c.sources[s], fs[s])

\* What publish_prepared writes, field by field.
LEMMA PublishSparseIs ==
  ASSUME NEW c, CacheOk(c), NEW u
  PROVE  /\ CacheShape(PublishSparse(c, u))
         /\ PublishSparse(c, u).complete = c.complete
         /\ PublishSparse(c, u).arena = Joined(c.arena, u.arena)
         /\ \A s \in Sources : PublishSparse(c, u).sources[s] =
              IF s \in DOMAIN u.sources THEN u.sources[s] ELSE c.sources[s]
         /\ StatisticsShape(PublishSparse(c, u).statistics)
         /\ PublishSparse(c, u).statistics = PreparedStatistics(c, u)
<1>1. /\ c \in [arena : {c.arena}, sources : {c.sources}, construction : {c.construction},
                statistics : {c.statistics}, complete : {c.complete}]
      /\ DOMAIN c.sources = Sources /\ DOMAIN c.statistics = Arenas \cup {"sources"}
  BY DEF CacheOk, CacheShape, StatisticsShape
<1>2. StatisticsShape(PreparedStatistics(c, u))
  BY <1>1 DEF StatisticsShape, PreparedStatistics
<1>3. PICK v : v = PublishSparse(c, u)
  OBVIOUS
<1>4. /\ v \in [arena : {v.arena}, sources : {v.sources}, construction : {v.construction},
                statistics : {v.statistics}, complete : {v.complete}]
      /\ v.complete = c.complete /\ v.arena = Joined(c.arena, u.arena)
      /\ v.sources = [s \in DOMAIN c.sources |->
                        IF s \in DOMAIN u.sources THEN u.sources[s] ELSE c.sources[s]]
      /\ v.statistics = PreparedStatistics(c, u)
  BY <1>1, <1>3, Zenon DEF PublishSparse
<1>5. \A s \in Sources : v.sources[s] = IF s \in DOMAIN u.sources THEN u.sources[s] ELSE c.sources[s]
  BY <1>1, <1>4
<1> QED BY <1>2, <1>3, <1>4, <1>5 DEF CacheShape

\* A published update holds what the new facts say: the exchanged slices from
\* the update, the others as they were.
LEMMA PublishSparseContributes ==
  ASSUME NEW c, CacheOk(c), NEW k \in Nat, NEW order \in [1..k -> Sources],
         \A i, j \in 1..k : order[i] = order[j] => i = j,
         NEW fs, NEW r \in 0..k, NEW u, Exchanged(c, u, fs, order, r, k),
         \A i \in 1..k : fs[order[i]] # Absent <=> i <= r,
         \A s \in Sources : (\A i \in 1..k : order[i] # s) => Untouched(c, fs, s),
         \A s \in Present(fs) : ValidFacts(fs[s])
  PROVE  Contributes(PublishSparse(c, u), fs)
<1>1. PICK v : v = PublishSparse(c, u)
  OBVIOUS
<1>2. /\ CacheShape(v) /\ v.arena = Joined(c.arena, u.arena)
      /\ \A s \in Sources : v.sources[s] =
           IF s \in DOMAIN u.sources THEN u.sources[s] ELSE c.sources[s]
      /\ StatisticsShape(v.statistics) /\ v.statistics = PreparedStatistics(c, u)
  BY <1>1, PublishSparseIs
<1>3. /\ ArenaSeqs(c.arena) /\ ArenaSeqs(u.arena) /\ ArenaSeqs(v.arena)
      /\ c.sources \in [Sources -> Slices \cup {NoState}]
  BY <1>2, JoinedSeqs DEF CacheOk, Exchanged
<1>4. \A s \in Sources : s \in DOMAIN u.sources <=> \E i \in 1..k : order[i] = s
  BY DEF Exchanged, Taken
<1>5. ASSUME NEW s \in Sources
      PROVE  IF fs[s] = Absent THEN v.sources[s] = NoState
             ELSE Stored(v.arena, v.sources[s], fs[s])
  <2>1. CASE \E i \in 1..k : order[i] = s
    <3>1. PICK i \in 1..k : order[i] = s
      BY <2>1
    <3>2. v.sources[s] = u.sources[s]
      BY <1>2, <1>4, <2>1
    <3>3. IF i <= r THEN Stored(Joined(c.arena, u.arena), u.sources[order[i]], fs[order[i]])
          ELSE u.sources[order[i]] = NoState
      BY DEF Exchanged
    <3>4. fs[s] # Absent <=> i <= r
      BY <3>1
    <3> QED BY <1>2, <3>1, <3>2, <3>3, <3>4
  <2>2. CASE \A i \in 1..k : order[i] # s
    <3>1. v.sources[s] = c.sources[s]
      BY <1>2, <1>4, <2>2
    <3>2. Untouched(c, fs, s)
      BY <2>2
    <3>3. CASE fs[s] = Absent
      BY <3>1, <3>2, <3>3 DEF Untouched
    <3>4. CASE fs[s] # Absent
      <4>1. Stored(c.arena, c.sources[s], fs[s]) /\ ValidFacts(fs[s])
        BY <3>2, <3>4 DEF Untouched, Present
      <4>2. Stored(Joined(c.arena, u.arena), c.sources[s], fs[s])
        BY <1>3, <4>1, StoredGrows
      <4> QED BY <1>2, <3>1, <3>4, <4>2
    <3> QED BY <3>3, <3>4
  <2> QED BY <2>1, <2>2
<1>6. v.sources \in [Sources -> Slices \cup {NoState}]
  <2>1. \A s \in Sources : v.sources[s] \in Slices \cup {NoState}
    BY <1>5 DEF Stored
  <2>2. PublishSparse(c, u).sources = [s \in Sources |-> PublishSparse(c, u).sources[s]]
    <3>1. DOMAIN c.sources = Sources
      BY <1>3
    <3> QED BY <3>1 DEF PublishSparse, CacheOk, CacheShape
  <2>3. v.sources = [s \in Sources |-> v.sources[s]]
    BY <1>1, <2>2
  <2> QED BY <2>1, <2>3
<1>7. ASSUME NEW a \in Arenas PROVE v.statistics[a] = SumSeq(Weight(v.sources, a))
  <2>1. PICK old : old = c.sources
    OBVIOUS
  <2>2. PICK new : new = v.sources
    OBVIOUS
  <2>3. /\ old \in [Sources -> Slices \cup {NoState}] /\ new \in [Sources -> Slices \cup {NoState}]
        /\ \A s \in Sources : (\A i \in 1..k : order[i] # s) => new[s] = old[s]
    BY <1>2, <1>3, <1>4, <1>6, <2>1, <2>2
  <2>4. SumSeq(Weight(new, a)) = SumSeq(Weight(old, a))
           + SumSeq(Counts(new, order, k, a))
           - SumSeq(Counts(old, order, k, a))
    BY <2>3, RecountedWeight
  <2>5. IsSeq(u.changed) /\ Len(u.changed) = k /\ \A i \in 1..k : u.changed[i] = order[i]
    BY DEF Exchanged
  <2>6. DOMAIN u.changed = 1..k
    BY <2>5, SeqShape
  <2>7. a # "sources" /\ a \in DOMAIN c.statistics
    BY DEF Arenas, CacheOk, StatisticsShape
  <2>8. PreparedStatistics(c, u)[a] = c.statistics[a]
           + SumSeq(Counts(u.sources, order, k, a))
           - SumSeq(Counts(c.sources, order, k, a))
    <3>1. /\ [i \in DOMAIN u.changed |-> PublishedCount(u.sources[u.changed[i]], a)]
               = Counts(u.sources, order, k, a)
          /\ [i \in DOMAIN u.changed |-> PublishedCount(c.sources[u.changed[i]], a)]
               = Counts(c.sources, order, k, a)
      BY <2>5, <2>6 DEF Counts
    <3>2. PreparedStatistics(c, u)[a] = c.statistics[a]
             + SumSeq([i \in DOMAIN u.changed |-> PublishedCount(u.sources[u.changed[i]], a)])
             - SumSeq([i \in DOMAIN u.changed |-> PublishedCount(c.sources[u.changed[i]], a)])
      BY <2>7, Zenon DEF PreparedStatistics, PublishedCount
    <3> QED BY <3>1, <3>2
  <2>9. Counts(u.sources, order, k, a)
          = Counts(new, order, k, a)
    <3>1. \A i \in 1..k : order[i] \in Sources /\ order[i] \in DOMAIN u.sources
      BY <1>4
    <3>2. \A i \in 1..k : new[order[i]] = u.sources[order[i]]
      BY <1>2, <2>2, <3>1
    <3> QED BY <3>2 DEF Counts
  <2>10. c.statistics[a] = SumSeq(Weight(old, a))
    BY <2>1 DEF CacheOk
  <2> QED BY <1>2, <2>1, <2>2, <2>4, <2>8, <2>9, <2>10
<1>8. ArenaOk(v.arena)
  <2>1. ArenaOk(c.arena) /\ ArenaOk(u.arena)
    BY DEF CacheOk, Exchanged
  <2> QED BY <1>2, <1>3, <2>1, JoinedOk
<1> QED BY <1>1, <1>2, <1>3, <1>5, <1>6, <1>7, <1>8 DEF Contributes, CacheOk

----------------------------------------------------------------------------
(* The passes of an incremental update keep what was captured. *)

UpdateShape(p) ==
  p \in [status : {p.status}, c : {p.c}, u : {p.u}, touched : {p.touched},
         retired_objects : {p.retired_objects}, claimed_objects : {p.claimed_objects},
         retired_links : {p.retired_links}, claimed_targets : {p.claimed_targets}]

\* The update p still carries the contributions captured in d, up to the
\* construction states.
UpdateOn(d, p) ==
  /\ UpdateShape(p) /\ SparseShape(p.c) /\ IsSeq(p.touched)
  /\ p.c = [d EXCEPT !.construction = p.c.construction]

\* How many declarations the combined arenas hold, and a slice inside them.
TypeRecords(c, d) == Length(c.arena["types"]) + Length(d.arena["types"])
DeclaresWithin(slice, n) == slice["types"].begin + slice["types"].count <= n

\* What the passes may rely on in the captured contributions.
SparseOk(c, d) ==
  /\ CacheOk(c) /\ SparseShape(d) /\ d.base = Sizes(c.arena)
  /\ ArenaSeqs(d.arena) /\ ArenaOk(d.arena) /\ d.construction = <<>>
  /\ IsSeq(d.changed)
  /\ \A s \in ToSet(d.changed) :
       /\ s \in Sources /\ d.sources[s] \in Slices \cup {NoState}
       /\ d.sources[s] # NoState => DeclaresWithin(d.sources[s], TypeRecords(c, d))

\* The passes of an update read the captured contributions.
LEMMA UpdateOnKeeps ==
  ASSUME NEW c, NEW d, SparseOk(c, d), NEW p, UpdateOn(d, p)
  PROVE  /\ p.c.base = d.base /\ p.c.arena = d.arena /\ p.c.sources = d.sources
         /\ p.c.changed = d.changed
BY DEF SparseOk, SparseShape, UpdateOn

\* A slice is a range in every arena.
LEMMA RangeReads ==
  ASSUME NEW slice \in Slices, NEW a \in Arenas
  PROVE  slice[a].begin \in Nat /\ slice[a].count \in Nat /\ slice[a] \in [begin : Nat, count : Nat]
BY DEF Slices

\* The previous slice of a Source is a sequence.
LEMMA PreviousSliceSeq ==
  ASSUME NEW c, CacheOk(c), NEW s \in Sources, NEW a \in Arenas
  PROVE  IsSeq(PreviousSlice(c, s, a))
<1>1. CASE c.sources[s] = NoState
  BY <1>1, EmptyIsSeq DEF PreviousSlice
<1>2. CASE c.sources[s] # NoState
  <2>1. c.sources[s] \in Slices /\ IsSeq(c.arena[a])
    BY <1>2 DEF CacheOk, ArenaSeqs
  <2>2. PICK r : r = c.sources[s][a]
    OBVIOUS
  <2>3. r.begin \in Nat /\ r.count \in Nat
    BY <2>1, <2>2, RangeReads
  <2>4. PICK v : v = c.arena[a]
    OBVIOUS
  <2>5. IsSeq(Span(v, r))
    BY <2>1, <2>3, <2>4, SpanWithin
  <2> QED BY <1>2, <2>2, <2>4, <2>5 DEF PreviousSlice
<1> QED BY <1>1, <1>2

\* A range of the combined arenas reads a sequence.
LEMMA CombinedRangeSeq ==
  ASSUME NEW c, NEW d, SparseOk(c, d), NEW p, UpdateOn(d, p), NEW a \in Arenas,
         NEW r, r \in [begin : Nat, count : Nat]
  PROVE  IsSeq(CombinedRange(c, p.c, a, r))
<1>1. /\ IsSeq(c.arena[a]) /\ IsSeq(p.c.arena[a])
      /\ p.c.base[a] = Length(c.arena[a]) /\ Length(c.arena[a]) \in Nat
  <2>1. IsSeq(c.arena[a]) /\ IsSeq(p.c.arena[a])
    BY UpdateOnKeeps, Zenon DEF SparseOk, CacheOk, ArenaSeqs
  <2>2. p.c.base = Sizes(c.arena)
    BY UpdateOnKeeps, Zenon DEF SparseOk
  <2> QED BY <2>1, <2>2, LengthSeq DEF Sizes, Length
<1>2. PICK v : v = c.arena[a]
  OBVIOUS
<1>3. PICK w : w = p.c.arena[a]
  OBVIOUS
<1>4. PICK base : base = p.c.base[a]
  OBVIOUS
<1>5. base \in Nat /\ IsSeq(v) /\ IsSeq(w) /\ r.begin \in Nat /\ r.count \in Nat
  BY <1>1, <1>2, <1>3, <1>4
<1>6. IsSeq(CombinedSpan(v, w, base, r))
  <2>1. CASE r.begin < base
    BY <1>5, <2>1, EmptyIsSeq, SpanWithin DEF CombinedSpan
  <2>2. CASE ~(r.begin < base)
    <3>1. PICK x : x = [r EXCEPT !.begin = @ - base]
      BY Zenon
    <3>2. x.begin \in Nat /\ x.count \in Nat
      BY <1>5, <2>2, <3>1
    <3>3. IsSeq(Span(w, x))
      BY <1>5, <3>2, SpanWithin
    <3> QED BY <2>2, <3>1, <3>3 DEF CombinedSpan
  <2> QED BY <2>1, <2>2
<1> QED BY <1>2, <1>3, <1>4, <1>6 DEF CombinedRange

\* The replacement slice of a changed Source is a sequence.
LEMMA ReplacementSliceSeq ==
  ASSUME NEW c, NEW d, SparseOk(c, d), NEW p, UpdateOn(d, p), NEW a \in Arenas,
         NEW s \in ToSet(d.changed)
  PROVE  IsSeq(ReplacementSlice(c, p.c, s, a))
<1>1. p.c.sources[s] \in Slices \cup {NoState}
  BY UpdateOnKeeps DEF SparseOk
<1>2. CASE p.c.sources[s] = NoState
  BY <1>2, EmptyIsSeq DEF ReplacementSlice
<1>3. CASE p.c.sources[s] # NoState
  <2>1. PICK r : r = p.c.sources[s][a]
    OBVIOUS
  <2>2. r \in [begin : Nat, count : Nat]
    BY <1>1, <1>3, <2>1, RangeReads
  <2>3. IsSeq(CombinedRange(c, p.c, a, r))
    BY <2>2, CombinedRangeSeq
  <2> QED BY <1>3, <2>1, <2>3 DEF ReplacementSlice
<1> QED BY <1>2, <1>3

\* The touched handles are a sequence.
LEMMA TouchSeq ==
  ASSUME NEW touched, IsSeq(touched), NEW h
  PROVE  IsSeq(Touch(touched, h))
BY AppendSeq DEF Touch

\* A refusal keeps the captured contributions.
LEMMA RefusedOn ==
  ASSUME NEW c, NEW d, SparseOk(c, d), NEW p, UpdateOn(d, p), NEW code
  PROVE  UpdateOn(d, Refused(p, code))
BY DEF SparseOk, SparseShape, UpdateShape, UpdateOn, Refused

\* A subtracted declaration keeps the captured contributions.
LEMMA SubtractTypeOn ==
  ASSUME NEW c, NEW d, SparseOk(c, d), NEW p, UpdateOn(d, p), NEW g, NEW s, NEW i
  PROVE  UpdateOn(d, SubtractType(c, g, p, s, i))
BY TouchSeq, Zenon DEF SparseOk, SparseShape, UpdateShape, UpdateOn, SubtractType, SetConstruction, Refused

\* An added declaration keeps the captured contributions.
LEMMA AddTypeOn ==
  ASSUME NEW c, NEW d, SparseOk(c, d), NEW p, UpdateOn(d, p), NEW g, NEW s, NEW i
  PROVE  UpdateOn(d, AddType(c, g, p, s, i))
BY TouchSeq, Zenon DEF SparseOk, SparseShape, UpdateShape, UpdateOn, AddType, SetConstruction, Refused

\* A rematerialised type keeps the captured contributions.
LEMMA MaterializeTypeOn ==
  ASSUME NEW c, NEW d, SparseOk(c, d), NEW p, UpdateOn(d, p), NEW g, NEW h
  PROVE  UpdateOn(d, MaterializeType(c, g, p, h))
BY Zenon DEF SparseOk, SparseShape, UpdateShape, UpdateOn, MaterializeType, Refused

\* A retired object keeps the captured contributions.
LEMMA RetireObjectOn ==
  ASSUME NEW c, NEW d, SparseOk(c, d), NEW p, UpdateOn(d, p), NEW g, NEW o
  PROVE  UpdateOn(d, RetireObject(g, p, o))
BY Zenon DEF SparseOk, SparseShape, UpdateShape, UpdateOn, RetireObject, Refused

\* A retired link keeps the captured contributions.
LEMMA RetireLinkOn ==
  ASSUME NEW c, NEW d, SparseOk(c, d), NEW p, UpdateOn(d, p), NEW g, NEW l
  PROVE  UpdateOn(d, RetireLink(g, p, l))
BY Zenon DEF SparseOk, SparseShape, UpdateShape, UpdateOn, RetireLink, Refused

\* A claimed object keeps the captured contributions.
LEMMA ClaimObjectOn ==
  ASSUME NEW c, NEW d, SparseOk(c, d), NEW p, UpdateOn(d, p), NEW g, NEW o
  PROVE  UpdateOn(d, ClaimObject(c, g, p, o))
BY Zenon DEF SparseOk, SparseShape, UpdateShape, UpdateOn, ClaimObject, Refused

\* A claimed link keeps the captured contributions.
LEMMA ClaimLinkOn ==
  ASSUME NEW c, NEW d, SparseOk(c, d), NEW p, UpdateOn(d, p), NEW g, NEW l
  PROVE  UpdateOn(d, ClaimLink(g, p, l))
BY Zenon DEF SparseOk, SparseShape, UpdateShape, UpdateOn, ClaimLink, Refused

----------------------------------------------------------------------------
(* The canonical records. *)

\* The position of the first element x of a sequence, 0 when there is none.
First(q, x) == LET hits == {i \in DOMAIN q : q[i] = x} IN IF hits = {} THEN 0 ELSE Min(hits)

\* The least element of a non-empty set of naturals belongs to it.
LEMMA LeastOf ==
  ASSUME NEW T \in SUBSET Nat, T # {}
  PROVE  Min(T) \in T
<1>1. \E x \in T : \A y \in T : x <= y
  BY LeastNat, Zenon
<1> QED BY <1>1, Zenon DEF Min

\* What First finds.
LEMMA FirstIs ==
  ASSUME NEW q, IsSeq(q), NEW x
  PROVE  /\ First(q, x) \in 0..Length(q)
         /\ First(q, x) # 0 => q[First(q, x)] = x
         /\ First(q, x) = 0 => \A i \in 1..Length(q) : q[i] # x
<1> DEFINE hits == {i \in DOMAIN q : q[i] = x}
<1>1. DOMAIN q = 1..Length(q) /\ Length(q) \in Nat
  BY LengthSeq
<1>2. CASE hits = {}
  BY <1>1, <1>2 DEF First
<1>3. CASE hits # {}
  <2>1. hits \in SUBSET Nat /\ hits \in SUBSET (1..Length(q)) /\ \A i \in hits : q[i] = x
    BY <1>1
  <2>2. First(q, x) = Min(hits)
    BY <1>3 DEF First
  <2> HIDE DEF hits
  <2>3. Min(hits) \in hits
    BY <1>3, <2>1, LeastOf
  <2>4. Min(hits) \in 1..Length(q) /\ q[Min(hits)] = x
    BY <2>1, <2>3, Zenon
  <2> QED BY <1>1, <2>2, <2>4
<1> QED BY <1>2, <1>3

\* find_identity() is the first slot with the identity.
LEMMA FindIdentityIs ==
  ASSUME NEW g, NEW identity
  PROVE  FindIdentity(g, identity) = First(g.identities, identity)
BY DEF FindIdentity, FirstWhere, First

\* The same for objects.
LEMMA FindObjectIs ==
  ASSUME NEW g, NEW identity
  PROVE  FindObjectIdentity(g, identity) = First(g.object_identities, identity)
BY DEF FindObjectIdentity, FirstWhere, First

\* The slot find_link() starts from has the target.
LEMMA FindLinkIs ==
  ASSUME NEW g, IsSeq(g.links), NEW target
  PROVE  /\ FindLinkRaw(g, target) \in 0..Length(g.links)
         /\ FindLinkRaw(g, target) # 0 => g.links[FindLinkRaw(g, target)].target = target
<1> DEFINE hits == {i \in DOMAIN g.links : g.links[i].target = target}
<1>1. DOMAIN g.links = 1..Length(g.links) /\ Length(g.links) \in Nat
  BY LengthSeq
<1>2. CASE hits = {}
  BY <1>1, <1>2 DEF FindLinkRaw, FirstWhere
<1>3. CASE hits # {}
  <2>1. hits \in SUBSET Nat /\ hits \in SUBSET (1..Length(g.links))
        /\ \A i \in hits : g.links[i].target = target
    BY <1>1
  <2>2. FindLinkRaw(g, target) = Min(hits)
    BY <1>3 DEF FindLinkRaw, FirstWhere
  <2> HIDE DEF hits
  <2>3. Min(hits) \in hits
    BY <1>3, <2>1, LeastOf
  <2>4. Min(hits) \in 1..Length(g.links) /\ g.links[Min(hits)].target = target
    BY <2>1, <2>3, Zenon
  <2> QED BY <1>1, <2>2, <2>4
<1> QED BY <1>2, <1>3

----------------------------------------------------------------------------

Named(h) == [kind |-> "named", detail |-> "", child |-> h]
Intrinsic(x) == [kind |-> "intrinsic", detail |-> x, child |-> 0]
Modified(m, ref) == [kind |-> "derived", detail |-> m, child |-> ref]

\* Records of different kinds, bases or modifiers differ.
LEMMA RecordsDiffer ==
  /\ \A h, k : Named(h) = Named(k) => h = k
  /\ \A x, y : Intrinsic(x) = Intrinsic(y) => x = y
  /\ \A h, x : Named(h) # Intrinsic(x)
  /\ \A h, m, ref : Named(h) # Modified(m, ref)
  /\ \A x, m, ref : Intrinsic(x) # Modified(m, ref)
<1>1. ASSUME NEW h, NEW k, Named(h) = Named(k) PROVE h = k
  <2>1. Named(h).child = h /\ Named(k).child = k
    BY DEF Named
  <2> QED BY <1>1, <2>1
<1>2. ASSUME NEW x, NEW y, Intrinsic(x) = Intrinsic(y) PROVE x = y
  <2>1. Intrinsic(x).detail = x /\ Intrinsic(y).detail = y
    BY DEF Intrinsic
  <2> QED BY <1>2, <2>1
<1>3. /\ \A h : Named(h).kind = "named"
      /\ \A x : Intrinsic(x).kind = "intrinsic"
      /\ \A m, ref : Modified(m, ref).kind = "derived"
  BY DEF Named, Intrinsic, Modified
<1>4. "named" # "intrinsic" /\ "named" # "derived" /\ "intrinsic" # "derived"
  OBVIOUS
<1>5. \A h, x : Named(h) # Intrinsic(x)
  BY <1>3, <1>4
<1>6. \A h, m, ref : Named(h) # Modified(m, ref)
  BY <1>3, <1>4
<1>7. \A x, m, ref : Intrinsic(x) # Modified(m, ref)
  BY <1>3, <1>4
<1> QED BY <1>1, <1>2, <1>5, <1>6, <1>7

\* The canonical records can, the named cache named and the intrinsic cache intr
\* agree: no record twice, and a cache entry for every named or intrinsic record.
CanonOk(can, named, intr) ==
  /\ IsSeq(can)
  /\ \A i, j \in 1..Length(can) : can[i] = can[j] => i = j
  /\ \A h \in Nat : named[h] # 0 => named[h] \in 1..Length(can) /\ can[named[h]] = Named(h)
  /\ \A i \in 1..Length(can) : \A h : can[i] = Named(h) => h \in Nat \ {0} /\ named[h] = i
  /\ \A i \in 1..Length(can) : \A x : can[i] = Intrinsic(x) => x \in Intrinsics /\ intr[x] = i

\* What one more record of a sequence without repetitions keeps.
LEMMA AppendDistinct ==
  ASSUME NEW can, IsSeq(can), \A i, j \in 1..Length(can) : can[i] = can[j] => i = j,
         NEW x, \A i \in 1..Length(can) : can[i] # x
  PROVE  /\ IsSeq(Append(can, x)) /\ Length(Append(can, x)) = Length(can) + 1
         /\ Length(can) \in Nat
         /\ \A i \in 1..Length(can) : Append(can, x)[i] = can[i]
         /\ Append(can, x)[Length(can) + 1] = x
         /\ \A i, j \in 1..(Length(can) + 1) : Append(can, x)[i] = Append(can, x)[j] => i = j
<1>1. PICK q : q = Append(can, x)
  BY Zenon
<1>2. PICK n \in Nat : n = Length(can)
  BY LengthSeq
<1>3. /\ IsSeq(q) /\ Length(q) = n + 1 /\ \A i \in 1..n : q[i] = can[i]
      /\ q[n + 1] = x
  BY <1>1, <1>2, AppendSeq DEF Length
<1>4. ASSUME NEW i \in 1..(n + 1), NEW j \in 1..(n + 1), q[i] = q[j] PROVE i = j
  <2>1. i \in 1..n \/ i = n + 1
    OBVIOUS
  <2>2. j \in 1..n \/ j = n + 1
    OBVIOUS
  <2>3. CASE i \in 1..n /\ j \in 1..n
    BY <1>2, <1>3, <1>4, <2>3
  <2>4. CASE i \in 1..n /\ j = n + 1
    BY <1>2, <1>3, <1>4, <2>4
  <2>5. CASE i = n + 1 /\ j \in 1..n
    BY <1>2, <1>3, <1>4, <2>5
  <2> QED BY <2>1, <2>2, <2>3, <2>4, <2>5
<1> QED BY <1>1, <1>2, <1>3, <1>4

\* A named record that is not there is added with its cache entry.
LEMMA CanonNamed ==
  ASSUME NEW can, NEW named, NEW intr, CanonOk(can, named, intr), NEW h \in Nat \ {0},
         \A i \in 1..Length(can) : can[i] # Named(h),
         NEW new, \A k \in Nat : new[k] = IF k = h THEN Length(can) + 1 ELSE named[k]
  PROVE  CanonOk(Append(can, Named(h)), new, intr)
<1>1. PICK q : q = Append(can, Named(h))
  BY Zenon
<1>2. PICK n : n = Length(can)
  OBVIOUS
<1>3. /\ IsSeq(q) /\ Length(q) = n + 1 /\ n \in Nat
      /\ \A i \in 1..n : q[i] = can[i]
      /\ q[n + 1] = Named(h)
      /\ \A i, j \in 1..(n + 1) : q[i] = q[j] => i = j
  <2>1. IsSeq(can) /\ \A i, j \in 1..Length(can) : can[i] = can[j] => i = j
    BY DEF CanonOk
  <2>2. PICK record : record = Named(h)
    OBVIOUS
  <2>3. \A i \in 1..Length(can) : can[i] # record
    BY <2>2
  <2>4. /\ IsSeq(Append(can, record)) /\ Length(Append(can, record)) = Length(can) + 1
        /\ Length(can) \in Nat
        /\ \A i \in 1..Length(can) : Append(can, record)[i] = can[i]
        /\ Append(can, record)[Length(can) + 1] = record
        /\ \A i, j \in 1..(Length(can) + 1) :
             Append(can, record)[i] = Append(can, record)[j] => i = j
    BY <2>1, <2>3, AppendDistinct, Zenon
  <2>5. q = Append(can, record)
    BY <1>1, <2>2
  <2> QED BY <1>2, <2>2, <2>4, <2>5
<1>4. ASSUME NEW k \in Nat, new[k] # 0 PROVE new[k] \in 1..(n + 1) /\ q[new[k]] = Named(k)
  <2>1. CASE k = h
    BY <1>2, <1>3, <2>1
  <2>2. CASE k # h
    BY <1>2, <1>3, <1>4, <2>2 DEF CanonOk
  <2> QED BY <2>1, <2>2
<1>5. ASSUME NEW i \in 1..(n + 1), NEW k, q[i] = Named(k) PROVE k \in Nat \ {0} /\ new[k] = i
  <2>1. CASE i = n + 1
    BY <1>2, <1>3, <1>5, <2>1, RecordsDiffer
  <2>2. CASE i # n + 1
    <3>1. i \in 1..n
      BY <1>3, <2>2
    <3>2. can[i] = Named(k)
      BY <1>3, <1>5, <3>1
    <3>3. k \in Nat \ {0} /\ named[k] = i
      BY <1>2, <3>1, <3>2 DEF CanonOk
    <3>4. k # h
      BY <1>2, <3>1, <3>2
    <3> QED BY <3>3, <3>4
  <2> QED BY <2>1, <2>2
<1>6. ASSUME NEW i \in 1..(n + 1), NEW x, q[i] = Intrinsic(x) PROVE x \in Intrinsics /\ intr[x] = i
  <2>1. i # n + 1
    BY <1>3, <1>6, RecordsDiffer
  <2>2. i \in 1..n
    BY <1>3, <2>1
  <2> QED BY <1>2, <1>3, <1>6, <2>2 DEF CanonOk
<1> QED BY <1>1, <1>3, <1>4, <1>5, <1>6, Zenon DEF CanonOk

\* The same for an intrinsic record.
LEMMA CanonIntrinsic ==
  ASSUME NEW can, NEW named, NEW intr, CanonOk(can, named, intr), NEW x \in Intrinsics,
         \A i \in 1..Length(can) : can[i] # Intrinsic(x),
         NEW new, \A y \in Intrinsics : new[y] = IF y = x THEN Length(can) + 1 ELSE intr[y]
  PROVE  CanonOk(Append(can, Intrinsic(x)), named, new)
<1>1. PICK q : q = Append(can, Intrinsic(x))
  BY Zenon
<1>2. PICK n : n = Length(can)
  OBVIOUS
<1>3. /\ IsSeq(q) /\ Length(q) = n + 1 /\ n \in Nat
      /\ \A i \in 1..n : q[i] = can[i]
      /\ q[n + 1] = Intrinsic(x)
      /\ \A i, j \in 1..(n + 1) : q[i] = q[j] => i = j
  <2>1. IsSeq(can) /\ \A i, j \in 1..Length(can) : can[i] = can[j] => i = j
    BY DEF CanonOk
  <2>2. PICK record : record = Intrinsic(x)
    OBVIOUS
  <2>3. \A i \in 1..Length(can) : can[i] # record
    BY <2>2
  <2>4. /\ IsSeq(Append(can, record)) /\ Length(Append(can, record)) = Length(can) + 1
        /\ Length(can) \in Nat
        /\ \A i \in 1..Length(can) : Append(can, record)[i] = can[i]
        /\ Append(can, record)[Length(can) + 1] = record
        /\ \A i, j \in 1..(Length(can) + 1) :
             Append(can, record)[i] = Append(can, record)[j] => i = j
    BY <2>1, <2>3, AppendDistinct, Zenon
  <2>5. q = Append(can, record)
    BY <1>1, <2>2
  <2> QED BY <1>2, <2>2, <2>4, <2>5
<1>4. ASSUME NEW k \in Nat, named[k] # 0 PROVE named[k] \in 1..(n + 1) /\ q[named[k]] = Named(k)
  BY <1>2, <1>3, <1>4 DEF CanonOk
<1>5. ASSUME NEW i \in 1..(n + 1), NEW k, q[i] = Named(k) PROVE k \in Nat \ {0} /\ named[k] = i
  <2>1. i # n + 1
    BY <1>3, <1>5, RecordsDiffer
  <2>2. i \in 1..n
    BY <1>3, <2>1
  <2> QED BY <1>2, <1>3, <1>5, <2>2 DEF CanonOk
<1>6. ASSUME NEW i \in 1..(n + 1), NEW y, q[i] = Intrinsic(y) PROVE y \in Intrinsics /\ new[y] = i
  <2>1. CASE i = n + 1
    BY <1>2, <1>3, <1>6, <2>1, RecordsDiffer
  <2>2. CASE i # n + 1
    <3>1. i \in 1..n
      BY <1>3, <2>2
    <3>2. can[i] = Intrinsic(y)
      BY <1>3, <1>6, <3>1
    <3>3. y \in Intrinsics /\ intr[y] = i
      BY <1>2, <3>1, <3>2 DEF CanonOk
    <3>4. y # x
      BY <1>2, <3>1, <3>2
    <3> QED BY <3>3, <3>4
  <2> QED BY <2>1, <2>2
<1> QED BY <1>1, <1>3, <1>4, <1>5, <1>6, Zenon DEF CanonOk

\* A derived record has no cache entry.
LEMMA CanonModified ==
  ASSUME NEW can, NEW named, NEW intr, CanonOk(can, named, intr), NEW m, NEW ref,
         \A i \in 1..Length(can) : can[i] # Modified(m, ref)
  PROVE  CanonOk(Append(can, Modified(m, ref)), named, intr)
<1>1. PICK q : q = Append(can, Modified(m, ref))
  BY Zenon
<1>2. PICK n : n = Length(can)
  OBVIOUS
<1>3. /\ IsSeq(q) /\ Length(q) = n + 1 /\ n \in Nat
      /\ \A i \in 1..n : q[i] = can[i]
      /\ q[n + 1] = Modified(m, ref)
      /\ \A i, j \in 1..(n + 1) : q[i] = q[j] => i = j
  <2>1. IsSeq(can) /\ \A i, j \in 1..Length(can) : can[i] = can[j] => i = j
    BY DEF CanonOk
  <2>2. PICK record : record = Modified(m, ref)
    OBVIOUS
  <2>3. \A i \in 1..Length(can) : can[i] # record
    BY <2>2
  <2>4. /\ IsSeq(Append(can, record)) /\ Length(Append(can, record)) = Length(can) + 1
        /\ Length(can) \in Nat
        /\ \A i \in 1..Length(can) : Append(can, record)[i] = can[i]
        /\ Append(can, record)[Length(can) + 1] = record
        /\ \A i, j \in 1..(Length(can) + 1) :
             Append(can, record)[i] = Append(can, record)[j] => i = j
    BY <2>1, <2>3, AppendDistinct, Zenon
  <2>5. q = Append(can, record)
    BY <1>1, <2>2
  <2> QED BY <1>2, <2>2, <2>4, <2>5
<1>4. ASSUME NEW k \in Nat, named[k] # 0 PROVE named[k] \in 1..(n + 1) /\ q[named[k]] = Named(k)
  BY <1>2, <1>3, <1>4 DEF CanonOk
<1>5. ASSUME NEW i \in 1..(n + 1), NEW k, q[i] = Named(k) PROVE k \in Nat \ {0} /\ named[k] = i
  <2>1. i # n + 1
    BY <1>3, <1>5, RecordsDiffer
  <2>2. i \in 1..n
    BY <1>3, <2>1
  <2> QED BY <1>2, <1>3, <1>5, <2>2 DEF CanonOk
<1>6. ASSUME NEW i \in 1..(n + 1), NEW x, q[i] = Intrinsic(x) PROVE x \in Intrinsics /\ intr[x] = i
  <2>1. i # n + 1
    BY <1>3, <1>6, RecordsDiffer
  <2>2. i \in 1..n
    BY <1>3, <2>1
  <2> QED BY <1>2, <1>3, <1>6, <2>2 DEF CanonOk
<1> QED BY <1>1, <1>3, <1>4, <1>5, <1>6, Zenon DEF CanonOk

----------------------------------------------------------------------------
(* The slots of a Graph. *)

GraphFields ==
  {"types", "identities", "members", "enum_values", "objects", "object_identities", "links",
   "canonical", "intrinsic_refs", "named_refs", "derived_entries", "versions", "heads",
   "edges", "live", "index", "capacity", "backed"}

\* The named cache as a function on all handles, and the slots of a Graph.
NamedFn(named_refs) == [h \in Nat |-> IF h \in DOMAIN named_refs THEN named_refs[h] ELSE 0]

TypeSlotsOk(types, identities, named_refs) ==
  /\ IsSeq(types) /\ IsSeq(identities) /\ IsSeq(named_refs)
  /\ Length(identities) = Length(types) /\ Length(named_refs) = Length(types)

ObjectSlotsOk(objects, identities) ==
  IsSeq(objects) /\ IsSeq(identities) /\ Length(identities) = Length(objects)

LinksOk(links) ==
  /\ IsSeq(links)
  /\ \A h \in 1..Length(links) : links[h] \in [source : {links[h].source}, target : {links[h].target}]

RefsOk(can, named, intr) == CanonOk(can, named, intr) /\ DOMAIN intr = Intrinsics

\* The arrays of a Graph fit together.
GraphOk(g) ==
  /\ DOMAIN g = GraphFields
  /\ TypeSlotsOk(g.types, g.identities, g.named_refs)
  /\ ObjectSlotsOk(g.objects, g.object_identities)
  /\ LinksOk(g.links)
  /\ RefsOk(g.canonical, NamedFn(g.named_refs), g.intrinsic_refs)

\* Every slot of a sequence is live.
AllLive(slots) == \A h \in 1..Length(slots) : "live" \in DOMAIN slots[h] /\ slots[h].live = TRUE

\* A detached Graph under construction.
FullOk(g) == GraphOk(g) /\ AllLive(g.types) /\ AllLive(g.objects)

\* The empty Graph fits together.
LEMMA EmptyGraphOk == FullOk(EmptyGraph)
<1>1. PICK g : g = EmptyGraph
  OBVIOUS
<1>2. /\ DOMAIN g = GraphFields
      /\ g.types = <<>> /\ g.identities = <<>> /\ g.named_refs = <<>>
      /\ g.objects = <<>> /\ g.object_identities = <<>> /\ g.links = <<>>
      /\ g.canonical = <<>> /\ g.intrinsic_refs = [i \in Intrinsics |-> 0]
  BY <1>1 DEF EmptyGraph, GraphFields
<1>3. IsSeq(<<>>) /\ Length(<<>>) = 0
  BY EmptyIsSeq DEF Length
<1>4. TypeSlotsOk(<<>>, <<>>, <<>>) /\ ObjectSlotsOk(<<>>, <<>>) /\ LinksOk(<<>>) /\ AllLive(<<>>)
  BY <1>3 DEF TypeSlotsOk, ObjectSlotsOk, LinksOk, AllLive
<1>5. RefsOk(<<>>, NamedFn(<<>>), [i \in Intrinsics |-> 0])
  <2>1. \A h \in Nat : NamedFn(<<>>)[h] = 0
    BY DEF NamedFn
  <2> QED BY <1>3, <2>1 DEF RefsOk, CanonOk
<1> QED BY <1>1, <1>2, <1>4, <1>5 DEF FullOk, GraphOk

\* A new slot is live and has no TypeRef yet.
LEMMA NewSlotOk ==
  ASSUME NEW g, FullOk(g), NEW entry, "live" \in DOMAIN entry, entry.live = TRUE, NEW identity
  PROVE  /\ FullOk(NewSlot(g, entry, identity))
         /\ Length(NewSlot(g, entry, identity).types) = Length(g.types) + 1
<1>1. PICK v : v = NewSlot(g, entry, identity)
  OBVIOUS
<1>2. DOMAIN g = GraphFields /\ TypeSlotsOk(g.types, g.identities, g.named_refs)
      /\ AllLive(g.types)
  BY DEF FullOk, GraphOk
<1>3. /\ DOMAIN v = GraphFields
      /\ v.types = Append(g.types, entry) /\ v.identities = Append(g.identities, identity)
      /\ v.named_refs = Append(g.named_refs, 0)
      /\ v.objects = g.objects /\ v.object_identities = g.object_identities
      /\ v.links = g.links /\ v.canonical = g.canonical /\ v.intrinsic_refs = g.intrinsic_refs
  BY <1>1, <1>2 DEF NewSlot, GraphFields
<1>4. PICK n \in Nat : n = Length(g.types)
  BY <1>2, LengthSeq DEF TypeSlotsOk
<1>5. /\ IsSeq(v.types) /\ Length(v.types) = n + 1
      /\ \A h \in 1..n : v.types[h] = g.types[h]
      /\ v.types[n + 1] = entry
  BY <1>2, <1>3, <1>4, AppendSeq DEF TypeSlotsOk, Length
<1>6. IsSeq(v.identities) /\ Length(v.identities) = n + 1
  BY <1>2, <1>3, <1>4, AppendSeq DEF TypeSlotsOk, Length
<1>7. /\ IsSeq(v.named_refs) /\ Length(v.named_refs) = n + 1
      /\ \A h \in 1..n : v.named_refs[h] = g.named_refs[h]
      /\ v.named_refs[n + 1] = 0
  BY <1>2, <1>3, <1>4, AppendSeq DEF TypeSlotsOk, Length
<1>8. AllLive(v.types)
  <2>1. ASSUME NEW h \in 1..(n + 1)
        PROVE  "live" \in DOMAIN v.types[h] /\ v.types[h].live = TRUE
    <3>1. CASE h \in 1..n
      BY <1>2, <1>4, <1>5, <3>1 DEF AllLive
    <3>2. CASE h = n + 1
      BY <1>5, <3>2
    <3>3. h \in 1..n \/ h = n + 1
      OBVIOUS
    <3> QED BY <3>1, <3>2, <3>3, Zenon
  <2> QED BY <1>5, <2>1, Zenon DEF AllLive
<1>9. NamedFn(v.named_refs) = NamedFn(g.named_refs)
  <2>1. DOMAIN v.named_refs = 1..(n + 1) /\ DOMAIN g.named_refs = 1..n
    BY <1>2, <1>4, <1>7, LengthSeq DEF TypeSlotsOk
  <2>2. \A h \in Nat : (IF h \in DOMAIN v.named_refs THEN v.named_refs[h] ELSE 0)
                         = (IF h \in DOMAIN g.named_refs THEN g.named_refs[h] ELSE 0)
    BY <1>7, <2>1
  <2> QED BY <2>2 DEF NamedFn
<1>10. TypeSlotsOk(v.types, v.identities, v.named_refs)
  BY <1>5, <1>6, <1>7 DEF TypeSlotsOk
<1> QED BY <1>1, <1>3, <1>4, <1>5, <1>8, <1>9, <1>10 DEF FullOk, GraphOk

\* A sequence with one element replaced.
Put(q, h, x) == [q EXCEPT ![h] = x]

\* A sequence with one element replaced keeps its length.
LEMMA PutSeq ==
  ASSUME NEW q, IsSeq(q), NEW h, NEW x
  PROVE  /\ IsSeq(Put(q, h, x)) /\ Length(Put(q, h, x)) = Length(q)
         /\ \A i \in 1..Length(q) : Put(q, h, x)[i] = IF i = h THEN x ELSE q[i]
<1>1. PICK n \in Nat : n = Length(q) /\ DOMAIN q = 1..n
  BY LengthSeq
<1>2. PICK r : r = Put(q, h, x)
  OBVIOUS
<1>3. r = [i \in 1..n |-> r[i]] /\ \A i \in 1..n : r[i] = IF i = h THEN x ELSE q[i]
  BY <1>1, <1>2, Zenon DEF Put
<1>4. IsSeq(r) /\ Len(r) = n
  BY <1>3, FunctionIsSeq
<1> QED BY <1>1, <1>2, <1>3, <1>4 DEF Length

\* A slot replaced by a live one.
LEMMA SlotSetOk ==
  ASSUME NEW g, FullOk(g), NEW h, NEW entry,
         "live" \in DOMAIN entry, entry.live = TRUE,
         NEW v, DOMAIN v = GraphFields, v.types = Put(g.types, h, entry),
         v.identities = g.identities, v.named_refs = g.named_refs,
         v.objects = g.objects, v.object_identities = g.object_identities,
         v.links = g.links, v.canonical = g.canonical, v.intrinsic_refs = g.intrinsic_refs
  PROVE  FullOk(v) /\ Length(v.types) = Length(g.types)
<1>1. PICK n \in Nat : n = Length(g.types) /\ IsSeq(g.types)
  BY LengthSeq DEF TypeSlotsOk, FullOk, GraphOk
<1>2. /\ IsSeq(v.types) /\ Length(v.types) = n
      /\ \A i \in 1..n : v.types[i] = IF i = h THEN entry ELSE g.types[i]
  BY <1>1, PutSeq
<1>3. AllLive(v.types)
  <2>1. ASSUME NEW i \in 1..n PROVE "live" \in DOMAIN v.types[i] /\ v.types[i].live = TRUE
    <3>1. CASE i = h
      BY <1>1, <1>2, <3>1
    <3>2. CASE i # h
      <4>1. v.types[i] = g.types[i]
        BY <1>2, <3>2
      <4> QED BY <1>1, <4>1 DEF AllLive, FullOk
    <3> QED BY <3>1, <3>2, Zenon
  <2> QED BY <1>2, <2>1, Zenon DEF AllLive
<1>4. TypeSlotsOk(v.types, v.identities, v.named_refs)
  BY <1>1, <1>2 DEF TypeSlotsOk, FullOk, GraphOk
<1> QED BY <1>1, <1>2, <1>3, <1>4 DEF FullOk, GraphOk

----------------------------------------------------------------------------
(* The construction states. *)

StateFields ==
  {"declarations", "definitions", "definition_type", "record_struct", "record_class",
   "record_union", "enum_scoped", "enum_unscoped", "enum_fixed", "fixed_underlying", "kind"}

\* The definition a construction state points at is one of the n declarations.
StateOk(x, n) ==
  /\ DOMAIN x = StateFields
  /\ x.definitions # 0 => x.definition_type \in 1..n

\* The empty construction state has no definition.
LEMMA EmptyStateOk == ASSUME NEW n PROVE StateOk(EmptyConstruction, n)
BY DEF EmptyConstruction, StateOk, StateFields

\* A construction state stays valid when declarations are added.
LEMMA StateGrows ==
  ASSUME NEW n \in Nat, NEW m \in Nat, NEW x, StateOk(x, n)
  PROVE  StateOk(x, n + m)
BY DEF StateOk

\* Aggregating one more declaration keeps the definition inside.
LEMMA AddConstructionOk ==
  ASSUME NEW n, NEW x, StateOk(x, n), NEW t, NEW i,
         t.definition => i \in 1..n,
         AddConstruction(x, t, i).status = "ok"
  PROVE  StateOk(AddConstruction(x, t, i).value, n)
<1> DEFINE counter == IF t.kind = "record" THEN RecordCounter(t)
                      ELSE IF t.scoped THEN "enum_scoped" ELSE "enum_unscoped"
           counted == [x EXCEPT !.kind = t.kind,
                                !.declarations = @ + 1, ![counter] = @ + 1]
           fixes == t.kind = "enumeration" /\ t.underlying # "none"
           typed == IF fixes
                    THEN [counted EXCEPT !.enum_fixed = @ + 1,
                                         !.fixed_underlying = t.underlying]
                    ELSE counted
           result == IF t.definition
                     THEN [typed EXCEPT !.definitions = 1, !.definition_type = i]
                     ELSE typed
<1>1. counter \in {"record_struct", "record_class", "record_union", "enum_scoped", "enum_unscoped"}
  BY DEF RecordCounter
<1>2. AddConstruction(x, t, i).value = result
  <2>1. AddConstruction(x, t, i) = Ok(result) \/ AddConstruction(x, t, i) = Fail("semantic_conflict")
    BY DEF AddConstruction
  <2>2. Fail("semantic_conflict").status # "ok" /\ Ok(result).value = result
    BY DEF Fail, Ok
  <2> QED BY <2>1, <2>2
<1> HIDE DEF counter
<1>3. /\ DOMAIN counted = StateFields /\ counted.definitions = x.definitions
      /\ counted.definition_type = x.definition_type
  BY <1>1, Zenon DEF StateOk, StateFields
<1> HIDE DEF counted
<1>4. /\ DOMAIN typed = StateFields /\ typed.definitions = x.definitions
      /\ typed.definition_type = x.definition_type
  BY <1>3 DEF StateFields
<1> HIDE DEF typed
<1>5. CASE t.definition
  <2>1. DOMAIN result = StateFields /\ result.definition_type = i
    BY <1>4, <1>5 DEF StateFields
  <2> QED BY <1>2, <1>5, <2>1 DEF StateOk
<1>6. CASE ~t.definition
  BY <1>2, <1>4, <1>6 DEF StateOk
<1> QED BY <1>5, <1>6

\* Taking one away too.
LEMMA RemoveConstructionOk ==
  ASSUME NEW n, NEW x, StateOk(x, n), NEW t, NEW i,
         RemoveConstruction(x, t, i).status = "ok"
  PROVE  StateOk(RemoveConstruction(x, t, i).value, n)
<1> DEFINE counter == IF t.kind = "record" THEN RecordCounter(t)
                      ELSE IF t.scoped THEN "enum_scoped" ELSE "enum_unscoped"
           fixes == t.kind = "enumeration" /\ t.underlying # "none"
           undefined == IF t.definition
                        THEN [x EXCEPT !.definitions = 0, !.definition_type = 0]
                        ELSE x
           untyped == IF fixes
                      THEN [undefined EXCEPT !.enum_fixed = @ - 1,
                             !.fixed_underlying = IF x.enum_fixed = 1 THEN "none" ELSE @]
                      ELSE undefined
           less == [untyped EXCEPT ![counter] = @ - 1, !.declarations = @ - 1]
           result == IF x.declarations = 1 THEN EmptyConstruction ELSE less
<1>1. counter \in {"record_struct", "record_class", "record_union", "enum_scoped", "enum_unscoped"}
  BY DEF RecordCounter
<1>2. RemoveConstruction(x, t, i).value = result
  <2>1. RemoveConstruction(x, t, i) = Ok(result) \/ RemoveConstruction(x, t, i) = Fail("invalid_argument")
    BY Zenon DEF RemoveConstruction
  <2>2. Fail("invalid_argument").status # "ok" /\ Ok(result).value = result
    BY DEF Fail, Ok
  <2> QED BY <2>1, <2>2, Zenon
<1> HIDE DEF counter
<1>3. /\ DOMAIN undefined = StateFields
      /\ undefined.definitions # 0 => undefined.definition_type \in 1..n
  BY DEF StateOk, StateFields
<1> HIDE DEF undefined
<1>4. /\ DOMAIN untyped = StateFields /\ untyped.definitions = undefined.definitions
      /\ untyped.definition_type = undefined.definition_type
  BY <1>3 DEF StateFields
<1> HIDE DEF untyped
<1>5. /\ DOMAIN less = StateFields /\ less.definitions = untyped.definitions
      /\ less.definition_type = untyped.definition_type
  BY <1>1, <1>4 DEF StateFields
<1> HIDE DEF less
<1>6. StateOk(less, n)
  BY <1>3, <1>4, <1>5 DEF StateOk
<1> QED BY <1>2, <1>6, EmptyStateOk

\* The construction states of a full build: one per slot.
StatesOk(states, slots, n) ==
  /\ IsSeq(states) /\ Length(states) = slots
  /\ \A h \in 1..Length(states) : StateOk(states[h], n)

\* A full build under way over the captured cache c.
BuildOk(c, b) ==
  /\ BuildOn(c, b) /\ FullOk(b.g)
  /\ StatesOk(b.cache.construction, Length(b.g.types), Length(c.arena["types"]))

\* The fields of a full build under way.
LEMMA BuildFields ==
  ASSUME NEW c, CacheShape(c), NEW b, BuildOk(c, b)
  PROVE  /\ b.cache.arena = c.arena
         /\ "status" \in DOMAIN b /\ "cache" \in DOMAIN b /\ "g" \in DOMAIN b /\ "refs" \in DOMAIN b
         /\ "construction" \in DOMAIN b.cache /\ DOMAIN b.g = GraphFields
BY SameContributionsKeep DEF BuildOk, BuildOn, SameContributions, CacheShape, FullOk, GraphOk

\* A step that changes neither Graph nor construction states.
LEMMA BuildKeeps ==
  ASSUME NEW c, NEW b, BuildOk(c, b), NEW v, BuildOn(c, v), v.g = b.g,
         v.cache.construction = b.cache.construction
  PROVE  BuildOk(c, v)
BY DEF BuildOk

----------------------------------------------------------------------------
(* The Graph a full build makes. *)

\* A merged declaration keeps the slot live.
LEMMA MergedLive ==
  ASSUME NEW e, "live" \in DOMAIN e, e.live = TRUE, NEW t
  PROVE  "live" \in DOMAIN MergedEntry(e, t) /\ MergedEntry(e, t).live = TRUE
BY DEF MergedEntry

\* The first declaration of a type makes a live slot.
LEMMA FirstLive ==
  ASSUME NEW t
  PROVE  "live" \in DOMAIN FirstEntry(t) /\ FirstEntry(t).live = TRUE
BY DEF FirstEntry, NoEntry

\* The build after a declaration.
Declared(b, cons, g) == [b EXCEPT !.cache.construction = cons, !.g = g]

\* A declaration of the type pass.
LEMMA DeclareFullOk ==
  ASSUME NEW c, CacheShape(c), NEW b, BuildOk(c, b), NEW i \in 1..Length(c.arena["types"])
  PROVE  BuildOk(c, DeclareFull(b, i))
<1> DEFINE t == b.cache.arena["types"][i]
           found == FindIdentity(b.g, t.identity)
           h == IF found # 0 THEN found ELSE Len(b.g.types) + 1
           known == h \in DOMAIN b.cache.construction
           old == IF known THEN b.cache.construction[h] ELSE EmptyConstruction
           state == AddConstruction(old, t, i)
<1>1. PICK n \in Nat : n = Length(b.g.types)
  BY LengthSeq DEF BuildOk, FullOk, GraphOk, TypeSlotsOk
<1>2. PICK m : m = Length(c.arena["types"])
  OBVIOUS
<1>3. /\ FullOk(b.g) /\ IsSeq(b.cache.construction) /\ Length(b.cache.construction) = n
      /\ \A k \in 1..n : StateOk(b.cache.construction[k], m)
      /\ DOMAIN b.cache.construction = 1..n
  BY <1>1, <1>2, LengthSeq DEF BuildOk, StatesOk
<1>4. found \in 0..n
  BY <1>1, FindIdentityIs, FirstIs DEF BuildOk, FullOk, GraphOk, TypeSlotsOk
<1>5. Len(b.g.types) = n
  BY <1>1 DEF Length
<1>6. h \in 1..(n + 1) /\ (known <=> h # n + 1)
  BY <1>3, <1>4, <1>5
<1>7. PICK v : v = DeclareFull(b, i)
  OBVIOUS
<1>8. BuildOn(c, v)
  BY <1>7, DeclareFullOn DEF BuildOk
<1>9. CASE b.status # "ok"
  BY <1>7, <1>9, Zenon DEF DeclareFull
<1>10. CASE b.status = "ok" /\ state.status # "ok"
  <2>1. v = [b EXCEPT !.status = state.status]
    BY <1>7, <1>10, Zenon DEF DeclareFull
  <2>2. v.g = b.g /\ v.cache = b.cache
    BY <2>1, BuildFields
  <2> QED BY <1>7, <1>8, <2>2, BuildKeeps
<1>11. CASE b.status = "ok" /\ state.status = "ok"
  <2>1. StateOk(old, m)
    BY <1>3, <1>6, EmptyStateOk
  <2> HIDE DEF old, t
  <2>3. StateOk(state.value, m)
    BY <1>2, <1>11, <2>1, AddConstructionOk
  <2>4. v = Declared(b, IF known THEN Put(b.cache.construction, h, state.value)
                        ELSE Append(b.cache.construction, state.value),
                     IF known THEN MergeSlot(b.g, h, t) ELSE NewSlot(b.g, FirstEntry(t), t.identity))
    <3>1. DeclareFull(b, i) =
            IF b.status # "ok" THEN b
            ELSE IF state.status # "ok" THEN [b EXCEPT !.status = state.status]
            ELSE Declared(b, IF known THEN Put(b.cache.construction, h, state.value)
                             ELSE Append(b.cache.construction, state.value),
                          IF known THEN MergeSlot(b.g, h, t)
                          ELSE NewSlot(b.g, FirstEntry(t), t.identity))
      BY Zenon DEF DeclareFull, old, t, Declared, Put
    <3> QED BY <1>7, <1>11, <3>1, Zenon
  <2> HIDE DEF state, known, h
  <2>5. CASE known
    <3>1. h \in 1..n
      BY <1>1, <1>6, <2>5
    <3>2. v.cache.construction = Put(b.cache.construction, h, state.value)
          /\ v.g = MergeSlot(b.g, h, t)
      <4>1. v = Declared(b, Put(b.cache.construction, h, state.value), MergeSlot(b.g, h, t))
        BY <2>4, <2>5
      <4> QED BY <4>1, BuildFields DEF Declared
    <3>3. PICK entry : entry = MergedEntry(b.g.types[h], t)
      OBVIOUS
    <3>4. "live" \in DOMAIN entry /\ entry.live = TRUE
      BY <1>1, <1>3, <3>1, <3>3, MergedLive, Zenon DEF FullOk, AllLive
    <3>5. /\ DOMAIN v.g = GraphFields /\ v.g.types = [b.g.types EXCEPT ![h] = entry]
          /\ v.g.identities = b.g.identities /\ v.g.named_refs = b.g.named_refs
          /\ v.g.objects = b.g.objects /\ v.g.object_identities = b.g.object_identities
          /\ v.g.links = b.g.links /\ v.g.canonical = b.g.canonical
          /\ v.g.intrinsic_refs = b.g.intrinsic_refs
      BY <3>2, <3>3, BuildFields DEF GraphFields, MergeSlot
    <3>9. v.g.types = Put(b.g.types, h, entry)
      BY <3>5 DEF Put
    <3>10. PICK gg : gg = b.g
      OBVIOUS
    <3>11. PICK w : w = v.g
      OBVIOUS
    <3>12. FullOk(w) /\ Length(w.types) = Length(gg.types)
      <4>1. PICK k : k = h
        OBVIOUS
      <4>2. FullOk(gg) /\ "live" \in DOMAIN entry /\ entry.live = TRUE
        BY <1>3, <3>4, <3>10
      <4>3. /\ DOMAIN w = GraphFields /\ w.types = Put(gg.types, k, entry)
            /\ w.identities = gg.identities /\ w.named_refs = gg.named_refs
            /\ w.objects = gg.objects /\ w.object_identities = gg.object_identities
            /\ w.links = gg.links /\ w.canonical = gg.canonical
            /\ w.intrinsic_refs = gg.intrinsic_refs
        BY <3>5, <3>9, <3>10, <3>11, <4>1
      <4> QED BY <4>2, <4>3, SlotSetOk, Zenon
    <3>6. FullOk(v.g) /\ Length(v.g.types) = n
      BY <1>1, <3>10, <3>11, <3>12
    <3>13. PICK q : q = b.cache.construction
      OBVIOUS
    <3>14. PICK x : x = state.value
      OBVIOUS
    <3>15. v.cache.construction = Put(q, h, x)
      BY <3>2, <3>13, <3>14
    <3>7. /\ IsSeq(v.cache.construction) /\ Length(v.cache.construction) = n
          /\ \A k \in 1..n : v.cache.construction[k] =
               IF k = h THEN state.value ELSE b.cache.construction[k]
      BY <1>3, <3>13, <3>14, <3>15, PutSeq
    <3>8. \A k \in 1..n : StateOk(v.cache.construction[k], m)
      BY <1>3, <2>3, <3>7
    <3> QED BY <1>2, <1>7, <1>8, <3>6, <3>7, <3>8 DEF BuildOk, StatesOk
  <2>6. CASE ~known
    <3>2. v.cache.construction = Append(b.cache.construction, state.value)
          /\ v.g = NewSlot(b.g, FirstEntry(t), t.identity)
      <4>1. v = Declared(b, Append(b.cache.construction, state.value),
                         NewSlot(b.g, FirstEntry(t), t.identity))
        BY <2>4, <2>6
      <4> QED BY <4>1, BuildFields DEF Declared
    <3>3. FullOk(v.g) /\ Length(v.g.types) = n + 1
      <4>1. PICK entry : entry = FirstEntry(t)
        OBVIOUS
      <4>2. "live" \in DOMAIN entry /\ entry.live = TRUE
        BY <4>1, FirstLive, Zenon
      <4>3. PICK gg : gg = b.g
        OBVIOUS
      <4>4. PICK identity : identity = t.identity
        OBVIOUS
      <4>5. /\ FullOk(NewSlot(gg, entry, identity))
            /\ Length(NewSlot(gg, entry, identity).types) = Length(gg.types) + 1
        BY <1>3, <4>2, <4>3, NewSlotOk, Zenon
      <4> QED BY <1>1, <3>2, <4>1, <4>3, <4>4, <4>5
    <3>4. PICK q : q = b.cache.construction
      OBVIOUS
    <3>5. PICK r : r = Append(q, state.value)
      BY Zenon
    <3>6. /\ IsSeq(r) /\ Length(r) = n + 1 /\ \A k \in 1..n : r[k] = q[k]
          /\ r[n + 1] = state.value
      BY <1>3, <3>4, <3>5, AppendSeq DEF Length
    <3>7. ASSUME NEW k \in 1..(n + 1) PROVE StateOk(r[k], m)
      <4>1. k \in 1..n \/ k = n + 1
        BY <1>1
      <4> QED BY <1>3, <2>3, <3>4, <3>6, <4>1
    <3>8. v.cache.construction = r
      BY <3>2, <3>4, <3>5
    <3> QED BY <1>2, <1>7, <1>8, <3>3, <3>6, <3>7, <3>8 DEF BuildOk, StatesOk
  <2> QED BY <2>5, <2>6
<1> QED BY <1>7, <1>9, <1>10, <1>11, Zenon

\* The type pass of a full build leaves live slots and one construction state
\* for each.
LEMMA DeclareTypesOk ==
  ASSUME NEW c, CacheOk(c), c.construction = <<>>
  PROVE  BuildOk(c, DeclareTypes(c))
<1> DEFINE seq == Indices(c.arena["types"])
           n == Length(c.arena["types"])
<1>1. n \in Nat /\ DOMAIN seq = 1..n /\ \A i \in 1..n : seq[i] = i
  <2>1. IsSeq(c.arena["types"])
    BY DEF CacheOk, ArenaSeqs, Arenas
  <2> QED BY <2>1, LengthSeq DEF Indices
<1>2. CacheShape(c)
  BY DEF CacheOk
<1>3. PICK tr : Traced(tr, "declare", <<>>, StartBuild(c), seq, n, DeclareTypes(c))
  BY <1>1, DeclareTypesTrace
<1> DEFINE S == {m \in 0..n : BuildOk(c, tr[m])}
<1>4. 0 \in S
  <2>1. PICK b : b = StartBuild(c)
    OBVIOUS
  <2>2. /\ BuildOn(c, b) /\ b.g = EmptyGraph /\ b.cache = c
    BY <1>2, <2>1 DEF CacheShape, SameContributions, BuildOn, StartBuild
  <2>3. EmptyGraph.types = <<>> /\ Length(<<>>) = 0 /\ IsSeq(<<>>)
    BY EmptyIsSeq DEF EmptyGraph, Length
  <2>4. BuildOk(c, b)
    BY <2>2, <2>3, EmptyGraphOk DEF BuildOk, StatesOk
  <2>5. tr[0] = b
    BY <1>3, <2>1 DEF Traced
  <2> QED BY <1>1, <2>4, <2>5
<1>5. ASSUME NEW m \in 0..(n-1), m \in S PROVE m + 1 \in S
  <2>1. m + 1 \in 1..n /\ m + 1 \in 0..n /\ m + 1 - 1 = m
    BY <1>1
  <2>2. tr[m+1] = DeclareFull(tr[m], seq[m+1])
    BY <1>3, <2>1 DEF Traced, Step
  <2> QED BY <1>1, <1>2, <1>5, <2>1, <2>2, DeclareFullOk
<1>6. 0..n \subseteq S
  <2> HIDE DEF S, n
  <2> QED BY <1>1, <1>4, <1>5, SetInduction, Zenon
<1>7. DeclareTypes(c) = tr[n]
  BY <1>3 DEF Traced
<1> QED BY <1>1, <1>6, <1>7

\* The Graph v has the slots of the Graph g.
SameSlots(g, v) ==
  /\ DOMAIN v = GraphFields
  /\ v.types = g.types /\ v.identities = g.identities
  /\ v.objects = g.objects /\ v.object_identities = g.object_identities
  /\ v.links = g.links

\* Records and caches that agree keep a Graph with the same slots consistent.
LEMMA SameSlotsOk ==
  ASSUME NEW g, FullOk(g), NEW v, SameSlots(g, v),
         IsSeq(v.named_refs), Length(v.named_refs) = Length(g.types),
         RefsOk(v.canonical, NamedFn(v.named_refs), v.intrinsic_refs)
  PROVE  FullOk(v)
BY DEF SameSlots, FullOk, GraphOk, TypeSlotsOk

\* canonical_ref: a record that is there is found, any other is appended.
LEMMA CanonicalFullIs ==
  ASSUME NEW g, NEW x
  PROVE  LET found == First(g.canonical, x) IN
         CanonicalFull(g, x) =
           IF found # 0 THEN [g |-> g, ref |-> found]
           ELSE [g |-> [g EXCEPT !.canonical = Append(@, x),
                                 !.derived_entries = IF x.kind = "derived" THEN @ + 1 ELSE @],
                 ref |-> Len(g.canonical) + 1]
BY DEF CanonicalFull, FirstWhere, First

\* What the record x of a Graph becomes when it is looked up.
CanonicalStep(g, x, v, ref) ==
  LET found == First(g.canonical, x) IN
  IF found # 0 THEN v = g /\ ref = found
  ELSE /\ DOMAIN v = DOMAIN g
       /\ \A f \in GraphFields \ {"canonical", "derived_entries"} : v[f] = g[f]
       /\ v.canonical = Append(g.canonical, x) /\ ref = Length(g.canonical) + 1

\* What canonical_ref writes, field by field.
LEMMA CanonicalFullSteps ==
  ASSUME NEW g, DOMAIN g = GraphFields, NEW x
  PROVE  CanonicalStep(g, x, CanonicalFull(g, x).g, CanonicalFull(g, x).ref)
<1>1. CASE First(g.canonical, x) # 0
  BY <1>1, CanonicalFullIs, Zenon DEF CanonicalStep
<1>2. CASE First(g.canonical, x) = 0
  <2>1. PICK n : n = IF x.kind = "derived" THEN g.derived_entries + 1 ELSE g.derived_entries
    OBVIOUS
  <2>2. PICK q : q = Append(g.canonical, x)
    BY Zenon
  <2>3. PICK v : v = [g EXCEPT !.canonical = q, !.derived_entries = n]
    OBVIOUS
  <2>4. CanonicalFull(g, x) = [g |-> v, ref |-> Len(g.canonical) + 1]
    BY <1>2, <2>1, <2>2, <2>3, CanonicalFullIs, Zenon
  <2>5. DOMAIN v = GraphFields /\ v.canonical = q
        /\ \A f \in GraphFields \ {"canonical", "derived_entries"} : v[f] = g[f]
    BY <2>3, Zenon DEF GraphFields
  <2> QED BY <1>2, <2>2, <2>4, <2>5 DEF CanonicalStep, Length
<1> QED BY <1>1, <1>2

\* One modifier around a TypeRef.
LEMMA DerivedOneOk ==
  ASSUME NEW g, FullOk(g), NEW m, NEW ref
  PROVE  LET r == CanonicalFull(g, Modified(m, ref)) IN FullOk(r.g) /\ SameSlots(g, r.g)
<1>1. PICK v, k : v = CanonicalFull(g, Modified(m, ref)).g /\ k = CanonicalFull(g, Modified(m, ref)).ref
  OBVIOUS
<1>2. DOMAIN g = GraphFields
  BY DEF FullOk, GraphOk
<1>3. PICK x : x = Modified(m, ref)
  OBVIOUS
<1>4. CanonicalStep(g, x, v, k)
  BY <1>1, <1>2, <1>3, CanonicalFullSteps
<1>5. CASE First(g.canonical, x) # 0
  BY <1>1, <1>2, <1>4, <1>5 DEF CanonicalStep, SameSlots
<1>6. CASE First(g.canonical, x) = 0
  <2>1. /\ SameSlots(g, v) /\ v.canonical = Append(g.canonical, x)
        /\ v.named_refs = g.named_refs /\ v.intrinsic_refs = g.intrinsic_refs
    BY <1>2, <1>4, <1>6 DEF CanonicalStep, SameSlots, GraphFields
  <2>2. RefsOk(g.canonical, NamedFn(g.named_refs), g.intrinsic_refs)
        /\ IsSeq(g.named_refs) /\ Length(g.named_refs) = Length(g.types)
    BY DEF FullOk, GraphOk, TypeSlotsOk
  <2>3. \A i \in 1..Length(g.canonical) : g.canonical[i] # Modified(m, ref)
    BY <1>3, <1>6, <2>2, FirstIs DEF RefsOk, CanonOk
  <2>4. PICK can, named, intr : can = g.canonical /\ named = NamedFn(g.named_refs)
                                /\ intr = g.intrinsic_refs
    OBVIOUS
  <2>5. CanonOk(Append(can, Modified(m, ref)), named, intr)
    BY <2>2, <2>3, <2>4, CanonModified DEF RefsOk
  <2> QED BY <1>1, <1>3, <2>1, <2>2, <2>4, <2>5, SameSlotsOk, Zenon DEF RefsOk
<1> QED BY <1>5, <1>6

\* The named cache with one entry set.
LEMMA NamedFnPut ==
  ASSUME NEW q, IsSeq(q), NEW h \in 1..Length(q), NEW x
  PROVE  /\ IsSeq(Put(q, h, x)) /\ Length(Put(q, h, x)) = Length(q)
         /\ \A k \in Nat : NamedFn(Put(q, h, x))[k] = IF k = h THEN x ELSE NamedFn(q)[k]
<1>1. PICK n \in Nat : n = Length(q) /\ DOMAIN q = 1..n
  BY LengthSeq
<1>2. PICK r : r = Put(q, h, x)
  OBVIOUS
<1>3. IsSeq(r) /\ Length(r) = n /\ \A i \in 1..n : r[i] = IF i = h THEN x ELSE q[i]
  BY <1>1, <1>2, PutSeq
<1>4. DOMAIN r = 1..n
  BY <1>3, LengthSeq
<1>5. ASSUME NEW k \in Nat PROVE NamedFn(r)[k] = IF k = h THEN x ELSE NamedFn(q)[k]
  <2>1. /\ NamedFn(r)[k] = IF k \in DOMAIN r THEN r[k] ELSE 0
        /\ NamedFn(q)[k] = IF k \in DOMAIN q THEN q[k] ELSE 0
    BY DEF NamedFn
  <2> QED BY <1>1, <1>3, <1>4, <2>1
<1> QED BY <1>1, <1>2, <1>3, <1>5

\* The named cache is a function on the naturals.
LEMMA NamedFnIs ==
  ASSUME NEW q
  PROVE  NamedFn(q) = [k \in Nat |-> NamedFn(q)[k]]
BY DEF NamedFn

NamedFull(g, h) ==
  LET r == CanonicalFull(g, [kind |-> "named", detail |-> "", child |-> h])
  IN [r EXCEPT !.g.named_refs[h] = r.ref]

IntrinsicFull(g, x) ==
  LET r == CanonicalFull(g, [kind |-> "intrinsic", detail |-> x, child |-> 0])
  IN [r EXCEPT !.g.intrinsic_refs[x] = r.ref]

\* The TypeRef of a declared type is recorded once and cached.
LEMMA NamedFullOk ==
  ASSUME NEW g, FullOk(g), NEW h \in 1..Length(g.types)
  PROVE  FullOk(NamedFull(g, h).g) /\ SameSlots(g, NamedFull(g, h).g)
<1>1. PICK r : r = CanonicalFull(g, Named(h))
  OBVIOUS
<1>2. PICK v, k : v = r.g /\ k = r.ref
  OBVIOUS
<1>3. DOMAIN g = GraphFields /\ IsSeq(g.named_refs) /\ Length(g.named_refs) = Length(g.types)
      /\ Length(g.types) \in Nat /\ RefsOk(g.canonical, NamedFn(g.named_refs), g.intrinsic_refs)
  BY LengthSeq DEF FullOk, GraphOk, TypeSlotsOk
<1>4. PICK x : x = Named(h)
  OBVIOUS
<1>5. CanonicalStep(g, x, v, k)
  BY <1>1, <1>2, <1>3, <1>4, CanonicalFullSteps
<1>6. PICK w : w = [v EXCEPT !.named_refs = Put(v.named_refs, h, k)]
  BY Zenon
<1>7. NamedFull(g, h).g = w
  <2>1. DOMAIN r = {"g", "ref"}
    BY <1>1, CanonicalFullIs, Zenon
  <2>2. NamedFull(g, h) = [r EXCEPT !.g.named_refs[h] = r.ref]
    BY <1>1, Zenon DEF NamedFull, Named
  <2>3. NamedFull(g, h).g = [r.g EXCEPT !.named_refs[h] = r.ref]
    BY <2>1, <2>2
  <2> QED BY <1>2, <1>6, <2>3 DEF Put
<1>8. PICK q, named, intr, can : /\ q = Put(g.named_refs, h, k) /\ named = NamedFn(g.named_refs)
                                 /\ intr = g.intrinsic_refs /\ can = g.canonical
  OBVIOUS
<1>9. DOMAIN v = GraphFields /\ v.named_refs = g.named_refs /\ SameSlots(g, v)
      /\ v.intrinsic_refs = intr
  BY <1>3, <1>5, <1>8 DEF CanonicalStep, GraphFields, SameSlots
<1>10. /\ SameSlots(g, w) /\ w.named_refs = q /\ w.canonical = v.canonical
       /\ w.intrinsic_refs = intr
  BY <1>6, <1>8, <1>9 DEF SameSlots, GraphFields
<1>11. /\ IsSeq(q) /\ Length(q) = Length(g.types)
       /\ \A i \in Nat : NamedFn(q)[i] = IF i = h THEN k ELSE named[i]
  BY <1>3, <1>8, NamedFnPut
<1>12. RefsOk(w.canonical, NamedFn(q), intr)
  <2>1. CanonOk(can, named, intr) /\ DOMAIN intr = Intrinsics /\ h \in Nat \ {0}
    BY <1>3, <1>8 DEF RefsOk
  <2>2. CASE First(can, x) # 0
    <3>1. w.canonical = can /\ k = First(can, x)
      BY <1>5, <1>8, <1>10, <2>2 DEF CanonicalStep
    <3>2. k \in 1..Length(can) /\ can[k] = Named(h)
      BY <1>4, <2>1, <2>2, <3>1, FirstIs DEF CanonOk
    <3>3. named[h] = k
      BY <2>1, <3>2 DEF CanonOk
    <3>4. PICK m : m = NamedFn(q)
      OBVIOUS
    <3>5. m = named
      <4>1. \A i \in Nat : m[i] = named[i]
        BY <1>11, <3>3, <3>4
      <4>2. m = [i \in Nat |-> m[i]] /\ named = [i \in Nat |-> named[i]]
        BY <1>8, <3>4, NamedFnIs
      <4> QED BY <4>1, <4>2
    <3> QED BY <2>1, <3>1, <3>4, <3>5 DEF RefsOk
  <2>3. CASE First(can, x) = 0
    <3>1. w.canonical = Append(can, Named(h)) /\ k = Length(can) + 1
      BY <1>4, <1>5, <1>8, <1>10, <2>3 DEF CanonicalStep
    <3>2. \A i \in 1..Length(can) : can[i] # Named(h)
      BY <1>4, <2>1, <2>3, FirstIs DEF CanonOk
    <3>3. PICK m : m = NamedFn(q)
      OBVIOUS
    <3>4. \A i \in Nat : m[i] = IF i = h THEN Length(can) + 1 ELSE named[i]
      BY <1>11, <3>1, <3>3
    <3>5. CanonOk(Append(can, Named(h)), m, intr)
      BY <2>1, <3>2, <3>4, CanonNamed
    <3> QED BY <2>1, <3>1, <3>3, <3>5 DEF RefsOk
  <2> QED BY <2>2, <2>3
<1> QED BY <1>7, <1>10, <1>11, <1>12, SameSlotsOk

\* The same for an intrinsic type.
LEMMA IntrinsicFullOk ==
  ASSUME NEW g, FullOk(g), NEW y \in Intrinsics
  PROVE  FullOk(IntrinsicFull(g, y).g) /\ SameSlots(g, IntrinsicFull(g, y).g)
<1>1. PICK r : r = CanonicalFull(g, Intrinsic(y))
  OBVIOUS
<1>2. PICK v, k : v = r.g /\ k = r.ref
  OBVIOUS
<1>3. DOMAIN g = GraphFields /\ IsSeq(g.named_refs) /\ Length(g.named_refs) = Length(g.types)
      /\ RefsOk(g.canonical, NamedFn(g.named_refs), g.intrinsic_refs)
  BY DEF FullOk, GraphOk, TypeSlotsOk
<1>4. PICK x : x = Intrinsic(y)
  OBVIOUS
<1>5. CanonicalStep(g, x, v, k)
  BY <1>1, <1>2, <1>3, <1>4, CanonicalFullSteps
<1>6. PICK w : w = [v EXCEPT !.intrinsic_refs = Put(v.intrinsic_refs, y, k)]
  BY Zenon
<1>7. IntrinsicFull(g, y).g = w
  <2>1. DOMAIN r = {"g", "ref"}
    BY <1>1, CanonicalFullIs, Zenon
  <2>2. IntrinsicFull(g, y) = [r EXCEPT !.g.intrinsic_refs[y] = r.ref]
    BY <1>1 DEF IntrinsicFull, Intrinsic
  <2>3. IntrinsicFull(g, y).g = [r.g EXCEPT !.intrinsic_refs[y] = r.ref]
    BY <2>1, <2>2
  <2> QED BY <1>2, <1>6, <2>3 DEF Put
<1>8. PICK q, named, intr, can : /\ q = Put(g.intrinsic_refs, y, k) /\ named = NamedFn(g.named_refs)
                                 /\ intr = g.intrinsic_refs /\ can = g.canonical
  OBVIOUS
<1>9. DOMAIN v = GraphFields /\ v.named_refs = g.named_refs /\ SameSlots(g, v)
      /\ v.intrinsic_refs = intr
  BY <1>3, <1>5, <1>8 DEF CanonicalStep, GraphFields, SameSlots
<1>10. /\ SameSlots(g, w) /\ w.intrinsic_refs = q /\ w.canonical = v.canonical
       /\ w.named_refs = g.named_refs
  BY <1>6, <1>8, <1>9 DEF SameSlots, GraphFields
<1>11. DOMAIN q = Intrinsics /\ \A z \in Intrinsics : q[z] = IF z = y THEN k ELSE intr[z]
  BY <1>3, <1>8 DEF RefsOk, Put
<1>12. RefsOk(w.canonical, named, q)
  <2>1. CanonOk(can, named, intr) /\ DOMAIN intr = Intrinsics
    BY <1>3, <1>8 DEF RefsOk
  <2>2. CASE First(can, x) # 0
    <3>1. w.canonical = can /\ k = First(can, x)
      BY <1>5, <1>8, <1>10, <2>2 DEF CanonicalStep
    <3>2. k \in 1..Length(can) /\ can[k] = Intrinsic(y)
      BY <1>4, <2>1, <2>2, <3>1, FirstIs DEF CanonOk
    <3>3. intr[y] = k
      BY <2>1, <3>2 DEF CanonOk
    <3>4. \A z \in Intrinsics : q[z] = intr[z]
      BY <1>11, <3>1, <3>3
    <3>5. CanonOk(can, named, q)
      BY <2>1, <3>4 DEF CanonOk
    <3> QED BY <1>11, <3>1, <3>5 DEF RefsOk
  <2>3. CASE First(can, x) = 0
    <3>1. w.canonical = Append(can, Intrinsic(y)) /\ k = Length(can) + 1
      BY <1>4, <1>5, <1>8, <1>10, <2>3 DEF CanonicalStep
    <3>2. \A i \in 1..Length(can) : can[i] # Intrinsic(y)
      BY <1>4, <2>1, <2>3, FirstIs DEF CanonOk
    <3>4. \A z \in Intrinsics : q[z] = IF z = y THEN Length(can) + 1 ELSE intr[z]
      BY <1>11, <3>1
    <3>5. CanonOk(Append(can, Intrinsic(y)), named, q)
      BY <2>1, <3>2, <3>4, CanonIntrinsic
    <3> QED BY <1>11, <3>1, <3>5 DEF RefsOk
  <2> QED BY <2>2, <2>3
<1> QED BY <1>3, <1>7, <1>8, <1>10, <1>12, SameSlotsOk

\* Keeping the slots is transitive.
LEMMA SameSlotsTwice ==
  ASSUME NEW g, NEW v, SameSlots(g, v), NEW w, SameSlots(v, w)
  PROVE  SameSlots(g, w)
BY DEF SameSlots

\* The modifiers of a reference, inner first.
LEMMA DerivedFullOk ==
  ASSUME NEW g, NEW base, FullOk(base.g), SameSlots(g, base.g), NEW modifiers, IsSeq(modifiers)
  PROVE  FullOk(DerivedFull(base, modifiers).g) /\ SameSlots(g, DerivedFull(base, modifiers).g)
<1> DEFINE n == Length(modifiers)
<1>1. n \in Nat /\ DOMAIN modifiers = 1..n
  BY LengthSeq
<1>2. PICK tr : Traced(tr, "derive", <<>>, base, modifiers, n, DerivedFull(base, modifiers))
  BY <1>1, DerivedFullTrace
<1> DEFINE S == {m \in 0..n : FullOk(tr[m].g) /\ SameSlots(g, tr[m].g)}
<1>3. 0 \in S
  BY <1>1, <1>2 DEF Traced
<1>4. ASSUME NEW m \in 0..(n-1), m \in S PROVE m + 1 \in S
  <2>1. m + 1 \in 1..n /\ m + 1 \in 0..n /\ m + 1 - 1 = m
    BY <1>1
  <2>2. tr[m+1] = CanonicalFull(tr[m].g, Modified(modifiers[m+1], tr[m].ref))
    BY <1>2, <2>1 DEF Traced, Step, Modified
  <2>3. PICK v, x, k : v = tr[m].g /\ x = modifiers[m+1] /\ k = tr[m].ref
    OBVIOUS
  <2>4. FullOk(v) /\ SameSlots(g, v)
    BY <1>4, <2>3
  <2>5. FullOk(CanonicalFull(v, Modified(x, k)).g) /\ SameSlots(v, CanonicalFull(v, Modified(x, k)).g)
    BY <2>4, DerivedOneOk
  <2>6. tr[m+1] = CanonicalFull(v, Modified(x, k))
    BY <2>2, <2>3
  <2> QED BY <2>1, <2>4, <2>5, <2>6, SameSlotsTwice
<1>5. 0..n \subseteq S
  <2> HIDE DEF S, n
  <2> QED BY <1>1, <1>3, <1>4, SetInduction
<1>6. DerivedFull(base, modifiers) = tr[n]
  BY <1>2 DEF Traced
<1> QED BY <1>1, <1>5, <1>6

\* The TypeRef of a well-formed type whose identity is declared.
LEMMA TypeRefFullOk ==
  ASSUME NEW c, ArenaSeqs(c.arena), NEW g, FullOk(g), NEW type, TypeOk(type),
         type.identity = NoIdentity \/ FindIdentity(g, type.identity) # 0
  PROVE  FullOk(TypeRefFull(c, g, type).g) /\ SameSlots(g, TypeRefFull(c, g, type).g)
<1> DEFINE h == FindIdentity(g, type.identity)
           base == IF type.identity # NoIdentity THEN NamedFull(g, h)
                   ELSE IntrinsicFull(g, type.intrinsic)
<1>1. TypeRefFull(c, g, type) = DerivedFull(base, Span(c.arena["modifiers"], type.modifiers))
  BY DEF TypeRefFull, NamedFull, IntrinsicFull
<1>2. FullOk(base.g) /\ SameSlots(g, base.g)
  <2>1. CASE type.identity # NoIdentity
    <3>1. h \in 1..Length(g.types)
      <4>1. IsSeq(g.identities) /\ Length(g.identities) = Length(g.types) /\ Length(g.types) \in Nat
        BY LengthSeq DEF FullOk, GraphOk, TypeSlotsOk
      <4>2. h \in 0..Length(g.identities) /\ h # 0
        BY <2>1, <4>1, FindIdentityIs, FirstIs
      <4> QED BY <4>1, <4>2
    <3>2. PICK k : k = h
      OBVIOUS
    <3>3. FullOk(NamedFull(g, k).g) /\ SameSlots(g, NamedFull(g, k).g)
      BY <3>1, <3>2, NamedFullOk
    <3> QED BY <2>1, <3>2, <3>3
  <2>2. CASE type.identity = NoIdentity
    <3>1. PICK y : y = type.intrinsic
      OBVIOUS
    <3>2. FullOk(IntrinsicFull(g, y).g) /\ SameSlots(g, IntrinsicFull(g, y).g)
      BY <2>2, <3>1, IntrinsicFullOk DEF TypeOk
    <3> QED BY <2>2, <3>1, <3>2
  <2> QED BY <2>1, <2>2
<1> HIDE DEF base
<1>3. IsSeq(Span(c.arena["modifiers"], type.modifiers))
  <2>1. IsSeq(c.arena["modifiers"])
    BY DEF ArenaSeqs, Arenas
  <2>2. type.modifiers.begin \in Nat /\ type.modifiers.count \in Nat
    BY DEF TypeOk, Ranges
  <2> QED BY <2>1, <2>2, SpanWithin
<1> QED BY <1>1, <1>2, <1>3, DerivedFullOk

\* The identities that members and objects name are in the Graph.
BasesIn(c, identities) ==
  \A f \in {"members", "objects"} : \A i \in 1..Length(c.arena[f]) :
     \/ c.arena[f][i].type.identity = NoIdentity
     \/ First(identities, c.arena[f][i].type.identity) # 0

\* After the type pass every identity that is named has a slot.
LEMMA BasesDeclaredIn ==
  ASSUME NEW c, CacheOk(c), NEW b, BuildOk(c, b), BasesDeclared(b)
  PROVE  BasesIn(c, b.g.identities)
<1>1. b.cache.arena = c.arena
  BY BuildFields DEF CacheOk
<1>2. ASSUME NEW f \in {"members", "objects"}, NEW i \in 1..Length(c.arena[f])
      PROVE  \/ c.arena[f][i].type.identity = NoIdentity
             \/ First(b.g.identities, c.arena[f][i].type.identity) # 0
  <2>1. IsSeq(c.arena[f])
    BY DEF CacheOk, ArenaSeqs, Arenas
  <2>2. i \in DOMAIN b.cache.arena[f]
    BY <1>1, <2>1, LengthSeq
  <2>3. \/ c.arena[f][i].type.identity = NoIdentity
        \/ FindIdentity(b.g, c.arena[f][i].type.identity) # 0
    BY <1>1, <2>2 DEF BasesDeclared
  <2> QED BY <2>3, FindIdentityIs
<1> QED BY <1>2 DEF BasesIn

\* The TypeRef of one record.
LEMMA WithTypeRefOk ==
  ASSUME NEW c, CacheOk(c), NEW b, BuildOk(c, b), BasesIn(c, b.g.identities),
         NEW f \in {"members", "objects"}, NEW i \in 1..Length(c.arena[f]), NEW x, x = c.arena[f][i]
  PROVE  LET v == WithTypeRef(b, f, TypeRefFull(b.cache, b.g, x.type)) IN
         BuildOk(c, v) /\ v.g.identities = b.g.identities
<1>1. PICK g, type : g = b.g /\ type = x.type
  OBVIOUS
<1>2. PICK d : d = b.cache
  OBVIOUS
<1>3. PICK r : r = TypeRefFull(d, g, type)
  OBVIOUS
<1>4. PICK v : v = WithTypeRef(b, f, r)
  OBVIOUS
<1>5. CacheShape(c) /\ d.arena = c.arena
  BY <1>2, BuildFields DEF CacheOk
<1>6. FullOk(r.g) /\ SameSlots(g, r.g)
  <2>1. TypeOk(type)
    <3>1. RecordOk(f, x)
      BY DEF CacheOk, ArenaOk, Arenas
    <3> QED BY <1>1, <3>1 DEF RecordOk
  <2>2. type.identity = NoIdentity \/ FindIdentity(g, type.identity) # 0
    BY <1>1, FindIdentityIs DEF BasesIn
  <2>3. ArenaSeqs(d.arena) /\ FullOk(g)
    BY <1>1, <1>5 DEF CacheOk, BuildOk
  <2> QED BY <1>3, <2>1, <2>2, <2>3, TypeRefFullOk
<1>7. v.g = r.g /\ v.cache = b.cache
  BY <1>4, <1>5, BuildFields DEF WithTypeRef
<1>8. BuildOn(c, v)
  BY <1>4, <1>5, WithTypeRefOn DEF BuildOk
<1>9. BuildOk(c, v)
  BY <1>1, <1>6, <1>7, <1>8 DEF BuildOk, SameSlots
<1> QED BY <1>1, <1>2, <1>3, <1>4, <1>6, <1>7, <1>9, Zenon DEF SameSlots

\* The TypeRefs of all members or of all objects.
LEMMA TypeRefsFullOk ==
  ASSUME NEW c, CacheOk(c), NEW b, BuildOk(c, b), BasesIn(c, b.g.identities),
         NEW f \in {"members", "objects"}
  PROVE  BuildOk(c, TypeRefsFull(b, f)) /\ TypeRefsFull(b, f).g.identities = b.g.identities
<1> DEFINE seq == b.cache.arena[f]
           n == Length(c.arena[f])
<1>1. seq = c.arena[f] /\ n \in Nat /\ DOMAIN seq = 1..n
  <2>1. IsSeq(c.arena[f])
    BY DEF CacheOk, ArenaSeqs, Arenas
  <2> QED BY <2>1, LengthSeq, BuildFields DEF CacheOk
<1>3. PICK tr : Traced(tr, "reference", <<f>>, b, seq, n, TypeRefsFull(b, f))
  BY <1>1, TypeRefsFullTrace
<1> DEFINE S == {m \in 0..n : BuildOk(c, tr[m]) /\ tr[m].g.identities = b.g.identities}
<1>4. 0 \in S
  BY <1>1, <1>3 DEF Traced
<1>5. ASSUME NEW m \in 0..(n-1), m \in S PROVE m + 1 \in S
  <2>1. m + 1 \in 1..n /\ m + 1 \in 0..n /\ m + 1 - 1 = m
    BY <1>1
  <2>2. tr[m+1] = WithTypeRef(tr[m], f, TypeRefFull(tr[m].cache, tr[m].g, seq[m+1].type))
    BY <1>3, <2>1 DEF Traced, Step
  <2>3. PICK v, x, i : v = tr[m] /\ x = seq[m+1] /\ i = m + 1
    OBVIOUS
  <2>4. BuildOk(c, v) /\ BasesIn(c, v.g.identities) /\ v.g.identities = b.g.identities
    BY <1>5, <2>3
  <2>5. i \in 1..Length(c.arena[f]) /\ x = c.arena[f][i]
    BY <1>1, <2>1, <2>3
  <2>6. LET w == WithTypeRef(v, f, TypeRefFull(v.cache, v.g, x.type)) IN
        BuildOk(c, w) /\ w.g.identities = v.g.identities
    BY <2>4, <2>5, WithTypeRefOk
  <2> QED BY <2>1, <2>2, <2>3, <2>4, <2>6
<1>6. 0..n \subseteq S
  <2> HIDE DEF S, n
  <2> QED BY <1>1, <1>4, <1>5, SetInduction, Zenon
<1>7. TypeRefsFull(b, f) = tr[n]
  BY <1>3 DEF Traced
<1> QED BY <1>1, <1>6, <1>7

\* The object pass of a full build.
LEMMA PlaceObjectsOk ==
  ASSUME NEW c, CacheOk(c), NEW b, BuildOk(c, b)
  PROVE  BuildOk(c, PlaceObjects(b))
<1>1. PICK o : o = b.cache.arena["objects"]
  OBVIOUS
<1>2. CacheShape(c) /\ b.cache.arena = c.arena /\ IsSeq(o)
  <2>1. CacheShape(c) /\ b.cache.arena = c.arena
    BY BuildFields DEF CacheOk
  <2> QED BY <1>1, <2>1 DEF CacheOk, ArenaSeqs, Arenas
<1>3. PICK n \in Nat : n = Length(o) /\ DOMAIN o = 1..n
  BY <1>2, LengthSeq
<1>4. PICK v : v = PlaceObjects(b)
  OBVIOUS
<1>5. PICK slots : slots = [i \in 1..n |-> [live |-> TRUE, type |-> b.refs["objects"][i]]]
  BY Zenon
<1>6. PICK ids : ids = [i \in 1..n |-> o[i].identity]
  BY Zenon
<1>7. v = [b EXCEPT !.g.objects = slots, !.g.object_identities = ids]
  BY <1>1, <1>3, <1>4, <1>5, <1>6, Zenon DEF PlaceObjects
<1>8. v.cache = b.cache /\ v.g = [b.g EXCEPT !.objects = slots, !.object_identities = ids]
  BY <1>2, <1>7, BuildFields
<1>9. /\ DOMAIN v.g = GraphFields /\ v.g.objects = slots /\ v.g.object_identities = ids
      /\ v.g.types = b.g.types /\ v.g.identities = b.g.identities
      /\ v.g.named_refs = b.g.named_refs /\ v.g.links = b.g.links
      /\ v.g.canonical = b.g.canonical /\ v.g.intrinsic_refs = b.g.intrinsic_refs
  BY <1>2, <1>8, BuildFields DEF GraphFields
<1>10. IsSeq(slots) /\ Length(slots) = n /\ IsSeq(ids) /\ Length(ids) = n
  <2>1. slots = [i \in 1..n |-> slots[i]] /\ ids = [i \in 1..n |-> ids[i]]
    BY <1>5, <1>6
  <2> QED BY <2>1, FunctionIsSeq DEF Length
<1>11. AllLive(slots)
  BY <1>5, <1>10 DEF AllLive
<1>12. FullOk(v.g)
  BY <1>9, <1>10, <1>11 DEF BuildOk, FullOk, GraphOk, ObjectSlotsOk
<1>13. BuildOn(c, v)
  BY <1>2, <1>4, PlaceObjectsOn DEF BuildOk
<1> QED BY <1>4, <1>8, <1>9, <1>12, <1>13 DEF BuildOk

\* A definition gives its slot a range, an enumeration its underlying type too.
Ranged(types, h, begin, count) == [types EXCEPT ![h].begin = begin, ![h].count = count]

RangedAs(types, h, begin, count, underlying) ==
  [types EXCEPT ![h].begin = begin, ![h].count = count, ![h].underlying = underlying]

\* A slot that is given its range stays live.
LEMMA RangedLive ==
  ASSUME NEW types, IsSeq(types), AllLive(types), NEW h, NEW begin, NEW count, NEW underlying
  PROVE  /\ IsSeq(Ranged(types, h, begin, count))
         /\ Length(Ranged(types, h, begin, count)) = Length(types)
         /\ AllLive(Ranged(types, h, begin, count))
         /\ IsSeq(RangedAs(types, h, begin, count, underlying))
         /\ Length(RangedAs(types, h, begin, count, underlying)) = Length(types)
         /\ AllLive(RangedAs(types, h, begin, count, underlying))
<1>1. PICK n \in Nat : n = Length(types) /\ DOMAIN types = 1..n
  BY LengthSeq
<1>2. PICK e : e = [types[h] EXCEPT !.begin = begin, !.count = count]
  OBVIOUS
<1>3. PICK r : r = Ranged(types, h, begin, count)
  OBVIOUS
<1>4. PICK s : s = RangedAs(types, h, begin, count, underlying)
  OBVIOUS
<1>5. /\ r = [i \in 1..n |-> r[i]]
      /\ \A i \in 1..n : r[i] = IF i = h THEN [[types[h] EXCEPT !.begin = begin] EXCEPT !.count = count]
                                ELSE types[i]
  BY <1>1, <1>3, Zenon DEF Ranged
<1>6. /\ s = [i \in 1..n |-> s[i]]
      /\ \A i \in 1..n : s[i] = IF i = h THEN [[[types[h] EXCEPT !.begin = begin] EXCEPT !.count = count]
                                                 EXCEPT !.underlying = underlying]
                                ELSE types[i]
  BY <1>1, <1>4, Zenon DEF RangedAs
<1>7. \A i \in 1..n : "live" \in DOMAIN types[i] /\ types[i].live = TRUE
  BY <1>1 DEF AllLive
<1>8. \A i \in 1..n : "live" \in DOMAIN r[i] /\ r[i].live = TRUE
  BY <1>5, <1>7, Zenon
<1>9. \A i \in 1..n : "live" \in DOMAIN s[i] /\ s[i].live = TRUE
  BY <1>6, <1>7, Zenon
<1>10. IsSeq(r) /\ Length(r) = n /\ IsSeq(s) /\ Length(s) = n
  BY <1>5, <1>6, FunctionIsSeq DEF Length
<1> QED BY <1>1, <1>3, <1>4, <1>8, <1>9, <1>10 DEF AllLive

\* Live slots in the place of live slots keep a Graph consistent.
LEMMA SlotsKeptOk ==
  ASSUME NEW g, FullOk(g), NEW v, DOMAIN v = GraphFields,
         IsSeq(v.types), Length(v.types) = Length(g.types), AllLive(v.types),
         v.identities = g.identities, v.named_refs = g.named_refs,
         v.objects = g.objects, v.object_identities = g.object_identities,
         v.links = g.links, v.canonical = g.canonical, v.intrinsic_refs = g.intrinsic_refs
  PROVE  FullOk(v)
BY DEF FullOk, GraphOk, TypeSlotsOk

\* The same for a build under way.
LEMMA BuildSlotsOk ==
  ASSUME NEW c, NEW b, BuildOk(c, b), NEW v, BuildOn(c, v), v.cache = b.cache,
         DOMAIN v.g = GraphFields, IsSeq(v.g.types), Length(v.g.types) = Length(b.g.types),
         AllLive(v.g.types),
         \A f \in {"identities", "named_refs", "objects", "object_identities", "links",
                   "canonical", "intrinsic_refs"} : v.g[f] = b.g[f]
  PROVE  BuildOk(c, v)
<1>1. PICK g, w : g = b.g /\ w = v.g
  OBVIOUS
<1>2. FullOk(w)
  BY <1>1, SlotsKeptOk DEF BuildOk
<1> QED BY <1>1, <1>2 DEF BuildOk

\* A definition gives its slot a range.
LEMMA DefineFullOk ==
  ASSUME NEW c, CacheShape(c), NEW b, BuildOk(c, b), NEW i
  PROVE  BuildOk(c, DefineFull(b, i))
<1> DEFINE t == b.cache.arena["types"][i]
           h == FindIdentity(b.g, t.identity)
           items == Span(b.cache.arena[IF t.kind = "record" THEN "members" ELSE "enum_values"], t.items)
           member(k) == [name |-> items[k].name, type |-> b.refs["members"][t.items.begin + k]]
           pending == [k \in DOMAIN items |->
                         [target |-> FindIdentity(b.g, items[k].type.identity),
                          owner |-> h, version |-> 1]]
           pushed == PushEdges(b.g.heads, b.g.edges,
                               SelectSeq(pending, LAMBDA e : e.target # 0))
           chosen == IF b.g.types[h].fixed \/ t.scoped THEN Ok(b.g.types[h].underlying)
                     ELSE SelectEnumUnderlying(items)
           members == [k \in DOMAIN items |-> member(k)]
<1>1. PICK v : v = DefineFull(b, i)
  OBVIOUS
<1>2. \/ v = b \/ v = [b EXCEPT !.status = chosen.status]
      \/ v = [b EXCEPT !.g.types[h].begin = Len(b.g.members) + 1,
                       !.g.types[h].count = Len(items),
                       !.g.members = @ \o members,
                       !.g.heads = pushed.heads, !.g.edges = pushed.edges]
      \/ v = [b EXCEPT !.g.types[h].begin = Len(b.g.enum_values) + 1,
                       !.g.types[h].count = Len(items),
                       !.g.types[h].underlying = chosen.value,
                       !.g.enum_values = @ \o items]
  BY <1>1, Zenon DEF DefineFull
<1> HIDE DEF t, h, items, pushed, chosen, members
<1>3. BuildOn(c, v)
  BY <1>1, DefineFullOn DEF BuildOk
<1>4. PICK types : types = b.g.types
  OBVIOUS
<1>5. IsSeq(types) /\ AllLive(types)
  BY <1>4 DEF BuildOk, FullOk, GraphOk, TypeSlotsOk
<1>6. PICK k, count, hd, ed, xs, begin : /\ k = h /\ count = Len(items) /\ hd = pushed.heads /\ ed = pushed.edges
                 /\ xs = b.g.members \o members /\ begin = Len(b.g.members) + 1
  BY Zenon
<1>7. PICK ys, start, und : ys = b.g.enum_values \o items /\ start = Len(b.g.enum_values) + 1
                             /\ und = chosen.value
  BY Zenon
<1>8. CASE v = b
  BY <1>1, <1>8
<1>9. CASE v = [b EXCEPT !.status = chosen.status]
  <2>1. v.g = b.g /\ v.cache = b.cache
    BY <1>9, BuildFields
  <2> QED BY <1>1, <1>3, <2>1, BuildKeeps
<1>10. CASE v = [b EXCEPT !.g.types[h].begin = Len(b.g.members) + 1,
                       !.g.types[h].count = Len(items),
                       !.g.members = @ \o members,
                       !.g.heads = pushed.heads, !.g.edges = pushed.edges]
  <2>1. v = [b EXCEPT !.g.types[k].begin = begin, !.g.types[k].count = count,
                      !.g.members = xs, !.g.heads = hd, !.g.edges = ed]
    BY <1>6, <1>10
  <2>2. v.cache = b.cache
        /\ v.g = [b.g EXCEPT !.types[k].begin = begin, !.types[k].count = count,
                             !.members = xs, !.heads = hd, !.edges = ed]
    BY <2>1, BuildFields, Zenon
  <2>3. /\ DOMAIN v.g = GraphFields
        /\ v.g.types = [types EXCEPT ![k].begin = begin, ![k].count = count]
        /\ \A f \in {"identities", "named_refs", "objects", "object_identities", "links", "canonical", "intrinsic_refs"} : v.g[f] = b.g[f]
    BY <1>4, <2>2, BuildFields DEF GraphFields
  <2>4. v.g.types = Ranged(types, k, begin, count)
    BY <2>3 DEF Ranged
  <2>5. IsSeq(v.g.types) /\ Length(v.g.types) = Length(types) /\ AllLive(v.g.types)
    BY <1>5, <2>4, RangedLive
  <2> QED BY <1>1, <1>3, <1>4, <2>2, <2>3, <2>5, BuildSlotsOk, Zenon
<1>11. CASE v = [b EXCEPT !.g.types[h].begin = Len(b.g.enum_values) + 1,
                       !.g.types[h].count = Len(items),
                       !.g.types[h].underlying = chosen.value,
                       !.g.enum_values = @ \o items]
  <2>1. v = [b EXCEPT !.g.types[k].begin = start, !.g.types[k].count = count,
                      !.g.types[k].underlying = und, !.g.enum_values = ys]
    BY <1>6, <1>7, <1>11, Zenon
  <2>2. v.cache = b.cache
        /\ v.g = [b.g EXCEPT !.types[k].begin = start, !.types[k].count = count,
                             !.types[k].underlying = und, !.enum_values = ys]
    BY <2>1, BuildFields, Zenon
  <2>3. /\ DOMAIN v.g = GraphFields
        /\ v.g.types = [types EXCEPT ![k].begin = start, ![k].count = count, ![k].underlying = und]
        /\ \A f \in {"identities", "named_refs", "objects", "object_identities", "links", "canonical", "intrinsic_refs"} : v.g[f] = b.g[f]
    BY <1>4, <2>2, BuildFields DEF GraphFields
  <2>4. v.g.types = RangedAs(types, k, start, count, und)
    BY <2>3 DEF RangedAs
  <2>5. IsSeq(v.g.types) /\ Length(v.g.types) = Length(types) /\ AllLive(v.g.types)
    BY <1>5, <2>4, RangedLive
  <2> QED BY <1>1, <1>3, <1>4, <2>2, <2>3, <2>5, BuildSlotsOk, Zenon
<1> QED BY <1>2, <1>8, <1>9, <1>10, <1>11, Zenon

\* The definition pass of a full build.
LEMMA DefineTypesOk ==
  ASSUME NEW c, CacheOk(c), NEW b, BuildOk(c, b)
  PROVE  BuildOk(c, DefineTypes(b))
<1> DEFINE seq == Indices(b.cache.arena["types"])
           n == Length(c.arena["types"])
<1>1. n \in Nat /\ DOMAIN seq = 1..n
  <2>1. IsSeq(c.arena["types"])
    BY DEF CacheOk, ArenaSeqs, Arenas
  <2>2. b.cache.arena = c.arena
    BY BuildFields DEF CacheOk
  <2> QED BY <2>1, <2>2, LengthSeq DEF Indices
<1>3. PICK tr : Traced(tr, "define", <<>>, b, seq, n, DefineTypes(b))
  BY <1>1, DefineTypesTrace
<1> DEFINE S == {m \in 0..n : BuildOk(c, tr[m])}
<1>4. 0 \in S
  BY <1>1, <1>3 DEF Traced
<1>5. ASSUME NEW m \in 0..(n-1), m \in S PROVE m + 1 \in S
  <2>1. m + 1 \in 1..n /\ m + 1 \in 0..n /\ m + 1 - 1 = m
    BY <1>1
  <2>2. tr[m+1] = DefineFull(tr[m], seq[m+1])
    BY <1>3, <2>1 DEF Traced, Step
  <2>3. CacheShape(c)
    BY DEF CacheOk
  <2> QED BY <1>5, <2>1, <2>2, <2>3, DefineFullOk
<1>6. 0..n \subseteq S
  <2> HIDE DEF S, n
  <2> QED BY <1>1, <1>4, <1>5, SetInduction, Zenon
<1>7. DefineTypes(b) = tr[n]
  BY <1>3 DEF Traced
<1> QED BY <1>1, <1>6, <1>7

\* A link of a full build.
LEMMA LinkFullOk ==
  ASSUME NEW c, CacheShape(c), NEW b, BuildOk(c, b), NEW link
  PROVE  BuildOk(c, LinkFull(b, link))
<1> DEFINE source == [link.source EXCEPT !.object = FindObjectIdentity(b.g, @)]
           target == [link.target EXCEPT !.object = FindObjectIdentity(b.g, @)]
<1>1. PICK v : v = LinkFull(b, link)
  OBVIOUS
<1>2. \/ v = b \/ v = [b EXCEPT !.status = "semantic_conflict"]
      \/ v = [b EXCEPT !.g.links = Append(@, [source |-> source, target |-> target])]
  BY <1>1, Zenon DEF LinkFull
<1>3. BuildOn(c, v)
  BY <1>1, LinkFullOn DEF BuildOk
<1>4. PICK x : x = [source |-> source, target |-> target]
  BY Zenon
<1>5. x \in [source : {x.source}, target : {x.target}]
  BY <1>4
<1> HIDE DEF source, target
<1>6. CASE v = b
  BY <1>1, <1>6
<1>7. CASE v = [b EXCEPT !.status = "semantic_conflict"]
  <2>1. v.g = b.g /\ v.cache = b.cache
    BY <1>7, BuildFields
  <2> QED BY <1>1, <1>3, <2>1, BuildKeeps
<1>8. CASE v = [b EXCEPT !.g.links = Append(@, [source |-> source, target |-> target])]
  <2>1. PICK q : q = Append(b.g.links, x)
    BY Zenon
  <2>2. v.cache = b.cache /\ v.g = [b.g EXCEPT !.links = q]
    BY <1>4, <1>8, <2>1, BuildFields
  <2>3. /\ DOMAIN v.g = GraphFields /\ v.g.links = q /\ v.g.types = b.g.types
        /\ \A f \in GraphFields \ {"links"} : v.g[f] = b.g[f]
    BY <2>2, BuildFields DEF GraphFields
  <2>4. /\ v.g.identities = b.g.identities /\ v.g.named_refs = b.g.named_refs
        /\ v.g.objects = b.g.objects /\ v.g.object_identities = b.g.object_identities
        /\ v.g.canonical = b.g.canonical /\ v.g.intrinsic_refs = b.g.intrinsic_refs
    BY <2>2, BuildFields DEF GraphFields
  <2>5. PICK l : l = b.g.links
    OBVIOUS
  <2>6. PICK n : n = Length(l)
    OBVIOUS
  <2>7. LinksOk(l) /\ n \in Nat
    BY <2>5, <2>6, LengthSeq DEF BuildOk, FullOk, GraphOk, LinksOk
  <2>8. IsSeq(q) /\ Length(q) = n + 1 /\ (\A i \in 1..n : q[i] = l[i]) /\ q[n+1] = x
    BY <2>1, <2>5, <2>6, <2>7, AppendSeq DEF LinksOk, Length
  <2>9. LinksOk(q)
    <3>1. ASSUME NEW i \in 1..(n+1) PROVE q[i] \in [source : {q[i].source}, target : {q[i].target}]
      <4>1. i \in 1..n \/ i = n + 1
        BY <2>7
      <4> QED BY <1>5, <2>6, <2>7, <2>8, <4>1 DEF LinksOk
    <3> QED BY <2>8, <3>1 DEF LinksOk
  <2>10. FullOk(v.g)
    BY <2>3, <2>4, <2>9 DEF BuildOk, FullOk, GraphOk
  <2> QED BY <1>1, <1>3, <2>2, <2>3, <2>10 DEF BuildOk
<1> QED BY <1>2, <1>4, <1>6, <1>7, <1>8

\* The link pass of a full build.
LEMMA LinkObjectsOk ==
  ASSUME NEW c, CacheOk(c), NEW b, BuildOk(c, b)
  PROVE  BuildOk(c, LinkObjects(b))
<1> DEFINE seq == b.cache.arena["links"]
           n == Length(c.arena["links"])
<1>1. n \in Nat /\ DOMAIN seq = 1..n
  <2>1. IsSeq(c.arena["links"])
    BY DEF CacheOk, ArenaSeqs, Arenas
  <2>2. b.cache.arena = c.arena
    BY BuildFields DEF CacheOk
  <2> QED BY <2>1, <2>2, LengthSeq
<1>3. PICK tr : Traced(tr, "link", <<>>, b, seq, n, LinkObjects(b))
  BY <1>1, LinkObjectsTrace
<1> DEFINE S == {m \in 0..n : BuildOk(c, tr[m])}
<1>4. 0 \in S
  BY <1>1, <1>3 DEF Traced
<1>5. ASSUME NEW m \in 0..(n-1), m \in S PROVE m + 1 \in S
  <2>1. m + 1 \in 1..n /\ m + 1 \in 0..n /\ m + 1 - 1 = m
    BY <1>1
  <2>2. tr[m+1] = LinkFull(tr[m], seq[m+1])
    BY <1>3, <2>1 DEF Traced, Step
  <2>3. CacheShape(c)
    BY DEF CacheOk
  <2> QED BY <1>5, <2>1, <2>2, <2>3, LinkFullOk
<1>6. 0..n \subseteq S
  <2> HIDE DEF S, n
  <2> QED BY <1>1, <1>4, <1>5, SetInduction
<1>7. LinkObjects(b) = tr[n]
  BY <1>3 DEF Traced
<1> QED BY <1>1, <1>6, <1>7

\* Sealing counts the slots, all of them live.
SlotCounts(g) ==
  g.live = [types |-> Length(g.types), objects |-> Length(g.objects), links |-> Length(g.links)]

\* Sealing a full build sets the live counters.
LEMMA SealFullOk ==
  ASSUME NEW c, CacheShape(c), NEW b, BuildOk(c, b)
  PROVE  BuildOk(c, SealFull(b)) /\ SlotCounts(SealFull(b).g)
<1>1. PICK g : g = b.g
  OBVIOUS
<1>2. PICK v : v = SealFull(b)
  OBVIOUS
<1>3. PICK index, room, live : /\ live = [types |-> Len(g.types), objects |-> Len(g.objects), links |-> Len(g.links)]
                               /\ v = [b EXCEPT !.g = [[g EXCEPT !.live = live, !.index = index] EXCEPT !.capacity = room]]
  BY <1>1, <1>2, Zenon DEF SealFull
<1>4. PICK w : w = [[g EXCEPT !.live = live, !.index = index] EXCEPT !.capacity = room]
  OBVIOUS
<1>5. v.g = w /\ v.cache = b.cache
  BY <1>3, <1>4, BuildFields
<1>6. DOMAIN g = GraphFields
  BY <1>1, BuildFields
<1>7. /\ DOMAIN w = GraphFields /\ w.live = live
      /\ w.types = g.types /\ w.identities = g.identities /\ w.named_refs = g.named_refs
      /\ w.objects = g.objects /\ w.object_identities = g.object_identities /\ w.links = g.links
      /\ w.canonical = g.canonical /\ w.intrinsic_refs = g.intrinsic_refs
  BY <1>4, <1>6 DEF GraphFields
<1>8. FullOk(w)
  BY <1>1, <1>7 DEF BuildOk, FullOk, GraphOk
<1>9. BuildOn(c, v)
  BY <1>2, SealFullOn DEF BuildOk
<1> QED BY <1>1, <1>2, <1>3, <1>5, <1>7, <1>8, <1>9 DEF BuildOk, SlotCounts, Length

\* The live counters of a Graph are the numbers of its live slots.
LiveCounted(g) ==
  g.live = [types |-> Cardinality(LiveTypes(g)),
            objects |-> Cardinality(LiveObjects(g)),
            links |-> Cardinality(LiveLinks(g))]

\* An interval from 1 to n has n elements.
LEMMA CountUpTo ==
  ASSUME NEW n \in Nat
  PROVE  Cardinality(1..n) = n
<1>1. Cardinality(1..n) = IF 1 > n THEN 0 ELSE n - 1 + 1
  BY FS_Interval
<1> QED BY <1>1

\* In a detached Graph every slot is live, so the counters are exact.
LEMMA AllSlotsCounted ==
  ASSUME NEW g, FullOk(g), SlotCounts(g), DetachedValid(g)
  PROVE  LiveCounted(g)
<1>1. Cardinality(LiveTypes(g)) = Length(g.types)
  <2>1. IsSeq(g.types)
    BY DEF FullOk, GraphOk, TypeSlotsOk
  <2>2. PICK n \in Nat : n = Length(g.types) /\ DOMAIN g.types = 1..n
    BY <2>1, LengthSeq
  <2>3. LiveTypes(g) = 1..n
    BY <2>2 DEF LiveTypes, FullOk, AllLive
  <2> QED BY <2>2, <2>3, CountUpTo
<1>2. Cardinality(LiveObjects(g)) = Length(g.objects)
  <2>1. IsSeq(g.objects)
    BY DEF FullOk, GraphOk, ObjectSlotsOk
  <2>2. PICK n \in Nat : n = Length(g.objects) /\ DOMAIN g.objects = 1..n
    BY <2>1, LengthSeq
  <2>3. LiveObjects(g) = 1..n
    BY <2>2 DEF LiveObjects, FullOk, AllLive
  <2> QED BY <2>2, <2>3, CountUpTo
<1>3. Cardinality(LiveLinks(g)) = Length(g.links)
  <2>1. IsSeq(g.links)
    BY DEF FullOk, GraphOk, LinksOk
  <2>2. PICK n \in Nat : n = Length(g.links) /\ DOMAIN g.links = 1..n
    BY <2>1, LengthSeq
  <2>3. LiveLinks(g) = 1..n
    BY <2>2 DEF LiveLinks, DetachedValid
  <2> QED BY <2>2, <2>3, CountUpTo
<1> QED BY <1>1, <1>2, <1>3 DEF LiveCounted, SlotCounts

\* The build pass after the type pass, when it succeeds.
LEMMA PrepareGraphOk ==
  ASSUME NEW c, CacheOk(c), c.construction = <<>>, PrepareGraph(c).status = "ok"
  PROVE  BuildOk(c, PrepareGraph(c)) /\ LiveCounted(PrepareGraph(c).g)
<1>1. PICK b : b = DeclareTypes(c)
  OBVIOUS
<1>2. CacheShape(c) /\ BuildOk(c, b) /\ CompleteGraph(b).status = "ok" /\ CompleteGraph(b) = PrepareGraph(c)
  BY <1>1, DeclareTypesOk DEF PrepareGraph, CacheOk
<1>3. "status" \in DOMAIN b
  BY <1>2, BuildFields
<1>4. b.status = "ok" /\ BasesDeclared(b)
  BY <1>2, <1>3 DEF CompleteGraph
<1>5. PICK d : d = TypeRefsFull(b, "members")
  OBVIOUS
<1>6. PICK e : e = TypeRefsFull(d, "objects")
  OBVIOUS
<1>7. PICK x : x = SealFull(LinkObjects(DefineTypes(PlaceObjects(e))))
  OBVIOUS
<1>8. CompleteGraph(b) = Validated(x)
  BY <1>2, <1>3, <1>4, <1>5, <1>6, <1>7 DEF CompleteGraph
<1>9. BuildOk(c, x) /\ SlotCounts(x.g)
  <2>1. BasesIn(c, b.g.identities)
    BY <1>2, <1>4, BasesDeclaredIn
  <2>2. BuildOk(c, d) /\ BasesIn(c, d.g.identities)
    BY <1>2, <1>5, <2>1, TypeRefsFullOk
  <2>3. BuildOk(c, e)
    BY <1>6, <2>2, TypeRefsFullOk
  <2>4. BuildOk(c, LinkObjects(DefineTypes(PlaceObjects(e))))
    BY <2>3, PlaceObjectsOk, DefineTypesOk, LinkObjectsOk
  <2> QED BY <1>2, <1>7, <2>4, SealFullOk
<1>10. x.status = "ok" /\ DetachedValid(x.g) /\ Validated(x) = x
  <2>1. "status" \in DOMAIN x
    BY <1>2, <1>9, BuildFields
  <2>2. CASE x.status = "ok" /\ ~DetachedValid(x.g)
    <3>1. Validated(x).status = "invalid_argument"
      BY <2>1, <2>2 DEF Validated
    <3> QED BY <1>2, <1>8, <3>1
  <2>3. CASE ~(x.status = "ok" /\ ~DetachedValid(x.g))
    <3>1. Validated(x) = x
      BY <2>3 DEF Validated
    <3> QED BY <1>2, <1>8, <2>3, <3>1
  <2> QED BY <2>2, <2>3
<1> QED BY <1>2, <1>8, <1>9, <1>10, AllSlotsCounted DEF BuildOk

\* What the Graph and the construction states of a completed build guarantee.
Consistent(c, g) ==
  /\ GraphOk(g) /\ LiveCounted(g)
  /\ \A h \in DOMAIN c.construction : StateOk(c.construction[h], Length(c.arena["types"]))

\* A full build that succeeds publishes what the facts say.
LEMMA FullBuildHolds ==
  ASSUME NEW fs, DOMAIN fs = Sources, \A s \in Present(fs) : ValidFacts(fs[s]),
         FullBuild(fs, Ordered(Present(fs))).status = "ok"
  PROVE  /\ Contributes(FullBuild(fs, Ordered(Present(fs))).cache, fs)
         /\ Consistent(FullBuild(fs, Ordered(Present(fs))).cache, FullBuild(fs, Ordered(Present(fs))).graph)
<1> DEFINE c == CaptureFull(fs, Ordered(Present(fs)))
           b == PrepareGraph(c)
<1>1. Contributes(c, fs) /\ c.construction = <<>>
  BY CapturedContributes
<1>2. CacheOk(c)
  BY <1>1 DEF Contributes
<1>3. PICK r : r = FullBuild(fs, Ordered(Present(fs)))
  OBVIOUS
<1>4. r = Fail("not_available") \/ r = Fail(b.status) \/
      (b.status = "ok" /\ r = [status |-> "ok", cache |-> PublishFull(b.cache), graph |-> b.g])
  BY <1>3 DEF FullBuild, PublishDetached
<1> HIDE DEF c
<1>5. b.status = "ok" /\ r.cache = PublishFull(b.cache) /\ r.graph = b.g
  <2>1. r.status = "ok"
    BY <1>3
  <2>2. CASE r = Fail("not_available")
    BY <2>1, <2>2 DEF Fail
  <2>3. CASE b.status = "ok" /\ r = [status |-> "ok", cache |-> PublishFull(b.cache), graph |-> b.g]
    BY <2>3
  <2>4. CASE r = Fail(b.status) /\ b.status # "ok"
    BY <2>1, <2>4 DEF Fail
  <2>5. CASE r = Fail(b.status) /\ b.status = "ok"
    BY <1>3, <2>5 DEF FullBuild, PublishDetached, Fail, c
  <2> QED BY <1>4, <2>2, <2>3, <2>4, <2>5
<1>6. BuildOk(c, b) /\ LiveCounted(b.g)
  BY <1>1, <1>2, <1>5, PrepareGraphOk
<1> HIDE DEF b
<1>7. PICK d : d = b.cache
  OBVIOUS
<1>8. /\ CacheShape(d) /\ d.arena = c.arena /\ d.sources = c.sources /\ d.statistics = c.statistics
  BY <1>2, <1>6, <1>7, SameContributionsKeep DEF BuildOk, BuildOn, SameContributions, CacheOk
<1>9. PICK e : e = PublishFull(d)
  OBVIOUS
<1>10. /\ CacheShape(e) /\ e.arena = c.arena /\ e.sources = c.sources /\ e.statistics = c.statistics
       /\ e.construction = d.construction
  BY <1>8, <1>9, Zenon DEF PublishFull, CacheShape
<1>11. Contributes(e, fs)
  BY <1>1, <1>10, ContributesKeep
<1>12. \A h \in DOMAIN e.construction : StateOk(e.construction[h], Length(e.arena["types"]))
  <2>1. IsSeq(d.construction)
        /\ \A h \in 1..Length(d.construction) : StateOk(d.construction[h], Length(c.arena["types"]))
    BY <1>6, <1>7 DEF BuildOk, StatesOk
  <2> QED BY <1>10, <2>1, LengthSeq
<1> QED BY <1>3, <1>5, <1>6, <1>7, <1>9, <1>11, <1>12 DEF Consistent, BuildOk, FullOk

----------------------------------------------------------------------------
(* The update of a Graph. *)

UpdateFields ==
  {"types", "new_identities", "members", "enum_values", "canonical", "intrinsic_refs",
   "named_refs", "new_derived", "versions", "edges", "objects", "new_object_identities",
   "links", "new_links", "live"}

\* The handles in use once the update u of g is published.
TypeRoom(g, u) == Length(g.types) + Length(u.new_identities)
ObjectRoom(g, u) == Length(g.objects) + Length(u.new_object_identities)
LinkRoom(g, u) == Length(g.links) + Length(u.new_links)

PatchesWithin(patches, n) == \A h \in DOMAIN patches : h \in 1..n

CountOk(S, n) == IsFiniteSet(S) /\ Cardinality(S) = n

\* The count of a set with one more element.
LEMMA CountAdd ==
  ASSUME NEW S, NEW n, CountOk(S, n), NEW x, x \notin S, NEW T, \A y : y \in T <=> y \in S \/ y = x
  PROVE  CountOk(T, n + 1)
<1>1. T = S \cup {x}
  OBVIOUS
<1> QED BY <1>1, FS_AddElement DEF CountOk

\* The count of a set with one element less.
LEMMA CountDrop ==
  ASSUME NEW S, NEW n, CountOk(S, n), NEW x, x \in S, NEW T, \A y : y \in T <=> y \in S /\ y # x
  PROVE  CountOk(T, n - 1)
<1>1. T = S \ {x}
  OBVIOUS
<1> QED BY <1>1, FS_RemoveElement DEF CountOk

\* The named cache a publication leaves.
NamedOf(g, u) ==
  [h \in Nat |-> IF h \in DOMAIN u.named_refs THEN u.named_refs[h]
                 ELSE IF h \in DOMAIN g.named_refs THEN g.named_refs[h] ELSE 0]

\* Live slots once u is published.
LiveTypeSet(g, u) == {h \in Nat \ {0} : CandidateType(g, u, h).live}
LiveObjectSet(g, u) == {h \in Nat \ {0} : CandidateObject(g, u, h).live}

LinkAt(g, u, h) ==
  IF h \in DOMAIN u.links THEN u.links[h]
  ELSE IF h <= Length(g.links) THEN g.links[h] ELSE u.new_links[h - Length(g.links)]

LiveLinkSet(g, u) == {h \in 1..LinkRoom(g, u) : LinkAt(g, u, h).source # NoEndpoint}

TypesPart(g, u) ==
  /\ IsSeq(u.new_identities)
  /\ PatchesWithin(u.types, TypeRoom(g, u))

TypesCounted(g, u) == CountOk(LiveTypeSet(g, u), u.live.types)

RefsPart(g, u) ==
  /\ IsSeq(u.canonical)
  /\ PatchesWithin(u.named_refs, TypeRoom(g, u))
  /\ RefsOk(g.canonical \o u.canonical, NamedOf(g, u), u.intrinsic_refs)

ObjectsPart(g, u) ==
  /\ IsSeq(u.new_object_identities)
  /\ PatchesWithin(u.objects, ObjectRoom(g, u))
  /\ CountOk(LiveObjectSet(g, u), u.live.objects)

LinksPart(g, u) ==
  /\ LinksOk(u.new_links)
  /\ PatchesWithin(u.links, Length(g.links))
  /\ \A h \in DOMAIN u.links :
       /\ u.links[h] \in [source : {u.links[h].source}, target : {u.links[h].target}]
       /\ u.links[h].target = g.links[h].target
  /\ CountOk(LiveLinkSet(g, u), u.live.links)

\* The live counters.
LiveShape(live) ==
  live \in [types : {live.types}, objects : {live.objects}, links : {live.links}]

\* What a sparse update keeps while it is prepared.
UpdOk(g, u) ==
  /\ DOMAIN u = UpdateFields /\ LiveShape(u.live)
  /\ TypesPart(g, u) /\ RefsPart(g, u) /\ ObjectsPart(g, u) /\ LinksPart(g, u)

\* The empty sequence has no index.
LEMMA EmptyDomain == DOMAIN <<>> = {}
BY EmptyIsSeq, LengthSeq DEF Length

\* Nothing is appended.
LEMMA JoinEmpty ==
  ASSUME NEW q, IsSeq(q)
  PROVE  q \o <<>> = q
<1>1. IsSeq(q \o <<>>) /\ Len(q \o <<>>) = Len(q) /\ \A i \in 1..Len(q) : (q \o <<>>)[i] = q[i]
  BY JoinSeq, EmptyIsSeq, LengthSeq DEF Length
<1> QED BY <1>1, SameSeq

\* A set of slots is finite.
LEMMA LiveLinkSetFinite ==
  ASSUME NEW n \in Nat, NEW S \in SUBSET (1..n)
  PROVE  IsFiniteSet(S)
<1>1. IsFiniteSet(1..n)
  BY FS_Interval
<1> QED BY <1>1, FS_Subset, Zenon

\* An update starts from the counters and caches of its Graph.
LEMMA EmptyUpdateOk ==
  ASSUME NEW g, GraphOk(g), LiveCounted(g)
  PROVE  /\ UpdOk(g, EmptyUpdate(g)) /\ TypesCounted(g, EmptyUpdate(g))
         /\ EmptyUpdate(g).types = <<>> /\ EmptyUpdate(g).links = <<>>
<1>1. PICK u : u = EmptyUpdate(g)
  OBVIOUS
<1>2. /\ DOMAIN u = UpdateFields /\ u.types = <<>> /\ u.new_identities = <<>> /\ u.canonical = <<>>
      /\ u.intrinsic_refs = g.intrinsic_refs /\ u.named_refs = <<>> /\ u.objects = <<>>
      /\ u.new_object_identities = <<>> /\ u.links = <<>> /\ u.new_links = <<>> /\ u.live = g.live
  BY <1>1 DEF EmptyUpdate, UpdateFields
<1>3. IsSeq(<<>>) /\ Length(<<>>) = 0 /\ DOMAIN <<>> = {}
  BY EmptyIsSeq, EmptyDomain DEF Length
<1>4. PICK nt, no, nl \in Nat :
        /\ nt = Length(g.types) /\ no = Length(g.objects) /\ nl = Length(g.links)
        /\ DOMAIN g.types = 1..nt /\ DOMAIN g.objects = 1..no /\ DOMAIN g.links = 1..nl
  BY LengthSeq DEF GraphOk, TypeSlotsOk, ObjectSlotsOk, LinksOk
<1>5. /\ LiveShape(u.live) /\ u.live.types = Cardinality(LiveTypes(g))
      /\ u.live.objects = Cardinality(LiveObjects(g)) /\ u.live.links = Cardinality(LiveLinks(g))
  BY <1>2 DEF LiveCounted, LiveShape
<1>6. TypesPart(g, u) /\ TypesCounted(g, u)
  <2>1. LiveTypeSet(g, u) = LiveTypes(g)
    <3>1. ASSUME NEW h \in Nat \ {0} PROVE CandidateType(g, u, h).live <=> h \in DOMAIN g.types /\ g.types[h].live
      <4>1. CandidateType(g, u, h) = IF h <= nt THEN g.types[h] ELSE NoEntry
        BY <1>2, <1>3, <1>4 DEF CandidateType, Length
      <4>2. h <= nt <=> h \in DOMAIN g.types
        BY <1>4
      <4>3. ~NoEntry.live
        BY DEF NoEntry
      <4> QED BY <4>1, <4>2, <4>3
    <3>2. LiveTypes(g) \in SUBSET (Nat \ {0})
      BY <1>4 DEF LiveTypes
    <3> QED BY <3>1, <3>2 DEF LiveTypes, LiveTypeSet
  <2>2. IsFiniteSet(LiveTypes(g))
    BY <1>4, LiveLinkSetFinite, Zenon DEF LiveTypes
  <2> QED BY <1>2, <1>3, <1>5, <2>1, <2>2 DEF TypesPart, TypesCounted, CountOk, PatchesWithin
<1>7. ObjectsPart(g, u)
  <2>1. LiveObjectSet(g, u) = LiveObjects(g)
    <3>1. ASSUME NEW h \in Nat \ {0} PROVE CandidateObject(g, u, h).live <=> h \in DOMAIN g.objects /\ g.objects[h].live
      <4>1. CandidateObject(g, u, h) = IF h <= no THEN g.objects[h] ELSE NoObject
        BY <1>2, <1>3, <1>4 DEF CandidateObject, Length
      <4>2. h <= no <=> h \in DOMAIN g.objects
        BY <1>4
      <4>3. ~NoObject.live
        BY DEF NoObject
      <4> QED BY <4>1, <4>2, <4>3
    <3>2. LiveObjects(g) \in SUBSET (Nat \ {0})
      BY <1>4 DEF LiveObjects
    <3> QED BY <3>1, <3>2 DEF LiveObjects, LiveObjectSet
  <2>2. IsFiniteSet(LiveObjects(g))
    BY <1>4, LiveLinkSetFinite, Zenon DEF LiveObjects
  <2> QED BY <1>2, <1>3, <1>5, <2>1, <2>2 DEF ObjectsPart, CountOk, PatchesWithin
<1>8. LinksPart(g, u)
  <2>1. LinkRoom(g, u) = nl
    BY <1>2, <1>3, <1>4 DEF LinkRoom
  <2>2. \A h \in 1..nl : LinkAt(g, u, h) = g.links[h]
    BY <1>2, <1>3, <1>4 DEF LinkAt
  <2>3. LiveLinkSet(g, u) = LiveLinks(g)
    BY <1>4, <2>1, <2>2 DEF LiveLinkSet, LiveLinks
  <2>4. IsFiniteSet(LiveLinks(g))
    BY <1>4, LiveLinkSetFinite, Zenon DEF LiveLinks
  <2> QED BY <1>2, <1>3, <1>5, <2>3, <2>4 DEF LinksPart, CountOk, PatchesWithin, LinksOk
<1>9. RefsPart(g, u)
  <2>1. RefsOk(g.canonical, NamedFn(g.named_refs), g.intrinsic_refs)
    BY DEF GraphOk
  <2>2. g.canonical \o u.canonical = g.canonical
    BY <1>2, <2>1, JoinEmpty DEF RefsOk, CanonOk
  <2>3. NamedOf(g, u) = NamedFn(g.named_refs)
    BY <1>2, <1>3 DEF NamedOf, NamedFn
  <2> QED BY <1>2, <1>3, <2>1, <2>2, <2>3 DEF RefsPart, PatchesWithin
<1> QED BY <1>1, <1>2, <1>5, <1>6, <1>7, <1>8, <1>9 DEF UpdOk

----------------------------------------------------------------------------
(* The records and identities an update makes. *)

\* A step of an update that leaves its slots and links alone: it may make
\* records and identities.
RefStep(g, u, v) ==
  /\ DOMAIN v = UpdateFields
  /\ v.types = u.types /\ v.objects = u.objects /\ v.links = u.links /\ v.live = u.live
  /\ v.new_object_identities = u.new_object_identities /\ v.new_links = u.new_links
  /\ IsSeq(v.new_identities) /\ TypeRoom(g, u) <= TypeRoom(g, v)

\* The numbers of slots an update works with.
LEMMA RoomNat ==
  ASSUME NEW g, GraphOk(g), NEW u, UpdOk(g, u)
  PROVE  /\ Length(g.types) \in Nat /\ Length(g.objects) \in Nat /\ Length(g.links) \in Nat
         /\ TypeRoom(g, u) \in Nat /\ ObjectRoom(g, u) \in Nat /\ LinkRoom(g, u) \in Nat
         /\ Length(u.new_links) \in Nat
         /\ TypeSlots(g, u) = TypeRoom(g, u) /\ ObjectSlots(g, u) = ObjectRoom(g, u)
<1>1. /\ Length(g.types) \in Nat /\ Length(g.objects) \in Nat /\ Length(g.links) \in Nat
  BY LengthSeq DEF GraphOk, TypeSlotsOk, ObjectSlotsOk, LinksOk
<1>2. /\ Length(u.new_identities) \in Nat /\ Length(u.new_object_identities) \in Nat
      /\ Length(u.new_links) \in Nat
  BY LengthSeq DEF UpdOk, TypesPart, ObjectsPart, LinksPart, LinksOk
<1>3. TypeSlots(g, u) = TypeRoom(g, u) /\ ObjectSlots(g, u) = ObjectRoom(g, u)
  BY DEF TypeSlots, TypeRoom, ObjectSlots, ObjectRoom, Length
<1> QED BY <1>1, <1>2, <1>3 DEF TypeRoom, ObjectRoom, LinkRoom

\* Patches stay inside when slots are added.
LEMMA WithinGrows ==
  ASSUME NEW q, NEW n \in Nat, PatchesWithin(q, n), NEW m \in Nat, n <= m
  PROVE  PatchesWithin(q, m)
BY DEF PatchesWithin

\* A step that makes records and identities keeps the rest of the update.
LEMMA RefStepOk ==
  ASSUME NEW g, GraphOk(g), NEW u, UpdOk(g, u), NEW v, RefStep(g, u, v), RefsPart(g, v)
  PROVE  UpdOk(g, v)
<1>1. TypeRoom(g, u) \in Nat /\ TypeRoom(g, v) \in Nat
  <2>1. Length(v.new_identities) \in Nat
    BY LengthSeq DEF RefStep
  <2> QED BY <2>1, RoomNat DEF TypeRoom
<1>2. TypesPart(g, v)
  <2>1. PatchesWithin(v.types, TypeRoom(g, v))
    <3>1. PatchesWithin(v.types, TypeRoom(g, u))
      BY DEF RefStep, UpdOk, TypesPart
    <3> QED BY <1>1, <3>1, WithinGrows DEF RefStep
  <2> QED BY <2>1 DEF TypesPart, RefStep, UpdOk
<1>3. ObjectsPart(g, v)
  <2>1. LiveObjectSet(g, v) = LiveObjectSet(g, u) /\ ObjectRoom(g, v) = ObjectRoom(g, u)
    BY DEF LiveObjectSet, CandidateObject, RefStep, ObjectRoom
  <2> QED BY <2>1 DEF ObjectsPart, RefStep, UpdOk
<1>4. LinksPart(g, v)
  <2>1. LiveLinkSet(g, v) = LiveLinkSet(g, u)
    BY DEF LiveLinkSet, LinkAt, LinkRoom, RefStep
  <2> QED BY <2>1 DEF LinksPart, RefStep, UpdOk
<1> QED BY <1>2, <1>3, <1>4 DEF UpdOk, RefStep

\* It leaves the same types live.
LEMMA RefStepCounted ==
  ASSUME NEW g, NEW u, NEW v, RefStep(g, u, v), NEW n, CountOk(LiveTypeSet(g, u), n)
  PROVE  CountOk(LiveTypeSet(g, v), n)
<1>1. LiveTypeSet(g, v) = LiveTypeSet(g, u)
  BY DEF LiveTypeSet, CandidateType, RefStep
<1> QED BY <1>1

\* Such steps compose.
LEMMA RefStepTwice ==
  ASSUME NEW g, GraphOk(g), NEW u, UpdOk(g, u), NEW v, RefStep(g, u, v), UpdOk(g, v),
         NEW w, RefStep(g, v, w)
  PROVE  RefStep(g, u, w)
<1>1. TypeRoom(g, u) \in Nat /\ TypeRoom(g, v) \in Nat /\ TypeRoom(g, w) \in Nat
  <2>1. Length(w.new_identities) \in Nat
    BY LengthSeq DEF RefStep
  <2> QED BY <2>1, RoomNat DEF TypeRoom
<1> QED BY <1>1 DEF RefStep

\* No step is such a step.
LEMMA RefStepSelf ==
  ASSUME NEW g, GraphOk(g), NEW u, UpdOk(g, u)
  PROVE  RefStep(g, u, u)
BY RoomNat DEF RefStep, UpdOk, TypesPart

\* A record more in the update is a record more of what it publishes.
LEMMA JoinAppend ==
  ASSUME NEW p, NEW q, IsSeq(p), IsSeq(q), NEW x
  PROVE  p \o Append(q, x) = Append(p \o q, x)
<1>1. PICK m, n \in Nat : m = Length(p) /\ n = Length(q)
  BY LengthSeq
<1>2. PICK a : a = Append(q, x)
  BY Zenon
<1>3. PICK b : b = p \o q
  BY Zenon
<1>4. /\ IsSeq(a) /\ Length(a) = n + 1 /\ (\A i \in 1..n : a[i] = q[i]) /\ a[n+1] = x
  BY <1>1, <1>2, AppendSeq DEF Length
<1>5. /\ IsSeq(b) /\ Length(b) = m + n
      /\ \A i \in 1..(m+n) : b[i] = IF i <= m THEN p[i] ELSE q[i-m]
  BY <1>1, <1>3, JoinSeq, Zenon
<1>6. PICK l : l = p \o a
  BY Zenon
<1>7. PICK r : r = Append(b, x)
  BY Zenon
<1>8. /\ IsSeq(l) /\ Length(l) = m + (n + 1)
      /\ \A i \in 1..(m+(n+1)) : l[i] = IF i <= m THEN p[i] ELSE a[i-m]
  <2>1. /\ IsSeq(p \o a) /\ Length(p \o a) = Length(p) + Length(a)
        /\ \A i \in 1..(Length(p) + Length(a)) :
             (p \o a)[i] = IF i <= Length(p) THEN p[i] ELSE a[i - Length(p)]
    BY <1>4, JoinSeq, Zenon
  <2> QED BY <1>1, <1>4, <1>6, <2>1, Zenon
<1>9. /\ IsSeq(r) /\ Length(r) = m + n + 1 /\ (\A i \in 1..(m+n) : r[i] = b[i]) /\ r[m+n+1] = x
  BY <1>1, <1>5, <1>7, AppendSeq DEF Length
<1>10. ASSUME NEW i \in 1..(m+n+1) PROVE l[i] = r[i]
  <2>1. CASE i <= m
    <3>1. i \in 1..(m+n) /\ i \in 1..(m+(n+1))
      BY <1>1, <2>1
    <3> QED BY <1>5, <1>8, <1>9, <2>1, <3>1
  <2>2. CASE i > m /\ i <= m + n
    <3>1. i \in 1..(m+n) /\ i \in 1..(m+(n+1)) /\ ~(i <= m) /\ i - m \in 1..n
      BY <1>1, <2>2
    <3> QED BY <1>4, <1>5, <1>8, <1>9, <3>1
  <2>3. CASE i = m + n + 1
    <3>1. i \in 1..(m+(n+1)) /\ ~(i <= m) /\ i - m = n + 1
      BY <1>1, <2>3
    <3> QED BY <1>4, <1>8, <1>9, <2>3, <3>1
  <2> QED BY <1>1, <2>1, <2>2, <2>3
<1>11. l = r
  <2>1. Len(l) = Len(r) /\ Len(l) = m + n + 1
    BY <1>1, <1>8, <1>9 DEF Length
  <2> QED BY <1>8, <1>9, <1>10, <2>1, SameSeq, Zenon
<1> QED BY <1>2, <1>3, <1>6, <1>7, <1>11

\* A record that neither g nor the update has is nowhere in their join.
LEMMA JoinMisses ==
  ASSUME NEW p, NEW q, IsSeq(p), IsSeq(q), NEW x,
         \A i \in 1..Length(p) : p[i] # x, \A i \in 1..Length(q) : q[i] # x
  PROVE  \A i \in 1..Length(p \o q) : (p \o q)[i] # x
<1>1. PICK m, n \in Nat : m = Length(p) /\ n = Length(q)
  BY LengthSeq
<1>2. PICK b : b = p \o q
  BY Zenon
<1>3. Length(b) = m + n /\ \A i \in 1..(m+n) : b[i] = IF i <= m THEN p[i] ELSE q[i-m]
  BY <1>1, <1>2, JoinSeq, Zenon
<1>4. ASSUME NEW i \in 1..(m+n) PROVE b[i] # x
  <2>1. CASE i <= m
    <3>1. i \in 1..m
      BY <2>1
    <3> QED BY <1>1, <1>3, <2>1, <3>1
  <2>2. CASE ~(i <= m)
    <3>1. i - m \in 1..n
      BY <1>1, <2>2
    <3> QED BY <1>1, <1>3, <2>2, <3>1
  <2> QED BY <2>1, <2>2
<1> QED BY <1>2, <1>3, <1>4, Zenon

AppendStep(g, u, x, v, ref) ==
  /\ DOMAIN v = DOMAIN u
  /\ \A f \in UpdateFields \ {"canonical", "new_derived"} : v[f] = u[f]
  /\ v.canonical = Append(u.canonical, x)
  /\ ref = Length(g.canonical) + Length(u.canonical) + 1

\* What append_canonical writes, field by field.
LEMMA AppendCanonicalSteps ==
  ASSUME NEW g, NEW u, DOMAIN u = UpdateFields, NEW x
  PROVE  AppendStep(g, u, x, AppendCanonical(g, u, x).u, AppendCanonical(g, u, x).ref)
<1>1. PICK n : n = IF x.kind = "derived" THEN u.new_derived + 1 ELSE u.new_derived
  OBVIOUS
<1>2. PICK q : q = Append(u.canonical, x)
  BY Zenon
<1>3. PICK v : v = [u EXCEPT !.canonical = q, !.new_derived = n]
  OBVIOUS
<1>4. AppendCanonical(g, u, x) = [u |-> v, ref |-> Len(g.canonical) + Len(u.canonical) + 1]
  BY <1>1, <1>2, <1>3 DEF AppendCanonical
<1>5. DOMAIN v = UpdateFields /\ v.canonical = q
      /\ \A f \in UpdateFields \ {"canonical", "new_derived"} : v[f] = u[f]
  BY <1>3, Zenon DEF UpdateFields
<1> QED BY <1>2, <1>4, <1>5 DEF AppendStep, Length

\* Both halves of the canonical records.
LEMMA JoinedRefs ==
  ASSUME NEW g, GraphOk(g), NEW u, UpdOk(g, u)
  PROVE  /\ IsSeq(g.canonical) /\ IsSeq(u.canonical)
         /\ Length(g.canonical) \in Nat /\ Length(u.canonical) \in Nat
         /\ Length(g.canonical \o u.canonical) = Length(g.canonical) + Length(u.canonical)
<1>1. IsSeq(g.canonical) /\ IsSeq(u.canonical)
  BY DEF GraphOk, RefsOk, CanonOk, UpdOk, RefsPart
<1> QED BY <1>1, LengthSeq, JoinSeq

\* get_derived looks in the Graph, then in the update, and appends last.
LEMMA GetDerivedIs ==
  ASSUME NEW g, NEW u, NEW m, NEW child
  PROVE  LET old == First(g.canonical, Modified(m, child))
             new == First(u.canonical, Modified(m, child)) IN
         GetDerived(g, u, m, child) =
           IF old # 0 THEN [u |-> u, ref |-> old]
           ELSE IF new # 0 THEN [u |-> u, ref |-> Len(g.canonical) + new]
           ELSE AppendCanonical(g, u, Modified(m, child))
BY DEF GetDerived, FirstWhere, First, Modified

\* A derived record is recorded once, in the Graph or in the update.
LEMMA GetDerivedOk ==
  ASSUME NEW g, GraphOk(g), NEW u, UpdOk(g, u), NEW m, NEW child
  PROVE  LET r == GetDerived(g, u, m, child) IN UpdOk(g, r.u) /\ RefStep(g, u, r.u)
<1>1. PICK r : r = GetDerived(g, u, m, child)
  OBVIOUS
<1>2. PICK x : x = Modified(m, child)
  OBVIOUS
<1>3. CASE First(g.canonical, x) # 0 \/ First(u.canonical, x) # 0
  <2>1. r.u = u
    BY <1>1, <1>2, <1>3, GetDerivedIs
  <2> QED BY <1>1, <2>1, RefStepSelf
<1>4. CASE First(g.canonical, x) = 0 /\ First(u.canonical, x) = 0
  <2>1. PICK v, k : v = r.u /\ k = r.ref
    OBVIOUS
  <2>2. r = AppendCanonical(g, u, x) /\ DOMAIN u = UpdateFields
    BY <1>1, <1>2, <1>4, GetDerivedIs DEF UpdOk
  <2>3. AppendStep(g, u, x, v, k)
    BY <2>1, <2>2, AppendCanonicalSteps
  <2>4. /\ DOMAIN v = UpdateFields /\ v.canonical = Append(u.canonical, x)
        /\ v.types = u.types /\ v.objects = u.objects /\ v.links = u.links /\ v.live = u.live
        /\ v.new_identities = u.new_identities /\ v.named_refs = u.named_refs
        /\ v.intrinsic_refs = u.intrinsic_refs
        /\ v.new_object_identities = u.new_object_identities /\ v.new_links = u.new_links
    BY <2>2, <2>3 DEF AppendStep, UpdateFields
  <2>5. RefStep(g, u, v)
    BY <2>4, RoomNat DEF RefStep, UpdOk, TypesPart, TypeRoom
  <2>6. PICK p, q, named, intr : p = g.canonical /\ q = u.canonical /\ named = NamedOf(g, u)
                                 /\ intr = u.intrinsic_refs
    OBVIOUS
  <2>7. IsSeq(p) /\ IsSeq(q)
    BY <2>6, JoinedRefs
  <2>8. \A i \in 1..Length(p \o q) : (p \o q)[i] # x
    <3>1. (\A i \in 1..Length(p) : p[i] # x) /\ (\A i \in 1..Length(q) : q[i] # x)
      BY <1>4, <2>6, <2>7, FirstIs
    <3> QED BY <2>7, <3>1, JoinMisses, Zenon
  <2>9. PICK can : can = p \o q
    BY Zenon
  <2>10. CanonOk(Append(can, x), named, intr) /\ DOMAIN intr = Intrinsics
    <3>1. CanonOk(can, named, intr) /\ DOMAIN intr = Intrinsics
      BY <2>6, <2>9 DEF UpdOk, RefsPart, RefsOk
    <3>2. \A i \in 1..Length(can) : can[i] # Modified(m, child)
      BY <1>2, <2>8, <2>9, Zenon
    <3> QED BY <1>2, <3>1, <3>2, CanonModified
  <2>11. p \o v.canonical = Append(can, x)
    <3>1. p \o Append(q, x) = Append(p \o q, x)
      BY <2>7, JoinAppend
    <3> QED BY <2>4, <2>6, <2>9, <3>1
  <2>12. NamedOf(g, v) = named
    BY <2>4, <2>6 DEF NamedOf
  <2>13. RefsPart(g, v)
    <3>1. IsSeq(v.canonical)
      BY <2>4, <2>6, <2>7, AppendSeq
    <3>2. PatchesWithin(v.named_refs, TypeRoom(g, v))
      BY <2>4 DEF UpdOk, RefsPart, TypeRoom
    <3> QED BY <2>4, <2>6, <2>10, <2>11, <2>12, <3>1, <3>2 DEF RefsPart, RefsOk
  <2> QED BY <1>1, <2>1, <2>5, <2>13, RefStepOk
<1> QED BY <1>3, <1>4

\* A named record this update makes.
LEMMA GetNamedOk ==
  ASSUME NEW g, GraphOk(g), NEW u, UpdOk(g, u), NEW h \in 1..TypeRoom(g, u)
  PROVE  LET r == GetNamed(g, u, h) IN UpdOk(g, r.u) /\ RefStep(g, u, r.u)
<1>1. PICK r : r = GetNamed(g, u, h)
  OBVIOUS
<1>2. PICK x : x = Named(h)
  OBVIOUS
<1>3. CASE (h \in DOMAIN g.named_refs /\ g.named_refs[h] # 0) \/ h \in DOMAIN u.named_refs
  <2>1. r.u = u
    BY <1>1, <1>3, Zenon DEF GetNamed
  <2> QED BY <1>1, <2>1, RefStepSelf
<1>4. CASE ~(h \in DOMAIN g.named_refs /\ g.named_refs[h] # 0) /\ h \notin DOMAIN u.named_refs
  <2>1. PICK s : s = AppendCanonical(g, u, x)
    OBVIOUS
  <2>2. PICK v, k : v = s.u /\ k = s.ref
    OBVIOUS
  <2>3. AppendStep(g, u, x, v, k) /\ DOMAIN u = UpdateFields
    BY <2>1, <2>2, AppendCanonicalSteps DEF UpdOk
  <2>4. PICK w : w = [v EXCEPT !.named_refs = Patched(v.named_refs, h, k)]
    BY Zenon
  <2>5. r.u = w
    <3>1. DOMAIN s = {"u", "ref"}
      BY <2>1 DEF AppendCanonical
    <3>2. r = [s EXCEPT !.u.named_refs = Patched(@, h, s.ref)]
      BY <1>1, <1>2, <1>4, <2>1, Zenon DEF GetNamed, Named
    <3>3. r.u = [s.u EXCEPT !.named_refs = Patched(s.u.named_refs, h, s.ref)]
      BY <3>1, <3>2
    <3> QED BY <2>2, <2>4, <3>3
  <2>6. PICK new : new = Patched(u.named_refs, h, k)
    OBVIOUS
  <2>7. /\ DOMAIN w = UpdateFields /\ w.canonical = Append(u.canonical, x)
        /\ w.types = u.types /\ w.objects = u.objects /\ w.links = u.links /\ w.live = u.live
        /\ w.new_identities = u.new_identities /\ w.named_refs = new
        /\ w.intrinsic_refs = u.intrinsic_refs
        /\ w.new_object_identities = u.new_object_identities /\ w.new_links = u.new_links
    BY <2>3, <2>4, <2>6, Zenon DEF AppendStep, UpdateFields
  <2>8. RefStep(g, u, w)
    BY <2>7, RoomNat DEF RefStep, UpdOk, TypesPart, TypeRoom
  <2>9. PICK p, q, named, intr : p = g.canonical /\ q = u.canonical /\ named = NamedOf(g, u)
                                 /\ intr = u.intrinsic_refs
    OBVIOUS
  <2>10. IsSeq(p) /\ IsSeq(q)
    BY <2>9, JoinedRefs
  <2>11. PICK can : can = p \o q
    BY Zenon
  <2>12. CanonOk(can, named, intr) /\ DOMAIN intr = Intrinsics /\ h \in Nat \ {0}
    BY <2>9, <2>11, RoomNat DEF UpdOk, RefsPart, RefsOk
  <2>13. named[h] = 0
    <3>1. named[h] = IF h \in DOMAIN u.named_refs THEN u.named_refs[h]
                     ELSE IF h \in DOMAIN g.named_refs THEN g.named_refs[h] ELSE 0
      BY <2>9, <2>12 DEF NamedOf
    <3> QED BY <1>4, <3>1
  <2>14. \A i \in 1..Length(can) : can[i] # Named(h)
    BY <2>12, <2>13 DEF CanonOk
  <2>15. k = Length(can) + 1
    BY <2>3, <2>9, <2>11, JoinedRefs DEF AppendStep
  <2>16. PICK m : m = NamedOf(g, w)
    OBVIOUS
  <2>17. \A j \in Nat : m[j] = IF j = h THEN Length(can) + 1 ELSE named[j]
    <3>1. ASSUME NEW j \in Nat PROVE m[j] = IF j = h THEN k ELSE named[j]
      <4>1. m[j] = IF j \in DOMAIN new THEN new[j]
                   ELSE IF j \in DOMAIN g.named_refs THEN g.named_refs[j] ELSE 0
        BY <2>7, <2>16 DEF NamedOf
      <4>2. named[j] = IF j \in DOMAIN u.named_refs THEN u.named_refs[j]
                       ELSE IF j \in DOMAIN g.named_refs THEN g.named_refs[j] ELSE 0
        BY <2>9 DEF NamedOf
      <4>3. /\ j \in DOMAIN new <=> j \in DOMAIN u.named_refs \/ j = h
            /\ new[h] = k
            /\ j \in DOMAIN u.named_refs /\ j # h => new[j] = u.named_refs[j]
        BY <2>6, PatchedIs
      <4> QED BY <4>1, <4>2, <4>3
    <3> QED BY <2>15, <3>1
  <2>18. CanonOk(Append(can, Named(h)), m, intr)
    BY <2>12, <2>14, <2>17, CanonNamed
  <2>19. p \o w.canonical = Append(can, Named(h))
    <3>1. p \o Append(q, x) = Append(p \o q, x)
      BY <2>10, JoinAppend
    <3> QED BY <1>2, <2>7, <2>9, <2>11, <3>1
  <2>20. RefsPart(g, w)
    <3>1. IsSeq(w.canonical)
      BY <2>7, <2>9, <2>10, AppendSeq
    <3>2. PatchesWithin(w.named_refs, TypeRoom(g, w))
      <4>1. TypeRoom(g, w) = TypeRoom(g, u) /\ PatchesWithin(u.named_refs, TypeRoom(g, u))
        BY <2>7 DEF UpdOk, RefsPart, TypeRoom
      <4>2. \A j : j \in DOMAIN new <=> j \in DOMAIN u.named_refs \/ j = h
        BY <2>6, PatchedIs
      <4> QED BY <2>7, <4>1, <4>2 DEF PatchesWithin
    <3> QED BY <2>7, <2>9, <2>12, <2>16, <2>18, <2>19, <3>1, <3>2 DEF RefsPart, RefsOk
  <2> QED BY <1>1, <2>5, <2>8, <2>20, RefStepOk
<1> QED BY <1>3, <1>4

\* An intrinsic record this update makes.
LEMMA GetIntrinsicOk ==
  ASSUME NEW g, GraphOk(g), NEW u, UpdOk(g, u), NEW y \in Intrinsics
  PROVE  LET r == GetIntrinsic(g, u, y) IN UpdOk(g, r.u) /\ RefStep(g, u, r.u)
<1>1. PICK r : r = GetIntrinsic(g, u, y)
  OBVIOUS
<1>2. PICK x : x = Intrinsic(y)
  OBVIOUS
<1>3. CASE u.intrinsic_refs[y] # 0
  <2>1. r.u = u
    BY <1>1, <1>3 DEF GetIntrinsic
  <2> QED BY <1>1, <2>1, RefStepSelf
<1>4. CASE u.intrinsic_refs[y] = 0
  <2>1. PICK s : s = AppendCanonical(g, u, x)
    OBVIOUS
  <2>2. PICK v, k : v = s.u /\ k = s.ref
    OBVIOUS
  <2>3. AppendStep(g, u, x, v, k) /\ DOMAIN u = UpdateFields
    BY <2>1, <2>2, AppendCanonicalSteps DEF UpdOk
  <2>4. PICK w : w = [v EXCEPT !.intrinsic_refs = Put(v.intrinsic_refs, y, k)]
    BY Zenon
  <2>5. r.u = w
    <3>1. DOMAIN s = {"u", "ref"}
      BY <2>1 DEF AppendCanonical
    <3>2. r = [s EXCEPT !.u.intrinsic_refs[y] = s.ref]
      BY <1>1, <1>2, <1>4, <2>1 DEF GetIntrinsic, Intrinsic
    <3>3. r.u = [s.u EXCEPT !.intrinsic_refs[y] = s.ref]
      BY <3>1, <3>2
    <3> QED BY <2>2, <2>4, <3>3 DEF Put
  <2>6. PICK new : new = Put(u.intrinsic_refs, y, k)
    OBVIOUS
  <2>7. /\ DOMAIN w = UpdateFields /\ w.canonical = Append(u.canonical, x)
        /\ w.types = u.types /\ w.objects = u.objects /\ w.links = u.links /\ w.live = u.live
        /\ w.new_identities = u.new_identities /\ w.named_refs = u.named_refs
        /\ w.intrinsic_refs = new
        /\ w.new_object_identities = u.new_object_identities /\ w.new_links = u.new_links
    BY <2>3, <2>4, <2>6 DEF AppendStep, UpdateFields
  <2>8. RefStep(g, u, w)
    BY <2>7, RoomNat DEF RefStep, UpdOk, TypesPart, TypeRoom
  <2>9. PICK p, q, named, intr : p = g.canonical /\ q = u.canonical /\ named = NamedOf(g, u)
                                 /\ intr = u.intrinsic_refs
    OBVIOUS
  <2>10. IsSeq(p) /\ IsSeq(q)
    BY <2>9, JoinedRefs
  <2>11. PICK can : can = p \o q
    BY Zenon
  <2>12. CanonOk(can, named, intr) /\ DOMAIN intr = Intrinsics
    BY <2>9, <2>11 DEF UpdOk, RefsPart, RefsOk
  <2>14. \A i \in 1..Length(can) : can[i] # Intrinsic(y)
    BY <1>4, <2>9, <2>12 DEF CanonOk
  <2>15. k = Length(can) + 1
    BY <2>3, <2>9, <2>11, JoinedRefs DEF AppendStep
  <2>17. DOMAIN new = Intrinsics
         /\ \A z \in Intrinsics : new[z] = IF z = y THEN Length(can) + 1 ELSE intr[z]
    BY <2>6, <2>9, <2>12, <2>15 DEF Put
  <2>18. CanonOk(Append(can, Intrinsic(y)), named, new)
    BY <2>12, <2>14, <2>17, CanonIntrinsic
  <2>19. p \o w.canonical = Append(can, Intrinsic(y))
    <3>1. p \o Append(q, x) = Append(p \o q, x)
      BY <2>10, JoinAppend
    <3> QED BY <1>2, <2>7, <2>9, <2>11, <3>1
  <2>20. RefsPart(g, w)
    <3>1. IsSeq(w.canonical)
      BY <2>7, <2>9, <2>10, AppendSeq
    <3>2. PatchesWithin(w.named_refs, TypeRoom(g, w)) /\ NamedOf(g, w) = named
      BY <2>7, <2>9 DEF UpdOk, RefsPart, TypeRoom, NamedOf
    <3> QED BY <2>7, <2>9, <2>17, <2>18, <2>19, <3>1, <3>2 DEF RefsPart, RefsOk
  <2> QED BY <1>1, <2>5, <2>8, <2>20, RefStepOk
<1> QED BY <1>3, <1>4

\* The slot of an identity is one of the slots of the update.
LEMMA FindOrCreateHandleOk ==
  ASSUME NEW g, GraphOk(g), NEW u, UpdOk(g, u), NEW identity
  PROVE  LET s == FindOrCreateHandle(g, u, identity) IN
         UpdOk(g, s.u) /\ RefStep(g, u, s.u) /\ s.handle \in 1..TypeRoom(g, s.u)
<1> DEFINE old == First(g.identities, identity)
           new == First(u.new_identities, identity)
<1>1. PICK s : s = FindOrCreateHandle(g, u, identity)
  OBVIOUS
<1>2. s = IF old # 0 THEN [u |-> u, handle |-> old]
          ELSE IF new # 0 THEN [u |-> u, handle |-> Len(g.types) + new]
          ELSE [u |-> [u EXCEPT !.new_identities = Append(@, identity)],
                handle |-> TypeSlots(g, u) + 1]
  BY <1>1 DEF FindOrCreateHandle, FindIdentity, FirstWhere, First
<1>3. IsSeq(g.identities) /\ Length(g.identities) = Length(g.types) /\ IsSeq(u.new_identities)
  BY DEF GraphOk, TypeSlotsOk, UpdOk, TypesPart
<1>4. PICK n, m \in Nat : /\ n = Length(g.types) /\ m = Length(u.new_identities)
                          /\ TypeRoom(g, u) = n + m /\ TypeSlots(g, u) = n + m /\ Len(g.types) = n
  BY <1>3, LengthSeq, RoomNat, Zenon DEF TypeRoom, Length
<1>5. old \in 0..n /\ new \in 0..m
  BY <1>3, <1>4, FirstIs
<1> HIDE DEF old, new
<1>6. CASE old # 0 \/ new # 0
  <2>1. s.u = u /\ s.handle \in 1..(n + m)
    BY <1>2, <1>4, <1>5, <1>6
  <2> QED BY <1>1, <1>4, <2>1, RefStepSelf
<1>7. CASE old = 0 /\ new = 0
  <2>1. PICK q : q = Append(u.new_identities, identity)
    BY Zenon
  <2>2. PICK v : v = [u EXCEPT !.new_identities = q]
    BY Zenon
  <2>3. s.u = v /\ s.handle = n + m + 1
    BY <1>2, <1>4, <1>7, <2>1, <2>2
  <2>4. IsSeq(q) /\ Length(q) = m + 1
    BY <1>3, <1>4, <2>1, AppendSeq DEF Length
  <2>5. /\ DOMAIN v = UpdateFields /\ v.new_identities = q /\ v.types = u.types
        /\ v.objects = u.objects /\ v.links = u.links /\ v.live = u.live
        /\ v.new_object_identities = u.new_object_identities /\ v.new_links = u.new_links
        /\ v.canonical = u.canonical /\ v.named_refs = u.named_refs
        /\ v.intrinsic_refs = u.intrinsic_refs
    BY <2>2 DEF UpdOk, UpdateFields
  <2>6. TypeRoom(g, v) = n + m + 1
    BY <1>4, <2>4, <2>5 DEF TypeRoom
  <2>7. RefStep(g, u, v)
    BY <1>4, <2>4, <2>5, <2>6 DEF RefStep
  <2>8. RefsPart(g, v)
    <3>1. NamedOf(g, v) = NamedOf(g, u)
      BY <2>5 DEF NamedOf
    <3>2. PatchesWithin(u.named_refs, n + m)
      BY <1>4 DEF UpdOk, RefsPart
    <3>3. PatchesWithin(u.named_refs, n + m + 1)
      BY <1>4, <3>2, WithinGrows
    <3> QED BY <2>5, <2>6, <3>1, <3>3 DEF UpdOk, RefsPart
  <2> QED BY <1>1, <1>4, <2>3, <2>6, <2>7, <2>8, RefStepOk
<1> QED BY <1>6, <1>7

\* The modifiers of a reference in an update.
LEMMA DerivedOk ==
  ASSUME NEW g, GraphOk(g), NEW u, UpdOk(g, u), NEW base, UpdOk(g, base.u),
         RefStep(g, u, base.u), NEW modifiers, IsSeq(modifiers)
  PROVE  UpdOk(g, Derived(g, base, modifiers).u) /\ RefStep(g, u, Derived(g, base, modifiers).u)
<1> DEFINE n == Length(modifiers)
<1>1. n \in Nat /\ DOMAIN modifiers = 1..n
  BY LengthSeq
<1>2. PICK tr : Traced(tr, "derive sparsely", <<g>>, base, modifiers, n, Derived(g, base, modifiers))
  BY <1>1, DerivedTrace, Zenon
<1> DEFINE S == {m \in 0..n : UpdOk(g, tr[m].u) /\ RefStep(g, u, tr[m].u)}
<1>3. 0 \in S
  <2>1. tr[0] = base
    BY <1>2, Zenon DEF Traced
  <2> QED BY <1>1, <2>1
<1>4. ASSUME NEW m \in 0..(n-1), m \in S PROVE m + 1 \in S
  <2>1. m + 1 \in 1..n /\ m + 1 \in 0..n /\ m + 1 - 1 = m
    BY <1>1
  <2>2. tr[m+1] = GetDerived(g, tr[m].u, modifiers[m+1], tr[m].ref)
    BY <1>2, <2>1 DEF Traced, Step
  <2>3. PICK v, x, k : v = tr[m].u /\ x = modifiers[m+1] /\ k = tr[m].ref
    OBVIOUS
  <2>4. UpdOk(g, v) /\ RefStep(g, u, v)
    BY <1>4, <2>3
  <2>5. PICK w : w = GetDerived(g, v, x, k).u
    OBVIOUS
  <2>6. UpdOk(g, w) /\ RefStep(g, v, w)
    BY <2>4, <2>5, GetDerivedOk
  <2>7. tr[m+1].u = w
    BY <2>2, <2>3, <2>5
  <2>8. RefStep(g, u, w)
    BY <2>4, <2>6, RefStepTwice
  <2> QED BY <2>1, <2>6, <2>7, <2>8
<1>5. 0..n \subseteq S
  <2> HIDE DEF S, n
  <2> QED BY <1>1, <1>3, <1>4, SetInduction
<1>6. Derived(g, base, modifiers) = tr[n]
  BY <1>2, Zenon DEF Traced
<1> QED BY <1>1, <1>5, <1>6

\* materialize_type_ref keeps the records unique and the caches exact.
LEMMA MaterializeTypeRefOk ==
  ASSUME NEW c, NEW d, SparseOk(c, d), NEW p, UpdateOn(d, p), NEW g, GraphOk(g),
         NEW u, UpdOk(g, u), NEW type, TypeOk(type)
  PROVE  LET t == MaterializeTypeRef(c, g, p.c, u, type) IN
         UpdOk(g, t.u) /\ RefStep(g, u, t.u)
<1> DEFINE slot == FindOrCreateHandle(g, u, type.identity)
           base == IF type.identity # NoIdentity THEN GetNamed(g, slot.u, slot.handle)
                   ELSE GetIntrinsic(g, u, type.intrinsic)
           mods == CombinedRange(c, p.c, "modifiers", type.modifiers)
<1>1. MaterializeTypeRef(c, g, p.c, u, type).u = Derived(g, base, mods).u
  BY DEF MaterializeTypeRef
<1>2. IsSeq(mods)
  <2>1. type.modifiers \in [begin : Nat, count : Nat]
    BY DEF TypeOk, Ranges
  <2>2. "modifiers" \in Arenas
    BY DEF Arenas
  <2> QED BY <2>1, <2>2, CombinedRangeSeq
<1>3. UpdOk(g, base.u) /\ RefStep(g, u, base.u)
  <2>1. CASE type.identity # NoIdentity
    <3>1. PICK s, h : s = slot.u /\ h = slot.handle
      OBVIOUS
    <3>2. PICK identity : identity = type.identity
      OBVIOUS
    <3>3. UpdOk(g, s) /\ RefStep(g, u, s) /\ h \in 1..TypeRoom(g, s)
      BY <3>1, <3>2, FindOrCreateHandleOk
    <3>4. PICK w : w = GetNamed(g, s, h).u
      OBVIOUS
    <3>5. UpdOk(g, w) /\ RefStep(g, s, w)
      BY <3>3, <3>4, GetNamedOk
    <3>6. RefStep(g, u, w)
      BY <3>3, <3>5, RefStepTwice
    <3>7. base.u = w
      BY <2>1, <3>1, <3>4
    <3> QED BY <3>5, <3>6, <3>7
  <2>2. CASE type.identity = NoIdentity
    <3>1. PICK y : y = type.intrinsic
      OBVIOUS
    <3>2. PICK w : w = GetIntrinsic(g, u, y).u
      OBVIOUS
    <3>3. UpdOk(g, w) /\ RefStep(g, u, w)
      BY <2>2, <3>1, <3>2, GetIntrinsicOk DEF TypeOk
    <3>4. base.u = w
      BY <2>2, <3>1, <3>2
    <3> QED BY <3>3, <3>4
  <2> QED BY <2>1, <2>2
<1> HIDE DEF base, mods
<1> QED BY <1>1, <1>2, <1>3, DerivedOk

----------------------------------------------------------------------------
(* The slices an update reads. *)

\* All records of a sequence of arena a are well formed.
RecordsOk(a, q) == \A i \in 1..Length(q) : RecordOk(a, q[i])

\* A range of well-formed records.
LEMMA SpanRecords ==
  ASSUME NEW a, NEW v, IsSeq(v), RecordsOk(a, v), NEW r, r.begin \in Nat, r.count \in Nat
  PROVE  IsSeq(Span(v, r)) /\ RecordsOk(a, Span(v, r)) /\ Length(Span(v, r)) <= r.count
<1>1. PICK n \in Nat : n = Length(v) /\ n = Len(v)
  BY LengthSeq DEF Length
<1>2. CASE r.begin > n \/ r.count > n - r.begin
  <2>1. Span(v, r) = <<>>
    BY <1>1, <1>2 DEF Span
  <2> QED BY <2>1, EmptyIsSeq DEF RecordsOk, Length
<1>3. CASE ~(r.begin > n \/ r.count > n - r.begin)
  <2>1. r.begin + r.count <= Len(v)
    BY <1>1, <1>3
  <2>2. PICK q : q = Span(v, r)
    OBVIOUS
  <2>3. q = [i \in 1..r.count |-> v[r.begin + i]]
    BY <2>1, <2>2, SpanSeq
  <2>4. IsSeq(q) /\ Length(q) = r.count
    <3>1. q = [i \in 1..r.count |-> q[i]]
      BY <2>3
    <3> QED BY <3>1, FunctionIsSeq DEF Length
  <2>5. \A i \in 1..r.count : r.begin + i \in 1..n /\ q[i] = v[r.begin + i]
    BY <1>1, <2>1, <2>3
  <2> QED BY <1>1, <2>2, <2>4, <2>5 DEF RecordsOk
<1> QED BY <1>2, <1>3

\* A range of the committed and the captured arena holds well-formed records.
LEMMA CombinedRangeOk ==
  ASSUME NEW c, NEW d, SparseOk(c, d), NEW p, UpdateOn(d, p), NEW a \in Arenas,
         NEW r, r \in [begin : Nat, count : Nat]
  PROVE  /\ RecordsOk(a, CombinedRange(c, p.c, a, r))
         /\ Length(CombinedRange(c, p.c, a, r)) <= r.count
<1>1. /\ IsSeq(c.arena[a]) /\ IsSeq(p.c.arena[a])
      /\ RecordsOk(a, c.arena[a]) /\ RecordsOk(a, p.c.arena[a])
      /\ p.c.base[a] = Length(c.arena[a]) /\ Length(c.arena[a]) \in Nat
  <2>1. IsSeq(c.arena[a]) /\ IsSeq(p.c.arena[a])
    BY UpdateOnKeeps, Zenon DEF SparseOk, CacheOk, ArenaSeqs
  <2>2. p.c.base = Sizes(c.arena)
    BY UpdateOnKeeps, Zenon DEF SparseOk
  <2>3. RecordsOk(a, c.arena[a]) /\ RecordsOk(a, p.c.arena[a])
    BY UpdateOnKeeps DEF SparseOk, CacheOk, ArenaOk, RecordsOk
  <2> QED BY <2>1, <2>2, <2>3, LengthSeq DEF Sizes, Length
<1>2. PICK v, w, base : v = c.arena[a] /\ w = p.c.arena[a] /\ base = p.c.base[a]
  OBVIOUS
<1>3. /\ base \in Nat /\ IsSeq(v) /\ IsSeq(w) /\ r.begin \in Nat /\ r.count \in Nat
      /\ RecordsOk(a, v) /\ RecordsOk(a, w)
  BY <1>1, <1>2
<1>4. PICK s : s = CombinedSpan(v, w, base, r)
  OBVIOUS
<1>5. RecordsOk(a, s) /\ Length(s) <= r.count
  <2>1. CASE r.begin < base /\ r.begin + r.count > base
    <3>1. s = <<>>
      BY <1>4, <2>1 DEF CombinedSpan
    <3> QED BY <1>3, <3>1, EmptyIsSeq DEF RecordsOk, Length
  <2>2. CASE r.begin < base /\ ~(r.begin + r.count > base)
    <3>1. s = Span(v, r)
      BY <1>4, <2>2 DEF CombinedSpan
    <3> QED BY <1>3, <3>1, SpanRecords
  <2>3. CASE ~(r.begin < base)
    <3>1. PICK x : x = [r EXCEPT !.begin = @ - base]
      BY Zenon
    <3>2. x.begin \in Nat /\ x.count \in Nat /\ x.count = r.count
      BY <1>3, <2>3, <3>1
    <3>3. s = Span(w, x)
      BY <1>4, <2>3, <3>1 DEF CombinedSpan
    <3> QED BY <1>3, <3>2, <3>3, SpanRecords
  <2> QED BY <2>1, <2>2, <2>3
<1> QED BY <1>2, <1>4, <1>5 DEF CombinedRange

\* So does its replacement.
LEMMA ReplacementSliceOk ==
  ASSUME NEW c, NEW d, SparseOk(c, d), NEW p, UpdateOn(d, p), NEW a \in Arenas,
         NEW s \in ToSet(d.changed)
  PROVE  RecordsOk(a, ReplacementSlice(c, p.c, s, a))
<1>1. p.c.sources[s] \in Slices \cup {NoState}
  BY UpdateOnKeeps DEF SparseOk
<1>2. CASE p.c.sources[s] = NoState
  BY <1>2, EmptyIsSeq DEF ReplacementSlice, RecordsOk, Length
<1>3. CASE p.c.sources[s] # NoState
  <2>1. PICK r : r = p.c.sources[s][a]
    OBVIOUS
  <2>2. r \in [begin : Nat, count : Nat]
    BY <1>1, <1>3, <2>1, RangeReads
  <2>3. RecordsOk(a, CombinedRange(c, p.c, a, r))
    BY <2>2, CombinedRangeOk
  <2> QED BY <1>3, <2>1, <2>3 DEF ReplacementSlice
<1> QED BY <1>2, <1>3

\* The combined index of a new declaration.
LEMMA DeclarationIndex ==
  ASSUME NEW c, NEW d, SparseOk(c, d), NEW p, UpdateOn(d, p), NEW s \in ToSet(d.changed),
         NEW i \in 1..Length(ReplacementSlice(c, p.c, s, "types"))
  PROVE  p.c.sources[s]["types"].begin + i \in 1..TypeRecords(c, d)
<1>1. /\ p.c.sources[s] \in Slices \cup {NoState} /\ "types" \in Arenas
      /\ p.c.sources[s] # NoState => DeclaresWithin(p.c.sources[s], TypeRecords(c, d))
  BY UpdateOnKeeps DEF SparseOk, Arenas
<1>2. PICK l \in Nat : l = Length(ReplacementSlice(c, p.c, s, "types"))
  BY <1>1, ReplacementSliceSeq, LengthSeq, Zenon
<1>3. p.c.sources[s] # NoState
  <2>1. CASE p.c.sources[s] = NoState
    <3>1. l = 0
      BY <1>2, <2>1, EmptyIsSeq DEF ReplacementSlice, Length
    <3> QED BY <1>2, <3>1
  <2> QED BY <2>1
<1>4. PICK r : r = p.c.sources[s]["types"]
  OBVIOUS
<1>5. r \in [begin : Nat, count : Nat] /\ r.begin \in Nat /\ r.count \in Nat
  BY <1>1, <1>3, <1>4, RangeReads
<1>6. l <= r.count
  <2>1. Length(CombinedRange(c, p.c, "types", r)) <= r.count
    BY <1>1, <1>5, CombinedRangeOk
  <2>2. ReplacementSlice(c, p.c, s, "types") = CombinedRange(c, p.c, "types", r)
    BY <1>3, <1>4 DEF ReplacementSlice
  <2> QED BY <1>2, <2>1, <2>2
<1>7. r.begin + r.count <= TypeRecords(c, d)
  BY <1>1, <1>3, <1>4 DEF DeclaresWithin
<1>8. TypeRecords(c, d) \in Nat
  BY <1>1, LengthSeq DEF TypeRecords, SparseOk, CacheOk, ArenaSeqs
<1> QED BY <1>2, <1>4, <1>5, <1>6, <1>7, <1>8

\* The declaration at a combined index.
LEMMA TypeAtOk ==
  ASSUME NEW c, NEW d, SparseOk(c, d), NEW p, UpdateOn(d, p), NEW i \in 1..TypeRecords(c, d)
  PROVE  TypeAt(c, p.c, i).items \in Ranges
<1>1. PICK v, w : v = c.arena["types"] /\ w = d.arena["types"]
  OBVIOUS
<1>2. /\ IsSeq(v) /\ IsSeq(w) /\ p.c.arena = d.arena /\ p.c.base["types"] = Length(v)
      /\ \A k \in 1..Length(v) : RecordOk("types", v[k])
      /\ \A k \in 1..Length(w) : RecordOk("types", w[k])
  <2>1. "types" \in Arenas
    BY DEF Arenas
  <2>2. p.c.base = Sizes(c.arena) /\ p.c.arena = d.arena
    BY UpdateOnKeeps DEF SparseOk
  <2> QED BY <1>1, <2>1, <2>2 DEF SparseOk, CacheOk, ArenaSeqs, ArenaOk, Sizes, Length
<1>3. PICK m, n \in Nat : m = Length(v) /\ n = Length(w)
  BY <1>2, LengthSeq
<1>4. TypeRecords(c, d) = m + n
  BY <1>1, <1>3 DEF TypeRecords
<1>5. CASE i <= m
  <2>1. TypeAt(c, p.c, i) = v[i] /\ i \in 1..m
    BY <1>1, <1>2, <1>3, <1>5 DEF TypeAt
  <2>2. RecordOk("types", v[i])
    BY <1>2, <1>3, <2>1
  <2> QED BY <2>1, <2>2 DEF RecordOk
<1>6. CASE ~(i <= m)
  <2>1. i - m \in 1..n
    BY <1>3, <1>4, <1>6
  <2>2. TypeAt(c, p.c, i) = w[i - m]
    BY <1>1, <1>2, <1>3, <1>6 DEF TypeAt
  <2>3. RecordOk("types", w[i - m])
    BY <1>2, <1>3, <2>1
  <2> QED BY <2>2, <2>3 DEF RecordOk
<1> QED BY <1>5, <1>6

----------------------------------------------------------------------------
(* The slots and links an update patches. *)

\* The count of a set after one element was put in or left out.
Flipped(S, n, x, on) ==
  IF x \in S THEN IF on THEN n ELSE n - 1 ELSE IF on THEN n + 1 ELSE n

\* The count of a set after one element was put in or left out.
LEMMA CountFlip ==
  ASSUME NEW S, NEW n, CountOk(S, n), NEW x, NEW on \in BOOLEAN,
         NEW T, \A y : y \in T <=> IF y = x THEN on ELSE y \in S
  PROVE  CountOk(T, Flipped(S, n, x, on))
<1>1. CASE x \in S /\ on
  <2>1. T = S
    BY <1>1
  <2> QED BY <1>1, <2>1 DEF Flipped
<1>2. CASE x \in S /\ ~on
  <2>1. \A y : y \in T <=> y \in S /\ y # x
    BY <1>2
  <2>2. CountOk(T, n - 1)
    BY <1>2, <2>1, CountDrop
  <2> QED BY <1>2, <2>2 DEF Flipped
<1>3. CASE x \notin S /\ on
  <2>1. \A y : y \in T <=> y \in S \/ y = x
    BY <1>3
  <2>2. CountOk(T, n + 1)
    BY <1>3, <2>1, CountAdd
  <2> QED BY <1>3, <2>2 DEF Flipped
<1>4. CASE x \notin S /\ ~on
  <2>1. T = S
    BY <1>4
  <2> QED BY <1>4, <2>1 DEF Flipped
<1> QED BY <1>1, <1>2, <1>3, <1>4

\* The update v is w with the slot of the type h replaced by entry.
TypePut(w, h, entry, v) ==
  /\ DOMAIN v = UpdateFields /\ LiveShape(v.live)
  /\ v.types = Patched(w.types, h, entry)
  /\ v.new_identities = w.new_identities /\ v.canonical = w.canonical
  /\ v.named_refs = w.named_refs /\ v.intrinsic_refs = w.intrinsic_refs
  /\ v.objects = w.objects /\ v.new_object_identities = w.new_object_identities
  /\ v.links = w.links /\ v.new_links = w.new_links
  /\ v.live.objects = w.live.objects /\ v.live.links = w.live.links

\* A type slot that is replaced changes the live types by that slot only.
LEMMA TypePutOk ==
  ASSUME NEW g, GraphOk(g), NEW w, UpdOk(g, w), NEW h \in 1..TypeRoom(g, w), NEW entry,
         NEW v, TypePut(w, h, entry, v), NEW on \in BOOLEAN, on <=> entry.live,
         NEW n, CountOk(LiveTypeSet(g, w), n)
  PROVE  /\ UpdOk(g, v) /\ TypeRoom(g, v) = TypeRoom(g, w)
         /\ CountOk(LiveTypeSet(g, v), Flipped(LiveTypeSet(g, w), n, h, on))
         /\ h \in LiveTypeSet(g, w) <=> CandidateType(g, w, h).live
<1>1. /\ \A x : x \in DOMAIN v.types <=> x \in DOMAIN w.types \/ x = h
      /\ v.types[h] = entry
      /\ \A x \in DOMAIN w.types : x # h => v.types[x] = w.types[x]
  BY PatchedIs DEF TypePut
<1>2. TypeRoom(g, v) = TypeRoom(g, w) /\ TypeRoom(g, w) \in Nat /\ h \in Nat \ {0}
  BY RoomNat DEF TypeRoom, TypePut
<1>3. \A y : y \in LiveTypeSet(g, v) <=> IF y = h THEN on ELSE y \in LiveTypeSet(g, w)
  <2>1. CandidateType(g, v, h) = entry
    BY <1>1 DEF CandidateType
  <2>2. \A y : y # h => CandidateType(g, v, y) = CandidateType(g, w, y)
    BY <1>1 DEF CandidateType
  <2> QED BY <1>2, <2>1, <2>2 DEF LiveTypeSet
<1>4. CountOk(LiveTypeSet(g, v), Flipped(LiveTypeSet(g, w), n, h, on))
  <2>1. PICK S, T : S = LiveTypeSet(g, w) /\ T = LiveTypeSet(g, v)
    OBVIOUS
  <2> QED BY <1>3, <2>1, CountFlip
<1>5. TypesPart(g, v)
  BY <1>1, <1>2 DEF TypesPart, PatchesWithin, UpdOk, TypePut
<1>6. RefsPart(g, v)
  <2>1. NamedOf(g, v) = NamedOf(g, w)
    BY DEF NamedOf, TypePut
  <2> QED BY <1>2, <2>1 DEF RefsPart, UpdOk, TypePut
<1>7. ObjectsPart(g, v)
  <2>1. LiveObjectSet(g, v) = LiveObjectSet(g, w) /\ ObjectRoom(g, v) = ObjectRoom(g, w)
    BY DEF LiveObjectSet, CandidateObject, ObjectRoom, TypePut
  <2> QED BY <2>1 DEF ObjectsPart, UpdOk, TypePut
<1>8. LinksPart(g, v)
  <2>1. LiveLinkSet(g, v) = LiveLinkSet(g, w)
    BY DEF LiveLinkSet, LinkAt, LinkRoom, TypePut
  <2> QED BY <2>1 DEF LinksPart, UpdOk, TypePut
<1>9. h \in LiveTypeSet(g, w) <=> CandidateType(g, w, h).live
  BY <1>2 DEF LiveTypeSet
<1> QED BY <1>2, <1>4, <1>5, <1>6, <1>7, <1>8, <1>9 DEF UpdOk, TypePut

\* The update v is w with the slot of the object h replaced by entry.
ObjectPut(w, h, entry, v) ==
  /\ DOMAIN v = UpdateFields /\ LiveShape(v.live)
  /\ v.objects = Patched(w.objects, h, entry)
  /\ v.new_object_identities = w.new_object_identities
  /\ v.types = w.types /\ v.new_identities = w.new_identities /\ v.canonical = w.canonical
  /\ v.named_refs = w.named_refs /\ v.intrinsic_refs = w.intrinsic_refs
  /\ v.links = w.links /\ v.new_links = w.new_links
  /\ v.live.types = w.live.types /\ v.live.links = w.live.links

\* An object slot that is replaced with the counter in step.
LEMMA ObjectPutOk ==
  ASSUME NEW g, GraphOk(g), NEW w, UpdOk(g, w), TypesCounted(g, w),
         NEW h \in 1..ObjectRoom(g, w), NEW entry,
         NEW v, ObjectPut(w, h, entry, v), NEW on \in BOOLEAN, on <=> entry.live,
         v.live.objects = Flipped(LiveObjectSet(g, w), w.live.objects, h, on)
  PROVE  UpdOk(g, v) /\ TypesCounted(g, v)
<1>1. /\ \A x : x \in DOMAIN v.objects <=> x \in DOMAIN w.objects \/ x = h
      /\ v.objects[h] = entry
      /\ \A x \in DOMAIN w.objects : x # h => v.objects[x] = w.objects[x]
  BY PatchedIs DEF ObjectPut
<1>2. ObjectRoom(g, v) = ObjectRoom(g, w) /\ ObjectRoom(g, w) \in Nat /\ h \in Nat \ {0}
  BY RoomNat DEF ObjectRoom, ObjectPut
<1>3. \A y : y \in LiveObjectSet(g, v) <=> IF y = h THEN on ELSE y \in LiveObjectSet(g, w)
  <2>1. CandidateObject(g, v, h) = entry
    BY <1>1 DEF CandidateObject
  <2>2. \A y : y # h => CandidateObject(g, v, y) = CandidateObject(g, w, y)
    BY <1>1 DEF CandidateObject
  <2> QED BY <1>2, <2>1, <2>2 DEF LiveObjectSet
<1>4. CountOk(LiveObjectSet(g, v), v.live.objects)
  <2>1. PICK S, T, n : S = LiveObjectSet(g, w) /\ T = LiveObjectSet(g, v) /\ n = w.live.objects
    OBVIOUS
  <2>2. CountOk(S, n)
    BY <2>1 DEF UpdOk, ObjectsPart
  <2> QED BY <1>3, <2>1, <2>2, CountFlip
<1>5. ObjectsPart(g, v)
  BY <1>1, <1>2, <1>4 DEF ObjectsPart, PatchesWithin, UpdOk, ObjectPut
<1>6. RefsPart(g, v) /\ TypeRoom(g, v) = TypeRoom(g, w)
  <2>1. NamedOf(g, v) = NamedOf(g, w)
    BY DEF NamedOf, ObjectPut
  <2>2. TypeRoom(g, v) = TypeRoom(g, w)
    BY DEF TypeRoom, ObjectPut
  <2> QED BY <2>1, <2>2 DEF RefsPart, UpdOk, ObjectPut
<1>7. TypesPart(g, v) /\ TypesCounted(g, v)
  <2>1. LiveTypeSet(g, v) = LiveTypeSet(g, w)
    BY DEF LiveTypeSet, CandidateType, ObjectPut
  <2> QED BY <1>6, <2>1 DEF TypesPart, TypesCounted, UpdOk, ObjectPut
<1>8. LinksPart(g, v)
  <2>1. LiveLinkSet(g, v) = LiveLinkSet(g, w)
    BY DEF LiveLinkSet, LinkAt, LinkRoom, ObjectPut
  <2> QED BY <2>1 DEF LinksPart, UpdOk, ObjectPut
<1> QED BY <1>5, <1>6, <1>7, <1>8 DEF UpdOk, ObjectPut

\* The update v is w up to its links.
LinksOnly(w, v) ==
  /\ DOMAIN v = UpdateFields /\ LiveShape(v.live)
  /\ v.objects = w.objects /\ v.new_object_identities = w.new_object_identities
  /\ v.types = w.types /\ v.new_identities = w.new_identities /\ v.canonical = w.canonical
  /\ v.named_refs = w.named_refs /\ v.intrinsic_refs = w.intrinsic_refs
  /\ v.live.types = w.live.types /\ v.live.objects = w.live.objects

\* A step that changes links only.
LEMMA LinksOnlyOk ==
  ASSUME NEW g, GraphOk(g), NEW w, UpdOk(g, w), TypesCounted(g, w),
         NEW v, LinksOnly(w, v), LinksPart(g, v)
  PROVE  UpdOk(g, v) /\ TypesCounted(g, v)
<1>1. TypeRoom(g, v) = TypeRoom(g, w) /\ ObjectRoom(g, v) = ObjectRoom(g, w)
  BY DEF TypeRoom, ObjectRoom, LinksOnly
<1>2. RefsPart(g, v)
  <2>1. NamedOf(g, v) = NamedOf(g, w)
    BY DEF NamedOf, LinksOnly
  <2> QED BY <1>1, <2>1 DEF RefsPart, UpdOk, LinksOnly
<1>3. TypesPart(g, v) /\ TypesCounted(g, v)
  <2>1. LiveTypeSet(g, v) = LiveTypeSet(g, w)
    BY DEF LiveTypeSet, CandidateType, LinksOnly
  <2> QED BY <1>1, <2>1 DEF TypesPart, TypesCounted, UpdOk, LinksOnly
<1>4. ObjectsPart(g, v)
  <2>1. LiveObjectSet(g, v) = LiveObjectSet(g, w)
    BY DEF LiveObjectSet, CandidateObject, LinksOnly
  <2> QED BY <1>1, <2>1 DEF ObjectsPart, UpdOk, LinksOnly
<1> QED BY <1>2, <1>3, <1>4 DEF UpdOk, LinksOnly

\* A link record.
LinkShape(x) == x \in [source : {x.source}, target : {x.target}]

\* A committed link slot that gets another source.
LEMMA LinkPutOk ==
  ASSUME NEW g, GraphOk(g), NEW w, UpdOk(g, w), TypesCounted(g, w),
         NEW h \in 1..Length(g.links), NEW x, LinkShape(x), x.target = g.links[h].target,
         NEW v, LinksOnly(w, v), v.links = Patched(w.links, h, x), v.new_links = w.new_links,
         NEW on \in BOOLEAN, on <=> x.source # NoEndpoint,
         v.live.links = Flipped(LiveLinkSet(g, w), w.live.links, h, on)
  PROVE  UpdOk(g, v) /\ TypesCounted(g, v)
<1>1. /\ \A y : y \in DOMAIN v.links <=> y \in DOMAIN w.links \/ y = h
      /\ v.links[h] = x
      /\ \A y \in DOMAIN w.links : y # h => v.links[y] = w.links[y]
  BY PatchedIs
<1>2. /\ LinkRoom(g, v) = LinkRoom(g, w) /\ LinkRoom(g, w) \in Nat /\ h \in 1..LinkRoom(g, w)
      /\ Length(g.links) \in Nat
  BY RoomNat DEF LinkRoom
<1>3. \A y : y \in LiveLinkSet(g, v) <=> IF y = h THEN on ELSE y \in LiveLinkSet(g, w)
  <2>1. LinkAt(g, v, h) = x
    BY <1>1 DEF LinkAt
  <2>2. \A y : y # h => LinkAt(g, v, y) = LinkAt(g, w, y)
    BY <1>1 DEF LinkAt
  <2> QED BY <1>2, <2>1, <2>2 DEF LiveLinkSet
<1>4. CountOk(LiveLinkSet(g, v), v.live.links)
  <2>1. PICK S, T, n : S = LiveLinkSet(g, w) /\ T = LiveLinkSet(g, v) /\ n = w.live.links
    OBVIOUS
  <2>2. CountOk(S, n)
    BY <2>1 DEF UpdOk, LinksPart
  <2> QED BY <1>3, <2>1, <2>2, CountFlip
<1>5. LinksPart(g, v)
  <2>1. PatchesWithin(v.links, Length(g.links)) /\ LinksOk(v.new_links)
    BY <1>1 DEF LinksPart, PatchesWithin, UpdOk
  <2>2. ASSUME NEW y \in DOMAIN v.links
        PROVE  /\ v.links[y] \in [source : {v.links[y].source}, target : {v.links[y].target}]
               /\ v.links[y].target = g.links[y].target
    <3>1. CASE y = h
      BY <1>1, <3>1 DEF LinkShape
    <3>2. CASE y # h
      <4>1. y \in DOMAIN w.links /\ v.links[y] = w.links[y]
        BY <1>1, <3>2
      <4> QED BY <4>1 DEF LinksPart, UpdOk
    <3> QED BY <3>1, <3>2
  <2> QED BY <1>4, <2>1, <2>2 DEF LinksPart
<1> QED BY <1>5, LinksOnlyOk

\* A new link.
LEMMA LinkNewOk ==
  ASSUME NEW g, GraphOk(g), NEW w, UpdOk(g, w), TypesCounted(g, w),
         NEW x, LinkShape(x), x.source # NoEndpoint,
         NEW v, LinksOnly(w, v), v.links = w.links, v.new_links = Append(w.new_links, x),
         v.live.links = w.live.links + 1
  PROVE  UpdOk(g, v) /\ TypesCounted(g, v)
<1>1. PICK nl, m \in Nat : /\ nl = Length(g.links) /\ m = Length(w.new_links)
                           /\ LinkRoom(g, w) = nl + m
  BY RoomNat DEF LinkRoom
<1>2. IsSeq(w.new_links) /\ IsSeq(g.links)
  BY DEF UpdOk, LinksPart, LinksOk, GraphOk
<1>3. PICK old, q : old = w.new_links /\ q = Append(old, x)
  OBVIOUS
<1>4. /\ IsSeq(q) /\ Length(q) = m + 1 /\ q[m + 1] = x
      /\ \A i \in 1..m : q[i] = old[i]
  BY <1>1, <1>2, <1>3, AppendSeq, LengthSeq DEF Length
<1>5. LinkRoom(g, v) = nl + m + 1
  BY <1>1, <1>3, <1>4 DEF LinkRoom
<1>6. PatchesWithin(w.links, nl)
  BY <1>1 DEF UpdOk, LinksPart
<1>7. LinkAt(g, v, nl + m + 1) = x
  <2>1. PICK k : k = nl + m + 1
    OBVIOUS
  <2>2. k \notin DOMAIN v.links /\ ~(k <= nl) /\ k - nl = m + 1
    <3>1. ~(k <= nl) /\ k - nl = m + 1 /\ k \notin 1..nl
      BY <1>1, <2>1
    <3>2. k \notin DOMAIN w.links
      BY <1>6, <3>1 DEF PatchesWithin
    <3> QED BY <3>1, <3>2
  <2>3. v.new_links = q
    BY <1>3
  <2>4. LinkAt(g, v, k) = v.new_links[k - Length(g.links)]
    BY <1>1, <2>2, Zenon DEF LinkAt
  <2> QED BY <1>1, <1>4, <2>1, <2>2, <2>3, <2>4
<1>8. \A y \in 1..(nl + m) : LinkAt(g, v, y) = LinkAt(g, w, y)
  <2>1. ASSUME NEW y \in 1..(nl + m) PROVE LinkAt(g, v, y) = LinkAt(g, w, y)
    <3>1. y <= nl \/ y - nl \in 1..m
      BY <1>1
    <3> QED BY <1>1, <1>3, <1>4, <3>1, Zenon DEF LinkAt
  <2> QED BY <2>1
<1>9. \A y : y \in LiveLinkSet(g, v) <=> IF y = nl + m + 1 THEN TRUE ELSE y \in LiveLinkSet(g, w)
  <2>1. \A y : y \in 1..(nl + m + 1) <=> y \in 1..(nl + m) \/ y = nl + m + 1
    BY <1>1
  <2> QED BY <1>1, <1>5, <1>7, <1>8, <2>1, Zenon DEF LiveLinkSet
<1>10. CountOk(LiveLinkSet(g, v), v.live.links)
  <2>1. PICK S, T, n, k : S = LiveLinkSet(g, w) /\ T = LiveLinkSet(g, v) /\ n = w.live.links
                          /\ k = nl + m + 1
    OBVIOUS
  <2>2. CountOk(S, n)
    BY <2>1 DEF UpdOk, LinksPart
  <2>3. k \notin S
    BY <1>1, <2>1 DEF LiveLinkSet
  <2>4. \A y : y \in T <=> y \in S \/ y = k
    BY <1>9, <2>1
  <2>5. CountOk(T, n + 1)
    BY <2>2, <2>3, <2>4, CountAdd
  <2> QED BY <2>1, <2>5
<1>11. LinksPart(g, v)
  <2>1. LinksOk(q)
    <3>1. ASSUME NEW i \in 1..(m + 1) PROVE q[i] \in [source : {q[i].source}, target : {q[i].target}]
      <4>1. i \in 1..m \/ i = m + 1
        BY <1>1
      <4>2. CASE i = m + 1
        BY <1>4, <4>2 DEF LinkShape
      <4>3. CASE i \in 1..m
        BY <1>1, <1>3, <1>4, <4>3, Zenon DEF UpdOk, LinksPart, LinksOk
      <4> QED BY <4>1, <4>2, <4>3
    <3> QED BY <1>4, <3>1 DEF LinksOk
  <2> QED BY <1>3, <1>10, <2>1 DEF LinksPart, UpdOk
<1> QED BY <1>11, LinksOnlyOk

----------------------------------------------------------------------------
(* The Graph and the construction states through the passes of an update. *)

\* What an update starts from: captured contributions and a consistent Graph.
BaseOk(c, d, g) ==
  /\ SparseOk(c, d) /\ GraphOk(g)
  /\ \A h \in DOMAIN c.construction : StateOk(c.construction[h], Length(c.arena["types"]))

\* The links of an update: what it retired it patched, and a patched link with
\* a source was claimed.
LinkRules(p) ==
  /\ p.retired_links \subseteq DOMAIN p.u.links
  /\ \A h \in DOMAIN p.u.links : p.u.links[h].source # NoEndpoint =>
       p.u.links[h].target \in p.claimed_targets

StatesIn(n, states) == \A h \in DOMAIN states : StateOk(states[h], n)

\* What every pass of an update keeps.
Pass(c, d, g, p) ==
  /\ UpdateOn(d, p) /\ UpdOk(g, p.u) /\ TypesCounted(g, p.u) /\ LinkRules(p)
  /\ StatesIn(TypeRecords(c, d), p.c.construction)

\* The type pass: no slot replaced yet, and every touched handle once.
Exchanging(g, p) ==
  /\ p.u.types = <<>>
  /\ \A i, j \in 1..Length(p.touched) : p.touched[i] = p.touched[j] => i = j
  /\ \A i \in 1..Length(p.touched) : p.touched[i] \in 1..TypeRoom(g, p.u)

\* The numbers of declarations, committed and captured.
LEMMA TypeCountsNat ==
  ASSUME NEW c, NEW d, SparseOk(c, d)
  PROVE  Length(c.arena["types"]) \in Nat /\ Length(d.arena["types"]) \in Nat
BY LengthSeq DEF SparseOk, CacheOk, ArenaSeqs, Arenas

\* The construction state of a handle, patched, committed or empty, points
\* inside the declarations.
LEMMA ConstructionOfOk ==
  ASSUME NEW c, NEW d, NEW g, BaseOk(c, d, g), NEW u, StatesIn(TypeRecords(c, d), u.construction),
         NEW h
  PROVE  StateOk(ConstructionOf(c, u, h), TypeRecords(c, d))
<1>1. CASE h \in DOMAIN u.construction
  BY <1>1 DEF ConstructionOf, StatesIn
<1>2. CASE h \notin DOMAIN u.construction /\ h \in DOMAIN c.construction
  <2>1. PICK n, m \in Nat : /\ n = Length(c.arena["types"]) /\ m = Length(d.arena["types"])
                            /\ TypeRecords(c, d) = n + m
    BY TypeCountsNat DEF TypeRecords, BaseOk
  <2>2. PICK x : x = c.construction[h]
    OBVIOUS
  <2>3. StateOk(x, n)
    BY <1>2, <2>1, <2>2 DEF BaseOk
  <2>4. StateOk(x, n + m)
    BY <2>3, StateGrows
  <2> QED BY <1>2, <2>1, <2>2, <2>4 DEF ConstructionOf
<1>3. CASE h \notin DOMAIN u.construction /\ h \notin DOMAIN c.construction
  BY <1>3, EmptyStateOk DEF ConstructionOf
<1> QED BY <1>1, <1>2, <1>3

\* A step that changes neither update, states nor link bookkeeping.
LEMMA PassKeeps ==
  ASSUME NEW c, NEW d, NEW g, NEW p, Pass(c, d, g, p), NEW v, UpdateOn(d, v), v.u = p.u,
         v.c.construction = p.c.construction, v.retired_links = p.retired_links,
         v.claimed_targets = p.claimed_targets
  PROVE  Pass(c, d, g, v)
BY DEF Pass, LinkRules

\* A refusal changes the status only.
LEMMA RefusedPass ==
  ASSUME NEW c, NEW d, NEW g, BaseOk(c, d, g), NEW p, Pass(c, d, g, p), NEW code
  PROVE  Pass(c, d, g, Refused(p, code)) /\ Refused(p, code).touched = p.touched
         /\ Refused(p, code).u = p.u
<1>1. PICK v : v = Refused(p, code)
  OBVIOUS
<1>2. UpdateOn(d, v)
  BY <1>1, RefusedOn DEF BaseOk, Pass
<1>3. UpdateShape(p)
  BY DEF Pass, UpdateOn
<1>4. /\ v.u = p.u /\ v.c = p.c /\ v.retired_links = p.retired_links
      /\ v.claimed_targets = p.claimed_targets /\ v.touched = p.touched
  BY <1>1, <1>3 DEF Refused, UpdateShape
<1>5. Pass(c, d, g, v)
  BY <1>2, <1>4, PassKeeps
<1> QED BY <1>1, <1>4, <1>5

\* A handle is touched once.
LEMMA TouchOnce ==
  ASSUME NEW q, IsSeq(q), \A i, j \in 1..Length(q) : q[i] = q[j] => i = j,
         NEW n \in Nat, \A i \in 1..Length(q) : q[i] \in 1..n, NEW h \in 1..n
  PROVE  /\ \A i, j \in 1..Length(Touch(q, h)) : Touch(q, h)[i] = Touch(q, h)[j] => i = j
         /\ \A i \in 1..Length(Touch(q, h)) : Touch(q, h)[i] \in 1..n
<1>1. DOMAIN q = 1..Length(q) /\ Length(q) \in Nat
  BY LengthSeq
<1>2. CASE \E i \in DOMAIN q : q[i] = h
  <2>1. Touch(q, h) = q
    BY <1>2 DEF Touch
  <2> QED BY <2>1
<1>3. CASE ~\E i \in DOMAIN q : q[i] = h
  <2>1. PICK x : x = h
    OBVIOUS
  <2>2. Touch(q, x) = Append(q, x)
    BY <1>3, <2>1 DEF Touch
  <2>3. \A i \in 1..Length(q) : q[i] # x
    BY <1>1, <1>3, <2>1
  <2>4. PICK v : v = Append(q, x)
    BY Zenon
  <2>5. /\ Length(v) = Length(q) + 1
        /\ \A i \in 1..Length(q) : v[i] = q[i]
        /\ v[Length(q) + 1] = x
        /\ \A i, j \in 1..(Length(q) + 1) : v[i] = v[j] => i = j
    <3>1. /\ Length(Append(q, x)) = Length(q) + 1
          /\ \A i \in 1..Length(q) : Append(q, x)[i] = q[i]
          /\ Append(q, x)[Length(q) + 1] = x
          /\ \A i, j \in 1..(Length(q) + 1) : Append(q, x)[i] = Append(q, x)[j] => i = j
      BY <2>3, AppendDistinct, Zenon
    <3> QED BY <2>4, <3>1, Zenon
  <2>6. \A i \in 1..(Length(q) + 1) : v[i] \in 1..n
    <3>1. \A i \in 1..(Length(q) + 1) : i \in 1..Length(q) \/ i = Length(q) + 1
      BY <1>1
    <3> QED BY <2>1, <2>5, <3>1
  <2> QED BY <2>1, <2>2, <2>4, <2>5, <2>6, Zenon
<1> QED BY <1>2, <1>3

\* A construction state exchanged.
LEMMA StateExchanged ==
  ASSUME NEW c, NEW d, NEW g, BaseOk(c, d, g), NEW p, Pass(c, d, g, p), Exchanging(g, p),
         NEW v, UpdateOn(d, v), NEW w, v.u = w, RefStep(g, p.u, w), UpdOk(g, w),
         NEW h \in 1..TypeRoom(g, w), NEW x, StateOk(x, TypeRecords(c, d)),
         v.c.construction = Patched(p.c.construction, h, x), v.touched = Touch(p.touched, h),
         v.retired_links = p.retired_links, v.claimed_targets = p.claimed_targets
  PROVE  Pass(c, d, g, v) /\ Exchanging(g, v)
<1>1. TypesCounted(g, w)
  <2>1. PICK u : u = p.u
    OBVIOUS
  <2>2. PICK n : n = u.live.types
    OBVIOUS
  <2>3. CountOk(LiveTypeSet(g, u), n) /\ RefStep(g, u, w)
    BY <2>1, <2>2 DEF Pass, TypesCounted
  <2>4. CountOk(LiveTypeSet(g, w), n)
    BY <2>3, RefStepCounted
  <2>5. w.live.types = n
    BY <2>1, <2>2 DEF RefStep
  <2> QED BY <2>4, <2>5 DEF TypesCounted
<1>2. LinkRules(v)
  BY DEF LinkRules, Pass, RefStep
<1>3. StatesIn(TypeRecords(c, d), v.c.construction)
  <2>1. PICK old, new, n : old = p.c.construction /\ new = v.c.construction /\ n = TypeRecords(c, d)
    OBVIOUS
  <2>2. /\ \A k : k \in DOMAIN new <=> k \in DOMAIN old \/ k = h
        /\ new[h] = x
        /\ \A k \in DOMAIN old : k # h => new[k] = old[k]
    BY <2>1, PatchedIs
  <2>3. \A k \in DOMAIN old : StateOk(old[k], n)
    BY <2>1 DEF Pass, StatesIn
  <2>4. \A k \in DOMAIN new : StateOk(new[k], n)
    BY <2>1, <2>2, <2>3
  <2> QED BY <2>1, <2>4 DEF StatesIn
<1>4. Pass(c, d, g, v)
  BY <1>1, <1>2, <1>3 DEF Pass
<1>5. Exchanging(g, v)
  <2>1. PICK q, n, m : q = p.touched /\ n = TypeRoom(g, w) /\ m = TypeRoom(g, p.u)
    OBVIOUS
  <2>2. n \in Nat /\ m \in Nat /\ m <= n
    BY <2>1, RoomNat DEF RefStep, BaseOk, Pass
  <2>3. IsSeq(q)
    BY <2>1 DEF Pass, UpdateOn
  <2>4. /\ \A i, j \in 1..Length(q) : q[i] = q[j] => i = j
        /\ \A i \in 1..Length(q) : q[i] \in 1..n
    BY <2>1, <2>2 DEF Exchanging
  <2>5. /\ \A i, j \in 1..Length(Touch(q, h)) : Touch(q, h)[i] = Touch(q, h)[j] => i = j
        /\ \A i \in 1..Length(Touch(q, h)) : Touch(q, h)[i] \in 1..n
    BY <2>1, <2>2, <2>3, <2>4, TouchOnce
  <2>6. v.u.types = <<>>
    BY DEF Exchanging, RefStep
  <2> QED BY <2>1, <2>5, <2>6 DEF Exchanging
<1> QED BY <1>4, <1>5

\* The update with one construction state exchanged.
StateSet(p, h, x, w) ==
  [p EXCEPT !.c = SetConstruction(@, h, x), !.u = w, !.touched = Touch(@, h)]

\* What set_construction writes.
LEMMA StateSetIs ==
  ASSUME NEW d, NEW p, UpdateOn(d, p), NEW h, NEW x, NEW w
  PROVE  LET v == StateSet(p, h, x, w) IN
         /\ v.u = w /\ v.c.construction = Patched(p.c.construction, h, x)
         /\ v.touched = Touch(p.touched, h)
         /\ v.retired_links = p.retired_links /\ v.claimed_targets = p.claimed_targets
BY DEF StateSet, SetConstruction, UpdateOn, UpdateShape, SparseShape

\* One old declaration subtracted.
LEMMA SubtractTypePass ==
  ASSUME NEW c, NEW d, NEW g, BaseOk(c, d, g), NEW p, Pass(c, d, g, p), Exchanging(g, p),
         NEW s, NEW i
  PROVE  Pass(c, d, g, SubtractType(c, g, p, s, i)) /\ Exchanging(g, SubtractType(c, g, p, s, i))
<1> DEFINE t == PreviousSlice(c, s, "types")[i]
           h == FindIdentity(g, t.identity)
           index == c.sources[s]["types"].begin + i
           next == RemoveConstruction(ConstructionOf(c, p.c, h), t, index)
<1>1. PICK v : v = SubtractType(c, g, p, s, i)
  OBVIOUS
<1>2. \/ v = p
      \/ \E code : v = Refused(p, code)
      \/ /\ h # 0 /\ next.status = "ok"
         /\ v = [p EXCEPT !.c = SetConstruction(@, h, next.value), !.touched = Touch(@, h)]
  BY <1>1, Zenon DEF SubtractType
<1>3. UpdateOn(d, v)
  BY <1>1, SubtractTypeOn DEF BaseOk, Pass
<1>4. CASE v = p
  BY <1>1, <1>4
<1>5. ASSUME NEW code, v = Refused(p, code) PROVE Pass(c, d, g, v) /\ Exchanging(g, v)
  BY <1>5, RefusedPass DEF Exchanging
<1>6. ASSUME h # 0, next.status = "ok",
             v = [p EXCEPT !.c = SetConstruction(@, h, next.value), !.touched = Touch(@, h)]
      PROVE  Pass(c, d, g, v) /\ Exchanging(g, v)
  <2>1. PICK k, x, w : k = h /\ x = next.value /\ w = p.u
    OBVIOUS
  <2>2. v = StateSet(p, k, x, w)
    BY <1>6, <2>1, Zenon DEF StateSet, Pass, UpdateOn, UpdateShape
  <2>3. /\ v.u = w /\ v.c.construction = Patched(p.c.construction, k, x)
        /\ v.touched = Touch(p.touched, k)
        /\ v.retired_links = p.retired_links /\ v.claimed_targets = p.claimed_targets
    BY <2>2, StateSetIs DEF Pass
  <2>4. GraphOk(g) /\ UpdOk(g, w)
    BY <2>1 DEF BaseOk, Pass
  <2>5. RefStep(g, p.u, w)
    BY <2>1, <2>4, RefStepSelf
  <2>6. k \in 1..TypeRoom(g, w)
    <3>1. PICK identity : identity = t.identity
      OBVIOUS
    <3>2. k = First(g.identities, identity)
      BY <2>1, <3>1, FindIdentityIs
    <3>3. IsSeq(g.identities) /\ Length(g.identities) = Length(g.types) /\ IsSeq(w.new_identities)
      BY <2>4 DEF GraphOk, TypeSlotsOk, UpdOk, TypesPart
    <3>4. PICK n, m \in Nat : /\ n = Length(g.types) /\ m = Length(w.new_identities)
                              /\ TypeRoom(g, w) = n + m
      BY <2>4, <3>3, LengthSeq, RoomNat DEF TypeRoom
    <3>5. k \in 0..n
      BY <3>2, <3>3, <3>4, FirstIs
    <3> QED BY <1>6, <2>1, <3>4, <3>5
  <2>7. StateOk(x, TypeRecords(c, d))
    <3>1. PICK y, n, b, j : /\ y = ConstructionOf(c, p.c, h) /\ n = TypeRecords(c, d)
                            /\ b = t /\ j = index
      OBVIOUS
    <3>2. StateOk(y, n)
      BY <3>1, ConstructionOfOk DEF Pass
    <3>3. RemoveConstruction(y, b, j).status = "ok" /\ x = RemoveConstruction(y, b, j).value
      BY <1>6, <2>1, <3>1
    <3> QED BY <3>1, <3>2, <3>3, RemoveConstructionOk
  <2> HIDE DEF h, next
  <2> QED BY <1>3, <2>3, <2>4, <2>5, <2>6, <2>7, StateExchanged
<1> QED BY <1>1, <1>2, <1>4, <1>5, <1>6

\* One new declaration added.
LEMMA AddTypePass ==
  ASSUME NEW c, NEW d, NEW g, BaseOk(c, d, g), NEW p, Pass(c, d, g, p), Exchanging(g, p),
         NEW s \in ToSet(d.changed), NEW i \in 1..Length(ReplacementSlice(c, p.c, s, "types"))
  PROVE  Pass(c, d, g, AddType(c, g, p, s, i)) /\ Exchanging(g, AddType(c, g, p, s, i))
<1> DEFINE t == ReplacementSlice(c, p.c, s, "types")[i]
           slot == FindOrCreateHandle(g, p.u, t.identity)
           index == p.c.sources[s]["types"].begin + i
           next == AddConstruction(ConstructionOf(c, p.c, slot.handle), t, index)
<1>1. PICK v : v = AddType(c, g, p, s, i)
  OBVIOUS
<1>2. \/ v = p
      \/ \E code : v = Refused(p, code)
      \/ /\ next.status = "ok"
         /\ v = [p EXCEPT !.c = SetConstruction(@, slot.handle, next.value),
                          !.u = slot.u, !.touched = Touch(@, slot.handle)]
  BY <1>1, Zenon DEF AddType
<1>3. UpdateOn(d, v)
  BY <1>1, AddTypeOn DEF BaseOk, Pass
<1>4. CASE v = p
  BY <1>1, <1>4
<1>5. ASSUME NEW code, v = Refused(p, code) PROVE Pass(c, d, g, v) /\ Exchanging(g, v)
  BY <1>5, RefusedPass DEF Exchanging
<1>6. ASSUME next.status = "ok",
             v = [p EXCEPT !.c = SetConstruction(@, slot.handle, next.value),
                          !.u = slot.u, !.touched = Touch(@, slot.handle)]
      PROVE  Pass(c, d, g, v) /\ Exchanging(g, v)
  <2>1. PICK k, x, w : k = slot.handle /\ x = next.value /\ w = slot.u
    OBVIOUS
  <2>2. v = StateSet(p, k, x, w)
    BY <1>6, <2>1 DEF StateSet
  <2>3. /\ v.u = w /\ v.c.construction = Patched(p.c.construction, k, x)
        /\ v.touched = Touch(p.touched, k)
        /\ v.retired_links = p.retired_links /\ v.claimed_targets = p.claimed_targets
    BY <2>2, StateSetIs DEF Pass
  <2>4. UpdOk(g, w) /\ RefStep(g, p.u, w) /\ k \in 1..TypeRoom(g, w)
    <3>1. PICK identity, u : identity = t.identity /\ u = p.u
      OBVIOUS
    <3>2. GraphOk(g) /\ UpdOk(g, u)
      BY <3>1 DEF BaseOk, Pass
    <3>3. LET f == FindOrCreateHandle(g, u, identity) IN
          UpdOk(g, f.u) /\ RefStep(g, u, f.u) /\ f.handle \in 1..TypeRoom(g, f.u)
      BY <3>2, FindOrCreateHandleOk
    <3> QED BY <2>1, <3>1, <3>3
  <2>5. StateOk(x, TypeRecords(c, d))
    <3>1. PICK y, n, b, j : /\ y = ConstructionOf(c, p.c, slot.handle) /\ n = TypeRecords(c, d)
                            /\ b = t /\ j = index
      OBVIOUS
    <3>2. StateOk(y, n)
      BY <3>1, ConstructionOfOk DEF Pass
    <3>3. j \in 1..n
      BY <3>1, DeclarationIndex DEF BaseOk, Pass
    <3>4. AddConstruction(y, b, j).status = "ok" /\ x = AddConstruction(y, b, j).value
      BY <1>6, <2>1, <3>1, Zenon
    <3> QED BY <3>1, <3>2, <3>3, <3>4, AddConstructionOk
  <2> HIDE DEF slot, next
  <2> QED BY <1>3, <2>3, <2>4, <2>5, StateExchanged
<1> QED BY <1>1, <1>2, <1>4, <1>5, <1>6

\* The indices of a sequence are its index set in order.
LEMMA IndicesAre ==
  ASSUME NEW q, IsSeq(q)
  PROVE  DOMAIN Indices(q) = 1..Length(q) /\ \A m \in 1..Length(q) : Indices(q)[m] = m
BY LengthSeq DEF Indices

\* The slices of an update do not depend on its construction states.
LEMMA SameReplacement ==
  ASSUME NEW c, NEW d, SparseOk(c, d), NEW p, UpdateOn(d, p), NEW s, NEW a
  PROVE  ReplacementSlice(c, p.c, s, a) = ReplacementSlice(c, d, s, a)
BY UpdateOnKeeps DEF ReplacementSlice, CombinedRange

\* Subtracting all declarations of the previous slice.
LEMMA SubtractTypesPass ==
  ASSUME NEW c, NEW d, NEW g, BaseOk(c, d, g), NEW p, Pass(c, d, g, p), Exchanging(g, p),
         NEW s \in Sources
  PROVE  Pass(c, d, g, SubtractTypes(c, g, p, s)) /\ Exchanging(g, SubtractTypes(c, g, p, s))
<1> DEFINE q == PreviousSlice(c, s, "types")
           n == Length(q)
<1>1. IsSeq(q)
  BY PreviousSliceSeq DEF BaseOk, SparseOk, Arenas
<1>2. n \in Nat /\ DOMAIN Indices(q) = 1..n
  BY <1>1, LengthSeq, IndicesAre
<1>3. PICK tr : Traced(tr, "subtract", <<c, g, s>>, p, Indices(q), n, SubtractTypes(c, g, p, s))
  BY <1>2, SubtractTypesTrace
<1> DEFINE S == {m \in 0..n : Pass(c, d, g, tr[m]) /\ Exchanging(g, tr[m])}
<1>4. 0 \in S
  <2>1. tr[0] = p
    BY <1>3 DEF Traced
  <2> QED BY <1>2, <2>1
<1>5. ASSUME NEW m \in 0..(n-1), m \in S PROVE m + 1 \in S
  <2>1. m + 1 \in 1..n /\ m + 1 \in 0..n /\ m + 1 - 1 = m
    BY <1>2
  <2>2. PICK v, x : v = tr[m] /\ x = Indices(q)[m+1]
    OBVIOUS
  <2>3. tr[m+1] = SubtractType(c, g, v, s, x)
    BY <1>3, <2>1, <2>2 DEF Traced, Step
  <2>4. Pass(c, d, g, v) /\ Exchanging(g, v)
    BY <1>5, <2>2
  <2>5. Pass(c, d, g, SubtractType(c, g, v, s, x)) /\ Exchanging(g, SubtractType(c, g, v, s, x))
    BY <2>4, SubtractTypePass
  <2> QED BY <2>1, <2>3, <2>5
<1>6. 0..n \subseteq S
  <2> HIDE DEF S, n
  <2> QED BY <1>2, <1>4, <1>5, SetInduction
<1>7. SubtractTypes(c, g, p, s) = tr[n]
  BY <1>3 DEF Traced
<1> QED BY <1>2, <1>6, <1>7

\* Adding all declarations of the replacement slice.
LEMMA AddTypesPass ==
  ASSUME NEW c, NEW d, NEW g, BaseOk(c, d, g), NEW p, Pass(c, d, g, p), Exchanging(g, p),
         NEW s \in ToSet(d.changed)
  PROVE  Pass(c, d, g, AddTypes(c, g, p, s)) /\ Exchanging(g, AddTypes(c, g, p, s))
<1> DEFINE q == ReplacementSlice(c, p.c, s, "types")
           n == Length(q)
<1>1. IsSeq(q)
  BY ReplacementSliceSeq DEF BaseOk, Pass, Arenas
<1>2. n \in Nat /\ DOMAIN Indices(q) = 1..n /\ \A m \in 1..n : Indices(q)[m] = m
  BY <1>1, LengthSeq, IndicesAre
<1>3. PICK tr : Traced(tr, "add", <<c, g, s>>, p, Indices(q), n, AddTypes(c, g, p, s))
  BY <1>2, AddTypesTrace
<1> DEFINE S == {m \in 0..n : Pass(c, d, g, tr[m]) /\ Exchanging(g, tr[m])}
<1>4. 0 \in S
  <2>1. tr[0] = p
    BY <1>3 DEF Traced
  <2> QED BY <1>2, <2>1
<1>5. ASSUME NEW m \in 0..(n-1), m \in S PROVE m + 1 \in S
  <2>1. m + 1 \in 1..n /\ m + 1 \in 0..n /\ m + 1 - 1 = m
    BY <1>2
  <2>2. PICK v, x : v = tr[m] /\ x = Indices(q)[m+1]
    OBVIOUS
  <2>3. tr[m+1] = AddType(c, g, v, s, x)
    BY <1>3, <2>1, <2>2 DEF Traced, Step
  <2>4. Pass(c, d, g, v) /\ Exchanging(g, v)
    BY <1>5, <2>2
  <2>5. x \in 1..Length(ReplacementSlice(c, v.c, s, "types"))
    <3>1. ReplacementSlice(c, v.c, s, "types") = q
      BY <2>4, SameReplacement DEF BaseOk, Pass
    <3> QED BY <1>2, <2>1, <2>2, <3>1
  <2>6. Pass(c, d, g, AddType(c, g, v, s, x)) /\ Exchanging(g, AddType(c, g, v, s, x))
    BY <2>4, <2>5, AddTypePass
  <2> QED BY <2>1, <2>3, <2>6
<1>6. 0..n \subseteq S
  <2> HIDE DEF S, n
  <2> QED BY <1>2, <1>4, <1>5, SetInduction, Zenon
<1>7. AddTypes(c, g, p, s) = tr[n]
  BY <1>3 DEF Traced
<1> QED BY <1>2, <1>6, <1>7

\* The type pass over all changed Sources.
LEMMA ExchangeAllTypesPass ==
  ASSUME NEW c, NEW d, NEW g, BaseOk(c, d, g), NEW p, Pass(c, d, g, p), Exchanging(g, p)
  PROVE  Pass(c, d, g, ExchangeAllTypes(c, g, p)) /\ Exchanging(g, ExchangeAllTypes(c, g, p))
<1> DEFINE q == p.c.changed
           n == Length(q)
<1>1. IsSeq(q) /\ q = d.changed
  BY UpdateOnKeeps DEF BaseOk, Pass, SparseOk
<1>2. n \in Nat /\ DOMAIN q = 1..n /\ \A m \in 1..n : q[m] \in ToSet(d.changed)
  BY <1>1, LengthSeq
<1>3. PICK tr : Traced(tr, "exchange", <<c, g>>, p, q, n, ExchangeAllTypes(c, g, p))
  BY <1>2, ExchangeAllTypesTrace
<1> DEFINE S == {m \in 0..n : Pass(c, d, g, tr[m]) /\ Exchanging(g, tr[m])}
<1>4. 0 \in S
  <2>1. tr[0] = p
    BY <1>3 DEF Traced
  <2> QED BY <1>2, <2>1
<1>5. ASSUME NEW m \in 0..(n-1), m \in S PROVE m + 1 \in S
  <2>1. m + 1 \in 1..n /\ m + 1 \in 0..n /\ m + 1 - 1 = m
    BY <1>2
  <2>2. PICK v, s : v = tr[m] /\ s = q[m+1]
    OBVIOUS
  <2>3. tr[m+1] = ExchangeTypes(c, g, v, s)
    BY <1>3, <2>1, <2>2 DEF Traced, Step
  <2>4. s \in ToSet(d.changed) /\ s \in Sources
    BY <1>2, <2>1, <2>2 DEF BaseOk, SparseOk
  <2>5. PICK w : w = SubtractTypes(c, g, v, s)
    OBVIOUS
  <2>6. Pass(c, d, g, v) /\ Exchanging(g, v)
    BY <1>5, <2>2
  <2>7. Pass(c, d, g, w) /\ Exchanging(g, w)
    BY <2>4, <2>5, <2>6, SubtractTypesPass
  <2>8. Pass(c, d, g, AddTypes(c, g, w, s)) /\ Exchanging(g, AddTypes(c, g, w, s))
    BY <2>4, <2>7, AddTypesPass
  <2> QED BY <2>1, <2>3, <2>5, <2>8 DEF ExchangeTypes
<1>6. 0..n \subseteq S
  <2> HIDE DEF S, n
  <2> QED BY <1>2, <1>4, <1>5, SetInduction
<1>7. ExchangeAllTypes(c, g, p) = tr[n]
  BY <1>3 DEF Traced
<1> QED BY <1>2, <1>6, <1>7

\* A step that leaves slots, identities, records and links alone.
Quiet(w, v) ==
  /\ DOMAIN v = UpdateFields /\ LiveShape(v.live)
  /\ v.types = w.types /\ v.new_identities = w.new_identities /\ v.canonical = w.canonical
  /\ v.named_refs = w.named_refs /\ v.intrinsic_refs = w.intrinsic_refs
  /\ v.objects = w.objects /\ v.new_object_identities = w.new_object_identities
  /\ v.links = w.links /\ v.new_links = w.new_links
  /\ v.live.objects = w.live.objects /\ v.live.links = w.live.links

\* A step that touches no slot, record or link keeps the update.
LEMMA QuietOk ==
  ASSUME NEW g, GraphOk(g), NEW w, UpdOk(g, w), NEW v, Quiet(w, v)
  PROVE  /\ UpdOk(g, v) /\ LiveTypeSet(g, v) = LiveTypeSet(g, w)
         /\ TypeRoom(g, v) = TypeRoom(g, w)
         /\ v.live = w.live => RefStep(g, w, v)
<1>1. TypeRoom(g, v) = TypeRoom(g, w) /\ ObjectRoom(g, v) = ObjectRoom(g, w)
  BY DEF TypeRoom, ObjectRoom, Quiet
<1>2. RefsPart(g, v)
  <2>1. NamedOf(g, v) = NamedOf(g, w)
    BY DEF NamedOf, Quiet
  <2> QED BY <1>1, <2>1 DEF RefsPart, UpdOk, Quiet
<1>3. TypesPart(g, v) /\ LiveTypeSet(g, v) = LiveTypeSet(g, w)
  <2>1. LiveTypeSet(g, v) = LiveTypeSet(g, w)
    BY DEF LiveTypeSet, CandidateType, Quiet
  <2> QED BY <1>1, <2>1 DEF TypesPart, UpdOk, Quiet
<1>4. ObjectsPart(g, v)
  <2>1. LiveObjectSet(g, v) = LiveObjectSet(g, w)
    BY DEF LiveObjectSet, CandidateObject, Quiet
  <2> QED BY <1>1, <2>1 DEF ObjectsPart, UpdOk, Quiet
<1>5. LinksPart(g, v)
  <2>1. LiveLinkSet(g, v) = LiveLinkSet(g, w)
    BY DEF LiveLinkSet, LinkAt, LinkRoom, Quiet
  <2> QED BY <2>1 DEF LinksPart, UpdOk, Quiet
<1>6. v.live = w.live => RefStep(g, w, v)
  BY <1>1, RoomNat DEF RefStep, Quiet, UpdOk, TypesPart
<1> QED BY <1>1, <1>2, <1>3, <1>4, <1>5, <1>6 DEF UpdOk, Quiet

\* One member of a rematerialised record.
LEMMA MaterializeMemberOk ==
  ASSUME NEW c, NEW d, SparseOk(c, d), NEW p, UpdateOn(d, p), NEW g, GraphOk(g),
         NEW u, UpdOk(g, u), NEW owner, NEW version, NEW member, TypeOk(member.type)
  PROVE  LET v == MaterializeMember(c, g, p.c, u, owner, version, member) IN
         UpdOk(g, v) /\ RefStep(g, u, v)
<1>1. PICK type : type = member.type
  OBVIOUS
<1>2. PICK t : t = MaterializeTypeRef(c, g, p.c, u, type)
  OBVIOUS
<1>3. UpdOk(g, t.u) /\ RefStep(g, u, t.u)
  BY <1>1, <1>2, MaterializeTypeRefOk
<1>4. PICK w : w = t.u
  OBVIOUS
<1>5. PICK v : v = AddMember(t, owner, version, member.name)
  OBVIOUS
<1>6. Quiet(w, v) /\ v.live = w.live
  <2>1. DOMAIN w = UpdateFields /\ LiveShape(w.live)
    BY <1>3, <1>4 DEF UpdOk
  <2>2. PICK ms, es : v = [w EXCEPT !.members = ms, !.edges = es]
    BY <1>4, <1>5, Zenon DEF AddMember
  <2> QED BY <2>1, <2>2 DEF Quiet, UpdateFields
<1>7. UpdOk(g, w) /\ RefStep(g, u, w)
  BY <1>3, <1>4
<1>8. UpdOk(g, v) /\ RefStep(g, w, v)
  BY <1>6, <1>7, QuietOk
<1>9. RefStep(g, u, v)
  BY <1>7, <1>8, RefStepTwice
<1> QED BY <1>1, <1>2, <1>5, <1>8, <1>9 DEF MaterializeMember

\* All members of a rematerialised record.
LEMMA MaterializeMembersOk ==
  ASSUME NEW c, NEW d, SparseOk(c, d), NEW p, UpdateOn(d, p), NEW g, GraphOk(g),
         NEW u, UpdOk(g, u), NEW owner, NEW version,
         NEW members, IsSeq(members), RecordsOk("members", members)
  PROVE  LET v == MaterializeMembers(c, g, p.c, u, owner, version, members) IN
         UpdOk(g, v) /\ RefStep(g, u, v)
<1> DEFINE n == Length(members)
<1>1. n \in Nat /\ DOMAIN members = 1..n
  BY LengthSeq
<1>2. PICK tr : Traced(tr, "members", <<c, g, p.c, owner, version>>, u, members, n,
                       MaterializeMembers(c, g, p.c, u, owner, version, members))
  BY <1>1, MaterializeMembersTrace
<1> DEFINE S == {m \in 0..n : UpdOk(g, tr[m]) /\ RefStep(g, u, tr[m])}
<1>3. 0 \in S
  <2>1. tr[0] = u
    BY <1>2 DEF Traced
  <2> QED BY <1>1, <2>1, RefStepSelf
<1>4. ASSUME NEW m \in 0..(n-1), m \in S PROVE m + 1 \in S
  <2>1. m + 1 \in 1..n /\ m + 1 \in 0..n /\ m + 1 - 1 = m
    BY <1>1
  <2>2. PICK v, x : v = tr[m] /\ x = members[m+1]
    OBVIOUS
  <2>3. tr[m+1] = MaterializeMember(c, g, p.c, v, owner, version, x)
    BY <1>2, <2>1, <2>2 DEF Traced, Step
  <2>4. TypeOk(x.type)
    BY <2>1, <2>2 DEF RecordsOk, RecordOk
  <2>5. UpdOk(g, v) /\ RefStep(g, u, v)
    BY <1>4, <2>2
  <2>6. PICK w : w = MaterializeMember(c, g, p.c, v, owner, version, x)
    OBVIOUS
  <2>7. UpdOk(g, w) /\ RefStep(g, v, w)
    BY <2>4, <2>5, <2>6, MaterializeMemberOk
  <2>8. RefStep(g, u, w)
    BY <2>5, <2>7, RefStepTwice
  <2> QED BY <2>1, <2>3, <2>6, <2>7, <2>8
<1>5. 0..n \subseteq S
  <2> HIDE DEF S, n
  <2> QED BY <1>1, <1>3, <1>4, SetInduction, Zenon
<1>6. MaterializeMembers(c, g, p.c, u, owner, version, members) = tr[n]
  BY <1>2 DEF Traced
<1> QED BY <1>1, <1>5, <1>6

\* The slot a touched type had.
OldSlot(g, h) == IF h <= Len(g.types) THEN g.types[h] ELSE NoEntry

\* A touched type that is about to be placed is counted.
LEMMA CountedOk ==
  ASSUME NEW g, GraphOk(g), NEW w, UpdOk(g, w), NEW h
  PROVE  LET x == Versioned(g, w, h)
             v == Counted(x, OldSlot(g, h)) IN
         /\ UpdOk(g, x) /\ RefStep(g, w, x)
         /\ UpdOk(g, v) /\ LiveTypeSet(g, v) = LiveTypeSet(g, w) /\ TypeRoom(g, v) = TypeRoom(g, w)
         /\ v.types = w.types /\ v.links = w.links
         /\ v.live.types = IF OldSlot(g, h).live THEN w.live.types ELSE w.live.types + 1
<1>1. DOMAIN w = UpdateFields /\ LiveShape(w.live)
  BY DEF UpdOk
<1>2. PICK x : x = Versioned(g, w, h)
  OBVIOUS
<1>3. PICK ver : x = [w EXCEPT !.versions = ver]
  BY <1>2, Zenon DEF Versioned
<1>4. Quiet(w, x) /\ x.live = w.live
  BY <1>1, <1>3 DEF Quiet, UpdateFields
<1>5. /\ UpdOk(g, x) /\ RefStep(g, w, x) /\ LiveTypeSet(g, x) = LiveTypeSet(g, w)
      /\ TypeRoom(g, x) = TypeRoom(g, w)
  BY <1>4, QuietOk
<1>6. PICK old : old = OldSlot(g, h)
  OBVIOUS
<1>7. PICK v : v = Counted(x, old)
  OBVIOUS
<1>8. Quiet(x, v) /\ v.live.types = IF old.live THEN x.live.types ELSE x.live.types + 1
  <2>1. DOMAIN x = UpdateFields /\ LiveShape(x.live)
    BY <1>4 DEF Quiet
  <2>2. CASE old.live
    BY <1>7, <2>1, <2>2 DEF Counted, Quiet
  <2>3. CASE ~old.live
    <3>1. v = [x EXCEPT !.live.types = @ + 1]
      BY <1>7, <2>3 DEF Counted
    <3>2. PICK lv : lv = [x.live EXCEPT !.types = @ + 1]
      BY Zenon
    <3>3. v = [x EXCEPT !.live = lv]
      BY <2>1, <3>1, <3>2 DEF UpdateFields
    <3>4. /\ LiveShape(lv) /\ lv.types = x.live.types + 1
          /\ lv.objects = x.live.objects /\ lv.links = x.live.links
      BY <2>1, <3>2 DEF LiveShape
    <3> QED BY <2>1, <2>3, <3>3, <3>4 DEF Quiet, UpdateFields
  <2> QED BY <2>2, <2>3
<1>9. UpdOk(g, v) /\ LiveTypeSet(g, v) = LiveTypeSet(g, x) /\ TypeRoom(g, v) = TypeRoom(g, x)
  BY <1>5, <1>8, QuietOk
<1>10. v.types = w.types /\ v.links = w.links
  BY <1>4, <1>8 DEF Quiet
<1> QED BY <1>2, <1>4, <1>5, <1>6, <1>7, <1>8, <1>9, <1>10

\* The slot h of p was replaced in v, every other is what it was.
SlotReplaced(g, w, h, x) ==
  /\ UpdOk(g, x) /\ TypesCounted(g, x) /\ x.links = w.links
  /\ \A k \in DOMAIN x.types : k \in DOMAIN w.types \/ k = h
  /\ TypeRoom(g, w) <= TypeRoom(g, x)

\* A type placed in its slot.
LEMMA PlacedOk ==
  ASSUME NEW g, GraphOk(g), NEW w, UpdOk(g, w), TypesCounted(g, w),
         NEW h \in 1..TypeRoom(g, w), h \notin DOMAIN w.types,
         NEW u, u = Counted(Versioned(g, w, h), OldSlot(g, h)),
         NEW y, UpdOk(g, y), RefStep(g, u, y), NEW entry, entry.live = TRUE
  PROVE  SlotReplaced(g, w, h, Placed(y, h, entry))
<1>1. PICK old, n : old = OldSlot(g, h) /\ n = w.live.types
  OBVIOUS
<1>2. /\ UpdOk(g, u) /\ LiveTypeSet(g, u) = LiveTypeSet(g, w) /\ TypeRoom(g, u) = TypeRoom(g, w)
      /\ u.types = w.types /\ u.links = w.links
      /\ u.live.types = IF old.live THEN n ELSE n + 1
  BY <1>1, CountedOk
<1>3. /\ y.types = w.types /\ y.links = w.links /\ TypeRoom(g, w) <= TypeRoom(g, y)
      /\ y.live.types = IF old.live THEN n ELSE n + 1
  BY <1>2 DEF RefStep
<1>4. CountOk(LiveTypeSet(g, y), n)
  <2>1. CountOk(LiveTypeSet(g, u), n)
    BY <1>1, <1>2 DEF TypesCounted
  <2> QED BY <2>1, RefStepCounted
<1>5. PICK x : x = Placed(y, h, entry)
  OBVIOUS
<1>6. TypePut(y, h, entry, x) /\ x.live = y.live
  <2>1. DOMAIN y = UpdateFields /\ LiveShape(y.live)
    BY DEF UpdOk
  <2>2. PICK ts : ts = Patched(y.types, h, entry)
    OBVIOUS
  <2>3. x = [y EXCEPT !.types = ts]
    BY <1>5, <2>2 DEF Placed
  <2> QED BY <2>1, <2>2, <2>3 DEF TypePut, UpdateFields
<1>7. h \in 1..TypeRoom(g, y)
  <2>1. TypeRoom(g, w) \in Nat /\ TypeRoom(g, y) \in Nat
    BY RoomNat
  <2> QED BY <1>3, <2>1
<1>8. /\ UpdOk(g, x) /\ TypeRoom(g, x) = TypeRoom(g, y)
      /\ CountOk(LiveTypeSet(g, x), Flipped(LiveTypeSet(g, y), n, h, TRUE))
      /\ h \in LiveTypeSet(g, y) <=> CandidateType(g, y, h).live
  BY <1>4, <1>6, <1>7, TypePutOk, Zenon
<1>9. CandidateType(g, y, h) = old
  BY <1>1, <1>3 DEF CandidateType, OldSlot
<1>10. TypesCounted(g, x)
  <2>1. x.live.types = Flipped(LiveTypeSet(g, y), n, h, TRUE)
    BY <1>3, <1>6, <1>8, <1>9 DEF Flipped
  <2> QED BY <1>8, <2>1, Zenon DEF TypesCounted
<1>11. \A k \in DOMAIN x.types : k \in DOMAIN w.types \/ k = h
  BY <1>3, <1>6, PatchedIs DEF TypePut
<1>12. x.links = w.links
  BY <1>3, <1>6 DEF TypePut
<1> QED BY <1>3, <1>5, <1>8, <1>10, <1>11, <1>12 DEF SlotReplaced

\* A type that lost its last declaration.
LEMMA TombstonedOk ==
  ASSUME NEW g, GraphOk(g), NEW w, UpdOk(g, w), TypesCounted(g, w),
         NEW h \in 1..TypeRoom(g, w), h \notin DOMAIN w.types
  PROVE  SlotReplaced(g, w, h, Tombstoned(Versioned(g, w, h), h, OldSlot(g, h)))
<1>1. PICK old, n : old = OldSlot(g, h) /\ n = w.live.types
  OBVIOUS
<1>2. PICK y : y = Versioned(g, w, h)
  OBVIOUS
<1>3. UpdOk(g, y) /\ RefStep(g, w, y)
  BY <1>2, CountedOk
<1>4. /\ y.types = w.types /\ y.links = w.links /\ TypeRoom(g, w) <= TypeRoom(g, y)
      /\ y.live.types = n
  BY <1>1, <1>3 DEF RefStep
<1>5. CountOk(LiveTypeSet(g, y), n)
  BY <1>1, <1>3, RefStepCounted DEF TypesCounted
<1>6. PICK x : x = Tombstoned(y, h, old)
  OBVIOUS
<1>7. TypePut(y, h, NoEntry, x) /\ x.live.types = IF old.live THEN n - 1 ELSE n
  <2>1. DOMAIN y = UpdateFields /\ LiveShape(y.live)
    BY <1>3 DEF UpdOk
  <2>2. PICK ts : ts = Patched(y.types, h, NoEntry)
    OBVIOUS
  <2>3. PICK lv : lv = [y.live EXCEPT !.types = IF old.live THEN @ - 1 ELSE @]
    BY Zenon
  <2>4. x = [y EXCEPT !.types = ts, !.live = lv]
    BY <1>6, <2>1, <2>2, <2>3 DEF Tombstoned, UpdateFields
  <2>5. /\ LiveShape(lv)
        /\ lv.types = IF old.live THEN n - 1 ELSE n
        /\ lv.objects = y.live.objects /\ lv.links = y.live.links
    BY <1>4, <2>1, <2>3 DEF LiveShape
  <2> QED BY <2>1, <2>2, <2>4, <2>5 DEF TypePut, UpdateFields
<1>8. h \in 1..TypeRoom(g, y)
  <2>1. TypeRoom(g, w) \in Nat /\ TypeRoom(g, y) \in Nat
    BY <1>3, RoomNat
  <2> QED BY <1>4, <2>1
<1>9. /\ UpdOk(g, x) /\ TypeRoom(g, x) = TypeRoom(g, y)
      /\ CountOk(LiveTypeSet(g, x), Flipped(LiveTypeSet(g, y), n, h, FALSE))
      /\ h \in LiveTypeSet(g, y) <=> CandidateType(g, y, h).live
  <2>1. PICK e : e = NoEntry
    OBVIOUS
  <2>2. FALSE <=> e.live
    BY <2>1 DEF NoEntry
  <2>3. TypePut(y, h, e, x)
    BY <1>7, <2>1
  <2> QED BY <1>3, <1>5, <1>8, <2>2, <2>3, TypePutOk, Zenon
<1>10. CandidateType(g, y, h) = old
  BY <1>1, <1>4 DEF CandidateType, OldSlot
<1>11. TypesCounted(g, x)
  <2>1. x.live.types = Flipped(LiveTypeSet(g, y), n, h, FALSE)
    BY <1>7, <1>9, <1>10 DEF Flipped
  <2> QED BY <1>9, <2>1, Zenon DEF TypesCounted
<1>12. \A k \in DOMAIN x.types : k \in DOMAIN w.types \/ k = h
  BY <1>4, <1>7, PatchedIs DEF TypePut
<1>13. x.links = w.links
  BY <1>4, <1>7 DEF TypePut
<1> QED BY <1>1, <1>2, <1>4, <1>6, <1>9, <1>11, <1>12, <1>13 DEF SlotReplaced

\* The update of p replaced by another with the same links.
LEMMA UpdateReplaced ==
  ASSUME NEW c, NEW d, NEW g, NEW p, Pass(c, d, g, p), NEW v, UpdateOn(d, v),
         v.c = p.c, UpdOk(g, v.u), TypesCounted(g, v.u), v.u.links = p.u.links,
         v.retired_links = p.retired_links, v.claimed_targets = p.claimed_targets
  PROVE  Pass(c, d, g, v)
BY DEF Pass, LinkRules

\* The entry of a construction state is live.
LEMMA EntryLive ==
  ASSUME NEW x, NEW old
  PROVE  /\ "live" \in DOMAIN EntryOf(x, old) /\ "begin" \in DOMAIN EntryOf(x, old)
         /\ "count" \in DOMAIN EntryOf(x, old) /\ "underlying" \in DOMAIN EntryOf(x, old)
         /\ EntryOf(x, old).live = TRUE
BY DEF EntryOf, NoEntry

\* A touched type rematerialised.
LEMMA MaterializeTypePass ==
  ASSUME NEW c, NEW d, NEW g, BaseOk(c, d, g), NEW p, Pass(c, d, g, p),
         NEW h \in 1..TypeRoom(g, p.u), h \notin DOMAIN p.u.types
  PROVE  LET v == MaterializeType(c, g, p, h) IN
         /\ Pass(c, d, g, v)
         /\ \A k \in DOMAIN v.u.types : k \in DOMAIN p.u.types \/ k = h
         /\ TypeRoom(g, p.u) <= TypeRoom(g, v.u)
<1> DEFINE construction == ConstructionOf(c, p.c, h)
           old == OldSlot(g, h)
           versioned == Versioned(g, p.u, h)
           u == Counted(versioned, old)
           entry == EntryOf(construction, old)
           definition == TypeAt(c, p.c, construction.definition_type)
           arena == IF definition.kind = "record" THEN "members" ELSE "enum_values"
           items == CombinedRange(c, p.c, arena, definition.items)
           underlying == IF entry.fixed \/ entry.scoped THEN Ok(entry.underlying)
                         ELSE SelectEnumUnderlying(items)
           defined == [entry EXCEPT !.begin = Len(g[arena]) + Len(u[arena]) + 1,
                                    !.count = Len(items)]
           filled == MaterializeMembers(c, g, p.c, u, h, u.versions[h], items)
           valued == [u EXCEPT !.enum_values = @ \o items]
           Good(v) == /\ Pass(c, d, g, v)
                      /\ \A k \in DOMAIN v.u.types : k \in DOMAIN p.u.types \/ k = h
                      /\ TypeRoom(g, p.u) <= TypeRoom(g, v.u)
<1>1. PICK v : v = MaterializeType(c, g, p, h)
  OBVIOUS
<1>2. \/ v = p
      \/ \E code : v = Refused(p, code)
      \/ v = [p EXCEPT !.u = Tombstoned(versioned, h, old)]
      \/ v = [p EXCEPT !.u = Placed(u, h, entry)]
      \/ /\ construction.definitions # 0 /\ definition.kind = "record"
         /\ v = [p EXCEPT !.u = Placed(filled, h, defined)]
      \/ v = [p EXCEPT !.u = Placed(valued, h, [defined EXCEPT !.underlying = underlying.value])]
  BY <1>1, Zenon DEF MaterializeType, OldSlot
<1>3. UpdateOn(d, v) /\ UpdateOn(d, p) /\ UpdateShape(p)
  BY <1>1, MaterializeTypeOn DEF BaseOk, Pass, UpdateOn
<1>4. PICK w : w = p.u
  OBVIOUS
<1>5. GraphOk(g) /\ UpdOk(g, w) /\ TypesCounted(g, w) /\ h \in 1..TypeRoom(g, w) /\ h \notin DOMAIN w.types
  BY <1>4 DEF BaseOk, Pass
<1>6. TypeRoom(g, w) \in Nat
  BY <1>5, RoomNat
<1>8. ASSUME NEW code, v = Refused(p, code) PROVE Good(v)
  BY <1>4, <1>6, <1>8, RefusedPass
<1>9. ASSUME NEW x, SlotReplaced(g, w, h, x), v = [p EXCEPT !.u = x] PROVE Good(v)
  <2>1. /\ v.u = x /\ v.c = p.c /\ v.retired_links = p.retired_links
        /\ v.claimed_targets = p.claimed_targets
    BY <1>3, <1>9 DEF UpdateShape
  <2>2. Pass(c, d, g, v)
    BY <1>3, <1>4, <1>9, <2>1, UpdateReplaced, Zenon DEF SlotReplaced
  <2> QED BY <1>4, <1>9, <2>1, <2>2 DEF SlotReplaced
<1>10. PICK z, o, e : z = u /\ o = old /\ e = entry
  OBVIOUS
<1>11. /\ "live" \in DOMAIN e /\ "begin" \in DOMAIN e /\ "count" \in DOMAIN e
       /\ "underlying" \in DOMAIN e /\ e.live = TRUE
  BY <1>10, EntryLive, Zenon
<1>12. z = Counted(Versioned(g, w, h), OldSlot(g, h)) /\ UpdOk(g, z)
  <2>1. z = Counted(Versioned(g, w, h), OldSlot(g, h))
    BY <1>4, <1>10
  <2> QED BY <1>5, <2>1, CountedOk
<1>13. ASSUME v = [p EXCEPT !.u = Tombstoned(versioned, h, old)]
       PROVE  Good(v)
  <2>1. PICK x : x = Tombstoned(versioned, h, old)
    OBVIOUS
  <2>2. x = Tombstoned(Versioned(g, w, h), h, OldSlot(g, h))
    BY <1>4, <2>1
  <2>3. SlotReplaced(g, w, h, x)
    BY <1>5, <2>2, TombstonedOk
  <2> HIDE DEF old, versioned
  <2> QED BY <1>9, <1>13, <2>1, <2>3
<1>14. ASSUME NEW y, UpdOk(g, y), RefStep(g, z, y), NEW f, f.live = TRUE,
              v = [p EXCEPT !.u = Placed(y, h, f)]
       PROVE  Good(v)
  <2>1. SlotReplaced(g, w, h, Placed(y, h, f))
    BY <1>5, <1>12, <1>14, PlacedOk, Zenon
  <2> QED BY <1>9, <1>14, <2>1
<1> HIDE DEF Good
<1>15. ASSUME v = [p EXCEPT !.u = Placed(u, h, entry)]
       PROVE  Good(v)
  <2>1. RefStep(g, z, z)
    BY <1>5, <1>12, RefStepSelf
  <2> HIDE DEF u, entry
  <2> QED BY <1>10, <1>11, <1>12, <1>14, <1>15, <2>1, Zenon
<1>16. ASSUME construction.definitions # 0, definition.kind = "record",
              v = [p EXCEPT !.u = Placed(filled, h, defined)]
       PROVE  Good(v)
  <2>1. PICK ms, r, ver : ms = items /\ r = definition.items /\ ver = u.versions[h]
    OBVIOUS
  <2>2. r \in Ranges
    <3>1. PICK st, n, i : st = construction /\ n = TypeRecords(c, d) /\ i = construction.definition_type
      OBVIOUS
    <3>2. StateOk(st, n)
      BY <3>1, ConstructionOfOk DEF Pass
    <3>3. i \in 1..n
      BY <1>16, <3>1, <3>2 DEF StateOk
    <3>4. TypeAt(c, p.c, i).items \in Ranges
      BY <1>3, <3>1, <3>3, TypeAtOk DEF BaseOk
    <3> QED BY <2>1, <3>1, <3>4
  <2>3. ms = CombinedRange(c, p.c, "members", r)
    BY <1>16, <2>1
  <2>4. IsSeq(ms) /\ RecordsOk("members", ms)
    <3>1. r \in [begin : Nat, count : Nat] /\ "members" \in Arenas
      BY <2>2 DEF Ranges, Arenas
    <3> QED BY <1>3, <2>3, <3>1, CombinedRangeSeq, CombinedRangeOk DEF BaseOk
  <2>5. PICK y : y = MaterializeMembers(c, g, p.c, z, h, ver, ms)
    OBVIOUS
  <2>6. UpdOk(g, y) /\ RefStep(g, z, y)
    BY <1>3, <1>5, <1>12, <2>4, <2>5, MaterializeMembersOk DEF BaseOk
  <2>7. y = filled
    BY <1>10, <2>1, <2>5
  <2>8. PICK f : f = defined
    OBVIOUS
  <2>9. f.live = TRUE
    BY <1>10, <1>11, <2>8
  <2> HIDE DEF filled, defined
  <2> QED BY <1>14, <1>16, <2>6, <2>7, <2>8, <2>9, Zenon
<1>17. ASSUME v = [p EXCEPT !.u = Placed(valued, h, [defined EXCEPT !.underlying = underlying.value])]
       PROVE  Good(v)
  <2>1. PICK y, f : y = valued /\ f = [defined EXCEPT !.underlying = underlying.value]
    BY Zenon
  <2>2. f.live = TRUE
    BY <1>10, <1>11, <2>1
  <2>3. Quiet(z, y) /\ y.live = z.live
    <3>1. DOMAIN z = UpdateFields /\ LiveShape(z.live)
      BY <1>12 DEF UpdOk
    <3>2. PICK es : y = [z EXCEPT !.enum_values = es]
      BY <1>10, <2>1, Zenon
    <3> QED BY <3>1, <3>2 DEF Quiet, UpdateFields
  <2>4. UpdOk(g, y) /\ RefStep(g, z, y)
    BY <1>5, <1>12, <2>3, QuietOk
  <2> HIDE DEF valued, defined, underlying
  <2> QED BY <1>14, <1>17, <2>1, <2>2, <2>4, Zenon
<1>18. Good(v)
  <2>1. v = p => Good(v)
    BY <1>4, <1>6 DEF Good
  <2> HIDE DEF versioned, old, u, entry, construction, definition, filled, defined, valued, underlying
  <2> QED BY <1>2, <1>8, <1>13, <1>15, <1>16, <1>17, <2>1
<1> QED BY <1>1, <1>18 DEF Good

\* The first m touched types are placed, no other slot is.
Materialized(g, p, q, m, v) ==
  /\ \A k \in DOMAIN v.u.types : \E i \in 1..m : q[i] = k
  /\ TypeRoom(g, p.u) <= TypeRoom(g, v.u)

\* The touched types are rematerialised, each once.
LEMMA MaterializeTypesPass ==
  ASSUME NEW c, NEW d, NEW g, BaseOk(c, d, g), NEW p, Pass(c, d, g, p), Exchanging(g, p)
  PROVE  Pass(c, d, g, MaterializeTypes(c, g, p))
<1> DEFINE q == p.touched
           n == Length(q)
<1>1. n \in Nat /\ DOMAIN q = 1..n
  BY LengthSeq DEF Pass, UpdateOn
<1>2. PICK tr : Traced(tr, "materialize", <<c, g>>, p, q, n, MaterializeTypes(c, g, p))
  BY <1>1, MaterializeTypesTrace
<1> DEFINE S == {m \in 0..n : Pass(c, d, g, tr[m]) /\ Materialized(g, p, q, m, tr[m])}
<1>3. 0 \in S
  <2>1. tr[0] = p
    BY <1>2 DEF Traced
  <2>2. p.u.types = <<>> /\ TypeRoom(g, p.u) \in Nat
    BY RoomNat DEF Exchanging, BaseOk, Pass
  <2>3. Materialized(g, p, q, 0, p)
    BY <2>2, EmptyDomain DEF Materialized
  <2> QED BY <1>1, <2>1, <2>3
<1>4. ASSUME NEW m \in 0..(n-1), m \in S PROVE m + 1 \in S
  <2>1. m + 1 \in 1..n /\ m + 1 \in 0..n /\ m + 1 - 1 = m /\ m \in Nat /\ m < m + 1
    BY <1>1
  <2>2. PICK v, h : v = tr[m] /\ h = q[m+1]
    OBVIOUS
  <2>3. tr[m+1] = MaterializeType(c, g, v, h)
    BY <1>2, <2>1, <2>2 DEF Traced, Step
  <2>4. Pass(c, d, g, v) /\ Materialized(g, p, q, m, v)
    BY <1>4, <2>2
  <2>5. h \in 1..TypeRoom(g, v.u)
    <3>1. TypeRoom(g, p.u) \in Nat /\ TypeRoom(g, v.u) \in Nat
      BY <2>4, RoomNat DEF BaseOk, Pass
    <3>2. h \in 1..TypeRoom(g, p.u)
      BY <2>1, <2>2 DEF Exchanging
    <3> QED BY <2>4, <3>1, <3>2 DEF Materialized
  <2>6. h \notin DOMAIN v.u.types
    <3>1. ASSUME NEW i \in 1..m, q[i] = h PROVE FALSE
      <4>1. i \in 1..n /\ i # m + 1
        BY <1>1, <2>1
      <4>2. i = m + 1
        BY <2>1, <2>2, <3>1, <4>1 DEF Exchanging
      <4> QED BY <4>1, <4>2
    <3> QED BY <2>4, <3>1 DEF Materialized
  <2>7. PICK w : w = MaterializeType(c, g, v, h)
    OBVIOUS
  <2>8. /\ Pass(c, d, g, w)
        /\ \A k \in DOMAIN w.u.types : k \in DOMAIN v.u.types \/ k = h
        /\ TypeRoom(g, v.u) <= TypeRoom(g, w.u)
    BY <2>4, <2>5, <2>6, <2>7, MaterializeTypePass
  <2>9. Materialized(g, p, q, m + 1, w)
    <3>1. TypeRoom(g, p.u) <= TypeRoom(g, w.u)
      <4>1. TypeRoom(g, p.u) \in Nat /\ TypeRoom(g, v.u) \in Nat /\ TypeRoom(g, w.u) \in Nat
        BY <2>4, <2>8, RoomNat DEF BaseOk, Pass
      <4> QED BY <2>4, <2>8, <4>1 DEF Materialized
    <3>2. ASSUME NEW k \in DOMAIN w.u.types PROVE \E i \in 1..(m+1) : q[i] = k
      <4>1. CASE k = h
        BY <2>1, <2>2, <4>1
      <4>2. CASE k \in DOMAIN v.u.types
        <5>1. PICK i \in 1..m : q[i] = k
          BY <2>4, <4>2 DEF Materialized
        <5> QED BY <2>1, <5>1
      <4> QED BY <2>8, <4>1, <4>2
    <3> QED BY <3>1, <3>2 DEF Materialized
  <2> QED BY <2>1, <2>3, <2>7, <2>8, <2>9
<1>5. 0..n \subseteq S
  <2> HIDE DEF S, n
  <2> QED BY <1>1, <1>3, <1>4, SetInduction, Zenon
<1>6. MaterializeTypes(c, g, p) = tr[n]
  BY <1>2 DEF Traced
<1> QED BY <1>1, <1>5, <1>6

\* An object that is retired.
LEMMA RetireObjectPass ==
  ASSUME NEW c, NEW d, NEW g, BaseOk(c, d, g), NEW p, Pass(c, d, g, p), NEW o
  PROVE  Pass(c, d, g, RetireObject(g, p, o))
<1> DEFINE h == FindObjectIdentity(g, o.identity)
           on == CandidateObject(g, p.u, h).live
<1>1. PICK v : v = RetireObject(g, p, o)
  OBVIOUS
<1>2. \/ v = p
      \/ \E code : v = Refused(p, code)
      \/ /\ h # 0
         /\ v = [p EXCEPT !.u.live.objects = IF on THEN @ - 1 ELSE @,
                          !.u.objects = Patched(@, h, NoObject),
                          !.retired_objects = @ \cup {h}]
  BY <1>1, Zenon DEF RetireObject
<1>3. UpdateOn(d, v) /\ UpdateOn(d, p) /\ UpdateShape(p)
  BY <1>1, RetireObjectOn DEF BaseOk, Pass, UpdateOn
<1>4. ASSUME NEW code, v = Refused(p, code) PROVE Pass(c, d, g, v)
  BY <1>4, RefusedPass
<1>5. ASSUME h # 0,
             v = [p EXCEPT !.u.live.objects = IF on THEN @ - 1 ELSE @,
                           !.u.objects = Patched(@, h, NoObject),
                           !.retired_objects = @ \cup {h}]
      PROVE  Pass(c, d, g, v)
  <2>1. PICK w, k, e : w = p.u /\ k = h /\ e = NoObject
    OBVIOUS
  <2>2. GraphOk(g) /\ UpdOk(g, w) /\ TypesCounted(g, w)
    BY <2>1 DEF BaseOk, Pass
  <2>3. DOMAIN w = UpdateFields /\ LiveShape(w.live)
    BY <2>2 DEF UpdOk
  <2>4. PICK lv, os : /\ lv = [w.live EXCEPT !.objects = IF on THEN @ - 1 ELSE @]
                      /\ os = Patched(w.objects, k, e)
    BY Zenon
  <2>5. PICK x : x = [w EXCEPT !.live = lv, !.objects = os]
    OBVIOUS
  <2>6. /\ v.u = x /\ v.c = p.c /\ v.retired_links = p.retired_links
        /\ v.claimed_targets = p.claimed_targets
    <3> HIDE DEF h, on
    <3>1. PICK ros : ros = p.retired_objects \cup {k}
      BY Zenon
    <3>2. v = [p EXCEPT !.u = x, !.retired_objects = ros]
      BY <1>3, <1>5, <2>1, <2>3, <2>4, <2>5, <3>1, Zenon DEF UpdateShape, UpdateFields
    <3> QED BY <1>3, <3>2 DEF UpdateShape
  <2>7. /\ LiveShape(lv) /\ lv.types = w.live.types
        /\ lv.links = w.live.links
        /\ lv.objects = IF on THEN w.live.objects - 1 ELSE w.live.objects
    BY <2>3, <2>4 DEF LiveShape
  <2>8. ObjectPut(w, k, e, x) /\ x.live.objects = lv.objects /\ x.links = w.links
    BY <2>3, <2>4, <2>5, <2>7, Zenon DEF ObjectPut, UpdateFields
  <2>9. k \in 1..ObjectRoom(g, w)
    <3>1. PICK identity : identity = o.identity
      OBVIOUS
    <3>2. k = First(g.object_identities, identity)
      BY <2>1, <3>1, FindObjectIs
    <3>3. IsSeq(g.object_identities) /\ Length(g.object_identities) = Length(g.objects)
      BY <2>2 DEF GraphOk, ObjectSlotsOk
    <3>4. PICK n, m \in Nat : /\ n = Length(g.objects) /\ m = Length(w.new_object_identities)
                              /\ ObjectRoom(g, w) = n + m
      BY <2>2, LengthSeq, RoomNat DEF ObjectRoom, UpdOk, ObjectsPart
    <3>5. k \in 0..n
      BY <3>2, <3>3, <3>4, FirstIs
    <3> QED BY <1>5, <2>1, <3>4, <3>5
  <2>10. k \in LiveObjectSet(g, w) <=> on
    <3>1. ObjectRoom(g, w) \in Nat
      BY <2>2, RoomNat
    <3> QED BY <2>1, <2>9, <3>1 DEF LiveObjectSet
  <2>11. UpdOk(g, x) /\ TypesCounted(g, x)
    <3>1. FALSE <=> e.live
      BY <2>1 DEF NoObject
    <3>2. x.live.objects = Flipped(LiveObjectSet(g, w), w.live.objects, k, FALSE)
      <4> HIDE DEF on
      <4> QED BY <2>7, <2>8, <2>10 DEF Flipped
    <3> QED BY <2>2, <2>8, <2>9, <3>1, <3>2, ObjectPutOk, Zenon
  <2> QED BY <1>3, <2>1, <2>6, <2>8, <2>11, UpdateReplaced
<1> HIDE DEF h, on
<1> QED BY <1>1, <1>2, <1>4, <1>5

\* A committed link slot as the update sees it.
LEMMA LinkSlot ==
  ASSUME NEW g, GraphOk(g), NEW w, UpdOk(g, w), NEW h \in 1..Length(g.links),
         NEW x, x = Overlaid(g.links, w.links, h)
  PROVE  /\ LinkShape(x) /\ x.target = g.links[h].target
         /\ LinkAt(g, w, h) = x
         /\ h \in LiveLinkSet(g, w) <=> x.source # NoEndpoint
<1>1. PICK n, m \in Nat : n = Length(g.links) /\ LinkRoom(g, w) = n + m
  BY RoomNat DEF LinkRoom
<1>2. LinkAt(g, w, h) = x
  BY <1>1 DEF LinkAt, Overlaid
<1>3. h \in LiveLinkSet(g, w) <=> x.source # NoEndpoint
  BY <1>1, <1>2 DEF LiveLinkSet
<1>4. CASE h \in DOMAIN w.links
  <2>1. x = w.links[h]
    BY <1>4 DEF Overlaid
  <2> QED BY <1>2, <1>3, <1>4, <2>1 DEF UpdOk, LinksPart, LinkShape
<1>5. CASE h \notin DOMAIN w.links
  <2>1. x = g.links[h]
    BY <1>5 DEF Overlaid
  <2> QED BY <1>1, <1>2, <1>3, <2>1 DEF GraphOk, LinksOk, LinkShape
<1> QED BY <1>4, <1>5

\* A link that is retired keeps its target.
LEMMA RetireLinkPass ==
  ASSUME NEW c, NEW d, NEW g, BaseOk(c, d, g), NEW p, Pass(c, d, g, p), NEW l
  PROVE  Pass(c, d, g, RetireLink(g, p, l))
<1> DEFINE target == [l.target EXCEPT !.object = FindObjectIdentity(g, @)]
           h == FindLinkRaw(g, target)
           record == Overlaid(g.links, p.u.links, h)
           on == record.source # NoEndpoint
<1>1. PICK v : v = RetireLink(g, p, l)
  OBVIOUS
<1>2. \/ v = p
      \/ \E code : v = Refused(p, code)
      \/ /\ h # 0
         /\ v = [p EXCEPT !.u.live.links = IF on THEN @ - 1 ELSE @,
                          !.u.links = Patched(@, h, [record EXCEPT !.source = NoEndpoint]),
                          !.retired_links = @ \cup {h}]
  BY <1>1, Zenon DEF RetireLink
<1>3. UpdateOn(d, v) /\ UpdateOn(d, p) /\ UpdateShape(p)
  BY <1>1, RetireLinkOn DEF BaseOk, Pass, UpdateOn
<1>4. ASSUME NEW code, v = Refused(p, code) PROVE Pass(c, d, g, v)
  BY <1>4, RefusedPass
<1>5. ASSUME h # 0,
             v = [p EXCEPT !.u.live.links = IF on THEN @ - 1 ELSE @,
                           !.u.links = Patched(@, h, [record EXCEPT !.source = NoEndpoint]),
                           !.retired_links = @ \cup {h}]
      PROVE  Pass(c, d, g, v)
  <2>1. PICK w, k, y, e : w = p.u /\ k = h /\ y = record /\ e = [record EXCEPT !.source = NoEndpoint]
    BY Zenon
  <2>2. GraphOk(g) /\ UpdOk(g, w) /\ TypesCounted(g, w)
    BY <2>1 DEF BaseOk, Pass
  <2>3. DOMAIN w = UpdateFields /\ LiveShape(w.live)
    BY <2>2 DEF UpdOk
  <2>4. PICK lv, ls : /\ lv = [w.live EXCEPT !.links = IF on THEN @ - 1 ELSE @]
                      /\ ls = Patched(w.links, k, e)
    BY Zenon
  <2>5. PICK x : x = [w EXCEPT !.live = lv, !.links = ls]
    OBVIOUS
  <2>6. /\ v.u = x /\ v.c = p.c /\ v.retired_links = p.retired_links \cup {k}
        /\ v.claimed_targets = p.claimed_targets
    <3>1. PICK b : b = on
      OBVIOUS
    <3>2. PICK rls : rls = p.retired_links \cup {k}
      BY Zenon
    <3>3. v = [p EXCEPT !.u.live.links = IF on THEN @ - 1 ELSE @,
                        !.u.links = Patched(@, k, e), !.retired_links = @ \cup {k}]
      BY <1>5, <2>1
    <3> HIDE DEF h, on, record
    <3>4. v = [p EXCEPT !.u = x, !.retired_links = rls]
      BY <1>3, <2>1, <2>3, <2>4, <2>5, <3>2, <3>3, Zenon DEF UpdateShape, UpdateFields
    <3> QED BY <1>3, <3>2, <3>4 DEF UpdateShape
  <2>7. /\ LiveShape(lv) /\ lv.types = w.live.types
        /\ lv.objects = w.live.objects
        /\ lv.links = IF on THEN w.live.links - 1 ELSE w.live.links
    <3> HIDE DEF on
    <3> QED BY <2>3, <2>4 DEF LiveShape
  <2>8. /\ LinksOnly(w, x) /\ x.live.links = lv.links /\ x.links = Patched(w.links, k, e)
        /\ x.new_links = w.new_links
    BY <2>3, <2>4, <2>5, <2>7, Zenon DEF LinksOnly, UpdateFields
  <2>9. k \in 1..Length(g.links)
    <3>1. PICK t : t = target
      BY Zenon
    <3>2. k = FindLinkRaw(g, t)
      BY <2>1, <3>1
    <3>3. IsSeq(g.links) /\ Length(g.links) \in Nat
      BY <2>2, LengthSeq DEF GraphOk, LinksOk
    <3>4. k \in 0..Length(g.links) /\ k # 0
      BY <1>5, <2>1, <3>2, <3>3, FindLinkIs
    <3> QED BY <3>3, <3>4
  <2>10. /\ LinkShape(y) /\ y.target = g.links[k].target
         /\ k \in LiveLinkSet(g, w) <=> y.source # NoEndpoint
    <3>1. y = Overlaid(g.links, w.links, k)
      BY <2>1
    <3> QED BY <2>2, <2>9, <3>1, LinkSlot
  <2>11. LinkShape(e) /\ e.target = g.links[k].target /\ e.source = NoEndpoint
    <3>1. e = [y EXCEPT !.source = NoEndpoint]
      BY <2>1
    <3> QED BY <2>10, <3>1 DEF LinkShape
  <2>12. on <=> k \in LiveLinkSet(g, w)
    BY <2>1, <2>10
  <2>13. UpdOk(g, x) /\ TypesCounted(g, x)
    <3>1. FALSE <=> e.source # NoEndpoint
      BY <2>11
    <3>2. x.live.links = Flipped(LiveLinkSet(g, w), w.live.links, k, FALSE)
      <4> HIDE DEF on
      <4> QED BY <2>7, <2>8, <2>12 DEF Flipped
    <3> QED BY <2>2, <2>8, <2>9, <2>11, <3>1, <3>2, LinkPutOk, Zenon
  <2>14. LinkRules(v)
    <3>1. /\ \A j : j \in DOMAIN x.links <=> j \in DOMAIN w.links \/ j = k
          /\ x.links[k] = e
          /\ \A j \in DOMAIN w.links : j # k => x.links[j] = w.links[j]
      BY <2>8, PatchedIs
    <3>2. LinkRules(p)
      BY DEF Pass
    <3> HIDE DEF h, on, record
    <3> QED BY <2>1, <2>6, <2>11, <3>1, <3>2, Zenon DEF LinkRules
  <2> QED BY <1>3, <2>6, <2>13, <2>14 DEF Pass
<1> HIDE DEF h, on, record
<1> QED BY <1>1, <1>2, <1>4, <1>5

\* The objects of a previous slice are retired.
LEMMA RetireObjectsPass ==
  ASSUME NEW c, NEW d, NEW g, BaseOk(c, d, g), NEW p, Pass(c, d, g, p), NEW q, IsSeq(q)
  PROVE  Pass(c, d, g, RetireObjects(g, p, q))
<1> DEFINE n == Length(q)
<1>1. n \in Nat /\ DOMAIN q = 1..n
  BY LengthSeq
<1>2. PICK tr : Traced(tr, "retire objects", <<g>>, p, q, n, RetireObjects(g, p, q))
  BY <1>1, RetireObjectsTrace, Zenon
<1> DEFINE S == {m \in 0..n : Pass(c, d, g, tr[m])}
<1>3. 0 \in S
  <2>1. tr[0] = p
    BY <1>2, Zenon DEF Traced
  <2> QED BY <1>1, <2>1
<1>4. ASSUME NEW m \in 0..(n-1), m \in S PROVE m + 1 \in S
  <2>1. m + 1 \in 1..n /\ m + 1 \in 0..n /\ m + 1 - 1 = m
    BY <1>1
  <2>2. PICK v, x : v = tr[m] /\ x = q[m+1]
    OBVIOUS
  <2>3. tr[m+1] = RetireObject(g, v, x)
    BY <1>2, <2>1, <2>2 DEF Traced, Step
  <2>4. Pass(c, d, g, RetireObject(g, v, x))
    BY <1>4, <2>2, RetireObjectPass
  <2> QED BY <2>1, <2>3, <2>4
<1>5. 0..n \subseteq S
  <2> HIDE DEF S, n
  <2> QED BY <1>1, <1>3, <1>4, SetInduction
<1>6. RetireObjects(g, p, q) = tr[n]
  BY <1>2, Zenon DEF Traced
<1> QED BY <1>1, <1>5, <1>6

\* The links of a previous slice are retired.
LEMMA RetireLinksPass ==
  ASSUME NEW c, NEW d, NEW g, BaseOk(c, d, g), NEW p, Pass(c, d, g, p), NEW q, IsSeq(q)
  PROVE  Pass(c, d, g, RetireLinks(g, p, q))
<1> DEFINE n == Length(q)
<1>1. n \in Nat /\ DOMAIN q = 1..n
  BY LengthSeq
<1>2. PICK tr : Traced(tr, "retire links", <<g>>, p, q, n, RetireLinks(g, p, q))
  BY <1>1, RetireLinksTrace, Zenon
<1> DEFINE S == {m \in 0..n : Pass(c, d, g, tr[m])}
<1>3. 0 \in S
  <2>1. tr[0] = p
    BY <1>2, Zenon DEF Traced
  <2> QED BY <1>1, <2>1
<1>4. ASSUME NEW m \in 0..(n-1), m \in S PROVE m + 1 \in S
  <2>1. m + 1 \in 1..n /\ m + 1 \in 0..n /\ m + 1 - 1 = m
    BY <1>1
  <2>2. PICK v, x : v = tr[m] /\ x = q[m+1]
    OBVIOUS
  <2>3. tr[m+1] = RetireLink(g, v, x)
    BY <1>2, <2>1, <2>2 DEF Traced, Step
  <2>4. Pass(c, d, g, RetireLink(g, v, x))
    BY <1>4, <2>2, RetireLinkPass
  <2> QED BY <2>1, <2>3, <2>4
<1>5. 0..n \subseteq S
  <2> HIDE DEF S, n
  <2> QED BY <1>1, <1>3, <1>4, SetInduction
<1>6. RetireLinks(g, p, q) = tr[n]
  BY <1>2, Zenon DEF Traced
<1> QED BY <1>1, <1>5, <1>6

\* The changed Sources of an update.
LEMMA ChangedAre ==
  ASSUME NEW c, NEW d, NEW g, BaseOk(c, d, g), NEW p, Pass(c, d, g, p)
  PROVE  /\ Length(p.c.changed) \in Nat /\ DOMAIN p.c.changed = 1..Length(p.c.changed)
         /\ \A m \in 1..Length(p.c.changed) :
              p.c.changed[m] \in ToSet(d.changed) /\ p.c.changed[m] \in Sources
<1>1. p.c.changed = d.changed /\ IsSeq(d.changed)
  BY UpdateOnKeeps DEF BaseOk, Pass, SparseOk
<1> QED BY <1>1, LengthSeq DEF BaseOk, SparseOk

\* The retirement pass over all changed Sources.
LEMMA RetireSourcesPass ==
  ASSUME NEW c, NEW d, NEW g, BaseOk(c, d, g), NEW p, Pass(c, d, g, p)
  PROVE  Pass(c, d, g, RetireSources(c, g, p))
<1> DEFINE q == p.c.changed
           n == Length(q)
<1>1. n \in Nat /\ DOMAIN q = 1..n /\ \A m \in 1..n : q[m] \in Sources
  BY ChangedAre
<1>2. PICK tr : Traced(tr, "retire", <<c, g>>, p, q, n, RetireSources(c, g, p))
  BY <1>1, RetireSourcesTrace
<1> DEFINE S == {m \in 0..n : Pass(c, d, g, tr[m])}
<1>3. 0 \in S
  <2>1. tr[0] = p
    BY <1>2 DEF Traced
  <2> QED BY <1>1, <2>1
<1>4. ASSUME NEW m \in 0..(n-1), m \in S PROVE m + 1 \in S
  <2>1. m + 1 \in 1..n /\ m + 1 \in 0..n /\ m + 1 - 1 = m
    BY <1>1
  <2>2. PICK v, s : v = tr[m] /\ s = q[m+1]
    OBVIOUS
  <2>3. tr[m+1] = RetireSource(c, g, v, s)
    BY <1>2, <2>1, <2>2 DEF Traced, Step
  <2>4. s \in Sources
    BY <1>1, <2>1, <2>2
  <2>5. IsSeq(PreviousSlice(c, s, "objects")) /\ IsSeq(PreviousSlice(c, s, "links"))
    BY <2>4, PreviousSliceSeq DEF BaseOk, SparseOk, Arenas
  <2>6. PICK os, ls : os = PreviousSlice(c, s, "objects") /\ ls = PreviousSlice(c, s, "links")
    OBVIOUS
  <2>7. Pass(c, d, g, RetireObjects(g, v, os))
    BY <1>4, <2>2, <2>5, <2>6, RetireObjectsPass
  <2>8. PICK w : w = RetireObjects(g, v, os)
    OBVIOUS
  <2>9. Pass(c, d, g, RetireLinks(g, w, ls))
    BY <2>5, <2>6, <2>7, <2>8, RetireLinksPass
  <2>10. tr[m+1] = RetireLinks(g, w, ls)
    BY <2>3, <2>6, <2>8 DEF RetireSource
  <2> QED BY <2>1, <2>9, <2>10
<1>5. 0..n \subseteq S
  <2> HIDE DEF S, n
  <2> QED BY <1>1, <1>3, <1>4, SetInduction, Zenon
<1>6. RetireSources(c, g, p) = tr[n]
  BY <1>2 DEF Traced
<1> QED BY <1>1, <1>5, <1>6

\* The slot of an object identity is one of the slots of the update.
LEMMA FindOrCreateObjectOk ==
  ASSUME NEW g, GraphOk(g), NEW u, UpdOk(g, u), TypesCounted(g, u), NEW identity
  PROVE  LET s == FindOrCreateObject(g, u, identity) IN
         /\ UpdOk(g, s.u) /\ TypesCounted(g, s.u) /\ s.handle \in 1..ObjectRoom(g, s.u)
         /\ ObjectRoom(g, u) <= ObjectRoom(g, s.u)
         /\ s.u.links = u.links /\ s.u.new_links = u.new_links /\ s.u.objects = u.objects
<1> DEFINE old == First(g.object_identities, identity)
           new == First(u.new_object_identities, identity)
<1>1. PICK s : s = FindOrCreateObject(g, u, identity)
  OBVIOUS
<1>2. s = IF old # 0 THEN [u |-> u, handle |-> old]
          ELSE IF new # 0 THEN [u |-> u, handle |-> Len(g.objects) + new]
          ELSE [u |-> [u EXCEPT !.new_object_identities = Append(@, identity)],
                handle |-> ObjectSlots(g, u) + 1]
  BY <1>1 DEF FindOrCreateObject, FindObjectIdentity, FirstWhere, First
<1>3. /\ IsSeq(g.object_identities) /\ Length(g.object_identities) = Length(g.objects)
      /\ IsSeq(u.new_object_identities)
  BY DEF GraphOk, ObjectSlotsOk, UpdOk, ObjectsPart
<1>4. PICK n, m \in Nat : /\ n = Length(g.objects) /\ m = Length(u.new_object_identities)
                          /\ ObjectRoom(g, u) = n + m /\ ObjectSlots(g, u) = n + m
                          /\ Len(g.objects) = n
  BY <1>3, LengthSeq, RoomNat, Zenon DEF ObjectRoom, Length
<1>5. old \in 0..n /\ new \in 0..m
  BY <1>3, <1>4, FirstIs
<1> HIDE DEF old, new
<1>6. CASE old # 0 \/ new # 0
  <2>1. s.u = u /\ s.handle \in 1..(n + m)
    BY <1>2, <1>4, <1>5, <1>6
  <2> QED BY <1>1, <1>4, <2>1
<1>7. CASE old = 0 /\ new = 0
  <2>1. PICK q : q = Append(u.new_object_identities, identity)
    BY Zenon
  <2>2. PICK v : v = [u EXCEPT !.new_object_identities = q]
    BY Zenon
  <2>3. s.u = v /\ s.handle = n + m + 1
    BY <1>2, <1>4, <1>7, <2>1, <2>2
  <2>4. IsSeq(q) /\ Length(q) = m + 1
    BY <1>3, <1>4, <2>1, AppendSeq DEF Length
  <2>5. /\ DOMAIN v = UpdateFields /\ v.new_object_identities = q /\ v.types = u.types
        /\ v.objects = u.objects /\ v.links = u.links /\ v.live = u.live
        /\ v.new_identities = u.new_identities /\ v.new_links = u.new_links
        /\ v.canonical = u.canonical /\ v.named_refs = u.named_refs
        /\ v.intrinsic_refs = u.intrinsic_refs
    BY <2>2 DEF UpdOk, UpdateFields
  <2>6. ObjectRoom(g, v) = n + m + 1 /\ TypeRoom(g, v) = TypeRoom(g, u)
    BY <1>4, <2>4, <2>5 DEF ObjectRoom, TypeRoom
  <2>7. TypesPart(g, v) /\ TypesCounted(g, v)
    <3>1. LiveTypeSet(g, v) = LiveTypeSet(g, u)
      BY <2>5 DEF LiveTypeSet, CandidateType
    <3> QED BY <2>5, <2>6, <3>1 DEF TypesPart, TypesCounted, UpdOk
  <2>8. RefsPart(g, v)
    <3>1. NamedOf(g, v) = NamedOf(g, u)
      BY <2>5 DEF NamedOf
    <3> QED BY <2>5, <2>6, <3>1 DEF UpdOk, RefsPart
  <2>9. ObjectsPart(g, v)
    <3>1. LiveObjectSet(g, v) = LiveObjectSet(g, u)
      BY <2>5 DEF LiveObjectSet, CandidateObject
    <3>2. PatchesWithin(u.objects, n + m)
      BY <1>4 DEF UpdOk, ObjectsPart
    <3>3. PatchesWithin(u.objects, n + m + 1)
      BY <1>4, <3>2, WithinGrows
    <3> QED BY <2>4, <2>5, <2>6, <3>1, <3>3 DEF UpdOk, ObjectsPart
  <2>10. LinksPart(g, v)
    <3>1. LiveLinkSet(g, v) = LiveLinkSet(g, u)
      BY <2>5 DEF LiveLinkSet, LinkAt, LinkRoom
    <3> QED BY <2>5, <3>1 DEF UpdOk, LinksPart
  <2>11. UpdOk(g, v)
    BY <2>5, <2>7, <2>8, <2>9, <2>10 DEF UpdOk
  <2>12. UpdOk(g, s.u) /\ TypesCounted(g, s.u)
    BY <2>3, <2>7, <2>11
  <2>13. s.handle \in 1..ObjectRoom(g, s.u) /\ ObjectRoom(g, u) <= ObjectRoom(g, s.u)
    BY <1>4, <2>3, <2>6
  <2>14. s.u.links = u.links /\ s.u.new_links = u.new_links /\ s.u.objects = u.objects
    BY <2>3, <2>5
  <2> QED BY <1>1, <2>12, <2>13, <2>14
<1> QED BY <1>6, <1>7

\* An object that is claimed.
LEMMA ClaimObjectPass ==
  ASSUME NEW c, NEW d, NEW g, BaseOk(c, d, g), NEW p, Pass(c, d, g, p),
         NEW o, TypeOk(o.type)
  PROVE  Pass(c, d, g, ClaimObject(c, g, p, o))
<1> DEFINE slot == FindOrCreateObject(g, p.u, o.identity)
           h == slot.handle
           before == CandidateObject(g, slot.u, h)
           t == MaterializeTypeRef(c, g, p.c, slot.u, o.type)
<1>1. PICK v : v = ClaimObject(c, g, p, o)
  OBVIOUS
<1>2. \/ v = p
      \/ \E code : v = Refused(p, code)
      \/ /\ ~before.live
         /\ v = [p EXCEPT !.u = [t.u EXCEPT
                                   !.objects = Patched(@, h, [live |-> TRUE, type |-> t.ref]),
                                   !.live.objects = @ + 1],
                          !.claimed_objects = @ \cup {h}]
  BY <1>1, Zenon DEF ClaimObject
<1>3. UpdateOn(d, v) /\ UpdateOn(d, p) /\ UpdateShape(p)
  BY <1>1, ClaimObjectOn DEF BaseOk, Pass, UpdateOn
<1>4. ASSUME NEW code, v = Refused(p, code) PROVE Pass(c, d, g, v)
  BY <1>4, RefusedPass
<1>5. ASSUME ~before.live,
             v = [p EXCEPT !.u = [t.u EXCEPT
                                    !.objects = Patched(@, h, [live |-> TRUE, type |-> t.ref]),
                                    !.live.objects = @ + 1],
                           !.claimed_objects = @ \cup {h}]
      PROVE  Pass(c, d, g, v)
  <2>1. PICK u, identity, type : u = p.u /\ identity = o.identity /\ type = o.type
    OBVIOUS
  <2>2. PICK s : s = FindOrCreateObject(g, u, identity)
    OBVIOUS
  <2>3. PICK y, k : y = s.u /\ k = s.handle
    OBVIOUS
  <2>4. GraphOk(g) /\ UpdOk(g, u) /\ TypesCounted(g, u)
    BY <2>1 DEF BaseOk, Pass
  <2>5. /\ UpdOk(g, y) /\ TypesCounted(g, y) /\ k \in 1..ObjectRoom(g, y)
        /\ y.links = u.links
    BY <2>2, <2>3, <2>4, FindOrCreateObjectOk
  <2>6. PICK tt : tt = MaterializeTypeRef(c, g, p.c, y, type)
    OBVIOUS
  <2>7. PICK w, r : w = tt.u /\ r = tt.ref
    OBVIOUS
  <2>8. UpdOk(g, w) /\ RefStep(g, y, w)
    BY <1>3, <2>1, <2>4, <2>5, <2>6, <2>7, MaterializeTypeRefOk DEF BaseOk
  <2>9. TypesCounted(g, w)
    <3>1. CountOk(LiveTypeSet(g, w), y.live.types)
      BY <2>5, <2>8, RefStepCounted DEF TypesCounted
    <3> QED BY <2>8, <3>1 DEF RefStep, TypesCounted
  <2>10. k \in 1..ObjectRoom(g, w) /\ w.links = u.links /\ w.live = y.live /\ w.objects = y.objects
    BY <2>5, <2>8 DEF RefStep, ObjectRoom
  <2>11. PICK e : e = [live |-> TRUE, type |-> r]
    BY Zenon
  <2>12. k \notin LiveObjectSet(g, w)
    <3>1. ~CandidateObject(g, y, k).live
      BY <1>5, <2>1, <2>2, <2>3
    <3>2. CandidateObject(g, w, k) = CandidateObject(g, y, k)
      BY <2>10 DEF CandidateObject
    <3> QED BY <3>1, <3>2 DEF LiveObjectSet
  <2>13. v = [p EXCEPT !.u = [w EXCEPT !.objects = Patched(@, k, e), !.live.objects = @ + 1],
                       !.claimed_objects = @ \cup {k}]
    BY <1>5, <2>1, <2>2, <2>3, <2>6, <2>7, <2>11
  <2>14. PICK x : x = [w EXCEPT !.objects = Patched(@, k, e), !.live.objects = @ + 1]
    OBVIOUS
  <2> HIDE DEF slot, h, before, t
  <2>15. /\ v.u = x /\ v.c = p.c /\ v.retired_links = p.retired_links
         /\ v.claimed_targets = p.claimed_targets
    BY <1>3, <2>13, <2>14 DEF UpdateShape
  <2>16. PICK lv, os : /\ lv = [w.live EXCEPT !.objects = @ + 1]
                       /\ os = Patched(w.objects, k, e)
    BY Zenon
  <2>17. DOMAIN w = UpdateFields /\ LiveShape(w.live)
    BY <2>8 DEF UpdOk
  <2>18. x = [w EXCEPT !.live = lv, !.objects = os]
    BY <2>14, <2>16, <2>17, Zenon DEF UpdateFields
  <2>19. /\ LiveShape(lv) /\ lv.types = w.live.types
         /\ lv.links = w.live.links /\ lv.objects = w.live.objects + 1
    BY <2>16, <2>17 DEF LiveShape
  <2>20. ObjectPut(w, k, e, x) /\ x.live.objects = w.live.objects + 1 /\ x.links = w.links
    BY <2>16, <2>17, <2>18, <2>19, Zenon DEF ObjectPut, UpdateFields
  <2>21. UpdOk(g, x) /\ TypesCounted(g, x)
    <3>1. TRUE <=> e.live
      BY <2>11
    <3>2. x.live.objects = Flipped(LiveObjectSet(g, w), w.live.objects, k, TRUE)
      BY <2>12, <2>20 DEF Flipped
    <3> QED BY <2>4, <2>8, <2>9, <2>10, <2>20, <3>1, <3>2, ObjectPutOk, Zenon
  <2> QED BY <1>3, <2>1, <2>10, <2>15, <2>20, <2>21, UpdateReplaced
<1> HIDE DEF h, before, t, slot
<1> QED BY <1>1, <1>2, <1>4, <1>5

\* The objects of one replacement slice are claimed.
LEMMA ClaimObjectsOfPass ==
  ASSUME NEW c, NEW d, NEW g, BaseOk(c, d, g), NEW p, Pass(c, d, g, p),
         NEW s \in ToSet(d.changed)
  PROVE  Pass(c, d, g, ClaimObjectsOf(c, g, p, s))
<1> DEFINE q == ReplacementSlice(c, p.c, s, "objects")
           n == Length(q)
<1>1. IsSeq(q) /\ RecordsOk("objects", q)
  BY ReplacementSliceSeq, ReplacementSliceOk DEF BaseOk, Pass, Arenas
<1>2. n \in Nat /\ DOMAIN q = 1..n
  BY <1>1, LengthSeq
<1>3. PICK tr : Traced(tr, "claim objects of", <<c, g>>, p, q, n, ClaimObjectsOf(c, g, p, s))
  BY <1>2, ClaimObjectsOfTrace, Zenon
<1> DEFINE S == {m \in 0..n : Pass(c, d, g, tr[m])}
<1>4. 0 \in S
  <2>1. tr[0] = p
    BY <1>3, Zenon DEF Traced
  <2> QED BY <1>2, <2>1
<1>5. ASSUME NEW m \in 0..(n-1), m \in S PROVE m + 1 \in S
  <2>1. m + 1 \in 1..n /\ m + 1 \in 0..n /\ m + 1 - 1 = m
    BY <1>2
  <2>2. PICK v, x : v = tr[m] /\ x = q[m+1]
    OBVIOUS
  <2>3. tr[m+1] = ClaimObject(c, g, v, x)
    BY <1>3, <2>1, <2>2 DEF Traced, Step
  <2>4. TypeOk(x.type)
    BY <1>1, <2>1, <2>2 DEF RecordsOk, RecordOk
  <2>5. Pass(c, d, g, ClaimObject(c, g, v, x))
    BY <1>5, <2>2, <2>4, ClaimObjectPass
  <2> QED BY <2>1, <2>3, <2>5
<1>6. 0..n \subseteq S
  <2> HIDE DEF S, n
  <2> QED BY <1>2, <1>4, <1>5, SetInduction
<1>7. ClaimObjectsOf(c, g, p, s) = tr[n]
  BY <1>3, Zenon DEF Traced
<1> QED BY <1>2, <1>6, <1>7

\* The objects of all changed Sources are claimed.
LEMMA ClaimObjectsPass ==
  ASSUME NEW c, NEW d, NEW g, BaseOk(c, d, g), NEW p, Pass(c, d, g, p)
  PROVE  Pass(c, d, g, ClaimObjects(c, g, p))
<1> DEFINE q == p.c.changed
           n == Length(q)
<1>1. n \in Nat /\ DOMAIN q = 1..n /\ \A m \in 1..n : q[m] \in ToSet(d.changed)
  BY ChangedAre
<1>2. PICK tr : Traced(tr, "claim objects", <<c, g>>, p, q, n, ClaimObjects(c, g, p))
  BY <1>1, ClaimObjectsTrace, Zenon
<1> DEFINE S == {m \in 0..n : Pass(c, d, g, tr[m])}
<1>3. 0 \in S
  <2>1. tr[0] = p
    BY <1>2, Zenon DEF Traced
  <2> QED BY <1>1, <2>1
<1>4. ASSUME NEW m \in 0..(n-1), m \in S PROVE m + 1 \in S
  <2>1. m + 1 \in 1..n /\ m + 1 \in 0..n /\ m + 1 - 1 = m
    BY <1>1
  <2>2. PICK v, s : v = tr[m] /\ s = q[m+1]
    OBVIOUS
  <2>3. tr[m+1] = ClaimObjectsOf(c, g, v, s)
    BY <1>2, <2>1, <2>2 DEF Traced, Step
  <2>4. s \in ToSet(d.changed)
    BY <1>1, <2>1, <2>2
  <2>5. Pass(c, d, g, ClaimObjectsOf(c, g, v, s))
    BY <1>4, <2>2, <2>4, ClaimObjectsOfPass
  <2> QED BY <2>1, <2>3, <2>5
<1>5. 0..n \subseteq S
  <2> HIDE DEF S, n
  <2> QED BY <1>1, <1>3, <1>4, SetInduction, Zenon
<1>6. ClaimObjects(c, g, p) = tr[n]
  BY <1>2, Zenon DEF Traced
<1> QED BY <1>1, <1>5, <1>6

\* A link that is claimed: its target's slot was retired, or is new.
LEMMA ClaimLinkPass ==
  ASSUME NEW c, NEW d, NEW g, BaseOk(c, d, g), NEW p, Pass(c, d, g, p),
         NEW l, RecordOk("links", l)
  PROVE  Pass(c, d, g, ClaimLink(g, p, l))
<1> DEFINE from == FindOrCreateObject(g, p.u, l.source.object)
           to == FindOrCreateObject(g, from.u, l.target.object)
           source == [l.source EXCEPT !.object = from.handle]
           target == [l.target EXCEPT !.object = to.handle]
           h == FindLinkRaw(g, target)
           record == [source |-> source, target |-> target]
           claimed == [p EXCEPT !.u = [to.u EXCEPT !.live.links = @ + 1],
                                !.claimed_targets = @ \cup {target}]
           free == /\ target \notin p.claimed_targets
                   /\ ~(h # 0 /\ g.links[h].source # NoEndpoint /\ h \notin p.retired_links)
<1>1. PICK v : v = ClaimLink(g, p, l)
  OBVIOUS
<1>2. \/ v = p
      \/ \E code : v = Refused(p, code)
      \/ free /\ h # 0 /\ v = [claimed EXCEPT !.u.links = Patched(@, h, record)]
      \/ free /\ h = 0 /\ v = [claimed EXCEPT !.u.new_links = Append(@, record)]
  BY <1>1, Zenon DEF ClaimLink
<1>3. UpdateOn(d, v) /\ UpdateOn(d, p) /\ UpdateShape(p)
  BY <1>1, ClaimLinkOn DEF BaseOk, Pass, UpdateOn
<1>4. ASSUME NEW code, v = Refused(p, code) PROVE Pass(c, d, g, v)
  BY <1>4, RefusedPass
<1>5. PICK u, a, b : u = p.u /\ a = l.source.object /\ b = l.target.object
  OBVIOUS
<1>6. PICK f : f = FindOrCreateObject(g, u, a)
  OBVIOUS
<1>7. PICK z : z = f.u
  OBVIOUS
<1>8. PICK t : t = FindOrCreateObject(g, z, b)
  OBVIOUS
<1>9. PICK w : w = t.u
  OBVIOUS
<1>10. GraphOk(g) /\ UpdOk(g, u) /\ TypesCounted(g, u)
  BY <1>5 DEF BaseOk, Pass
<1>11. /\ UpdOk(g, z) /\ TypesCounted(g, z) /\ f.handle \in 1..ObjectRoom(g, z)
       /\ z.links = u.links
  BY <1>6, <1>7, <1>10, FindOrCreateObjectOk
<1>12. /\ UpdOk(g, w) /\ TypesCounted(g, w) /\ w.links = u.links
  BY <1>8, <1>9, <1>10, <1>11, FindOrCreateObjectOk
<1>13. PICK so, tg, k, x : so = source /\ tg = target /\ k = h /\ x = record
  BY Zenon
<1>14. x = [source |-> so, target |-> tg] /\ LinkShape(x) /\ x.target = tg /\ x.source # NoEndpoint
  <2>1. x = [source |-> so, target |-> tg]
    BY <1>13
  <2>2. so = [l.source EXCEPT !.object = f.handle]
    BY <1>5, <1>6, <1>13
  <2>3. "object" \in DOMAIN l.source
    BY DEF RecordOk
  <2>4. so.object = f.handle
    BY <2>2, <2>3
  <2>5. f.handle # 0
    <3>1. ObjectRoom(g, z) \in Nat
      BY <1>10, <1>11, RoomNat
    <3> QED BY <1>11, <3>1
  <2>6. so # NoEndpoint
    BY <2>4, <2>5 DEF NoEndpoint
  <2> QED BY <2>1, <2>6 DEF LinkShape
<1>15. PICK lv : lv = [w.live EXCEPT !.links = @ + 1]
  BY Zenon
<1>16. DOMAIN w = UpdateFields /\ LiveShape(w.live)
  BY <1>12 DEF UpdOk
<1>17. /\ LiveShape(lv) /\ lv.types = w.live.types
       /\ lv.objects = w.live.objects /\ lv.links = w.live.links + 1
  BY <1>15, <1>16 DEF LiveShape
<1>18. PICK q : q = claimed
  OBVIOUS
<1>19. /\ UpdateShape(q) /\ q.c = p.c /\ q.retired_links = p.retired_links
       /\ q.u = [w EXCEPT !.live = lv] /\ q.claimed_targets = p.claimed_targets \cup {tg}
  <2>1. q = [p EXCEPT !.u = [w EXCEPT !.live.links = @ + 1], !.claimed_targets = @ \cup {tg}]
    BY <1>5, <1>6, <1>7, <1>8, <1>9, <1>13, <1>18
  <2>2. [w EXCEPT !.live.links = @ + 1] = [w EXCEPT !.live = lv]
    BY <1>15, <1>16 DEF UpdateFields
  <2>3. PICK y, cs : y = [w EXCEPT !.live = lv] /\ cs = p.claimed_targets \cup {tg}
    BY Zenon
  <2>4. q = [p EXCEPT !.u = y, !.claimed_targets = cs]
    BY <2>1, <2>2, <2>3, Zenon
  <2> QED BY <1>3, <2>3, <2>4, Zenon DEF UpdateShape
<1>21. LinkRules(p)
  BY DEF Pass
<1>22. ASSUME free, h # 0, v = [claimed EXCEPT !.u.links = Patched(@, h, record)]
       PROVE  Pass(c, d, g, v)
  <2>1. PICK ls : ls = Patched(w.links, k, x)
    OBVIOUS
  <2>2. PICK y : y = [w EXCEPT !.live = lv, !.links = ls]
    OBVIOUS
  <2>3. v = [q EXCEPT !.u.links = Patched(@, k, x)]
    BY <1>13, <1>18, <1>22, Zenon
  <2>4. /\ tg \notin p.claimed_targets
        /\ ~(k # 0 /\ g.links[k].source # NoEndpoint /\ k \notin p.retired_links)
        /\ k # 0 /\ k = FindLinkRaw(g, tg)
    BY <1>13, <1>22, Zenon
  <2> HIDE DEF from, to, source, target, h, record, claimed, free
  <2>5. /\ v.u = y /\ v.c = p.c /\ v.retired_links = p.retired_links
        /\ v.claimed_targets = p.claimed_targets \cup {tg}
    <3>1. q.u.links = w.links /\ "links" \in DOMAIN q.u
      BY <1>16, <1>19 DEF UpdateFields
    <3>2. v = [q EXCEPT !.u = [q.u EXCEPT !.links = ls]]
      BY <1>19, <2>1, <2>3, <3>1 DEF UpdateShape
    <3>3. [q.u EXCEPT !.links = ls] = y
      BY <1>16, <1>19, <2>2 DEF UpdateFields
    <3>4. v = [q EXCEPT !.u = y]
      BY <3>2, <3>3
    <3> QED BY <1>19, <3>4 DEF UpdateShape
  <2>6. /\ LinksOnly(w, y) /\ y.live.links = w.live.links + 1
        /\ y.links = Patched(w.links, k, x) /\ y.new_links = w.new_links
    BY <1>16, <1>17, <2>1, <2>2 DEF LinksOnly, UpdateFields
  <2>7. k \in 1..Length(g.links) /\ g.links[k].target = tg
    <3>1. IsSeq(g.links) /\ Length(g.links) \in Nat
      BY <1>10, LengthSeq DEF GraphOk, LinksOk
    <3>2. k \in 0..Length(g.links) /\ g.links[k].target = tg
      BY <2>4, <3>1, FindLinkIs
    <3> QED BY <2>4, <3>1, <3>2
  <2>8. k \notin LiveLinkSet(g, w)
    <3>1. PICK e : e = Overlaid(g.links, w.links, k)
      OBVIOUS
    <3>2. /\ e.target = tg
          /\ k \in LiveLinkSet(g, w) <=> e.source # NoEndpoint
      BY <1>10, <1>12, <2>7, <3>1, LinkSlot
    <3>3. e.source = NoEndpoint
      <4>1. CASE k \in DOMAIN u.links
        BY <1>5, <1>12, <1>21, <2>4, <3>1, <3>2, <4>1 DEF Overlaid, LinkRules
      <4>2. CASE k \notin DOMAIN u.links
        <5>1. e = g.links[k]
          BY <1>12, <3>1, <4>2 DEF Overlaid
        <5>2. k \notin p.retired_links
          BY <1>5, <1>21, <4>2 DEF LinkRules
        <5> QED BY <2>4, <5>1, <5>2
      <4> QED BY <4>1, <4>2
    <3> QED BY <3>2, <3>3
  <2>9. UpdOk(g, y) /\ TypesCounted(g, y)
    <3>1. TRUE <=> x.source # NoEndpoint
      BY <1>14
    <3>2. y.live.links = Flipped(LiveLinkSet(g, w), w.live.links, k, TRUE)
      BY <2>6, <2>8 DEF Flipped
    <3>3. LinkShape(x) /\ x.target = g.links[k].target
      BY <1>14, <2>7
    <3> QED BY <1>10, <1>12, <2>6, <2>7, <3>1, <3>2, <3>3, LinkPutOk, Zenon
  <2>10. LinkRules(v)
    <3>1. /\ \A j : j \in DOMAIN y.links <=> j \in DOMAIN w.links \/ j = k
          /\ y.links[k] = x
          /\ \A j \in DOMAIN w.links : j # k => y.links[j] = w.links[j]
      BY <2>6, PatchedIs
    <3>2. tg \in v.claimed_targets /\ \A e \in p.claimed_targets : e \in v.claimed_targets
      BY <2>5
    <3> QED BY <1>5, <1>12, <1>14, <1>21, <2>5, <3>1, <3>2 DEF LinkRules
  <2> QED BY <1>3, <2>5, <2>9, <2>10 DEF Pass
<1>23. ASSUME free, h = 0, v = [claimed EXCEPT !.u.new_links = Append(@, record)]
       PROVE  Pass(c, d, g, v)
  <2>1. PICK ls : ls = Append(w.new_links, x)
    BY Zenon
  <2>2. PICK y : y = [w EXCEPT !.live = lv, !.new_links = ls]
    OBVIOUS
  <2>3. v = [q EXCEPT !.u.new_links = Append(@, x)]
    BY <1>13, <1>18, <1>23, Zenon
  <2> HIDE DEF from, to, source, target, h, record, claimed, free
  <2>4. /\ v.u = y /\ v.c = p.c /\ v.retired_links = p.retired_links
        /\ v.claimed_targets = p.claimed_targets \cup {tg}
    <3>1. q.u.new_links = w.new_links /\ "new_links" \in DOMAIN q.u
      BY <1>16, <1>19 DEF UpdateFields
    <3>2. v = [q EXCEPT !.u = [q.u EXCEPT !.new_links = ls]]
      BY <1>19, <2>1, <2>3, <3>1 DEF UpdateShape
    <3>3. [q.u EXCEPT !.new_links = ls] = y
      BY <1>16, <1>19, <2>2 DEF UpdateFields
    <3>4. v = [q EXCEPT !.u = y]
      BY <3>2, <3>3
    <3> QED BY <1>19, <3>4 DEF UpdateShape
  <2>5. /\ LinksOnly(w, y) /\ y.live.links = w.live.links + 1
        /\ y.links = w.links /\ y.new_links = Append(w.new_links, x)
    BY <1>16, <1>17, <2>1, <2>2 DEF LinksOnly, UpdateFields
  <2>6. UpdOk(g, y) /\ TypesCounted(g, y)
    BY <1>10, <1>12, <1>14, <2>5, LinkNewOk
  <2>7. LinkRules(v)
    BY <1>5, <1>12, <1>21, <2>4, <2>5 DEF LinkRules
  <2> QED BY <1>3, <2>4, <2>6, <2>7 DEF Pass
<1> HIDE DEF from, to, source, target, h, record, claimed, free
<1> QED BY <1>1, <1>2, <1>4, <1>22, <1>23

\* The links of one replacement slice are claimed.
LEMMA ClaimLinksOfPass ==
  ASSUME NEW c, NEW d, NEW g, BaseOk(c, d, g), NEW p, Pass(c, d, g, p),
         NEW s \in ToSet(d.changed)
  PROVE  Pass(c, d, g, ClaimLinksOf(c, g, p, s))
<1> DEFINE q == ReplacementSlice(c, p.c, s, "links")
           n == Length(q)
<1>1. IsSeq(q) /\ RecordsOk("links", q)
  BY ReplacementSliceSeq, ReplacementSliceOk DEF BaseOk, Pass, Arenas
<1>2. n \in Nat /\ DOMAIN q = 1..n
  BY <1>1, LengthSeq
<1>3. PICK tr : Traced(tr, "claim links of", <<g>>, p, q, n, ClaimLinksOf(c, g, p, s))
  BY <1>2, ClaimLinksOfTrace, Zenon
<1> DEFINE S == {m \in 0..n : Pass(c, d, g, tr[m])}
<1>4. 0 \in S
  <2>1. tr[0] = p
    BY <1>3, Zenon DEF Traced
  <2> QED BY <1>2, <2>1
<1>5. ASSUME NEW m \in 0..(n-1), m \in S PROVE m + 1 \in S
  <2>1. m + 1 \in 1..n /\ m + 1 \in 0..n /\ m + 1 - 1 = m
    BY <1>2
  <2>2. PICK v, x : v = tr[m] /\ x = q[m+1]
    OBVIOUS
  <2>3. tr[m+1] = ClaimLink(g, v, x)
    BY <1>3, <2>1, <2>2 DEF Traced, Step
  <2>4. RecordOk("links", x)
    BY <1>1, <2>1, <2>2 DEF RecordsOk
  <2>5. Pass(c, d, g, ClaimLink(g, v, x))
    BY <1>5, <2>2, <2>4, ClaimLinkPass
  <2> QED BY <2>1, <2>3, <2>5
<1>6. 0..n \subseteq S
  <2> HIDE DEF S, n
  <2> QED BY <1>2, <1>4, <1>5, SetInduction, Zenon
<1>7. ClaimLinksOf(c, g, p, s) = tr[n]
  BY <1>3, Zenon DEF Traced
<1> QED BY <1>2, <1>6, <1>7

\* The links of all changed Sources are claimed.
LEMMA ClaimLinksPass ==
  ASSUME NEW c, NEW d, NEW g, BaseOk(c, d, g), NEW p, Pass(c, d, g, p)
  PROVE  Pass(c, d, g, ClaimLinks(c, g, p))
<1> DEFINE q == p.c.changed
           n == Length(q)
<1>1. n \in Nat /\ DOMAIN q = 1..n /\ \A m \in 1..n : q[m] \in ToSet(d.changed)
  BY ChangedAre
<1>2. PICK tr : Traced(tr, "claim links", <<c, g>>, p, q, n, ClaimLinks(c, g, p))
  BY <1>1, ClaimLinksTrace, Zenon
<1> DEFINE S == {m \in 0..n : Pass(c, d, g, tr[m])}
<1>3. 0 \in S
  <2>1. tr[0] = p
    BY <1>2, Zenon DEF Traced
  <2> QED BY <1>1, <2>1
<1>4. ASSUME NEW m \in 0..(n-1), m \in S PROVE m + 1 \in S
  <2>1. m + 1 \in 1..n /\ m + 1 \in 0..n /\ m + 1 - 1 = m
    BY <1>1
  <2>2. PICK v, s : v = tr[m] /\ s = q[m+1]
    OBVIOUS
  <2>3. tr[m+1] = ClaimLinksOf(c, g, v, s)
    BY <1>2, <2>1, <2>2 DEF Traced, Step
  <2>4. s \in ToSet(d.changed)
    BY <1>1, <2>1, <2>2
  <2>5. Pass(c, d, g, ClaimLinksOf(c, g, v, s))
    BY <1>4, <2>2, <2>4, ClaimLinksOfPass
  <2> QED BY <2>1, <2>3, <2>5
<1>5. 0..n \subseteq S
  <2> HIDE DEF S, n
  <2> QED BY <1>1, <1>3, <1>4, SetInduction, Zenon
<1>6. ClaimLinks(c, g, p) = tr[n]
  BY <1>2, Zenon DEF Traced
<1> QED BY <1>1, <1>5, <1>6

\* The headroom check of the Graph keeps the update.
LEMMA ValidateUpdatePass ==
  ASSUME NEW c, NEW d, NEW g, BaseOk(c, d, g), NEW p, Pass(c, d, g, p)
  PROVE  Pass(c, d, g, ValidateUpdate(g, p))
<1>1. PICK v : v = ValidateUpdate(g, p)
  OBVIOUS
<1>2. v = p \/ \E code : v = Refused(p, code)
  <2>1. PICK code : code = PrepareSparsePublication(g, p.u)
    OBVIOUS
  <2>2. [p EXCEPT !.status = PrepareSparsePublication(g, p.u)] = Refused(p, code)
    BY <2>1 DEF Refused
  <2> QED BY <1>1, <2>2, Zenon DEF ValidateUpdate
<1> QED BY <1>1, <1>2, RefusedPass

\* The passes of an incremental build, one after the other.
LEMMA PrepareIncrementalGraphPass ==
  ASSUME NEW c, NEW d, NEW g, BaseOk(c, d, g), NEW p, Pass(c, d, g, p), Exchanging(g, p)
  PROVE  Pass(c, d, g, PrepareIncrementalGraph(c, g, p))
<1>1. PICK p1 : p1 = ExchangeAllTypes(c, g, p)
  OBVIOUS
<1>2. Pass(c, d, g, p1) /\ Exchanging(g, p1)
  BY <1>1, ExchangeAllTypesPass
<1>3. PICK p2 : p2 = MaterializeTypes(c, g, p1)
  OBVIOUS
<1>4. Pass(c, d, g, p2)
  BY <1>2, <1>3, MaterializeTypesPass
<1>5. PICK p3 : p3 = RetireSources(c, g, p2)
  OBVIOUS
<1>6. Pass(c, d, g, p3)
  BY <1>4, <1>5, RetireSourcesPass
<1>7. PICK p4 : p4 = ClaimObjects(c, g, p3)
  OBVIOUS
<1>8. Pass(c, d, g, p4)
  BY <1>6, <1>7, ClaimObjectsPass
<1>9. PICK p5 : p5 = ClaimLinks(c, g, p4)
  OBVIOUS
<1>10. Pass(c, d, g, p5)
  BY <1>8, <1>9, ClaimLinksPass
<1>11. Pass(c, d, g, ValidateUpdate(g, p5))
  BY <1>10, ValidateUpdatePass
<1> QED BY <1>1, <1>3, <1>5, <1>7, <1>9, <1>11 DEF PrepareIncrementalGraph

\* An incremental build, from the captured Sources to its verdict.
LEMMA PrepareIncrementalPass ==
  ASSUME NEW c, NEW d, NEW g, BaseOk(c, d, g), LiveCounted(g),
         NEW rep, NEW rem, NEW fs, d = CaptureUpdate(c, g, rep, rem, fs).c, NEW room
  PROVE  Pass(c, d, g, PrepareIncremental(c, g, rep, rem, fs, room))
<1>1. PICK p0 : p0 = CaptureUpdate(c, g, rep, rem, fs)
  OBVIOUS
<1>2. /\ UpdateShape(p0) /\ p0.c = d /\ p0.touched = <<>> /\ p0.u = EmptyUpdate(g)
      /\ p0.retired_links = {} /\ p0.claimed_targets = {}
  BY <1>1, Zenon DEF CaptureUpdate, BeginUpdate, UpdateShape
<1>3. UpdateOn(d, p0)
  <2>1. d = [d EXCEPT !.construction = d.construction]
    BY DEF BaseOk, SparseOk, SparseShape
  <2> QED BY <1>2, <2>1, EmptyIsSeq DEF UpdateOn, BaseOk, SparseOk
<1>4. /\ UpdOk(g, p0.u) /\ TypesCounted(g, p0.u) /\ p0.u.types = <<>> /\ p0.u.links = <<>>
  BY <1>2, EmptyUpdateOk DEF BaseOk
<1>5. LinkRules(p0)
  BY <1>2, <1>4, EmptyDomain DEF LinkRules
<1>6. StatesIn(TypeRecords(c, d), p0.c.construction)
  BY <1>2, EmptyDomain DEF StatesIn, BaseOk, SparseOk
<1>7. Pass(c, d, g, p0)
  BY <1>3, <1>4, <1>5, <1>6 DEF Pass
<1>8. Exchanging(g, p0)
  <2>1. Length(p0.touched) = 0
    BY <1>2, EmptyIsSeq DEF Length
  <2> QED BY <1>4, <2>1 DEF Exchanging
<1>9. PICK p : p = PrepareIncrementalGraph(c, g, p0)
  OBVIOUS
<1>10. Pass(c, d, g, p)
  BY <1>7, <1>8, <1>9, PrepareIncrementalGraphPass
<1>11. PICK v : v = FitContributions(c, g, p, room)
  OBVIOUS
<1>12. v = p \/ \E code : v = Refused(p, code)
  BY <1>11, Zenon DEF FitContributions
<1>13. Pass(c, d, g, v)
  BY <1>10, <1>12, RefusedPass
<1> QED BY <1>1, <1>9, <1>11, <1>13 DEF PrepareIncremental

----------------------------------------------------------------------------
(* Publishing the update of a Graph. *)

\* A function on 1..n is a sequence of that length.
LEMMA TabulatedSeq ==
  ASSUME NEW n \in Nat, NEW q, DOMAIN q = 1..n, q = [i \in 1..n |-> q[i]]
  PROVE  IsSeq(q) /\ Length(q) = n
BY FunctionIsSeq DEF Length

\* The slots of a published update, one handle at a time.
Published(g, u, v) ==
  /\ DOMAIN v = GraphFields
  /\ v.types = [h \in 1..TypeRoom(g, u) |-> CandidateType(g, u, h)]
  /\ v.identities = g.identities \o u.new_identities
  /\ v.canonical = g.canonical \o u.canonical
  /\ v.objects = [h \in 1..ObjectRoom(g, u) |-> CandidateObject(g, u, h)]
  /\ v.object_identities = g.object_identities \o u.new_object_identities
  /\ v.links = [h \in DOMAIN (g.links \o u.new_links) |-> Overlaid(g.links \o u.new_links, u.links, h)]
  /\ v.intrinsic_refs = u.intrinsic_refs
  /\ v.named_refs = [h \in 1..TypeRoom(g, u) |->
       Overlaid(g.named_refs \o [i \in DOMAIN u.new_identities |-> 0], u.named_refs, h)]
  /\ v.live = u.live

\* What publish_prepared writes, field by field.
LEMMA PublishedFields ==
  ASSUME NEW g, GraphOk(g), NEW u
  PROVE  Published(g, u, PublishUpdate(g, u))
<1> DEFINE slots == TypeSlots(g, u)
           fresh == [i \in DOMAIN u.new_identities |-> 0]
           pushed == PushEdges(g.heads \o fresh, g.edges, u.edges)
           ones == g.versions \o [i \in DOMAIN fresh |-> 1]
           zeros == g.named_refs \o fresh
           joined == g.links \o u.new_links
<1>1. PICK types, identities, members, values, canonical, objects, oids, links, named, derived,
           versions, heads, edges :
        /\ types = [h \in 1..slots |-> CandidateType(g, u, h)]
        /\ identities = g.identities \o u.new_identities
        /\ members = g.members \o u.members
        /\ values = g.enum_values \o u.enum_values
        /\ canonical = g.canonical \o u.canonical
        /\ objects = [h \in 1..ObjectSlots(g, u) |-> CandidateObject(g, u, h)]
        /\ oids = g.object_identities \o u.new_object_identities
        /\ links = [h \in DOMAIN joined |-> Overlaid(joined, u.links, h)]
        /\ named = [h \in 1..slots |-> Overlaid(zeros, u.named_refs, h)]
        /\ derived = g.derived_entries + u.new_derived
        /\ versions = [h \in 1..slots |-> Overlaid(ones, u.versions, h)]
        /\ heads = pushed.heads
        /\ edges = pushed.edges
  BY Zenon
<1>2. PublishUpdate(g, u) = [g EXCEPT
          !.types = types, !.identities = identities, !.members = members,
          !.enum_values = values, !.canonical = canonical, !.objects = objects,
          !.object_identities = oids, !.links = links, !.intrinsic_refs = u.intrinsic_refs,
          !.named_refs = named, !.derived_entries = derived, !.versions = versions,
          !.heads = heads, !.edges = edges, !.live = u.live]
  BY <1>1, Zenon DEF PublishUpdate
<1>3. PICK v : v = PublishUpdate(g, u)
  OBVIOUS
<1>4. DOMAIN g = GraphFields
  BY DEF GraphOk
<1> HIDE DEF slots, fresh, pushed, ones, zeros, joined
<1>5. v["types"] = types /\ v["identities"] = identities /\ v["canonical"] = canonical
  BY <1>2, <1>3, <1>4 DEF GraphFields
<1>6. /\ v["objects"] = objects /\ v["object_identities"] = oids /\ v["links"] = links
  BY <1>2, <1>3, <1>4 DEF GraphFields
<1>7. /\ v["intrinsic_refs"] = u.intrinsic_refs /\ v["named_refs"] = named /\ v["live"] = u.live
  BY <1>2, <1>3, <1>4 DEF GraphFields
<1>8. DOMAIN v = GraphFields
  <2>1. DOMAIN v = DOMAIN g
    BY <1>2, <1>3, Zenon
  <2> QED BY <1>4, <2>1
<1>9. slots = TypeRoom(g, u) /\ ObjectSlots(g, u) = ObjectRoom(g, u)
  BY DEF slots, TypeSlots, ObjectSlots, TypeRoom, ObjectRoom, Length
<1> QED BY <1>1, <1>3, <1>5, <1>6, <1>7, <1>8, <1>9, Zenon DEF Published, fresh, zeros, joined

\* The type slots of a published update and their counter.
LEMMA PublishedTypes ==
  ASSUME NEW g, GraphOk(g), NEW u, UpdOk(g, u), TypesCounted(g, u), NEW v, Published(g, u, v)
  PROVE  /\ TypeSlotsOk(v.types, v.identities, v.named_refs)
         /\ v.live.types = Cardinality(LiveTypes(v))
<1>1. PICK n, m \in Nat : n = Length(g.types) /\ m = Length(u.new_identities)
  BY LengthSeq DEF GraphOk, TypeSlotsOk, UpdOk, TypesPart
<1>2. TypeRoom(g, u) = n + m
  BY <1>1 DEF TypeRoom
<1>3. /\ DOMAIN v.types = 1..(n + m) /\ \A h \in 1..(n + m) : v.types[h] = CandidateType(g, u, h)
      /\ v.types = [h \in 1..(n + m) |-> v.types[h]]
      /\ v.named_refs = [h \in 1..(n + m) |-> v.named_refs[h]] /\ DOMAIN v.named_refs = 1..(n + m)
  BY <1>2 DEF Published
<1>4. IsSeq(v.types) /\ Length(v.types) = n + m /\ IsSeq(v.named_refs) /\ Length(v.named_refs) = n + m
  <2>1. PICK t, r : t = v.types /\ r = v.named_refs
    OBVIOUS
  <2>2. /\ DOMAIN t = 1..(n + m) /\ t = [h \in 1..(n + m) |-> t[h]]
        /\ DOMAIN r = 1..(n + m) /\ r = [h \in 1..(n + m) |-> r[h]]
    BY <1>3, <2>1
  <2>3. IsSeq(t) /\ Length(t) = n + m
    BY <2>2, TabulatedSeq
  <2>4. IsSeq(r) /\ Length(r) = n + m
    BY <2>2, TabulatedSeq
  <2> QED BY <2>1, <2>3, <2>4
<1>5. IsSeq(v.identities) /\ Length(v.identities) = n + m
  <2>1. IsSeq(g.identities) /\ Length(g.identities) = n /\ IsSeq(u.new_identities)
    BY <1>1 DEF GraphOk, TypeSlotsOk, UpdOk, TypesPart
  <2>2. v.identities = g.identities \o u.new_identities
    BY DEF Published
  <2> QED BY <1>1, <2>1, <2>2, JoinSeq
<1>6. LiveTypes(v) = LiveTypeSet(g, u)
  <2>1. ASSUME NEW h \in Nat \ {0}, h \notin 1..(n + m) PROVE ~CandidateType(g, u, h).live
    <3>1. h \notin DOMAIN u.types /\ ~(h <= n)
      BY <1>2, <2>1 DEF UpdOk, TypesPart, PatchesWithin
    <3>2. CandidateType(g, u, h) = NoEntry
      BY <1>1, <3>1 DEF CandidateType, Length
    <3> QED BY <3>2 DEF NoEntry
  <2>2. \A h : h \in LiveTypes(v) <=> h \in 1..(n + m) /\ CandidateType(g, u, h).live
    BY <1>3 DEF LiveTypes
  <2>3. \A h : h \in LiveTypeSet(g, u) <=> h \in Nat \ {0} /\ CandidateType(g, u, h).live
    BY DEF LiveTypeSet
  <2>4. 1..(n + m) \subseteq Nat \ {0}
    OBVIOUS
  <2> QED BY <2>1, <2>2, <2>3, <2>4, Zenon
<1>7. v.live.types = Cardinality(LiveTypes(v))
  BY <1>6 DEF Published, TypesCounted, CountOk
<1> QED BY <1>4, <1>5, <1>7 DEF TypeSlotsOk

\* The object slots and their counter.
LEMMA PublishedObjects ==
  ASSUME NEW g, GraphOk(g), NEW u, UpdOk(g, u), NEW v, Published(g, u, v)
  PROVE  /\ ObjectSlotsOk(v.objects, v.object_identities)
         /\ v.live.objects = Cardinality(LiveObjects(v))
<1>1. PICK n, m \in Nat : n = Length(g.objects) /\ m = Length(u.new_object_identities)
  BY LengthSeq DEF GraphOk, ObjectSlotsOk, UpdOk, ObjectsPart
<1>2. ObjectRoom(g, u) = n + m
  BY <1>1 DEF ObjectRoom
<1>3. /\ DOMAIN v.objects = 1..(n + m)
      /\ \A h \in 1..(n + m) : v.objects[h] = CandidateObject(g, u, h)
      /\ v.objects = [h \in 1..(n + m) |-> v.objects[h]]
  BY <1>2 DEF Published
<1>4. IsSeq(v.objects) /\ Length(v.objects) = n + m
  <2>1. PICK q : q = v.objects
    OBVIOUS
  <2>2. DOMAIN q = 1..(n + m) /\ q = [h \in 1..(n + m) |-> q[h]]
    BY <1>3, <2>1
  <2> QED BY <2>1, <2>2, TabulatedSeq
<1>5. IsSeq(v.object_identities) /\ Length(v.object_identities) = n + m
  <2>1. /\ IsSeq(g.object_identities) /\ Length(g.object_identities) = n
        /\ IsSeq(u.new_object_identities)
    BY <1>1 DEF GraphOk, ObjectSlotsOk, UpdOk, ObjectsPart
  <2>2. v.object_identities = g.object_identities \o u.new_object_identities
    BY DEF Published
  <2> QED BY <1>1, <2>1, <2>2, JoinSeq
<1>6. LiveObjects(v) = LiveObjectSet(g, u)
  <2>1. ASSUME NEW h \in Nat \ {0}, h \notin 1..(n + m) PROVE ~CandidateObject(g, u, h).live
    <3>1. h \notin DOMAIN u.objects /\ ~(h <= n)
      BY <1>2, <2>1 DEF UpdOk, ObjectsPart, PatchesWithin
    <3>2. CandidateObject(g, u, h) = NoObject
      BY <1>1, <3>1 DEF CandidateObject, Length
    <3> QED BY <3>2 DEF NoObject
  <2>2. \A h : h \in LiveObjects(v) <=> h \in 1..(n + m) /\ CandidateObject(g, u, h).live
    BY <1>3 DEF LiveObjects
  <2>3. \A h : h \in LiveObjectSet(g, u) <=> h \in Nat \ {0} /\ CandidateObject(g, u, h).live
    BY DEF LiveObjectSet
  <2>4. 1..(n + m) \subseteq Nat \ {0}
    OBVIOUS
  <2> QED BY <2>1, <2>2, <2>3, <2>4
<1>7. v.live.objects = Cardinality(LiveObjects(v))
  BY <1>6 DEF Published, UpdOk, ObjectsPart, CountOk
<1> QED BY <1>4, <1>5, <1>7 DEF ObjectSlotsOk

\* The links and their counter.
LEMMA PublishedLinks ==
  ASSUME NEW g, GraphOk(g), NEW u, UpdOk(g, u), NEW v, Published(g, u, v)
  PROVE  LinksOk(v.links) /\ v.live.links = Cardinality(LiveLinks(v))
<1>1. PICK n, m \in Nat : n = Length(g.links) /\ m = Length(u.new_links)
  BY LengthSeq DEF GraphOk, LinksOk, UpdOk, LinksPart
<1>2. LinkRoom(g, u) = n + m
  BY <1>1 DEF LinkRoom
<1>3. PICK q : q = g.links \o u.new_links
  BY Zenon
<1>4. /\ IsSeq(q) /\ Length(q) = n + m
      /\ \A h \in 1..(n + m) : q[h] = IF h <= n THEN g.links[h] ELSE u.new_links[h - n]
  <2>1. IsSeq(g.links) /\ IsSeq(u.new_links)
    BY DEF GraphOk, LinksOk, UpdOk, LinksPart
  <2> QED BY <1>1, <1>3, <2>1, JoinSeq, Zenon
<1>5. DOMAIN q = 1..(n + m)
  BY <1>4, LengthSeq
<1>6. v.links = [h \in 1..(n + m) |-> Overlaid(q, u.links, h)]
  BY <1>3, <1>5 DEF Published
<1>7. /\ v.links = [h \in 1..(n + m) |-> v.links[h]] /\ DOMAIN v.links = 1..(n + m)
      /\ \A h \in 1..(n + m) : v.links[h] = Overlaid(q, u.links, h)
  BY <1>6
<1>8. IsSeq(v.links) /\ Length(v.links) = n + m
  BY <1>7, TabulatedSeq
<1>9. \A h \in 1..(n + m) : v.links[h] = LinkAt(g, u, h)
  BY <1>1, <1>4, <1>7, Zenon DEF Overlaid, LinkAt
<1>10. ASSUME NEW h \in 1..(n + m) PROVE v.links[h] \in [source : {v.links[h].source}, target : {v.links[h].target}]
  <2>1. PICK x : x = v.links[h]
    OBVIOUS
  <2>2. CASE h \in DOMAIN u.links
    BY <1>9, <2>1, <2>2 DEF LinkAt, UpdOk, LinksPart
  <2>3. CASE h \notin DOMAIN u.links /\ h <= n
    <3>1. h \in 1..n /\ x = g.links[h]
      BY <1>1, <1>9, <2>1, <2>3 DEF LinkAt
    <3> QED BY <1>1, <2>1, <3>1 DEF GraphOk, LinksOk
  <2>4. CASE h \notin DOMAIN u.links /\ ~(h <= n)
    <3>1. h - n \in 1..m /\ x = u.new_links[h - n]
      BY <1>1, <1>9, <2>1, <2>4 DEF LinkAt
    <3> QED BY <1>1, <2>1, <3>1 DEF UpdOk, LinksPart, LinksOk
  <2> QED BY <2>2, <2>3, <2>4
<1>11. LinksOk(v.links)
  BY <1>8, <1>10 DEF LinksOk
<1>12. LiveLinks(v) = LiveLinkSet(g, u)
  BY <1>2, <1>7, <1>9 DEF LiveLinks, LiveLinkSet
<1>13. v.live.links = Cardinality(LiveLinks(v))
  BY <1>12 DEF Published, UpdOk, LinksPart, CountOk
<1> QED BY <1>11, <1>13

\* The records and caches of a published update.
LEMMA PublishedRefs ==
  ASSUME NEW g, GraphOk(g), NEW u, UpdOk(g, u), NEW v, Published(g, u, v)
  PROVE  RefsOk(v.canonical, NamedFn(v.named_refs), v.intrinsic_refs)
<1>1. PICK n, m \in Nat : n = Length(g.types) /\ m = Length(u.new_identities)
  BY LengthSeq DEF GraphOk, TypeSlotsOk, UpdOk, TypesPart
<1>2. TypeRoom(g, u) = n + m
  BY <1>1 DEF TypeRoom
<1>3. PICK fresh : fresh = [i \in DOMAIN u.new_identities |-> 0]
  BY Zenon
<1>4. IsSeq(fresh) /\ Length(fresh) = m /\ DOMAIN fresh = 1..m /\ \A i \in 1..m : fresh[i] = 0
  <2>1. DOMAIN u.new_identities = 1..m
    BY <1>1, LengthSeq DEF UpdOk, TypesPart
  <2>2. DOMAIN fresh = 1..m /\ fresh = [i \in 1..m |-> fresh[i]] /\ \A i \in 1..m : fresh[i] = 0
    BY <1>3, <2>1
  <2> QED BY <2>2, TabulatedSeq
<1>5. IsSeq(g.named_refs) /\ Length(g.named_refs) = n /\ DOMAIN g.named_refs = 1..n
  BY <1>1, LengthSeq DEF GraphOk, TypeSlotsOk
<1>6. PICK q : q = g.named_refs \o fresh
  BY Zenon
<1>7. \A h \in 1..(n + m) : q[h] = IF h <= n THEN g.named_refs[h] ELSE fresh[h - n]
  BY <1>4, <1>5, <1>6, JoinSeq
<1>8. /\ DOMAIN v.named_refs = 1..(n + m)
      /\ \A h \in 1..(n + m) : v.named_refs[h] = Overlaid(q, u.named_refs, h)
  BY <1>2, <1>3, <1>6 DEF Published
<1>9. \A h \in DOMAIN u.named_refs : h \in 1..(n + m)
  BY <1>2 DEF UpdOk, RefsPart, PatchesWithin
<1>10. ASSUME NEW h \in Nat PROVE NamedFn(v.named_refs)[h] = NamedOf(g, u)[h]
  <2>1. CASE h \in 1..(n + m)
    <3>1. NamedFn(v.named_refs)[h] = Overlaid(q, u.named_refs, h)
      BY <1>8, <2>1 DEF NamedFn
    <3>2. CASE h \in DOMAIN u.named_refs
      BY <3>1, <3>2 DEF Overlaid, NamedOf
    <3>3. CASE h \notin DOMAIN u.named_refs /\ h <= n
      <4>1. h \in DOMAIN g.named_refs /\ q[h] = g.named_refs[h]
        BY <1>5, <1>7, <2>1, <3>3
      <4> QED BY <3>1, <3>3, <4>1 DEF Overlaid, NamedOf
    <3>4. CASE h \notin DOMAIN u.named_refs /\ ~(h <= n)
      <4>1. h \notin DOMAIN g.named_refs /\ h - n \in 1..m
        BY <1>5, <2>1, <3>4
      <4>2. q[h] = 0
        BY <1>4, <1>7, <2>1, <3>4, <4>1
      <4> QED BY <3>1, <3>4, <4>1, <4>2 DEF Overlaid, NamedOf
    <3> QED BY <3>2, <3>3, <3>4
  <2>2. CASE h \notin 1..(n + m)
    <3>1. h \notin DOMAIN v.named_refs /\ h \notin DOMAIN u.named_refs /\ h \notin DOMAIN g.named_refs
      BY <1>5, <1>8, <1>9, <2>2
    <3> QED BY <3>1 DEF NamedFn, NamedOf
  <2> QED BY <2>1, <2>2
<1>11. NamedFn(v.named_refs) = NamedOf(g, u)
  <2>1. PICK f, e : f = NamedFn(v.named_refs) /\ e = NamedOf(g, u)
    OBVIOUS
  <2>2. f = [h \in Nat |-> f[h]] /\ e = [h \in Nat |-> e[h]]
    BY <2>1 DEF NamedFn, NamedOf
  <2>3. \A h \in Nat : f[h] = e[h]
    BY <1>10, <2>1
  <2> QED BY <2>1, <2>2, <2>3
<1>12. v.canonical = g.canonical \o u.canonical /\ v.intrinsic_refs = u.intrinsic_refs
  BY DEF Published
<1> QED BY <1>11, <1>12 DEF UpdOk, RefsPart

\* A published update leaves a consistent Graph with exact counters.
LEMMA PublishUpdateOk ==
  ASSUME NEW g, GraphOk(g), NEW u, UpdOk(g, u), TypesCounted(g, u)
  PROVE  GraphOk(PublishUpdate(g, u)) /\ LiveCounted(PublishUpdate(g, u))
<1>1. PICK v : v = PublishUpdate(g, u)
  OBVIOUS
<1>2. Published(g, u, v)
  BY <1>1, PublishedFields
<1>3. /\ TypeSlotsOk(v.types, v.identities, v.named_refs)
      /\ ObjectSlotsOk(v.objects, v.object_identities) /\ LinksOk(v.links)
      /\ RefsOk(v.canonical, NamedFn(v.named_refs), v.intrinsic_refs)
      /\ v.live.types = Cardinality(LiveTypes(v))
      /\ v.live.objects = Cardinality(LiveObjects(v))
      /\ v.live.links = Cardinality(LiveLinks(v))
  BY <1>2, PublishedTypes, PublishedObjects, PublishedLinks, PublishedRefs
<1>4. DOMAIN v = GraphFields /\ LiveShape(v.live)
  BY <1>2 DEF Published, UpdOk
<1>5. GraphOk(v)
  BY <1>3, <1>4 DEF GraphOk
<1>6. LiveCounted(v)
  BY <1>3, <1>4 DEF LiveCounted, LiveShape
<1> QED BY <1>1, <1>5, <1>6

----------------------------------------------------------------------------
(* What every build, save and load keeps true. *)

\* Nothing is live in the empty Graph.
LEMMA EmptyGraphCounted == LiveCounted(EmptyGraph)
<1>1. PICK g : g = EmptyGraph
  OBVIOUS
<1>2. /\ g.types = <<>> /\ g.objects = <<>> /\ g.links = <<>>
      /\ g.live = [types |-> 0, objects |-> 0, links |-> 0]
  BY <1>1 DEF EmptyGraph
<1>3. LiveTypes(g) = {} /\ LiveObjects(g) = {} /\ LiveLinks(g) = {}
  BY <1>2, EmptyDomain DEF LiveTypes, LiveObjects, LiveLinks
<1>4. Cardinality({}) = 0
  BY FS_EmptySet
<1> QED BY <1>1, <1>2, <1>3, <1>4 DEF LiveCounted

\* Opening the saved Graph again changes none of its arrays.
LEMMA ReopenedKeeps ==
  ASSUME NEW g, GraphOk(g), LiveCounted(g)
  PROVE  GraphOk(Reopened(g)) /\ LiveCounted(Reopened(g))
<1>1. PICK v : v = Reopened(g)
  OBVIOUS
<1>2. /\ DOMAIN v = GraphFields
      /\ v.types = g.types /\ v.identities = g.identities /\ v.named_refs = g.named_refs
      /\ v.objects = g.objects /\ v.object_identities = g.object_identities
      /\ v.links = g.links /\ v.canonical = g.canonical /\ v.intrinsic_refs = g.intrinsic_refs
      /\ v.live = g.live
  BY <1>1 DEF Reopened, GraphOk, GraphFields
<1>3. GraphOk(v)
  BY <1>2 DEF GraphOk
<1>4. LiveTypes(v) = LiveTypes(g) /\ LiveObjects(v) = LiveObjects(g) /\ LiveLinks(v) = LiveLinks(g)
  BY <1>2 DEF LiveTypes, LiveObjects, LiveLinks
<1>5. LiveCounted(v)
  BY <1>2, <1>4 DEF LiveCounted
<1> QED BY <1>1, <1>3, <1>5

\* What a prepared update publishes is consistent.
LEMMA PublishedConsistent ==
  ASSUME NEW c, NEW d, NEW g, BaseOk(c, d, g), NEW p, Pass(c, d, g, p)
  PROVE  Consistent(PublishSparse(c, p.c), PublishUpdate(g, p.u))
<1>1. GraphOk(PublishUpdate(g, p.u)) /\ LiveCounted(PublishUpdate(g, p.u))
  BY PublishUpdateOk DEF BaseOk, Pass
<1>2. PICK v, u : v = PublishSparse(c, u) /\ u = p.c
  OBVIOUS
<1>3. CacheOk(c) /\ u.arena = d.arena
  BY <1>2, UpdateOnKeeps DEF BaseOk, Pass, SparseOk
<1>4. v.arena = Joined(c.arena, d.arena)
  BY <1>2, <1>3, PublishSparseIs
<1>5. "types" \in Arenas /\ ArenaSeqs(c.arena) /\ ArenaSeqs(d.arena)
  BY DEF Arenas, CacheOk, BaseOk, SparseOk
<1>6. Length(v.arena["types"]) = TypeRecords(c, d)
  BY <1>4, <1>5, JoinedAt DEF TypeRecords
<1>7. ASSUME NEW h \in DOMAIN v.construction PROVE StateOk(v.construction[h], TypeRecords(c, d))
  <2>1. PICK n : v.construction = [k \in 1..n |-> ConstructionOf(c, u, k)]
    BY <1>2, <1>3, Zenon DEF PublishSparse, CacheOk, CacheShape
  <2>2. v.construction[h] = ConstructionOf(c, u, h)
    BY <1>7, <2>1
  <2>3. StatesIn(TypeRecords(c, d), u.construction)
    BY <1>2 DEF Pass
  <2> QED BY <2>2, <2>3, ConstructionOfOk
<1> QED BY <1>1, <1>2, <1>6, <1>7 DEF Consistent

\* An update that succeeds holds what the new facts say of every Source
\* (replaced, removed, left alone as equivalent, or absent all along) and
\* leaves a consistent Graph.
LEMMA UpdateHolds ==
  ASSUME NEW c, NEW old, DOMAIN old = Sources, \A s \in Present(old) : ValidFacts(old[s]),
         NEW g, Contributes(c, old), Consistent(c, g), NEW fs, DOMAIN fs = Sources,
         \A s \in Present(fs) : ValidFacts(fs[s]), NEW room,
         PrepareIncremental(c, g, Replacements(c, fs), Removals(c, fs), fs, room).status = "ok"
  PROVE  LET p == PrepareIncremental(c, g, Replacements(c, fs), Removals(c, fs), fs, room)
         IN  /\ Contributes(PublishSparse(c, p.c), fs)
             /\ Consistent(PublishSparse(c, p.c), PublishUpdate(g, p.u))
<1> DEFINE R == {s \in Present(fs) : ~Equivalent(c, s, fs[s])}
           V == {s \in Sources \ Present(fs) : c.sources[s] # NoState}
           rep == Replacements(c, fs)
           rem == Removals(c, fs)
           r == Cardinality(R)
           l == Cardinality(V)
           k == r + l
           order == [i \in 1..k |-> IF i <= r THEN rep[i] ELSE rem[i - r]]
<1>1. rep = Ordered(R) /\ rem = Ordered(V)
  BY DEF Replacements, Removals
<1>2. /\ R \in SUBSET Sources /\ V \in SUBSET Sources /\ R \cap V = {}
      /\ \A s \in Sources : s \in R <=> fs[s] # Absent /\ ~Equivalent(c, s, fs[s])
      /\ \A s \in Sources : s \in V <=> fs[s] = Absent /\ c.sources[s] # NoState
  BY DEF Present
<1> HIDE DEF R, V
<1>3. /\ r \in Nat /\ rep \in [1..r -> R]
      /\ \A i, j \in 1..r : rep[i] = rep[j] => i = j
      /\ \A s \in R : \E i \in 1..r : rep[i] = s
  <2> HIDE DEF rep
  <2> QED BY <1>1, <1>2, OrderedLists
<1>4. /\ l \in Nat /\ rem \in [1..l -> V]
      /\ \A i, j \in 1..l : rem[i] = rem[j] => i = j
      /\ \A s \in V : \E i \in 1..l : rem[i] = s
  <2> HIDE DEF rem
  <2> QED BY <1>1, <1>2, OrderedLists
<1> HIDE DEF rep, rem, r, l
<1>5. k \in Nat /\ r \in 0..k /\ k - r = l
  BY <1>3, <1>4
<1>6. /\ \A i \in 1..r : order[i] = rep[i] /\ order[i] \in R
      /\ \A i \in 1..l : order[r + i] = rem[i]
      /\ \A i \in 1..k : i > r => order[i] = rem[i - r] /\ order[i] \in V /\ i - r \in 1..l
  <2>1. ASSUME NEW i \in 1..r PROVE order[i] = rep[i] /\ order[i] \in R
    BY <1>3, <1>4
  <2>2. ASSUME NEW i \in 1..l PROVE order[r + i] = rem[i]
    <3>1. r + i \in 1..k /\ ~(r + i <= r) /\ (r + i) - r = i
      BY <1>3, <1>4
    <3> QED BY <3>1
  <2>3. ASSUME NEW i \in 1..k, i > r
        PROVE  order[i] = rem[i - r] /\ order[i] \in V /\ i - r \in 1..l
    <3>1. i - r \in 1..l /\ ~(i <= r)
      BY <1>3, <1>4, <2>3
    <3> QED BY <1>4, <3>1
  <2> QED BY <2>1, <2>2, <2>3
<1>7. order \in [1..k -> Sources]
  <2>1. ASSUME NEW i \in 1..k PROVE order[i] \in Sources
    <3>1. CASE i <= r
      BY <1>2, <1>3, <1>6, <3>1
    <3>2. CASE i > r
      BY <1>2, <1>6, <3>2
    <3> QED BY <1>3, <3>1, <3>2
  <2>2. order = [i \in 1..k |-> order[i]]
    OBVIOUS
  <2> HIDE DEF order
  <2> QED BY <2>1, <2>2
<1>8. DOMAIN rep = 1..r /\ DOMAIN rem = 1..l
  BY <1>3, <1>4
<1> HIDE DEF order, k
<1>9. \A i, j \in 1..k : order[i] = order[j] => i = j
  <2>1. ASSUME NEW i \in 1..k, NEW j \in 1..k, order[i] = order[j] PROVE i = j
    <3>1. i \in Nat /\ j \in Nat /\ (i <= r => i \in 1..r) /\ (j <= r => j \in 1..r)
      BY <1>3
    <3>2. CASE i <= r /\ j <= r
      BY <1>3, <1>6, <2>1, <3>1, <3>2
    <3>3. CASE i > r /\ j > r
      BY <1>3, <1>4, <1>6, <2>1, <3>1, <3>3
    <3>4. CASE i <= r /\ j > r
      BY <1>2, <1>6, <2>1, <3>1, <3>4
    <3>5. CASE i > r /\ j <= r
      BY <1>2, <1>6, <2>1, <3>1, <3>5
    <3> QED BY <1>3, <3>1, <3>2, <3>3, <3>4, <3>5
  <2> QED BY <2>1
<1>10. \A i \in 1..k : fs[order[i]] # Absent <=> i <= r
  <2>1. ASSUME NEW i \in 1..k PROVE fs[order[i]] # Absent <=> i <= r
    <3>1. CASE i <= r
      <4>1. i \in 1..r
        BY <1>3, <3>1
      <4> QED BY <1>2, <1>6, <1>7, <3>1, <4>1
    <3>2. CASE i > r
      BY <1>2, <1>3, <1>6, <1>7, <3>2
    <3> QED BY <1>3, <3>1, <3>2
  <2> QED BY <2>1
<1>11. \A i \in 1..r : ValidFacts(fs[order[i]])
  BY <1>2, <1>6 DEF Present
<1>12. CacheOk(c)
  BY DEF Contributes
<1>13. PICK d : d = CaptureUpdate(c, g, rep, rem, fs).c
  OBVIOUS
<1>14. Exchanged(c, d, fs, order, r, k)
  <2>1. DOMAIN rem = 1..(k - r) /\ \A i \in 1..(k - r) : rem[i] = order[r + i]
    BY <1>5, <1>6, <1>8
  <2>2. \A i \in 1..r : rep[i] = order[i]
    BY <1>6
  <2> QED BY <1>5, <1>7, <1>8, <1>9, <1>11, <1>12, <1>13, <2>1, <2>2, CaptureUpdateExchanges, Zenon
<1>15. SparseOk(c, d)
  <2>1. ASSUME NEW s \in ToSet(d.changed)
        PROVE  /\ s \in Sources /\ d.sources[s] \in Slices \cup {NoState}
               /\ d.sources[s] # NoState => DeclaresWithin(d.sources[s], TypeRecords(c, d))
    <3>1. PICK i \in 1..k : s = order[i]
      <4>1. DOMAIN d.changed = 1..k
        BY <1>14, SeqShape DEF Exchanged
      <4> QED BY <1>14, <4>1 DEF Exchanged, ToSet
    <3>2. IF i <= r THEN Stored(Joined(c.arena, d.arena), d.sources[order[i]], fs[order[i]])
          ELSE d.sources[order[i]] = NoState
      BY <1>14 DEF Exchanged
    <3>3. s \in Sources /\ d.sources[s] \in Slices \cup {NoState}
      BY <1>7, <3>1, <3>2 DEF Stored
    <3>4. ASSUME d.sources[s] # NoState
          PROVE  DeclaresWithin(d.sources[s], TypeRecords(c, d))
      <4>1. Stored(Joined(c.arena, d.arena), d.sources[s], fs[s])
        BY <3>1, <3>2, <3>4
      <4>2. "types" \in Arenas /\ ArenaSeqs(c.arena) /\ ArenaSeqs(d.arena)
        BY <1>12, <1>14 DEF Arenas, CacheOk, Exchanged
      <4>3. Length(Joined(c.arena, d.arena)["types"]) = TypeRecords(c, d)
        BY <4>2, JoinedAt DEF TypeRecords
      <4>4. d.sources[s]["types"].count = Length(fs[s]["types"])
            /\ d.sources[s]["types"].begin + Length(fs[s]["types"])
                 <= Length(Joined(c.arena, d.arena)["types"])
        BY <4>1, <4>2 DEF Stored
      <4> QED BY <4>3, <4>4 DEF DeclaresWithin
    <3> QED BY <3>3, <3>4
  <2>2. d.construction = <<>>
    BY <1>13, <1>14 DEF Exchanged
  <2> QED BY <1>12, <1>14, <2>1, <2>2 DEF SparseOk, Exchanged
<1>16. BaseOk(c, d, g) /\ LiveCounted(g)
  BY <1>15 DEF BaseOk, Consistent
<1>17. PICK p : p = PrepareIncremental(c, g, rep, rem, fs, room)
  OBVIOUS
<1>18. Pass(c, d, g, p)
  BY <1>13, <1>16, <1>17, PrepareIncrementalPass
<1>19. UpdateOn(d, p)
  BY <1>18 DEF Pass
<1>20. /\ p.c.arena = d.arena /\ p.c.sources = d.sources /\ p.c.changed = d.changed
  BY <1>15, <1>19, UpdateOnKeeps
<1>21. ASSUME NEW s \in Sources, \A i \in 1..k : order[i] # s PROVE Untouched(c, fs, s)
  <2>1. s \notin R /\ s \notin V
    <3>1. s \notin R
      BY <1>3, <1>5, <1>6, <1>21
    <3>2. ASSUME s \in V PROVE FALSE
      <4>1. PICK i \in 1..l : rem[i] = s
        BY <1>4, <3>2
      <4>2. r + i \in 1..k /\ order[r + i] = s
        BY <1>3, <1>4, <1>5, <1>6, <4>1
      <4> QED BY <1>21, <4>2
    <3> QED BY <3>1, <3>2
  <2>2. CASE fs[s] = Absent
    BY <1>2, <2>1, <2>2 DEF Untouched
  <2>3. CASE fs[s] # Absent
    <3>1. Equivalent(c, s, fs[s]) /\ ValidFacts(fs[s])
      BY <1>2, <2>1, <2>3 DEF Present
    <3>2. c.sources[s] # NoState
      BY <3>1 DEF Equivalent
    <3>3. Stored(c.arena, c.sources[s], old[s]) /\ ValidFacts(old[s])
      BY <3>2 DEF Contributes, Present
    <3>4. Stored(c.arena, c.sources[s], fs[s])
      BY <1>12, <3>1, <3>3, EquivalentStored
    <3> QED BY <2>3, <3>4 DEF Untouched
  <2> QED BY <2>2, <2>3
<1>22. Contributes(PublishSparse(c, p.c), fs)
  <2>1. Contributes(PublishSparse(c, d), fs)
    BY <1>5, <1>7, <1>9, <1>10, <1>12, <1>14, <1>21, PublishSparseContributes, Zenon
  <2>2. /\ CacheShape(PublishSparse(c, p.c))
        /\ PublishSparse(c, p.c).arena = Joined(c.arena, d.arena)
        /\ PublishSparse(c, d).arena = Joined(c.arena, d.arena)
    BY <1>12, <1>20, PublishSparseIs
  <2>3. PublishSparse(c, p.c).sources = PublishSparse(c, d).sources
    BY <1>12, <1>20 DEF PublishSparse, CacheOk, CacheShape
  <2>4. PublishSparse(c, p.c).statistics = PublishSparse(c, d).statistics
    <3>1. PreparedStatistics(c, p.c) = PreparedStatistics(c, d)
      BY <1>20 DEF PreparedStatistics
    <3> QED BY <1>12, <3>1, PublishSparseIs
  <2> QED BY <2>1, <2>2, <2>3, <2>4, ContributesKeep
<1>23. Consistent(PublishSparse(c, p.c), PublishUpdate(g, p.u))
  BY <1>16, <1>18, PublishedConsistent
<1> QED BY <1>17, <1>22, <1>23 DEF rep, rem

\* The inductive invariant of the orchestrator's state.
StateInv ==
  /\ facts \in [Sources -> AnyFacts]
  /\ \A s \in Sources : facts[s] \in SourceFacts[s] \cup {Absent}
  /\ GraphOk(graph) /\ LiveCounted(graph)
  /\ cache.complete => Contributes(cache, facts) /\ Consistent(cache, graph)

\* Every delivered contribution passed validate_source_facts.
LEMMA DeliveredValid ==
  ASSUME NEW fs, \A s \in Sources : fs[s] \in SourceFacts[s] \cup {Absent}
  PROVE  \A s \in Present(fs) : ValidFacts(fs[s])
BY FactsAreValid DEF Present

\* The orchestrator starts with an empty Graph and no contributions.
LEMMA StateInitially == Init => StateInv
<1>1. SUFFICES ASSUME Init PROVE StateInv
  OBVIOUS
<1>2. cache.complete = FALSE /\ graph = EmptyGraph
  BY <1>1 DEF Init, EmptyCache
<1>3. GraphOk(EmptyGraph) /\ LiveCounted(EmptyGraph)
  BY EmptyGraphOk, EmptyGraphCounted DEF FullOk
<1>4. Absent \in AnyFacts
  BY DEF AnyFacts
<1>5. facts = [s \in Sources |-> Absent]
  BY <1>1 DEF Init
<1> QED BY <1>2, <1>3, <1>4, <1>5 DEF StateInv

\* A rebuild keeps the invariant: it publishes a full build or nothing.
LEMMA StateRebuilt ==
  ASSUME StateInv, NEW f \in [Sources -> AnyFacts], Rebuild(f)
  PROVE  StateInv'
<1>1. PICK built : built = FullBuild(f, Ordered(Present(f)))
  OBVIOUS
<1>2. /\ \A s \in Sources : f[s] \in SourceFacts[s] \cup {Absent}
      /\ IF built.status = "ok"
         THEN facts' = f /\ cache' = built.cache /\ graph' = built.graph
         ELSE UNCHANGED <<facts, cache, graph>>
  BY <1>1 DEF Rebuild, Delivered
<1>3. CASE built.status = "ok"
  <2>1. \A s \in Present(f) : ValidFacts(f[s])
    BY <1>2, DeliveredValid
  <2>2. Contributes(built.cache, f) /\ Consistent(built.cache, built.graph)
    BY <1>1, <1>3, <2>1, FullBuildHolds
  <2> QED BY <1>2, <1>3, <2>2 DEF StateInv, Consistent
<1>4. CASE built.status # "ok"
  BY <1>2, <1>4 DEF StateInv
<1> QED BY <1>3, <1>4

\* An update keeps the invariant: it publishes both halves of what it prepared
\* or nothing.
LEMMA StateUpdated ==
  ASSUME StateInv, NEW f \in [Sources -> AnyFacts], Update(f)
  PROVE  StateInv'
<1>1. PICK p : p = PrepareIncremental(cache, graph, Replacements(cache, f), Removals(cache, f),
                                      f, capacity)
  OBVIOUS
<1>2. /\ \A s \in Sources : f[s] \in SourceFacts[s] \cup {Absent}
      /\ cache.complete
      /\ IF p.status = "ok"
         THEN facts' = f /\ graph' = PublishUpdate(graph, p.u) /\ cache' = PublishSparse(cache, p.c)
         ELSE UNCHANGED <<facts, graph, cache>>
  BY <1>1 DEF Update, Delivered
<1>3. CASE p.status = "ok"
  <2>1. Contributes(cache, facts) /\ Consistent(cache, graph)
    BY <1>2 DEF StateInv
  <2>2. \A s \in Present(facts) : ValidFacts(facts[s])
    BY DeliveredValid DEF StateInv
  <2>3. \A s \in Present(f) : ValidFacts(f[s])
    BY <1>2, DeliveredValid
  <2>4. DOMAIN f = Sources /\ DOMAIN facts = Sources
    BY DEF StateInv
  <2>5. /\ Contributes(PublishSparse(cache, p.c), f)
        /\ Consistent(PublishSparse(cache, p.c), PublishUpdate(graph, p.u))
    BY <1>1, <1>3, <2>1, <2>2, <2>3, <2>4, UpdateHolds
  <2> QED BY <1>2, <1>3, <2>5 DEF StateInv, Consistent
<1>4. CASE p.status # "ok"
  BY <1>2, <1>4 DEF StateInv
<1> QED BY <1>3, <1>4

\* Saving and loading keeps the invariant.
LEMMA StateReopened ==
  ASSUME StateInv, SaveAndLoad
  PROVE  StateInv'
<1>1. graph' = Reopened(graph) /\ facts' = facts /\ cache' = cache
  BY DEF SaveAndLoad
<1>2. GraphOk(Reopened(graph)) /\ LiveCounted(Reopened(graph))
  BY ReopenedKeeps DEF StateInv
<1> QED BY <1>1, <1>2 DEF StateInv, Consistent

\* After any sequence of rebuilds, updates, saves and loads the cache holds
\* what the facts say, the Graph arrays fit together, the canonical records
\* agree with their caches, the live counters are exact and every construction
\* state points inside the declarations.
THEOREM StateHolds == Spec => []StateInv
<1>1. ASSUME StateInv, [Next]_vars PROVE StateInv'
  <2>1. CASE UNCHANGED vars
    BY <1>1, <2>1 DEF vars, StateInv
  <2> QED BY <1>1, <2>1, StateRebuilt, StateUpdated, StateReopened DEF Next
<1> QED BY <1>1, StateInitially, PTL DEF Spec

\* After any sequence of rebuilds, updates, saves and loads the slices of
\* source_contribution_cache say exactly what the parsed facts of their
\* Sources say, whatever was appended, rebased and left behind as stale before
\* them, and the statistics count exactly the live records.
THEOREM ContributionsHold == Spec => []ContributionsReproduceFacts
<1>1. StateInv => ContributionsReproduceFacts
  <2>1. SUFFICES ASSUME StateInv, cache.complete PROVE ContributionsReproduceFacts
    BY DEF ContributionsReproduceFacts
  <2>2. \A s \in Present(facts) : ValidFacts(facts[s])
    BY <2>1, DeliveredValid DEF StateInv
  <2>3. Contributes(cache, facts) /\ DOMAIN facts = Sources
    BY <2>1 DEF StateInv
  <2> QED BY <2>2, <2>3, ContributesReproduces DEF ContributionsReproduceFacts
<1> QED BY <1>1, StateHolds, PTL

\* After any sequence of rebuilds, updates, saves and loads no TypeRef has two
\* canonical records, neither one committed and one pending nor two pending in
\* one update; a named TypeRef in the cache is the record of its type; and the
\* live counters that prepare_incremental_graph keeps in step are the numbers
\* of live slots.
THEOREM CanonicalHolds == Spec => []CanonicalUnique
<1>1. StateInv => CanonicalUnique
  <2>1. SUFFICES ASSUME StateInv PROVE CanonicalUnique
    OBVIOUS
  <2>2. /\ CanonOk(graph.canonical, NamedFn(graph.named_refs), graph.intrinsic_refs)
        /\ IsSeq(graph.named_refs) /\ IsSeq(graph.canonical)
    BY <2>1 DEF StateInv, GraphOk, RefsOk, TypeSlotsOk, CanonOk
  <2>3. /\ DOMAIN graph.canonical = 1..Length(graph.canonical)
        /\ DOMAIN graph.named_refs = 1..Length(graph.named_refs)
    BY <2>2, LengthSeq
  <2>4. \A i, j \in DOMAIN graph.canonical : graph.canonical[i] = graph.canonical[j] => i = j
    BY <2>2, <2>3 DEF CanonOk
  <2>5. ASSUME NEW h \in DOMAIN graph.named_refs, graph.named_refs[h] # 0
        PROVE  graph.canonical[graph.named_refs[h]] = Named(h)
    <3>1. h \in Nat /\ NamedFn(graph.named_refs)[h] = graph.named_refs[h]
      BY <2>3, <2>5 DEF NamedFn
    <3> QED BY <2>2, <2>5, <3>1 DEF CanonOk
  <2>6. LiveCounted(graph)
    BY <2>1 DEF StateInv
  <2> QED BY <2>4, <2>5, <2>6, Zenon DEF CanonicalUnique, LiveCounted, Named
<1> QED BY <1>1, StateHolds, PTL
============================================================================
