------------------------ MODULE IdentitySpace_proofs ------------------------
(***************************************************************************)
(* IdentitySpace implements the canonical table for any number of threads, *)
(* names, kinds, buckets and slots, over any baseline; conflicts are       *)
(* justified, parents come first, and SAVE finds what was declared.        *)
(***************************************************************************)
EXTENDS IdentitySpace, FiniteSetTheorems, WellFoundedInduction, TLAPS

-----------------------------------------------------------------------------
(* The inductive invariant                                                 *)

Stored == {"head", "walk", "discard", "link", "count"}  \* its record is in its slot
Holds  == Stored \cup {"fill"}                          \* it has a slot of its own

NotInBaseline(key) == \A i \in BaselineSlots : Key(Baseline[i]) # key

(* A ref that a caller may have been given.                                *)
Declared(ref) == ref = Root \/ (\E i \in BaselineSlots : ref = Ref(i)) \/ ref \in Linked

(* Slots are taken in order, beyond the baseline's.                        *)
NextInv ==
    /\ next_slot = 0 <=> FirstSlot = 0
    /\ FirstSlot <= next_slot

(* A linked ref can be read, its identity is not the baseline's, and its   *)
(* scope was declared in a smaller slot.                                   *)
LinkedOK(ref) ==
    /\ published_record(ref)
    /\ FirstSlot <= ref.slot /\ ref.slot < next_slot
    /\ NotInBaseline(Key(record[ref.slot]))
    /\ Declared(record[ref.slot].parent)
    /\ record[ref.slot].parent.slot < ref.slot

(* Every linked ref is sound, hangs in the bucket of its name, and is the  *)
(* only one with its scope and name.                                       *)
LinkedInv ==
    /\ \A ref \in Linked : LinkedOK(ref)
    /\ \A b \in Buckets : \A i \in 1..Len(chain[b]) :
          BucketOf[record[chain[b][i].slot].name] = b
    /\ \A q, r \in Linked : Key(record[q.slot]) = Key(record[r.slot]) => q = r

(* What a thread knows at its position.                                    *)
WantInv(t)  == pc[t] # "idle" =>
                   /\ want[t] \in Records
                   /\ NotInBaseline(Key(want[t]))
                   /\ Declared(want[t].parent)
SlotInv(t)  == pc[t] \in Holds =>
                   /\ FirstSlot # 0
                   /\ FirstSlot <= slot[t] /\ slot[t] < next_slot
                   /\ want[t].parent.slot < slot[t]
StoreInv(t) == pc[t] \in Stored => record[slot[t]] = want[t]
FreshInv(t) == pc[t] \in Holds \ {"count"} => \A ref \in Linked : ref.slot # slot[t]
HeadInv(t)  == pc[t] \in {"walk", "link"} => head[t] <= Len(chain[MyBucket(t)])
MissInv(t)  == pc[t] = "link" =>
                   \A i \in 1..head[t] :
                       Key(record[chain[MyBucket(t)][i].slot]) # Key(want[t])
FoundInv(t) == pc[t] = "discard" =>
                   found[t] \in Linked /\ Key(record[found[t].slot]) = Key(want[t])
CountInv(t) == pc[t] = "count" => MyRef(t) \in Linked

ThreadInv(t) ==
    /\ WantInv(t) /\ SlotInv(t) /\ StoreInv(t) /\ FreshInv(t)
    /\ HeadInv(t) /\ MissInv(t) /\ FoundInv(t) /\ CountInv(t)

(* No two threads have the same slot.                                      *)
OwnSlots ==
    \A t, u \in Threads : pc[t] \in Holds /\ pc[u] \in Holds /\ slot[t] = slot[u] => t = u

(* A record is linked, or the candidate of a call still under way.         *)
NoOrphans ==
    \A s \in DOMAIN record :
        record[s] # Hole =>
            \/ \E t \in Threads : pc[t] \in Stored /\ slot[t] = s
            \/ \E ref \in Linked : ref.slot = s

(* identity_count lags behind the chains by the calls about to count.      *)
Counted ==
    {ref \in Linked : \A t \in Threads : pc[t] = "count" => slot[t] # ref.slot}

CountExact ==
    /\ IsFiniteSet(Counted)
    /\ identity_count = Cardinality(Counted) + (IF Baseline = <<>> THEN 1 ELSE 0)

IndInv ==
    /\ TypeOK
    /\ NextInv
    /\ LinkedInv
    /\ \A t \in Threads : ThreadInv(t)
    /\ OwnSlots
    /\ NoOrphans
    /\ CountExact
    /\ answers \subseteq Table
    /\ RefusalsJustified

-----------------------------------------------------------------------------
(* Constants, refs and the table                                           *)

LEMMA FirstSlotType ==
    /\ FirstSlot \in 0..(MaxSlot + 1)
    /\ FirstSlot # 0 => FirstSlot >= 2 /\ FirstSlot > Len(Baseline)
<1>1. Len(Baseline) \in Nat /\ (Baseline # <<>> => Len(Baseline) >= 1)
  BY SpaceAssumption
<1> QED
  BY <1>1, SpaceAssumption DEF FirstSlot

LEMMA BaselineType ==
    ASSUME NEW i \in BaselineSlots
    PROVE  /\ i \in 2..Len(Baseline) /\ i \in DOMAIN Baseline
           /\ Baseline[i] \in Records
           /\ Key(Baseline[i]) \in Keys
           /\ Ref(i) \in Refs
           /\ Ref(i).slot = i
<1>1. i \in 2..Len(Baseline) /\ i \in DOMAIN Baseline /\ i <= MaxSlot
  BY SpaceAssumption DEF BaselineSlots
<1>2. Baseline[i] \in Records
  BY <1>1, SpaceAssumption DEF BaselineSlots
<1>3. Key(Baseline[i]) \in Keys /\ Baseline[i].kind \in Kinds
  BY <1>2 DEF Records, Key, Keys
<1> QED
  BY <1>1, <1>2, <1>3, SpaceAssumption DEF Ref, Refs

LEMMA RecordType ==
    ASSUME NEW r \in Records
    PROVE  /\ r.parent \in Parents /\ r.name \in Names /\ r.kind \in Kinds
           /\ Key(r) \in Keys /\ Key(r)[1] = r.parent /\ Key(r)[2] = r.name
           /\ r # Hole
           /\ BucketOf[r.name] \in Buckets
BY SpaceAssumption DEF Records, Key, Keys

LEMMA ParentType ==
    ASSUME NEW p \in Parents
    PROVE  p.slot \in Nat
BY SpaceAssumption DEF Parents, Refs, Root

LEMMA RefType ==
    ASSUME NEW r \in Refs
    PROVE  /\ r.slot \in 2..MaxSlot /\ r.slot \in Nat /\ r.kind \in Kinds
           /\ r # NoRef /\ r # Root
BY SpaceAssumption DEF Refs, NoRef, Root

LEMMA RefEqual ==
    ASSUME NEW q \in Refs, NEW r \in Refs, q.slot = r.slot, q.kind = r.kind
    PROVE  q = r
BY DEF Refs

LEMMA KeyEqual ==
    ASSUME NEW q \in Records, NEW r \in Records, Key(q) = Key(r)
    PROVE  q.parent = r.parent /\ q.name = r.name
BY DEF Key

LEMMA LinkedHas ==
    ASSUME TypeOK, NEW ref
    PROVE  ref \in Linked <=> \E b \in Buckets : \E i \in 1..Len(chain[b]) : chain[b][i] = ref
<1>1. \A b \in Buckets : chain[b] \in Seq(Refs) /\ DOMAIN chain[b] = 1..Len(chain[b])
  BY DEF TypeOK
<1> QED
  BY <1>1 DEF Linked

LEMMA LinkedType == ASSUME TypeOK PROVE Linked \subseteq Refs
<1> SUFFICES ASSUME NEW ref \in Linked PROVE ref \in Refs
  OBVIOUS
<1>1. PICK b \in Buckets : \E i \in 1..Len(chain[b]) : chain[b][i] = ref
  BY LinkedHas
<1>2. chain[b] \in Seq(Refs)
  BY DEF TypeOK
<1> QED
  BY <1>1, <1>2

(* The record behind a linked ref.                                         *)
LEMMA LinkedRecord ==
    ASSUME TypeOK, LinkedInv, NEW ref \in Linked
    PROVE  /\ ref \in Refs
           /\ ref.slot \in DOMAIN record
           /\ record[ref.slot] \in Records
           /\ record[ref.slot].kind = ref.kind
           /\ Key(record[ref.slot]) \in Keys
<1>1. ref \in Refs
  BY LinkedType
<1>2. LinkedOK(ref)
  BY DEF LinkedInv
<1>3. ref.slot \in DOMAIN record /\ record[ref.slot] # Hole /\ record[ref.slot].kind = ref.kind
  BY <1>2 DEF LinkedOK, published_record
<1>4. record[ref.slot] \in Records
  BY <1>3 DEF TypeOK
<1> QED
  BY <1>1, <1>3, <1>4, RecordType

LEMMA LinkedUnique ==
    ASSUME TypeOK, LinkedInv, NEW q \in Linked, NEW r \in Linked, q.slot = r.slot
    PROVE  q = r
BY LinkedRecord, RefEqual

LEMMA TableHas ==
    ASSUME TypeOK, LinkedInv, NEW pair
    PROVE  pair \in Table <=> \/ \E i \in BaselineSlots : pair = <<Key(Baseline[i]), Ref(i)>>
                              \/ \E r \in Linked : pair = <<Key(record[r.slot]), r>>
<1>1. \A r \in Linked : published_record(r)
  BY DEF LinkedInv, LinkedOK
<1> QED
  BY <1>1 DEF Table, BaselinePairs

LEMMA TableType == ASSUME TypeOK, LinkedInv PROVE Table \subseteq Keys \X Refs
<1> SUFFICES ASSUME NEW pair \in Table PROVE pair \in Keys \X Refs
  OBVIOUS
<1>1. CASE \E i \in BaselineSlots : pair = <<Key(Baseline[i]), Ref(i)>>
  BY <1>1, BaselineType
<1>2. CASE \E r \in Linked : pair = <<Key(record[r.slot]), r>>
  BY <1>2, LinkedRecord
<1> QED
  BY <1>1, <1>2, TableHas

(* Every declared ref has a slot that was taken.                           *)
LEMMA DeclaredSlot ==
    ASSUME TypeOK, NextInv, LinkedInv, NEW p, Declared(p), next_slot # 0
    PROVE  p.slot \in Nat /\ p.slot < next_slot
<1>0. FirstSlot \in Nat /\ FirstSlot >= 2 /\ FirstSlot > Len(Baseline)
      /\ next_slot \in Nat /\ FirstSlot <= next_slot /\ Len(Baseline) \in Nat
  BY FirstSlotType, SpaceAssumption DEF NextInv, TypeOK
<1>1. CASE p = Root
  BY <1>0, <1>1 DEF Root
<1>2. CASE \E i \in BaselineSlots : p = Ref(i)
  BY <1>0, <1>2, BaselineType
<1>3. CASE p \in Linked
  BY <1>0, <1>3, LinkedRecord, RefType DEF LinkedInv, LinkedOK
<1> QED
  BY <1>1, <1>2, <1>3 DEF Declared

(* An answer names a declared ref.                                         *)
LEMMA ScopesDeclared ==
    ASSUME IndInv, NEW p \in Scopes
    PROVE  Declared(p)
<1>0. TypeOK /\ LinkedInv /\ answers \subseteq Table
  BY DEF IndInv
<1>1. CASE \E pair \in answers : p = pair[2]
  <2>1. PICK pair \in Table : p = pair[2]
    BY <1>0, <1>1
  <2> QED
    BY <1>0, <2>1, TableHas DEF Declared
<1> QED
  BY <1>1 DEF Scopes, Declared

-----------------------------------------------------------------------------
(* What steps leave alone                                                  *)

(* A step of t leaves the other threads' variables alone.                  *)
Others(t) ==
    \A u \in Threads \ {t} :
        /\ pc'[u] = pc[u] /\ want'[u] = want[u] /\ slot'[u] = slot[u]
        /\ head'[u] = head[u] /\ found'[u] = found[u]

(* It writes no record but that of the slot it has to itself.              *)
RecordsKept(t) ==
    \A s \in DOMAIN record :
        record'[s] = record[s] \/ (pc[t] \in Holds \ {"count"} /\ s = slot[t])

(* Chains only grow, by the slot of t.                                     *)
ChainsGrow(t) ==
    /\ \A b \in Buckets : /\ Len(chain[b]) <= Len(chain'[b])
                          /\ \A i \in 1..Len(chain[b]) : chain'[b][i] = chain[b][i]
    /\ Linked \subseteq Linked'
    /\ \A r \in Linked' : r \in Linked \/ (pc[t] \in Holds /\ r.slot = slot[t])

LEMMA StepsAreLocal ==
    ASSUME TypeOK, NEW t \in Threads, Step(t) \/ \E wanted \in Records : Find(t, wanted)
    PROVE  Others(t)
<1> USE DEF TypeOK, Others, Go, Leave
<1>1. CASE LoadSlot(t)         BY <1>1 DEF LoadSlot
<1>2. CASE SlotRefused(t)      BY <1>2 DEF SlotRefused
<1>3. CASE TakeSlot(t)         BY <1>3 DEF TakeSlot
<1>4. CASE TakeSlotFails(t)    BY <1>4 DEF TakeSlotFails
<1>5. CASE Fill(t)             BY <1>5 DEF Fill
<1>6. CASE AllocationFails(t)  BY <1>6 DEF AllocationFails
<1>7. CASE LoadHead(t)         BY <1>7 DEF LoadHead
<1>8. CASE Walk(t)             BY <1>8 DEF Walk
<1>9. CASE Discard(t)          BY <1>9 DEF Discard, Settle
<1>10. CASE Link(t)            BY <1>10 DEF Link
<1>11. CASE LinkFails(t)       BY <1>11 DEF LinkFails
<1>12. CASE Count(t)           BY <1>12 DEF Count, Settle
<1>13. CASE \E wanted \in Records : Find(t, wanted)
  BY <1>13 DEF Find, Settle
<1> QED
  BY <1>1, <1>2, <1>3, <1>4, <1>5, <1>6, <1>7, <1>8, <1>9, <1>10, <1>11, <1>12, <1>13 DEF Step

(* The record of a linked ref is never written again.                      *)
LEMMA LinkedStays ==
    ASSUME IndInv, NEW t \in Threads, RecordsKept(t), NEW r \in Linked
    PROVE  record'[r.slot] = record[r.slot]
<1>1. TypeOK /\ LinkedInv /\ FreshInv(t)
  BY DEF IndInv, ThreadInv
<1>2. r.slot \in DOMAIN record
  BY <1>1, LinkedRecord
<1> QED
  BY <1>1, <1>2 DEF RecordsKept, FreshInv

LEMMA DeclaredStays ==
    ASSUME NEW t, ChainsGrow(t), NEW p, Declared(p)
    PROVE  Declared(p)'
BY DEF Declared, ChainsGrow, Ref, Root

(* What another thread knows stays true.                                   *)
LEMMA StableThread ==
    ASSUME IndInv, NEW t \in Threads, NEW u \in Threads, u # t,
           Others(t), RecordsKept(t), ChainsGrow(t),
           next_slot <= next_slot', next_slot' \in Nat
    PROVE  ThreadInv(u)'
<1>0. TypeOK /\ LinkedInv /\ ThreadInv(u) /\ ThreadInv(t) /\ OwnSlots
  BY DEF IndInv
<1>1. /\ pc'[u] = pc[u] /\ want'[u] = want[u] /\ slot'[u] = slot[u]
      /\ head'[u] = head[u] /\ found'[u] = found[u]
  BY DEF Others
<1>2. WantInv(u)'
  <2>1. CASE pc[u] # "idle"
    <3>1. Declared(want[u].parent)'
      <4>1. PICK p : p = want[u].parent
        OBVIOUS
      <4>2. Declared(p)'
        BY <1>0, <2>1, <4>1, DeclaredStays DEF ThreadInv, WantInv
      <4> QED
        BY <1>1, <4>1, <4>2 DEF Declared
    <3> QED
      BY <1>0, <1>1, <2>1, <3>1 DEF ThreadInv, WantInv, NotInBaseline
  <2> QED
    BY <1>1, <2>1 DEF WantInv
<1>3. SlotInv(u)'
  <2>1. FirstSlot \in Nat /\ slot[u] \in Nat /\ next_slot \in Nat
    BY <1>0, FirstSlotType, SpaceAssumption DEF TypeOK
  <2> QED
    BY <1>0, <1>1, <2>1 DEF ThreadInv, SlotInv
<1>4. StoreInv(u)'
  <2>1. CASE pc[u] \in Stored
    <3>1. record[slot[u]] = want[u] /\ want[u] \in Records /\ slot[u] \in Nat
      BY <1>0, <2>1 DEF ThreadInv, StoreInv, WantInv, Stored, TypeOK
    <3>2. slot[u] \in DOMAIN record
      <4>1. FirstSlot # 0 /\ FirstSlot <= slot[u] /\ slot[u] < next_slot
        BY <1>0, <2>1 DEF ThreadInv, SlotInv, Holds
      <4> QED
        BY <1>0, <3>1, <4>1, FirstSlotType, SpaceAssumption DEF TypeOK
    <3>3. record'[slot[u]] = record[slot[u]]
      BY <1>0, <2>1, <3>2 DEF RecordsKept, OwnSlots, Holds
    <3> QED
      BY <1>1, <3>1, <3>3 DEF StoreInv
  <2> QED
    BY <1>1, <2>1 DEF StoreInv
<1>5. FreshInv(u)'
  <2>1. CASE pc[u] \in Holds \ {"count"}
    <3>1. ASSUME NEW r \in Linked' PROVE r.slot # slot[u]
      <4>1. CASE r \in Linked
        BY <1>0, <2>1, <4>1 DEF ThreadInv, FreshInv
      <4>2. CASE pc[t] \in Holds /\ r.slot = slot[t]
        BY <1>0, <2>1, <4>2 DEF OwnSlots
      <4> QED
        BY <3>1, <4>1, <4>2 DEF ChainsGrow
    <3> QED
      BY <1>1, <3>1 DEF FreshInv
  <2> QED
    BY <1>1, <2>1 DEF FreshInv
<1>6. MyBucket(u)' = MyBucket(u)
  BY <1>1 DEF MyBucket
<1>7. CASE pc[u] \in {"walk", "link"}
  <2>1. PICK b \in Buckets : b = MyBucket(u)
    BY <1>0, <1>7, RecordType DEF ThreadInv, WantInv, MyBucket
  <2>2. /\ chain[b] \in Seq(Refs) /\ Len(chain[b]) \in Nat /\ head[u] \in Nat
        /\ Len(chain[b]) <= Len(chain'[b])
        /\ \A i \in 1..Len(chain[b]) : chain'[b][i] = chain[b][i]
    BY <1>0 DEF TypeOK, ChainsGrow
  <2>3. head[u] <= Len(chain[b])
    BY <1>0, <1>7, <2>1 DEF ThreadInv, HeadInv
  <2>4. HeadInv(u)'
    BY <1>1, <1>6, <2>1, <2>2, <2>3 DEF HeadInv
  <2>5. ASSUME NEW i \in 1..head[u], pc[u] = "link"
        PROVE  Key(record'[chain'[b][i].slot]) # Key(want[u])
    <3>1. i \in 1..Len(chain[b])
      BY <2>2, <2>3
    <3>2. PICK r \in Linked : r = chain[b][i]
      BY <1>0, <3>1, LinkedHas
    <3>3. record'[r.slot] = record[r.slot]
      BY LinkedStays
    <3> QED
      BY <1>0, <2>1, <2>2, <2>5, <3>1, <3>2, <3>3 DEF ThreadInv, MissInv
  <2>6. MissInv(u)'
    BY <1>1, <1>6, <2>1, <2>5 DEF MissInv, Key
  <2>7. FoundInv(u)' /\ CountInv(u)'
    BY <1>1, <1>7 DEF FoundInv, CountInv
  <2> QED
    BY <1>2, <1>3, <1>4, <1>5, <2>4, <2>6, <2>7 DEF ThreadInv
<1>8. CASE pc[u] \notin {"walk", "link"}
  <2>1. HeadInv(u)' /\ MissInv(u)'
    BY <1>1, <1>8 DEF HeadInv, MissInv
  <2>2. FoundInv(u)'
    <3>1. CASE pc[u] = "discard"
      <4>1. PICK r \in Linked : r = found[u]
        BY <1>0, <3>1 DEF ThreadInv, FoundInv
      <4>2. record'[r.slot] = record[r.slot] /\ r \in Linked'
        BY LinkedStays DEF ChainsGrow
      <4>3. Key(record[r.slot]) = Key(want[u])
        BY <1>0, <3>1, <4>1 DEF ThreadInv, FoundInv
      <4> QED
        BY <1>1, <4>1, <4>2, <4>3 DEF FoundInv, Key
    <3> QED
      BY <1>1, <3>1 DEF FoundInv
  <2>3. CountInv(u)'
    <3>1. MyRef(u)' = MyRef(u)
      BY <1>1 DEF MyRef
    <3> QED
      BY <1>0, <1>1, <3>1 DEF ThreadInv, CountInv, ChainsGrow
  <2> QED
    BY <1>2, <1>3, <1>4, <1>5, <2>1, <2>2, <2>3 DEF ThreadInv
<1> QED
  BY <1>7, <1>8

LEMMA ChainsStay ==
    ASSUME TypeOK, chain' = chain, NEW t
    PROVE  ChainsGrow(t) /\ Linked' = Linked
<1>1. Linked' = Linked
  BY DEF Linked
<1>2. \A b \in Buckets : Len(chain[b]) \in Nat
  BY DEF TypeOK
<1> QED
  BY <1>1, <1>2 DEF ChainsGrow

(* A step that links nothing leaves the linked refs sound and the table    *)
(* as it was.                                                              *)
LEMMA LinkedKept ==
    ASSUME IndInv, NEW t \in Threads, RecordsKept(t), chain' = chain, DOMAIN record' = DOMAIN record,
           next_slot <= next_slot', next_slot' \in Nat
    PROVE  LinkedInv' /\ Table' = Table
<1>0. TypeOK /\ LinkedInv
  BY DEF IndInv
<1>1. Linked' = Linked /\ ChainsGrow(t)
  BY <1>0, ChainsStay
<1>2. \A r \in Linked : record'[r.slot] = record[r.slot]
  BY LinkedStays
<1>3. ASSUME NEW r \in Linked PROVE LinkedOK(r)'
  <2>1. LinkedOK(r) /\ r.slot \in Nat /\ next_slot \in Nat
    BY <1>0, LinkedRecord, RefType DEF LinkedInv, TypeOK
  <2>2. PICK rec : rec = record[r.slot]
    OBVIOUS
  <2>3. record'[r.slot] = rec
    BY <1>2, <2>2
  <2>4. Declared(rec.parent)'
    BY <1>1, <2>1, <2>2, DeclaredStays DEF LinkedOK
  <2>5. Declared(record[r.slot].parent)'
    BY <2>3, <2>4 DEF Declared
  <2>6. published_record(r)' /\ NotInBaseline(Key(record[r.slot]))'
    BY <2>1, <2>2, <2>3 DEF LinkedOK, published_record, NotInBaseline, Key
  <2>7. FirstSlot <= r.slot /\ r.slot < next_slot' /\ rec.parent.slot < r.slot
    BY <2>1, <2>2 DEF LinkedOK
  <2> QED
    BY <2>3, <2>5, <2>6, <2>7 DEF LinkedOK
<1>4. ASSUME NEW b \in Buckets, NEW i \in 1..Len(chain[b])
      PROVE  BucketOf[record'[chain[b][i].slot].name] = b
  <2>1. PICK r \in Linked : r = chain[b][i]
    BY <1>0, LinkedHas
  <2> QED
    BY <1>0, <1>2, <2>1 DEF LinkedInv
<1>5. ASSUME NEW q \in Linked, NEW r \in Linked, Key(record[q.slot])' = Key(record[r.slot])'
      PROVE  q = r
  <2>1. Key(record[q.slot]) = Key(record[r.slot])
    BY <1>2, <1>5 DEF Key
  <2> QED
    BY <1>0, <2>1 DEF LinkedInv
<1>6. LinkedInv'
  BY <1>1, <1>3, <1>4, <1>5 DEF LinkedInv
<1>7. Table' = Table
  <2>1. \A r \in Linked : published_record(r) /\ published_record(r)'
    BY <1>0, <1>3 DEF LinkedInv, LinkedOK
  <2>2. \A r \in Linked : Key(record[r.slot])' = Key(record[r.slot])
    BY <1>2 DEF Key
  <2> QED
    BY <1>1, <2>1, <2>2 DEF Table, BaselinePairs, Key, Ref
<1> QED
  BY <1>6, <1>7

(* The parts of the invariant that a step of t which links nothing, counts *)
(* nothing and takes no slot cannot disturb.                               *)
LEMMA StepKeeps ==
    ASSUME IndInv, NEW t \in Threads, Others(t), RecordsKept(t), chain' = chain, TypeOK',
           next_slot <= next_slot',
           FirstSlot = 0 => next_slot' = 0,
           pc[t] # "count", pc'[t] # "count", identity_count' = identity_count,
           \A s \in DOMAIN record : record'[s] # Hole => 
               \/ record[s] # Hole /\ (pc[t] \in Stored /\ s = slot[t] => pc'[t] \in Stored /\ slot'[t] = s)
               \/ pc'[t] \in Stored /\ slot'[t] = s,
           ThreadInv(t)',
           OwnSlots'
    PROVE  /\ NextInv' /\ LinkedInv' /\ NoOrphans' /\ CountExact'
           /\ \A u \in Threads : ThreadInv(u)'
           /\ Table' = Table
<1>0. TypeOK /\ NextInv /\ LinkedInv /\ NoOrphans /\ CountExact
      /\ DOMAIN record = DOMAIN record'
      /\ next_slot \in Nat /\ next_slot' \in Nat /\ FirstSlot \in Nat
  BY FirstSlotType, SpaceAssumption DEF IndInv, TypeOK
<1>1. Linked' = Linked /\ ChainsGrow(t)
  BY <1>0, ChainsStay
<1>2. LinkedInv' /\ Table' = Table
  BY <1>0, LinkedKept
<1>3. \A u \in Threads : ThreadInv(u)'
  BY <1>0, <1>1, StableThread
<1>4. NextInv'
  BY <1>0 DEF NextInv
<1>5. NoOrphans'
  <2> SUFFICES ASSUME NEW s \in DOMAIN record, record'[s] # Hole
               PROVE  \/ \E u \in Threads : pc'[u] \in Stored /\ slot'[u] = s
                      \/ \E r \in Linked : r.slot = s
    BY <1>0, <1>1 DEF NoOrphans
  <2>1. CASE pc'[t] \in Stored /\ slot'[t] = s
    BY <2>1
  <2>2. CASE record[s] # Hole /\ (pc[t] \in Stored /\ s = slot[t] => pc'[t] \in Stored /\ slot'[t] = s)
    <3>1. CASE \E r \in Linked : r.slot = s
      BY <3>1
    <3>2. ASSUME NEW u \in Threads, pc[u] \in Stored, slot[u] = s
          PROVE  pc'[u] \in Stored /\ slot'[u] = s
      BY <2>2, <3>2 DEF Others
    <3> QED
      BY <1>0, <2>2, <3>1, <3>2 DEF NoOrphans
  <2> QED
    BY <2>1, <2>2
<1>6. CountExact'
  <2>1. \A u \in Threads : (pc'[u] = "count" <=> pc[u] = "count") /\ (pc[u] = "count" => slot'[u] = slot[u])
    BY DEF Others
  <2>2. Counted' = Counted
    BY <1>1, <2>1 DEF Counted
  <2> QED
    BY <1>0, <2>2 DEF CountExact
<1> QED
  BY <1>2, <1>3, <1>4, <1>5, <1>6

(* A step that takes no slot takes nobody else's.                          *)
LEMMA OwnSlotsKept ==
    ASSUME IndInv, NEW t \in Threads, Others(t),
           pc'[t] \in Holds => pc[t] \in Holds /\ slot'[t] = slot[t]
    PROVE  OwnSlots'
<1>1. \A u \in Threads : pc'[u] \in Holds => pc[u] \in Holds /\ slot'[u] = slot[u]
  BY DEF Others
<1> QED
  BY <1>1 DEF IndInv, OwnSlots

(* A conflict stays justified as long as the table stays.                  *)
LEMMA RefusalsStay ==
    ASSUME IndInv, Table' = Table, conflicts' = conflicts, broken' = broken
    PROVE  RefusalsJustified'
BY DEF IndInv, RefusalsJustified, Key

-----------------------------------------------------------------------------
(* The steps of one thread                                                 *)

LEMMA LeaveKnows ==
    ASSUME TypeOK, NEW t \in Threads, Leave(t)
    PROVE  /\ pc'[t] = "idle" /\ ThreadInv(t)'
           /\ pc' \in [Threads -> {"idle", "slot", "take", "fill", "head", "walk", "discard",
                                   "link", "count"}]
           /\ want' \in [Threads -> Records \cup {Hole}]
           /\ slot' \in [Threads -> 0..(MaxSlot + 1)]
           /\ head' \in [Threads -> Nat]
           /\ found' \in [Threads -> Refs \cup {NoRef}]
<1>1. pc'[t] = "idle"
  BY DEF TypeOK, Leave, Go
<1>2. ThreadInv(t)'
  BY <1>1 DEF ThreadInv, WantInv, SlotInv, StoreInv, FreshInv, HeadInv, MissInv, FoundInv,
     CountInv, Holds, Stored
<1>3. slot' \in [Threads -> 0..(MaxSlot + 1)]
  BY SpaceAssumption DEF TypeOK, Leave
<1> QED
  BY <1>1, <1>2, <1>3 DEF TypeOK, Leave, Go

(* A step that changes no shared variable.                                 *)
LEMMA LocalKeeps ==
    ASSUME IndInv, NEW t \in Threads, Others(t), UNCHANGED sharedVars, UNCHANGED resultVars,
           TypeOK', ThreadInv(t)',
           pc[t] # "count", pc'[t] # "count",
           pc'[t] \in Holds => pc[t] \in Holds /\ slot'[t] = slot[t],
           pc[t] \in Stored => pc'[t] \in Stored
    PROVE  IndInv' /\ Table' = Table
<1>0. /\ next_slot' = next_slot /\ identity_count' = identity_count /\ record' = record
      /\ chain' = chain /\ answers' = answers /\ conflicts' = conflicts /\ broken' = broken
  BY DEF sharedVars, resultVars
<1>1. OwnSlots'
  BY OwnSlotsKept
<1>2. RecordsKept(t)
  BY <1>0 DEF RecordsKept
<1>3. TypeOK /\ NextInv /\ next_slot \in Nat /\ next_slot <= next_slot'
  BY <1>0 DEF IndInv, TypeOK
<1>4. \A s \in DOMAIN record : record'[s] # Hole =>
          \/ record[s] # Hole /\ (pc[t] \in Stored /\ s = slot[t] => pc'[t] \in Stored /\ slot'[t] = s)
          \/ pc'[t] \in Stored /\ slot'[t] = s
  BY <1>0 DEF Holds
<1>5. FirstSlot = 0 => next_slot' = 0
  BY <1>0, <1>3 DEF NextInv
<1>6. /\ NextInv' /\ LinkedInv' /\ NoOrphans' /\ CountExact'
      /\ \A u \in Threads : ThreadInv(u)'
      /\ Table' = Table
  BY <1>0, <1>1, <1>2, <1>3, <1>4, <1>5, StepKeeps
<1>7. RefusalsJustified' /\ answers' \subseteq Table'
  BY <1>0, <1>6, RefusalsStay DEF IndInv
<1> QED
  BY <1>1, <1>6, <1>7 DEF IndInv

LEMMA LoadSlotKeeps ==
    ASSUME IndInv, NEW t \in Threads, LoadSlot(t)
    PROVE  IndInv' /\ Table' = Table /\ answers' = answers
<1>0. /\ TypeOK /\ ThreadInv(t) /\ pc[t] = "slot" /\ UNCHANGED <<sharedVars, resultVars, want, head, found>>
      /\ slot' = [slot EXCEPT ![t] = next_slot] /\ pc' = [pc EXCEPT ![t] = "take"]
  BY DEF IndInv, LoadSlot, Go
<1>1. /\ next_slot' = next_slot /\ identity_count' = identity_count /\ record' = record
      /\ chain' = chain /\ draws' = draws /\ answers' = answers /\ conflicts' = conflicts
      /\ broken' = broken
  BY <1>0 DEF sharedVars, resultVars
<1>2. TypeOK' /\ pc'[t] = "take"
  BY <1>0, <1>1 DEF TypeOK
<1>3. ThreadInv(t)'
  <2>1. Linked' = Linked
    BY <1>1 DEF Linked
  <2>2. WantInv(t)'
    BY <1>0, <1>2, <2>1 DEF ThreadInv, WantInv, NotInBaseline, Declared
  <2> QED
    BY <1>2, <2>2 DEF ThreadInv, SlotInv, StoreInv, FreshInv, HeadInv, MissInv, FoundInv,
       CountInv, Holds, Stored
<1>4. Others(t)
  BY <1>0, StepsAreLocal DEF Step
<1> QED
  BY <1>0, <1>1, <1>2, <1>3, <1>4, LocalKeeps DEF Holds, Stored

LEMMA TakeSlotFailsKeeps ==
    ASSUME IndInv, NEW t \in Threads, TakeSlotFails(t)
    PROVE  IndInv' /\ Table' = Table /\ answers' = answers
<1>0. /\ TypeOK /\ ThreadInv(t) /\ pc[t] = "take" /\ UNCHANGED <<sharedVars, resultVars, pc, want, head, found>>
      /\ slot' = [slot EXCEPT ![t] = next_slot]
  BY DEF IndInv, TakeSlotFails
<1>1. /\ next_slot' = next_slot /\ identity_count' = identity_count /\ record' = record
      /\ chain' = chain /\ draws' = draws /\ answers' = answers /\ conflicts' = conflicts
      /\ broken' = broken
  BY <1>0 DEF sharedVars, resultVars
<1>2. TypeOK' /\ pc'[t] = "take"
  BY <1>0, <1>1 DEF TypeOK
<1>3. ThreadInv(t)'
  <2>1. Linked' = Linked
    BY <1>1 DEF Linked
  <2>2. WantInv(t)'
    BY <1>0, <1>2, <2>1 DEF ThreadInv, WantInv, NotInBaseline, Declared
  <2> QED
    BY <1>2, <2>2 DEF ThreadInv, SlotInv, StoreInv, FreshInv, HeadInv, MissInv, FoundInv,
       CountInv, Holds, Stored
<1>4. Others(t)
  BY <1>0, StepsAreLocal DEF Step
<1> QED
  BY <1>0, <1>1, <1>2, <1>3, <1>4, LocalKeeps DEF Holds, Stored

(* A call that gives up before it has stored its record.                   *)
LEMMA GiveUpKeeps ==
    ASSUME IndInv, NEW t \in Threads, SlotRefused(t) \/ AllocationFails(t)
    PROVE  IndInv' /\ Table' = Table /\ answers' = answers
<1>0. /\ TypeOK /\ pc[t] \in {"slot", "take", "fill"} /\ Leave(t) /\ UNCHANGED <<sharedVars, resultVars>>
  BY DEF IndInv, SlotRefused, AllocationFails
<1>1. /\ next_slot' = next_slot /\ identity_count' = identity_count /\ record' = record
      /\ chain' = chain /\ draws' = draws /\ answers' = answers /\ conflicts' = conflicts
      /\ broken' = broken
  BY <1>0 DEF sharedVars, resultVars
<1>2. pc'[t] = "idle" /\ ThreadInv(t)' /\ TypeOK'
  <2>1. pc'[t] = "idle" /\ ThreadInv(t)'
    BY <1>0, LeaveKnows
  <2>2. TypeOK'
    BY <1>0, <1>1, LeaveKnows DEF TypeOK
  <2> QED
    BY <2>1, <2>2
<1>3. Others(t)
  BY <1>0, StepsAreLocal DEF Step
<1> QED
  BY <1>0, <1>1, <1>2, <1>3, LocalKeeps DEF Holds, Stored

(* A head that is loaded is a length the chain had.                        *)
LEMMA HeadKeeps ==
    ASSUME IndInv, NEW t \in Threads, LoadHead(t) \/ LinkFails(t)
    PROVE  IndInv' /\ Table' = Table /\ answers' = answers
<1>0. /\ TypeOK /\ ThreadInv(t) /\ pc[t] \in {"head", "link"}
      /\ UNCHANGED <<sharedVars, resultVars, want, slot, found>>
      /\ head' = [head EXCEPT ![t] = Len(chain[MyBucket(t)])] /\ pc' = [pc EXCEPT ![t] = "walk"]
  BY DEF IndInv, LoadHead, LinkFails, Go
<1>1. /\ next_slot' = next_slot /\ identity_count' = identity_count /\ record' = record
      /\ chain' = chain /\ draws' = draws /\ answers' = answers /\ conflicts' = conflicts
      /\ broken' = broken
  BY <1>0 DEF sharedVars, resultVars
<1>2. PICK b \in Buckets : b = MyBucket(t)
  BY <1>0, RecordType DEF ThreadInv, WantInv, MyBucket
<1>3. Len(chain[b]) \in Nat
  BY <1>0 DEF TypeOK
<1>4. TypeOK' /\ pc'[t] = "walk" /\ head'[t] = Len(chain[b])
  BY <1>0, <1>1, <1>2, <1>3 DEF TypeOK
<1>5. ThreadInv(t)'
  <2>1. Linked' = Linked
    BY <1>1 DEF Linked
  <2>2. WantInv(t)'
    BY <1>0, <1>4, <2>1 DEF ThreadInv, WantInv, NotInBaseline, Declared
  <2>3. SlotInv(t)' /\ StoreInv(t)' /\ FreshInv(t)'
    BY <1>0, <1>1, <1>4, <2>1 DEF ThreadInv, SlotInv, StoreInv, FreshInv, Holds, Stored
  <2>4. HeadInv(t)'
    <3>1. MyBucket(t)' = b
      BY <1>0, <1>2 DEF MyBucket
    <3> QED
      BY <1>1, <1>3, <1>4, <3>1 DEF HeadInv
  <2> QED
    BY <1>4, <2>2, <2>3, <2>4 DEF ThreadInv, MissInv, FoundInv, CountInv
<1>6. Others(t)
  BY <1>0, StepsAreLocal DEF Step
<1> QED
  BY <1>0, <1>1, <1>4, <1>5, <1>6, LocalKeeps DEF Holds, Stored

(* The slot a compare-exchange takes is nobody's, and lies beyond that of  *)
(* every identity declared so far.                                         *)
LEMMA TakeSlotKeeps ==
    ASSUME IndInv, NEW t \in Threads, TakeSlot(t)
    PROVE  IndInv' /\ Table' = Table /\ answers' = answers
<1>0. /\ TypeOK /\ NextInv /\ LinkedInv /\ ThreadInv(t) /\ pc[t] = "take"
      /\ slot[t] # 0 /\ slot[t] <= MaxSlot /\ next_slot = slot[t]
      /\ draws < MaxDraws /\ draws' = draws + 1
      /\ next_slot' = slot[t] + 1 /\ pc' = [pc EXCEPT ![t] = "fill"]
      /\ UNCHANGED <<identity_count, record, chain, answers, conflicts, broken, want, slot, head, found>>
  BY DEF IndInv, TakeSlot, Go, resultVars
<1>1. Others(t)
  BY <1>0, StepsAreLocal DEF Step
<1>2. FirstSlot \in Nat /\ next_slot \in Nat /\ slot[t] \in Nat /\ MaxSlot \in Nat /\ draws \in Nat
      /\ MaxDraws \in Nat
  BY <1>0, FirstSlotType, SpaceAssumption DEF TypeOK
<1>3. TypeOK' /\ pc'[t] = "fill"
  <2>1. next_slot' \in 0..(MaxSlot + 1) /\ draws' \in 0..MaxDraws
    BY <1>0, <1>2
  <2> QED
    BY <1>0, <2>1 DEF TypeOK
<1>4. next_slot <= next_slot' /\ next_slot' \in Nat /\ FirstSlot # 0
  BY <1>0, <1>2 DEF NextInv
<1>5. RecordsKept(t) /\ Linked' = Linked
  BY <1>0 DEF RecordsKept, Linked
<1>6. ASSUME NEW u \in Threads, pc[u] \in Holds
      PROVE  slot[u] # slot[t]
  <2>1. SlotInv(u) /\ slot[u] \in Nat
    BY DEF IndInv, ThreadInv, TypeOK
  <2> QED
    BY <1>0, <1>2, <1>6, <2>1 DEF SlotInv
<1>7. OwnSlots'
  <2> SUFFICES ASSUME NEW u \in Threads, NEW v \in Threads,
                      pc'[u] \in Holds, pc'[v] \in Holds, slot'[u] = slot'[v]
               PROVE  u = v
    BY DEF OwnSlots
  <2>1. CASE u # t /\ v # t
    BY <1>1, <2>1 DEF Others, IndInv, OwnSlots
  <2>2. CASE u = t /\ v # t
    BY <1>0, <1>1, <1>6, <2>2 DEF Others
  <2>3. CASE u # t /\ v = t
    BY <1>0, <1>1, <1>6, <2>3 DEF Others
  <2> QED
    BY <2>1, <2>2, <2>3
<1>8. ThreadInv(t)'
  <2>1. WantInv(t)'
    BY <1>0, <1>3, <1>5 DEF ThreadInv, WantInv, NotInBaseline, Declared
  <2>2. SlotInv(t)'
    <3>1. Declared(want[t].parent) /\ next_slot # 0
      BY <1>0 DEF ThreadInv, WantInv
    <3>2. want[t].parent.slot < slot[t]
      BY <1>0, <3>1, DeclaredSlot
    <3> QED
      BY <1>0, <1>2, <1>4, <3>2 DEF SlotInv, NextInv
  <2>3. FreshInv(t)'
    <3>1. ASSUME NEW r \in Linked PROVE r.slot # slot[t]
      <4>1. r.slot < next_slot /\ r.slot \in Nat
        BY <1>0, LinkedRecord, RefType DEF LinkedInv, LinkedOK
      <4> QED
        BY <1>0, <1>2, <4>1
    <3> QED
      BY <1>0, <1>5, <3>1 DEF FreshInv
  <2> QED
    BY <1>3, <2>1, <2>2, <2>3 DEF ThreadInv, StoreInv, HeadInv, MissInv, FoundInv, CountInv, Stored
<1>9. /\ NextInv' /\ LinkedInv' /\ NoOrphans' /\ CountExact'
      /\ \A u \in Threads : ThreadInv(u)'
      /\ Table' = Table
  <2>1. \A s \in DOMAIN record : record'[s] # Hole =>
          \/ record[s] # Hole /\ (pc[t] \in Stored /\ s = slot[t] => pc'[t] \in Stored /\ slot'[t] = s)
          \/ pc'[t] \in Stored /\ slot'[t] = s
    BY <1>0 DEF Stored
  <2> QED
    BY <1>0, <1>1, <1>3, <1>4, <1>5, <1>7, <1>8, <2>1, StepKeeps
<1>10. RefusalsJustified' /\ answers' \subseteq Table'
  BY <1>0, <1>9, RefusalsStay DEF IndInv
<1> QED
  BY <1>0, <1>3, <1>7, <1>9, <1>10 DEF IndInv

(* A thread's own slot lies in the pages.                                  *)
LEMMA HeldSlot ==
    ASSUME IndInv, NEW t \in Threads, pc[t] \in Holds
    PROVE  /\ slot[t] \in 2..MaxSlot /\ slot[t] \in DOMAIN record
           /\ slot[t] > Len(Baseline)
           /\ want[t] \in Records /\ MyBucket(t) \in Buckets
           /\ MyRef(t) \in Refs /\ MyRef(t).slot = slot[t] /\ MyRef(t).kind = want[t].kind
<1>0. TypeOK /\ SlotInv(t) /\ WantInv(t)
  BY DEF IndInv, ThreadInv
<1>1. slot[t] \in Nat /\ next_slot \in 0..(MaxSlot + 1) /\ FirstSlot \in Nat /\ FirstSlot # 0
      /\ FirstSlot <= slot[t] /\ slot[t] < next_slot /\ Len(Baseline) \in Nat /\ MaxSlot \in Nat
  BY <1>0, FirstSlotType, SpaceAssumption DEF TypeOK, SlotInv
<1>2. slot[t] \in 2..MaxSlot /\ slot[t] > Len(Baseline)
  BY <1>1, FirstSlotType
<1>3. slot[t] \in DOMAIN record
  BY <1>0, <1>1, <1>2, SpaceAssumption DEF TypeOK
<1>4. want[t] \in Records
  BY <1>0 DEF WantInv, Holds, Stored
<1>5. want[t].kind \in Kinds /\ MyBucket(t) \in Buckets
  BY <1>4, RecordType DEF MyBucket
<1> QED
  BY <1>2, <1>3, <1>4, <1>5 DEF MyRef, Refs

LEMMA FillKeeps ==
    ASSUME IndInv, NEW t \in Threads, Fill(t)
    PROVE  IndInv' /\ Table' = Table /\ answers' = answers
<1>0. /\ TypeOK /\ NextInv /\ ThreadInv(t) /\ pc[t] = "fill"
      /\ record' = [record EXCEPT ![slot[t]] = want[t]] /\ pc' = [pc EXCEPT ![t] = "head"]
      /\ UNCHANGED <<next_slot, identity_count, chain, draws, answers, conflicts, broken, want, slot, head, found>>
  BY DEF IndInv, Fill, Go, resultVars
<1>1. Others(t)
  BY <1>0, StepsAreLocal DEF Step
<1>2. slot[t] \in DOMAIN record /\ want[t] \in Records
  BY <1>0, HeldSlot DEF Holds
<1>3. TypeOK' /\ pc'[t] = "head" /\ record'[slot[t]] = want[t] /\ next_slot \in Nat
      /\ next_slot <= next_slot'
  BY <1>0, <1>2 DEF TypeOK
<1>4. RecordsKept(t) /\ Linked' = Linked
  BY <1>0 DEF RecordsKept, Linked, Holds
<1>5. OwnSlots'
  BY <1>0, <1>1, OwnSlotsKept DEF Holds
<1>6. ThreadInv(t)'
  <2>1. WantInv(t)'
    BY <1>0, <1>3, <1>4 DEF ThreadInv, WantInv, NotInBaseline, Declared
  <2>2. SlotInv(t)' /\ StoreInv(t)' /\ FreshInv(t)'
    BY <1>0, <1>3, <1>4 DEF ThreadInv, SlotInv, StoreInv, FreshInv, Holds, Stored
  <2> QED
    BY <1>3, <2>1, <2>2 DEF ThreadInv, HeadInv, MissInv, FoundInv, CountInv
<1>7. /\ NextInv' /\ LinkedInv' /\ NoOrphans' /\ CountExact'
      /\ \A u \in Threads : ThreadInv(u)'
      /\ Table' = Table
  <2>1. \A s \in DOMAIN record : record'[s] # Hole =>
          \/ record[s] # Hole /\ (pc[t] \in Stored /\ s = slot[t] => pc'[t] \in Stored /\ slot'[t] = s)
          \/ pc'[t] \in Stored /\ slot'[t] = s
    BY <1>0, <1>3 DEF Stored
  <2>2. FirstSlot = 0 => next_slot' = 0
    BY <1>0 DEF NextInv
  <2> QED
    BY <1>0, <1>1, <1>3, <1>4, <1>5, <1>6, <2>1, <2>2, StepKeeps
<1>8. RefusalsJustified' /\ answers' \subseteq Table'
  BY <1>0, <1>7, RefusalsStay DEF IndInv
<1> QED
  BY <1>0, <1>3, <1>5, <1>7, <1>8 DEF IndInv

(* A walk is never cut: every ref in a chain can be read.                  *)
LEMMA WalkSees ==
    ASSUME TypeOK, LinkedInv, NEW b \in Buckets, NEW n \in Nat, n <= Len(chain[b]), NEW key
    PROVE  /\ ~Cut(b, n)
           /\ Matches(b, n, key) = {i \in 1..n : Key(record[chain[b][i].slot]) = key}
<1>1. Len(chain[b]) \in Nat
  BY DEF TypeOK
<1>2. \A i \in 1..n : published_record(chain[b][i])
  BY <1>1, LinkedHas DEF LinkedInv, LinkedOK
<1>3. Walked(b, n) = 1..n
  BY <1>2 DEF Walked
<1> QED
  BY <1>2, <1>3 DEF Cut, Matches

(* The nearest of some positions is one of them.                           *)
LEMMA NearestIn ==
    ASSUME NEW n \in Nat, NEW S, S \subseteq 1..n, S # {}
    PROVE  Nearest(S) \in S
<1>1. PICK R : IsWellFoundedOn(R, Nat) /\ \A x, y \in Nat : y < x => <<y, x>> \in R
  <2>1. IsWellFoundedOn(OpToRel(<, Nat), Nat)
    BY NatLessThanWellFounded, Zenon
  <2>2. \A x, y \in Nat : y < x => <<y, x>> \in OpToRel(<, Nat)
    BY Zenon DEF OpToRel
  <2> QED
    BY <2>1, <2>2, Zenon
<1> DEFINE T == {n - i : i \in S}
<1>2. T \subseteq Nat /\ T # {}
  <2>1. \A i \in S : i \in Nat /\ i <= n
    OBVIOUS
  <2>2. \A i \in S : n - i \in Nat
    BY <2>1
  <2> QED
    BY <2>2, Zenon
<1>4. PICK x \in T : \A y \in T : ~(<<y, x>> \in R)
  BY <1>1, <1>2, WFMin, Zenon
<1>5. \A y \in T : x <= y
  <2>1. x \in Nat /\ \A y \in T : y \in Nat /\ ~(y < x)
    BY <1>1, <1>2, <1>4, Zenon
  <2> QED
    BY <2>1
<1>6. PICK i \in S : x = n - i
  BY <1>4
<1>7. \A j \in S : j <= i
  BY <1>5, <1>6
<1> QED
  BY <1>7 DEF Nearest

(* A walk that finds nothing has seen every ref up to the head; one that   *)
(* finds something has found the linked identity of that name.             *)
LEMMA WalkKeeps ==
    ASSUME IndInv, NEW t \in Threads, Walk(t)
    PROVE  IndInv' /\ Table' = Table /\ answers' = answers
<1>0. TypeOK /\ NextInv /\ LinkedInv /\ ThreadInv(t) /\ pc[t] = "walk"
  BY DEF IndInv, Walk
<1>1. PICK b \in Buckets : b = MyBucket(t)
  BY <1>0, HeldSlot DEF Holds, Stored
<1>2. PICK n \in Nat : n = head[t]
  BY <1>0 DEF TypeOK
<1>3. PICK key : key = Key(want[t])
  OBVIOUS
<1>4. n <= Len(chain[b]) /\ Len(chain[b]) \in Nat
  BY <1>0, <1>1, <1>2 DEF ThreadInv, HeadInv, TypeOK
<1>5. PICK hits : hits = Matches(b, n, key)
  OBVIOUS
<1>6. ~Cut(b, n) /\ hits = {i \in 1..n : Key(record[chain[b][i].slot]) = key}
  BY <1>0, <1>4, <1>5, WalkSees
<1>7. /\ pc' = [pc EXCEPT ![t] = IF hits = {} THEN "link" ELSE "discard"]
      /\ found' = [found EXCEPT ![t] = IF hits = {} THEN NoRef ELSE chain[b][Nearest(hits)]]
      /\ UNCHANGED <<sharedVars, resultVars, want, slot, head>>
  BY <1>1, <1>2, <1>3, <1>5, <1>6 DEF Walk, Go, sharedVars, resultVars
<1>8. /\ next_slot' = next_slot /\ identity_count' = identity_count /\ record' = record
      /\ chain' = chain /\ draws' = draws /\ answers' = answers /\ conflicts' = conflicts
      /\ broken' = broken /\ want' = want /\ slot' = slot /\ head' = head
  BY <1>7 DEF sharedVars, resultVars
<1>9. ASSUME hits # {}
      PROVE  /\ chain[b][Nearest(hits)] \in Linked
             /\ chain[b][Nearest(hits)] \in Refs
             /\ Key(record[chain[b][Nearest(hits)].slot]) = key
  <2>1. PICK i \in hits : i = Nearest(hits)
    BY <1>6, <1>9, NearestIn
  <2>2. i \in 1..Len(chain[b]) /\ Key(record[chain[b][i].slot]) = key
    BY <1>4, <1>6
  <2>3. chain[b][i] \in Linked
    BY <1>0, <2>2, LinkedHas
  <2> QED
    BY <1>0, <2>1, <2>2, <2>3, LinkedType
<1>10. /\ pc'[t] = (IF hits = {} THEN "link" ELSE "discard")
       /\ found'[t] = (IF hits = {} THEN NoRef ELSE chain[b][Nearest(hits)])
  BY <1>0, <1>7 DEF TypeOK
<1>11. TypeOK'
  BY <1>0, <1>7, <1>8, <1>9 DEF TypeOK
<1>12. ThreadInv(t)'
  <2>1. Linked' = Linked
    BY <1>8 DEF Linked
  <2>2. WantInv(t)'
    BY <1>0, <1>8, <2>1 DEF ThreadInv, WantInv, NotInBaseline, Declared
  <2>3. SlotInv(t)' /\ StoreInv(t)' /\ FreshInv(t)'
    BY <1>0, <1>8, <1>10, <2>1 DEF ThreadInv, SlotInv, StoreInv, FreshInv, Holds, Stored
  <2>4. MyBucket(t)' = b /\ Key(want[t])' = key
    BY <1>1, <1>3, <1>8 DEF MyBucket, Key
  <2>5. HeadInv(t)'
    BY <1>2, <1>4, <1>8, <2>4 DEF HeadInv
  <2>6. MissInv(t)'
    <3>1. CASE hits = {}
      <4>1. \A i \in 1..n : Key(record[chain[b][i].slot]) # key
        BY <1>6, <3>1
      <4>2. \A i \in 1..n : Key(record[chain[b][i].slot])' # key
        BY <1>8, <4>1 DEF Key
      <4> QED
        BY <1>2, <1>8, <2>4, <4>2 DEF MissInv, Key
    <3> QED
      BY <1>10, <3>1 DEF MissInv
  <2>7. FoundInv(t)'
    <3>1. CASE hits # {}
      <4>1. PICK r \in Linked : r = chain[b][Nearest(hits)] /\ Key(record[r.slot]) = key
        BY <1>9, <3>1
      <4>2. found'[t] = r /\ Key(record[r.slot])' = key
        BY <1>8, <1>10, <3>1, <4>1 DEF Key
      <4> QED
        BY <1>3, <1>8, <2>1, <4>1, <4>2 DEF FoundInv, Key
    <3> QED
      BY <1>10, <3>1 DEF FoundInv
  <2>8. CountInv(t)'
    BY <1>10 DEF CountInv
  <2> QED
    BY <2>2, <2>3, <2>5, <2>6, <2>7, <2>8 DEF ThreadInv
<1>13. Others(t)
  BY <1>0, StepsAreLocal DEF Step
<1> QED
  BY <1>0, <1>7, <1>8, <1>10, <1>11, <1>12, <1>13, LocalKeeps DEF Holds, Stored

(* A call that ends with an identity of the table.                         *)
LEMMA SettleKeeps ==
    ASSUME IndInv, NEW t \in Threads, NEW wanted \in Records, NEW ref \in Refs,
           <<Key(wanted), ref>> \in Table, Table' = Table, Settle(t, wanted, ref)
    PROVE  /\ answers' \subseteq Table' /\ answers' \subseteq Keys \X Refs
           /\ conflicts' \subseteq Records /\ broken' = broken
           /\ RefusalsJustified'
           /\ \/ answers' = answers
              \/ answers' = answers \cup {<<Key(wanted), ref>>}
<1>0. TypeOK /\ LinkedInv /\ answers \subseteq Table /\ RefusalsJustified
      /\ answers \subseteq Keys \X Refs /\ conflicts \subseteq Records
  BY DEF IndInv, TypeOK
<1>1. Key(wanted) \in Keys
  BY RecordType
<1>2. CASE ref.kind = wanted.kind
  <2>1. answers' = answers \cup {<<Key(wanted), ref>>} /\ conflicts' = conflicts /\ broken' = broken
    BY <1>2 DEF Settle
  <2>2. RefusalsJustified'
    BY <2>1, RefusalsStay
  <2> QED
    BY <1>0, <1>1, <2>1, <2>2
<1>3. CASE ref.kind # wanted.kind
  <2>1. conflicts' = conflicts \cup {wanted} /\ answers' = answers /\ broken' = broken
    BY <1>3 DEF Settle
  <2>2. ASSUME NEW w \in conflicts'
        PROVE  \E pair \in Table : pair[1] = Key(w) /\ pair[2].kind # w.kind
    <3>1. CASE w \in conflicts
      BY <1>0, <3>1 DEF RefusalsJustified
    <3>2. CASE w = wanted
      BY <1>3, <3>2
    <3> QED
      BY <2>1, <2>2, <3>1, <3>2
  <2>3. RefusalsJustified'
    BY <1>0, <2>1, <2>2 DEF RefusalsJustified, Key
  <2> QED
    BY <1>0, <2>1, <2>3
<1> QED
  BY <1>2, <1>3

LEMMA DiscardKeeps ==
    ASSUME IndInv, NEW t \in Threads, Discard(t)
    PROVE  /\ IndInv' /\ Table' = Table
           /\ answers' = answers \/ \E pair \in Table : answers' = answers \cup {pair}
<1>0. /\ TypeOK /\ NextInv /\ LinkedInv /\ ThreadInv(t) /\ pc[t] = "discard"
      /\ record' = [record EXCEPT ![slot[t]] = Hole]
      /\ Settle(t, want[t], found[t]) /\ Leave(t)
      /\ UNCHANGED <<next_slot, identity_count, chain, draws>>
  BY DEF IndInv, Discard, Settle
<1>1. Others(t)
  BY <1>0, StepsAreLocal DEF Step
<1>2. slot[t] \in DOMAIN record /\ want[t] \in Records
  BY <1>0, HeldSlot DEF Holds, Stored
<1>3. record' \in [(1..MaxSlot) \ DOMAIN Baseline -> Records \cup {Hole}]
      /\ record'[slot[t]] = Hole /\ DOMAIN record' = DOMAIN record
      /\ next_slot \in Nat /\ next_slot <= next_slot'
  BY <1>0, <1>2 DEF TypeOK
<1>4. RecordsKept(t)
  BY <1>0 DEF RecordsKept, Holds, Stored
<1>5. Table' = Table
  BY <1>0, <1>3, <1>4, LinkedKept
<1>6. found[t] \in Refs /\ <<Key(want[t]), found[t]>> \in Table
  <2>1. found[t] \in Linked /\ Key(record[found[t].slot]) = Key(want[t])
    BY <1>0 DEF ThreadInv, FoundInv
  <2> QED
    BY <1>0, <2>1, LinkedType, TableHas
<1>7. /\ answers' \subseteq Table' /\ answers' \subseteq Keys \X Refs
      /\ conflicts' \subseteq Records /\ broken' = broken
      /\ RefusalsJustified'
      /\ \/ answers' = answers
         \/ answers' = answers \cup {<<Key(want[t]), found[t]>>}
  BY <1>0, <1>2, <1>5, <1>6, SettleKeeps
<1>8. pc'[t] = "idle" /\ ThreadInv(t)'
  BY <1>0, LeaveKnows
<1>9. TypeOK'
  BY <1>0, <1>3, <1>7, LeaveKnows DEF TypeOK
<1>10. OwnSlots'
  BY <1>1, <1>8, OwnSlotsKept DEF Holds, Stored
<1>11. /\ NextInv' /\ LinkedInv' /\ NoOrphans' /\ CountExact'
       /\ \A u \in Threads : ThreadInv(u)'
  <2>1. \A s \in DOMAIN record : record'[s] # Hole =>
          \/ record[s] # Hole /\ (pc[t] \in Stored /\ s = slot[t] => pc'[t] \in Stored /\ slot'[t] = s)
          \/ pc'[t] \in Stored /\ slot'[t] = s
    BY <1>0, <1>3
  <2>2. FirstSlot = 0 => next_slot' = 0
    BY <1>0 DEF NextInv
  <2> QED
    BY <1>0, <1>1, <1>3, <1>4, <1>8, <1>9, <1>10, <2>1, <2>2, StepKeeps
<1> QED
  BY <1>5, <1>6, <1>7, <1>9, <1>10, <1>11 DEF IndInv

(* What a lookup finds is in the table; a lookup that finds nothing knows  *)
(* that the baseline does not have the name.                               *)
LEMMA FindKeeps ==
    ASSUME IndInv, NEW t \in Threads, NEW wanted \in Records, Find(t, wanted)
    PROVE  /\ IndInv' /\ Table' = Table
           /\ answers' = answers \/ \E pair \in Table : answers' = answers \cup {pair}
<1>0. /\ TypeOK /\ NextInv /\ LinkedInv /\ pc[t] = "idle" /\ wanted.parent \in Scopes
      /\ UNCHANGED sharedVars
  BY DEF IndInv, Find
<1>1. /\ next_slot' = next_slot /\ identity_count' = identity_count /\ record' = record
      /\ chain' = chain /\ draws' = draws
  BY <1>0 DEF sharedVars
<1>2. Others(t)
  BY <1>0, StepsAreLocal DEF Step
<1>3. RecordsKept(t) /\ next_slot \in Nat /\ next_slot <= next_slot' /\ DOMAIN record' = DOMAIN record
  BY <1>0, <1>1 DEF RecordsKept, TypeOK
<1>4. Table' = Table /\ Linked' = Linked
  BY <1>0, <1>1, <1>3, LinkedKept DEF Linked
<1>5. PICK key \in Keys : key = Key(wanted) /\ key[2] = wanted.name
  BY RecordType
<1>6. PICK b \in Buckets : b = BucketOf[key[2]]
  BY <1>5, RecordType
<1>7. ASSUME NEW ref \in Refs, <<key, ref>> \in Table, Settle(t, wanted, ref)
      PROVE  /\ IndInv' /\ Table' = Table
             /\ answers' = answers \/ \E pair \in Table : answers' = answers \cup {pair}
  <2>1. /\ answers' \subseteq Table' /\ answers' \subseteq Keys \X Refs
        /\ conflicts' \subseteq Records /\ broken' = broken
        /\ RefusalsJustified'
        /\ \/ answers' = answers
           \/ answers' = answers \cup {<<key, ref>>}
    BY <1>4, <1>5, <1>7, SettleKeeps
  <2>2. Leave(t)
    BY <1>7 DEF Settle
  <2>3. pc'[t] = "idle" /\ ThreadInv(t)'
    BY <1>0, <2>2, LeaveKnows
  <2>4. TypeOK'
    BY <1>0, <1>1, <2>1, <2>2, LeaveKnows DEF TypeOK
  <2>5. OwnSlots'
    BY <1>2, <2>3, OwnSlotsKept DEF Holds, Stored
  <2>6. /\ NextInv' /\ LinkedInv' /\ NoOrphans' /\ CountExact'
        /\ \A u \in Threads : ThreadInv(u)'
    <3>1. \A s \in DOMAIN record : record'[s] # Hole =>
          \/ record[s] # Hole /\ (pc[t] \in Stored /\ s = slot[t] => pc'[t] \in Stored /\ slot'[t] = s)
          \/ pc'[t] \in Stored /\ slot'[t] = s
      BY <1>0, <1>1 DEF Stored
    <3>2. FirstSlot = 0 => next_slot' = 0
      BY <1>0, <1>1 DEF NextInv
    <3> QED
      BY <1>0, <1>1, <1>2, <1>3, <2>3, <2>4, <2>5, <3>1, <3>2, StepKeeps
  <2> QED
    BY <1>4, <1>7, <2>1, <2>4, <2>5, <2>6 DEF IndInv
<1>8. CASE find_record(Key(wanted)) # NoRef
  <2>1. PICK hits : hits = Matches(b, Len(chain[b]), key)
    OBVIOUS
  <2>2. find_record(key) = (IF hits = {} THEN NoRef ELSE chain[b][Nearest(hits)])
    BY <1>6, <2>1 DEF find_record
  <2>3. hits # {} /\ find_record(key) = chain[b][Nearest(hits)]
    BY <1>5, <1>8, <2>2
  <2>4. Len(chain[b]) \in Nat
    BY <1>0 DEF TypeOK
  <2>5. hits = {i \in 1..Len(chain[b]) : Key(record[chain[b][i].slot]) = key}
    BY <1>0, <2>1, <2>4, WalkSees
  <2>6. PICK i \in hits : i = Nearest(hits)
    BY <2>3, <2>4, <2>5, NearestIn
  <2>7. PICK r \in Linked : r = chain[b][i] /\ Key(record[r.slot]) = key
    BY <1>0, <2>5, LinkedHas
  <2>8. r \in Refs /\ <<key, r>> \in Table
    BY <1>0, <2>7, LinkedType, TableHas
  <2>9. Settle(t, wanted, r)
    BY <1>5, <1>8, <2>3, <2>6, <2>7 DEF Find
  <2> QED
    BY <1>7, <2>8, <2>9
<1>9. CASE find_record(Key(wanted)) = NoRef /\ BaselineRefs(Key(wanted)) # {}
  <2>1. PICK ref \in BaselineRefs(Key(wanted)) : Settle(t, wanted, ref)
    BY <1>9 DEF Find
  <2>2. PICK i \in BaselineSlots : ref = Ref(i) /\ Key(Baseline[i]) = key
    BY <1>5, <2>1 DEF BaselineRefs
  <2>3. ref \in Refs /\ <<key, ref>> \in Table
    BY <1>0, <2>2, BaselineType, TableHas
  <2> QED
    BY <1>7, <2>1, <2>3
<1>10. CASE find_record(Key(wanted)) = NoRef /\ BaselineRefs(Key(wanted)) = {}
  <2>1. /\ pc' = [pc EXCEPT ![t] = "slot"] /\ want' = [want EXCEPT ![t] = wanted]
        /\ UNCHANGED <<resultVars, slot, head, found>>
    BY <1>10 DEF Find, Go
  <2>2. answers' = answers /\ conflicts' = conflicts /\ broken' = broken
    BY <2>1 DEF resultVars
  <2>3. TypeOK' /\ pc'[t] = "slot" /\ want'[t] = wanted
    BY <1>0, <1>1, <2>1, <2>2 DEF TypeOK
  <2>4. NotInBaseline(Key(wanted))
    BY <1>10 DEF NotInBaseline, BaselineRefs
  <2>5. Declared(wanted.parent)'
    BY <1>0, <1>4, ScopesDeclared DEF Declared
  <2>6. WantInv(t)'
    BY <2>3, <2>4, <2>5 DEF WantInv, NotInBaseline, Declared, Key
  <2>7. ThreadInv(t)'
    BY <2>3, <2>6 DEF ThreadInv, SlotInv, StoreInv, FreshInv, HeadInv, MissInv, FoundInv,
       CountInv, Holds, Stored
  <2> QED
    BY <1>0, <1>2, <2>1, <2>2, <2>3, <2>7, LocalKeeps DEF Holds, Stored
<1> QED
  BY <1>8, <1>9, <1>10

LEMMA CountKeeps ==
    ASSUME IndInv, NEW t \in Threads, Count(t)
    PROVE  /\ IndInv' /\ Table' = Table
           /\ answers' = answers \/ \E pair \in Table : answers' = answers \cup {pair}
<1>0. /\ TypeOK /\ NextInv /\ LinkedInv /\ ThreadInv(t) /\ NoOrphans /\ CountExact /\ OwnSlots
      /\ pc[t] = "count" /\ identity_count' = identity_count + 1
      /\ Settle(t, want[t], MyRef(t)) /\ Leave(t)
      /\ UNCHANGED <<next_slot, record, chain, draws>>
  BY DEF IndInv, Count, Settle
<1>1. Others(t)
  BY <1>0, StepsAreLocal DEF Step
<1>2. PICK me \in Refs : me = MyRef(t) /\ me.slot = slot[t]
  BY <1>0, HeldSlot DEF Holds, Stored
<1>3. want[t] \in Records /\ record[me.slot] = want[t] /\ me \in Linked
  BY <1>0, <1>2, HeldSlot DEF Holds, Stored, ThreadInv, StoreInv, CountInv
<1>4. RecordsKept(t) /\ next_slot \in Nat /\ next_slot <= next_slot' /\ DOMAIN record' = DOMAIN record
  BY <1>0 DEF RecordsKept, TypeOK
<1>5. Table' = Table /\ LinkedInv'
  BY <1>0, <1>4, LinkedKept
<1>6. Linked' = Linked /\ ChainsGrow(t)
  BY <1>0, ChainsStay
<1>7. <<Key(want[t]), me>> \in Table
  BY <1>0, <1>3, TableHas
<1>8. /\ answers' \subseteq Table' /\ answers' \subseteq Keys \X Refs
      /\ conflicts' \subseteq Records /\ broken' = broken
      /\ RefusalsJustified'
      /\ \/ answers' = answers
         \/ answers' = answers \cup {<<Key(want[t]), me>>}
  BY <1>0, <1>2, <1>3, <1>5, <1>7, SettleKeeps
<1>9. pc'[t] = "idle" /\ ThreadInv(t)'
  BY <1>0, LeaveKnows
<1>10. TypeOK'
  BY <1>0, <1>8, LeaveKnows DEF TypeOK
<1>11. OwnSlots'
  BY <1>1, <1>9, OwnSlotsKept DEF Holds, Stored
<1>12. \A u \in Threads : ThreadInv(u)'
  BY <1>0, <1>1, <1>4, <1>6, <1>9, StableThread
<1>13. NextInv'
  BY <1>0 DEF NextInv
<1>14. NoOrphans'
  <2> SUFFICES ASSUME NEW s \in DOMAIN record, record[s] # Hole
               PROVE  \/ \E u \in Threads : pc'[u] \in Stored /\ slot'[u] = s
                      \/ \E r \in Linked : r.slot = s
    BY <1>0, <1>6 DEF NoOrphans
  <2>1. CASE \E r \in Linked : r.slot = s
    BY <2>1
  <2>2. ASSUME NEW u \in Threads, pc[u] \in Stored, slot[u] = s
        PROVE  \/ \E v \in Threads : pc'[v] \in Stored /\ slot'[v] = s
               \/ \E r \in Linked : r.slot = s
    <3>1. CASE u = t
      BY <1>2, <1>3, <2>2, <3>1
    <3>2. CASE u # t
      BY <1>1, <2>2, <3>2 DEF Others
    <3> QED
      BY <3>1, <3>2
  <2> QED
    BY <1>0, <2>1, <2>2 DEF NoOrphans
<1>15. CountExact'
  <2>1. ASSUME NEW r \in Linked
        PROVE  r \in Counted' <=> r \in Counted \/ r = me
    <3>1. CASE r = me
      <4>1. ASSUME NEW u \in Threads, pc'[u] = "count", slot'[u] = r.slot PROVE FALSE
        <5>1. u # t
          BY <1>9, <4>1
        <5>2. pc[u] = "count" /\ slot[u] = slot[t]
          BY <1>1, <1>2, <3>1, <4>1, <5>1 DEF Others
        <5> QED
          BY <1>0, <5>1, <5>2 DEF OwnSlots, Holds, Stored
      <4> QED
        BY <1>6, <3>1, <4>1 DEF Counted
    <3>2. CASE r # me
      <4>1. r.slot # slot[t]
        BY <1>0, <1>2, <1>3, <3>2, LinkedUnique
      <4>2. \A u \in Threads : (pc'[u] = "count" => slot'[u] # r.slot) <=> (pc[u] = "count" => slot[u] # r.slot)
        BY <1>1, <1>9, <4>1 DEF Others
      <4> QED
        BY <1>6, <3>2, <4>2 DEF Counted
    <3> QED
      BY <3>1, <3>2
  <2>2. Counted' = Counted \cup {me}
    BY <1>3, <1>6, <2>1 DEF Counted
  <2>3. me \notin Counted
    BY <1>0, <1>2 DEF Counted
  <2>4. IsFiniteSet(Counted') /\ Cardinality(Counted') = Cardinality(Counted) + 1
    BY <1>0, <2>2, <2>3, FS_AddElement DEF CountExact
  <2>5. Cardinality(Counted) \in Nat
    BY <1>0, FS_CardinalityType DEF CountExact
  <2> QED
    BY <1>0, <2>4, <2>5 DEF CountExact
<1> QED
  BY <1>5, <1>7, <1>8, <1>10, <1>11, <1>12, <1>13, <1>14, <1>15 DEF IndInv

(* The compare-exchange that succeeds: nobody linked since the walk.       *)
LEMMA LinkKeeps ==
    ASSUME IndInv, NEW t \in Threads, Link(t)
    PROVE  IndInv' /\ Canonical!Intern(Key(want[t]), MyRef(t))
<1>0. /\ TypeOK /\ NextInv /\ LinkedInv /\ ThreadInv(t) /\ NoOrphans /\ CountExact /\ OwnSlots
      /\ pc[t] = "link" /\ pc' = [pc EXCEPT ![t] = "count"]
      /\ Len(chain[MyBucket(t)]) = head[t]
      /\ chain' = [chain EXCEPT ![MyBucket(t)] = Append(@, MyRef(t))]
      /\ answers \subseteq Table /\ RefusalsJustified
      /\ UNCHANGED <<next_slot, identity_count, record, draws, answers, conflicts, broken, want, slot, head, found>>
  BY DEF IndInv, Link, LinkOnto, Go, resultVars
<1>1. Others(t)
  BY <1>0, StepsAreLocal DEF Step
<1>2. PICK me \in Refs : me = MyRef(t) /\ me.slot = slot[t] /\ me.kind = want[t].kind
  BY <1>0, HeldSlot DEF Holds, Stored
<1>3. PICK mine \in Buckets : mine = MyBucket(t)
  BY <1>0, HeldSlot DEF Holds, Stored
<1>4. PICK key \in Keys : key = Key(want[t])
  BY <1>0, HeldSlot, RecordType DEF Holds, Stored
<1>5. /\ want[t] \in Records /\ record[me.slot] = want[t] /\ me.slot \in DOMAIN record
      /\ BucketOf[want[t].name] = mine /\ NotInBaseline(key) /\ Declared(want[t].parent)
  BY <1>0, <1>2, <1>3, <1>4, HeldSlot DEF Holds, Stored, ThreadInv, StoreInv, WantInv, MyBucket
<1>6. /\ chain[mine] \in Seq(Refs) /\ Len(chain[mine]) \in Nat
      /\ chain' \in [Buckets -> Seq(Refs)]
      /\ chain'[mine] = Append(chain[mine], me)
      /\ \A b \in Buckets : b # mine => chain'[b] = chain[b]
  BY <1>0, <1>2, <1>3 DEF TypeOK
<1>7. /\ Len(chain'[mine]) = Len(chain[mine]) + 1 /\ chain'[mine][Len(chain[mine]) + 1] = me
      /\ \A i \in 1..Len(chain[mine]) : chain'[mine][i] = chain[mine][i]
  BY <1>6
<1>8. TypeOK' /\ pc'[t] = "count"
  BY <1>0, <1>6 DEF TypeOK
<1>9. ASSUME NEW b \in Buckets, NEW i \in 1..Len(chain'[b])
      PROVE  \/ i \in 1..Len(chain[b]) /\ chain'[b][i] = chain[b][i]
             \/ b = mine /\ chain'[b][i] = me
  <2>1. CASE b # mine
    BY <1>6, <2>1
  <2>2. CASE b = mine /\ i = Len(chain[mine]) + 1
    BY <1>7, <2>2
  <2>3. CASE b = mine /\ i # Len(chain[mine]) + 1
    <3>1. i \in 1..Len(chain[mine])
      BY <1>6, <1>7, <2>3
    <3> QED
      BY <1>7, <2>3, <3>1
  <2> QED
    BY <2>1, <2>2, <2>3
<1>10. Linked' = Linked \cup {me}
  <2>1. ASSUME NEW r PROVE r \in Linked' <=> \E b \in Buckets : \E i \in 1..Len(chain'[b]) : chain'[b][i] = r
    <3>1. \A b \in Buckets : chain'[b] \in Seq(Refs) /\ DOMAIN chain'[b] = 1..Len(chain'[b])
      BY <1>6
    <3> QED
      BY <3>1 DEF Linked
  <2>2. ASSUME NEW r \in Linked' PROVE r \in Linked \cup {me}
    <3>1. PICK b \in Buckets : \E i \in 1..Len(chain'[b]) : chain'[b][i] = r
      BY <2>1, <2>2
    <3>2. PICK i \in 1..Len(chain'[b]) : chain'[b][i] = r
      BY <3>1
    <3> QED
      BY <1>0, <1>9, <3>2, LinkedHas
  <2>3. me \in Linked'
    <3>1. Len(chain[mine]) + 1 \in 1..Len(chain'[mine])
      BY <1>6, <1>7
    <3> QED
      BY <1>7, <2>1, <3>1
  <2>4. ASSUME NEW r \in Linked PROVE r \in Linked'
    <3>1. PICK b \in Buckets : \E i \in 1..Len(chain[b]) : chain[b][i] = r
      BY <1>0, LinkedHas
    <3>2. PICK i \in 1..Len(chain[b]) : chain[b][i] = r
      BY <3>1
    <3>3. i \in 1..Len(chain'[b]) /\ chain'[b][i] = r
      <4>1. CASE b = mine
        BY <1>6, <1>7, <3>2, <4>1
      <4>2. CASE b # mine
        BY <1>6, <3>2, <4>2
      <4> QED
        BY <4>1, <4>2
    <3> QED
      BY <2>1, <3>3
  <2> QED
    BY <2>2, <2>3, <2>4
<1>11. me \notin Linked /\ \A r \in Linked : r.slot # me.slot
  BY <1>0, <1>2 DEF ThreadInv, FreshInv, Holds, Stored
<1>12. RecordsKept(t) /\ ChainsGrow(t)
  <2>1. \A b \in Buckets : /\ Len(chain[b]) <= Len(chain'[b])
                          /\ \A i \in 1..Len(chain[b]) : chain'[b][i] = chain[b][i]
    <3> TAKE b \in Buckets
    <3>1. CASE b = mine
      BY <1>6, <1>7, <3>1
    <3>2. CASE b # mine
      <4>1. Len(chain[b]) \in Nat
        BY <1>0 DEF TypeOK
      <4> QED
        BY <1>6, <3>2, <4>1
    <3> QED
      BY <3>1, <3>2
  <2> QED
    BY <1>0, <1>2, <1>10, <2>1 DEF RecordsKept, ChainsGrow, Holds, Stored
(* The walk saw the whole chain, and other buckets have other names.       *)
<1>13. \A r \in Linked : Key(record[r.slot]) # key
  <2> SUFFICES ASSUME NEW r \in Linked, Key(record[r.slot]) = key PROVE FALSE
    OBVIOUS
  <2>1. PICK b \in Buckets : \E i \in 1..Len(chain[b]) : chain[b][i] = r
    BY <1>0, LinkedHas
  <2>2. PICK i \in 1..Len(chain[b]) : chain[b][i] = r
    BY <2>1
  <2>3. record[r.slot].name = want[t].name
    BY <1>0, <1>4, <1>5, LinkedRecord, KeyEqual
  <2>4. b = mine
    BY <1>0, <1>5, <2>2, <2>3 DEF LinkedInv
  <2> QED
    BY <1>0, <1>3, <1>4, <2>2, <2>4 DEF ThreadInv, MissInv
<1>14. \A p : Declared(p) => Declared(p)'
  BY <1>12, DeclaredStays
<1>15. LinkedInv'
  <2>1. ASSUME NEW r \in Linked' PROVE LinkedOK(r)'
    <3>1. CASE r \in Linked
      <4>1. LinkedOK(r)
        BY <1>0, <3>1 DEF LinkedInv
      <4>2. PICK p : p = record[r.slot].parent
        OBVIOUS
      <4>3. Declared(p)'
        BY <1>14, <4>1, <4>2 DEF LinkedOK
      <4>4. Declared(record[r.slot].parent)'
        BY <1>0, <4>2, <4>3 DEF Declared
      <4> QED
        BY <1>0, <4>1, <4>4 DEF LinkedOK, published_record, NotInBaseline, Key
    <3>2. CASE r = me
      <4>1. want[t].parent.slot < me.slot /\ FirstSlot <= me.slot /\ me.slot < next_slot
        BY <1>0, <1>2 DEF ThreadInv, SlotInv, Holds, Stored
      <4>2. PICK p : p = want[t].parent
        OBVIOUS
      <4>3. Declared(p)'
        BY <1>5, <1>14, <4>2
      <4>4. Declared(record[r.slot].parent)'
        BY <1>0, <1>5, <3>2, <4>2, <4>3 DEF Declared
      <4>5. published_record(r)' /\ NotInBaseline(Key(record[r.slot]))'
        BY <1>0, <1>2, <1>4, <1>5, <3>2, RecordType DEF published_record, NotInBaseline, Key
      <4>6. record'[r.slot].parent.slot < r.slot /\ FirstSlot <= r.slot /\ r.slot < next_slot'
        BY <1>0, <1>5, <3>2, <4>1
      <4> QED
        BY <4>4, <4>5, <4>6 DEF LinkedOK
    <3> QED
      BY <1>10, <2>1, <3>1, <3>2
  <2>2. ASSUME NEW b \in Buckets, NEW i \in 1..Len(chain'[b])
        PROVE  BucketOf[record'[chain'[b][i].slot].name] = b
    BY <1>0, <1>5, <1>9 DEF LinkedInv
  <2>3. ASSUME NEW q \in Linked', NEW r \in Linked', Key(record[q.slot])' = Key(record[r.slot])'
        PROVE  q = r
    <3>1. Key(record[q.slot]) = Key(record[r.slot])
      BY <1>0, <2>3 DEF Key
    <3>2. Key(record[me.slot]) = key
      BY <1>4, <1>5
    <3>3. CASE q \in Linked /\ r \in Linked
      BY <1>0, <3>1, <3>3 DEF LinkedInv
    <3>4. CASE q = me \/ r = me
      BY <1>10, <1>13, <2>3, <3>1, <3>2, <3>4
    <3> QED
      BY <1>10, <2>3, <3>3, <3>4
  <2> QED
    BY <2>1, <2>2, <2>3 DEF LinkedInv
<1>16. ThreadInv(t)'
  <2>1. WantInv(t)'
    <3>1. PICK p : p = want[t].parent
      OBVIOUS
    <3>2. Declared(p)'
      BY <1>5, <1>14, <3>1
    <3>3. Declared(want[t].parent)'
      BY <1>0, <3>1, <3>2 DEF Declared
    <3> QED
      BY <1>0, <1>4, <1>5, <3>3 DEF WantInv, NotInBaseline, Key
  <2>2. SlotInv(t)' /\ StoreInv(t)'
    BY <1>0, <1>8 DEF ThreadInv, SlotInv, StoreInv, Holds, Stored
  <2>3. CountInv(t)'
    <3>1. MyRef(t)' = me
      BY <1>0, <1>2 DEF MyRef
    <3> QED
      BY <1>10, <3>1 DEF CountInv
  <2>4. FreshInv(t)' /\ HeadInv(t)' /\ MissInv(t)' /\ FoundInv(t)'
    BY <1>8 DEF FreshInv, HeadInv, MissInv, FoundInv
  <2> QED
    BY <2>1, <2>2, <2>3, <2>4 DEF ThreadInv
<1>17. \A u \in Threads : ThreadInv(u)'
  <2>1. next_slot \in Nat /\ next_slot <= next_slot'
    BY <1>0 DEF TypeOK
  <2> QED
    BY <1>0, <1>1, <1>12, <1>16, <2>1, StableThread
<1>18. OwnSlots'
  BY <1>0, <1>1, OwnSlotsKept DEF Holds, Stored
<1>19. NextInv' /\ NoOrphans'
  <2>1. \A u \in Threads : pc[u] \in Stored => pc'[u] \in Stored /\ slot'[u] = slot[u]
    BY <1>0, <1>8 DEF TypeOK, Stored
  <2> QED
    BY <1>0, <1>10, <2>1 DEF NextInv, NoOrphans
<1>20. CountExact'
  <2>1. ASSUME NEW r \in Linked
        PROVE  r \in Counted' <=> r \in Counted
    <3>1. \A u \in Threads : (pc'[u] = "count" => slot'[u] # r.slot) <=> (pc[u] = "count" => slot[u] # r.slot)
      BY <1>0, <1>1, <1>2, <1>11 DEF Others
    <3> QED
      BY <1>10, <3>1 DEF Counted
  <2>2. me \notin Counted'
    BY <1>0, <1>2, <1>8 DEF Counted
  <2>3. Counted' = Counted
    BY <1>10, <2>1, <2>2 DEF Counted
  <2> QED
    BY <1>0, <2>3 DEF CountExact
<1>21. \A pair : pair \in Table' <=> pair \in Table \/ pair = <<key, me>>
  <2>1. \A r \in Linked' : published_record(r)'
    BY <1>15 DEF LinkedInv, LinkedOK
  <2>2. \A pair : pair \in Table' <=> \/ pair \in BaselinePairs
                                      \/ \E r \in Linked' : pair = <<Key(record[r.slot]), r>>
    BY <1>0, <2>1 DEF Table, BaselinePairs, Key, Ref
  <2>3. \A pair : pair \in Table <=> \/ pair \in BaselinePairs
                                     \/ \E r \in Linked : pair = <<Key(record[r.slot]), r>>
    BY <1>0, TableHas DEF BaselinePairs
  <2>4. Key(record[me.slot]) = key
    BY <1>4, <1>5
  <2> QED
    BY <1>10, <2>2, <2>3, <2>4
<1>22. Table' = Table \cup {<<key, me>>}
  BY <1>21
<1>23. answers' \subseteq Table' /\ RefusalsJustified'
  <2>1. ASSUME NEW w \in conflicts
        PROVE  \E pair \in Table' : pair[1] = Key(w) /\ pair[2].kind # w.kind
    BY <1>0, <1>22 DEF RefusalsJustified
  <2> QED
    BY <1>0, <1>22, <2>1 DEF RefusalsJustified, Key
<1>24. \A pair \in Table : pair[1] # key /\ pair[2] # me
  <2> TAKE pair \in Table
  <2>1. CASE \E i \in BaselineSlots : pair = <<Key(Baseline[i]), Ref(i)>>
    <3>1. PICK i \in BaselineSlots : pair = <<Key(Baseline[i]), Ref(i)>>
      BY <2>1
    <3>2. Ref(i).slot = i /\ i <= Len(Baseline) /\ i \in Nat /\ Len(Baseline) \in Nat
      BY BaselineType, SpaceAssumption
    <3>3. me.slot > Len(Baseline) /\ me.slot \in Nat
      BY <1>0, <1>2, HeldSlot DEF Holds, Stored
    <3> QED
      BY <1>5, <3>1, <3>2, <3>3 DEF NotInBaseline
  <2>2. CASE \E r \in Linked : pair = <<Key(record[r.slot]), r>>
    BY <1>11, <1>13, <2>2
  <2> QED
    BY <1>0, <2>1, <2>2, TableHas
<1>25. IndInv'
  BY <1>8, <1>15, <1>17, <1>18, <1>19, <1>20, <1>23 DEF IndInv
<1>26. Canonical!Intern(Key(want[t]), MyRef(t))
  BY <1>0, <1>2, <1>4, <1>22, <1>24 DEF Canonical!Intern
<1> QED
  BY <1>25, <1>26

-----------------------------------------------------------------------------
(* The theorems                                                            *)

LEMMA InitTable == ASSUME Init PROVE Linked = {} /\ Table = BaselinePairs
<1>1. Linked = {}
  BY DEF Init, Linked
<1> QED
  BY <1>1 DEF Table

LEMMA InitIndInv == ASSUME Init PROVE IndInv
<1>1. Linked = {} /\ Table = BaselinePairs
  BY InitTable
<1>2. TypeOK
  <2>1. FirstSlot \in 0..(MaxSlot + 1) /\ 0 \in 0..(MaxSlot + 1) /\ 0 \in 0..MaxDraws
    BY FirstSlotType, SpaceAssumption
  <2>2. record \in [(1..MaxSlot) \ DOMAIN Baseline -> Records \cup {Hole}]
    BY DEF Init
  <2>3. /\ pc \in [Threads -> {"idle", "slot", "take", "fill", "head", "walk", "discard",
                               "link", "count"}]
        /\ want \in [Threads -> Records \cup {Hole}]
        /\ slot \in [Threads -> 0..(MaxSlot + 1)]
        /\ head \in [Threads -> Nat]
        /\ found \in [Threads -> Refs \cup {NoRef}]
    BY <2>1 DEF Init
  <2>4. chain \in [Buckets -> Seq(Refs)] /\ identity_count \in Nat
    BY DEF Init
  <2> QED
    BY <2>1, <2>2, <2>3, <2>4 DEF Init, TypeOK
<1>3. NextInv
  BY FirstSlotType DEF Init, NextInv
<1>4. LinkedInv /\ NoOrphans
  BY <1>1 DEF Init, LinkedInv, NoOrphans
<1>5. \A t \in Threads : ThreadInv(t)
  BY DEF Init, ThreadInv, WantInv, SlotInv, StoreInv, FreshInv, HeadInv, MissInv, FoundInv,
     CountInv, Holds, Stored
<1>6. OwnSlots /\ answers \subseteq Table /\ RefusalsJustified
  BY DEF Init, OwnSlots, RefusalsJustified, Holds, Stored
<1>7. CountExact
  <2>1. Counted = {}
    BY <1>1 DEF Counted
  <2> QED
    BY <2>1, FS_EmptySet DEF Init, CountExact
<1> QED
  BY <1>2, <1>3, <1>4, <1>5, <1>6, <1>7 DEF IndInv

LEMMA StutterKeeps ==
    ASSUME IndInv, UNCHANGED vars
    PROVE  IndInv' /\ Table' = Table /\ answers' = answers
<1>1. /\ UNCHANGED <<next_slot, identity_count, record, chain, draws, answers, conflicts, broken>>
      /\ UNCHANGED <<pc, want, slot, head, found>>
  BY DEF vars, sharedVars, resultVars, threadVars
<1>2. Linked' = Linked
  BY <1>1 DEF Linked
<1>3. Table' = Table
  BY <1>1, <1>2 DEF Table, BaselinePairs, published_record, Key, Ref
<1>4. TypeOK' /\ NextInv' /\ OwnSlots' /\ NoOrphans'
  BY <1>1, <1>2 DEF IndInv, TypeOK, NextInv, OwnSlots, NoOrphans
<1>5. LinkedInv'
  <2>1. \A r \in Linked : LinkedOK(r)'
    BY <1>1, <1>2 DEF IndInv, LinkedInv, LinkedOK, published_record, NotInBaseline, Declared, Key
  <2> QED
    BY <1>1, <1>2, <2>1 DEF IndInv, LinkedInv, Key
<1>6. ASSUME NEW t \in Threads PROVE ThreadInv(t)'
  <2>1. ThreadInv(t)
    BY DEF IndInv
  <2>2. WantInv(t)' /\ SlotInv(t)' /\ StoreInv(t)' /\ FreshInv(t)'
    BY <1>1, <1>2, <2>1 DEF ThreadInv, WantInv, SlotInv, StoreInv, FreshInv, NotInBaseline,
       Declared, Key
  <2>3. HeadInv(t)' /\ MissInv(t)' /\ FoundInv(t)' /\ CountInv(t)'
    BY <1>1, <1>2, <2>1 DEF ThreadInv, HeadInv, MissInv, FoundInv, CountInv, MyBucket, MyRef, Key
  <2> QED
    BY <2>2, <2>3 DEF ThreadInv
<1>7. CountExact'
  BY <1>1, <1>2 DEF IndInv, CountExact, Counted
<1>8. RefusalsJustified' /\ answers' \subseteq Table'
  BY <1>1, <1>3, RefusalsStay DEF IndInv
<1> QED
  BY <1>1, <1>3, <1>4, <1>5, <1>6, <1>7, <1>8 DEF IndInv

(* A step of the space is a step, or none, of the abstract table.          *)
LEMMA NextRefines ==
    ASSUME IndInv, [Next]_vars
    PROVE  IndInv' /\ [Canonical!Next]_(Canonical!vars)
<1>0. TypeOK /\ LinkedInv
  BY DEF IndInv
(* Neither the table nor the answers change.                               *)
<1>1. ASSUME Table' = Table, answers' = answers
      PROVE  [Canonical!Next]_(Canonical!vars)
  BY <1>1 DEF Canonical!vars
(* An answer out of the table.                                             *)
<1>2. ASSUME NEW pair \in Table, answers' = answers \cup {pair}, Table' = Table
      PROVE  Canonical!Next
  BY <1>0, <1>2, TableType DEF Canonical!Next, Canonical!Answer
<1>3. CASE UNCHANGED vars
  BY <1>1, <1>3, StutterKeeps
<1>4. ASSUME NEW t \in Threads, Step(t) \/ \E wanted \in Records : Find(t, wanted)
      PROVE  IndInv' /\ [Canonical!Next]_(Canonical!vars)
  <2>1. CASE \/ LoadSlot(t) \/ SlotRefused(t) \/ TakeSlot(t) \/ TakeSlotFails(t) \/ Fill(t)
             \/ AllocationFails(t) \/ LoadHead(t) \/ Walk(t) \/ LinkFails(t)
    <3>1. IndInv' /\ Table' = Table /\ answers' = answers
      BY <2>1, LoadSlotKeeps, GiveUpKeeps, TakeSlotKeeps, TakeSlotFailsKeeps, FillKeeps,
         HeadKeeps, WalkKeeps
    <3> QED
      BY <1>1, <3>1
  <2>2. CASE Discard(t) \/ Count(t) \/ \E wanted \in Records : Find(t, wanted)
    <3>1. /\ IndInv' /\ Table' = Table
          /\ answers' = answers \/ \E pair \in Table : answers' = answers \cup {pair}
      BY <2>2, DiscardKeeps, CountKeeps, FindKeeps
    <3> QED
      BY <1>1, <1>2, <3>1
  <2>3. CASE Link(t)
    <3>1. IndInv' /\ Canonical!Intern(Key(want[t]), MyRef(t))
      BY <2>3, LinkKeeps
    <3>2. Key(want[t]) \in Keys /\ MyRef(t) \in Refs
      <4>1. pc[t] \in Holds
        BY <2>3 DEF Link, Holds, Stored
      <4> QED
        BY <4>1, HeldSlot, RecordType
    <3> QED
      BY <3>1, <3>2 DEF Canonical!Next
  <2> QED
    BY <1>4, <2>1, <2>2, <2>3 DEF Step
<1> QED
  BY <1>3, <1>4 DEF Next

LEMMA Inductive == Spec => []IndInv
<1>1. Init => IndInv
  BY InitIndInv
<1>2. IndInv /\ [Next]_vars => IndInv'
  BY NextRefines
<1> QED
  BY <1>1, <1>2, PTL DEF Spec

(* Every slot, ref and head stays in its range: no identity gets a slot    *)
(* that identity_ref cannot hold or that the baseline occupies.            *)
THEOREM TypeCorrect == Spec => []TypeOK
<1>1. IndInv => TypeOK
  BY DEF IndInv
<1> QED
  BY <1>1, Inductive, PTL

(* resolve_declaration canonicalises, however many threads run it at once: *)
(* the space implements the table whose only steps add a new name with a   *)
(* new ref and answer with a pair it has.                                  *)
THEOREM Refinement == Spec => Canonicalises
<1>1. Init => Canonical!Init
  BY InitTable DEF Init, Canonical!Init
<1>2. IndInv /\ [Next]_vars => [Canonical!Next]_(Canonical!vars)
  BY NextRefines
<1> QED
  BY <1>1, <1>2, Inductive, PTL DEF Spec, Canonicalises, Canonical!Spec

(* semantic_conflict is returned only for a name that is declared with     *)
(* another kind, and no walk ever meets a record that is not published.    *)
THEOREM Justified == Spec => []RefusalsJustified
<1>1. IndInv => RefusalsJustified
  BY DEF IndInv
<1> QED
  BY <1>1, Inductive, PTL

(* Following the parents of a new identity ends at the root.               *)
THEOREM ScopesFirst == Spec => []ParentsFirst
<1>1. ASSUME IndInv PROVE ParentsFirst
  <2>0. TypeOK /\ LinkedInv
    BY <1>1 DEF IndInv
  <2> SUFFICES ASSUME NEW pair \in Table \ BaselinePairs
               PROVE  /\ pair[1][1].slot < pair[2].slot
                      /\ pair[1][1] = Root \/ \E scope \in Table : scope[2] = pair[1][1]
    BY DEF ParentsFirst
  <2>1. PICK r \in Linked : pair = <<Key(record[r.slot]), r>>
    BY <2>0, TableHas DEF BaselinePairs
  <2>2. PICK p : p = record[r.slot].parent
    OBVIOUS
  <2>3. pair[1][1] = p /\ pair[2] = r
    BY <2>1, <2>2 DEF Key
  <2>4. p.slot < r.slot /\ Declared(p)
    BY <2>0, <2>2 DEF LinkedInv, LinkedOK
  <2>5. CASE \E i \in BaselineSlots : p = Ref(i)
    <3>1. PICK i \in BaselineSlots : p = Ref(i)
      BY <2>5
    <3>2. <<Key(Baseline[i]), p>> \in Table
      BY <2>0, <3>1, TableHas
    <3> QED
      BY <2>3, <2>4, <3>2
  <2>6. CASE p \in Linked
    <3>1. <<Key(record[p.slot]), p>> \in Table
      BY <2>0, <2>6, TableHas
    <3> QED
      BY <2>3, <2>4, <3>1
  <2>7. CASE p = Root
    BY <2>3, <2>4, <2>7
  <2> QED
    BY <2>4, <2>5, <2>6, <2>7 DEF Declared
<1> QED
  BY <1>1, Inductive, PTL

(* The baseline's refs are as many as its slots.                           *)
LEMMA BaselineCount ==
    LET R == {Ref(i) : i \in BaselineSlots}
    IN  /\ IsFiniteSet(BaselineSlots) /\ IsFiniteSet(R)
        /\ Cardinality(R) = Cardinality(BaselineSlots)
        /\ Cardinality(R) \in Nat
<1> DEFINE R == {Ref(i) : i \in BaselineSlots}
<1>1. IsFiniteSet(BaselineSlots)
  <2>1. Len(Baseline) \in Nat /\ BaselineSlots \subseteq 1..Len(Baseline)
    BY SpaceAssumption DEF BaselineSlots
  <2>2. IsFiniteSet(1..Len(Baseline))
    BY <2>1, FS_Interval
  <2> QED
    BY <2>1, <2>2, FS_Subset
<1> DEFINE f == [i \in BaselineSlots |-> Ref(i)]
<1>2. f \in Bijection(BaselineSlots, R)
  <2>1. f \in [BaselineSlots -> R]
    OBVIOUS
  <2>2. \A i, j \in BaselineSlots : f[i] = f[j] => i = j
    BY BaselineType
  <2>3. \A r \in R : \E i \in BaselineSlots : f[i] = r
    OBVIOUS
  <2> QED
    BY <2>1, <2>2, <2>3 DEF Bijection, Injection, IsInjective, Surjection
<1>3. ExistsBijection(BaselineSlots, R)
  BY <1>2 DEF ExistsBijection
<1> HIDE DEF R
<1>4. IsFiniteSet(R) /\ Cardinality(R) = Cardinality(BaselineSlots)
  BY <1>1, <1>3, FS_Bijection
<1>5. Cardinality(R) \in Nat
  BY <1>4, FS_CardinalityType
<1> QED
  BY <1>1, <1>4, <1>5 DEF R

(* Between calls, SAVE finds in the slots exactly the identities declared, *)
(* and size() counts them.                                                 *)
THEOREM Saved == Spec => []SavedExactly
<1>1. ASSUME IndInv PROVE SavedExactly
  <2>0. TypeOK /\ LinkedInv /\ NoOrphans /\ CountExact /\ NextInv
    BY <1>1 DEF IndInv
  <2> SUFFICES ASSUME \A t \in Threads : pc[t] = "idle"
               PROVE  /\ at_slot = {Root} \cup {pair[2] : pair \in Table}
                      /\ Cardinality(at_slot) = identity_count +
                            (IF Baseline = <<>> THEN 0 ELSE Cardinality(BaselineSlots) + 1)
    BY DEF SavedExactly
  <2> DEFINE R == {Ref(i) : i \in BaselineSlots}
  <2>1. {ref \in Refs : ref.slot < next_slot /\ published_record(ref)} = Linked
    <3>1. ASSUME NEW ref \in Refs, published_record(ref) PROVE ref \in Linked
      <4>1. ref.slot \in DOMAIN record /\ record[ref.slot] # Hole /\ record[ref.slot].kind = ref.kind
        BY <3>1 DEF published_record
      <4>2. PICK r \in Linked : r.slot = ref.slot
        BY <2>0, <4>1 DEF NoOrphans, Stored
      <4> QED
        BY <2>0, <4>1, <4>2, LinkedRecord, RefEqual
    <3>2. ASSUME NEW r \in Linked PROVE r \in Refs /\ r.slot < next_slot /\ published_record(r)
      BY <2>0, LinkedType DEF LinkedInv, LinkedOK
    <3> QED
      BY <3>1, <3>2
  <2>2. at_slot = {Root} \cup R \cup Linked
    BY <2>1 DEF at_slot
  <2>3. \A ref : (\E pair \in Table : ref = pair[2]) <=> ref \in R \/ ref \in Linked
    <3>1. ASSUME NEW ref, NEW pair \in Table, ref = pair[2] PROVE ref \in R \/ ref \in Linked
      BY <2>0, <3>1, TableHas
    <3>2. ASSUME NEW i \in BaselineSlots PROVE \E pair \in Table : Ref(i) = pair[2]
      <4>1. <<Key(Baseline[i]), Ref(i)>> \in Table
        BY <2>0, TableHas
      <4> QED
        BY <4>1
    <3>3. ASSUME NEW r \in Linked PROVE \E pair \in Table : r = pair[2]
      <4>1. <<Key(record[r.slot]), r>> \in Table
        BY <2>0, TableHas
      <4> QED
        BY <4>1
    <3> QED
      BY <3>1, <3>2, <3>3
  <2>4. at_slot = {Root} \cup {pair[2] : pair \in Table}
    BY <2>2, <2>3
  <2>5. Counted = Linked
    BY DEF Counted
  <2>6. IsFiniteSet(Linked) /\ Cardinality(Linked) \in Nat
        /\ identity_count = Cardinality(Linked) + (IF Baseline = <<>> THEN 1 ELSE 0)
    BY <2>0, <2>5, FS_CardinalityType DEF CountExact
  <2>7. IsFiniteSet(R) /\ Cardinality(R) = Cardinality(BaselineSlots) /\ Cardinality(R) \in Nat
    BY BaselineCount
  <2>8. R \cap Linked = {} /\ Root \notin R \cup Linked
    <3>1. ASSUME NEW i \in BaselineSlots, Ref(i) \in Linked PROVE FALSE
      <4>1. Ref(i).slot = i /\ i \in DOMAIN Baseline
        BY BaselineType
      <4>2. Ref(i).slot \in DOMAIN record
        BY <2>0, <3>1, LinkedRecord
      <4> QED
        BY <2>0, <4>1, <4>2 DEF TypeOK
    <3>2. \A r \in R \cup Linked : r \in Refs
      BY <2>0, BaselineType, LinkedType
    <3>3. Root \notin R \cup Linked
      BY <3>2, RefType
    <3> QED
      BY <3>1, <3>3
  <2> HIDE DEF R
  <2>9. IsFiniteSet(R \cup Linked) /\ Cardinality(R \cup Linked) = Cardinality(R) + Cardinality(Linked)
    <3>1. Cardinality(R \cap Linked) = 0
      BY <2>8, FS_EmptySet
    <3> QED
      BY <2>6, <2>7, <3>1, FS_Union
  <2>10. at_slot = (R \cup Linked) \cup {Root}
    BY <2>2
  <2>11. Cardinality(at_slot) = Cardinality(R) + Cardinality(Linked) + 1
    BY <2>8, <2>9, <2>10, FS_AddElement
  <2>12. Baseline = <<>> => Cardinality(R) = 0
    <3>1. Baseline = <<>> => BaselineSlots = {}
      BY DEF BaselineSlots
    <3> QED
      BY <2>7, <3>1, FS_EmptySet
  <2> QED
    BY <2>4, <2>6, <2>7, <2>11, <2>12
<1> QED
  BY <1>1, Inductive, PTL
=============================================================================
