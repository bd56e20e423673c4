------------------------- MODULE StringTable_proofs -------------------------
(***************************************************************************)
(* StringTable canonicalises for any number of threads, strings, buckets   *)
(* and ids, as long as next_id does not come round.                        *)
(***************************************************************************)
EXTENDS StringTable, FiniteSetTheorems, TLAPS

(* The 32-bit counter next_id does not come round: refused calls count too. *)
NoWrap == Start + MaxDraws < IdModulus

-----------------------------------------------------------------------------
(* Facts about the geometry of pages                                       *)

(* Every id has its page.                                                  *)
LEMMA PageRange ==
    ASSUME NEW id \in 1..MaxId
    PROVE  /\ PageOf(id) \in PageIds
           /\ SlotOf(id) \in 0..(PageSize - 1)
<1> DEFINE a == id - 1
           z == MaxId - 1
           n == PageSize
<1>1. a \in Nat /\ z \in Nat /\ a <= z /\ n \in Nat \ {0}
  BY TableAssumption
<1> HIDE DEF a, z, n
<1>2. /\ a \div n \in Nat /\ a % n \in 0..(n - 1) /\ a = n * (a \div n) + (a % n)
      /\ z \div n \in Nat /\ z % n \in 0..(n - 1) /\ z = n * (z \div n) + (z % n)
  BY <1>1, SMT
<1>3. a \div n <= z \div n
  <2>1. SUFFICES ASSUME a \div n >= (z \div n) + 1 PROVE FALSE
    BY <1>2
  <2> DEFINE p == a \div n
             q == z \div n
  <2>2. p \in Nat /\ q \in Nat /\ p >= q + 1
    BY <1>2, <2>1
  <2>3. n * p >= n * (q + 1)
    BY <1>1, <2>2, SMT
  <2>4. n * (q + 1) = n * q + n
    BY <1>1, <2>2, SMT
  <2> QED
    BY <1>1, <1>2, <2>3, <2>4, SMT
<1> QED
  BY <1>2, <1>3 DEF PageOf, SlotOf, PageIds, a, z, n

(* Different ids never share a slot of a page.                             *)
LEMMA SlotsDiffer ==
    ASSUME NEW i \in 1..MaxId, NEW j \in 1..MaxId,
           PageOf(i) = PageOf(j), SlotOf(i) = SlotOf(j)
    PROVE  i = j
<1> DEFINE n == PageSize
           a == i - 1
           b == j - 1
<1>1. n \in Nat \ {0} /\ a \in Nat /\ b \in Nat
  BY TableAssumption
<1>2. a \div n = b \div n /\ a % n = b % n
  BY DEF PageOf, SlotOf
<1> HIDE DEF a, b, n
<1>3. a = n * (a \div n) + (a % n) /\ b = n * (b \div n) + (b % n)
  BY <1>1, SMT
<1>4. a = b
  BY <1>2, <1>3
<1> QED
  BY <1>4, TableAssumption DEF a, b

-----------------------------------------------------------------------------
(* Type correctness                                                        *)

LEMMA TypeInit == Init => TypeOK
<1> SUFFICES ASSUME Init PROVE TypeOK
  OBVIOUS
<1> USE TableAssumption
<1>1. Start \in 1..MaxId /\ Start < IdModulus /\ Start % IdModulus = Start
  BY DEF Start
<1>2. Cardinality(Buckets) \in Nat
  BY FS_CardinalityType
<1>3. /\ chains \in Seq(Seq(Nat))
      /\ bucket_pages \in [Buckets -> 0..Len(chains)]
  <2>1. CASE Dense
    <3> DEFINE n == Cardinality(Buckets)
    <3>1. n \in Nat /\ chains = [i \in 1..n |-> <<>>] /\ bucket_pages \in [Buckets -> 1..n]
      BY <1>2, <2>1 DEF Init
    <3> HIDE DEF n
    <3>2. chains \in Seq(Seq(Nat)) /\ Len(chains) = n
      BY <3>1
    <3> QED
      BY <3>1, <3>2
  <2>2. CASE ~Dense
    BY <2>2 DEF Init
  <2> QED
    BY <2>1, <2>2
<1> QED
  BY <1>1, <1>3 DEF Init, TypeOK, Positions

(* Returning from intern keeps the types of the thread's variables.        *)
LEMMA TypeReturn ==
    ASSUME TypeOK, NEW t \in Threads, NEW pairs,
           pairs \subseteq Strings \X (1..MaxId),
           Return(t, pairs)
    PROVE  /\ answers' \subseteq Strings \X (1..MaxId)
           /\ pc' \in [Threads -> Positions]
           /\ text' \in [Threads -> Strings \cup {Hole}]
           /\ bucket' \in [Threads -> 0..Len(chains)]
           /\ direct' \in [Threads -> 0..Len(slots)]
           /\ candidate' \in [Threads -> 0..Len(arena)]
           /\ head' \in [Threads -> Nat]
           /\ found' \in [Threads -> 0..MaxId]
BY TableAssumption DEF TypeOK, Return, Go, Positions

-----------------------------------------------------------------------------
(* The inductive invariant                                                 *)

HasBucket == {"allocate", "page", "install_page", "store", "head", "walk", "clear",
              "link", "count"}
HasRecord == HasBucket \ {"allocate"}
HasPage   == HasRecord \ {"page", "install_page"}
HasSlot   == HasPage \ {"store"}

NotInBaseline(s) == \A i \in DOMAIN Baseline : Baseline[i] # s

(* Ids are given out in order, to one record each.                         *)
IdInv ==
    /\ next_id = Start + draws
    /\ \A r \in 1..Len(arena) : Start <= arena[r].id /\ arena[r].id < next_id
    /\ \A q, r \in 1..Len(arena) : arena[q].id = arena[r].id => q = r

(* No two buckets share a chain, no two pages of ids a page of slots.      *)
PageInv ==
    /\ \A a, b \in Buckets : bucket_pages[a] = bucket_pages[b] /\ bucket_pages[a] # 0 => a = b
    /\ \A i, j \in PageIds : pages[i] = pages[j] /\ pages[i] # 0 => i = j

(* The r-th record belongs into bucket b, is new, and can be read.         *)
LinkedOK(b, r) ==
    /\ r \in 1..Len(arena)
    /\ BucketOf[arena[r].text] = b
    /\ NotInBaseline(arena[r].text)
    /\ SlotRecord(arena[r].id) = r

ChainInv ==
    \A b \in Buckets :
        /\ \A i \in 1..Len(Chain(b)) : LinkedOK(b, Chain(b)[i])
        /\ \A i, j \in 1..Len(Chain(b)) :
              arena[Chain(b)[i]].text = arena[Chain(b)[j]].text => i = j

MyChain(t) == Chain(BucketOf[text[t]])

(* What a thread knows at its position.                                    *)
TextInv(t)   == pc[t] # "idle" => text[t] \in Strings /\ NotInBaseline(text[t])
BucketInv(t) == pc[t] \in HasBucket =>
                    bucket[t] # 0 /\ bucket[t] = bucket_pages[BucketOf[text[t]]]
RecordInv(t) == pc[t] \in HasRecord =>
                    candidate[t] \in 1..Len(arena) /\ arena[candidate[t]].text = text[t]
DirectInv(t) == pc[t] \in HasPage =>
                    direct[t] # 0 /\ direct[t] = pages[PageOf(MyId(t))]
SlotInv(t)   == pc[t] \in HasSlot => SlotRecord(MyId(t)) = candidate[t]
HeadInv(t)   == pc[t] \in {"walk", "link"} => head[t] <= Len(MyChain(t))
MissInv(t)   == pc[t] = "link" =>
                    \A i \in 1..head[t] : arena[MyChain(t)[i]].text # text[t]
FoundInv(t)  == pc[t] = "clear" =>
                    \E i \in 1..Len(MyChain(t)) : /\ arena[MyChain(t)[i]].text = text[t]
                                                  /\ arena[MyChain(t)[i]].id = found[t]
FreshInv(t)  == pc[t] \in HasRecord \ {"count"} =>
                    \A b \in Buckets : \A i \in 1..Len(Chain(b)) : Chain(b)[i] # candidate[t]
LinkInv(t)   == pc[t] = "count" =>
                    \E i \in 1..Len(MyChain(t)) : MyChain(t)[i] = candidate[t]

ThreadInv(t) ==
    /\ TextInv(t) /\ BucketInv(t) /\ RecordInv(t) /\ DirectInv(t) /\ SlotInv(t)
    /\ HeadInv(t) /\ MissInv(t) /\ FoundInv(t) /\ FreshInv(t) /\ LinkInv(t)

(* No two threads work on the same record.                                 *)
OwnRecords ==
    \A t, u \in Threads :
        pc[t] \in HasRecord /\ pc[u] \in HasRecord /\ candidate[t] = candidate[u] => t = u

IndInv ==
    /\ TypeOK
    /\ IdInv
    /\ PageInv
    /\ ChainInv
    /\ \A t \in Threads : ThreadInv(t)
    /\ OwnRecords
    /\ answers \subseteq Table

-----------------------------------------------------------------------------
(* What steps leave alone                                                  *)

(* The records, chains and pages that exist stay as they are.              *)
Growth ==
    /\ Len(arena) <= Len(arena')
    /\ \A r \in 1..Len(arena) : arena'[r] = arena[r]
    /\ \A b \in Buckets : bucket_pages[b] # 0 => bucket_pages'[b] = bucket_pages[b]
    /\ \A b \in Buckets : /\ Len(Chain(b)) <= Len(Chain(b)')
                          /\ \A i \in 1..Len(Chain(b)) : (Chain(b)')[i] = Chain(b)[i]
    /\ \A i \in PageIds : pages[i] # 0 => pages'[i] = pages[i]

ChainsKept == \A b \in Buckets : Chain(b)' = Chain(b)
SlotsKept  == \A id \in 1..MaxId : SlotRecord(id)' = SlotRecord(id)

(* A step of t leaves the other threads' variables alone.                  *)
Others(t) ==
    \A u \in Threads \ {t} :
        /\ pc'[u] = pc[u] /\ text'[u] = text[u] /\ bucket'[u] = bucket[u]
        /\ direct'[u] = direct[u] /\ candidate'[u] = candidate[u]
        /\ head'[u] = head[u] /\ found'[u] = found[u]

LEMMA StepsAreLocal ==
    ASSUME TypeOK, NEW t \in Threads, Step(t) \/ \E s \in Strings : Find(t, s)
    PROVE  Others(t)
<1> USE DEF TypeOK, Others, Go, Return
<1>1. CASE BucketLoad(t)       BY <1>1 DEF BucketLoad
<1>2. CASE BucketInstall(t)    BY <1>2 DEF BucketInstall
<1>3. CASE DrawId(t)           BY <1>3, SMTT(30) DEF DrawId
<1>4. CASE PageLoad(t)         BY <1>4 DEF PageLoad
<1>5. CASE PageInstall(t)      BY <1>5 DEF PageInstall
<1>6. CASE AllocationFails(t)  BY <1>6 DEF AllocationFails
<1>7. CASE StoreSlot(t)        BY <1>7 DEF StoreSlot
<1>8. CASE LoadHead(t)         BY <1>8 DEF LoadHead
<1>9. CASE Walk(t)             BY <1>9 DEF Walk
<1>10. CASE ClearSlot(t)       BY <1>10 DEF ClearSlot
<1>11. CASE Link(t)            BY <1>11 DEF Link
<1>12. CASE LinkFails(t)       BY <1>12 DEF LinkFails
<1>13. CASE Count(t)           BY <1>13 DEF Count
<1>14. CASE \E s \in Strings : Find(t, s)
  BY <1>14 DEF Find
<1> QED
  BY <1>1, <1>2, <1>3, <1>4, <1>5, <1>6, <1>7, <1>8, <1>9, <1>10, <1>11, <1>12, <1>13,
     <1>14 DEF Step

(* A step that changes no shared variable.                                 *)
LEMMA LocalFrame ==
    ASSUME TypeOK, UNCHANGED sharedVars
    PROVE  Growth /\ ChainsKept /\ SlotsKept
BY DEF TypeOK, sharedVars, Growth, ChainsKept, SlotsKept, Chain, SlotRecord

LEMMA ChainType ==
    ASSUME TypeOK, NEW b \in Buckets
    PROVE  Chain(b) \in Seq(Nat)
BY DEF TypeOK, Chain

LEMMA KeptChainsGrow ==
    ASSUME TypeOK, ChainsKept
    PROVE  \A b \in Buckets : /\ Len(Chain(b)) <= Len(Chain(b)')
                             /\ \A i \in 1..Len(Chain(b)) : (Chain(b)')[i] = Chain(b)[i]
<1> TAKE b \in Buckets
<1>1. Chain(b) \in Seq(Nat)
  BY ChainType
<1>2. Chain(b)' = Chain(b)
  BY DEF ChainsKept
<1>3. Len(Chain(b)) \in Nat
  BY <1>1
<1> QED
  BY <1>2, <1>3

(* Installing a bucket page leaves every chain as it was.                  *)
LEMMA BucketInstallFrame ==
    ASSUME TypeOK, PageInv, NEW t \in Threads, TextInv(t), BucketInstall(t)
    PROVE  /\ chains' \in Seq(Seq(Nat))
           /\ bucket_pages' \in [Buckets -> 0..Len(chains')]
           /\ Len(chains) <= Len(chains')
           /\ bucket_pages'[BucketOf[text[t]]] # 0
           /\ Growth /\ ChainsKept /\ SlotsKept /\ PageInv'
<1> DEFINE b == BucketOf[text[t]]
<1>0. b \in Buckets
  BY TableAssumption DEF TextInv, BucketInstall
<1> HIDE DEF b
<1>1. CASE bucket_pages[b] = 0
  <2>1. /\ chains' = Append(chains, <<>>)
        /\ bucket_pages' = [bucket_pages EXCEPT ![b] = Len(chains')]
        /\ UNCHANGED <<arena, pages, slots>>
    BY <1>1 DEF BucketInstall, b
  <2>2. chains' \in Seq(Seq(Nat)) /\ Len(chains') = Len(chains) + 1
        /\ chains'[Len(chains) + 1] = <<>>
        /\ \A p \in 1..Len(chains) : chains'[p] = chains[p]
    BY <2>1 DEF TypeOK
  <2>3. /\ bucket_pages' \in [Buckets -> 0..Len(chains')]
        /\ bucket_pages'[b] = Len(chains) + 1
        /\ \A c \in Buckets : c # b => bucket_pages'[c] = bucket_pages[c]
    BY <1>0, <2>1, <2>2 DEF TypeOK
  <2>4. ChainsKept
    <3> SUFFICES ASSUME NEW c \in Buckets PROVE Chain(c)' = Chain(c)
      BY DEF ChainsKept
    <3>1. CASE c = b
      BY <1>1, <2>2, <2>3, <3>1 DEF Chain, TypeOK
    <3>2. CASE c # b /\ bucket_pages[c] = 0
      BY <2>3, <3>2 DEF Chain
    <3>3. CASE c # b /\ bucket_pages[c] # 0
      <4>1. bucket_pages'[c] = bucket_pages[c] /\ bucket_pages[c] \in 1..Len(chains)
        BY <2>3, <3>3 DEF TypeOK
      <4> QED
        BY <2>2, <4>1 DEF Chain
    <3> QED
      BY <3>1, <3>2, <3>3
  <2>5. SlotsKept
    BY <2>1 DEF SlotsKept, SlotRecord
  <2>6. PageInv'
    BY <2>1, <2>2, <2>3 DEF PageInv, TypeOK
  <2>7. Growth
    <3>1. /\ Len(arena) <= Len(arena')
          /\ \A r \in 1..Len(arena) : arena'[r] = arena[r]
          /\ \A i \in PageIds : pages[i] # 0 => pages'[i] = pages[i]
      BY <2>1 DEF TypeOK
    <3>2. \A c \in Buckets : bucket_pages[c] # 0 => bucket_pages'[c] = bucket_pages[c]
      BY <1>1, <2>3
    <3> QED
      BY <2>4, <3>1, <3>2, KeptChainsGrow, Zenon DEF Growth
  <2>8. bucket_pages'[BucketOf[text[t]]] # 0 /\ Len(chains) <= Len(chains')
    BY <2>2, <2>3, SMTT(30) DEF b, TypeOK
  <2> QED
    BY <2>2, <2>3, <2>4, <2>5, <2>6, <2>7, <2>8, Zenon
<1>2. CASE bucket_pages[b] # 0
  <2>1. UNCHANGED sharedVars
    BY <1>2 DEF BucketInstall, b, sharedVars
  <2>2. UNCHANGED <<chains, bucket_pages, pages>>
    BY <2>1 DEF sharedVars
  <2>3. Growth /\ ChainsKept /\ SlotsKept
    BY <2>1, LocalFrame
  <2>4. PageInv'
    BY <2>2 DEF PageInv
  <2>5. Len(chains) <= Len(chains') /\ bucket_pages'[BucketOf[text[t]]] # 0
    BY <1>2, <2>2 DEF TypeOK, b
  <2> QED
    BY <2>2, <2>3, <2>4, <2>5 DEF TypeOK
<1> QED
  BY <1>1, <1>2

(* Drawing an id adds a record and changes none.                           *)
LEMMA DrawIdFrame ==
    ASSUME TypeOK, NEW t \in Threads, text[t] \in Strings,
           next_id \in 1..MaxId,
           arena' = Append(arena, [text |-> text[t], id |-> next_id]),
           UNCHANGED <<bucket_pages, chains, pages, slots>>
    PROVE  /\ arena' \in Seq([text : Strings, id : 1..MaxId])
           /\ Len(arena') = Len(arena) + 1
           /\ arena'[Len(arena')] = [text |-> text[t], id |-> next_id]
           /\ Growth /\ ChainsKept /\ SlotsKept
<1>1. /\ arena' \in Seq([text : Strings, id : 1..MaxId])
      /\ Len(arena') = Len(arena) + 1
      /\ arena'[Len(arena')] = [text |-> text[t], id |-> next_id]
      /\ \A r \in 1..Len(arena) : arena'[r] = arena[r]
  BY DEF TypeOK
<1>2. ChainsKept /\ SlotsKept
  BY DEF ChainsKept, SlotsKept, Chain, SlotRecord
<1>3. Growth
  <2>1. /\ Len(arena) <= Len(arena')
        /\ \A i \in PageIds : pages[i] # 0 => pages'[i] = pages[i]
        /\ \A b \in Buckets : bucket_pages[b] # 0 => bucket_pages'[b] = bucket_pages[b]
    BY <1>1 DEF TypeOK
  <2> QED
    BY <1>1, <1>2, <2>1, KeptChainsGrow, Zenon DEF Growth
<1> QED
  BY <1>1, <1>2, <1>3

LEMMA MyIdType ==
    ASSUME TypeOK, NEW t \in Threads, RecordInv(t), pc[t] \in HasRecord
    PROVE  MyId(t) \in 1..MaxId
<1>1. candidate[t] \in 1..Len(arena)
  BY DEF RecordInv
<1>2. arena[candidate[t]] \in [text : Strings, id : 1..MaxId]
  <2> DEFINE R == [text : Strings, id : 1..MaxId]
  <2>1. arena \in Seq(R)
    BY DEF TypeOK
  <2> HIDE DEF R
  <2>2. arena[candidate[t]] \in R
    BY <1>1, <2>1
  <2> QED
    BY <2>2 DEF R
<1> QED
  BY <1>2 DEF MyId

(* Installing a record page leaves every slot as it was.                   *)
LEMMA PageInstallFrame ==
    ASSUME TypeOK, PageInv, NEW t \in Threads, RecordInv(t), PageInstall(t)
    PROVE  /\ slots' \in Seq([0..(PageSize - 1) -> Nat])
           /\ pages' \in [PageIds -> 0..Len(slots')]
           /\ Len(slots) <= Len(slots')
           /\ pages'[PageOf(MyId(t))] # 0
           /\ Growth /\ ChainsKept /\ SlotsKept /\ PageInv'
<1> DEFINE i == PageOf(MyId(t))
<1>0. MyId(t) \in 1..MaxId /\ i \in PageIds
  <2>1. MyId(t) \in 1..MaxId
    BY MyIdType DEF HasRecord, HasBucket, PageInstall
  <2> QED
    BY <2>1, PageRange
<1> HIDE DEF i
<1>1. CASE pages[i] = 0
  <2>1. /\ slots' = Append(slots, NewPage)
        /\ pages' = [pages EXCEPT ![i] = Len(slots')]
        /\ UNCHANGED <<arena, bucket_pages, chains>>
    BY <1>1 DEF PageInstall, i
  <2>2. NewPage \in [0..(PageSize - 1) -> Nat] /\ \A k \in 0..(PageSize - 1) : NewPage[k] = 0
    BY DEF NewPage
  <2>3. /\ slots' \in Seq([0..(PageSize - 1) -> Nat]) /\ Len(slots') = Len(slots) + 1
        /\ slots'[Len(slots) + 1] = NewPage
        /\ \A p \in 1..Len(slots) : slots'[p] = slots[p]
    BY <2>1, <2>2 DEF TypeOK
  <2>4. /\ pages' \in [PageIds -> 0..Len(slots')]
        /\ pages'[i] = Len(slots) + 1
        /\ \A j \in PageIds : j # i => pages'[j] = pages[j]
    BY <1>0, <2>1, <2>3 DEF TypeOK
  <2>5. SlotsKept
    <3> SUFFICES ASSUME NEW id \in 1..MaxId PROVE SlotRecord(id)' = SlotRecord(id)
      BY DEF SlotsKept
    <3>0. PageOf(id) \in PageIds /\ SlotOf(id) \in 0..(PageSize - 1)
      BY PageRange
    <3>1. CASE PageOf(id) = i
      <4>1. pages'[PageOf(id)] # 0 /\ slots'[pages'[PageOf(id)]] = NewPage
        BY <2>3, <2>4, <3>1 DEF TypeOK
      <4>2. SlotRecord(id)' = 0
        BY <2>2, <3>0, <4>1 DEF SlotRecord
      <4> QED
        BY <1>1, <3>1, <4>2 DEF SlotRecord
    <3>2. CASE PageOf(id) # i /\ pages[PageOf(id)] = 0
      BY <2>4, <3>0, <3>2 DEF SlotRecord
    <3>3. CASE PageOf(id) # i /\ pages[PageOf(id)] # 0
      <4>1. pages'[PageOf(id)] = pages[PageOf(id)] /\ pages[PageOf(id)] \in 1..Len(slots)
        BY <2>4, <3>0, <3>3 DEF TypeOK
      <4> QED
        BY <2>3, <4>1 DEF SlotRecord
    <3> QED
      BY <3>1, <3>2, <3>3
  <2>6. ChainsKept
    BY <2>1 DEF ChainsKept, Chain
  <2>7. Growth
    <3>1. /\ Len(arena) <= Len(arena')
          /\ \A r \in 1..Len(arena) : arena'[r] = arena[r]
          /\ \A b \in Buckets : bucket_pages[b] # 0 => bucket_pages'[b] = bucket_pages[b]
      BY <2>1 DEF TypeOK
    <3>2. \A j \in PageIds : pages[j] # 0 => pages'[j] = pages[j]
      BY <1>1, <2>4
    <3> QED
      BY <2>6, <3>1, <3>2, KeptChainsGrow, Zenon DEF Growth
  <2>8. PageInv'
    BY <2>1, <2>3, <2>4 DEF PageInv, TypeOK
  <2>9. pages'[PageOf(MyId(t))] # 0 /\ Len(slots) <= Len(slots')
    BY <2>3, <2>4 DEF i, TypeOK
  <2> QED
    BY <2>3, <2>4, <2>5, <2>6, <2>7, <2>8, <2>9, Zenon
<1>2. CASE pages[i] # 0
  <2>1. UNCHANGED sharedVars
    BY <1>2 DEF PageInstall, i, sharedVars
  <2>2. UNCHANGED <<slots, bucket_pages, pages>>
    BY <2>1 DEF sharedVars
  <2>3. Growth /\ ChainsKept /\ SlotsKept
    BY <2>1, LocalFrame
  <2>4. PageInv'
    BY <2>2 DEF PageInv
  <2>5. Len(slots) <= Len(slots') /\ pages'[PageOf(MyId(t))] # 0
    BY <1>2, <2>2 DEF TypeOK, i
  <2> QED
    BY <2>2, <2>3, <2>4, <2>5 DEF TypeOK
<1> QED
  BY <1>1, <1>2

(* Storing into the candidate's slot changes what that id reads, and only  *)
(* that.                                                                   *)
LEMMA SlotWriteFrame ==
    ASSUME TypeOK, PageInv, NEW t \in Threads, RecordInv(t), DirectInv(t),
           pc[t] \in HasPage, NEW me \in 1..MaxId, me = MyId(t), NEW v \in Nat,
           slots' = [slots EXCEPT ![direct[t]][SlotOf(MyId(t))] = v],
           UNCHANGED <<arena, bucket_pages, chains, pages>>
    PROVE  /\ slots' \in Seq([0..(PageSize - 1) -> Nat])
           /\ Len(slots') = Len(slots)
           /\ SlotRecord(me)' = v
           /\ \A id \in 1..MaxId : id # me => SlotRecord(id)' = SlotRecord(id)
           /\ Growth /\ ChainsKept
<1> DEFINE k == SlotOf(me)
           p == pages[PageOf(me)]
<1>0. PageOf(me) \in PageIds /\ k \in 0..(PageSize - 1)
  BY PageRange
<1>1. p # 0 /\ p \in 1..Len(slots) /\ p = direct[t]
  BY <1>0 DEF DirectInv, TypeOK
<1>2. slots[p] \in [0..(PageSize - 1) -> Nat]
  BY <1>1 DEF TypeOK
<1>3. slots' = [slots EXCEPT ![p] = [slots[p] EXCEPT ![k] = v]]
  BY <1>1
<1>4. /\ slots' \in Seq([0..(PageSize - 1) -> Nat])
      /\ Len(slots') = Len(slots)
      /\ slots'[p] = [slots[p] EXCEPT ![k] = v]
      /\ \A q \in 1..Len(slots) : q # p => slots'[q] = slots[q]
  <2> DEFINE new == [slots[p] EXCEPT ![k] = v]
  <2>1. new \in [0..(PageSize - 1) -> Nat]
    BY <1>0, <1>2
  <2> HIDE DEF new, p
  <2> DEFINE P == [0..(PageSize - 1) -> Nat]
  <2>2. slots \in Seq(P) /\ slots' = [slots EXCEPT ![p] = new] /\ new \in P
    BY <1>3, <2>1 DEF TypeOK, new
  <2> HIDE DEF P
  <2>3. /\ slots' \in Seq(P)
        /\ Len(slots') = Len(slots)
        /\ slots'[p] = new
        /\ \A q \in 1..Len(slots) : q # p => slots'[q] = slots[q]
    BY <1>1, <2>2
  <2> QED
    BY <2>3 DEF new, P
<1>5. SlotRecord(me)' = v
  <2>1. slots'[p][k] = v
    <3>1. k \in 0..(PageSize - 1) /\ slots[p] \in [0..(PageSize - 1) -> Nat]
      BY <1>0, <1>2
    <3>2. slots'[p] = [slots[p] EXCEPT ![k] = v]
      BY <1>4
    <3> HIDE DEF k, p
    <3> QED
      BY <3>1, <3>2
  <2> QED
    BY <1>1, <2>1 DEF SlotRecord
<1>6. ASSUME NEW id \in 1..MaxId, id # me
      PROVE  SlotRecord(id)' = SlotRecord(id)
  <2>0. PageOf(id) \in PageIds /\ SlotOf(id) \in 0..(PageSize - 1)
    BY PageRange
  <2>1. CASE PageOf(id) = PageOf(me)
    <3>1. SlotOf(id) # k
      BY <1>6, <2>1, SlotsDiffer
    <3> QED
      BY <1>1, <1>2, <1>4, <2>0, <2>1, <3>1, SMTT(30) DEF SlotRecord
  <2>2. CASE PageOf(id) # PageOf(me) /\ pages[PageOf(id)] = 0
    BY <2>2 DEF SlotRecord
  <2>3. CASE PageOf(id) # PageOf(me) /\ pages[PageOf(id)] # 0
    <3>1. pages[PageOf(id)] # p /\ pages[PageOf(id)] \in 1..Len(slots)
      BY <1>0, <1>1, <2>0, <2>3, SMTT(30) DEF PageInv, TypeOK
    <3> QED
      BY <1>4, <3>1 DEF SlotRecord
  <2> QED
    BY <2>1, <2>2, <2>3
<1>7. ChainsKept
  BY DEF ChainsKept, Chain
<1>8. Growth
  <2>1. /\ Len(arena) <= Len(arena')
        /\ \A r \in 1..Len(arena) : arena'[r] = arena[r]
        /\ \A b \in Buckets : bucket_pages[b] # 0 => bucket_pages'[b] = bucket_pages[b]
        /\ \A i \in PageIds : pages[i] # 0 => pages'[i] = pages[i]
    BY DEF TypeOK
  <2> QED
    BY <1>7, <2>1, KeptChainsGrow, Zenon DEF Growth
<1> QED
  BY <1>4, <1>5, <1>6, <1>7, <1>8, Zenon

(* Linking appends the candidate to its own chain.                         *)
LEMMA LinkFrame ==
    ASSUME TypeOK, PageInv, NEW t \in Threads, TextInv(t), BucketInv(t), RecordInv(t), Link(t),
           NEW mine, mine = BucketOf[text[t]]
    PROVE  /\ mine \in Buckets
           /\ chains' \in Seq(Seq(Nat))
           /\ Len(chains') = Len(chains)
           /\ Chain(mine)' = Append(Chain(mine), candidate[t])
           /\ \A b \in Buckets : b # mine => Chain(b)' = Chain(b)
           /\ Growth /\ SlotsKept
<1>0. /\ pc[t] = "link" /\ mine \in Buckets /\ candidate[t] \in Nat
      /\ UNCHANGED <<arena, bucket_pages, pages, slots>>
  BY TableAssumption DEF TextInv, Link, TypeOK
<1> DEFINE p == bucket_pages[mine]
<1>1. p # 0 /\ p \in 1..Len(chains) /\ p = bucket[t]
  BY <1>0 DEF BucketInv, HasBucket, TypeOK
<1>2. chains' = [chains EXCEPT ![p] = Append(chains[p], candidate[t])]
  BY <1>1 DEF Link, LinkOnto
<1>3. /\ chains' \in Seq(Seq(Nat))
      /\ Len(chains') = Len(chains)
      /\ chains'[p] = Append(chains[p], candidate[t])
      /\ \A q \in 1..Len(chains) : q # p => chains'[q] = chains[q]
  <2> DEFINE new == Append(chains[p], candidate[t])
  <2>1. new \in Seq(Nat)
    BY <1>0, <1>1 DEF TypeOK
  <2> HIDE DEF new, p
  <2>2. chains \in Seq(Seq(Nat)) /\ chains' = [chains EXCEPT ![p] = new]
    BY <1>2 DEF TypeOK, new
  <2>3. /\ chains' \in Seq(Seq(Nat))
        /\ Len(chains') = Len(chains)
        /\ chains'[p] = new
        /\ \A q \in 1..Len(chains) : q # p => chains'[q] = chains[q]
    BY <1>1, <2>1, <2>2
  <2> QED
    BY <2>3 DEF new
<1>4. Chain(mine)' = Append(Chain(mine), candidate[t])
  BY <1>0, <1>1, <1>3 DEF Chain
<1>5. ASSUME NEW b \in Buckets, b # mine
      PROVE  Chain(b)' = Chain(b)
  <2>1. CASE bucket_pages[b] = 0
    BY <1>0, <2>1 DEF Chain
  <2>2. CASE bucket_pages[b] # 0
    <3>1. bucket_pages[b] # p /\ bucket_pages[b] \in 1..Len(chains)
      BY <1>0, <1>1, <1>5, <2>2, SMTT(30) DEF PageInv, TypeOK
    <3> QED
      BY <1>0, <1>3, <3>1 DEF Chain
  <2> QED
    BY <2>1, <2>2
<1>6. ASSUME NEW b \in Buckets
      PROVE  /\ Len(Chain(b)) <= Len(Chain(b)')
             /\ \A i \in 1..Len(Chain(b)) : (Chain(b)')[i] = Chain(b)[i]
  <2>1. Chain(b) \in Seq(Nat) /\ Len(Chain(b)) \in Nat
    BY ChainType
  <2>2. CASE b = mine
    BY <1>0, <1>4, <2>1, <2>2
  <2>3. CASE b # mine
    BY <1>5, <2>1, <2>3
  <2> QED
    BY <2>2, <2>3
<1>7. SlotsKept
  BY <1>0 DEF SlotsKept, SlotRecord
<1>8. Growth
  <2>1. /\ Len(arena) <= Len(arena')
        /\ \A r \in 1..Len(arena) : arena'[r] = arena[r]
        /\ \A b \in Buckets : bucket_pages[b] # 0 => bucket_pages'[b] = bucket_pages[b]
        /\ \A i \in PageIds : pages[i] # 0 => pages'[i] = pages[i]
    BY <1>0 DEF TypeOK
  <2> QED
    BY <1>6, <2>1, Zenon DEF Growth
<1> QED
  BY <1>0, <1>3, <1>4, <1>5, <1>7, <1>8, Zenon

-----------------------------------------------------------------------------
(* What the frames keep                                                    *)

LEMMA RecordType ==
    ASSUME TypeOK, NEW r \in 1..Len(arena)
    PROVE  arena[r].text \in Strings /\ arena[r].id \in 1..MaxId
<1> DEFINE R == [text : Strings, id : 1..MaxId]
<1>1. arena \in Seq(R)
  BY DEF TypeOK
<1> HIDE DEF R
<1>2. arena[r] \in R
  BY <1>1
<1> QED
  BY <1>2 DEF R

(* The thread-private knowledge of a thread that does not move.            *)
LEMMA StableThread ==
    ASSUME IndInv, Growth, NEW t \in Threads, Others(t),
           NEW u \in Threads, u # t,
           \A id \in 1..MaxId : pc[u] \in HasSlot /\ id = MyId(u)
                                    => SlotRecord(id)' = SlotRecord(id),
           \A b \in Buckets : \A i \in 1..Len(Chain(b)') :
               \/ i \in 1..Len(Chain(b))
               \/ pc[t] \in HasRecord /\ (Chain(b)')[i] = candidate[t]
    PROVE  ThreadInv(u)'
<1>1. /\ pc'[u] = pc[u] /\ text'[u] = text[u] /\ bucket'[u] = bucket[u]
      /\ direct'[u] = direct[u] /\ candidate'[u] = candidate[u]
      /\ head'[u] = head[u] /\ found'[u] = found[u]
  BY DEF Others
<1>2. TypeOK /\ ThreadInv(u)
  BY DEF IndInv
<1>3. TextInv(u)'
  BY <1>1, <1>2 DEF ThreadInv, TextInv, NotInBaseline
<1>4. ASSUME pc[u] # "idle"
      PROVE  BucketOf[text[u]] \in Buckets
  BY <1>2, <1>4, TableAssumption DEF ThreadInv, TextInv
<1>5. BucketInv(u)'
  <2> SUFFICES ASSUME pc[u] \in HasBucket
               PROVE  bucket[u] # 0 /\ bucket[u] = bucket_pages'[BucketOf[text[u]]]
    BY <1>1 DEF BucketInv
  <2>1. BucketOf[text[u]] \in Buckets
    BY <1>4 DEF HasBucket
  <2> QED
    BY <1>2, <2>1 DEF ThreadInv, BucketInv, Growth
<1>6. ASSUME pc[u] \in HasRecord
      PROVE  /\ candidate[u] \in 1..Len(arena)
             /\ candidate[u] \in 1..Len(arena')
             /\ arena'[candidate[u]] = arena[candidate[u]]
             /\ MyId(u) \in 1..MaxId
             /\ MyId(u)' = MyId(u)
  <2>1. candidate[u] \in 1..Len(arena)
    BY <1>2, <1>6 DEF ThreadInv, RecordInv
  <2>2. arena'[candidate[u]] = arena[candidate[u]] /\ Len(arena) <= Len(arena')
    BY <2>1 DEF Growth
  <2>3. Len(arena) \in Nat
    BY <1>2 DEF TypeOK
  <2> QED
    BY <1>1, <1>2, <1>6, <2>1, <2>2, <2>3, MyIdType DEF ThreadInv, MyId
<1>7. RecordInv(u)'
  BY <1>1, <1>2, <1>6 DEF ThreadInv, RecordInv
<1>8. DirectInv(u)'
  <2> SUFFICES ASSUME pc[u] \in HasPage
               PROVE  direct[u] # 0 /\ direct[u] = pages'[PageOf(MyId(u)')]
    BY <1>1 DEF DirectInv, MyId, PageOf
  <2>1. pc[u] \in HasRecord
    BY DEF HasPage
  <2>2. PageOf(MyId(u)) \in PageIds /\ MyId(u)' = MyId(u)
    BY <1>6, <2>1, PageRange
  <2> QED
    BY <1>2, <2>2 DEF ThreadInv, DirectInv, Growth
<1>9. SlotInv(u)'
  <2> SUFFICES ASSUME pc[u] \in HasSlot
               PROVE  SlotRecord(MyId(u))' = candidate[u]
    BY <1>1 DEF SlotInv
  <2>1. MyId(u) \in 1..MaxId /\ MyId(u)' = MyId(u)
    BY <1>6 DEF HasSlot, HasPage
  <2>2. PICK id \in 1..MaxId : id = MyId(u)
    BY <2>1
  <2>3. SlotRecord(id)' = SlotRecord(id)
    BY <2>2
  <2>4. SlotRecord(MyId(u))' = SlotRecord(id)'
    BY <2>1, <2>2 DEF SlotRecord, PageOf, SlotOf
  <2>5. SlotRecord(MyId(u)) = candidate[u]
    BY <1>2 DEF ThreadInv, SlotInv
  <2> QED
    BY <2>2, <2>3, <2>4, <2>5
<1>10. ASSUME NEW b \in Buckets, b = BucketOf[text[u]]
       PROVE  /\ MyChain(u) = Chain(b) /\ MyChain(u)' = Chain(b)'
              /\ Len(Chain(b)) \in Nat
              /\ Len(Chain(b)) <= Len(Chain(b)')
              /\ \A i \in 1..Len(Chain(b)) : (Chain(b)')[i] = Chain(b)[i]
  <2>1. MyChain(u) = Chain(b) /\ MyChain(u)' = Chain(b)'
    BY <1>1, <1>10 DEF MyChain, Chain
  <2>2. Len(Chain(b)) \in Nat
    BY <1>2, ChainType
  <2> QED
    BY <2>1, <2>2 DEF Growth
<1>11. ASSUME NEW b \in Buckets, NEW i \in 1..Len(Chain(b))
       PROVE  Chain(b)[i] \in 1..Len(arena) /\ arena'[Chain(b)[i]] = arena[Chain(b)[i]]
  BY DEF IndInv, ChainInv, LinkedOK, Growth
<1>12. HeadInv(u)' /\ MissInv(u)' /\ FoundInv(u)' /\ LinkInv(u)'
  <2>1. CASE pc[u] = "idle"
    BY <1>1, <2>1 DEF HeadInv, MissInv, FoundInv, LinkInv
  <2>2. CASE pc[u] # "idle"
    <3>1. PICK b \in Buckets : b = BucketOf[text[u]]
      BY <1>4, <2>2
    <3>2. /\ MyChain(u) = Chain(b) /\ MyChain(u)' = Chain(b)'
          /\ Len(Chain(b)) \in Nat
          /\ Len(Chain(b)) <= Len(Chain(b)')
          /\ \A i \in 1..Len(Chain(b)) : (Chain(b)')[i] = Chain(b)[i]
      BY <1>10, <3>1
    <3>3. HeadInv(u)'
      BY <1>1, <1>2, <3>2, SMTT(30) DEF ThreadInv, HeadInv, TypeOK
    <3>4. MissInv(u)'
      <4> SUFFICES ASSUME pc[u] = "link", NEW i \in 1..head[u]
                   PROVE  arena'[(Chain(b)')[i]].text # text[u]
        BY <1>1, <3>2 DEF MissInv
      <4>1. i \in 1..Len(Chain(b))
        <5>1. head[u] <= Len(Chain(b)) /\ head[u] \in Nat
          BY <1>2, <3>2 DEF ThreadInv, HeadInv, TypeOK
        <5> QED
          BY <3>2, <5>1
      <4>2. arena[Chain(b)[i]].text # text[u]
        BY <1>2, <3>2 DEF ThreadInv, MissInv
      <4> QED
        BY <1>11, <3>2, <4>1, <4>2
    <3>5. FoundInv(u)'
      <4> SUFFICES ASSUME pc[u] = "clear"
                   PROVE  \E i \in 1..Len(Chain(b)') : /\ arena'[(Chain(b)')[i]].text = text[u]
                                                       /\ arena'[(Chain(b)')[i]].id = found[u]
        BY <1>1, <3>2 DEF FoundInv
      <4>1. PICK i \in 1..Len(Chain(b)) : /\ arena[Chain(b)[i]].text = text[u]
                                          /\ arena[Chain(b)[i]].id = found[u]
        BY <1>2, <3>2 DEF ThreadInv, FoundInv
      <4>2. /\ i \in 1..Len(Chain(b)') /\ (Chain(b)')[i] = Chain(b)[i]
            /\ arena'[Chain(b)[i]] = arena[Chain(b)[i]]
        BY <1>11, <3>2
      <4> QED
        BY <4>1, <4>2
    <3>6. LinkInv(u)'
      <4> SUFFICES ASSUME pc[u] = "count"
                   PROVE  \E i \in 1..Len(Chain(b)') : (Chain(b)')[i] = candidate[u]
        BY <1>1, <3>2 DEF LinkInv
      <4>1. PICK i \in 1..Len(Chain(b)) : Chain(b)[i] = candidate[u]
        BY <1>2, <3>2 DEF ThreadInv, LinkInv
      <4>2. i \in 1..Len(Chain(b)') /\ (Chain(b)')[i] = Chain(b)[i]
        BY <3>2
      <4> QED
        BY <4>1, <4>2
    <3> QED
      BY <3>3, <3>4, <3>5, <3>6
  <2> QED
    BY <2>1, <2>2
<1>13. FreshInv(u)'
  <2> SUFFICES ASSUME pc[u] \in HasRecord \ {"count"},
                      NEW b \in Buckets, NEW i \in 1..Len(Chain(b)')
               PROVE  (Chain(b)')[i] # candidate[u]
    BY <1>1 DEF FreshInv
  <2>1. CASE i \in 1..Len(Chain(b))
    BY <1>2, <2>1 DEF ThreadInv, FreshInv, Growth
  <2>2. CASE pc[t] \in HasRecord /\ (Chain(b)')[i] = candidate[t]
    BY <2>2 DEF IndInv, OwnRecords
  <2> QED
    BY <2>1, <2>2
<1> QED
  BY <1>3, <1>5, <1>7, <1>8, <1>9, <1>12, <1>13 DEF ThreadInv

(* Chains that do not change, over records that do not, stay as they are.  *)
LEMMA StableChains ==
    ASSUME IndInv, Growth, ChainsKept,
           \A id \in 1..MaxId :
               (\E b \in Buckets : \E i \in 1..Len(Chain(b)) : arena[Chain(b)[i]].id = id)
                   => SlotRecord(id)' = SlotRecord(id)
    PROVE  ChainInv'
<1> SUFFICES ASSUME NEW b \in Buckets
             PROVE  /\ \A i \in 1..Len(Chain(b)) : LinkedOK(b, Chain(b)[i])'
                    /\ \A i, j \in 1..Len(Chain(b)) :
                          arena'[Chain(b)[i]].text = arena'[Chain(b)[j]].text => i = j
  BY DEF ChainsKept, ChainInv, LinkedOK
<1>1. ASSUME NEW i \in 1..Len(Chain(b))
      PROVE  /\ LinkedOK(b, Chain(b)[i])
             /\ arena'[Chain(b)[i]] = arena[Chain(b)[i]]
             /\ Chain(b)[i] \in 1..Len(arena')
             /\ Chain(b)' = Chain(b)
  <2>1. LinkedOK(b, Chain(b)[i]) /\ Chain(b)' = Chain(b)
    BY DEF IndInv, ChainInv, ChainsKept
  <2>2. Chain(b)[i] \in 1..Len(arena) /\ Len(arena) \in Nat
    BY <2>1 DEF LinkedOK, IndInv, TypeOK
  <2> QED
    BY <2>1, <2>2 DEF Growth
<1>2. ASSUME NEW i \in 1..Len(Chain(b))
      PROVE  LinkedOK(b, Chain(b)[i])'
  <2>1. PICK r : r = Chain(b)[i]
    OBVIOUS
  <2>2. LinkedOK(b, r) /\ arena'[r] = arena[r] /\ r \in 1..Len(arena') /\ Chain(b)'[i] = r
    BY <1>1, <2>1
  <2>3. PICK id \in 1..MaxId : id = arena[r].id
    BY <2>2, RecordType DEF LinkedOK, IndInv
  <2>4. SlotRecord(id)' = r
    BY <2>1, <2>2, <2>3 DEF LinkedOK
  <2>5. SlotRecord(arena[r].id)' = SlotRecord(id)'
    BY <2>2, <2>3 DEF SlotRecord, PageOf, SlotOf
  <2>6. LinkedOK(b, r)'
    BY <2>2, <2>4, <2>5 DEF LinkedOK, NotInBaseline
  <2> QED
    BY <2>1, <2>2, <2>6 DEF LinkedOK, SlotRecord, PageOf, SlotOf, NotInBaseline
<1>3. ASSUME NEW i \in 1..Len(Chain(b)), NEW j \in 1..Len(Chain(b)),
             arena'[Chain(b)[i]].text = arena'[Chain(b)[j]].text
      PROVE  i = j
  <2>1. arena[Chain(b)[i]].text = arena[Chain(b)[j]].text
    BY <1>1, <1>3
  <2> QED
    BY <2>1 DEF IndInv, ChainInv
<1> QED
  BY <1>2, <1>3

(* What is in the table.                                                   *)
LEMMA TableHas ==
    ASSUME TypeOK, NEW s \in Strings, NEW id \in 1..MaxId
    PROVE  <<s, id>> \in Table <=>
              \/ \E k \in DOMAIN Baseline : Baseline[k] = s /\ k = id
              \/ \E i \in 1..Len(Chain(BucketOf[s])) :
                    /\ arena[Chain(BucketOf[s])[i]].text = s
                    /\ arena[Chain(BucketOf[s])[i]].id = id
<1>1. BucketOf[s] \in Buckets /\ s # Hole
  BY TableAssumption
<1>2. DOMAIN Chain(BucketOf[s]) = 1..Len(Chain(BucketOf[s]))
  BY <1>1, ChainType
<1>3. id \in LinkedIds(s) <=>
        \E i \in 1..Len(Chain(BucketOf[s])) :
            /\ arena[Chain(BucketOf[s])[i]].text = s
            /\ arena[Chain(BucketOf[s])[i]].id = id
  BY <1>2 DEF LinkedIds
<1>4. <<s, id>> \in BaselinePairs <=> \E k \in DOMAIN Baseline : Baseline[k] = s /\ k = id
  BY <1>1 DEF BaselinePairs
<1>5. <<s, id>> \in Table <=> <<s, id>> \in BaselinePairs \/ id \in LinkedIds(s)
  BY DEF Table
<1> QED
  BY <1>3, <1>4, <1>5

LEMMA TableType == Table \subseteq Strings \X (1..MaxId)
<1>1. BaselinePairs \subseteq Strings \X (1..MaxId)
  BY TableAssumption DEF BaselinePairs
<1> QED
  BY <1>1 DEF Table

(* Nothing leaves the table.                                               *)
LEMMA TableGrows ==
    ASSUME IndInv, TypeOK', Growth
    PROVE  Table \subseteq Table'
<1> SUFFICES ASSUME NEW s \in Strings, NEW id \in 1..MaxId, <<s, id>> \in Table
             PROVE  <<s, id>> \in Table'
  BY TableType
<1>0. TypeOK
  BY DEF IndInv
<1>1. PICK b \in Buckets : b = BucketOf[s]
  BY TableAssumption
<1>2. CASE \E k \in DOMAIN Baseline : Baseline[k] = s /\ k = id
  BY <1>2, TableAssumption DEF Table, BaselinePairs
<1>3. CASE \E i \in 1..Len(Chain(b)) : arena[Chain(b)[i]].text = s /\ arena[Chain(b)[i]].id = id
  <2>1. PICK i \in 1..Len(Chain(b)) : arena[Chain(b)[i]].text = s /\ arena[Chain(b)[i]].id = id
    BY <1>3
  <2>2. Chain(b)[i] \in 1..Len(arena)
    BY DEF IndInv, ChainInv, LinkedOK
  <2>3. arena'[Chain(b)[i]] = arena[Chain(b)[i]] /\ (Chain(b)')[i] = Chain(b)[i]
    BY <2>2 DEF Growth
  <2>4. Chain(b)' \in Seq(Nat) /\ Len(Chain(b)) \in Nat /\ Len(Chain(b)) <= Len(Chain(b)')
    <3>1. Chain(b)' \in Seq(Nat)
      BY DEF TypeOK, Chain
    <3> QED
      BY <1>0, <3>1, ChainType DEF Growth
  <2>5. i \in DOMAIN (Chain(b)')
    BY <2>4
  <2>6. id \in LinkedIds(s)'
    BY <1>1, <2>1, <2>3, <2>5 DEF LinkedIds, Chain
  <2> QED
    BY <2>6 DEF Table
<1> QED
  BY <1>0, <1>1, <1>2, <1>3, TableHas

(* Without a link the table stays as it is.                                *)
LEMMA TableSame ==
    ASSUME IndInv, TypeOK', Growth, ChainsKept
    PROVE  Table' = Table
<1>0. Table \subseteq Table'
  BY TableGrows
<1>1. Table' \subseteq Strings \X (1..MaxId)
  <2>1. BaselinePairs \subseteq Strings \X (1..MaxId)
    BY TableAssumption DEF BaselinePairs
  <2> QED
    BY <2>1 DEF Table
<1>2. ASSUME NEW s \in Strings, NEW id \in 1..MaxId, <<s, id>> \in Table'
      PROVE  <<s, id>> \in Table
  <2>1. PICK b \in Buckets : b = BucketOf[s]
    BY TableAssumption
  <2>2. CASE <<s, id>> \in BaselinePairs
    BY <2>2 DEF Table
  <2>3. CASE id \in LinkedIds(s)'
    <3>1. PICK i \in DOMAIN (Chain(b)') : /\ arena'[(Chain(b)')[i]].text = s
                                         /\ arena'[(Chain(b)')[i]].id = id
      BY <2>1, <2>3 DEF LinkedIds, Chain
    <3>2. Chain(b)' = Chain(b) /\ DOMAIN Chain(b) = 1..Len(Chain(b))
      BY ChainType DEF ChainsKept, IndInv
    <3>3. i \in 1..Len(Chain(b)) /\ Chain(b)[i] \in 1..Len(arena)
      BY <3>1, <3>2 DEF IndInv, ChainInv, LinkedOK
    <3>4. arena[Chain(b)[i]].text = s /\ arena[Chain(b)[i]].id = id
      BY <3>1, <3>2, <3>3 DEF Growth
    <3> QED
      BY <2>1, <3>3, <3>4, TableHas DEF IndInv
  <2> QED
    BY <1>2, <2>2, <2>3 DEF Table, BaselinePairs
<1> QED
  BY <1>0, <1>1, <1>2

(* The part of the proof common to every step but the link: what is left   *)
(* to show of a step is what it does for its own thread.                   *)
LEMMA StepKeeps ==
    ASSUME IndInv, TypeOK', Growth, ChainsKept, IdInv', PageInv',
           NEW t \in Threads, Others(t), ThreadInv(t)',
           \A id \in 1..MaxId :
               ~(pc[t] \in HasRecord \ {"count"} /\ id = MyId(t)) =>
                   SlotRecord(id)' = SlotRecord(id),
           pc'[t] \in HasRecord => \/ pc[t] \in HasRecord /\ candidate'[t] = candidate[t]
                                   \/ candidate'[t] > Len(arena),
           answers' \subseteq Table
    PROVE  IndInv' /\ Table' = Table
<1>0. TypeOK /\ ThreadInv(t) /\ IdInv /\ OwnRecords
  BY DEF IndInv
<1>1. ChainInv'
  <2> SUFFICES ASSUME NEW id \in 1..MaxId, NEW b \in Buckets, NEW i \in 1..Len(Chain(b)),
                      arena[Chain(b)[i]].id = id
               PROVE  SlotRecord(id)' = SlotRecord(id)
    BY StableChains
  <2>1. CASE pc[t] \in HasRecord \ {"count"}
    <3>1. Chain(b)[i] # candidate[t]
      BY <1>0, <2>1 DEF ThreadInv, FreshInv
    <3>2. Chain(b)[i] \in 1..Len(arena) /\ candidate[t] \in 1..Len(arena)
      BY <1>0, <2>1 DEF IndInv, ChainInv, LinkedOK, ThreadInv, RecordInv
    <3>3. id # MyId(t)
      BY <1>0, <3>1, <3>2 DEF IdInv, MyId
    <3> QED
      BY <3>3
  <2>2. CASE pc[t] \notin HasRecord \ {"count"}
    BY <2>2
  <2> QED
    BY <2>1, <2>2
<1>2. ASSUME NEW u \in Threads
      PROVE  ThreadInv(u)'
  <2>1. CASE u = t
    BY <2>1
  <2>2. CASE u # t
    <3>1. ASSUME NEW id \in 1..MaxId, pc[u] \in HasSlot, id = MyId(u)
          PROVE  SlotRecord(id)' = SlotRecord(id)
      <4>1. CASE pc[t] \in HasRecord \ {"count"}
        <5>1. candidate[u] # candidate[t]
          BY <1>0, <2>2, <3>1, <4>1 DEF OwnRecords, HasSlot, HasPage
        <5>2. candidate[u] \in 1..Len(arena) /\ candidate[t] \in 1..Len(arena)
          BY <1>0, <3>1, <4>1 DEF IndInv, ThreadInv, RecordInv, HasSlot, HasPage
        <5>3. id # MyId(t)
          BY <1>0, <3>1, <5>1, <5>2 DEF IdInv, MyId
        <5> QED
          BY <5>3
      <4>2. CASE pc[t] \notin HasRecord \ {"count"}
        BY <4>2
      <4> QED
        BY <4>1, <4>2
    <3>2. \A b \in Buckets : \A i \in 1..Len(Chain(b)') : i \in 1..Len(Chain(b))
      BY DEF ChainsKept
    <3> QED
      BY <2>2, <3>1, <3>2, StableThread
  <2> QED
    BY <2>1, <2>2
<1>3. OwnRecords'
  <2> SUFFICES ASSUME NEW u \in Threads, NEW v \in Threads, u # v,
                      pc'[u] \in HasRecord, pc'[v] \in HasRecord
               PROVE  candidate'[u] # candidate'[v]
    BY DEF OwnRecords
  <2>1. ASSUME NEW x \in Threads, x # t, pc'[x] \in HasRecord
        PROVE  /\ pc[x] \in HasRecord /\ candidate'[x] = candidate[x]
               /\ candidate[x] \in 1..Len(arena)
    <3>1. pc[x] \in HasRecord /\ candidate'[x] = candidate[x]
      BY <2>1 DEF Others
    <3> QED
      BY <3>1 DEF IndInv, ThreadInv, RecordInv
  <2>2. ASSUME NEW x \in Threads, x # t, pc'[x] \in HasRecord, pc'[t] \in HasRecord
        PROVE  candidate'[x] # candidate'[t]
    <3>1. /\ pc[x] \in HasRecord /\ candidate'[x] = candidate[x]
          /\ candidate[x] \in 1..Len(arena)
      BY <2>1, <2>2
    <3>2. CASE pc[t] \in HasRecord /\ candidate'[t] = candidate[t]
      BY <1>0, <2>2, <3>1, <3>2 DEF OwnRecords
    <3>3. CASE candidate'[t] > Len(arena)
      BY <1>0, <3>1, <3>3 DEF TypeOK
    <3> QED
      BY <2>2, <3>2, <3>3
  <2>3. CASE u = t
    BY <2>2, <2>3
  <2>4. CASE v = t
    BY <2>2, <2>4
  <2>5. CASE u # t /\ v # t
    BY <1>0, <2>1, <2>5 DEF OwnRecords
  <2> QED
    BY <2>3, <2>4, <2>5
<1>4. Table' = Table /\ answers' \subseteq Table'
  BY TableSame
<1> QED
  BY <1>1, <1>2, <1>3, <1>4 DEF IndInv

(* A thread outside intern knows nothing.                                  *)
LEMMA IdleKnows ==
    ASSUME NEW t \in Threads, pc'[t] = "idle"
    PROVE  ThreadInv(t)' /\ pc'[t] \notin HasRecord
BY DEF ThreadInv, TextInv, BucketInv, RecordInv, DirectInv, SlotInv, HeadInv, MissInv,
       FoundInv, FreshInv, LinkInv, HasSlot, HasPage, HasRecord, HasBucket

(* A step that changes variables of its thread only.                       *)
LEMMA LocalKeeps ==
    ASSUME IndInv, UNCHANGED sharedVars, TypeOK',
           NEW t \in Threads, Others(t), ThreadInv(t)',
           pc'[t] \in HasRecord => pc[t] \in HasRecord /\ candidate'[t] = candidate[t],
           answers' \subseteq Table
    PROVE  IndInv' /\ Table' = Table
<1>1. Growth /\ ChainsKept /\ SlotsKept
  BY LocalFrame DEF IndInv
<1>2. IdInv' /\ PageInv'
  BY DEF IndInv, IdInv, PageInv, sharedVars
<1>3. \A id \in 1..MaxId : SlotRecord(id)' = SlotRecord(id)
  BY <1>1 DEF SlotsKept
<1> QED
  BY <1>1, <1>2, <1>3, StepKeeps

-----------------------------------------------------------------------------
(* The steps of intern                                                     *)

LEMMA FoundInTable ==
    ASSUME IndInv, NEW s \in Strings, NEW id \in FoundIds(s)
    PROVE  <<s, id>> \in Table
<1>0. TypeOK
  BY DEF IndInv
<1>1. PICK b \in Buckets : b = BucketOf[s]
  BY TableAssumption
<1>2. DOMAIN Chain(b) = 1..Len(Chain(b))
  BY <1>0, ChainType
<1>3. CASE id \in LinkedIds(s)
  <2>1. PICK i \in 1..Len(Chain(b)) : arena[Chain(b)[i]].text = s /\ arena[Chain(b)[i]].id = id
    BY <1>1, <1>2, <1>3 DEF LinkedIds
  <2>2. Chain(b)[i] \in 1..Len(arena)
    BY DEF IndInv, ChainInv, LinkedOK
  <2>3. id \in 1..MaxId
    BY <1>0, <2>1, <2>2, RecordType
  <2> QED
    BY <1>3, <2>3 DEF Table
<1>4. CASE id \in BaselineIds(s)
  BY <1>4, TableAssumption DEF BaselineIds, Table, BaselinePairs
<1> QED
  BY <1>3, <1>4 DEF FoundIds

LEMMA FindKeeps ==
    ASSUME IndInv, NEW t \in Threads, NEW s \in Strings, Find(t, s)
    PROVE  IndInv' /\ Table' = Table
<1>0. TypeOK /\ UNCHANGED sharedVars /\ answers \subseteq Table /\ Others(t)
  BY StepsAreLocal DEF IndInv, Find
<1>1. CASE FoundIds(s) = {}
  <2>1. /\ pc' = [pc EXCEPT ![t] = "bucket"]
        /\ text' = [text EXCEPT ![t] = s]
        /\ UNCHANGED <<answers, bucket, direct, candidate, head, found>>
    BY <1>1 DEF Find, Go
  <2>2. pc'[t] = "bucket" /\ text'[t] = s
    BY <1>0, <2>1 DEF TypeOK
  <2>3. TypeOK'
    BY <1>0, <2>1 DEF TypeOK, sharedVars, Positions
  <2>4. NotInBaseline(s)
    BY <1>1 DEF FoundIds, BaselineIds, NotInBaseline
  <2>5. ThreadInv(t)'
    BY <2>2, <2>4 DEF ThreadInv, TextInv, BucketInv, RecordInv, DirectInv, SlotInv, HeadInv,
       MissInv, FoundInv, FreshInv, LinkInv, HasSlot, HasPage, HasRecord, HasBucket, NotInBaseline
  <2>6. pc'[t] \notin HasRecord /\ answers' \subseteq Table
    BY <1>0, <2>1, <2>2 DEF HasRecord, HasBucket
  <2> QED
    BY <1>0, <2>3, <2>5, <2>6, LocalKeeps
<1>2. CASE FoundIds(s) # {}
  <2>1. PICK id \in FoundIds(s) : Return(t, {<<s, id>>})
    BY <1>2 DEF Find
  <2>2. <<s, id>> \in Table
    BY FoundInTable
  <2>3. {<<s, id>>} \subseteq Strings \X (1..MaxId)
    BY <2>2, TableType
  <2>4. TypeOK'
    BY <1>0, <2>1, <2>3, TypeReturn DEF TypeOK, sharedVars
  <2>5. pc'[t] = "idle" /\ answers' \subseteq Table
    BY <1>0, <2>1, <2>2 DEF Return, Go, TypeOK
  <2> QED
    BY <1>0, <2>4, <2>5, IdleKnows, LocalKeeps
<1> QED
  BY <1>1, <1>2

LEMMA AllocationFailsKeeps ==
    ASSUME IndInv, NEW t \in Threads, AllocationFails(t)
    PROVE  IndInv' /\ Table' = Table
<1>0. /\ TypeOK /\ UNCHANGED sharedVars /\ answers \subseteq Table /\ Others(t)
      /\ Return(t, {})
  BY StepsAreLocal DEF IndInv, AllocationFails, Step
<1>1. TypeOK'
  <2>1. {} \subseteq Strings \X (1..MaxId)
    OBVIOUS
  <2> QED
    BY <1>0, <2>1, TypeReturn DEF TypeOK, sharedVars
<1>2. pc'[t] = "idle" /\ answers' \subseteq Table
  BY <1>0 DEF Return, Go, TypeOK
<1> QED
  BY <1>0, <1>1, <1>2, IdleKnows, LocalKeeps

LEMMA BucketLoadKeeps ==
    ASSUME IndInv, NEW t \in Threads, BucketLoad(t)
    PROVE  IndInv' /\ Table' = Table
<1>0. /\ TypeOK /\ UNCHANGED sharedVars /\ answers \subseteq Table /\ Others(t)
      /\ ThreadInv(t) /\ pc[t] = "bucket"
  BY StepsAreLocal DEF IndInv, BucketLoad, Step
<1>1. text[t] \in Strings /\ NotInBaseline(text[t]) /\ BucketOf[text[t]] \in Buckets
  BY <1>0, TableAssumption DEF ThreadInv, TextInv
<1>2. /\ UNCHANGED <<answers, text, direct, candidate, head, found, chains, bucket_pages>>
      /\ bucket'[t] = bucket_pages[BucketOf[text[t]]]
      /\ pc'[t] = IF bucket'[t] = 0 THEN "install_bucket" ELSE "allocate"
      /\ bucket' \in [Threads -> 0..Len(chains)]
      /\ pc' \in [Threads -> Positions]
  BY <1>0, <1>1 DEF BucketLoad, Go, TypeOK, Positions, sharedVars
<1>3. TypeOK'
  BY <1>0, <1>2 DEF TypeOK, sharedVars
<1>4. ThreadInv(t)' /\ pc'[t] \notin HasRecord /\ answers' \subseteq Table
  BY <1>0, <1>1, <1>2 DEF ThreadInv, TextInv, BucketInv, RecordInv, DirectInv, SlotInv, HeadInv,
     MissInv, FoundInv, FreshInv, LinkInv, HasSlot, HasPage, HasRecord, HasBucket, NotInBaseline
<1> QED
  BY <1>0, <1>3, <1>4, LocalKeeps

LEMMA BucketInstallKeeps ==
    ASSUME IndInv, NEW t \in Threads, BucketInstall(t)
    PROVE  IndInv' /\ Table' = Table
<1>0. /\ TypeOK /\ PageInv /\ IdInv /\ answers \subseteq Table /\ Others(t)
      /\ ThreadInv(t) /\ TextInv(t) /\ pc[t] = "install_bucket"
  BY StepsAreLocal DEF IndInv, BucketInstall, Step, ThreadInv
<1>1. /\ chains' \in Seq(Seq(Nat))
      /\ bucket_pages' \in [Buckets -> 0..Len(chains')]
      /\ Len(chains) <= Len(chains')
      /\ bucket_pages'[BucketOf[text[t]]] # 0
      /\ Growth /\ ChainsKept /\ SlotsKept /\ PageInv'
  BY <1>0, BucketInstallFrame
<1>2. text[t] \in Strings /\ NotInBaseline(text[t]) /\ BucketOf[text[t]] \in Buckets
  BY <1>0, TableAssumption DEF TextInv
<1>3. /\ UNCHANGED <<next_id, live_count, arena, pages, slots, draws, answers, text, direct,
                     candidate, head, found>>
      /\ bucket'[t] = bucket_pages'[BucketOf[text[t]]]
      /\ pc'[t] = "allocate"
      /\ bucket' \in [Threads -> 0..Len(chains')]
      /\ pc' \in [Threads -> Positions]
  <2>1. bucket' = [bucket EXCEPT ![t] = bucket_pages'[BucketOf[text[t]]]]
    BY DEF BucketInstall
  <2>2. Len(chains) \in Nat /\ Len(chains') \in Nat
    BY <1>0, <1>1 DEF TypeOK
  <2>3. bucket' \in [Threads -> 0..Len(chains')] /\ bucket'[t] = bucket_pages'[BucketOf[text[t]]]
    <3>1. bucket \in [Threads -> 0..Len(chains)]
      BY <1>0 DEF TypeOK
    <3>2. bucket_pages'[BucketOf[text[t]]] \in 0..Len(chains')
      BY <1>1, <1>2
    <3>3. Len(chains) <= Len(chains')
      BY <1>1
    <3> QED
      BY <2>1, <2>2, <3>1, <3>2, <3>3
  <2> QED
    BY <1>0, <2>3 DEF BucketInstall, Go, TypeOK, Positions
<1>4. TypeOK'
  BY <1>0, <1>1, <1>3 DEF TypeOK
<1>5. ThreadInv(t)' /\ pc'[t] \notin HasRecord /\ answers' \subseteq Table
  BY <1>0, <1>1, <1>2, <1>3 DEF ThreadInv, TextInv, BucketInv, RecordInv, DirectInv, SlotInv,
     HeadInv, MissInv, FoundInv, FreshInv, LinkInv, HasSlot, HasPage, HasRecord, HasBucket,
     NotInBaseline
<1>6. IdInv'
  BY <1>0, <1>3 DEF IdInv
<1>7. \A id \in 1..MaxId : SlotRecord(id)' = SlotRecord(id)
  BY <1>1 DEF SlotsKept
<1> QED
  BY <1>0, <1>1, <1>4, <1>5, <1>6, <1>7, StepKeeps

LEMMA DrawIdKeeps ==
    ASSUME NoWrap, IndInv, NEW t \in Threads, DrawId(t)
    PROVE  IndInv' /\ Table' = Table
<1>0. /\ TypeOK /\ PageInv /\ IdInv /\ ChainInv /\ answers \subseteq Table /\ Others(t)
      /\ ThreadInv(t) /\ pc[t] = "allocate"
      /\ UNCHANGED <<live_count, bucket_pages, chains, pages, slots>>
  BY StepsAreLocal DEF IndInv, DrawId, Step
<1>1. draws' = draws + 1 /\ draws' \in 0..MaxDraws /\ next_id' = next_id + 1
      /\ next_id' \in 0..(IdModulus - 1) /\ next_id' = Start + draws'
  <2>1. next_id = Start + draws /\ draws < MaxDraws /\ draws' = draws + 1 /\ draws \in Nat
        /\ next_id' = (next_id + 1) % IdModulus
    BY <1>0 DEF IdInv, DrawId, TypeOK
  <2>2. Start \in Nat /\ MaxDraws \in Nat /\ IdModulus \in Nat
    BY TableAssumption DEF Start
  <2>3. next_id + 1 < IdModulus /\ next_id + 1 \in Nat
    BY <2>1, <2>2 DEF NoWrap
  <2>4. (next_id + 1) % IdModulus = next_id + 1
    BY <2>2, <2>3
  <2> QED
    BY <2>1, <2>2, <2>3, <2>4
<1>2. text[t] \in Strings /\ NotInBaseline(text[t]) /\ BucketOf[text[t]] \in Buckets
  BY <1>0, TableAssumption DEF ThreadInv, TextInv
<1>3. CASE next_id = 0 \/ next_id > MaxId
  <2>1. Return(t, {}) /\ UNCHANGED arena
    BY <1>3 DEF DrawId
  <2>2. TypeOK'
    <3>1. {} \subseteq Strings \X (1..MaxId)
      OBVIOUS
    <3> QED
      BY <1>0, <1>1, <2>1, <3>1, TypeReturn DEF TypeOK
  <2>3. pc'[t] = "idle" /\ answers' \subseteq Table
    BY <1>0, <2>1 DEF Return, Go, TypeOK
  <2>4. ChainsKept /\ SlotsKept
    BY <1>0, <2>1 DEF ChainsKept, SlotsKept, Chain, SlotRecord
  <2>5. Growth
    <3>1. /\ Len(arena) <= Len(arena')
          /\ \A r \in 1..Len(arena) : arena'[r] = arena[r]
          /\ \A b \in Buckets : bucket_pages[b] # 0 => bucket_pages'[b] = bucket_pages[b]
          /\ \A i \in PageIds : pages[i] # 0 => pages'[i] = pages[i]
      BY <1>0, <2>1 DEF TypeOK
    <3> QED
      BY <1>0, <2>4, <3>1, KeptChainsGrow, Zenon DEF Growth
  <2>6. IdInv'
    <3>1. \A r \in 1..Len(arena) : arena[r].id \in 1..MaxId
      BY <1>0, RecordType
    <3>2. \A r \in 1..Len(arena) : Start <= arena[r].id /\ arena[r].id < next_id'
      <4>1. next_id \in Nat /\ next_id' = next_id + 1
        BY <1>0, <1>1 DEF TypeOK
      <4> QED
        BY <1>0, <3>1, <4>1 DEF IdInv
    <3> QED
      BY <1>0, <1>1, <2>1, <3>2 DEF IdInv
  <2>7. PageInv' /\ \A id \in 1..MaxId : SlotRecord(id)' = SlotRecord(id)
    BY <1>0, <2>4 DEF PageInv, SlotsKept
  <2> QED
    BY <1>0, <2>2, <2>3, <2>4, <2>5, <2>6, <2>7, IdleKnows, StepKeeps
<1>4. CASE ~(next_id = 0 \/ next_id > MaxId)
  <2>0. next_id \in 1..MaxId
    BY <1>0, <1>4, TableAssumption DEF TypeOK
  <2>1. /\ arena' = Append(arena, [text |-> text[t], id |-> next_id])
        /\ candidate' = [candidate EXCEPT ![t] = Len(arena')]
        /\ pc' = [pc EXCEPT ![t] = "page"]
        /\ UNCHANGED <<answers, text, bucket, direct, head, found>>
    BY <1>4 DEF DrawId, Go
  <2>2. /\ arena' \in Seq([text : Strings, id : 1..MaxId])
        /\ Len(arena') = Len(arena) + 1
        /\ arena'[Len(arena')] = [text |-> text[t], id |-> next_id]
        /\ Growth /\ ChainsKept /\ SlotsKept
    BY <1>0, <1>2, <2>0, <2>1, DrawIdFrame
  <2>3. /\ Len(arena) \in Nat /\ Len(arena') \in Nat
        /\ candidate'[t] = Len(arena) + 1 /\ pc'[t] = "page"
    BY <1>0, <2>1, <2>2 DEF TypeOK
  <2>4. TypeOK'
    <3>1. candidate' \in [Threads -> 0..Len(arena')] /\ pc' \in [Threads -> Positions]
      BY <1>0, <2>1, <2>2, <2>3 DEF TypeOK, Positions
    <3> QED
      BY <1>0, <1>1, <2>1, <2>2, <3>1 DEF TypeOK
  <2>5. IdInv'
    <3>1. ASSUME NEW r \in 1..Len(arena')
          PROVE  \/ r = Len(arena) + 1 /\ arena'[r].id = next_id
                 \/ /\ r \in 1..Len(arena) /\ arena'[r].id = arena[r].id
                    /\ arena[r].id \in 1..MaxId /\ arena[r].id < next_id
                    /\ Start <= arena[r].id
      <4>1. CASE r = Len(arena) + 1
        BY <2>2, <4>1
      <4>2. CASE r # Len(arena) + 1
        <5>1. r \in 1..Len(arena)
          BY <2>2, <2>3, <4>2
        <5> QED
          BY <1>0, <5>1, <2>2, RecordType DEF Growth, IdInv
      <4> QED
        BY <4>1, <4>2
    <3>2. Start \in Nat /\ next_id \in Nat /\ Start <= next_id
      BY <1>0, TableAssumption DEF IdInv, TypeOK, Start
    <3>3. ASSUME NEW r \in 1..Len(arena')
          PROVE  Start <= arena'[r].id /\ arena'[r].id < next_id'
      BY <1>1, <3>1, <3>2
    <3>4. ASSUME NEW q \in 1..Len(arena'), NEW r \in 1..Len(arena'),
                 arena'[q].id = arena'[r].id
          PROVE  q = r
      BY <1>0, <3>1, <3>2, <3>4 DEF IdInv
    <3> QED
      BY <1>1, <3>3, <3>4 DEF IdInv
  <2>6. PageInv'
    BY <1>0 DEF PageInv
  <2>7. ThreadInv(t)'
    <3>1. TextInv(t)' /\ BucketInv(t)'
      BY <1>0, <1>2, <2>1 DEF ThreadInv, TextInv, BucketInv, HasBucket, NotInBaseline
    <3>2. RecordInv(t)'
      BY <2>1, <2>2, <2>3 DEF RecordInv
    <3>3. FreshInv(t)'
      <4> SUFFICES ASSUME NEW b \in Buckets, NEW i \in 1..Len(Chain(b))
                   PROVE  Chain(b)[i] # candidate'[t]
        BY <2>2 DEF FreshInv, ChainsKept
      <4>1. Chain(b)[i] \in 1..Len(arena)
        BY <1>0 DEF ChainInv, LinkedOK
      <4> QED
        BY <2>3, <4>1
    <3>4. DirectInv(t)' /\ SlotInv(t)' /\ HeadInv(t)' /\ MissInv(t)' /\ FoundInv(t)' /\ LinkInv(t)'
      BY <2>3 DEF DirectInv, SlotInv, HeadInv, MissInv, FoundInv, LinkInv, HasSlot, HasPage,
         HasRecord, HasBucket
    <3> QED
      BY <3>1, <3>2, <3>3, <3>4 DEF ThreadInv
  <2>8. candidate'[t] > Len(arena) /\ answers' \subseteq Table
        /\ \A id \in 1..MaxId : SlotRecord(id)' = SlotRecord(id)
    BY <1>0, <2>1, <2>2, <2>3 DEF SlotsKept
  <2> QED
    BY <1>0, <2>2, <2>4, <2>5, <2>6, <2>7, <2>8, StepKeeps
<1> QED
  BY <1>3, <1>4

LEMMA PageLoadKeeps ==
    ASSUME IndInv, NEW t \in Threads, PageLoad(t)
    PROVE  IndInv' /\ Table' = Table
<1>0. /\ TypeOK /\ UNCHANGED sharedVars /\ answers \subseteq Table /\ Others(t)
      /\ ThreadInv(t) /\ pc[t] = "page"
  BY StepsAreLocal DEF IndInv, PageLoad, Step
<1>1. PageOf(MyId(t)) \in PageIds
  BY <1>0, MyIdType, PageRange DEF ThreadInv, HasRecord, HasBucket
<1>2. /\ UNCHANGED <<answers, text, bucket, candidate, head, found>>
      /\ direct'[t] = pages[PageOf(MyId(t))]
      /\ pc'[t] = IF direct'[t] = 0 THEN "install_page" ELSE "store"
      /\ direct' \in [Threads -> 0..Len(slots)]
      /\ pc' \in [Threads -> Positions]
  BY <1>0, <1>1 DEF PageLoad, Go, TypeOK, Positions
<1>3. TypeOK'
  BY <1>0, <1>2 DEF TypeOK, sharedVars
<1>4. UNCHANGED <<arena, bucket_pages, chains, pages, slots>>
  BY <1>0 DEF sharedVars
<1>5. ThreadInv(t)'
  <2>1. TextInv(t)' /\ BucketInv(t)' /\ RecordInv(t)'
    BY <1>0, <1>2, <1>4 DEF ThreadInv, TextInv, BucketInv, RecordInv, HasRecord, HasBucket,
       NotInBaseline
  <2>2. DirectInv(t)'
    BY <1>2, <1>4 DEF DirectInv, HasPage, HasRecord, HasBucket, MyId, PageOf
  <2>3. FreshInv(t)'
    BY <1>0, <1>2, <1>4 DEF ThreadInv, FreshInv, HasRecord, HasBucket, Chain
  <2>4. SlotInv(t)' /\ HeadInv(t)' /\ MissInv(t)' /\ FoundInv(t)' /\ LinkInv(t)'
    BY <1>2 DEF SlotInv, HeadInv, MissInv, FoundInv, LinkInv, HasSlot, HasPage
  <2> QED
    BY <2>1, <2>2, <2>3, <2>4 DEF ThreadInv
<1>6. pc[t] \in HasRecord /\ candidate'[t] = candidate[t] /\ answers' \subseteq Table
  BY <1>0, <1>2 DEF HasRecord, HasBucket
<1> QED
  BY <1>0, <1>3, <1>5, <1>6, LocalKeeps

LEMMA PageInstallKeeps ==
    ASSUME IndInv, NEW t \in Threads, PageInstall(t)
    PROVE  IndInv' /\ Table' = Table
<1>0. /\ TypeOK /\ PageInv /\ IdInv /\ answers \subseteq Table /\ Others(t)
      /\ ThreadInv(t) /\ RecordInv(t) /\ pc[t] = "install_page"
  BY StepsAreLocal DEF IndInv, PageInstall, Step, ThreadInv
<1>1. /\ slots' \in Seq([0..(PageSize - 1) -> Nat])
      /\ pages' \in [PageIds -> 0..Len(slots')]
      /\ Len(slots) <= Len(slots')
      /\ pages'[PageOf(MyId(t))] # 0
      /\ Growth /\ ChainsKept /\ SlotsKept /\ PageInv'
  BY <1>0, PageInstallFrame
<1>2. PageOf(MyId(t)) \in PageIds
  BY <1>0, MyIdType, PageRange DEF HasRecord, HasBucket
<1>3. /\ UNCHANGED <<next_id, live_count, arena, bucket_pages, chains, draws, answers, text,
                     bucket, candidate, head, found>>
      /\ direct'[t] = pages'[PageOf(MyId(t))]
      /\ pc'[t] = "store"
      /\ direct' \in [Threads -> 0..Len(slots')]
      /\ pc' \in [Threads -> Positions]
  <2>1. direct' = [direct EXCEPT ![t] = pages'[PageOf(MyId(t))]]
    BY DEF PageInstall
  <2>2. Len(slots) \in Nat /\ Len(slots') \in Nat
    BY <1>0, <1>1 DEF TypeOK
  <2>3. direct' \in [Threads -> 0..Len(slots')] /\ direct'[t] = pages'[PageOf(MyId(t))]
    <3>1. direct \in [Threads -> 0..Len(slots)]
      BY <1>0 DEF TypeOK
    <3>2. pages'[PageOf(MyId(t))] \in 0..Len(slots')
      BY <1>1, <1>2
    <3>3. Len(slots) <= Len(slots')
      BY <1>1
    <3> QED
      BY <2>1, <2>2, <3>1, <3>2, <3>3
  <2> QED
    BY <1>0, <2>3 DEF PageInstall, Go, TypeOK, Positions
<1>4. TypeOK'
  BY <1>0, <1>1, <1>3 DEF TypeOK
<1>5. ThreadInv(t)'
  <2>1. TextInv(t)' /\ BucketInv(t)' /\ RecordInv(t)'
    BY <1>0, <1>3 DEF ThreadInv, TextInv, BucketInv, RecordInv, HasRecord, HasBucket,
       NotInBaseline
  <2>2. DirectInv(t)'
    BY <1>1, <1>3 DEF DirectInv, MyId, PageOf
  <2>3. FreshInv(t)'
    BY <1>0, <1>3 DEF ThreadInv, FreshInv, HasRecord, HasBucket, Chain
  <2>4. SlotInv(t)' /\ HeadInv(t)' /\ MissInv(t)' /\ FoundInv(t)' /\ LinkInv(t)'
    BY <1>3 DEF SlotInv, HeadInv, MissInv, FoundInv, LinkInv, HasSlot, HasPage
  <2> QED
    BY <2>1, <2>2, <2>3, <2>4 DEF ThreadInv
<1>6. pc[t] \in HasRecord /\ candidate'[t] = candidate[t] /\ answers' \subseteq Table
  BY <1>0, <1>3 DEF HasRecord, HasBucket
<1>7. IdInv' /\ \A id \in 1..MaxId : SlotRecord(id)' = SlotRecord(id)
  BY <1>0, <1>1, <1>3 DEF IdInv, SlotsKept
<1> QED
  BY <1>0, <1>1, <1>4, <1>5, <1>6, <1>7, StepKeeps

LEMMA StoreSlotKeeps ==
    ASSUME IndInv, NEW t \in Threads, StoreSlot(t)
    PROVE  IndInv' /\ Table' = Table
<1>0. /\ TypeOK /\ PageInv /\ IdInv /\ answers \subseteq Table /\ Others(t)
      /\ ThreadInv(t) /\ RecordInv(t) /\ DirectInv(t) /\ pc[t] = "store"
      /\ pc[t] \in HasPage /\ pc[t] \in HasRecord \ {"count"}
  BY StepsAreLocal DEF IndInv, StoreSlot, Step, ThreadInv, HasPage, HasRecord, HasBucket
<1>1. PICK me \in 1..MaxId : me = MyId(t)
  BY <1>0, MyIdType
<1>2. /\ UNCHANGED <<next_id, live_count, arena, bucket_pages, chains, pages, draws, answers,
                     text, bucket, direct, candidate, head, found>>
      /\ slots' = [slots EXCEPT ![direct[t]][SlotOf(MyId(t))] = candidate[t]]
      /\ pc'[t] = "head" /\ pc' \in [Threads -> Positions] /\ candidate[t] \in Nat
  BY <1>0 DEF StoreSlot, Go, TypeOK, Positions
<1>3. /\ slots' \in Seq([0..(PageSize - 1) -> Nat])
      /\ Len(slots') = Len(slots)
      /\ SlotRecord(me)' = candidate[t]
      /\ \A id \in 1..MaxId : id # me => SlotRecord(id)' = SlotRecord(id)
      /\ Growth /\ ChainsKept
  BY <1>0, <1>1, <1>2, SlotWriteFrame
<1>4. TypeOK'
  BY <1>0, <1>2, <1>3 DEF TypeOK
<1>5. ThreadInv(t)'
  <2>1. TextInv(t)' /\ BucketInv(t)' /\ RecordInv(t)'
    BY <1>0, <1>2 DEF ThreadInv, TextInv, BucketInv, RecordInv, HasRecord, HasBucket,
       NotInBaseline
  <2>2. DirectInv(t)'
    BY <1>0, <1>2 DEF DirectInv, MyId, PageOf
  <2>3. SlotInv(t)'
    <3>1. SlotRecord(MyId(t))' = SlotRecord(me)'
      BY <1>1, <1>2 DEF SlotRecord, MyId, PageOf, SlotOf
    <3> QED
      BY <1>2, <1>3, <3>1 DEF SlotInv
  <2>4. FreshInv(t)'
    BY <1>0, <1>2 DEF ThreadInv, FreshInv, HasRecord, HasBucket, Chain
  <2>5. HeadInv(t)' /\ MissInv(t)' /\ FoundInv(t)' /\ LinkInv(t)'
    BY <1>2 DEF HeadInv, MissInv, FoundInv, LinkInv
  <2> QED
    BY <2>1, <2>2, <2>3, <2>4, <2>5 DEF ThreadInv
<1>6. candidate'[t] = candidate[t] /\ answers' \subseteq Table /\ IdInv' /\ PageInv'
  BY <1>0, <1>2 DEF IdInv, PageInv
<1>7. \A id \in 1..MaxId : ~(pc[t] \in HasRecord \ {"count"} /\ id = MyId(t)) =>
                                SlotRecord(id)' = SlotRecord(id)
  BY <1>0, <1>1, <1>3
<1> QED
  BY <1>0, <1>3, <1>4, <1>5, <1>6, <1>7, StepKeeps

(* A loser told the winner's id, which is in the table.                    *)
LEMMA ClearAnswer ==
    ASSUME IndInv, NEW t \in Threads, pc[t] = "clear"
    PROVE  <<text[t], found[t]>> \in Table
<1>0. TypeOK /\ ThreadInv(t)
  BY DEF IndInv
<1>1. PICK s \in Strings : s = text[t]
  BY <1>0 DEF ThreadInv, TextInv
<1>2. PICK b \in Buckets : b = BucketOf[s]
  BY TableAssumption
<1>3. PICK i \in 1..Len(Chain(b)) : arena[Chain(b)[i]].text = s /\ arena[Chain(b)[i]].id = found[t]
  BY <1>0, <1>1, <1>2 DEF ThreadInv, FoundInv, MyChain
<1>4. Chain(b)[i] \in 1..Len(arena)
  BY DEF IndInv, ChainInv, LinkedOK
<1>5. found[t] \in 1..MaxId
  BY <1>0, <1>3, <1>4, RecordType
<1> QED
  BY <1>0, <1>1, <1>2, <1>3, <1>5, TableHas

LEMMA ClearSlotKeeps ==
    ASSUME IndInv, NEW t \in Threads, ClearSlot(t)
    PROVE  IndInv' /\ Table' = Table
<1>0. /\ TypeOK /\ PageInv /\ IdInv /\ answers \subseteq Table /\ Others(t)
      /\ ThreadInv(t) /\ RecordInv(t) /\ DirectInv(t) /\ pc[t] = "clear"
      /\ pc[t] \in HasPage /\ pc[t] \in HasRecord \ {"count"}
  BY StepsAreLocal DEF IndInv, ClearSlot, Step, ThreadInv, HasPage, HasRecord, HasBucket
<1>1. PICK me \in 1..MaxId : me = MyId(t)
  BY <1>0, MyIdType
<1>2. /\ UNCHANGED <<next_id, live_count, arena, bucket_pages, chains, pages, draws>>
      /\ slots' = [slots EXCEPT ![direct[t]][SlotOf(MyId(t))] = 0]
      /\ Return(t, {<<text[t], found[t]>>})
  BY DEF ClearSlot
<1>3. /\ slots' \in Seq([0..(PageSize - 1) -> Nat])
      /\ Len(slots') = Len(slots)
      /\ \A id \in 1..MaxId : id # me => SlotRecord(id)' = SlotRecord(id)
      /\ Growth /\ ChainsKept
  BY <1>0, <1>1, <1>2, SlotWriteFrame
<1>4. <<text[t], found[t]>> \in Table
  BY <1>0, ClearAnswer
<1>5. TypeOK'
  <2>1. {<<text[t], found[t]>>} \subseteq Strings \X (1..MaxId)
    BY <1>4, TableType
  <2> QED
    BY <1>0, <1>2, <1>3, <2>1, TypeReturn DEF TypeOK
<1>6. pc'[t] = "idle" /\ answers' \subseteq Table /\ IdInv' /\ PageInv'
  BY <1>0, <1>2, <1>4 DEF IdInv, PageInv, Return, Go, TypeOK
<1>7. \A id \in 1..MaxId : ~(pc[t] \in HasRecord \ {"count"} /\ id = MyId(t)) =>
                                SlotRecord(id)' = SlotRecord(id)
  BY <1>0, <1>1, <1>3
<1> QED
  BY <1>0, <1>3, <1>5, <1>6, <1>7, IdleKnows, StepKeeps

(* What a thread with a slot knows does not depend on how far its walk is. *)
LEMMA WalkerKnows ==
    ASSUME NEW t \in Threads, ThreadInv(t), pc[t] \in HasSlot \ {"count"},
           pc'[t] \in HasSlot \ {"count"},
           UNCHANGED sharedVars, UNCHANGED <<text, bucket, direct, candidate>>
    PROVE  /\ TextInv(t)' /\ BucketInv(t)' /\ RecordInv(t)' /\ DirectInv(t)' /\ SlotInv(t)'
           /\ FreshInv(t)' /\ LinkInv(t)'
<1>1. UNCHANGED <<arena, bucket_pages, chains, pages, slots>>
  BY DEF sharedVars
<1>2. TextInv(t)' /\ BucketInv(t)' /\ RecordInv(t)'
  BY <1>1 DEF ThreadInv, TextInv, BucketInv, RecordInv, HasSlot, HasPage, HasRecord, HasBucket,
     NotInBaseline
<1>3. DirectInv(t)' /\ SlotInv(t)'
  BY <1>1 DEF ThreadInv, DirectInv, SlotInv, HasSlot, MyId, PageOf, SlotOf, SlotRecord
<1>4. FreshInv(t)' /\ LinkInv(t)'
  BY <1>1 DEF ThreadInv, FreshInv, LinkInv, HasSlot, HasPage, Chain
<1> QED
  BY <1>2, <1>3, <1>4

(* A thread past its bucket step walks the chain of its text.              *)
LEMMA WalksItsChain ==
    ASSUME TypeOK, NEW t \in Threads, ThreadInv(t), pc[t] \in HasBucket
    PROVE  /\ MyChain(t) = chains[bucket[t]]
           /\ MyChain(t) \in Seq(Nat)
           /\ Len(MyChain(t)) \in Nat
<1>1. BucketOf[text[t]] \in Buckets
  BY TableAssumption DEF ThreadInv, TextInv, HasBucket
<1>2. MyChain(t) = chains[bucket[t]]
  BY DEF ThreadInv, BucketInv, MyChain, Chain
<1>3. MyChain(t) \in Seq(Nat)
  BY <1>1, ChainType DEF MyChain
<1> QED
  BY <1>2, <1>3

(* The head is loaded: before the first walk, and after a lost exchange.   *)
LEMMA HeadKeeps ==
    ASSUME IndInv, NEW t \in Threads, LoadHead(t) \/ LinkFails(t)
    PROVE  IndInv' /\ Table' = Table
<1>0. /\ TypeOK /\ UNCHANGED sharedVars /\ answers \subseteq Table /\ Others(t)
      /\ ThreadInv(t) /\ pc[t] \in {"head", "link"}
      /\ UNCHANGED <<answers, text, bucket, direct, candidate, found>>
      /\ head' = [head EXCEPT ![t] = Len(chains[bucket[t]])]
      /\ pc' = [pc EXCEPT ![t] = "walk"]
  BY StepsAreLocal DEF IndInv, LoadHead, LinkFails, Step, Go
<1>1. /\ MyChain(t) = chains[bucket[t]] /\ Len(MyChain(t)) \in Nat
  BY <1>0, WalksItsChain DEF HasBucket
<1>2. /\ head'[t] = Len(MyChain(t)) /\ head' \in [Threads -> Nat]
      /\ pc'[t] = "walk" /\ pc' \in [Threads -> Positions]
  BY <1>0, <1>1 DEF TypeOK, Positions
<1>3. TypeOK'
  BY <1>0, <1>2 DEF TypeOK, sharedVars
<1>4. ThreadInv(t)'
  <2>1. /\ TextInv(t)' /\ BucketInv(t)' /\ RecordInv(t)' /\ DirectInv(t)' /\ SlotInv(t)'
        /\ FreshInv(t)' /\ LinkInv(t)'
    BY <1>0, <1>2, WalkerKnows DEF HasSlot, HasPage, HasRecord, HasBucket
  <2>2. HeadInv(t)'
    <3>1. MyChain(t)' = MyChain(t)
      BY <1>0 DEF MyChain, Chain, sharedVars
    <3> QED
      BY <1>1, <1>2, <3>1 DEF HeadInv
  <2>3. MissInv(t)' /\ FoundInv(t)'
    BY <1>2 DEF MissInv, FoundInv
  <2> QED
    BY <2>1, <2>2, <2>3 DEF ThreadInv
<1>5. pc[t] \in HasRecord /\ candidate'[t] = candidate[t] /\ answers' \subseteq Table
  BY <1>0 DEF HasRecord, HasBucket
<1> QED
  BY <1>0, <1>3, <1>4, <1>5, LocalKeeps

LEMMA WalkKeeps ==
    ASSUME IndInv, NEW t \in Threads, Walk(t)
    PROVE  IndInv' /\ Table' = Table
<1>0. /\ TypeOK /\ UNCHANGED sharedVars /\ answers \subseteq Table /\ Others(t)
      /\ ThreadInv(t) /\ pc[t] = "walk"
      /\ UNCHANGED <<answers, text, bucket, direct, candidate, head>>
  BY StepsAreLocal DEF IndInv, Walk, Step
<1>1. /\ MyChain(t) = chains[bucket[t]] /\ Len(MyChain(t)) \in Nat
      /\ head[t] \in Nat /\ head[t] <= Len(MyChain(t))
  BY <1>0, WalksItsChain DEF HasBucket, ThreadInv, HeadInv, TypeOK
<1>2. MyChain(t)' = MyChain(t) /\ arena' = arena
  BY <1>0 DEF MyChain, Chain, sharedVars
<1>3. pc[t] \in HasRecord /\ candidate'[t] = candidate[t] /\ answers' \subseteq Table
  BY <1>0 DEF HasRecord, HasBucket
<1>4. CASE Matches(t) = {}
  <2>1. pc'[t] = "link" /\ pc' \in [Threads -> Positions] /\ UNCHANGED found
    BY <1>0, <1>4 DEF Walk, Go, TypeOK, Positions
  <2>2. TypeOK'
    BY <1>0, <2>1 DEF TypeOK, sharedVars
  <2>3. /\ TextInv(t)' /\ BucketInv(t)' /\ RecordInv(t)' /\ DirectInv(t)' /\ SlotInv(t)'
        /\ FreshInv(t)' /\ LinkInv(t)'
    BY <1>0, <2>1, WalkerKnows DEF HasSlot, HasPage, HasRecord, HasBucket
  <2>4. HeadInv(t)' /\ MissInv(t)' /\ FoundInv(t)'
    <3>1. \A i \in 1..head[t] : arena[MyChain(t)[i]].text # text[t]
      BY <1>1, <1>4 DEF Matches
    <3> QED
      BY <1>0, <1>1, <1>2, <2>1, <3>1 DEF HeadInv, MissInv, FoundInv
  <2> QED
    BY <1>0, <1>3, <2>2, <2>3, <2>4, LocalKeeps DEF ThreadInv
<1>5. CASE Matches(t) # {}
  <2>1. PICK n \in Matches(t) :
          /\ pc' = [pc EXCEPT ![t] = "clear"]
          /\ found' = [found EXCEPT ![t] = arena[chains[bucket[t]][n]].id]
    BY <1>5 DEF Walk, Go
  <2>2. n \in 1..Len(MyChain(t)) /\ arena[MyChain(t)[n]].text = text[t]
    BY <1>1 DEF Matches
  <2>3. arena[MyChain(t)[n]].id \in 1..MaxId
    <3>1. PICK b \in Buckets : b = BucketOf[text[t]]
      BY <1>0, TableAssumption DEF ThreadInv, TextInv
    <3>2. MyChain(t)[n] \in 1..Len(arena)
      BY <2>2, <3>1 DEF IndInv, ChainInv, LinkedOK, MyChain
    <3> QED
      BY <1>0, <3>2, RecordType
  <2>4. /\ pc'[t] = "clear" /\ pc' \in [Threads -> Positions]
        /\ found'[t] = arena[MyChain(t)[n]].id /\ found' \in [Threads -> 0..MaxId]
    <3>1. PICK id \in 1..MaxId : id = arena[MyChain(t)[n]].id
      BY <2>3
    <3>2. found' = [found EXCEPT ![t] = id] /\ id \in 0..MaxId
      BY <1>1, <2>1, <3>1
    <3> QED
      BY <1>0, <2>1, <3>1, <3>2 DEF TypeOK, Positions
  <2>5. TypeOK'
    BY <1>0, <2>4 DEF TypeOK, sharedVars
  <2>6. /\ TextInv(t)' /\ BucketInv(t)' /\ RecordInv(t)' /\ DirectInv(t)' /\ SlotInv(t)'
        /\ FreshInv(t)' /\ LinkInv(t)'
    BY <1>0, <2>4, WalkerKnows DEF HasSlot, HasPage, HasRecord, HasBucket
  <2>7. HeadInv(t)' /\ MissInv(t)' /\ FoundInv(t)'
    BY <1>0, <1>2, <2>2, <2>4 DEF HeadInv, MissInv, FoundInv
  <2> QED
    BY <1>0, <1>3, <2>5, <2>6, <2>7, LocalKeeps DEF ThreadInv
<1> QED
  BY <1>4, <1>5

(* The winner's own answer is in the table since its link.                 *)
LEMMA CountAnswer ==
    ASSUME IndInv, NEW t \in Threads, pc[t] = "count"
    PROVE  <<text[t], MyId(t)>> \in Table
<1>0. TypeOK /\ ThreadInv(t)
  BY DEF IndInv
<1>1. PICK s \in Strings : s = text[t]
  BY <1>0 DEF ThreadInv, TextInv
<1>2. PICK b \in Buckets : b = BucketOf[s]
  BY TableAssumption
<1>3. PICK i \in 1..Len(Chain(b)) : Chain(b)[i] = candidate[t]
  BY <1>0, <1>1, <1>2 DEF ThreadInv, LinkInv, MyChain
<1>4. arena[Chain(b)[i]].text = s /\ arena[Chain(b)[i]].id = MyId(t) /\ MyId(t) \in 1..MaxId
  BY <1>0, <1>1, <1>3, MyIdType DEF ThreadInv, RecordInv, MyId, HasRecord, HasBucket
<1> QED
  BY <1>0, <1>1, <1>2, <1>4, TableHas

LEMMA CountKeeps ==
    ASSUME IndInv, NEW t \in Threads, Count(t)
    PROVE  IndInv' /\ Table' = Table
<1>0. /\ TypeOK /\ PageInv /\ IdInv /\ answers \subseteq Table /\ Others(t) /\ pc[t] = "count"
      /\ UNCHANGED <<next_id, arena, bucket_pages, chains, pages, slots, draws>>
      /\ live_count' = live_count + 1
      /\ Return(t, {<<text[t], MyId(t)>>})
  BY StepsAreLocal DEF IndInv, Count, Step
<1>1. <<text[t], MyId(t)>> \in Table
  BY <1>0, CountAnswer
<1>2. TypeOK'
  <2>1. {<<text[t], MyId(t)>>} \subseteq Strings \X (1..MaxId)
    BY <1>1, TableType
  <2>2. live_count' \in Nat
    BY <1>0 DEF TypeOK
  <2>3. /\ answers' \subseteq Strings \X (1..MaxId)
        /\ pc' \in [Threads -> Positions]
        /\ text' \in [Threads -> Strings \cup {Hole}]
        /\ bucket' \in [Threads -> 0..Len(chains)]
        /\ direct' \in [Threads -> 0..Len(slots)]
        /\ candidate' \in [Threads -> 0..Len(arena)]
        /\ head' \in [Threads -> Nat]
        /\ found' \in [Threads -> 0..MaxId]
    BY <1>0, <2>1, TypeReturn
  <2> QED
    BY <1>0, <2>2, <2>3 DEF TypeOK
<1>3. ChainsKept /\ SlotsKept
  BY <1>0 DEF ChainsKept, SlotsKept, Chain, SlotRecord
<1>4. Growth
  <2>1. /\ Len(arena) <= Len(arena')
        /\ \A r \in 1..Len(arena) : arena'[r] = arena[r]
        /\ \A b \in Buckets : bucket_pages[b] # 0 => bucket_pages'[b] = bucket_pages[b]
        /\ \A i \in PageIds : pages[i] # 0 => pages'[i] = pages[i]
    BY <1>0 DEF TypeOK
  <2> QED
    BY <1>0, <1>3, <2>1, KeptChainsGrow, Zenon DEF Growth
<1>5. pc'[t] = "idle" /\ answers' \subseteq Table /\ IdInv' /\ PageInv'
  BY <1>0, <1>1 DEF IdInv, PageInv, Return, Go, TypeOK
<1>6. \A id \in 1..MaxId : SlotRecord(id)' = SlotRecord(id)
  BY <1>3 DEF SlotsKept
<1> QED
  BY <1>0, <1>2, <1>3, <1>4, <1>5, <1>6, IdleKnows, StepKeeps

(* The compare-exchange that succeeds: nobody linked since the walk.       *)
LEMMA LinkKeeps ==
    ASSUME IndInv, NEW t \in Threads, Link(t)
    PROVE  IndInv' /\ Canonical!Intern(text[t], MyId(t))
<1>0. /\ TypeOK /\ PageInv /\ IdInv /\ ChainInv /\ answers \subseteq Table /\ Others(t)
      /\ ThreadInv(t) /\ TextInv(t) /\ BucketInv(t) /\ RecordInv(t) /\ SlotInv(t)
      /\ pc[t] = "link" /\ pc' = [pc EXCEPT ![t] = "count"]
      /\ UNCHANGED <<next_id, live_count, arena, bucket_pages, pages, slots, draws, answers,
                     text, bucket, direct, candidate, head, found>>
  BY StepsAreLocal DEF IndInv, Link, Step, ThreadInv, Go
<1>1. PICK s \in Strings : s = text[t]
  BY <1>0 DEF TextInv
<1>2. PICK mine \in Buckets : mine = BucketOf[s]
  BY TableAssumption
<1>3. PICK c \in 1..Len(arena) : c = candidate[t]
  BY <1>0 DEF RecordInv, HasRecord, HasBucket
<1>4. PICK me \in 1..MaxId : me = arena[c].id
  BY <1>0, <1>3, RecordType
<1>5. arena[c].text = s /\ MyId(t) = me /\ NotInBaseline(s) /\ SlotRecord(me) = c
  BY <1>0, <1>1, <1>3, <1>4 DEF RecordInv, MyId, TextInv, SlotInv, HasSlot, HasPage, HasRecord,
     HasBucket
<1>6. /\ chains' \in Seq(Seq(Nat))
      /\ Len(chains') = Len(chains)
      /\ Chain(mine)' = Append(Chain(mine), c)
      /\ \A b \in Buckets : b # mine => Chain(b)' = Chain(b)
      /\ Growth /\ SlotsKept
  BY <1>0, <1>1, <1>2, <1>3, LinkFrame
<1>7. pc'[t] = "count" /\ pc' \in [Threads -> Positions]
  BY <1>0 DEF TypeOK, Positions
<1>8. TypeOK'
  BY <1>0, <1>6, <1>7 DEF TypeOK
<1>9. /\ Chain(mine) \in Seq(Nat) /\ Len(Chain(mine)) \in Nat
      /\ Len(Chain(mine)') = Len(Chain(mine)) + 1
      /\ (Chain(mine)')[Len(Chain(mine)) + 1] = c
      /\ \A i \in 1..Len(Chain(mine)) : (Chain(mine)')[i] = Chain(mine)[i]
  <2>1. Chain(mine) \in Seq(Nat)
    BY <1>0, ChainType
  <2> QED
    BY <1>6, <2>1
(* Nobody linked the text: the walk saw the whole chain.                   *)
<1>10. \A i \in 1..Len(Chain(mine)) : arena[Chain(mine)[i]].text # s
  <2>1. MyChain(t) = Chain(mine) /\ MyChain(t) = chains[bucket[t]]
    BY <1>0, <1>1, <1>2, WalksItsChain DEF MyChain, HasBucket
  <2>2. head[t] = Len(Chain(mine))
    BY <2>1 DEF Link
  <2> QED
    BY <1>0, <1>1, <2>1, <2>2 DEF ThreadInv, MissInv
<1>11. ASSUME NEW b \in Buckets, NEW i \in 1..Len(Chain(b)')
       PROVE  \/ i \in 1..Len(Chain(b)) /\ (Chain(b)')[i] = Chain(b)[i]
              \/ b = mine /\ i = Len(Chain(mine)) + 1 /\ (Chain(b)')[i] = c
  <2>1. CASE b # mine
    BY <1>6, <2>1
  <2>2. CASE b = mine /\ i = Len(Chain(mine)) + 1
    BY <1>9, <2>2
  <2>3. CASE b = mine /\ i # Len(Chain(mine)) + 1
    <3>1. i \in 1..Len(Chain(mine))
      BY <1>9, <2>3
    <3> QED
      BY <1>9, <2>3, <3>1
  <2> QED
    BY <2>1, <2>2, <2>3
<1>12. ChainInv'
  <2>1. ASSUME NEW b \in Buckets, NEW r, LinkedOK(b, r)
        PROVE  LinkedOK(b, r)'
    BY <1>0, <2>1 DEF LinkedOK, NotInBaseline, SlotRecord, PageOf, SlotOf
  <2>2. LinkedOK(mine, c)
    BY <1>2, <1>4, <1>5 DEF LinkedOK
  <2>3. ASSUME NEW b \in Buckets, NEW i \in 1..Len(Chain(b)')
        PROVE  LinkedOK(b, Chain(b)[i])'
    <3>1. PICK r : r = (Chain(b)')[i]
      OBVIOUS
    <3>2. LinkedOK(b, r)
      BY <1>0, <1>11, <2>2, <3>1 DEF ChainInv
    <3>3. LinkedOK(b, r)'
      BY <2>1, <3>2
    <3> QED
      BY <3>1, <3>3 DEF LinkedOK, NotInBaseline, SlotRecord, PageOf, SlotOf
  <2>4. ASSUME NEW b \in Buckets, NEW i \in 1..Len(Chain(b)'), NEW j \in 1..Len(Chain(b)'),
               arena'[(Chain(b)')[i]].text = arena'[(Chain(b)')[j]].text
        PROVE  i = j
    <3>1. arena[(Chain(b)')[i]].text = arena[(Chain(b)')[j]].text
      BY <1>0, <2>4
    <3>2. CASE /\ i \in 1..Len(Chain(b)) /\ (Chain(b)')[i] = Chain(b)[i]
               /\ j \in 1..Len(Chain(b)) /\ (Chain(b)')[j] = Chain(b)[j]
      <4>1. arena[Chain(b)[i]].text = arena[Chain(b)[j]].text
        BY <3>1, <3>2
      <4> QED
        BY <1>0, <3>2, <4>1 DEF ChainInv
    <3>3. CASE /\ i \in 1..Len(Chain(b)) /\ (Chain(b)')[i] = Chain(b)[i]
               /\ b = mine /\ (Chain(b)')[j] = c
      <4>1. arena[Chain(mine)[i]].text = s
        BY <1>5, <3>1, <3>3
      <4> QED
        BY <1>10, <3>3, <4>1
    <3>4. CASE /\ j \in 1..Len(Chain(b)) /\ (Chain(b)')[j] = Chain(b)[j]
               /\ b = mine /\ (Chain(b)')[i] = c
      <4>1. arena[Chain(mine)[j]].text = s
        BY <1>5, <3>1, <3>4
      <4> QED
        BY <1>10, <3>4, <4>1
    <3>5. CASE i = Len(Chain(mine)) + 1 /\ j = Len(Chain(mine)) + 1
      BY <3>5
    <3> QED
      BY <1>11, <3>2, <3>3, <3>4, <3>5
  <2> QED
    BY <2>3, <2>4 DEF ChainInv, LinkedOK
<1>13. ThreadInv(t)'
  <2>1. TextInv(t)' /\ BucketInv(t)' /\ RecordInv(t)'
    BY <1>0, <1>7 DEF TextInv, BucketInv, RecordInv, NotInBaseline, HasRecord, HasBucket
  <2>2. DirectInv(t)' /\ SlotInv(t)'
    BY <1>0, <1>7 DEF ThreadInv, DirectInv, SlotInv, MyId, PageOf, SlotOf, SlotRecord, HasSlot,
       HasPage, HasRecord, HasBucket
  <2>3. LinkInv(t)'
    <3>1. MyChain(t)' = Chain(mine)'
      BY <1>0, <1>1, <1>2 DEF MyChain, Chain
    <3>2. Len(Chain(mine)) + 1 \in 1..Len(Chain(mine)')
      BY <1>9
    <3> QED
      BY <1>0, <1>3, <1>9, <3>1, <3>2 DEF LinkInv
  <2>4. HeadInv(t)' /\ MissInv(t)' /\ FoundInv(t)' /\ FreshInv(t)'
    BY <1>7 DEF HeadInv, MissInv, FoundInv, FreshInv
  <2> QED
    BY <2>1, <2>2, <2>3, <2>4 DEF ThreadInv
<1>14. ASSUME NEW u \in Threads, u # t
       PROVE  ThreadInv(u)'
  <2>1. \A id \in 1..MaxId : SlotRecord(id)' = SlotRecord(id)
    BY <1>6 DEF SlotsKept
  <2>2. \A b \in Buckets : \A i \in 1..Len(Chain(b)') :
           \/ i \in 1..Len(Chain(b))
           \/ pc[t] \in HasRecord /\ (Chain(b)')[i] = candidate[t]
    BY <1>0, <1>3, <1>11 DEF HasRecord, HasBucket
  <2> QED
    BY <1>0, <1>6, <1>14, <2>1, <2>2, StableThread
<1>15. OwnRecords'
  <2>1. \A u \in Threads : pc'[u] \in HasRecord <=> pc[u] \in HasRecord
    BY <1>0 DEF TypeOK, HasRecord, HasBucket
  <2> QED
    BY <1>0, <2>1 DEF IndInv, OwnRecords
<1>16. Table \subseteq Table' /\ answers' \subseteq Table'
  BY <1>0, <1>6, <1>8, TableGrows
<1>17. IndInv'
  <2>1. IdInv' /\ PageInv'
    BY <1>0 DEF IdInv, PageInv
  <2> QED
    BY <1>8, <1>12, <1>13, <1>14, <1>15, <1>16, <2>1 DEF IndInv
<1>18. ASSUME NEW x \in Strings, NEW id \in 1..MaxId, <<x, id>> \in Table
       PROVE  x # s /\ id # me
  <2>1. PICK b \in Buckets : b = BucketOf[x]
    BY TableAssumption
  <2>2. CASE \E k \in DOMAIN Baseline : Baseline[k] = x /\ k = id
    <3>1. x # s
      BY <1>5, <2>2 DEF NotInBaseline
    <3>2. id < Start
      BY <2>2, TableAssumption DEF Start
    <3>3. Start <= me /\ Start \in Nat
      BY <1>0, <1>4, TableAssumption DEF IdInv, Start
    <3> QED
      BY <3>1, <3>2, <3>3
  <2>3. CASE \E i \in 1..Len(Chain(b)) : arena[Chain(b)[i]].text = x /\ arena[Chain(b)[i]].id = id
    <3>1. PICK i \in 1..Len(Chain(b)) : arena[Chain(b)[i]].text = x /\ arena[Chain(b)[i]].id = id
      BY <2>3
    <3>2. x # s
      BY <1>2, <1>10, <2>1, <3>1
    <3>3. Chain(b)[i] # c
      BY <1>0, <1>3 DEF ThreadInv, FreshInv, HasRecord, HasBucket
    <3>4. Chain(b)[i] \in 1..Len(arena)
      BY <1>0 DEF ChainInv, LinkedOK
    <3>5. id # me
      BY <1>0, <1>4, <3>1, <3>3, <3>4 DEF IdInv
    <3> QED
      BY <3>2, <3>5
  <2> QED
    BY <1>0, <1>18, <2>1, <2>2, <2>3, TableHas
<1>19. \A p \in Table : p[1] # s /\ p[2] # me
  BY <1>18, TableType
<1>20. <<s, me>> \in Table'
  <2>1. Len(Chain(mine)) + 1 \in DOMAIN (Chain(mine)')
    BY <1>6, <1>9
  <2>2. PICK i \in DOMAIN (Chain(mine)') : /\ arena'[(Chain(mine)')[i]].text = s
                                          /\ arena'[(Chain(mine)')[i]].id = me
    BY <1>0, <1>4, <1>5, <1>9, <2>1
  <2>3. me \in LinkedIds(s)'
    BY <1>2, <2>2 DEF LinkedIds, Chain
  <2> QED
    BY <2>3 DEF Table
<1>21. ASSUME NEW x \in Strings, NEW id \in 1..MaxId, <<x, id>> \in Table'
       PROVE  <<x, id>> \in Table \cup {<<s, me>>}
  <2>1. PICK b \in Buckets : b = BucketOf[x]
    BY TableAssumption
  <2>2. CASE <<x, id>> \in BaselinePairs
    BY <2>2 DEF Table
  <2>3. CASE id \in LinkedIds(x)'
    <3>1. PICK i \in DOMAIN (Chain(b)') : /\ arena'[(Chain(b)')[i]].text = x
                                         /\ arena'[(Chain(b)')[i]].id = id
      BY <2>1, <2>3 DEF LinkedIds, Chain
    <3>2. i \in 1..Len(Chain(b)')
      <4>1. Chain(b)' \in Seq(Nat)
        BY <1>8, SMTT(30) DEF TypeOK, Chain
      <4> QED
        BY <3>1, <4>1
    <3>3. CASE i \in 1..Len(Chain(b)) /\ (Chain(b)')[i] = Chain(b)[i]
      BY <1>0, <2>1, <3>1, <3>3, TableHas
    <3>4. CASE (Chain(b)')[i] = c
      BY <1>0, <1>4, <1>5, <3>1, <3>4
    <3> QED
      BY <1>11, <3>2, <3>3, <3>4
  <2> QED
    BY <1>21, <2>2, <2>3 DEF Table, BaselinePairs
<1>22. Table' = Table \cup {<<s, me>>}
  <2>1. Table' \subseteq Strings \X (1..MaxId)
    <3>1. BaselinePairs \subseteq Strings \X (1..MaxId)
      BY TableAssumption DEF BaselinePairs
    <3> QED
      BY <3>1 DEF Table
  <2> QED
    BY <1>16, <1>20, <1>21, <2>1
<1> QED
  BY <1>0, <1>1, <1>5, <1>17, <1>19, <1>22 DEF Canonical!Intern

-----------------------------------------------------------------------------
(* The theorems                                                            *)

LEMMA InitTable == ASSUME Init PROVE Table = BaselinePairs
<1>1. \A b \in Buckets : Chain(b) = <<>>
  <2>1. CASE Dense
    <3>1. Cardinality(Buckets) \in Nat
      BY TableAssumption, FS_CardinalityType
    <3> QED
      BY <2>1, <3>1 DEF Init, Chain
  <2>2. CASE ~Dense
    BY <2>2 DEF Init, Chain
  <2> QED
    BY <2>1, <2>2
<1>2. \A s \in Strings : LinkedIds(s) = {}
  BY <1>1, TableAssumption DEF LinkedIds
<1> QED
  BY <1>2 DEF Table

LEMMA InitIndInv == ASSUME Init, Start < IdModulus PROVE IndInv
<1>1. TypeOK
  BY TypeInit
<1>2. IdInv
  <2>1. Start \in Nat /\ IdModulus \in Nat
    BY TableAssumption DEF Start
  <2>2. Start % IdModulus = Start
    BY <2>1
  <2> QED
    BY <2>1, <2>2 DEF Init, IdInv
<1>3. PageInv
  BY DEF Init, PageInv
<1>4. \A b \in Buckets : Chain(b) = <<>>
  <2>1. CASE Dense
    <3>1. Cardinality(Buckets) \in Nat
      BY TableAssumption, FS_CardinalityType
    <3> QED
      BY <2>1, <3>1 DEF Init, Chain
  <2>2. CASE ~Dense
    BY <2>2 DEF Init, Chain
  <2> QED
    BY <2>1, <2>2
<1>5. ChainInv
  BY <1>4 DEF ChainInv
<1>6. \A t \in Threads : ThreadInv(t)
  BY DEF Init, ThreadInv, TextInv, BucketInv, RecordInv, DirectInv, SlotInv, HeadInv, MissInv,
     FoundInv, FreshInv, LinkInv, HasSlot, HasPage, HasRecord, HasBucket
<1>7. OwnRecords /\ answers \subseteq Table
  BY DEF Init, OwnRecords, HasRecord, HasBucket
<1> QED
  BY <1>1, <1>2, <1>3, <1>5, <1>6, <1>7 DEF IndInv

(* A step of the table is a step, or none, of the abstract one.            *)
LEMMA NextRefines ==
    ASSUME NoWrap, IndInv, [Next]_vars
    PROVE  IndInv' /\ [Canonical!Next]_(Canonical!vars)
<1>1. CASE UNCHANGED vars
  <2>1. /\ UNCHANGED <<next_id, live_count, arena, bucket_pages, chains, pages, slots, draws>>
        /\ UNCHANGED <<answers, pc, text, bucket, direct, candidate, head, found>>
    BY <1>1 DEF vars, sharedVars, threadVars
  <2>2. TypeOK'
    BY <2>1 DEF IndInv, TypeOK
  <2>3. IdInv' /\ PageInv' /\ OwnRecords'
    BY <2>1 DEF IndInv, IdInv, PageInv, OwnRecords
  <2>4. ChainInv'
    <3>1. TypeOK /\ UNCHANGED sharedVars
      BY <1>1 DEF vars, IndInv
    <3>2. Growth /\ ChainsKept /\ SlotsKept
      BY <3>1, LocalFrame
    <3> QED
      BY <3>2, StableChains DEF SlotsKept
  <2>5. ASSUME NEW t \in Threads
        PROVE  ThreadInv(t)'
    <3>1. ThreadInv(t)
      BY DEF IndInv
    <3>2. TextInv(t)' /\ BucketInv(t)' /\ RecordInv(t)'
      BY <2>1, <3>1 DEF ThreadInv, TextInv, BucketInv, RecordInv, NotInBaseline
    <3>3. DirectInv(t)' /\ SlotInv(t)'
      BY <2>1, <3>1 DEF ThreadInv, DirectInv, SlotInv, MyId, SlotRecord, PageOf, SlotOf
    <3>4. HeadInv(t)' /\ MissInv(t)'
      BY <2>1, <3>1 DEF ThreadInv, HeadInv, MissInv, MyChain, Chain
    <3>5. FoundInv(t)' /\ LinkInv(t)'
      BY <2>1, <3>1 DEF ThreadInv, FoundInv, LinkInv, MyChain, Chain
    <3>6. FreshInv(t)'
      BY <2>1, <3>1 DEF ThreadInv, FreshInv, Chain
    <3> QED
      BY <3>2, <3>3, <3>4, <3>5, <3>6 DEF ThreadInv
  <2>6. Table' = Table
    BY <2>1 DEF Table, LinkedIds, Chain
  <2> QED
    BY <2>1, <2>2, <2>3, <2>4, <2>5, <2>6 DEF IndInv, Canonical!vars
<1>2. ASSUME NEW t \in Threads, Step(t) \/ \E s \in Strings : Find(t, s)
      PROVE  IndInv' /\ [Canonical!Next]_(Canonical!vars)
  (* Neither the table nor the answers change.                             *)
  <2>1. CASE \/ BucketLoad(t) \/ BucketInstall(t) \/ PageLoad(t) \/ PageInstall(t)
             \/ StoreSlot(t) \/ LoadHead(t) \/ LinkFails(t) \/ Walk(t)
    <3>1. IndInv' /\ Table' = Table
      BY <2>1, BucketLoadKeeps, BucketInstallKeeps, PageLoadKeeps, PageInstallKeeps,
         StoreSlotKeeps, HeadKeeps, WalkKeeps
    <3>2. UNCHANGED answers
      BY <2>1 DEF BucketLoad, BucketInstall, PageLoad, PageInstall, StoreSlot, LoadHead,
         LinkFails, Walk
    <3> QED
      BY <3>1, <3>2 DEF Canonical!vars
  <2>2. CASE AllocationFails(t)
    <3>1. IndInv' /\ Table' = Table /\ answers' = answers
      BY <2>2, AllocationFailsKeeps DEF AllocationFails, Return
    <3> QED
      BY <3>1 DEF Canonical!vars
  <2>3. CASE DrawId(t)
    <3>1. IndInv' /\ Table' = Table /\ answers' = answers
      BY <2>3, DrawIdKeeps DEF DrawId, Return
    <3> QED
      BY <3>1 DEF Canonical!vars
  (* An answer out of the table.                                           *)
  <2>4. ASSUME NEW p \in Table, answers' = answers \cup {p}, Table' = Table
        PROVE  Canonical!Next
    BY <2>4, TableType DEF Canonical!Next, Canonical!Answer
  <2>5. CASE ClearSlot(t)
    <3>1. IndInv' /\ Table' = Table
      BY <2>5, ClearSlotKeeps
    <3>2. <<text[t], found[t]>> \in Table /\ answers' = answers \cup {<<text[t], found[t]>>}
      BY <2>5, ClearAnswer DEF ClearSlot, Return
    <3> QED
      BY <2>4, <3>1, <3>2
  <2>6. CASE Count(t)
    <3>1. IndInv' /\ Table' = Table
      BY <2>6, CountKeeps
    <3>2. <<text[t], MyId(t)>> \in Table /\ answers' = answers \cup {<<text[t], MyId(t)>>}
      BY <2>6, CountAnswer DEF Count, Return
    <3> QED
      BY <2>4, <3>1, <3>2
  <2>7. CASE Link(t)
    <3>1. IndInv' /\ Canonical!Intern(text[t], MyId(t))
      BY <2>7, LinkKeeps
    <3>2. text[t] \in Strings /\ MyId(t) \in 1..MaxId
      <4>1. TypeOK /\ ThreadInv(t) /\ pc[t] = "link"
        BY <2>7 DEF IndInv, Link
      <4> QED
        BY <4>1, MyIdType DEF ThreadInv, TextInv, HasRecord, HasBucket
    <3> QED
      BY <3>1, <3>2 DEF Canonical!Next
  <2>8. ASSUME NEW s \in Strings, Find(t, s)
        PROVE  IndInv' /\ [Canonical!Next]_(Canonical!vars)
    <3>1. IndInv' /\ Table' = Table
      BY <2>8, FindKeeps
    <3>2. CASE FoundIds(s) = {}
      <4>1. answers' = answers
        BY <2>8, <3>2 DEF Find
      <4> QED
        BY <3>1, <4>1 DEF Canonical!vars
    <3>3. CASE FoundIds(s) # {}
      <4>1. PICK id \in FoundIds(s) : answers' = answers \cup {<<s, id>>}
        BY <2>8, <3>3 DEF Find, Return
      <4>2. <<s, id>> \in Table
        BY FoundInTable
      <4> QED
        BY <2>4, <3>1, <4>1, <4>2
    <3> QED
      BY <3>2, <3>3
  <2> QED
    BY <1>2, <2>1, <2>2, <2>3, <2>5, <2>6, <2>7, <2>8 DEF Step
<1> QED
  BY <1>1, <1>2 DEF Next

LEMMA Inductive == ASSUME NoWrap PROVE Spec => []IndInv
<1>1. ASSUME Init PROVE IndInv
  <2>1. Start < IdModulus
    BY TableAssumption DEF NoWrap, Start
  <2> QED
    BY <1>1, <2>1, InitIndInv
<1>2. IndInv /\ [Next]_vars => IndInv'
  BY NextRefines
<1> QED
  BY <1>1, <1>2, PTL DEF Spec

(* No record has an id that the pages cannot hold, and every pointer is    *)
(* one the table handed out.                                               *)
THEOREM TypeCorrect == ASSUME NoWrap PROVE Spec => []TypeOK
<1>1. IndInv => TypeOK
  BY DEF IndInv
<1> QED
  BY <1>1, Inductive, PTL

(* intern canonicalises, however many threads run it at once: the table    *)
(* implements the abstract one, whose only steps add a pair with a new     *)
(* text and a new id, and answer with a pair it has.                       *)
THEOREM Refinement == ASSUME NoWrap PROVE Spec => Canonicalises
<1>1. Init => Canonical!Init
  <2> SUFFICES ASSUME Init PROVE Canonical!Init
    OBVIOUS
  <2>1. Table = BaselinePairs
    BY InitTable
  <2> QED
    BY <2>1 DEF Canonical!Init, Init
<1>2. IndInv /\ [Next]_vars => [Canonical!Next]_(Canonical!vars)
  BY NextRefines
<1> QED
  BY <1>1, <1>2, Inductive, PTL DEF Spec, Canonicalises, Canonical!Spec

(* What is interned can be read back.                                      *)
LEMMA TableReadable ==
    ASSUME IndInv, NEW s \in Strings, NEW id \in 1..MaxId, <<s, id>> \in Table
    PROVE  /\ get(id) = s
           /\ id \notin DOMAIN Baseline =>
                 /\ SlotRecord(id) \in 1..Len(arena)
                 /\ arena[SlotRecord(id)].id = id
<1>0. TypeOK /\ ChainInv /\ IdInv
  BY DEF IndInv
<1>1. PICK b \in Buckets : b = BucketOf[s]
  BY TableAssumption
<1>2. CASE \E k \in DOMAIN Baseline : Baseline[k] = s /\ k = id
  BY <1>2 DEF get
<1>3. CASE \E i \in 1..Len(Chain(b)) : arena[Chain(b)[i]].text = s /\ arena[Chain(b)[i]].id = id
  <2>1. PICK i \in 1..Len(Chain(b)) : arena[Chain(b)[i]].text = s /\ arena[Chain(b)[i]].id = id
    BY <1>3
  <2>2. PICK r \in 1..Len(arena) : r = Chain(b)[i]
    BY <1>0 DEF ChainInv, LinkedOK
  <2>3. SlotRecord(id) = r /\ r # 0
    BY <1>0, <2>1, <2>2 DEF ChainInv, LinkedOK
  <2>4. id \notin DOMAIN Baseline
    <3>1. Start <= id
      BY <1>0, <2>1, <2>2 DEF IdInv
    <3> QED
      BY <3>1, TableAssumption DEF Start
  <2> QED
    BY <2>1, <2>2, <2>3, <2>4 DEF get
<1> QED
  BY <1>0, <1>1, <1>2, <1>3, TableHas

(* An id that intern has returned reads back as its text, for ever.        *)
THEOREM Readable == ASSUME NoWrap PROVE Spec => []AnswersReadable
<1>1. ASSUME IndInv PROVE AnswersReadable
  <2>1. \A p \in Table : get(p[2]) = p[1]
    BY <1>1, TableReadable, TableType
  <2> QED
    BY <1>1, <2>1 DEF AnswersReadable, IndInv
<1> QED
  BY <1>1, Inductive, PTL

-----------------------------------------------------------------------------
(* What SAVE finds                                                         *)

(* A record in a slot has that slot's id, and is interned or the candidate *)
(* of a call still under way.                                              *)
SlotKept(id, r) ==
    /\ r \in 1..Len(arena)
    /\ arena[r].id = id
    /\ \/ \E t \in Threads : pc[t] \in HasSlot /\ candidate[t] = r
       \/ <<arena[r].text, id>> \in Table

NoOrphans == \A id \in 1..MaxId : SlotRecord(id) # 0 => SlotKept(id, SlotRecord(id))

(* live_count lags behind the chains by the calls about to count.          *)
Counted ==
    {p \in Table \ BaselinePairs : \A t \in Threads : pc[t] = "count" => MyId(t) # p[2]}

CountExact == IsFiniteSet(Counted) /\ live_count = Cardinality(Counted)

SaveInv == NoOrphans /\ CountExact

LEMMA OrphansKept ==
    ASSUME IndInv, NoOrphans, NEW t \in Threads, Others(t), Growth, Table \subseteq Table',
           \A id \in 1..MaxId : SlotRecord(id)' # 0 =>
               \/ /\ SlotRecord(id)' = SlotRecord(id)
                  /\ \/ pc[t] \notin HasSlot
                     \/ candidate[t] # SlotRecord(id)
                     \/ pc[t] = "count"
                     \/ pc'[t] \in HasSlot /\ candidate'[t] = candidate[t]
               \/ /\ pc'[t] \in HasSlot /\ candidate'[t] = SlotRecord(id)'
                  /\ candidate'[t] \in 1..Len(arena) /\ arena[candidate'[t]].id = id
    PROVE  NoOrphans'
<1>0. TypeOK /\ Len(arena) \in Nat /\ Len(arena) <= Len(arena')
      /\ \A r \in 1..Len(arena) : r \in 1..Len(arena') /\ arena'[r] = arena[r]
  BY DEF IndInv, TypeOK, Growth
<1> SUFFICES ASSUME NEW id \in 1..MaxId, SlotRecord(id)' # 0
             PROVE  SlotKept(id, SlotRecord(id))'
  BY DEF NoOrphans
<1>1. PICK r : r = SlotRecord(id)'
  OBVIOUS
<1>2. SUFFICES SlotKept(id, r)'
  BY <1>1 DEF SlotKept, SlotRecord
<1>3. CASE pc'[t] \in HasSlot /\ candidate'[t] = r /\ r \in 1..Len(arena) /\ arena[r].id = id
  BY <1>0, <1>3 DEF SlotKept
<1>4. CASE /\ r = SlotRecord(id)
           /\ \/ pc[t] \notin HasSlot
              \/ candidate[t] # r
              \/ pc[t] = "count"
              \/ pc'[t] \in HasSlot /\ candidate'[t] = candidate[t]
  <2>1. SlotKept(id, r)
    BY <1>1, <1>4 DEF NoOrphans
  <2>2. r \in 1..Len(arena) /\ arena[r].id = id /\ arena'[r] = arena[r] /\ r \in 1..Len(arena')
    BY <1>0, <2>1 DEF SlotKept
  <2>3. CASE <<arena[r].text, id>> \in Table
    BY <2>2, <2>3 DEF SlotKept
  <2>4. ASSUME NEW u \in Threads, pc[u] \in HasSlot, candidate[u] = r
        PROVE  SlotKept(id, r)'
    <3>1. CASE u # t
      <4>1. pc'[u] \in HasSlot /\ candidate'[u] = r
        BY <2>4, <3>1 DEF Others
      <4> QED
        BY <2>2, <4>1 DEF SlotKept
    <3>2. CASE u = t /\ pc[t] = "count"
      <4>1. <<text[t], MyId(t)>> \in Table
        BY <3>2, CountAnswer
      <4>2. MyId(t) = id /\ arena[r].text = text[t]
        <5>1. RecordInv(t)
          BY DEF IndInv, ThreadInv
        <5> QED
          BY <2>2, <2>4, <3>2, <5>1 DEF MyId, RecordInv, HasRecord, HasBucket
      <4> QED
        BY <2>3, <4>1, <4>2
    <3>3. CASE u = t /\ pc'[t] \in HasSlot /\ candidate'[t] = candidate[t]
      BY <2>2, <2>4, <3>3 DEF SlotKept
    <3> QED
      BY <1>4, <2>4, <3>1, <3>2, <3>3
  <2> QED
    BY <2>1, <2>3, <2>4 DEF SlotKept
<1> QED
  BY <1>1, <1>3, <1>4

(* A step that neither links nor counts.                                   *)
LEMMA CountsKept ==
    ASSUME IndInv, CountExact, NEW t \in Threads, Others(t), Growth, Table' = Table,
           pc[t] # "count", pc'[t] # "count", live_count' = live_count
    PROVE  CountExact'
<1>1. ASSUME NEW u \in Threads, pc[u] = "count" PROVE MyId(u)' = MyId(u)
  <2>1. candidate'[u] = candidate[u] /\ candidate[u] \in 1..Len(arena)
    <3>1. RecordInv(u)
      BY DEF IndInv, ThreadInv
    <3> QED
      BY <1>1, <3>1 DEF Others, RecordInv, HasRecord, HasBucket
  <2> QED
    BY <2>1 DEF Growth, MyId
<1>2. \A u \in Threads : pc'[u] = "count" <=> pc[u] = "count"
  BY DEF Others
<1>3. Counted' = Counted
  BY <1>1, <1>2 DEF Counted, BaselinePairs
<1> QED
  BY <1>3 DEF CountExact

(* Steps that leave the slots alone, and the thread its candidate.         *)
LEMMA QuietSaves ==
    ASSUME IndInv, SaveInv, NEW t \in Threads, Others(t), Growth, SlotsKept, Table' = Table,
           pc[t] # "count", pc'[t] # "count", live_count' = live_count,
           pc[t] \in HasSlot => pc'[t] \in HasSlot /\ candidate'[t] = candidate[t]
    PROVE  SaveInv'
<1>1. NoOrphans'
  BY OrphansKept DEF SaveInv, SlotsKept
<1>2. CountExact'
  BY CountsKept DEF SaveInv
<1> QED
  BY <1>1, <1>2 DEF SaveInv

(* Storing the candidate, and emptying its slot again.                     *)
LEMMA SlotSteps ==
    ASSUME IndInv, SaveInv, NEW t \in Threads, StoreSlot(t) \/ ClearSlot(t)
    PROVE  SaveInv'
<1>0. /\ TypeOK /\ PageInv /\ RecordInv(t) /\ DirectInv(t) /\ Others(t)
      /\ pc[t] \in {"store", "clear"} /\ pc[t] \in HasPage /\ NoOrphans /\ CountExact
  BY StepsAreLocal DEF IndInv, SaveInv, ThreadInv, Step, StoreSlot, ClearSlot, HasPage, HasRecord,
     HasBucket
<1>1. PICK me \in 1..MaxId : me = MyId(t)
  BY <1>0, MyIdType DEF HasPage
<1>2. Table' = Table
  BY StoreSlotKeeps, ClearSlotKeeps
<1>3. candidate[t] \in 1..Len(arena) /\ arena[candidate[t]].id = me /\ candidate[t] \in Nat
  BY <1>0, <1>1 DEF RecordInv, MyId, HasPage
<1>4. PICK v \in Nat : /\ slots' = [slots EXCEPT ![direct[t]][SlotOf(MyId(t))] = v]
                       /\ pc[t] = "store" => v = candidate[t]
                       /\ pc[t] = "clear" => v = 0
  BY <1>3 DEF StoreSlot, ClearSlot
<1>5. /\ UNCHANGED <<arena, bucket_pages, chains, pages>> /\ live_count' = live_count
      /\ pc[t] = "store" => pc'[t] = "head" /\ candidate'[t] = candidate[t]
      /\ pc[t] = "clear" => pc'[t] = "idle"
  BY <1>0 DEF StoreSlot, ClearSlot, Go, Return, TypeOK
<1>6. /\ SlotRecord(me)' = v
      /\ \A id \in 1..MaxId : id # me => SlotRecord(id)' = SlotRecord(id)
      /\ Growth
  BY <1>0, <1>1, <1>4, <1>5, SlotWriteFrame
<1>7. NoOrphans'
  <2>1. ASSUME NEW id \in 1..MaxId, SlotRecord(id)' # 0
        PROVE  \/ /\ SlotRecord(id)' = SlotRecord(id)
                  /\ pc[t] \notin HasSlot \/ candidate[t] # SlotRecord(id)
               \/ /\ pc'[t] \in HasSlot /\ candidate'[t] = SlotRecord(id)'
                  /\ candidate'[t] \in 1..Len(arena) /\ arena[candidate'[t]].id = id
    <3>1. CASE id # me
      <4>1. SlotRecord(id)' = SlotRecord(id) /\ SlotRecord(id) # 0
        BY <1>6, <2>1, <3>1
      <4>2. arena[SlotRecord(id)].id = id
        BY <1>0, <4>1 DEF NoOrphans, SlotKept
      <4> QED
        BY <1>3, <3>1, <4>1, <4>2
    <3>2. CASE id = me /\ pc[t] = "store"
      BY <1>3, <1>4, <1>5, <1>6, <3>2 DEF HasSlot, HasPage, HasRecord, HasBucket
    <3>3. CASE id = me /\ pc[t] = "clear"
      BY <1>4, <1>6, <2>1, <3>3
    <3> QED
      BY <1>0, <3>1, <3>2, <3>3
  <2> QED
    BY <1>0, <1>2, <1>6, <2>1, OrphansKept
<1>8. CountExact'
  BY <1>0, <1>2, <1>5, <1>6, CountsKept
<1> QED
  BY <1>7, <1>8 DEF SaveInv

(* Two interned strings have two ids.                                      *)
LEMMA TableIds ==
    ASSUME IndInv, NEW p \in Table, NEW q \in Table, p[2] = q[2]
    PROVE  p = q
<1>1. p \in Strings \X (1..MaxId) /\ q \in Strings \X (1..MaxId)
  BY TableType
<1>2. get(p[2]) = p[1] /\ get(q[2]) = q[1]
  BY <1>1, TableReadable
<1> QED
  BY <1>1, <1>2

(* The ids threads are about to count are different.                       *)
LEMMA MyIdsDiffer ==
    ASSUME IndInv, NEW t \in Threads, NEW u \in Threads, pc[t] \in HasRecord, pc[u] \in HasRecord,
           MyId(t) = MyId(u)
    PROVE  t = u
<1>1. RecordInv(t) /\ RecordInv(u) /\ IdInv /\ OwnRecords
  BY DEF IndInv, ThreadInv
<1>2. candidate[t] = candidate[u]
  BY <1>1 DEF RecordInv, IdInv, MyId
<1> QED
  BY <1>1, <1>2 DEF OwnRecords

LEMMA LinkSaves ==
    ASSUME IndInv, SaveInv, NEW t \in Threads, Link(t)
    PROVE  SaveInv'
<1>0. /\ TypeOK /\ PageInv /\ TextInv(t) /\ BucketInv(t) /\ RecordInv(t) /\ Others(t)
      /\ pc[t] = "link" /\ pc'[t] = "count" /\ NoOrphans /\ CountExact
      /\ live_count' = live_count /\ candidate' = candidate /\ arena' = arena
  BY StepsAreLocal DEF IndInv, SaveInv, ThreadInv, Step, Link, Go, TypeOK
<1>1. Growth /\ SlotsKept
  BY <1>0, LinkFrame
<1>2. PICK new : new = <<text[t], MyId(t)>>
  OBVIOUS
<1>3. /\ Table' = Table \cup {new}
      /\ \A p \in Table : p[2] # MyId(t)
  BY <1>2, LinkKeeps DEF Canonical!Intern
<1>4. NoOrphans'
  <2>1. Table \subseteq Table'
    BY <1>3
  <2>2. pc'[t] \in HasSlot /\ candidate'[t] = candidate[t]
    BY <1>0 DEF HasSlot, HasPage, HasRecord, HasBucket
  <2> QED
    BY <1>0, <1>1, <2>1, <2>2, OrphansKept DEF SlotsKept
<1>5. \A u \in Threads : MyId(u)' = MyId(u)
  BY <1>0 DEF MyId
<1>6. \A u \in Threads : u # t => (pc'[u] = "count" <=> pc[u] = "count")
  BY <1>0 DEF Others
<1>7. Counted' = Counted
  <2>1. ASSUME NEW p \in Table PROVE p \in Counted' <=> p \in Counted
    <3>1. \A u \in Threads : (pc'[u] = "count" => MyId(u)' # p[2]) <=> (pc[u] = "count" => MyId(u) # p[2])
      BY <1>0, <1>3, <1>5, <1>6
    <3> QED
      BY <1>3, <3>1 DEF Counted, BaselinePairs
  <2>2. new \notin Counted'
    BY <1>0, <1>2, <1>5 DEF Counted
  <2> QED
    BY <1>3, <2>1, <2>2 DEF Counted
<1>8. CountExact'
  BY <1>0, <1>7 DEF CountExact
<1> QED
  BY <1>4, <1>8 DEF SaveInv

LEMMA CountSaves ==
    ASSUME IndInv, SaveInv, NEW t \in Threads, Count(t)
    PROVE  SaveInv'
<1>0. /\ TypeOK /\ Others(t) /\ pc[t] = "count" /\ pc'[t] = "idle" /\ NoOrphans /\ CountExact
      /\ live_count' = live_count + 1 /\ UNCHANGED <<arena, bucket_pages, chains, pages, slots>>
  BY StepsAreLocal DEF IndInv, SaveInv, Step, Count, Return, Go, TypeOK
<1>1. Table' = Table
  BY CountKeeps
<1>2. Growth /\ SlotsKept
  <2>1. ChainsKept
    BY <1>0 DEF ChainsKept, Chain
  <2>2. /\ Len(arena) <= Len(arena') /\ \A r \in 1..Len(arena) : arena'[r] = arena[r]
    BY <1>0 DEF TypeOK
  <2> QED
    BY <1>0, <2>1, <2>2, KeptChainsGrow DEF Growth, SlotsKept, SlotRecord
<1>3. NoOrphans'
  BY <1>0, <1>1, <1>2, OrphansKept DEF SlotsKept
<1>4. PICK mine \in Table : mine = <<text[t], MyId(t)>>
  BY <1>0, CountAnswer
<1>5. mine \notin BaselinePairs
  <2>1. RecordInv(t) /\ IdInv
    BY DEF IndInv, ThreadInv
  <2>2. Start <= MyId(t)
    BY <1>0, <2>1 DEF RecordInv, IdInv, MyId, HasRecord, HasBucket
  <2>3. ASSUME NEW k \in DOMAIN Baseline PROVE k < Start /\ k \in Nat
    BY TableAssumption DEF Start
  <2>4. MyId(t) \in Nat /\ Start \in Nat
    BY <1>0, <2>1, MyIdType, TableAssumption DEF Start, HasRecord, HasBucket
  <2> QED
    BY <1>4, <2>2, <2>3, <2>4 DEF BaselinePairs
<1>6. ASSUME NEW u \in Threads, u # t, pc[u] = "count"
      PROVE  MyId(u)' = MyId(u) /\ MyId(u) # MyId(t)
  BY <1>0, <1>6, MyIdsDiffer DEF Others, MyId, HasRecord, HasBucket
<1>7. \A u \in Threads : u # t => (pc'[u] = "count" <=> pc[u] = "count")
  BY <1>0 DEF Others
<1>8. ASSUME NEW p \in Table \ BaselinePairs
      PROVE  p \in Counted' <=> p \in Counted \/ p = mine
  <2>1. CASE p = mine
    <3>1. \A u \in Threads : pc'[u] = "count" => MyId(u)' # p[2]
      BY <1>0, <1>4, <1>6, <1>7, <2>1
    <3> QED
      BY <1>1, <2>1, <3>1 DEF Counted, BaselinePairs
  <2>2. CASE p # mine
    <3>1. p[2] # MyId(t)
      BY <1>4, <2>2, TableIds
    <3>2. \A u \in Threads : (pc'[u] = "count" => MyId(u)' # p[2]) <=> (pc[u] = "count" => MyId(u) # p[2])
      BY <1>0, <1>6, <1>7, <3>1
    <3> QED
      BY <1>1, <2>2, <3>2 DEF Counted, BaselinePairs
  <2> QED
    BY <2>1, <2>2
<1>9. Counted' = Counted \cup {mine} /\ mine \notin Counted
  <2>1. Counted' \subseteq Table \ BaselinePairs /\ Counted \subseteq Table \ BaselinePairs
    BY <1>1 DEF Counted, BaselinePairs
  <2>2. mine \notin Counted
    BY <1>0, <1>4 DEF Counted
  <2> QED
    BY <1>4, <1>5, <1>8, <2>1, <2>2
<1>10. CountExact'
  <2>1. Cardinality(Counted) \in Nat /\ IsFiniteSet(Counted)
    BY <1>0, FS_CardinalityType DEF CountExact
  <2>2. IsFiniteSet(Counted') /\ Cardinality(Counted') = Cardinality(Counted) + 1
    BY <1>9, <2>1, FS_AddElement
  <2> QED
    BY <1>0, <2>1, <2>2 DEF CountExact
<1> QED
  BY <1>3, <1>10 DEF SaveInv

LEMMA NextSaves ==
    ASSUME NoWrap, IndInv, SaveInv, [Next]_vars
    PROVE  SaveInv'
<1>0. TypeOK /\ PageInv
  BY DEF IndInv
<1>1. CASE UNCHANGED vars
  <2>1. /\ UNCHANGED <<next_id, live_count, arena, bucket_pages, chains, pages, slots>>
        /\ UNCHANGED <<pc, candidate>>
    BY <1>1 DEF vars, sharedVars, threadVars
  <2>2. Table' = Table
    BY <2>1 DEF Table, LinkedIds, Chain
  <2>3. Counted' = Counted
    BY <2>1, <2>2 DEF Counted, BaselinePairs, MyId
  <2>4. NoOrphans'
    BY <2>1, <2>2 DEF SaveInv, NoOrphans, SlotKept, SlotRecord, PageOf, SlotOf
  <2> QED
    BY <2>1, <2>3, <2>4 DEF SaveInv, CountExact
<1>2. ASSUME NEW t \in Threads, Step(t) \/ \E s \in Strings : Find(t, s)
      PROVE  SaveInv'
  <2>0. Others(t) /\ ThreadInv(t) /\ TextInv(t) /\ RecordInv(t)
    BY <1>0, <1>2, StepsAreLocal DEF IndInv, ThreadInv
  <2>1. CASE \/ BucketLoad(t) \/ PageLoad(t) \/ LoadHead(t) \/ LinkFails(t)
             \/ Walk(t) \/ AllocationFails(t) \/ \E s \in Strings : Find(t, s)
    <3>1. UNCHANGED sharedVars
      BY <2>1 DEF BucketLoad, PageLoad, LoadHead, LinkFails, Walk, AllocationFails, Find
    <3>2. Growth /\ SlotsKept /\ live_count' = live_count
      BY <1>0, <3>1, LocalFrame DEF sharedVars
    <3>3. Table' = Table
      BY <2>1, BucketLoadKeeps, PageLoadKeeps, HeadKeeps, WalkKeeps, AllocationFailsKeeps, FindKeeps
    <3>4. pc[t] # "count" /\ pc'[t] # "count"
      BY <1>0, <2>1 DEF BucketLoad, PageLoad, LoadHead, LinkFails, Walk, AllocationFails, Find,
         Go, Return, TypeOK
    <3>5. pc[t] \in HasSlot => pc'[t] \in HasSlot /\ candidate'[t] = candidate[t]
      BY <1>0, <2>1 DEF BucketLoad, PageLoad, LoadHead, LinkFails, Walk, AllocationFails, Find,
         Go, Return, TypeOK, HasSlot, HasPage, HasRecord, HasBucket
    <3> QED
      BY <2>0, <3>2, <3>3, <3>4, <3>5, QuietSaves
  <2>2. CASE BucketInstall(t)
    <3>1. Growth /\ SlotsKept /\ Table' = Table
      BY <1>0, <2>0, <2>2, BucketInstallFrame, BucketInstallKeeps
    <3>2. /\ live_count' = live_count /\ pc[t] = "install_bucket" /\ pc'[t] = "allocate"
      BY <1>0, <2>2 DEF BucketInstall, Go, TypeOK
    <3> QED
      BY <2>0, <3>1, <3>2, QuietSaves DEF HasSlot, HasPage, HasRecord, HasBucket
  <2>3. CASE PageInstall(t)
    <3>1. Growth /\ SlotsKept /\ Table' = Table
      BY <1>0, <2>0, <2>3, PageInstallFrame, PageInstallKeeps
    <3>2. /\ live_count' = live_count /\ pc[t] = "install_page" /\ pc'[t] = "store"
      BY <1>0, <2>3 DEF PageInstall, Go, TypeOK
    <3> QED
      BY <2>0, <3>1, <3>2, QuietSaves DEF HasSlot, HasPage, HasRecord, HasBucket
  <2>4. CASE DrawId(t)
    <3>1. Table' = Table
      BY <2>4, DrawIdKeeps
    <3>2. /\ live_count' = live_count /\ pc[t] = "allocate" /\ pc'[t] \in {"idle", "page"}
          /\ UNCHANGED <<bucket_pages, chains, pages, slots>>
      BY <1>0, <2>4 DEF DrawId, Go, Return, TypeOK
    <3>3. CASE next_id = 0 \/ next_id > MaxId
      <4>1. UNCHANGED <<arena, bucket_pages, chains, pages, slots>>
        BY <2>4, <3>2, <3>3 DEF DrawId
      <4>2. ChainsKept /\ SlotsKept
        BY <4>1 DEF ChainsKept, SlotsKept, Chain, SlotRecord
      <4>3. Len(arena) <= Len(arena') /\ \A r \in 1..Len(arena) : arena'[r] = arena[r]
        BY <1>0, <4>1 DEF TypeOK
      <4>4. Growth
        BY <1>0, <4>1, <4>2, <4>3, KeptChainsGrow DEF Growth
      <4> QED
        BY <2>0, <3>1, <3>2, <4>2, <4>4, QuietSaves DEF HasSlot, HasPage, HasRecord, HasBucket
    <3>4. CASE next_id # 0 /\ next_id <= MaxId
      <4>1. next_id \in 1..MaxId /\ text[t] \in Strings
        BY <1>0, <2>0, <3>2, <3>4, TableAssumption DEF TypeOK, TextInv
      <4>2. arena' = Append(arena, [text |-> text[t], id |-> next_id])
        BY <1>0, <2>4, <3>4, TableAssumption DEF DrawId, TypeOK
      <4>3. Growth /\ SlotsKept
        BY <1>0, <3>2, <4>1, <4>2, DrawIdFrame
      <4> QED
        BY <2>0, <3>1, <3>2, <4>3, QuietSaves DEF HasSlot, HasPage, HasRecord, HasBucket
    <3> QED
      BY <1>0, <3>3, <3>4, TableAssumption DEF TypeOK
  <2> QED
    BY <1>2, <2>1, <2>2, <2>3, <2>4, SlotSteps, LinkSaves, CountSaves DEF Step
<1> QED
  BY <1>1, <1>2 DEF Next

(* Between calls, SAVE finds in the slots exactly the strings interned,    *)
(* and size() counts them: no abandoned candidate is written to an image.  *)
THEOREM Saved == ASSUME NoWrap PROVE Spec => []SavedExactly
<1>1. ASSUME Init PROVE SaveInv
  <2>1. \A id \in 1..MaxId : SlotRecord(id) = 0
    BY <1>1, PageRange DEF Init, SlotRecord
  <2>2. Table = BaselinePairs
    BY <1>1, InitTable
  <2>3. Counted = {}
    BY <2>2 DEF Counted
  <2> QED
    BY <1>1, <2>1, <2>3, FS_EmptySet DEF SaveInv, NoOrphans, CountExact, Init
<1>2. ASSUME NoWrap, IndInv, SaveInv, [Next]_vars PROVE SaveInv'
  BY <1>2, NextSaves
<1>3. ASSUME IndInv, SaveInv PROVE SavedExactly
  <2>0. TypeOK /\ NoOrphans /\ CountExact
    BY <1>3 DEF IndInv, SaveInv
  <2> SUFFICES ASSUME \A t \in Threads : pc[t] = "idle"
               PROVE  /\ at_slot = {p[2] : p \in Table}
                      /\ Cardinality(at_slot) = Cardinality(BaselinePairs) + live_count
    BY DEF SavedExactly
  <2> DEFINE New == Table \ BaselinePairs
  <2>1. \A p \in Table : p[2] \in at_slot
    <3> TAKE p \in Table
    <3>1. PICK s \in Strings, id \in 1..MaxId : p = <<s, id>>
      BY TableType
    <3>2. CASE id \in DOMAIN Baseline
      <4>1. get(id) = s
        BY <1>3, <3>1, TableReadable
      <4> QED
        BY <3>1, <3>2, <4>1, TableAssumption DEF get, at_slot
    <3>3. CASE id \notin DOMAIN Baseline
      BY <1>3, <3>1, <3>3, TableReadable DEF at_slot
    <3> QED
      BY <3>2, <3>3
  <2>2. \A id \in at_slot : \E p \in Table : p[2] = id
    <3> TAKE id \in at_slot
    <3>1. CASE id \in DOMAIN Baseline /\ Baseline[id] # Hole
      <4>1. <<Baseline[id], id>> \in Table
        BY <3>1 DEF Table, BaselinePairs
      <4> QED
        BY <4>1
    <3>2. CASE id \in 1..MaxId /\ SlotRecord(id) # 0
      <4>1. PICK r : r = SlotRecord(id)
        OBVIOUS
      <4>2. <<arena[r].text, id>> \in Table
        BY <2>0, <3>2, <4>1 DEF NoOrphans, SlotKept, HasSlot, HasPage, HasRecord, HasBucket
      <4> QED
        BY <4>2
    <3> QED
      BY <3>1, <3>2 DEF at_slot
  <2>3. at_slot = {p[2] : p \in Table}
    BY <2>1, <2>2
  <2>4. IsFiniteSet(New) /\ live_count = Cardinality(New) /\ Cardinality(New) \in Nat
    <3>1. Counted = New
      BY DEF Counted
    <3> QED
      BY <2>0, <3>1, FS_CardinalityType DEF CountExact
  <2>5. IsFiniteSet(BaselinePairs) /\ Cardinality(BaselinePairs) \in Nat
    <3> DEFINE f == [p \in BaselinePairs |-> p[2]]
    <3>1. f \in Injection(BaselinePairs, DOMAIN Baseline)
      BY DEF Injection, IsInjective, BaselinePairs
    <3>2. IsFiniteSet(DOMAIN Baseline)
      <4>1. Len(Baseline) \in Nat /\ DOMAIN Baseline = 1..Len(Baseline)
        BY TableAssumption
      <4> QED
        BY <4>1, FS_Interval
    <3> HIDE DEF f
    <3>3. IsFiniteSet(BaselinePairs)
      BY <3>1, <3>2, FS_Injection
    <3> QED
      BY <3>3, FS_CardinalityType
  <2>6. IsFiniteSet(Table) /\ Cardinality(Table) = Cardinality(BaselinePairs) + Cardinality(New)
    <3>1. Table = BaselinePairs \cup New /\ BaselinePairs \cap New = {}
      BY DEF Table
    <3> HIDE DEF New
    <3>2. Cardinality(BaselinePairs \cap New) = 0
      BY <3>1, FS_EmptySet
    <3>3. /\ IsFiniteSet(BaselinePairs \cup New)
          /\ Cardinality(BaselinePairs \cup New) =
                Cardinality(BaselinePairs) + Cardinality(New) - Cardinality(BaselinePairs \cap New)
      BY <2>4, <2>5, FS_Union, Zenon
    <3> QED
      BY <2>4, <2>5, <3>1, <3>2, <3>3
  <2>7. Cardinality(at_slot) = Cardinality(Table)
    <3> DEFINE g == [p \in Table |-> p[2]]
    <3>1. g \in Bijection(Table, at_slot)
      <4>1. g \in [Table -> at_slot]
        BY <2>1
      <4>2. \A p, q \in Table : g[p] = g[q] => p = q
        BY <1>3, TableIds
      <4>3. \A id \in at_slot : \E p \in Table : g[p] = id
        BY <2>2
      <4> QED
        BY <4>1, <4>2, <4>3 DEF Bijection, Injection, IsInjective, Surjection
    <3>2. ExistsBijection(Table, at_slot)
      BY <3>1 DEF ExistsBijection
    <3> QED
      BY <2>6, <3>2, FS_Bijection
  <2> HIDE DEF New
  <2> QED
    BY <2>3, <2>4, <2>6, <2>7
<1> QED
  BY <1>1, <1>2, <1>3, Inductive, PTL DEF Spec
=============================================================================
