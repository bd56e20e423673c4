----------------------------- MODULE StringTable -----------------------------
(***************************************************************************)
(* string_table: text atoms interned concurrently by the parser threads,   *)
(* without a lock, over the immutable strings of the mapped baseline.      *)
(*                                                                         *)
(* One action per atomic operation on shared memory.  The chain of a       *)
(* bucket only grows at its head and its records do not change once        *)
(* linked, so a chain is a sequence (its head last) and a loaded head      *)
(* pointer is the length the chain had then; a walk from it is one step.   *)
(* A bucket page holds one bucket here, a record page PageSize slots.      *)
(* Pointers are positions in the heap of their kind, 0 is null.            *)
(***************************************************************************)
EXTENDS Naturals, Sequences, FiniteSets

CONSTANTS Threads,
          Strings,
          Hole,         \* no text
          Buckets,
          BucketOf,     \* bucket of each string: its hash, masked
          Dense,        \* buckets preallocated: a table without a baseline
          Baseline,     \* text, or Hole, of each slot of the baseline
          PageSize,     \* slots of a record page (4096 in the code)
          MaxId,        \* maximum_id (2^28 in the code)
          IdModulus,    \* next_id is taken modulo this (2^32 in the code)
          MaxDraws      \* bound: ids drawn from next_id

Start   == Len(Baseline) + 1
PageIds == 0..((MaxId - 1) \div PageSize)

ASSUME TableAssumption ==
    /\ IsFiniteSet(Buckets)
    /\ Hole \notin Strings
    /\ BucketOf \in [Strings -> Buckets]
    /\ Dense \in BOOLEAN
    /\ Baseline \in Seq(Strings \cup {Hole})
    /\ Dense => Baseline = <<>>
    /\ \A i, j \in DOMAIN Baseline :
          i # j /\ Baseline[i] = Baseline[j] => Baseline[i] = Hole
    /\ PageSize \in Nat \ {0}
    /\ MaxId \in Nat \ {0}
    /\ IdModulus \in Nat
    /\ MaxId < IdModulus
    /\ Len(Baseline) < MaxId
    /\ MaxDraws \in Nat

VARIABLES next_id,
          live_count,
          arena,        \* records handed out: text and id of each
          bucket_pages, \* bucket_pages[b]: page with the chain of bucket b
          chains,       \* the bucket pages allocated
          pages,        \* pages[i]: record page with the slots of id page i
          slots,        \* the record pages allocated: record of each slot
          draws,        \* ids drawn so far
          answers,      \* pairs of text and id that intern has returned
          pc,           \* thread: where it is in intern
          text,         \* thread: its argument
          bucket,       \* thread: its bucket page
          direct,       \* thread: its record page
          candidate,    \* thread: its record
          head,         \* thread: the head of the chain it loaded last
          found         \* thread: id of the record it found in the chain

sharedVars == <<next_id, live_count, arena, bucket_pages, chains, pages, slots, draws>>
threadVars == <<pc, text, bucket, direct, candidate, head, found>>
vars == <<sharedVars, answers, threadVars>>

Init ==
    /\ next_id = Start % IdModulus
    /\ live_count = 0
    /\ arena = <<>>
    /\ IF Dense THEN /\ bucket_pages \in [Buckets -> 1..Cardinality(Buckets)]
                     /\ \A a, b \in Buckets : bucket_pages[a] = bucket_pages[b] => a = b
                     /\ chains = [i \in 1..Cardinality(Buckets) |-> <<>>]
                ELSE /\ bucket_pages = [b \in Buckets |-> 0]
                     /\ chains = <<>>
    /\ pages = [i \in PageIds |-> 0]
    /\ slots = <<>>
    /\ draws = 0
    /\ answers = {}
    /\ pc = [t \in Threads |-> "idle"]
    /\ text = [t \in Threads |-> Hole]
    /\ bucket = [t \in Threads |-> 0]
    /\ direct = [t \in Threads |-> 0]
    /\ candidate = [t \in Threads |-> 0]
    /\ head = [t \in Threads |-> 0]
    /\ found = [t \in Threads |-> 0]

-----------------------------------------------------------------------------
(***************************************************************************)
(* The readers: each loads one shared word.                                *)
(***************************************************************************)
PageOf(id) == (id - 1) \div PageSize
SlotOf(id) == (id - 1) % PageSize

Chain(b) == IF bucket_pages[b] = 0 THEN <<>> ELSE chains[bucket_pages[b]]

\* The ids of the baseline's and of the linked records with text s.
BaselineIds(s) == {i \in DOMAIN Baseline : Baseline[i] = s}
LinkedIds(s)   == {arena[Chain(BucketOf[s])[i]].id :
                      i \in {j \in DOMAIN Chain(BucketOf[s]) :
                                arena[Chain(BucketOf[s])[j]].text = s}}

\* Linked records first, then the baseline.
FoundIds(s) == IF LinkedIds(s) # {} THEN LinkedIds(s) ELSE BaselineIds(s)

SlotRecord(id) == IF pages[PageOf(id)] = 0 THEN 0
                                           ELSE slots[pages[PageOf(id)]][SlotOf(id)]

get(id) ==
    CASE id \in DOMAIN Baseline -> Baseline[id]
      [] id \notin DOMAIN Baseline /\ SlotRecord(id) = 0 -> Hole
      [] OTHER -> arena[SlotRecord(id)].text

\* The ids at_slot lists, as the encoder of the compiled image goes through them.
at_slot ==
    {id \in DOMAIN Baseline : Baseline[id] # Hole} \cup
    {id \in (1..MaxId) \ DOMAIN Baseline :
        SlotRecord(id) # 0 /\ arena[SlotRecord(id)].id = id}

-----------------------------------------------------------------------------
(***************************************************************************)
(* intern                                                                  *)
(***************************************************************************)
Go(t, where) == pc' = [pc EXCEPT ![t] = where]

Return(t, pairs) ==
    /\ Go(t, "idle")
    /\ answers' = answers \cup pairs
    /\ text' = [text EXCEPT ![t] = Hole]
    /\ bucket' = [bucket EXCEPT ![t] = 0]
    /\ direct' = [direct EXCEPT ![t] = 0]
    /\ candidate' = [candidate EXCEPT ![t] = 0]
    /\ head' = [head EXCEPT ![t] = 0]
    /\ found' = [found EXCEPT ![t] = 0]

Find(t, s) ==
    /\ pc[t] = "idle"
    /\ IF FoundIds(s) = {}
       THEN /\ Go(t, "bucket")
            /\ text' = [text EXCEPT ![t] = s]
            /\ UNCHANGED <<answers, bucket, direct, candidate, head, found>>
       ELSE \E id \in FoundIds(s) : Return(t, {<<s, id>>})
    /\ UNCHANGED sharedVars

\* ensure_bucket_slot: the page is loaded, and installed when there is none.
BucketLoad(t) ==
    LET page == bucket_pages[BucketOf[text[t]]]
    IN  /\ pc[t] = "bucket"
        /\ bucket' = [bucket EXCEPT ![t] = page]
        /\ Go(t, IF page = 0 THEN "install_bucket" ELSE "allocate")
        /\ UNCHANGED <<sharedVars, answers, text, direct, candidate, head, found>>

BucketInstall(t) ==
    LET b == BucketOf[text[t]]
    IN  /\ pc[t] = "install_bucket"
        /\ IF bucket_pages[b] = 0
           THEN /\ chains' = Append(chains, <<>>)
                /\ bucket_pages' = [bucket_pages EXCEPT ![b] = Len(chains')]
           ELSE UNCHANGED <<chains, bucket_pages>>
        /\ bucket' = [bucket EXCEPT ![t] = bucket_pages'[b]]
        /\ Go(t, "allocate")
        /\ UNCHANGED <<next_id, live_count, arena, pages, slots, draws, answers,
                       text, direct, candidate, head, found>>

\* The record is allocated, filled, and given the next id.  An id out of range is
\* lost, and so is the record.
DrawId(t) ==
    /\ pc[t] = "allocate"
    /\ draws < MaxDraws
    /\ draws' = draws + 1
    /\ next_id' = (next_id + 1) % IdModulus
    /\ IF next_id = 0 \/ next_id > MaxId
       THEN Return(t, {}) /\ UNCHANGED arena
       ELSE /\ arena' = Append(arena, [text |-> text[t], id |-> next_id])
            /\ candidate' = [candidate EXCEPT ![t] = Len(arena')]
            /\ Go(t, "page")
            /\ UNCHANGED <<answers, text, bucket, direct, head, found>>
    /\ UNCHANGED <<live_count, bucket_pages, chains, pages, slots>>

MyId(t) == arena[candidate[t]].id

\* ensure_page, in the same way.
PageLoad(t) ==
    LET page == pages[PageOf(MyId(t))]
    IN  /\ pc[t] = "page"
        /\ direct' = [direct EXCEPT ![t] = page]
        /\ Go(t, IF page = 0 THEN "install_page" ELSE "store")
        /\ UNCHANGED <<sharedVars, answers, text, bucket, candidate, head, found>>

NewPage == [i \in 0..(PageSize - 1) |-> 0]

\* Mutant: the page is stored without looking for another thread's.
PageInstallBlind(t) ==
    /\ pc[t] = "install_page"
    /\ slots' = Append(slots, NewPage)
    /\ pages' = [pages EXCEPT ![PageOf(MyId(t))] = Len(slots')]
    /\ direct' = [direct EXCEPT ![t] = Len(slots')]
    /\ Go(t, "store")
    /\ UNCHANGED <<next_id, live_count, arena, bucket_pages, chains, draws, answers,
                   text, bucket, candidate, head, found>>

PageInstall(t) ==
    LET i == PageOf(MyId(t))
    IN  /\ pc[t] = "install_page"
        /\ IF pages[i] = 0
           THEN /\ slots' = Append(slots, NewPage)
                /\ pages' = [pages EXCEPT ![i] = Len(slots')]
           ELSE UNCHANGED <<slots, pages>>
        /\ direct' = [direct EXCEPT ![t] = pages'[i]]
        /\ Go(t, "store")
        /\ UNCHANGED <<next_id, live_count, arena, bucket_pages, chains, draws, answers,
                       text, bucket, candidate, head, found>>

\* A bucket page, the record or a record page cannot be allocated: not_available.
AllocationFails(t) ==
    /\ pc[t] \in {"install_bucket", "allocate", "install_page"}
    /\ Return(t, {})
    /\ UNCHANGED sharedVars

\* The id becomes readable before the string is linked.
StoreSlot(t) ==
    /\ pc[t] = "store"
    /\ slots' = [slots EXCEPT ![direct[t]][SlotOf(MyId(t))] = candidate[t]]
    /\ Go(t, "head")
    /\ UNCHANGED <<next_id, live_count, arena, bucket_pages, chains, pages, draws, answers,
                   text, bucket, direct, candidate, head, found>>

LoadHead(t) ==
    /\ pc[t] = "head"
    /\ head' = [head EXCEPT ![t] = Len(chains[bucket[t]])]
    /\ Go(t, "walk")
    /\ UNCHANGED <<sharedVars, answers, text, bucket, direct, candidate, found>>

\* The walk from the loaded head ends at the first record with the text.
Matches(t) ==
    {i \in 1..head[t] : arena[chains[bucket[t]][i]].text = text[t]}

Walk(t) ==
    /\ pc[t] = "walk"
    /\ IF Matches(t) = {}
       THEN Go(t, "link") /\ UNCHANGED found
       ELSE \E first \in Matches(t) :
              /\ \A i \in Matches(t) : i <= first
              /\ Go(t, "clear")
              /\ found' = [found EXCEPT ![t] = arena[chains[bucket[t]][first]].id]
    /\ UNCHANGED <<sharedVars, answers, text, bucket, direct, candidate, head>>

\* Mutant: the losing candidate stays in its slot.
KeepSlot(t) ==
    /\ pc[t] = "clear"
    /\ Return(t, {<<text[t], found[t]>>})
    /\ UNCHANGED sharedVars

\* Another thread interned the text first: the candidate's slot is emptied again.
ClearSlot(t) ==
    /\ pc[t] = "clear"
    /\ slots' = [slots EXCEPT ![direct[t]][SlotOf(MyId(t))] = 0]
    /\ Return(t, {<<text[t], found[t]>>})
    /\ UNCHANGED <<next_id, live_count, arena, bucket_pages, chains, pages, draws>>

LinkOnto(t) == chains' = [chains EXCEPT ![bucket[t]] = Append(@, candidate[t])]

\* Mutant: a failed compare-exchange is retried with the new head, without a walk.
LinkWithoutWalk(t) ==
    /\ pc[t] = "link"
    /\ LinkOnto(t)
    /\ Go(t, "count")
    /\ UNCHANGED <<next_id, live_count, arena, bucket_pages, pages, slots, draws, answers,
                   text, bucket, direct, candidate, head, found>>

Link(t) ==
    /\ pc[t] = "link"
    /\ Len(chains[bucket[t]]) = head[t]
    /\ LinkOnto(t)
    /\ Go(t, "count")
    /\ UNCHANGED <<next_id, live_count, arena, bucket_pages, pages, slots, draws, answers,
                   text, bucket, direct, candidate, head, found>>

\* Mutant: the head is not loaded again.
LinkFailsStale(t) ==
    /\ pc[t] = "link"
    /\ Go(t, "walk")
    /\ UNCHANGED <<sharedVars, answers, text, bucket, direct, candidate, head, found>>

\* compare_exchange_weak fails: another record was linked, or for no reason.
LinkFails(t) ==
    /\ pc[t] = "link"
    /\ head' = [head EXCEPT ![t] = Len(chains[bucket[t]])]
    /\ Go(t, "walk")
    /\ UNCHANGED <<sharedVars, answers, text, bucket, direct, candidate, found>>

Count(t) ==
    /\ pc[t] = "count"
    /\ live_count' = live_count + 1
    /\ Return(t, {<<text[t], MyId(t)>>})
    /\ UNCHANGED <<next_id, arena, bucket_pages, chains, pages, slots, draws>>

Step(t) ==
    \/ BucketLoad(t) \/ BucketInstall(t) \/ DrawId(t) \/ PageLoad(t) \/ PageInstall(t)
    \/ AllocationFails(t) \/ StoreSlot(t) \/ LoadHead(t) \/ Walk(t) \/ ClearSlot(t)
    \/ Link(t) \/ LinkFails(t) \/ Count(t)

Next == \E t \in Threads : Step(t) \/ \E s \in Strings : Find(t, s)

Spec == Init /\ [][Next]_vars

\* A thread inside intern runs on, and a weak compare-exchange that could succeed
\* again and again does not fail for ever.
FairSpec ==
    Spec /\ \A t \in Threads : WF_vars(Step(t)) /\ SF_vars(Link(t))

-----------------------------------------------------------------------------
Positions == {"idle", "bucket", "install_bucket", "allocate", "page", "install_page",
              "store", "head", "walk", "clear", "link", "count"}

\* The type of every variable: no record has an id that the pages cannot hold.
TypeOK ==
    /\ next_id \in 0..(IdModulus - 1)
    /\ live_count \in Nat
    /\ arena \in Seq([text : Strings, id : 1..MaxId])
    /\ chains \in Seq(Seq(Nat))
    /\ bucket_pages \in [Buckets -> 0..Len(chains)]
    /\ slots \in Seq([0..(PageSize - 1) -> Nat])
    /\ pages \in [PageIds -> 0..Len(slots)]
    /\ draws \in 0..MaxDraws
    /\ answers \subseteq Strings \X (1..MaxId)
    /\ pc \in [Threads -> Positions]
    /\ text \in [Threads -> Strings \cup {Hole}]
    /\ bucket \in [Threads -> 0..Len(chains)]
    /\ direct \in [Threads -> 0..Len(slots)]
    /\ candidate \in [Threads -> 0..Len(arena)]
    /\ head \in [Threads -> Nat]
    /\ found \in [Threads -> 0..MaxId]

BaselinePairs == {<<Baseline[i], i>> : i \in {j \in DOMAIN Baseline : Baseline[j] # Hole}}

\* The strings interned: those of the baseline and those linked into a chain.
Table ==
    BaselinePairs \cup
    {p \in Strings \X (1..MaxId) : p[2] \in LinkedIds(p[1])}

Canonical == INSTANCE CanonicalAtoms WITH
    Keys <- Strings, Atoms <- 1..MaxId, Initial <- BaselinePairs,
    table <- Table, answers <- answers

\* However the threads interleave, intern canonicalises: one id for a text, one text
\* for an id, for as long as the table lives, and every thread is told the same.
Canonicalises == Canonical!Spec

\* An id that intern returned can be read back as its text from then on.
AnswersReadable == \A p \in answers : get(p[2]) = p[1]

\* When no intern is under way, SAVE finds in the slots exactly the strings interned,
\* and as many as size() says: abandoned candidates have left no trace.
SavedExactly ==
    (\A t \in Threads : pc[t] = "idle") =>
        /\ at_slot = {p[2] : p \in Table}
        /\ Cardinality(at_slot) = Cardinality(BaselinePairs) + live_count

\* Every intern returns, whatever the other threads link meanwhile.
InternReturns == \A t \in Threads : pc[t] # "idle" ~> pc[t] = "idle"
=============================================================================
