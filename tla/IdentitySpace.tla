---------------------------- MODULE IdentitySpace ----------------------------
(***************************************************************************)
(* identity_space: the semantic identities (parent, name, kind) that the   *)
(* parser threads resolve concurrently, without a lock, over the immutable *)
(* identities of the mapped baseline.                                      *)
(*                                                                         *)
(* An identity_ref is a slot and a kind; the record of a slot lies in its  *)
(* page.  A chain is modelled as in StringTable: a sequence of refs, its   *)
(* head last, a loaded head being the length the chain had then.  Pages    *)
(* and bucket pages are installed by the protocol StringTable models step  *)
(* by step; here "exists or is installed" is one step.                     *)
(***************************************************************************)
EXTENDS Naturals, Sequences, FiniteSets

CONSTANTS Threads,
          Names,      \* string_ids
          Kinds,      \* namespace_scope, type, object
          Hole,       \* the contents of a slot that holds no identity
          Buckets,
          BucketOf,   \* bucket of each name: in small instances the parent is not hashed
          Baseline,   \* records of the baseline's slots; <<>>: no baseline
          MaxSlot,    \* identity_ref::maximum_slot (2^30 - 1 in the code)
          MaxDraws    \* bound: slots taken from next_slot

Root    == [slot |-> 1, kind |-> "root"]
NoRef   == [slot |-> 0, kind |-> "none"]
Refs    == [slot : 2..MaxSlot, kind : Kinds]
Parents == {Root} \cup Refs
Keys    == Parents \X Names
Records == [parent : Parents, name : Names, kind : Kinds]

\* Slot 1 is the root's, in a baseline too.
FirstSlot == IF Baseline = <<>> THEN 2
         ELSE IF Len(Baseline) < MaxSlot THEN Len(Baseline) + 1 ELSE 0

Ref(slot)     == [slot |-> slot, kind |-> Baseline[slot].kind]
Key(record)   == <<record.parent, record.name>>
BaselineSlots == {i \in DOMAIN Baseline : i > 1 /\ Baseline[i] # Hole}

ASSUME SpaceAssumption ==
    /\ BucketOf \in [Names -> Buckets]
    /\ "root" \notin Kinds
    /\ "none" \notin Kinds
    /\ Hole \notin Records
    /\ Baseline \in Seq(Records \cup {Hole})
    /\ \A i \in BaselineSlots :
          Baseline[i].parent \in {Root} \cup {Ref(j) : j \in BaselineSlots}
    /\ \A i, j \in BaselineSlots : Key(Baseline[i]) = Key(Baseline[j]) => i = j
    /\ MaxSlot \in Nat \ {0}
    /\ Len(Baseline) <= MaxSlot
    /\ MaxDraws \in Nat

VARIABLES next_slot,
          identity_count,
          record,     \* record[slot]: its contents, beyond the baseline
          chain,      \* chain[b]: the refs linked into bucket b
          draws,      \* slots taken so far
          answers,    \* pairs of key and ref that were returned
          conflicts,  \* keys and kinds that were refused as semantic_conflict
          broken,     \* initialization_failed has been returned
          pc,         \* thread: where it is in resolve_declaration
          want,       \* thread: parent, name and kind asked for
          slot,       \* thread: the value of next_slot it loaded, then its slot
          head,       \* thread: the head of the chain it loaded last
          found       \* thread: the ref it found in the chain

sharedVars == <<next_slot, identity_count, record, chain, draws>>
resultVars == <<answers, conflicts, broken>>
threadVars == <<pc, want, slot, head, found>>
vars == <<sharedVars, resultVars, threadVars>>

Init ==
    /\ next_slot = FirstSlot
    /\ identity_count = IF Baseline = <<>> THEN 1 ELSE 0
    /\ record = [i \in (1..MaxSlot) \ DOMAIN Baseline |-> Hole]
    /\ chain = [b \in Buckets |-> <<>>]
    /\ draws = 0
    /\ answers = {}
    /\ conflicts = {}
    /\ broken = FALSE
    /\ pc = [t \in Threads |-> "idle"]
    /\ want = [t \in Threads |-> Hole]
    /\ slot = [t \in Threads |-> 0]
    /\ head = [t \in Threads |-> 0]
    /\ found = [t \in Threads |-> NoRef]

-----------------------------------------------------------------------------
(***************************************************************************)
(* The readers.                                                            *)
(***************************************************************************)
\* A record that can be reached through the ref.
published_record(ref) ==
    ref.slot \in DOMAIN record /\ record[ref.slot] # Hole /\ record[ref.slot].kind = ref.kind

valid(ref) ==
    \/ ref = Root
    \/ ref.slot \in BaselineSlots /\ Baseline[ref.slot].kind = ref.kind
    \/ published_record(ref)

\* A walk along the chain of a bucket from position n: it stops at the first match
\* and at the first record that is not published.
Walked(b, n) == {i \in 1..n : \A j \in (i + 1)..n : published_record(chain[b][j])}
Cut(b, n)    == \E i \in Walked(b, n) : ~published_record(chain[b][i])
Matches(b, n, key) ==
    {i \in Walked(b, n) : /\ published_record(chain[b][i])
                          /\ Key(record[chain[b][i].slot]) = key}
Nearest(S) == CHOOSE i \in S : \A j \in S : j <= i

\* find_record: the linked ref with the key, whatever its kind; a cut walk finds none.
find_record(key) ==
    LET b    == BucketOf[key[2]]
        hits == Matches(b, Len(chain[b]), key)
    IN  IF hits = {} THEN NoRef ELSE chain[b][Nearest(hits)]

\* The baseline's ref with the key, found by trying one kind after the other.
BaselineRefs(key) == {Ref(i) : i \in {j \in BaselineSlots : Key(Baseline[j]) = key}}

at_slot ==
    {Root} \cup {Ref(i) : i \in BaselineSlots} \cup
    {ref \in Refs : ref.slot < next_slot /\ published_record(ref)}

-----------------------------------------------------------------------------
(***************************************************************************)
(* resolve_declaration                                                     *)
(***************************************************************************)
Go(t, where) == pc' = [pc EXCEPT ![t] = where]

Leave(t) ==
    /\ Go(t, "idle")
    /\ want' = [want EXCEPT ![t] = Hole]
    /\ slot' = [slot EXCEPT ![t] = 0]
    /\ head' = [head EXCEPT ![t] = 0]
    /\ found' = [found EXCEPT ![t] = NoRef]

\* The call ends with an existing identity: a conflict if it is of another kind.
Settle(t, wanted, ref) ==
    /\ Leave(t)
    /\ IF ref.kind = wanted.kind
       THEN answers' = answers \cup {<<Key(wanted), ref>>} /\ UNCHANGED conflicts
       ELSE conflicts' = conflicts \cup {wanted} /\ UNCHANGED answers
    /\ UNCHANGED broken

\* Callers pass a scope they were given before.
Scopes == {Root} \cup {Ref(i) : i \in BaselineSlots} \cup {p[2] : p \in answers}

Find(t, wanted) ==
    /\ pc[t] = "idle"
    /\ wanted.parent \in Scopes
    /\ valid(wanted.parent)
    /\ IF find_record(Key(wanted)) # NoRef
       THEN Settle(t, wanted, find_record(Key(wanted)))
       ELSE IF BaselineRefs(Key(wanted)) # {}
            THEN \E ref \in BaselineRefs(Key(wanted)) : Settle(t, wanted, ref)
            ELSE /\ Go(t, "slot")
                 /\ want' = [want EXCEPT ![t] = wanted]
                 /\ UNCHANGED <<resultVars, slot, head, found>>
    /\ UNCHANGED sharedVars

\* make_candidate: next_slot is advanced by a compare-exchange loop, so a full space
\* stays full.
LoadSlot(t) ==
    /\ pc[t] = "slot"
    /\ slot' = [slot EXCEPT ![t] = next_slot]
    /\ Go(t, "take")
    /\ UNCHANGED <<sharedVars, resultVars, want, head, found>>

SlotRefused(t) ==
    /\ pc[t] = "take"
    /\ slot[t] = 0 \/ slot[t] > MaxSlot
    /\ Leave(t)
    /\ UNCHANGED <<sharedVars, resultVars>>

\* Mutant: the slot loaded is taken without comparing.
TakeSlotBlind(t) ==
    /\ pc[t] = "take"
    /\ slot[t] # 0 /\ slot[t] <= MaxSlot
    /\ draws < MaxDraws
    /\ draws' = draws + 1
    /\ next_slot' = slot[t] + 1
    /\ Go(t, "fill")
    /\ UNCHANGED <<identity_count, record, chain, resultVars, want, slot, head, found>>

TakeSlot(t) ==
    /\ pc[t] = "take"
    /\ slot[t] # 0 /\ slot[t] <= MaxSlot
    /\ next_slot = slot[t]
    /\ draws < MaxDraws
    /\ draws' = draws + 1
    /\ next_slot' = slot[t] + 1
    /\ Go(t, "fill")
    /\ UNCHANGED <<identity_count, record, chain, resultVars, want, slot, head, found>>

\* The weak compare-exchange fails and loads the value there is.
TakeSlotFails(t) ==
    /\ pc[t] = "take"
    /\ slot[t] # 0 /\ slot[t] <= MaxSlot
    /\ slot' = [slot EXCEPT ![t] = next_slot]
    /\ UNCHANGED <<sharedVars, resultVars, pc, want, head, found>>

MyRef(t) == [slot |-> slot[t], kind |-> want[t].kind]

Fill(t) ==
    /\ pc[t] = "fill"
    /\ record' = [record EXCEPT ![slot[t]] = want[t]]
    /\ Go(t, "head")
    /\ UNCHANGED <<next_slot, identity_count, chain, draws, resultVars, want, slot, head, found>>

\* A bucket page, a directory or a record page cannot be allocated; a slot taken by
\* then is lost.
AllocationFails(t) ==
    /\ pc[t] \in {"slot", "fill"}
    /\ Leave(t)
    /\ UNCHANGED <<sharedVars, resultVars>>

MyBucket(t) == BucketOf[want[t].name]

LoadHead(t) ==
    /\ pc[t] = "head"
    /\ head' = [head EXCEPT ![t] = Len(chain[MyBucket(t)])]
    /\ Go(t, "walk")
    /\ UNCHANGED <<sharedVars, resultVars, want, slot, found>>

\* A record that is not published cuts the walk: the call gives up.
Walk(t) ==
    LET b    == MyBucket(t)
        hits == Matches(b, head[t], Key(want[t]))
    IN  /\ pc[t] = "walk"
        /\ IF hits = {} /\ Cut(b, head[t])
           THEN /\ record' = [record EXCEPT ![slot[t]] = Hole]
                /\ broken' = TRUE
                /\ Leave(t)
           ELSE /\ Go(t, IF hits = {} THEN "link" ELSE "discard")
                /\ found' = [found EXCEPT ![t] =
                                IF hits = {} THEN NoRef ELSE chain[b][Nearest(hits)]]
                /\ UNCHANGED <<record, broken, want, slot, head>>
        /\ UNCHANGED <<next_slot, identity_count, chain, draws, answers, conflicts>>

\* Mutant: the losing candidate stays in its slot.
DiscardNothing(t) ==
    /\ pc[t] = "discard"
    /\ Settle(t, want[t], found[t])
    /\ UNCHANGED sharedVars

\* Mutant: the winner's record is emptied instead of the candidate's.
DiscardWinner(t) ==
    /\ pc[t] = "discard"
    /\ record' = [record EXCEPT ![found[t].slot] = Hole]
    /\ Settle(t, want[t], found[t])
    /\ UNCHANGED <<next_slot, identity_count, chain, draws>>

\* Another thread declared the name first: its identity, or a conflict of kinds.
Discard(t) ==
    /\ pc[t] = "discard"
    /\ record' = [record EXCEPT ![slot[t]] = Hole]
    /\ Settle(t, want[t], found[t])
    /\ UNCHANGED <<next_slot, identity_count, chain, draws>>

LinkOnto(t) == chain' = [chain EXCEPT ![MyBucket(t)] = Append(@, MyRef(t))]

\* Mutant: a failed compare-exchange is retried with the new head, without a walk.
LinkWithoutWalk(t) ==
    /\ pc[t] = "link"
    /\ LinkOnto(t)
    /\ Go(t, "count")
    /\ UNCHANGED <<next_slot, identity_count, record, draws, resultVars, want, slot, head, found>>

Link(t) ==
    /\ pc[t] = "link"
    /\ Len(chain[MyBucket(t)]) = head[t]
    /\ LinkOnto(t)
    /\ Go(t, "count")
    /\ UNCHANGED <<next_slot, identity_count, record, draws, resultVars, want, slot, head, found>>

LinkFails(t) ==
    /\ pc[t] = "link"
    /\ head' = [head EXCEPT ![t] = Len(chain[MyBucket(t)])]
    /\ Go(t, "walk")
    /\ UNCHANGED <<sharedVars, resultVars, want, slot, found>>

Count(t) ==
    /\ pc[t] = "count"
    /\ identity_count' = identity_count + 1
    /\ Settle(t, want[t], MyRef(t))
    /\ UNCHANGED <<next_slot, record, chain, draws>>

Step(t) ==
    \/ LoadSlot(t) \/ SlotRefused(t) \/ TakeSlot(t) \/ TakeSlotFails(t) \/ Fill(t)
    \/ AllocationFails(t) \/ LoadHead(t) \/ Walk(t) \/ Discard(t)
    \/ Link(t) \/ LinkFails(t) \/ Count(t)

Next == \E t \in Threads : Step(t) \/ \E wanted \in Records : Find(t, wanted)

Spec == Init /\ [][Next]_vars

-----------------------------------------------------------------------------
\* The type of every variable.
TypeOK ==
    /\ next_slot \in 0..(MaxSlot + 1)
    /\ identity_count \in Nat
    /\ record \in [(1..MaxSlot) \ DOMAIN Baseline -> Records \cup {Hole}]
    /\ chain \in [Buckets -> Seq(Refs)]
    /\ draws \in 0..MaxDraws
    /\ answers \subseteq Keys \X Refs
    /\ conflicts \subseteq Records
    /\ broken \in BOOLEAN
    /\ pc \in [Threads -> {"idle", "slot", "take", "fill", "head", "walk", "discard",
                           "link", "count"}]
    /\ want \in [Threads -> Records \cup {Hole}]
    /\ slot \in [Threads -> 0..(MaxSlot + 1)]
    /\ head \in [Threads -> Nat]
    /\ found \in [Threads -> Refs \cup {NoRef}]

BaselinePairs == {<<Key(Baseline[i]), Ref(i)>> : i \in BaselineSlots}

Linked == UNION {{chain[b][i] : i \in DOMAIN chain[b]} : b \in Buckets}

\* The identities declared: those of the baseline and those linked into a chain.
Table ==
    BaselinePairs \cup
    {<<Key(record[ref.slot]), ref>> : ref \in {r \in Linked : published_record(r)}}

Canonical == INSTANCE CanonicalAtoms WITH
    Atoms <- Refs, Initial <- BaselinePairs, table <- Table

\* However the threads interleave, a name in a scope has one identity, of one kind,
\* for as long as the space lives, and every thread that declares it is told that one.
Canonicalises == Canonical!Spec

\* A declaration is refused as a conflict only when the name really is declared with
\* another kind; and no lookup is ever cut short by a record that is not there.
RefusalsJustified ==
    /\ ~broken
    /\ \A wanted \in conflicts :
          \E pair \in Table : pair[1] = Key(wanted) /\ pair[2].kind # wanted.kind

\* The scope of a declared identity is declared, and has a smaller slot: following
\* parents ends at the root.
ParentsFirst ==
    \A pair \in Table \ BaselinePairs :
        LET parent == pair[1][1]
        IN  /\ parent.slot < pair[2].slot
            /\ parent = Root \/ \E scope \in Table : scope[2] = parent

\* When no declaration is under way, SAVE finds in the slots exactly the identities
\* declared, and as many as size() says.
SavedExactly ==
    (\A t \in Threads : pc[t] = "idle") =>
        /\ at_slot = {Root} \cup {pair[2] : pair \in Table}
        /\ Cardinality(at_slot) = identity_count +
              (IF Baseline = <<>> THEN 0 ELSE Cardinality(BaselineSlots) + 1)
=============================================================================
