-------------------------- MODULE ByteArena_proofs --------------------------
(***************************************************************************)
(* The safety of byte_arena for any number of threads, pages and           *)
(* allocations, any sizes and any alignments.                              *)
(***************************************************************************)
EXTENDS ByteArena, TLAPS

(* A call under way asks for something.                                    *)
CallsHaveRequests == \A t \in Threads : pc[t] # "idle" => request[t] \in Requests

(* The bytes of a block were reserved on its page: the next fetch_add      *)
(* starts at or after their end.                                           *)
BlocksReserved == \A x \in blocks : x.at + x.size <= pages[x.page].used

(* A thread in own_page has the page it installed.                         *)
InstallersHavePages ==
    \A t \in Threads : pc[t] \in {"own", "push", "reserve"} => installed[t] # 0

IndInv ==
    /\ TypeOK
    /\ CallsHaveRequests
    /\ BlocksReserved
    /\ InstallersHavePages
    /\ BlocksDisjoint
    /\ PagesOwned

-----------------------------------------------------------------------------
(* A multiple of the alignment leaves no remainder.                        *)
LEMMA MultipleAligned ==
    ASSUME NEW q \in Nat, NEW a \in Nat \ {0}
    PROVE  (a * q) % a = 0
OBVIOUS

(* Cutting the remainder off leaves an aligned number, less than one       *)
(* alignment smaller.                                                      *)
LEMMA CutAligned ==
    ASSUME NEW n \in Nat, NEW a \in Nat \ {0}
    PROVE  /\ n - (n % a) \in Nat
           /\ n - (n % a) > n - a
           /\ n - (n % a) <= n
           /\ (n - (n % a)) % a = 0
<1>1. n % a \in 0..(a - 1)
  OBVIOUS
<1>2. n = a * (n \div a) + (n % a) /\ n \div a \in Nat
  OBVIOUS
<1>3. n - (n % a) = a * (n \div a)
  BY <1>1, <1>2
<1>4. (n - (n % a)) % a = 0
  BY <1>2, <1>3, MultipleAligned
<1>5. n - (n % a) \in Nat
  <2>1. n % a <= n
    BY <1>1, <1>2, <1>3
  <2> QED BY <2>1, <1>1
<1> QED BY <1>1, <1>4, <1>5

(* align_up never moves back, moves by less than the alignment, and lands  *)
(* on a multiple of it.                                                    *)
LEMMA AlignUp ==
    ASSUME NEW n \in Nat, NEW a \in Nat \ {0}
    PROVE  /\ align_up(n, a) \in Nat
           /\ n <= align_up(n, a)
           /\ align_up(n, a) <= n + a - 1
           /\ align_up(n, a) % a = 0
<1> DEFINE up == n + a - 1
<1>1. up \in Nat
  OBVIOUS
<1>2. align_up(n, a) = up - (up % a)
  BY DEF align_up
<1> HIDE DEF up
<1>3. /\ up - (up % a) \in Nat
      /\ up - (up % a) > up - a
      /\ up - (up % a) <= up
      /\ (up - (up % a)) % a = 0
  BY <1>1, CutAligned
<1> QED BY <1>2, <1>3 DEF up

(* What a request of a call is.                                            *)
LEMMA RequestType ==
    ASSUME NEW r \in Requests
    PROVE  /\ r.size \in Nat \ {0}
           /\ r.alignment \in Nat \ {0}
           /\ Reservation(r) \in Nat
           /\ Capacity(r) \in Nat
BY ArenaAssumption DEF Reservation, Capacity

(* A sequence over a set is one over a larger set.                         *)
LEMMA SeqMonotonic ==
    ASSUME NEW S, NEW T, S \subseteq T, NEW s \in Seq(S)
    PROVE  s \in Seq(T)
OBVIOUS

(* An element of a sequence.                                               *)
LEMMA ElementType ==
    ASSUME NEW S, NEW s \in Seq(S), NEW i \in 1..Len(s)
    PROVE  s[i] \in S
OBVIOUS

(* Replacing an element of a sequence.                                     *)
LEMMA ReplaceType ==
    ASSUME NEW S, NEW s \in Seq(S), NEW i \in 1..Len(s), NEW e \in S
    PROVE  /\ [s EXCEPT ![i] = e] \in Seq(S)
           /\ Len([s EXCEPT ![i] = e]) = Len(s)
           /\ [s EXCEPT ![i] = e][i] = e
           /\ \A j \in 1..Len(s) : j # i => [s EXCEPT ![i] = e][j] = s[j]
OBVIOUS

(* Appending to a sequence.                                                *)
LEMMA AppendType ==
    ASSUME NEW S, NEW s \in Seq(S), NEW e \in S
    PROVE  /\ Append(s, e) \in Seq(S)
           /\ Len(Append(s, e)) = Len(s) + 1
           /\ Len(s) \in Nat
           /\ DOMAIN Append(s, e) = 1..(Len(s) + 1)
           /\ \A i \in 1..Len(s) : Append(s, e)[i] = s[i]
           /\ Append(s, e)[Len(s) + 1] = e
OBVIOUS

-----------------------------------------------------------------------------
(* An empty arena satisfies the invariant.                                 *)
LEMMA InitInv == Init => IndInv
<1> SUFFICES ASSUME Init PROVE IndInv
  OBVIOUS
<1>1. TypeOK
  BY ArenaAssumption DEF Init, TypeOK, NoRequest
<1>2. CallsHaveRequests /\ BlocksReserved /\ InstallersHavePages /\ BlocksDisjoint
  BY DEF Init, CallsHaveRequests, BlocksReserved, InstallersHavePages, BlocksDisjoint, OwnedBy
<1>3. PagesOwned
  <2>1. UNION {OwnedBy(t) : t \in Threads} = {}
    BY DEF Init, OwnedBy
  <2>2. 1..Len(pages) = {} /\ DOMAIN owned_pages = {}
    BY DEF Init
  <2>3. \A t \in Threads : OwnedBy(t) = {}
    BY DEF Init, OwnedBy
  <2> QED BY <2>1, <2>2, <2>3 DEF PagesOwned
<1> QED BY <1>1, <1>2, <1>3 DEF IndInv

(* The state the threads share, and each thread's own.                     *)
SharedType ==
    /\ pages \in Seq([capacity : Nat, used : Nat])
    /\ Len(pages) <= MaxPages
    /\ current_page \in 0..Len(pages)
    /\ owned_pages \in Seq(1..Len(pages))
    /\ blocks \subseteq [page : 1..Len(pages), at : Nat, size : Nat, alignment : Nat]

CountersType ==
    /\ reserved \in [pages : Nat, bytes : Nat]
    /\ begun \in 0..MaxBlocks

ThreadType(t) ==
    /\ pc[t] \in {"idle", "load", "install", "own", "push", "reserve", "bump"}
    /\ request[t] \in Requests \cup {NoRequest}
    /\ page[t] \in 0..Len(pages)
    /\ installed[t] \in 0..Len(pages)
    /\ head[t] \in Nat
    /\ pc[t] = "bump" => page[t] # 0

OverThreads ==
    /\ DOMAIN pc = Threads /\ pc = [t \in Threads |-> pc[t]]
    /\ DOMAIN request = Threads /\ request = [t \in Threads |-> request[t]]
    /\ DOMAIN page = Threads /\ page = [t \in Threads |-> page[t]]
    /\ DOMAIN installed = Threads /\ installed = [t \in Threads |-> installed[t]]
    /\ DOMAIN head = Threads /\ head = [t \in Threads |-> head[t]]

(* A page in use has a capacity and a counter.                             *)
LEMMA PageType ==
    ASSUME SharedType, NEW p \in 1..Len(pages)
    PROVE  /\ pages[p] \in [capacity : Nat, used : Nat]
           /\ pages[p].capacity \in Nat
           /\ pages[p].used \in Nat
<1>1. pages[p] \in [capacity : Nat, used : Nat]
  BY ElementType DEF SharedType
<1> QED BY <1>1

(* Reserving bytes on a page changes its counter and nothing else.         *)
LEMMA BumpPages ==
    ASSUME NEW s \in Seq([capacity : Nat, used : Nat]),
           NEW p \in 1..Len(s), NEW n \in Nat
    PROVE  LET b == [s EXCEPT ![p].used = @ + n]
           IN  /\ b \in Seq([capacity : Nat, used : Nat])
               /\ Len(b) = Len(s)
               /\ \A q \in 1..Len(s) : b[q].capacity = s[q].capacity
               /\ \A q \in 1..Len(s) : q # p => b[q].used = s[q].used
               /\ b[p].used = s[p].used + n
<1> DEFINE R == [capacity : Nat, used : Nat]
           c == [s[p] EXCEPT !.used = @ + n]
           b == [s EXCEPT ![p] = c]
<1>1. s[p] \in R
  BY ElementType
<1>2. c \in R /\ c.capacity = s[p].capacity /\ c.used = s[p].used + n
  BY <1>1
<1>3. b = [s EXCEPT ![p].used = @ + n]
  OBVIOUS
<1> HIDE DEF c, R
<1>4. /\ b \in Seq(R)
      /\ Len(b) = Len(s)
      /\ \A q \in 1..Len(s) : q # p => b[q] = s[q]
      /\ b[p] = c
  BY <1>2, ReplaceType DEF R
<1> QED BY <1>2, <1>3, <1>4 DEF R

(* The type invariant, by parts, before a step and after it.               *)
LEMMA TypeParts ==
    /\ TypeOK <=> /\ SharedType /\ CountersType /\ OverThreads
                  /\ \A t \in Threads : ThreadType(t)
    /\ TypeOK' <=> /\ SharedType' /\ CountersType' /\ OverThreads'
                   /\ \A t \in Threads : ThreadType(t)'
BY DEF TypeOK, SharedType, CountersType, OverThreads, ThreadType

(* The types survive every step.                                           *)
LEMMA TypeStep ==
    ASSUME TypeOK, CallsHaveRequests, InstallersHavePages, [Next]_vars
    PROVE  TypeOK'
<1> DEFINE Goal == /\ SharedType' /\ CountersType' /\ OverThreads'
                   /\ \A u \in Threads : ThreadType(u)'
<1> SUFFICES Goal
  BY TypeParts
<1>0. SharedType /\ CountersType /\ OverThreads /\ \A t \in Threads : ThreadType(t)
  BY TypeParts
<1> USE <1>0 DEF Go, sharedVars
<1>1. ASSUME NEW t \in Threads, NEW r \in Requests, Allocate(t, r)
      PROVE  Goal
  <2>1. SharedType' /\ CountersType' /\ OverThreads'
    <3>1. SharedType' /\ OverThreads'
      BY <1>1 DEF Allocate, SharedType, OverThreads
    <3>2. CountersType'
      BY <1>1, ArenaAssumption DEF Allocate, CountersType
    <3> QED BY <3>1, <3>2
  <2>2. \A u \in Threads : ThreadType(u)'
    BY <1>1 DEF Allocate, SharedType, ThreadType, OverThreads
  <2> QED BY <2>1, <2>2
<1>2. ASSUME NEW t \in Threads, LoadPage(t)
      PROVE  Goal
  <2>1. SharedType' /\ CountersType' /\ OverThreads'
    BY <1>2 DEF LoadPage, SharedType, CountersType, OverThreads
  <2>2. \A u \in Threads : ThreadType(u)'
    BY <1>2 DEF LoadPage, SharedType, ThreadType, OverThreads
  <2> QED BY <2>1, <2>2
<1>3. ASSUME NEW t \in Threads, Install(t)
      PROVE  Goal
  <2>1. CASE current_page = page[t]
    <3> DEFINE new == [capacity |-> Capacity(request[t]), used |-> 0]
    <3>1. new \in [capacity : Nat, used : Nat]
      BY <1>3, RequestType DEF Install, CallsHaveRequests
    <3>2. pages' = Append(pages, new) /\ Len(pages) < MaxPages
      BY <1>3, <2>1 DEF Install
    <3> HIDE DEF new
    <3>3. /\ Len(pages') = Len(pages) + 1
          /\ Len(pages') \in Nat
          /\ Len(pages) \in Nat
          /\ pages' \in Seq([capacity : Nat, used : Nat])
          /\ Len(pages') <= MaxPages
      BY <3>1, <3>2, AppendType, ArenaAssumption DEF SharedType
    <3>4. 1..Len(pages) \subseteq 1..Len(pages') /\ 0..Len(pages) \subseteq 0..Len(pages')
      BY <3>3
    <3>5. owned_pages' \in Seq(1..Len(pages'))
      BY <1>3, <3>4, SeqMonotonic DEF SharedType, Install
    <3>6. blocks' \subseteq [page : 1..Len(pages'), at : Nat, size : Nat, alignment : Nat]
      BY <1>3, <3>4 DEF SharedType, Install
    <3>7. current_page' \in 0..Len(pages')
      BY <1>3, <2>1, <3>3 DEF Install
    <3>8. SharedType'
      BY <3>3, <3>5, <3>6, <3>7 DEF SharedType
    <3>9. CountersType' /\ OverThreads'
      BY <1>3, <2>1 DEF Install, CountersType, OverThreads
    <3>10. ASSUME NEW u \in Threads
           PROVE  ThreadType(u)'
      <4>1. /\ u # t => pc'[u] = pc[u] /\ installed'[u] = installed[u]
            /\ pc'[t] = "own" /\ installed'[t] = Len(pages')
            /\ UNCHANGED <<page, request, head>>
        BY <1>3, <2>1 DEF Install, OverThreads
      <4>2. ThreadType(u)
        OBVIOUS
      <4>3. CASE u = t
        BY <4>1, <4>2, <4>3, <3>3, <3>4 DEF ThreadType
      <4>4. CASE u # t
        BY <4>1, <4>2, <4>4, <3>4 DEF ThreadType
      <4> QED BY <4>3, <4>4
    <3> QED BY <3>8, <3>9, <3>10
  <2>2. CASE current_page # page[t]
    <3>1. SharedType' /\ CountersType' /\ OverThreads'
      BY <1>3, <2>2 DEF Install, SharedType, CountersType, OverThreads
    <3>2. \A u \in Threads : ThreadType(u)'
      BY <1>3, <2>2 DEF Install, ThreadType, OverThreads
    <3> QED BY <3>1, <3>2
  <2> QED BY <2>1, <2>2
<1>4. ASSUME NEW t \in Threads, InstallFails(t)
      PROVE  Goal
  <2>1. SharedType' /\ CountersType' /\ OverThreads'
    BY <1>4 DEF InstallFails, SharedType, CountersType, OverThreads, Return
  <2>2. ASSUME NEW u \in Threads
        PROVE  ThreadType(u)'
    <3>1. ThreadType(u) /\ Len(pages) \in Nat
      BY DEF SharedType
    <3>2. CASE u = t
      BY <1>4, <3>1, <3>2 DEF InstallFails, Return, ThreadType, OverThreads
    <3>3. CASE u # t
      BY <1>4, <3>1, <3>3 DEF InstallFails, Return, ThreadType, OverThreads
    <3> QED BY <3>2, <3>3
  <2> QED BY <2>1, <2>2
<1>5. ASSUME NEW t \in Threads, LoadOwned(t)
      PROVE  Goal
  <2>1. SharedType' /\ CountersType' /\ OverThreads'
    BY <1>5 DEF LoadOwned, SharedType, CountersType, OverThreads
  <2>2. \A u \in Threads : ThreadType(u)'
    BY <1>5 DEF LoadOwned, SharedType, ThreadType, OverThreads
  <2> QED BY <2>1, <2>2
<1>6. ASSUME NEW t \in Threads, PushOwned(t)
      PROVE  Goal
  <2>1. installed[t] \in 1..Len(pages)
    BY <1>6 DEF PushOwned, InstallersHavePages, ThreadType, SharedType
  <2>2. owned_pages' \in Seq(1..Len(pages'))
    BY <1>6, <2>1, AppendType DEF PushOwned, SharedType
  <2>3. SharedType' /\ CountersType' /\ OverThreads'
    BY <1>6, <2>2 DEF PushOwned, SharedType, CountersType, OverThreads
  <2>4. \A u \in Threads : ThreadType(u)'
    BY <1>6 DEF PushOwned, ThreadType, OverThreads
  <2> QED BY <2>3, <2>4
<1>7. ASSUME NEW t \in Threads, PushFails(t)
      PROVE  Goal
  <2>1. SharedType' /\ CountersType' /\ OverThreads'
    BY <1>7 DEF PushFails, SharedType, CountersType, OverThreads
  <2>2. \A u \in Threads : ThreadType(u)'
    BY <1>7 DEF PushFails, SharedType, ThreadType, OverThreads
  <2> QED BY <2>1, <2>2
<1>8. ASSUME NEW t \in Threads, Reserve(t)
      PROVE  Goal
  <2>1. installed[t] \in 1..Len(pages)
    BY <1>8 DEF Reserve, InstallersHavePages, ThreadType, SharedType
  <2>2. pages[installed[t]].capacity \in Nat
    BY <2>1, PageType
  <2>3. SharedType' /\ OverThreads'
    BY <1>8 DEF Reserve, SharedType, OverThreads
  <2>4. CountersType'
    BY <1>8, <2>2 DEF Reserve, CountersType
  <2>5. ASSUME NEW u \in Threads
        PROVE  ThreadType(u)'
    <3>1. ThreadType(u) /\ Len(pages) \in Nat
      BY DEF SharedType
    <3>2. CASE u = t /\ page[t] = 0
      BY <1>8, <2>1, <3>1, <3>2 DEF Reserve, ThreadType, OverThreads
    <3>3. CASE u = t /\ page[t] # 0
      BY <1>8, <2>1, <3>1, <3>3 DEF Reserve, ThreadType, OverThreads
    <3>4. CASE u # t
      BY <1>8, <3>1, <3>4 DEF Reserve, ThreadType, OverThreads
    <3> QED BY <3>2, <3>3, <3>4
  <2> QED BY <2>3, <2>4, <2>5
<1>9. ASSUME NEW t \in Threads, Bump(t)
      PROVE  Goal
  <2> DEFINE p == page[t]
             r == request[t]
  <2>1. p \in 1..Len(pages) /\ r \in Requests
    BY <1>9 DEF Bump, CallsHaveRequests, ThreadType, SharedType
  <2>2. pages[p].used \in Nat
    BY <2>1, PageType
  <2>3. /\ Reservation(r) \in Nat
        /\ align_up(pages[p].used, r.alignment) \in Nat
        /\ r.size \in Nat
        /\ r.alignment \in Nat
    BY <2>1, <2>2, RequestType, AlignUp
  <2>4. pages' = [pages EXCEPT ![p].used = @ + Reservation(r)]
    BY <1>9 DEF Bump
  <2>5. /\ pages' \in Seq([capacity : Nat, used : Nat])
        /\ Len(pages') = Len(pages)
    <3>1. pages \in Seq([capacity : Nat, used : Nat])
      BY DEF SharedType
    <3> HIDE DEF p, r
    <3> QED BY <2>1, <2>3, <2>4, <3>1, BumpPages
  <2>6. Block(p, pages[p].used, r) \in
          [page : 1..Len(pages), at : Nat, size : Nat, alignment : Nat]
    BY <2>1, <2>3 DEF Block
  <2>7. blocks' \subseteq [page : 1..Len(pages), at : Nat, size : Nat, alignment : Nat]
    BY <1>9, <2>6 DEF Bump, SharedType
  <2>8. SharedType' /\ CountersType'
    BY <1>9, <2>5, <2>7 DEF Bump, SharedType, CountersType
  <2>9. OverThreads' /\ \A u \in Threads : ThreadType(u)'
    <3>1. CASE Fits(p, pages[p].used, r)
      <4>1. /\ pc' = [pc EXCEPT ![t] = "idle"]
            /\ request' = [request EXCEPT ![t] = NoRequest]
            /\ page' = [page EXCEPT ![t] = 0]
            /\ UNCHANGED <<installed, head>>
        BY <1>9, <3>1 DEF Bump, Return
      <4>2. OverThreads'
        BY <4>1 DEF OverThreads
      <4>3. ASSUME NEW u \in Threads
            PROVE  ThreadType(u)'
        <5>1. ThreadType(u) /\ Len(pages) \in Nat
          BY DEF SharedType
        <5>2. CASE u = t
          BY <5>1, <5>2, <4>1, <2>5 DEF ThreadType, OverThreads
        <5>3. CASE u # t
          BY <5>1, <5>3, <4>1, <2>5 DEF ThreadType, OverThreads
        <5> QED BY <5>2, <5>3
      <4> QED BY <4>2, <4>3
    <3>2. CASE ~Fits(p, pages[p].used, r)
      BY <1>9, <2>5, <3>2 DEF Bump, ThreadType, OverThreads
    <3> QED BY <3>1, <3>2
  <2> QED BY <2>8, <2>9
<1>10. CASE UNCHANGED vars
  <2>1. SharedType' /\ CountersType' /\ OverThreads'
    BY <1>10 DEF vars, SharedType, CountersType, OverThreads
  <2>2. \A u \in Threads : ThreadType(u)'
    BY <1>10 DEF vars, ThreadType
  <2> QED BY <2>1, <2>2
<1> HIDE DEF Goal
<1>11. CASE \E t \in Threads : Step(t)
  BY <1>2, <1>3, <1>4, <1>5, <1>6, <1>7, <1>8, <1>9, <1>11 DEF Step
<1> QED BY <1>1, <1>10, <1>11 DEF Next, Finished

-----------------------------------------------------------------------------
(* Only a bump hands out a block, and only a bump and an install change    *)
(* the pages.                                                              *)
LEMMA OtherSteps ==
    ASSUME [Next]_vars
    PROVE  \/ \E t \in Threads : Bump(t) \/ Install(t)
           \/ UNCHANGED <<pages, blocks>>
BY DEF Next, Step, Allocate, LoadPage, InstallFails, LoadOwned, PushOwned, PushFails, Reserve,
       Finished, vars, sharedVars

(* A thread inside allocate keeps asking for what it asked.                *)
LEMMA RequestsStep ==
    ASSUME TypeOK, CallsHaveRequests, [Next]_vars
    PROVE  CallsHaveRequests'
<1> USE DEF CallsHaveRequests, TypeOK
<1>1. ASSUME NEW t \in Threads, NEW r \in Requests, Allocate(t, r)
      PROVE  CallsHaveRequests'
  BY <1>1 DEF Allocate, Go
<1>2. ASSUME NEW t \in Threads,
             LoadPage(t) \/ Install(t) \/ LoadOwned(t) \/ PushOwned(t) \/ PushFails(t) \/ Reserve(t)
      PROVE  CallsHaveRequests'
  <2>1. UNCHANGED request /\ pc[t] # "idle" /\ \A u \in Threads : u # t => pc'[u] = pc[u]
    BY <1>2 DEF LoadPage, Install, LoadOwned, PushOwned, PushFails, Reserve, Go
  <2> QED BY <2>1
<1>3. ASSUME NEW t \in Threads, InstallFails(t) \/ Bump(t)
      PROVE  CallsHaveRequests'
  <2>1. CASE Return(t)
    BY <2>1 DEF Return, Go
  <2>2. CASE ~Return(t)
    BY <1>3, <2>2 DEF InstallFails, Bump, Go
  <2> QED BY <2>1, <2>2
<1>4. CASE UNCHANGED vars
  BY <1>4 DEF vars
<1> QED BY <1>1, <1>2, <1>3, <1>4 DEF Next, Step, Finished

(* A block that is handed out starts where all earlier reservations of its *)
(* page end, ends before the next one begins, and lies inside the page.    *)
LEMMA BumpBlocks ==
    ASSUME IndInv, NEW t \in Threads, Bump(t)
    PROVE  BlocksReserved' /\ BlocksDisjoint'
<1> DEFINE p == page[t]
           r == request[t]
           offset == pages[p].used
           new == Block(p, offset, r)
<1>1. SharedType /\ ThreadType(t) /\ Len(pages) \in Nat
  BY TypeParts DEF IndInv, SharedType
<1>2. p \in 1..Len(pages) /\ r \in Requests
  BY <1>1 DEF IndInv, Bump, CallsHaveRequests, ThreadType
<1>3. offset \in Nat /\ pages[p].capacity \in Nat
  BY <1>1, <1>2, PageType
<1>4. r.size \in Nat /\ r.alignment \in Nat \ {0} /\ Reservation(r) \in Nat
  BY <1>2, RequestType
<1>5. /\ pages \in Seq([capacity : Nat, used : Nat])
      /\ pages' = [pages EXCEPT ![p].used = @ + Reservation(r)]
      /\ blocks' = blocks \/ (blocks' = blocks \cup {new} /\ Fits(p, offset, r))
  <2>1. pages \in Seq([capacity : Nat, used : Nat])
    BY <1>1 DEF SharedType
  <2>2. pages' = [pages EXCEPT ![p].used = @ + Reservation(r)]
    BY DEF Bump
  <2>3. IF Fits(p, offset, r) THEN blocks' = blocks \cup {new} ELSE blocks' = blocks
    BY DEF Bump
  <2>4. blocks' = blocks \/ (blocks' = blocks \cup {new} /\ Fits(p, offset, r))
    BY <2>3
  <2> QED BY <2>1, <2>2, <2>4
<1> HIDE DEF p, r
<1>6. /\ \A q \in 1..Len(pages) : pages'[q].capacity = pages[q].capacity
      /\ \A q \in 1..Len(pages) : q # p => pages'[q].used = pages[q].used
      /\ pages'[p].used = offset + Reservation(r)
  BY <1>2, <1>4, <1>5, BumpPages
<1>7. ASSUME NEW q \in 1..Len(pages)
      PROVE  /\ pages[q].used \in Nat /\ pages'[q].used \in Nat
             /\ pages'[q].used >= pages[q].used
  <2>1. pages[q].used \in Nat
    BY <1>1, PageType
  <2>2. CASE q = p
    BY <2>1, <2>2, <1>3, <1>4, <1>6
  <2>3. CASE q # p
    BY <2>1, <2>3, <1>6
  <2> QED BY <2>1, <2>2, <2>3
<1>8. ASSUME NEW x \in blocks
      PROVE  /\ x.page \in 1..Len(pages) /\ x.at \in Nat /\ x.size \in Nat
             /\ x.at + x.size <= pages[x.page].used
             /\ x.at + x.size <= pages[x.page].capacity
             /\ x.at % x.alignment = 0
             /\ \A y \in blocks : x # y /\ x.page = y.page => Apart(x, y)
  BY <1>1 DEF IndInv, SharedType, BlocksReserved, BlocksDisjoint
<1>9. CASE blocks' = blocks
  <2>1. ASSUME NEW x \in blocks
        PROVE  /\ x.at + x.size <= pages'[x.page].used
               /\ x.at + x.size <= pages'[x.page].capacity
    <3>1. x.page \in 1..Len(pages) /\ x.at + x.size \in Nat
      BY <1>8
    <3>2. /\ pages[x.page].used \in Nat /\ pages'[x.page].used \in Nat
          /\ pages'[x.page].used >= pages[x.page].used
      BY <1>7, <3>1
    <3>3. x.at + x.size <= pages[x.page].used /\ x.at + x.size <= pages[x.page].capacity
      BY <1>8
    <3> QED BY <1>6, <3>1, <3>2, <3>3
  <2> QED BY <1>8, <1>9, <2>1 DEF BlocksReserved, BlocksDisjoint
<1>10. CASE blocks' = blocks \cup {new} /\ Fits(p, offset, r)
  <2> DEFINE at == align_up(offset, r.alignment)
  <2>1. /\ at \in Nat
        /\ offset <= at
        /\ at <= offset + r.alignment - 1
        /\ at % r.alignment = 0
    BY <1>3, <1>4, AlignUp
  <2>2. new = [page |-> p, at |-> at, size |-> r.size, alignment |-> r.alignment]
    BY DEF Block
  <2>3. at <= pages[p].capacity /\ r.size <= pages[p].capacity - at
    BY <1>10 DEF Fits
  <2> HIDE DEF at, new, offset
  <2>4. /\ new.page = p /\ new.at = at /\ new.size = r.size
        /\ new.at + new.size <= pages'[new.page].used
        /\ new.at + new.size <= pages'[new.page].capacity
        /\ new.at % new.alignment = 0
    <3>1. new.page = p /\ new.at = at /\ new.size = r.size /\ new.alignment = r.alignment
      BY <2>2
    <3>2. at + r.size <= offset + Reservation(r)
      BY <1>3, <1>4, <2>1 DEF Reservation
    <3>3. at + r.size <= pages[p].capacity
      BY <1>3, <1>4, <2>1, <2>3
    <3> QED BY <1>2, <1>6, <2>1, <3>1, <3>2, <3>3
  <2>5. ASSUME NEW x \in blocks
        PROVE  /\ x.at + x.size <= pages'[x.page].used
               /\ x.at + x.size <= pages'[x.page].capacity
    <3>1. x.page \in 1..Len(pages) /\ x.at + x.size \in Nat
      BY <1>8
    <3>2. /\ pages[x.page].used \in Nat /\ pages'[x.page].used \in Nat
          /\ pages'[x.page].used >= pages[x.page].used
      BY <1>7, <3>1
    <3>3. x.at + x.size <= pages[x.page].used /\ x.at + x.size <= pages[x.page].capacity
      BY <1>8
    <3> QED BY <1>6, <3>1, <3>2, <3>3
  <2>6. ASSUME NEW x \in blocks, x.page = new.page
        PROVE  Apart(x, new) /\ Apart(new, x)
    <3>1. x.at + x.size <= offset
      BY <1>8, <2>4, <2>6 DEF offset
    <3>2. x.at + x.size <= at
      BY <1>3, <1>8, <2>1, <3>1
    <3> QED BY <2>4, <3>2 DEF Apart
  <2>7. BlocksReserved'
    BY <1>10, <2>4, <2>5 DEF BlocksReserved
  <2>8. BlocksDisjoint'
    <3> SUFFICES ASSUME NEW x \in blocks'
                 PROVE  /\ x.at + x.size <= pages'[x.page].capacity
                        /\ x.at % x.alignment = 0
                        /\ \A y \in blocks' : x # y /\ x.page = y.page => Apart(x, y)
      BY DEF BlocksDisjoint, Apart
    <3>1. CASE x = new
      BY <1>10, <2>4, <2>6, <3>1
    <3>2. CASE x \in blocks
      BY <1>8, <1>10, <2>5, <2>6, <3>2
    <3> QED BY <1>10, <3>1, <3>2
  <2> QED BY <2>7, <2>8
<1> QED BY <1>5, <1>9, <1>10

(* The blocks stay reserved and apart in every step.                       *)
LEMMA BlocksStep ==
    ASSUME IndInv, [Next]_vars
    PROVE  BlocksReserved' /\ BlocksDisjoint'
<1>1. CASE UNCHANGED <<pages, blocks>>
  BY <1>1 DEF IndInv, BlocksReserved, BlocksDisjoint
<1>2. ASSUME NEW t \in Threads, Install(t), ~UNCHANGED <<pages, blocks>>
      PROVE  BlocksReserved' /\ BlocksDisjoint'
  <2> DEFINE new == [capacity |-> Capacity(request[t]), used |-> 0]
  <2>1. UNCHANGED blocks /\ pages' = Append(pages, new)
    BY <1>2 DEF Install
  <2>2. \A q \in 1..Len(pages) : pages'[q] = pages[q]
    BY <2>1 DEF IndInv, TypeOK
  <2>3. \A x \in blocks : x.page \in 1..Len(pages)
    BY DEF IndInv, TypeOK
  <2> QED BY <2>1, <2>2, <2>3 DEF IndInv, BlocksReserved, BlocksDisjoint
<1> QED BY <1>1, <1>2, BumpBlocks, OtherSteps

-----------------------------------------------------------------------------
(* The pages that are off the list belong to the same threads, and the     *)
(* list is the same.                                                       *)
OwnersSame ==
    /\ UNCHANGED owned_pages
    /\ Len(pages') = Len(pages)
    /\ \A u \in Threads : OwnedBy(u)' = OwnedBy(u)

(* A step that changes neither the list nor who owns what is off it.       *)
LEMMA OwnersSameStep ==
    ASSUME PagesOwned, OwnersSame
    PROVE  PagesOwned'
<1>1. UNION {OwnedBy(t)' : t \in Threads} = UNION {OwnedBy(t) : t \in Threads}
  BY DEF OwnersSame
<1>2. /\ \A i, j \in DOMAIN owned_pages : owned_pages[i] = owned_pages[j] => i = j
      /\ {owned_pages[i] : i \in DOMAIN owned_pages} \cup UNION {OwnedBy(t)' : t \in Threads}
           = 1..Len(pages')
      /\ \A t \in Threads : \A i \in DOMAIN owned_pages : owned_pages[i] \notin OwnedBy(t)'
  BY <1>1 DEF PagesOwned, OwnersSame
<1>3. \A t, u \in Threads : (OwnedBy(t) \cap OwnedBy(u) # {})' => t = u
  BY DEF PagesOwned, OwnersSame
<1> QED BY <1>2, <1>3 DEF PagesOwned, OwnersSame

(* Positions own, push and reserve hold a page that was installed.         *)
LEMMA InstalledStep ==
    ASSUME TypeOK, InstallersHavePages, [Next]_vars
    PROVE  \A t \in Threads : pc'[t] \in {"own", "push", "reserve"} => installed'[t] # 0
<1> SUFFICES ASSUME NEW u \in Threads, pc'[u] \in {"own", "push", "reserve"}
             PROVE  installed'[u] # 0
  OBVIOUS
<1> USE DEF TypeOK
<1>1. ASSUME NEW t \in Threads, Install(t)
      PROVE  installed'[u] # 0
  <2>1. CASE current_page = page[t]
    <3>1. Len(pages') # 0
      BY <1>1, <2>1 DEF Install
    <3> QED BY <1>1, <2>1, <3>1 DEF Install, Go, InstallersHavePages
  <2>2. CASE current_page # page[t]
    BY <1>1, <2>2 DEF Install, Go, InstallersHavePages
  <2> QED BY <2>1, <2>2
<1>2. ASSUME NEW t \in Threads, LoadOwned(t) \/ PushOwned(t) \/ PushFails(t)
      PROVE  installed'[u] # 0
  <2>1. /\ UNCHANGED installed
        /\ pc[t] \in {"own", "push"}
        /\ \A v \in Threads : v # t => pc'[v] = pc[v]
    BY <1>2 DEF LoadOwned, PushOwned, PushFails, Go
  <2> QED BY <2>1 DEF InstallersHavePages
<1>3. ASSUME NEW t \in Threads, Reserve(t)
      PROVE  installed'[u] # 0
  BY <1>3 DEF Reserve, Go, InstallersHavePages
<1>4. ASSUME NEW t \in Threads,
             \/ LoadPage(t) \/ InstallFails(t) \/ Bump(t)
             \/ \E r \in Requests : Allocate(t, r)
      PROVE  installed'[u] # 0
  <2>1. UNCHANGED installed /\ pc'[t] \in {"load", "install", "bump", "idle"}
        /\ \A v \in Threads : v # t => pc'[v] = pc[v]
    BY <1>4 DEF LoadPage, InstallFails, Bump, Allocate, Return, Go
  <2> QED BY <2>1 DEF InstallersHavePages
<1>5. CASE UNCHANGED vars
  BY <1>5 DEF vars, InstallersHavePages
<1> QED BY <1>1, <1>2, <1>3, <1>4, <1>5 DEF Next, Step, Finished

(* A page is put on the list once, by the thread that installed it.        *)
LEMMA OwnersStep ==
    ASSUME IndInv, [Next]_vars
    PROVE  PagesOwned'
<1>0. /\ PagesOwned
      /\ \A t, u \in Threads : OwnedBy(t) \cap OwnedBy(u) # {} => t = u
      /\ \A u \in Threads : pc[u] \in {"own", "push", "reserve"} => installed[u] \in 1..Len(pages)
      /\ owned_pages \in Seq(1..Len(pages)) /\ Len(pages) \in Nat
      /\ pc \in [Threads -> {"idle", "load", "install", "own", "push", "reserve", "bump"}]
      /\ installed \in [Threads -> 0..Len(pages)]
  <2>1. /\ PagesOwned
        /\ \A t, u \in Threads : OwnedBy(t) \cap OwnedBy(u) # {} => t = u
    BY DEF IndInv, PagesOwned
  <2> QED BY <2>1 DEF IndInv, InstallersHavePages, TypeOK
<1>1. CASE OwnersSame
  BY <1>0, <1>1, OwnersSameStep
<1>2. ASSUME NEW t \in Threads, Install(t), current_page = page[t]
      PROVE  PagesOwned'
  <2> DEFINE n == Len(pages)
  <2>1. /\ Len(pages') = n + 1
        /\ UNCHANGED owned_pages
        /\ pc' = [pc EXCEPT ![t] = "own"]
        /\ installed' = [installed EXCEPT ![t] = Len(pages')]
        /\ pc[t] = "install"
    BY <1>2 DEF Install, Go, IndInv, TypeOK
  <2>2. /\ OwnedBy(t)' = {n + 1}
        /\ OwnedBy(t) = {}
        /\ \A u \in Threads : u # t => OwnedBy(u)' = OwnedBy(u)
    BY <1>0, <2>1 DEF OwnedBy
  <2>3. /\ \A u \in Threads : OwnedBy(u) \subseteq 1..n
        /\ \A i \in DOMAIN owned_pages : owned_pages[i] \in 1..n
    BY <1>0 DEF OwnedBy
  <2>4. n + 1 \notin 1..n /\ 1..(n + 1) = (1..n) \cup {n + 1}
    BY <1>0
  <2>5. \A q : (\E u \in Threads : q \in OwnedBy(u)')
               <=> (\E u \in Threads : q \in OwnedBy(u)) \/ q = n + 1
    BY <2>2
  <2>6. \A u, v \in Threads : (OwnedBy(u) \cap OwnedBy(v) # {})' => u = v
    <3> SUFFICES ASSUME NEW u \in Threads, NEW v \in Threads, NEW q,
                        q \in OwnedBy(u)', q \in OwnedBy(v)'
                 PROVE  u = v
      OBVIOUS
    <3>1. CASE u = t /\ v # t
      BY <2>2, <2>3, <2>4, <3>1
    <3>2. CASE v = t /\ u # t
      BY <2>2, <2>3, <2>4, <3>2
    <3>3. CASE v # t /\ u # t
      BY <1>0, <2>2, <3>3
    <3> QED BY <3>1, <3>2, <3>3
  <2>7. /\ \A i, j \in DOMAIN owned_pages : owned_pages[i] = owned_pages[j] => i = j
        /\ {owned_pages[i] : i \in DOMAIN owned_pages} \cup UNION {OwnedBy(u) : u \in Threads}
             = 1..n
        /\ \A u \in Threads : \A i \in DOMAIN owned_pages : owned_pages[i] \notin OwnedBy(u)
    BY <1>0 DEF PagesOwned
  <2>8. {owned_pages[i] : i \in DOMAIN owned_pages} \cup UNION {OwnedBy(u)' : u \in Threads}
          = 1..(n + 1)
    <3> DEFINE L == {owned_pages[i] : i \in DOMAIN owned_pages}
    <3> HIDE DEF n
    <3>1. \A q : q \in 1..n <=> q \in L \/ \E u \in Threads : q \in OwnedBy(u)
      BY <2>7
    <3>2. \A q : q \in 1..(n + 1) <=> q \in L \/ \E u \in Threads : q \in OwnedBy(u)'
      BY <2>4, <2>5, <3>1
    <3> HIDE DEF L
    <3>3. L \cup UNION {OwnedBy(u)' : u \in Threads} = 1..(n + 1)
      BY <3>2, Zenon
    <3> QED BY <3>3 DEF L
  <2>9. \A u \in Threads : \A i \in DOMAIN owned_pages : owned_pages[i] \notin OwnedBy(u)'
    BY <2>2, <2>3, <2>4, <2>7
  <2> QED BY <2>1, <2>6, <2>7, <2>8, <2>9 DEF PagesOwned
<1>3. ASSUME NEW t \in Threads, PushOwned(t)
      PROVE  PagesOwned'
  <2> DEFINE m == Len(owned_pages)
             o == installed[t]
  <2>1. /\ owned_pages' = Append(owned_pages, o)
        /\ UNCHANGED <<pages, installed>>
        /\ pc' = [pc EXCEPT ![t] = "reserve"]
        /\ pc[t] = "push"
    BY <1>3 DEF PushOwned, Go
  <2>2. /\ OwnedBy(t)' = {}
        /\ OwnedBy(t) = {o}
        /\ \A u \in Threads : u # t => OwnedBy(u)' = OwnedBy(u)
    BY <1>0, <2>1 DEF OwnedBy
  <2>3. o \in 1..Len(pages)
    BY <1>0, <2>1
  <2>4. /\ DOMAIN owned_pages = 1..m
        /\ DOMAIN owned_pages' = 1..(m + 1)
        /\ m \in Nat
        /\ \A i \in 1..m : owned_pages'[i] = owned_pages[i]
        /\ owned_pages'[m + 1] = o
    BY <1>0, <2>1, <2>3, AppendType
  <2> HIDE DEF m, o
  <2>5. /\ \A i, j \in 1..m : owned_pages[i] = owned_pages[j] => i = j
        /\ {owned_pages[i] : i \in 1..m} \cup UNION {OwnedBy(u) : u \in Threads} = 1..Len(pages)
        /\ \A u \in Threads : \A i \in 1..m : owned_pages[i] \notin OwnedBy(u)
    BY <1>0, <2>4 DEF PagesOwned
  <2>6. \A u, v \in Threads : (OwnedBy(u) \cap OwnedBy(v) # {})' => u = v
    BY <1>0, <2>2
  <2>7. 1..(m + 1) = (1..m) \cup {m + 1}
    BY <2>4
  <2>8. \A i, j \in 1..(m + 1) : owned_pages'[i] = owned_pages'[j] => i = j
    BY <2>2, <2>4, <2>5, <2>7
  <2>9. {owned_pages'[i] : i \in 1..(m + 1)} = {owned_pages[i] : i \in 1..m} \cup {o}
    BY <2>4, <2>7
  <2>10. \A q : (\E u \in Threads : q \in OwnedBy(u)') \/ q = o
                <=> \E u \in Threads : q \in OwnedBy(u)
    BY <2>2
  <2>11. {owned_pages'[i] : i \in 1..(m + 1)} \cup UNION {OwnedBy(u)' : u \in Threads}
           = 1..Len(pages)
    <3> DEFINE L == {owned_pages[i] : i \in 1..m}
               M == {owned_pages'[i] : i \in 1..(m + 1)}
    <3>1. \A q : q \in 1..Len(pages) <=> q \in L \/ \E u \in Threads : q \in OwnedBy(u)
      BY <2>5
    <3>2. M = L \cup {o}
      BY <2>9
    <3> HIDE DEF L, M
    <3>3. \A q : q \in 1..Len(pages) <=> q \in M \/ \E u \in Threads : q \in OwnedBy(u)'
      BY <2>10, <3>1, <3>2
    <3>4. M \cup UNION {OwnedBy(u)' : u \in Threads} = 1..Len(pages)
      BY <3>3, Zenon
    <3> QED BY <3>4 DEF M
  <2>12. \A u \in Threads : \A i \in 1..(m + 1) : owned_pages'[i] \notin OwnedBy(u)'
    <3>1. \A u \in Threads : u # t => o \notin OwnedBy(u)
      BY <1>0, <2>2
    <3> QED BY <2>2, <2>4, <2>5, <2>7, <3>1
  <2> QED BY <2>1, <2>4, <2>6, <2>8, <2>11, <2>12 DEF PagesOwned
<1>4. ASSUME NEW t \in Threads, Install(t), current_page # page[t]
      PROVE  OwnersSame
  BY <1>0, <1>4 DEF Install, Go, OwnersSame, OwnedBy
<1>5. ASSUME NEW t \in Threads, LoadOwned(t) \/ PushFails(t)
      PROVE  OwnersSame
  BY <1>0, <1>5 DEF LoadOwned, PushFails, Go, OwnersSame, OwnedBy, sharedVars
<1>6. ASSUME NEW t \in Threads, Reserve(t)
      PROVE  OwnersSame
  BY <1>0, <1>6 DEF Reserve, Go, OwnersSame, OwnedBy
<1>7. ASSUME NEW t \in Threads,
             LoadPage(t) \/ InstallFails(t) \/ Bump(t) \/ \E r \in Requests : Allocate(t, r)
      PROVE  OwnersSame
  <2>1. UNCHANGED <<installed, owned_pages>> /\ Len(pages') = Len(pages)
    <3>1. CASE Bump(t)
      BY <3>1 DEF Bump, IndInv, TypeOK
    <3> QED BY <1>7, <3>1 DEF LoadPage, InstallFails, Allocate, sharedVars
  <2>2. /\ pc[t] \notin {"own", "push"} /\ pc'[t] \notin {"own", "push"}
        /\ \A v \in Threads : v # t => pc'[v] = pc[v]
    BY <1>0, <1>7 DEF LoadPage, InstallFails, Bump, Allocate, Return, Go
  <2> QED BY <2>1, <2>2 DEF OwnersSame, OwnedBy
<1>8. CASE UNCHANGED vars
  BY <1>1, <1>8 DEF vars, sharedVars, OwnersSame, OwnedBy
<1>9. CASE \E t \in Threads : Step(t)
  BY <1>1, <1>2, <1>3, <1>4, <1>5, <1>6, <1>7, <1>9 DEF Step
<1> QED BY <1>1, <1>7, <1>8, <1>9 DEF Next, Finished

-----------------------------------------------------------------------------
(* The inductive invariant holds in every reachable state.                 *)
LEMMA Inductive == Spec => []IndInv
<1>1. IndInv /\ [Next]_vars => IndInv'
  <2> SUFFICES ASSUME IndInv, [Next]_vars
               PROVE  IndInv'
    OBVIOUS
  <2>1. TypeOK' /\ CallsHaveRequests'
    BY TypeStep, RequestsStep DEF IndInv
  <2>2. InstallersHavePages'
    BY InstalledStep DEF IndInv, InstallersHavePages
  <2> QED BY <2>1, <2>2, BlocksStep, OwnersStep DEF IndInv
<1> QED BY InitInv, <1>1, PTL DEF Spec

(* Every variable keeps its type, and a thread at the fetch_add has a page *)
(* to add to.                                                              *)
THEOREM TypeCorrect == Spec => []TypeOK
BY Inductive, PTL DEF IndInv

(* No two blocks handed out overlap, and each is aligned and inside its    *)
(* page: for any number of threads racing in allocate, any page size and   *)
(* any requests.                                                           *)
THEOREM BlocksNeverOverlap == Spec => []BlocksDisjoint
BY Inductive, PTL DEF IndInv

(* The destructor's list and the threads in own_page together hold every   *)
(* page that was installed, each once: none leaks and none is freed twice. *)
THEOREM EveryPageOwned == Spec => []PagesOwned
BY Inductive, PTL DEF IndInv
=============================================================================
