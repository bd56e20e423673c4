------------------------------ MODULE ByteArena ------------------------------
(***************************************************************************)
(* byte_arena: bytes that live as long as the arena, handed out to several *)
(* threads by fetch_add on the current page.  A page that has no room left *)
(* is replaced by a compare-exchange; the losers delete their candidate    *)
(* and try again on the winner's.                                          *)
(*                                                                         *)
(* A page is named by its position in `pages', 0 is null.  The list of     *)
(* owned pages is a sequence, its head last; a loaded head is the length   *)
(* the list had then.                                                      *)
(***************************************************************************)
EXTENDS Naturals, Sequences, FiniteSets

CONSTANTS Threads,
          Requests,         \* records with the size and the alignment asked for
          DefaultPageSize,  \* default_page_size
          MaxPages,         \* bound: pages installed
          MaxBlocks         \* bound: allocations begun

NoRequest == [size |-> 0, alignment |-> 1]

ASSUME ArenaAssumption ==
    /\ Requests \subseteq [size : Nat \ {0}, alignment : Nat \ {0}]
    /\ DefaultPageSize \in Nat \ {0}
    /\ MaxPages \in Nat
    /\ MaxBlocks \in Nat

VARIABLES pages,        \* capacity and used of every page that was installed
          current_page,
          owned_pages,
          reserved,     \* reserved_pages and reserved_bytes
          begun,        \* allocations begun
          blocks,       \* the blocks handed out: page, offset, size and alignment
          pc,           \* thread: where it is in allocate
          request,      \* thread: what it asks for
          page,         \* thread: page_value
          installed,    \* thread: the page it installed and must own
          head          \* thread: the head of owned_pages it loaded

sharedVars == <<pages, current_page, owned_pages, reserved>>
vars == <<sharedVars, begun, blocks, pc, request, page, installed, head>>

Init ==
    /\ pages = <<>>
    /\ current_page = 0
    /\ owned_pages = <<>>
    /\ reserved = [pages |-> 0, bytes |-> 0]
    /\ begun = 0
    /\ blocks = {}
    /\ pc = [t \in Threads |-> "idle"]
    /\ request = [t \in Threads |-> NoRequest]
    /\ page = [t \in Threads |-> 0]
    /\ installed = [t \in Threads |-> 0]
    /\ head = [t \in Threads |-> 0]

align_up(value, alignment) ==
    LET up == value + alignment - 1 IN up - (up % alignment)

\* Room for the worst alignment is reserved.
Reservation(r) == r.size + r.alignment - 1

Capacity(r) ==
    IF Reservation(r) > DefaultPageSize THEN Reservation(r) ELSE DefaultPageSize

Go(t, where) == pc' = [pc EXCEPT ![t] = where]

Return(t) ==
    /\ Go(t, "idle")
    /\ request' = [request EXCEPT ![t] = NoRequest]
    /\ page' = [page EXCEPT ![t] = 0]

-----------------------------------------------------------------------------
Allocate(t, r) ==
    /\ pc[t] = "idle"
    /\ begun < MaxBlocks
    /\ begun' = begun + 1
    /\ request' = [request EXCEPT ![t] = r]
    /\ Go(t, "load")
    /\ UNCHANGED <<sharedVars, blocks, page, installed, head>>

LoadPage(t) ==
    /\ pc[t] = "load"
    /\ page' = [page EXCEPT ![t] = current_page]
    /\ Go(t, IF current_page = 0 THEN "install" ELSE "bump")
    /\ UNCHANGED <<sharedVars, begun, blocks, request, installed, head>>

\* A page replaces the one the thread found missing or full, unless another thread
\* replaced it first: then the candidate is deleted.
Install(t) ==
    /\ pc[t] = "install"
    /\ IF current_page = page[t]
       THEN /\ Len(pages) < MaxPages
            /\ pages' = Append(pages, [capacity |-> Capacity(request[t]), used |-> 0])
            /\ current_page' = Len(pages')
            /\ installed' = [installed EXCEPT ![t] = Len(pages')]
            /\ Go(t, "own")
       ELSE /\ Go(t, "load")
            /\ UNCHANGED <<pages, current_page, installed>>
    /\ UNCHANGED <<owned_pages, reserved, begun, blocks, request, page, head>>

\* make_page cannot allocate.
InstallFails(t) ==
    /\ pc[t] = "install"
    /\ Return(t)
    /\ UNCHANGED <<sharedVars, begun, blocks, installed, head>>

\* own_page: a compare-exchange loop, then the statistics.
LoadOwned(t) ==
    /\ pc[t] = "own"
    /\ head' = [head EXCEPT ![t] = Len(owned_pages)]
    /\ Go(t, "push")
    /\ UNCHANGED <<sharedVars, begun, blocks, request, page, installed>>

\* Mutant: a page pushed meanwhile is dropped from the list.
PushBlind(t) ==
    /\ pc[t] = "push"
    /\ owned_pages' = Append(SubSeq(owned_pages, 1, head[t]), installed[t])
    /\ Go(t, "reserve")
    /\ UNCHANGED <<pages, current_page, reserved, begun, blocks, request, page, installed, head>>

PushOwned(t) ==
    /\ pc[t] = "push"
    /\ Len(owned_pages) = head[t]
    /\ owned_pages' = Append(owned_pages, installed[t])
    /\ Go(t, "reserve")
    /\ UNCHANGED <<pages, current_page, reserved, begun, blocks, request, page, installed, head>>

\* The weak compare-exchange fails, with or without a reason.
PushFails(t) ==
    /\ pc[t] = "push"
    /\ head' = [head EXCEPT ![t] = Len(owned_pages)]
    /\ UNCHANGED <<sharedVars, begun, blocks, pc, request, page, installed>>

\* The first page is used at once, without loading current_page again; a replacement
\* is found by the next round of the loop.
Reserve(t) ==
    /\ pc[t] = "reserve"
    /\ reserved' = [pages |-> reserved.pages + 1,
                    bytes |-> reserved.bytes + pages[installed[t]].capacity]
    /\ IF page[t] = 0
       THEN page' = [page EXCEPT ![t] = installed[t]] /\ Go(t, "bump")
       ELSE Go(t, "load") /\ UNCHANGED page
    /\ installed' = [installed EXCEPT ![t] = 0]
    /\ head' = [head EXCEPT ![t] = 0]
    /\ UNCHANGED <<pages, current_page, owned_pages, begun, blocks, request>>

Fits(p, offset, r) ==
    /\ offset <= pages[p].capacity
    /\ align_up(offset, r.alignment) <= pages[p].capacity
    /\ r.size <= pages[p].capacity - align_up(offset, r.alignment)

Block(p, offset, r) ==
    [page |-> p, at |-> align_up(offset, r.alignment), size |-> r.size,
     alignment |-> r.alignment]

\* Mutant: only the bytes asked for are reserved, not those lost to alignment.
BumpBySize(t) ==
    LET p == page[t]
        offset == pages[p].used
    IN  /\ pc[t] = "bump"
        /\ pages' = [pages EXCEPT ![p].used = @ + request[t].size]
        /\ IF Fits(p, offset, request[t])
           THEN blocks' = blocks \cup {Block(p, offset, request[t])} /\ Return(t)
           ELSE Go(t, "install") /\ UNCHANGED <<blocks, request, page>>
        /\ UNCHANGED <<current_page, owned_pages, reserved, begun, installed, head>>

\* used.fetch_add: the bytes are the thread's whether they fit or not.
Bump(t) ==
    LET p == page[t]
        offset == pages[p].used
    IN  /\ pc[t] = "bump"
        /\ pages' = [pages EXCEPT ![p].used = @ + Reservation(request[t])]
        /\ IF Fits(p, offset, request[t])
           THEN blocks' = blocks \cup {Block(p, offset, request[t])} /\ Return(t)
           ELSE Go(t, "install") /\ UNCHANGED <<blocks, request, page>>
        /\ UNCHANGED <<current_page, owned_pages, reserved, begun, installed, head>>

Step(t) ==
    \/ LoadPage(t) \/ Install(t) \/ InstallFails(t) \/ LoadOwned(t) \/ PushOwned(t)
    \/ PushFails(t) \/ Reserve(t) \/ Bump(t)

\* The bound on allocations is reached and none is under way.
Finished ==
    /\ begun = MaxBlocks
    /\ \A t \in Threads : pc[t] = "idle"
    /\ UNCHANGED vars

Next ==
    \/ \E t \in Threads : Step(t) \/ \E r \in Requests : Allocate(t, r)
    \/ Finished

Spec == Init /\ [][Next]_vars

-----------------------------------------------------------------------------
\* The type of every variable; a thread that reserves bytes has a page.
TypeOK ==
    /\ pages \in Seq([capacity : Nat, used : Nat])
    /\ Len(pages) <= MaxPages
    /\ current_page \in 0..Len(pages)
    /\ owned_pages \in Seq(1..Len(pages))
    /\ reserved \in [pages : Nat, bytes : Nat]
    /\ begun \in 0..MaxBlocks
    /\ blocks \subseteq [page : 1..Len(pages), at : Nat, size : Nat, alignment : Nat]
    /\ pc \in [Threads -> {"idle", "load", "install", "own", "push", "reserve", "bump"}]
    /\ request \in [Threads -> Requests \cup {NoRequest}]
    /\ page \in [Threads -> 0..Len(pages)]
    /\ installed \in [Threads -> 0..Len(pages)]
    /\ head \in [Threads -> Nat]
    /\ \A t \in Threads : pc[t] = "bump" => page[t] # 0

Apart(x, y) == x.at + x.size <= y.at \/ y.at + y.size <= x.at

\* No two blocks overlap, and each is aligned and inside its page, whichever threads
\* raced for the page and for its replacement.
BlocksDisjoint ==
    \A x \in blocks :
        /\ x.at + x.size <= pages[x.page].capacity
        /\ x.at % x.alignment = 0
        /\ \A y \in blocks : x # y /\ x.page = y.page => Apart(x, y)

OwnedBy(t) == IF pc[t] \in {"own", "push"} THEN {installed[t]} ELSE {}

\* Every page installed is on the list the destructor walks, exactly once, or is about
\* to be put there by the thread that installed it: none leaks, none is freed twice.
PagesOwned ==
    /\ \A i, j \in DOMAIN owned_pages : owned_pages[i] = owned_pages[j] => i = j
    /\ {owned_pages[i] : i \in DOMAIN owned_pages} \cup UNION {OwnedBy(t) : t \in Threads}
         = 1..Len(pages)
    /\ \A t \in Threads : \A i \in DOMAIN owned_pages : owned_pages[i] \notin OwnedBy(t)
    /\ \A t, u \in Threads : OwnedBy(t) \cap OwnedBy(u) # {} => t = u
=============================================================================
