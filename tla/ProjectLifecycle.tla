-------------------------- MODULE ProjectLifecycle --------------------------
(***************************************************************************)
(* project_manager's lifecycle word, its activity gate and the             *)
(* project_access tokens, one action per atomic step of the code.          *)
(*                                                                         *)
(* A coordinator constructs (LOAD, BUILD, REBUILD) or unloads the Project; *)
(* a reader is a QUERY, RUN or SAVE task that acquires a token, works on   *)
(* the Project and releases the token.  Both kinds run concurrently: what  *)
(* keeps them apart is `lifecycle' and the gate word, and nothing else.    *)
(***************************************************************************)
EXTENDS Naturals, FiniteSets

CONSTANTS Readers,         \* tasks that acquire tokens
          Coordinators,    \* threads that construct and unload
          None,            \* a null Project pointer
          CountMask,       \* largest token count the gate word holds (2^63 - 1 in the code)
          MaxGenerations   \* bound: Projects constructed in a behaviour

ASSUME LifecycleAssumption ==
    /\ IsFiniteSet(Readers)
    /\ Readers \cap Coordinators = {}
    /\ CountMask \in Nat \ {0}
    /\ MaxGenerations \in Nat
    /\ None \notin Nat

VARIABLES lifecycle,   \* project_manager::lifecycle
          gate,        \* project_activity_gate::state: the CLOSED bit and the task count
          project,     \* project_manager::project: generation owned, or None
          built,       \* generations constructed so far
          stop,        \* the stop request has been delivered to the tasks
          manager,     \* the manager object itself: alive, under destruction, gone
          rpc,         \* reader: where it is inside acquire/reset
          seen,        \* reader: the gate word try_enter loaded last
          view,        \* reader: the Project its token points at
          after,       \* reader: what follows the leave() in progress
          cpc,         \* coordinator: where it is
          waited       \* coordinator: the gate word wait_drained loaded last

gateVars   == <<lifecycle, gate, project>>
readerVars == <<rpc, seen, view, after>>
coordVars  == <<cpc, waited, stop>>
vars == <<lifecycle, gate, project, built, stop, manager,
          rpc, seen, view, after, cpc, waited>>

States   == {"unloaded", "constructing", "ready", "draining"}
Word     == [closed : BOOLEAN, count : 0..CountMask]
Shut     == [closed |-> TRUE, count |-> 0]
ReaderPC == {"idle", "first_check", "load", "cas", "second_check", "bind",
             "holding", "leave", "notify"}
CoordPC  == {"idle", "constructing", "assign", "open", "publish",
             "abandon", "close", "request_stop", "drain_load", "drain_wait",
             "asleep", "destroy", "unloaded"}

(* A reader counted by the gate.                                           *)
Inside == {"second_check", "bind", "holding", "leave"}

Init ==
    /\ lifecycle = "unloaded"
    /\ gate = Shut
    /\ project = None
    /\ built = 0
    /\ stop = FALSE
    /\ manager = "alive"
    /\ rpc = [r \in Readers |-> "idle"]
    /\ seen = [r \in Readers |-> Shut]
    /\ view = [r \in Readers |-> None]
    /\ after = [r \in Readers |-> "idle"]
    /\ cpc = [c \in Coordinators |-> "idle"]
    /\ waited = [c \in Coordinators |-> Shut]

-----------------------------------------------------------------------------
(* std::atomic::notify_all on the gate word: a blocked wait_drained        *)
(* returns only if the word differs from the one it went to sleep on.      *)
(* The coordinators' positions after notify_all with the given word.       *)
Notified(word) ==
    [c \in Coordinators |->
       IF cpc[c] = "asleep" /\ word # waited[c] THEN "drain_load" ELSE cpc[c]]

GoR(r, pc) == rpc' = [rpc EXCEPT ![r] = pc]
GoC(c, pc) == cpc' = [cpc EXCEPT ![c] = pc]

-----------------------------------------------------------------------------
(* Readers: project_manager::acquire                                       *)

(* acquire() starts with output.reset(): a token already held is returned  *)
(* before the lifecycle is looked at.                                      *)
AcquireReset(r) ==
    /\ manager = "alive"
    /\ \/ /\ rpc[r] = "idle"
          /\ GoR(r, "first_check")
          /\ UNCHANGED <<view, after>>
       \/ /\ rpc[r] = "holding"
          /\ GoR(r, "leave")
          /\ view' = [view EXCEPT ![r] = None]
          /\ after' = [after EXCEPT ![r] = "first_check"]
    /\ UNCHANGED <<gateVars, built, manager, seen, coordVars>>

FirstCheck(r) ==
    /\ rpc[r] = "first_check"
    /\ GoR(r, IF lifecycle = "ready" THEN "load" ELSE "idle")
    /\ UNCHANGED <<gateVars, built, manager, seen, view, after, coordVars>>

(* try_enter: the first load, then a loop of test and compare-exchange.    *)
EnterLoad(r) ==
    /\ rpc[r] = "load"
    /\ seen' = [seen EXCEPT ![r] = gate]
    /\ GoR(r, "cas")
    /\ UNCHANGED <<gateVars, built, manager, view, after, coordVars>>

EnterRefused(r) ==
    /\ rpc[r] = "cas"
    /\ seen[r].closed \/ seen[r].count = CountMask
    /\ GoR(r, "idle")
    /\ UNCHANGED <<gateVars, built, manager, seen, view, after, coordVars>>

(* Mutation: the count is stored without comparing the word first.         *)
EnterCasBlindStore(r) ==
    /\ rpc[r] = "cas"
    /\ ~seen[r].closed
    /\ seen[r].count # CountMask
    /\ gate' = [seen[r] EXCEPT !.count = @ + 1]
    /\ GoR(r, "second_check")
    /\ UNCHANGED <<seen, lifecycle, project, built, manager, view, after, coordVars>>

EnterCas(r) ==
    /\ rpc[r] = "cas"
    /\ ~seen[r].closed
    /\ seen[r].count # CountMask
    /\ \/ /\ gate = seen[r]
          /\ gate' = [gate EXCEPT !.count = @ + 1]
          /\ GoR(r, "second_check")
          /\ UNCHANGED seen
       \/ /\ seen' = [seen EXCEPT ![r] = gate]   \* failed (also spuriously): reloaded
          /\ UNCHANGED <<gate, rpc>>
    /\ UNCHANGED <<lifecycle, project, built, manager, view, after, coordVars>>

(* Mutation: the lifecycle is not looked at again after the gate.          *)
SecondCheckDropped(r) ==
    /\ rpc[r] = "second_check"
    /\ GoR(r, "bind")
    /\ UNCHANGED <<gateVars, built, manager, seen, view, after, coordVars>>

SecondCheck(r) ==
    /\ rpc[r] = "second_check"
    /\ IF lifecycle = "ready"
         THEN GoR(r, "bind") /\ UNCHANGED after
         ELSE GoR(r, "leave") /\ after' = [after EXCEPT ![r] = "idle"]
    /\ UNCHANGED <<gateVars, built, manager, seen, view, coordVars>>

Bind(r) ==
    /\ rpc[r] = "bind"
    /\ IF project = None
         THEN /\ GoR(r, "leave")
              /\ after' = [after EXCEPT ![r] = "idle"]
              /\ UNCHANGED view
         ELSE /\ GoR(r, "holding")
              /\ view' = [view EXCEPT ![r] = project]
              /\ UNCHANGED after
    /\ UNCHANGED <<gateVars, built, manager, seen, coordVars>>

(* project_access::reset, also run by its destructor.                      *)
Release(r) ==
    /\ manager \in {"alive", "destroying"}
    /\ rpc[r] = "holding"
    /\ GoR(r, "leave")
    /\ view' = [view EXCEPT ![r] = None]
    /\ after' = [after EXCEPT ![r] = "idle"]
    /\ UNCHANGED <<gateVars, built, manager, seen, coordVars>>

(* Mutation: previous == 1 instead of (previous & count_mask) == 1.        *)
LeaveUnmasked(r) ==
    /\ rpc[r] = "leave"
    /\ gate' = [gate EXCEPT !.count = @ - 1]
    /\ GoR(r, IF gate = [closed |-> FALSE, count |-> 1] THEN "notify" ELSE after[r])
    /\ UNCHANGED <<lifecycle, project, built, manager, seen, view, after, coordVars>>

(* leave: fetch_sub, then notify_all when the last task left.              *)
Leave(r) ==
    /\ rpc[r] = "leave"
    /\ gate' = [gate EXCEPT !.count = @ - 1]
    /\ GoR(r, IF gate.count = 1 THEN "notify" ELSE after[r])
    /\ UNCHANGED <<lifecycle, project, built, manager, seen, view, after, coordVars>>

LeaveNotify(r) ==
    /\ rpc[r] = "notify"
    /\ cpc' = Notified(gate)
    /\ GoR(r, after[r])
    /\ UNCHANGED <<gateVars, built, manager, seen, view, after, waited, stop>>

-----------------------------------------------------------------------------
(* Coordinators: construction                                              *)

(* Mutation: construction is also allowed while a Project drains.          *)
ReserveWhileDraining(c) ==
    /\ manager = "alive"
    /\ cpc[c] = "idle"
    /\ built < MaxGenerations
    /\ lifecycle \in {"unloaded", "draining"}
    /\ lifecycle' = "constructing"
    /\ GoC(c, "constructing")
    /\ UNCHANGED <<gate, project, built, manager, readerVars, waited, stop>>

(* reserve_construction of load, build and rebuild; a failed exchange      *)
(* returns invalid_state and changes nothing.                              *)
Reserve(c) ==
    /\ manager = "alive"
    /\ cpc[c] = "idle"
    /\ built < MaxGenerations
    /\ lifecycle = "unloaded"
    /\ lifecycle' = "constructing"
    /\ GoC(c, "constructing")
    /\ UNCHANGED <<gate, project, built, manager, readerVars, waited, stop>>

(* The construction itself (detached candidate) succeeds or fails.         *)
ConstructCandidate(c) ==
    /\ cpc[c] = "constructing"
    /\ \/ GoC(c, "assign") \/ GoC(c, "abandon")
    /\ UNCHANGED <<gateVars, built, manager, readerVars, waited, stop>>

AbandonConstruction(c) ==
    /\ cpc[c] = "abandon"
    /\ project' = None
    /\ lifecycle' = "unloaded"
    /\ GoC(c, "idle")
    /\ UNCHANGED <<gate, built, manager, readerVars, waited, stop>>

AssignProject(c) ==
    /\ cpc[c] = "assign"
    /\ built' = built + 1
    /\ project' = built'
    /\ GoC(c, "open")
    /\ UNCHANGED <<lifecycle, gate, manager, readerVars, waited, stop>>

(* activity.open(): an unconditional store of 0, then notify_all.          *)
OpenGate(c) ==
    /\ cpc[c] = "open"
    /\ gate' = [closed |-> FALSE, count |-> 0]
    /\ cpc' = [Notified(gate') EXCEPT ![c] = "publish"]
    /\ UNCHANGED <<lifecycle, project, built, manager, readerVars, waited, stop>>

PublishReady(c) ==
    /\ cpc[c] = "publish"
    /\ lifecycle' = "ready"
    /\ GoC(c, "idle")
    /\ UNCHANGED <<gate, project, built, manager, readerVars, waited, stop>>

-----------------------------------------------------------------------------
(* Coordinators: unload                                                    *)

UnloadReserve(c) ==
    /\ manager = "alive"
    /\ cpc[c] = "idle"
    /\ lifecycle = "ready"
    /\ lifecycle' = "draining"
    /\ GoC(c, "close")
    /\ UNCHANGED <<gate, project, built, manager, readerVars, waited, stop>>

(* activity.close(): fetch_or of the CLOSED bit, then notify_all.          *)
CloseGate(c) ==
    /\ cpc[c] = "close"
    /\ gate' = [gate EXCEPT !.closed = TRUE]
    /\ cpc' = [Notified(gate') EXCEPT ![c] = "request_stop"]
    /\ UNCHANGED <<lifecycle, project, built, manager, readerVars, waited, stop>>

(* stop(): the callback may be empty, and then the tasks are not told.     *)
RequestStop(c) ==
    /\ cpc[c] = "request_stop"
    /\ stop' \in BOOLEAN
    /\ GoC(c, "drain_load")
    /\ UNCHANGED <<gateVars, built, manager, readerVars, waited>>

(* Mutation: the drain looks at the CLOSED bit instead of the count.       *)
DrainLoadClosedBit(c) ==
    /\ cpc[c] = "drain_load"
    /\ waited' = [waited EXCEPT ![c] = gate]
    /\ GoC(c, IF gate.closed THEN "destroy" ELSE "drain_wait")
    /\ UNCHANGED <<gateVars, built, manager, readerVars, stop>>

DrainLoad(c) ==
    /\ cpc[c] = "drain_load"
    /\ waited' = [waited EXCEPT ![c] = gate]
    /\ GoC(c, IF gate.count = 0 THEN "destroy" ELSE "drain_wait")
    /\ UNCHANGED <<gateVars, built, manager, readerVars, stop>>

(* state.wait(value): blocks only if the word still is the value loaded.   *)
DrainWait(c) ==
    /\ cpc[c] = "drain_wait"
    /\ GoC(c, IF gate = waited[c] THEN "asleep" ELSE "drain_load")
    /\ UNCHANGED <<gateVars, built, manager, readerVars, waited, stop>>

DestroyProject(c) ==
    /\ cpc[c] = "destroy"
    /\ project' = None
    /\ GoC(c, "unloaded")
    /\ UNCHANGED <<lifecycle, gate, built, manager, readerVars, waited, stop>>

UnloadFinish(c) ==
    /\ cpc[c] = "unloaded"
    /\ lifecycle' = "unloaded"
    /\ stop' = FALSE
    /\ GoC(c, "idle")
    /\ UNCHANGED <<gate, project, built, manager, readerVars, waited>>

-----------------------------------------------------------------------------
(* ~project_manager, run by the owner once no call is in flight.           *)

DestructorClose ==
    /\ manager = "alive"
    /\ \A c \in Coordinators : cpc[c] = "idle"
    /\ \A r \in Readers : rpc[r] \in {"idle", "holding"}
    /\ manager' = "destroying"
    /\ gate' = [gate EXCEPT !.closed = TRUE]
    /\ UNCHANGED <<lifecycle, project, built, readerVars, coordVars>>

(* A token still counted is a contract violation: std::terminate.          *)
DestructorDestroy ==
    /\ manager = "destroying"
    /\ IF gate.count # 0
         THEN /\ manager' = "terminated"
              /\ UNCHANGED <<lifecycle, project>>
         ELSE /\ manager' = "gone"
              /\ project' = None
              /\ lifecycle' = "unloaded"
    /\ UNCHANGED <<gate, built, readerVars, coordVars>>

(* Once the manager is gone or the process has terminated nothing happens. *)
Stopped ==
    /\ manager \in {"gone", "terminated"}
    /\ UNCHANGED vars

-----------------------------------------------------------------------------
ReaderStep(r) ==
    /\ manager # "terminated"
    /\ \/ FirstCheck(r) \/ EnterLoad(r) \/ EnterRefused(r) \/ EnterCas(r)
       \/ SecondCheck(r) \/ Bind(r) \/ Leave(r) \/ LeaveNotify(r)

ConstructStep(c) ==
    \/ ConstructCandidate(c) \/ AbandonConstruction(c)
    \/ AssignProject(c) \/ OpenGate(c) \/ PublishReady(c)

UnloadStep(c) ==
    \/ CloseGate(c) \/ RequestStop(c) \/ DrainLoad(c) \/ DrainWait(c)
    \/ DestroyProject(c) \/ UnloadFinish(c)

Next ==
    \/ \E r \in Readers : AcquireReset(r) \/ ReaderStep(r) \/ Release(r)
    \/ \E c \in Coordinators :
         Reserve(c) \/ ConstructStep(c) \/ UnloadReserve(c) \/ UnloadStep(c)
    \/ DestructorClose
    \/ DestructorDestroy
    \/ Stopped

Spec == Init /\ [][Next]_vars

(* A thread inside a call keeps running, and a task that has been asked to *)
(* stop returns its token.  Nobody is obliged to start a call.             *)
Fairness ==
    /\ \A r \in Readers : WF_vars(ReaderStep(r)) /\ WF_vars(stop /\ Release(r))
    /\ \A c \in Coordinators : WF_vars(ConstructStep(c)) /\ WF_vars(UnloadStep(c))

FairSpec == Spec /\ Fairness

-----------------------------------------------------------------------------
(* Properties                                                              *)

(* Every variable has its type; in particular the count stays inside the   *)
(* 63 bits below the CLOSED bit, so entering never flips that bit.         *)
TypeOK ==
    /\ lifecycle \in States
    /\ gate \in Word
    /\ project \in Nat \cup {None}
    /\ built \in Nat
    /\ stop \in BOOLEAN
    /\ manager \in {"alive", "destroying", "terminated", "gone"}
    /\ rpc \in [Readers -> ReaderPC]
    /\ seen \in [Readers -> Word]
    /\ view \in [Readers -> Nat \cup {None}]
    /\ after \in [Readers -> {"idle", "first_check"}]
    /\ cpc \in [Coordinators -> CoordPC]
    /\ waited \in [Coordinators -> Word]

(* The gate's count is the number of tasks that entered and have not left: *)
(* neither a stale compare-exchange nor the unconditional store of open()  *)
(* ever loses or invents a task.                                           *)
GateCountExact ==
    gate.count = Cardinality({r \in Readers : rpc[r] \in Inside})

(* A token points at the Project the manager owns: unload's reset and the  *)
(* destructor never free a Project under a task that still reads it, and a *)
(* token never outlives its generation.                                    *)
TokenPinsProject ==
    \A r \in Readers :
        rpc[r] = "holding" => project # None /\ view[r] = project

(* Coordinator positions inside a construction, and inside an unload.      *)
Building  == {"constructing", "assign", "open", "publish", "abandon"}
Unloading == {"close", "request_stop", "drain_load", "drain_wait", "asleep",
              "destroy", "unloaded"}

(* The compare-exchange on `lifecycle' makes one coordinator the owner of  *)
(* a construction or of an unload, and the owner alone until it is done.   *)
SingleOwner ==
    /\ \A c \in Coordinators :
          /\ cpc[c] \in Building => lifecycle = "constructing"
          /\ cpc[c] \in Unloading => lifecycle = "draining"
    /\ \A c, d \in Coordinators :
          cpc[c] # "idle" /\ cpc[d] # "idle" => c = d

(* wait_drained never sleeps through the last departure: when it sleeps on *)
(* a word and nobody is counted any more, a notify_all is still due.       *)
NoLostWakeup ==
    \A c \in Coordinators :
        cpc[c] = "asleep" /\ gate.count = 0 => \E r \in Readers : rpc[r] = "notify"

(* An unload that told the tasks to stop finishes, whoever raced it.       *)
UnloadCompletes ==
    \A c \in Coordinators :
        (cpc[c] = "drain_load" /\ stop) ~> (lifecycle = "unloaded")

(* The lifecycle word, gate and tokens implement ReadyProject: a token is  *)
(* granted by the second look at `lifecycle', admission ends at the        *)
(* exchange that starts the unload, and the Project is retired by reset.   *)
Ready == INSTANCE ReadyProject WITH
    current   <- IF lifecycle \in {"ready", "draining"} THEN project ELSE None,
    admitting <- lifecycle = "ready" /\ ~gate.closed,
    tokens    <- {r \in Readers : rpc[r] \in {"bind", "holding"}}

ImplementsReady == Ready!Spec
=============================================================================
