---------------------- MODULE ProjectLifecycle_proofs ----------------------
(***************************************************************************)
(* The safety properties of ProjectLifecycle, for any number of readers    *)
(* and coordinators, any width of the gate word and any number of          *)
(* generations.                                                            *)
(***************************************************************************)
EXTENDS ProjectLifecycle, FiniteSetTheorems, TLAPS

(* What the gate word holds at each position of the owning coordinator.    *)
GateFollowsOwner ==
    /\ lifecycle = "unloaded" => gate = Shut
    /\ \A c \in Coordinators :
         /\ cpc[c] \in {"constructing", "assign", "open", "abandon"} => gate = Shut
         /\ cpc[c] = "publish" => ~gate.closed
         /\ cpc[c] \in {"request_stop", "drain_load", "drain_wait", "asleep"} => gate.closed
         /\ cpc[c] \in {"destroy", "unloaded"} => gate = Shut
    /\ lifecycle = "ready" /\ manager = "alive" => ~gate.closed
    /\ manager = "destroying" => gate.closed

(* Which positions of the owner have a Project.                            *)
ProjectFollowsOwner ==
    /\ lifecycle = "ready" => project # None
    /\ \A c \in Coordinators :
         /\ cpc[c] \in {"open", "publish"} => project # None
         /\ cpc[c] \in Unloading \ {"unloaded"} => project # None
         /\ cpc[c] = "unloaded" => project = None

(* wait_drained sleeps only on a word that counted somebody.               *)
SleepsOnTasks ==
    \A c \in Coordinators : cpc[c] \in {"drain_wait", "asleep"} => waited[c].count # 0

(* The destructor runs beside no call but the return of tokens.            *)
QuietDestruction ==
    manager # "alive" =>
        /\ \A c \in Coordinators : cpc[c] = "idle"
        /\ \A r \in Readers : /\ rpc[r] \in {"idle", "holding", "leave", "notify"}
                              /\ rpc[r] \in {"leave", "notify"} => after[r] = "idle"

IndInv ==
    /\ TypeOK
    /\ GateCountExact
    /\ TokenPinsProject
    /\ SingleOwner
    /\ NoLostWakeup
    /\ GateFollowsOwner
    /\ ProjectFollowsOwner
    /\ SleepsOnTasks
    /\ QuietDestruction

-----------------------------------------------------------------------------
(* Facts about the set of counted readers                                  *)

Counted(pcs) == {r \in Readers : pcs[r] \in Inside}

(* The counted readers are finitely many, and a count of zero means that   *)
(* no reader is between try_enter and the fetch_sub of leave.              *)
LEMMA CountedFinite ==
    ASSUME NEW pcs
    PROVE  /\ IsFiniteSet(Counted(pcs))
           /\ Cardinality(Counted(pcs)) \in Nat
           /\ Cardinality(Counted(pcs)) = 0 <=> Counted(pcs) = {}
<1>1. Counted(pcs) \subseteq Readers
  BY DEF Counted
<1>2. IsFiniteSet(Counted(pcs))
  BY <1>1, LifecycleAssumption, FS_Subset
<1> QED
  BY <1>2, FS_CardinalityType, FS_EmptySet

(* A reader that passes the gate raises the count by one.                  *)
LEMMA CountedEnter ==
    ASSUME NEW pcs \in [Readers -> ReaderPC], NEW r \in Readers,
           pcs[r] \notin Inside, NEW pc \in Inside
    PROVE  Cardinality(Counted([pcs EXCEPT ![r] = pc])) = Cardinality(Counted(pcs)) + 1
<1>1. Counted([pcs EXCEPT ![r] = pc]) = Counted(pcs) \cup {r}
  BY DEF Counted
<1>2. r \notin Counted(pcs)
  BY DEF Counted
<1> QED
  BY <1>1, <1>2, CountedFinite, FS_AddElement

(* A reader that leaves the gate lowers the count by one.                  *)
LEMMA CountedLeave ==
    ASSUME NEW pcs \in [Readers -> ReaderPC], NEW r \in Readers,
           pcs[r] \in Inside, NEW pc, pc \notin Inside
    PROVE  /\ Cardinality(Counted([pcs EXCEPT ![r] = pc])) = Cardinality(Counted(pcs)) - 1
           /\ Cardinality(Counted(pcs)) > 0
<1>1. Counted([pcs EXCEPT ![r] = pc]) = Counted(pcs) \ {r}
  BY DEF Counted
<1>2. r \in Counted(pcs)
  BY DEF Counted
<1>3. Cardinality(Counted(pcs)) > 0
  BY <1>2, CountedFinite
<1> QED
  BY <1>1, <1>2, <1>3, CountedFinite, FS_RemoveElement

(* A count of zero in the gate word: nobody is inside, nobody is leaving.  *)
LEMMA NobodyInside ==
    ASSUME GateCountExact, gate.count = 0
    PROVE  \A r \in Readers : rpc[r] \notin Inside
<1>1. Counted(rpc) = {}
  BY CountedFinite DEF GateCountExact, Counted
<1> QED
  BY <1>1 DEF Counted

(* The initial states satisfy the inductive invariant.                     *)
LEMMA InitIndInv == Init => IndInv
<1> SUFFICES ASSUME Init PROVE IndInv
  OBVIOUS
<1>1. Shut \in Word
  BY LifecycleAssumption DEF Shut, Word
<1>2. TypeOK
  BY <1>1 DEF Init, TypeOK, States, ReaderPC, CoordPC
<1>3. GateCountExact
  <2>1. Counted(rpc) = {}
    BY DEF Init, Counted, Inside
  <2> QED
    BY <2>1, CountedFinite DEF Init, Shut, GateCountExact, Counted
<1> QED
  BY <1>2, <1>3 DEF Init, IndInv, TokenPinsProject, SingleOwner, NoLostWakeup,
     GateFollowsOwner, ProjectFollowsOwner, SleepsOnTasks, QuietDestruction,
     Building, Unloading, Shut

-----------------------------------------------------------------------------
(* Readers                                                                 *)

(* A task starts acquire(), or gives its token back first.                 *)
LEMMA AcquireResetKeeps ==
    ASSUME IndInv, NEW r \in Readers, AcquireReset(r)
    PROVE  IndInv'
<1> USE DEF IndInv, AcquireReset, GoR, gateVars, coordVars
<1>1. TypeOK'
  BY DEF TypeOK, ReaderPC
<1>2. GateCountExact'
  <2>1. \A q \in Readers : rpc'[q] \in Inside <=> rpc[q] \in Inside
    BY DEF TypeOK, Inside
  <2>2. Counted(rpc') = Counted(rpc)
    BY <2>1 DEF Counted
  <2> QED
    BY <2>2 DEF GateCountExact, Counted
<1>3. TokenPinsProject'
  BY DEF TokenPinsProject, TypeOK
<1>4. SingleOwner'
  BY DEF SingleOwner
<1>5. NoLostWakeup'
  BY DEF NoLostWakeup, TypeOK
<1>6. GateFollowsOwner' /\ ProjectFollowsOwner'
  BY DEF GateFollowsOwner, ProjectFollowsOwner
<1>7. SleepsOnTasks'
  BY DEF SleepsOnTasks
<1>8. QuietDestruction'
  BY DEF QuietDestruction, TypeOK
<1> QED
  BY <1>1, <1>2, <1>3, <1>4, <1>5, <1>6, <1>7, <1>8

(* The first look at the lifecycle.                                        *)
LEMMA FirstCheckKeeps ==
    ASSUME IndInv, NEW r \in Readers, FirstCheck(r)
    PROVE  IndInv'
<1> USE DEF IndInv, FirstCheck, GoR, gateVars, coordVars
<1>1. TypeOK'
  BY DEF TypeOK, ReaderPC
<1>2. GateCountExact'
  <2>1. \A q \in Readers : rpc'[q] \in Inside <=> rpc[q] \in Inside
    BY DEF TypeOK, Inside
  <2>2. Counted(rpc') = Counted(rpc)
    BY <2>1 DEF Counted
  <2> QED
    BY <2>2 DEF GateCountExact, Counted
<1>3. TokenPinsProject'
  BY DEF TokenPinsProject, TypeOK
<1>4. SingleOwner'
  BY DEF SingleOwner
<1>5. NoLostWakeup'
  BY DEF NoLostWakeup, TypeOK
<1>6. GateFollowsOwner' /\ ProjectFollowsOwner'
  BY DEF GateFollowsOwner, ProjectFollowsOwner
<1>7. SleepsOnTasks'
  BY DEF SleepsOnTasks
<1>8. QuietDestruction'
  BY DEF QuietDestruction, TypeOK
<1> QED
  BY <1>1, <1>2, <1>3, <1>4, <1>5, <1>6, <1>7, <1>8

(* try_enter loads the gate word.                                          *)
LEMMA EnterLoadKeeps ==
    ASSUME IndInv, NEW r \in Readers, EnterLoad(r)
    PROVE  IndInv'
<1> USE DEF IndInv, EnterLoad, GoR, gateVars, coordVars
<1>1. TypeOK'
  BY DEF TypeOK, ReaderPC
<1>2. GateCountExact'
  <2>1. \A q \in Readers : rpc'[q] \in Inside <=> rpc[q] \in Inside
    BY DEF TypeOK, Inside
  <2>2. Counted(rpc') = Counted(rpc)
    BY <2>1 DEF Counted
  <2> QED
    BY <2>2 DEF GateCountExact, Counted
<1>3. TokenPinsProject'
  BY DEF TokenPinsProject, TypeOK
<1>4. SingleOwner'
  BY DEF SingleOwner
<1>5. NoLostWakeup'
  BY DEF NoLostWakeup, TypeOK
<1>6. GateFollowsOwner' /\ ProjectFollowsOwner'
  BY DEF GateFollowsOwner, ProjectFollowsOwner
<1>7. SleepsOnTasks'
  BY DEF SleepsOnTasks
<1>8. QuietDestruction'
  BY DEF QuietDestruction, TypeOK
<1> QED
  BY <1>1, <1>2, <1>3, <1>4, <1>5, <1>6, <1>7, <1>8

(* try_enter finds the gate closed or saturated.                           *)
LEMMA EnterRefusedKeeps ==
    ASSUME IndInv, NEW r \in Readers, EnterRefused(r)
    PROVE  IndInv'
<1> USE DEF IndInv, EnterRefused, GoR, gateVars, coordVars
<1>1. TypeOK'
  BY DEF TypeOK, ReaderPC
<1>2. GateCountExact'
  <2>1. \A q \in Readers : rpc'[q] \in Inside <=> rpc[q] \in Inside
    BY DEF TypeOK, Inside
  <2>2. Counted(rpc') = Counted(rpc)
    BY <2>1 DEF Counted
  <2> QED
    BY <2>2 DEF GateCountExact, Counted
<1>3. TokenPinsProject'
  BY DEF TokenPinsProject, TypeOK
<1>4. SingleOwner'
  BY DEF SingleOwner
<1>5. NoLostWakeup'
  BY DEF NoLostWakeup, TypeOK
<1>6. GateFollowsOwner' /\ ProjectFollowsOwner'
  BY DEF GateFollowsOwner, ProjectFollowsOwner
<1>7. SleepsOnTasks'
  BY DEF SleepsOnTasks
<1>8. QuietDestruction'
  BY DEF QuietDestruction, TypeOK
<1> QED
  BY <1>1, <1>2, <1>3, <1>4, <1>5, <1>6, <1>7, <1>8

(* try_enter exchanges the word, or loads it again.                        *)
LEMMA EnterCasKeeps ==
    ASSUME IndInv, NEW r \in Readers, EnterCas(r)
    PROVE  IndInv'
<1> USE DEF IndInv, EnterCas, GoR, gateVars, coordVars
<1>1. TypeOK'
  <2>1. CASE gate' = gate
    BY <2>1 DEF TypeOK, ReaderPC
  <2>2. CASE gate = seen[r] /\ gate' = [gate EXCEPT !.count = @ + 1]
    <3>1. gate.count \in 0..CountMask /\ gate.count # CountMask
      BY <2>2 DEF TypeOK, Word
    <3>2. gate.count + 1 \in 0..CountMask
      BY <3>1, LifecycleAssumption
    <3>3. gate' \in Word
      BY <2>2, <3>2 DEF TypeOK, Word
    <3> QED
      BY <2>2, <3>3 DEF TypeOK, ReaderPC
  <2> QED
    BY <2>1, <2>2
<1>2. GateCountExact'
  <2>1. CASE rpc' = rpc /\ gate' = gate
    BY <2>1 DEF GateCountExact
  <2>2. CASE rpc' = [rpc EXCEPT ![r] = "second_check"] /\ gate' = [gate EXCEPT !.count = @ + 1]
    <3>1. Cardinality(Counted(rpc')) = Cardinality(Counted(rpc)) + 1
      BY <2>2, CountedEnter DEF TypeOK, Inside
    <3>2. gate'.count = gate.count + 1
      BY <2>2 DEF TypeOK, Word
    <3> QED
      BY <3>1, <3>2 DEF GateCountExact, Counted
  <2> QED
    BY <2>1, <2>2
<1>3. TokenPinsProject'
  BY DEF TokenPinsProject, TypeOK
<1>4. SingleOwner'
  BY DEF SingleOwner
<1>5. NoLostWakeup'
  BY DEF NoLostWakeup, TypeOK, Word
<1>6. GateFollowsOwner' /\ ProjectFollowsOwner'
  BY DEF GateFollowsOwner, ProjectFollowsOwner, Shut, TypeOK, Word
<1>7. SleepsOnTasks'
  BY DEF SleepsOnTasks
<1>8. QuietDestruction'
  BY DEF QuietDestruction, TypeOK
<1> QED
  BY <1>1, <1>2, <1>3, <1>4, <1>5, <1>6, <1>7, <1>8

(* The second look at the lifecycle.                                       *)
LEMMA SecondCheckKeeps ==
    ASSUME IndInv, NEW r \in Readers, SecondCheck(r)
    PROVE  IndInv'
<1> USE DEF IndInv, SecondCheck, GoR, gateVars, coordVars
<1>1. TypeOK'
  BY DEF TypeOK, ReaderPC
<1>2. GateCountExact'
  <2>1. \A q \in Readers : rpc'[q] \in Inside <=> rpc[q] \in Inside
    BY DEF TypeOK, Inside
  <2>2. Counted(rpc') = Counted(rpc)
    BY <2>1 DEF Counted
  <2> QED
    BY <2>2 DEF GateCountExact, Counted
<1>3. TokenPinsProject'
  BY DEF TokenPinsProject, TypeOK
<1>4. SingleOwner'
  BY DEF SingleOwner
<1>5. NoLostWakeup'
  BY DEF NoLostWakeup, TypeOK
<1>6. GateFollowsOwner' /\ ProjectFollowsOwner'
  BY DEF GateFollowsOwner, ProjectFollowsOwner
<1>7. SleepsOnTasks'
  BY DEF SleepsOnTasks
<1>8. QuietDestruction'
  BY DEF QuietDestruction, TypeOK
<1> QED
  BY <1>1, <1>2, <1>3, <1>4, <1>5, <1>6, <1>7, <1>8

(* acquire() hands the Project out.                                        *)
LEMMA BindKeeps ==
    ASSUME IndInv, NEW r \in Readers, Bind(r)
    PROVE  IndInv'
<1> USE DEF IndInv, Bind, GoR, gateVars, coordVars
<1>1. TypeOK'
  BY DEF TypeOK, ReaderPC
<1>2. GateCountExact'
  <2>1. \A q \in Readers : rpc'[q] \in Inside <=> rpc[q] \in Inside
    BY DEF TypeOK, Inside
  <2>2. Counted(rpc') = Counted(rpc)
    BY <2>1 DEF Counted
  <2> QED
    BY <2>2 DEF GateCountExact, Counted
<1>3. TokenPinsProject'
  BY DEF TokenPinsProject, TypeOK
<1>4. SingleOwner'
  BY DEF SingleOwner
<1>5. NoLostWakeup'
  BY DEF NoLostWakeup, TypeOK
<1>6. GateFollowsOwner' /\ ProjectFollowsOwner'
  BY DEF GateFollowsOwner, ProjectFollowsOwner
<1>7. SleepsOnTasks'
  BY DEF SleepsOnTasks
<1>8. QuietDestruction'
  BY DEF QuietDestruction, TypeOK
<1> QED
  BY <1>1, <1>2, <1>3, <1>4, <1>5, <1>6, <1>7, <1>8

(* A token is given back.                                                  *)
LEMMA ReleaseKeeps ==
    ASSUME IndInv, NEW r \in Readers, Release(r)
    PROVE  IndInv'
<1> USE DEF IndInv, Release, GoR, gateVars, coordVars
<1>1. TypeOK'
  BY DEF TypeOK, ReaderPC
<1>2. GateCountExact'
  <2>1. \A q \in Readers : rpc'[q] \in Inside <=> rpc[q] \in Inside
    BY DEF TypeOK, Inside
  <2>2. Counted(rpc') = Counted(rpc)
    BY <2>1 DEF Counted
  <2> QED
    BY <2>2 DEF GateCountExact, Counted
<1>3. TokenPinsProject'
  BY DEF TokenPinsProject, TypeOK
<1>4. SingleOwner'
  BY DEF SingleOwner
<1>5. NoLostWakeup'
  BY DEF NoLostWakeup, TypeOK
<1>6. GateFollowsOwner' /\ ProjectFollowsOwner'
  BY DEF GateFollowsOwner, ProjectFollowsOwner
<1>7. SleepsOnTasks'
  BY DEF SleepsOnTasks
<1>8. QuietDestruction'
  BY DEF QuietDestruction, TypeOK
<1> QED
  BY <1>1, <1>2, <1>3, <1>4, <1>5, <1>6, <1>7, <1>8

(* leave() lowers the count.                                               *)
LEMMA LeaveKeeps ==
    ASSUME IndInv, NEW r \in Readers, Leave(r)
    PROVE  IndInv'
<1> USE DEF IndInv, Leave, GoR, gateVars, coordVars
<1>1. TypeOK'
  <2>1. gate.count > 0
    BY CountedLeave DEF TypeOK, GateCountExact, Counted, Inside
  <2>2. gate' \in Word
    BY <2>1, LifecycleAssumption DEF TypeOK, Word
  <2> QED
    BY <2>2 DEF TypeOK, ReaderPC
<1>2. GateCountExact'
  <2>1. Cardinality(Counted(rpc')) = Cardinality(Counted(rpc)) - 1
    BY CountedLeave DEF TypeOK, Inside
  <2>2. gate'.count = gate.count - 1
    BY DEF TypeOK, Word
  <2> QED
    BY <2>1, <2>2 DEF GateCountExact, Counted
<1>3. TokenPinsProject'
  BY DEF TokenPinsProject, TypeOK
<1>4. SingleOwner'
  BY DEF SingleOwner
<1>5. NoLostWakeup'
  BY DEF NoLostWakeup, TypeOK, Word
<1>6. GateFollowsOwner' /\ ProjectFollowsOwner'
  <2>1. gate.count # 0
    BY NobodyInside DEF Inside
  <2> QED
    BY <2>1 DEF GateFollowsOwner, ProjectFollowsOwner, Shut, TypeOK, Word
<1>7. SleepsOnTasks'
  BY DEF SleepsOnTasks
<1>8. QuietDestruction'
  BY DEF QuietDestruction, TypeOK
<1> QED
  BY <1>1, <1>2, <1>3, <1>4, <1>5, <1>6, <1>7, <1>8

(* The last task to leave wakes wait_drained.                              *)
LEMMA LeaveNotifyKeeps ==
    ASSUME IndInv, NEW r \in Readers, LeaveNotify(r)
    PROVE  IndInv'
<1> USE DEF IndInv, LeaveNotify, GoR, Notified, gateVars
<1>1. TypeOK'
  BY DEF TypeOK, ReaderPC, CoordPC
<1>2. GateCountExact'
  <2>1. \A q \in Readers : rpc'[q] \in Inside <=> rpc[q] \in Inside
    BY DEF TypeOK, Inside
  <2>2. Counted(rpc') = Counted(rpc)
    BY <2>1 DEF Counted
  <2> QED
    BY <2>2 DEF GateCountExact, Counted
<1>3. TokenPinsProject'
  BY DEF TokenPinsProject, TypeOK
<1>4. SingleOwner'
  BY DEF SingleOwner, TypeOK, CoordPC, Building, Unloading
<1>5. NoLostWakeup'
  BY DEF NoLostWakeup, SleepsOnTasks, TypeOK, Word
<1>6. GateFollowsOwner'
  BY DEF GateFollowsOwner, TypeOK
<1>7. ProjectFollowsOwner'
  BY DEF ProjectFollowsOwner, TypeOK, Unloading
<1>8. SleepsOnTasks'
  BY DEF SleepsOnTasks, TypeOK
<1>9. QuietDestruction'
  BY DEF QuietDestruction, TypeOK
<1> QED
  BY <1>1, <1>2, <1>3, <1>4, <1>5, <1>6, <1>7, <1>8, <1>9

-----------------------------------------------------------------------------
(* Coordinators                                                            *)

(* reserve_construction wins the exchange.                                 *)
LEMMA ReserveKeeps ==
    ASSUME IndInv, NEW c \in Coordinators, Reserve(c)
    PROVE  IndInv'
<1> USE DEF IndInv, Reserve, GoC, gateVars, readerVars
<1>1. TypeOK'
  BY DEF TypeOK, CoordPC, States
<1>2. GateCountExact'
  BY DEF GateCountExact
<1>3. TokenPinsProject'
  BY DEF TokenPinsProject
<1>4. SingleOwner'
  BY DEF SingleOwner, TypeOK, CoordPC, Building, Unloading
<1>5. NoLostWakeup'
  BY DEF NoLostWakeup, TypeOK
<1>6. GateFollowsOwner'
  BY DEF GateFollowsOwner, SingleOwner, TypeOK, CoordPC, Building, Unloading
<1>7. ProjectFollowsOwner'
  BY DEF ProjectFollowsOwner, SingleOwner, TypeOK, CoordPC, Building, Unloading
<1>8. SleepsOnTasks'
  BY DEF SleepsOnTasks, TypeOK
<1>9. QuietDestruction'
  BY DEF QuietDestruction, TypeOK
<1> QED
  BY <1>1, <1>2, <1>3, <1>4, <1>5, <1>6, <1>7, <1>8, <1>9

(* The detached candidate is built, or is not.                             *)
LEMMA ConstructCandidateKeeps ==
    ASSUME IndInv, NEW c \in Coordinators, ConstructCandidate(c)
    PROVE  IndInv'
<1> USE DEF IndInv, ConstructCandidate, GoC, gateVars, readerVars
<1>1. TypeOK'
  BY DEF TypeOK, CoordPC, States
<1>2. GateCountExact'
  BY DEF GateCountExact
<1>3. TokenPinsProject'
  BY DEF TokenPinsProject
<1>4. SingleOwner'
  BY DEF SingleOwner, TypeOK, CoordPC, Building, Unloading
<1>5. NoLostWakeup'
  BY DEF NoLostWakeup, TypeOK
<1>6. GateFollowsOwner'
  BY DEF GateFollowsOwner, SingleOwner, TypeOK, CoordPC, Building, Unloading
<1>7. ProjectFollowsOwner'
  BY DEF ProjectFollowsOwner, SingleOwner, TypeOK, CoordPC, Building, Unloading
<1>8. SleepsOnTasks'
  BY DEF SleepsOnTasks, TypeOK
<1>9. QuietDestruction'
  BY DEF QuietDestruction, TypeOK
<1> QED
  BY <1>1, <1>2, <1>3, <1>4, <1>5, <1>6, <1>7, <1>8, <1>9

(* A failed construction puts the lifecycle back.                          *)
LEMMA AbandonConstructionKeeps ==
    ASSUME IndInv, NEW c \in Coordinators, AbandonConstruction(c)
    PROVE  IndInv'
<1> USE DEF IndInv, AbandonConstruction, GoC, gateVars, readerVars
<1>1. TypeOK'
  BY DEF TypeOK, CoordPC, States
<1>2. GateCountExact'
  BY DEF GateCountExact
<1>3. TokenPinsProject'
  <2>1. \A r \in Readers : rpc[r] \notin Inside
    BY NobodyInside DEF GateFollowsOwner, Shut
  <2> QED
    BY <2>1 DEF TokenPinsProject, Inside
<1>4. SingleOwner'
  BY DEF SingleOwner, TypeOK, CoordPC, Building, Unloading
<1>5. NoLostWakeup'
  BY DEF NoLostWakeup, TypeOK
<1>6. GateFollowsOwner'
  BY DEF GateFollowsOwner, SingleOwner, TypeOK, CoordPC, Building, Unloading
<1>7. ProjectFollowsOwner'
  BY DEF ProjectFollowsOwner, SingleOwner, TypeOK, CoordPC, Building, Unloading
<1>8. SleepsOnTasks'
  BY DEF SleepsOnTasks, TypeOK
<1>9. QuietDestruction'
  BY DEF QuietDestruction, TypeOK
<1> QED
  BY <1>1, <1>2, <1>3, <1>4, <1>5, <1>6, <1>7, <1>8, <1>9

(* The candidate becomes the Project.                                      *)
LEMMA AssignProjectKeeps ==
    ASSUME IndInv, NEW c \in Coordinators, AssignProject(c)
    PROVE  IndInv'
<1> USE DEF IndInv, AssignProject, GoC, gateVars, readerVars
<1>1. TypeOK'
  BY DEF TypeOK, CoordPC, States
<1>2. GateCountExact'
  BY DEF GateCountExact
<1>3. TokenPinsProject'
  <2>1. \A r \in Readers : rpc[r] \notin Inside
    BY NobodyInside DEF GateFollowsOwner, Shut
  <2> QED
    BY <2>1 DEF TokenPinsProject, Inside
<1>4. SingleOwner'
  BY DEF SingleOwner, TypeOK, CoordPC, Building, Unloading
<1>5. NoLostWakeup'
  BY DEF NoLostWakeup, TypeOK
<1>6. GateFollowsOwner'
  BY DEF GateFollowsOwner, SingleOwner, TypeOK, CoordPC, Building, Unloading
<1>7. ProjectFollowsOwner'
  <2>1. project' # None
    BY LifecycleAssumption DEF TypeOK
  <2> QED
    BY <2>1 DEF ProjectFollowsOwner, SingleOwner, TypeOK, CoordPC, Building, Unloading
<1>8. SleepsOnTasks'
  BY DEF SleepsOnTasks, TypeOK
<1>9. QuietDestruction'
  BY DEF QuietDestruction, TypeOK
<1> QED
  BY <1>1, <1>2, <1>3, <1>4, <1>5, <1>6, <1>7, <1>8, <1>9

(* The gate word is overwritten with zero.                                 *)
LEMMA OpenGateKeeps ==
    ASSUME IndInv, NEW c \in Coordinators, OpenGate(c)
    PROVE  IndInv'
<1> USE DEF IndInv, OpenGate, GoC, gateVars, readerVars, Notified
<1>1. TypeOK'
  <2>1. gate' \in Word
    BY LifecycleAssumption DEF Word
  <2> QED
    BY <2>1 DEF TypeOK, CoordPC
<1>2. GateCountExact'
  BY DEF GateCountExact, GateFollowsOwner, Shut
<1>3. TokenPinsProject'
  BY DEF TokenPinsProject
<1>4. SingleOwner'
  BY DEF SingleOwner, TypeOK, CoordPC, Building, Unloading
<1>5. NoLostWakeup'
  <2>1. \A d \in Coordinators \ {c} : cpc[d] = "idle"
    BY DEF SingleOwner
  <2> QED
    BY <2>1 DEF NoLostWakeup, TypeOK
<1>6. GateFollowsOwner'
  <2>1. \A d \in Coordinators \ {c} : cpc[d] = "idle"
    BY DEF SingleOwner
  <2>2. lifecycle = "constructing" /\ manager = "alive"
    BY DEF SingleOwner, Building, QuietDestruction
  <2>3. ~gate'.closed
    OBVIOUS
  <2> QED
    BY <2>1, <2>2, <2>3 DEF GateFollowsOwner, TypeOK
<1>7. ProjectFollowsOwner'
  BY DEF ProjectFollowsOwner, SingleOwner, TypeOK, CoordPC, Building, Unloading
<1>8. SleepsOnTasks'
  BY DEF SleepsOnTasks, TypeOK
<1>9. QuietDestruction'
  BY DEF QuietDestruction, TypeOK
<1> QED
  BY <1>1, <1>2, <1>3, <1>4, <1>5, <1>6, <1>7, <1>8, <1>9

(* The Project is announced.                                               *)
LEMMA PublishReadyKeeps ==
    ASSUME IndInv, NEW c \in Coordinators, PublishReady(c)
    PROVE  IndInv'
<1> USE DEF IndInv, PublishReady, GoC, gateVars, readerVars
<1>1. TypeOK'
  BY DEF TypeOK, CoordPC, States
<1>2. GateCountExact'
  BY DEF GateCountExact
<1>3. TokenPinsProject'
  BY DEF TokenPinsProject
<1>4. SingleOwner'
  BY DEF SingleOwner, TypeOK, CoordPC, Building, Unloading
<1>5. NoLostWakeup'
  BY DEF NoLostWakeup, TypeOK
<1>6. GateFollowsOwner'
  BY DEF GateFollowsOwner, SingleOwner, TypeOK, CoordPC, Building, Unloading
<1>7. ProjectFollowsOwner'
  BY DEF ProjectFollowsOwner, SingleOwner, TypeOK, CoordPC, Building, Unloading
<1>8. SleepsOnTasks'
  BY DEF SleepsOnTasks, TypeOK
<1>9. QuietDestruction'
  BY DEF QuietDestruction, TypeOK
<1> QED
  BY <1>1, <1>2, <1>3, <1>4, <1>5, <1>6, <1>7, <1>8, <1>9

(* unload() wins the exchange.                                             *)
LEMMA UnloadReserveKeeps ==
    ASSUME IndInv, NEW c \in Coordinators, UnloadReserve(c)
    PROVE  IndInv'
<1> USE DEF IndInv, UnloadReserve, GoC, gateVars, readerVars
<1>1. TypeOK'
  BY DEF TypeOK, CoordPC, States
<1>2. GateCountExact'
  BY DEF GateCountExact
<1>3. TokenPinsProject'
  BY DEF TokenPinsProject
<1>4. SingleOwner'
  BY DEF SingleOwner, TypeOK, CoordPC, Building, Unloading
<1>5. NoLostWakeup'
  BY DEF NoLostWakeup, TypeOK
<1>6. GateFollowsOwner'
  BY DEF GateFollowsOwner, SingleOwner, TypeOK, CoordPC, Building, Unloading
<1>7. ProjectFollowsOwner'
  BY DEF ProjectFollowsOwner, SingleOwner, TypeOK, CoordPC, Building, Unloading
<1>8. SleepsOnTasks'
  BY DEF SleepsOnTasks, TypeOK
<1>9. QuietDestruction'
  BY DEF QuietDestruction, TypeOK
<1> QED
  BY <1>1, <1>2, <1>3, <1>4, <1>5, <1>6, <1>7, <1>8, <1>9

(* Admission ends.                                                         *)
LEMMA CloseGateKeeps ==
    ASSUME IndInv, NEW c \in Coordinators, CloseGate(c)
    PROVE  IndInv'
<1> USE DEF IndInv, CloseGate, GoC, gateVars, readerVars, Notified
<1>1. TypeOK'
  <2>1. gate' \in Word
    BY DEF TypeOK, Word
  <2> QED
    BY <2>1 DEF TypeOK, CoordPC
<1>2. GateCountExact'
  BY DEF GateCountExact, TypeOK, Word
<1>3. TokenPinsProject'
  BY DEF TokenPinsProject
<1>4. SingleOwner'
  BY DEF SingleOwner, TypeOK, CoordPC, Building, Unloading
<1>5. NoLostWakeup'
  BY DEF NoLostWakeup, TypeOK
<1>6. GateFollowsOwner'
  BY DEF GateFollowsOwner, SingleOwner, TypeOK, CoordPC, Building, Unloading, Shut, Word
<1>7. ProjectFollowsOwner'
  BY DEF ProjectFollowsOwner, SingleOwner, TypeOK, CoordPC, Building, Unloading
<1>8. SleepsOnTasks'
  BY DEF SleepsOnTasks, TypeOK
<1>9. QuietDestruction'
  BY DEF QuietDestruction, TypeOK
<1> QED
  BY <1>1, <1>2, <1>3, <1>4, <1>5, <1>6, <1>7, <1>8, <1>9

(* The tasks are asked to stop, if anyone listens.                         *)
LEMMA RequestStopKeeps ==
    ASSUME IndInv, NEW c \in Coordinators, RequestStop(c)
    PROVE  IndInv'
<1> USE DEF IndInv, RequestStop, GoC, gateVars, readerVars
<1>1. TypeOK'
  BY DEF TypeOK, CoordPC, States
<1>2. GateCountExact'
  BY DEF GateCountExact
<1>3. TokenPinsProject'
  BY DEF TokenPinsProject
<1>4. SingleOwner'
  BY DEF SingleOwner, TypeOK, CoordPC, Building, Unloading
<1>5. NoLostWakeup'
  BY DEF NoLostWakeup, TypeOK
<1>6. GateFollowsOwner'
  BY DEF GateFollowsOwner, SingleOwner, TypeOK, CoordPC, Building, Unloading
<1>7. ProjectFollowsOwner'
  BY DEF ProjectFollowsOwner, SingleOwner, TypeOK, CoordPC, Building, Unloading
<1>8. SleepsOnTasks'
  BY DEF SleepsOnTasks, TypeOK
<1>9. QuietDestruction'
  BY DEF QuietDestruction, TypeOK
<1> QED
  BY <1>1, <1>2, <1>3, <1>4, <1>5, <1>6, <1>7, <1>8, <1>9

(* wait_drained loads the gate word.                                       *)
LEMMA DrainLoadKeeps ==
    ASSUME IndInv, NEW c \in Coordinators, DrainLoad(c)
    PROVE  IndInv'
<1> USE DEF IndInv, DrainLoad, GoC, gateVars, readerVars
<1>1. TypeOK'
  BY DEF TypeOK, CoordPC, States
<1>2. GateCountExact'
  BY DEF GateCountExact
<1>3. TokenPinsProject'
  BY DEF TokenPinsProject
<1>4. SingleOwner'
  BY DEF SingleOwner, TypeOK, CoordPC, Building, Unloading
<1>5. NoLostWakeup'
  BY DEF NoLostWakeup, TypeOK
<1>6. GateFollowsOwner'
  BY DEF GateFollowsOwner, SingleOwner, TypeOK, CoordPC, Building, Unloading, Shut, Word
<1>7. ProjectFollowsOwner'
  BY DEF ProjectFollowsOwner, SingleOwner, TypeOK, CoordPC, Building, Unloading
<1>8. SleepsOnTasks'
  BY DEF SleepsOnTasks, TypeOK
<1>9. QuietDestruction'
  BY DEF QuietDestruction, TypeOK
<1> QED
  BY <1>1, <1>2, <1>3, <1>4, <1>5, <1>6, <1>7, <1>8, <1>9

(* wait_drained goes to sleep, or loads again.                             *)
LEMMA DrainWaitKeeps ==
    ASSUME IndInv, NEW c \in Coordinators, DrainWait(c)
    PROVE  IndInv'
<1> USE DEF IndInv, DrainWait, GoC, gateVars, readerVars
<1>1. TypeOK'
  BY DEF TypeOK, CoordPC, States
<1>2. GateCountExact'
  BY DEF GateCountExact
<1>3. TokenPinsProject'
  BY DEF TokenPinsProject
<1>4. SingleOwner'
  BY DEF SingleOwner, TypeOK, CoordPC, Building, Unloading
<1>5. NoLostWakeup'
  BY DEF NoLostWakeup, SleepsOnTasks, TypeOK
<1>6. GateFollowsOwner'
  BY DEF GateFollowsOwner, SingleOwner, TypeOK, CoordPC, Building, Unloading
<1>7. ProjectFollowsOwner'
  BY DEF ProjectFollowsOwner, SingleOwner, TypeOK, CoordPC, Building, Unloading
<1>8. SleepsOnTasks'
  BY DEF SleepsOnTasks, TypeOK
<1>9. QuietDestruction'
  BY DEF QuietDestruction, TypeOK
<1> QED
  BY <1>1, <1>2, <1>3, <1>4, <1>5, <1>6, <1>7, <1>8, <1>9

(* The Project is destroyed.                                               *)
LEMMA DestroyProjectKeeps ==
    ASSUME IndInv, NEW c \in Coordinators, DestroyProject(c)
    PROVE  IndInv'
<1> USE DEF IndInv, DestroyProject, GoC, gateVars, readerVars
<1>1. TypeOK'
  BY DEF TypeOK, CoordPC, States
<1>2. GateCountExact'
  BY DEF GateCountExact
<1>3. TokenPinsProject'
  <2>1. \A r \in Readers : rpc[r] \notin Inside
    BY NobodyInside DEF GateFollowsOwner, Shut
  <2> QED
    BY <2>1 DEF TokenPinsProject, Inside
<1>4. SingleOwner'
  BY DEF SingleOwner, TypeOK, CoordPC, Building, Unloading
<1>5. NoLostWakeup'
  BY DEF NoLostWakeup, TypeOK
<1>6. GateFollowsOwner'
  BY DEF GateFollowsOwner, SingleOwner, TypeOK, CoordPC, Building, Unloading
<1>7. ProjectFollowsOwner'
  BY DEF ProjectFollowsOwner, SingleOwner, TypeOK, CoordPC, Building, Unloading
<1>8. SleepsOnTasks'
  BY DEF SleepsOnTasks, TypeOK
<1>9. QuietDestruction'
  BY DEF QuietDestruction, TypeOK
<1> QED
  BY <1>1, <1>2, <1>3, <1>4, <1>5, <1>6, <1>7, <1>8, <1>9

(* The lifecycle is UNLOADED again.                                        *)
LEMMA UnloadFinishKeeps ==
    ASSUME IndInv, NEW c \in Coordinators, UnloadFinish(c)
    PROVE  IndInv'
<1> USE DEF IndInv, UnloadFinish, GoC, gateVars, readerVars
<1>1. TypeOK'
  BY DEF TypeOK, CoordPC, States
<1>2. GateCountExact'
  BY DEF GateCountExact
<1>3. TokenPinsProject'
  BY DEF TokenPinsProject
<1>4. SingleOwner'
  BY DEF SingleOwner, TypeOK, CoordPC, Building, Unloading
<1>5. NoLostWakeup'
  BY DEF NoLostWakeup, TypeOK
<1>6. GateFollowsOwner'
  BY DEF GateFollowsOwner, SingleOwner, TypeOK, CoordPC, Building, Unloading
<1>7. ProjectFollowsOwner'
  BY DEF ProjectFollowsOwner, SingleOwner, TypeOK, CoordPC, Building, Unloading
<1>8. SleepsOnTasks'
  BY DEF SleepsOnTasks, TypeOK
<1>9. QuietDestruction'
  BY DEF QuietDestruction, TypeOK
<1> QED
  BY <1>1, <1>2, <1>3, <1>4, <1>5, <1>6, <1>7, <1>8, <1>9

-----------------------------------------------------------------------------
(* The owner of the manager                                                *)

(* ~project_manager closes the gate.                                       *)
LEMMA DestructorCloseKeeps ==
    ASSUME IndInv, DestructorClose
    PROVE  IndInv'
<1> USE DEF IndInv, DestructorClose, readerVars, coordVars
<1>1. TypeOK'
  BY DEF TypeOK, Word
<1>2. GateCountExact'
  BY DEF GateCountExact, TypeOK, Word
<1>3. TokenPinsProject'
  BY DEF TokenPinsProject
<1>4. SingleOwner'
  BY DEF SingleOwner
<1>5. NoLostWakeup'
  BY DEF NoLostWakeup
<1>6. GateFollowsOwner'
  <2>1. gate'.closed
    BY DEF TypeOK, Word
  <2>2. gate = Shut => gate' = Shut
    <3> HAVE gate = Shut
    <3>1. gate' = [Shut EXCEPT !.closed = TRUE]
      OBVIOUS
    <3> QED
      BY <3>1 DEF Shut
  <2> QED
    BY <2>1, <2>2 DEF GateFollowsOwner
<1>7. ProjectFollowsOwner'
  BY DEF ProjectFollowsOwner, Unloading
<1>8. SleepsOnTasks'
  BY DEF SleepsOnTasks
<1>9. QuietDestruction'
  BY DEF QuietDestruction, TypeOK
<1> QED
  BY <1>1, <1>2, <1>3, <1>4, <1>5, <1>6, <1>7, <1>8, <1>9

(* ~project_manager destroys the Project, or terminates.                   *)
LEMMA DestructorDestroyKeeps ==
    ASSUME IndInv, DestructorDestroy
    PROVE  IndInv'
<1> USE DEF IndInv, DestructorDestroy, readerVars, coordVars
<1>1. TypeOK'
  BY DEF TypeOK, States
<1>2. GateCountExact'
  BY DEF GateCountExact
<1>3. TokenPinsProject'
  <2>1. CASE gate.count # 0
    BY <2>1 DEF TokenPinsProject
  <2>2. CASE gate.count = 0
    BY <2>2, NobodyInside DEF TokenPinsProject, Inside
  <2> QED
    BY <2>1, <2>2
<1>4. SingleOwner'
  BY DEF SingleOwner, QuietDestruction, Building, Unloading
<1>5. NoLostWakeup'
  BY DEF NoLostWakeup
<1>6. GateFollowsOwner'
  BY DEF GateFollowsOwner, TypeOK, Word, Shut, QuietDestruction
<1>7. ProjectFollowsOwner'
  BY DEF ProjectFollowsOwner, Unloading, QuietDestruction
<1>8. SleepsOnTasks'
  BY DEF SleepsOnTasks
<1>9. QuietDestruction'
  BY DEF QuietDestruction, TypeOK
<1> QED
  BY <1>1, <1>2, <1>3, <1>4, <1>5, <1>6, <1>7, <1>8, <1>9

(* Every step of the system keeps the inductive invariant.                 *)
LEMMA NextIndInv == IndInv /\ [Next]_vars => IndInv'
<1> SUFFICES ASSUME IndInv, [Next]_vars PROVE IndInv'
  OBVIOUS
<1>1. ASSUME NEW r \in Readers, AcquireReset(r) \/ ReaderStep(r) \/ Release(r)
      PROVE  IndInv'
  BY <1>1, AcquireResetKeeps, FirstCheckKeeps, EnterLoadKeeps, EnterRefusedKeeps,
     EnterCasKeeps, SecondCheckKeeps, BindKeeps, ReleaseKeeps, LeaveKeeps,
     LeaveNotifyKeeps
     DEF ReaderStep
<1>2. ASSUME NEW c \in Coordinators,
             Reserve(c) \/ ConstructStep(c) \/ UnloadReserve(c) \/ UnloadStep(c)
      PROVE  IndInv'
  BY <1>2, ReserveKeeps, ConstructCandidateKeeps, AbandonConstructionKeeps,
     AssignProjectKeeps, OpenGateKeeps, PublishReadyKeeps, UnloadReserveKeeps,
     CloseGateKeeps, RequestStopKeeps, DrainLoadKeeps, DrainWaitKeeps,
     DestroyProjectKeeps, UnloadFinishKeeps
     DEF ConstructStep, UnloadStep
<1>3. CASE UNCHANGED vars
  BY <1>3 DEF vars, IndInv, TypeOK, GateCountExact, TokenPinsProject, SingleOwner,
     NoLostWakeup, GateFollowsOwner, ProjectFollowsOwner, SleepsOnTasks, QuietDestruction
<1> QED
  BY <1>1, <1>2, <1>3, DestructorCloseKeeps, DestructorDestroyKeeps DEF Next, Stopped

(* The inductive invariant holds in every reachable state.                 *)
THEOREM IndInvHolds == Spec => []IndInv
  BY InitIndInv, NextIndInv, PTL DEF Spec

(* Type correctness: the task count never reaches the CLOSED bit.          *)
THEOREM TypeCorrect == Spec => []TypeOK
  BY IndInvHolds, PTL DEF IndInv

(* The count in the gate word is always the number of tasks inside.        *)
THEOREM GateCount == Spec => []GateCountExact
  BY IndInvHolds, PTL DEF IndInv

(* No task ever reads a Project that unload or the destructor has freed.   *)
THEOREM TokenSafety == Spec => []TokenPinsProject
  BY IndInvHolds, PTL DEF IndInv

(* One coordinator at a time constructs or unloads.                        *)
THEOREM Ownership == Spec => []SingleOwner
  BY IndInvHolds, PTL DEF IndInv

(* wait_drained never misses the departure of the last task.               *)
THEOREM DrainWakeup == Spec => []NoLostWakeup
  BY IndInvHolds, PTL DEF IndInv

-----------------------------------------------------------------------------
(* Refinement of ReadyProject                                              *)

Tokens   == {r \in Readers : rpc[r] \in {"bind", "holding"}}
Current  == IF lifecycle \in {"ready", "draining"} THEN project ELSE None
Admitted == lifecycle = "ready" /\ ~gate.closed

(* Every step of a task is a grant, a return of a token, or invisible.     *)
LEMMA ReaderRefines ==
    ASSUME IndInv, NEW r \in Readers, AcquireReset(r) \/ ReaderStep(r) \/ Release(r)
    PROVE  [Ready!Next]_(Ready!vars)
<1> USE DEF IndInv, GoR, gateVars, coordVars
<1>1. gate'.closed = gate.closed /\ lifecycle' = lifecycle /\ project' = project
  BY DEF AcquireReset, Release, ReaderStep, FirstCheck, EnterLoad, EnterRefused,
     EnterCas, SecondCheck, Bind, Leave, LeaveNotify, TypeOK, Word
<1>2. Current' = Current /\ Admitted' = Admitted
  BY <1>1 DEF Current, Admitted
<1>3. CASE Tokens' = Tokens
  BY <1>2, <1>3 DEF Ready!vars, Current, Admitted, Tokens
<1>4. CASE SecondCheck(r) /\ rpc' = [rpc EXCEPT ![r] = "bind"]
  <2>1. Tokens' = Tokens \cup {r} /\ r \notin Tokens
    BY <1>4 DEF Tokens, TypeOK, SecondCheck
  <2>2. lifecycle = "ready"
    BY <1>4 DEF SecondCheck, TypeOK
  <2>3. manager = "alive"
    BY <1>4 DEF SecondCheck, QuietDestruction
  <2>4. Admitted
    BY <2>2, <2>3 DEF GateFollowsOwner, Admitted
  <2> QED
    BY <1>2, <2>1, <2>4 DEF Ready!Next, Ready!Grant, Current, Admitted, Tokens
<1>5. CASE rpc[r] \in {"bind", "holding"} /\ rpc' = [rpc EXCEPT ![r] = "leave"]
  <2>1. Tokens' = Tokens \ {r} /\ r \in Tokens
    BY <1>5 DEF Tokens, TypeOK
  <2> QED
    BY <1>2, <2>1 DEF Ready!Next, Ready!Release, Current, Admitted, Tokens
<1>6. \/ Tokens' = Tokens
      \/ SecondCheck(r) /\ rpc' = [rpc EXCEPT ![r] = "bind"]
      \/ rpc[r] \in {"bind", "holding"} /\ rpc' = [rpc EXCEPT ![r] = "leave"]
  <2>1. CASE AcquireReset(r) \/ Release(r)
    BY <2>1 DEF AcquireReset, Release, Tokens, TypeOK
  <2>2. CASE FirstCheck(r) \/ EnterLoad(r) \/ EnterRefused(r) \/ EnterCas(r)
    BY <2>2 DEF FirstCheck, EnterLoad, EnterRefused, EnterCas, Tokens, TypeOK
  <2>3. CASE SecondCheck(r) \/ Bind(r)
    BY <2>3 DEF SecondCheck, Bind, Tokens, TypeOK
  <2>4. CASE Leave(r) \/ LeaveNotify(r)
    BY <2>4 DEF Leave, LeaveNotify, Tokens, TypeOK
  <2> QED
    BY <2>1, <2>2, <2>3, <2>4 DEF ReaderStep
<1> QED
  BY <1>3, <1>4, <1>5, <1>6

(* Every step of a construction is invisible until `ready' is stored.      *)
LEMMA ConstructRefines ==
    ASSUME IndInv, NEW c \in Coordinators, Reserve(c) \/ ConstructStep(c)
    PROVE  [Ready!Next]_(Ready!vars)
<1> USE DEF IndInv, GoC, gateVars, readerVars
<1>1. Tokens' = Tokens
  BY DEF Reserve, ConstructStep, ConstructCandidate, AbandonConstruction,
     AssignProject, OpenGate, PublishReady, Tokens
<1>2. CASE PublishReady(c)
  <2>1. lifecycle = "constructing" /\ lifecycle' = "ready" /\ project' = project
    BY <1>2 DEF PublishReady, SingleOwner, Building
  <2>2. ~gate'.closed /\ project \in Nat
    BY <1>2 DEF PublishReady, GateFollowsOwner, ProjectFollowsOwner, TypeOK
  <2>3. Current = None /\ Current' \in Nat /\ Admitted'
    BY <2>1, <2>2 DEF Current, Admitted
  <2> QED
    BY <1>1, <2>3 DEF Ready!Next, Ready!Publish, Current, Admitted, Tokens
<1>3. CASE ~PublishReady(c)
  <2>1. lifecycle \notin {"ready", "draining"} /\ lifecycle' \notin {"ready", "draining"}
    BY <1>3 DEF Reserve, ConstructStep, ConstructCandidate, AbandonConstruction,
       AssignProject, OpenGate, SingleOwner, Building
  <2>2. Current' = Current /\ Admitted' = Admitted
    BY <2>1 DEF Current, Admitted
  <2> QED
    BY <1>1, <2>2 DEF Ready!vars, Current, Admitted, Tokens
<1> QED
  BY <1>2, <1>3

(* unload() closes admission with its exchange and retires the Project     *)
(* with reset(); its other steps are invisible.                            *)
LEMMA UnloadRefines ==
    ASSUME IndInv, NEW c \in Coordinators, UnloadReserve(c) \/ UnloadStep(c)
    PROVE  [Ready!Next]_(Ready!vars)
<1> USE DEF IndInv, GoC, gateVars, readerVars
<1>1. Tokens' = Tokens
  BY DEF UnloadReserve, UnloadStep, CloseGate, RequestStop, DrainLoad, DrainWait,
     DestroyProject, UnloadFinish, Tokens
<1>2. CASE UnloadReserve(c)
  <2>1. Admitted /\ ~Admitted' /\ Current' = Current
    BY <1>2 DEF UnloadReserve, GateFollowsOwner, Admitted, Current
  <2> QED
    BY <1>1, <2>1 DEF Ready!Next, Ready!Close, Current, Admitted, Tokens
<1>3. CASE DestroyProject(c)
  <2>1. lifecycle = "draining" /\ lifecycle' = "draining" /\ gate = Shut /\ project # None
    BY <1>3 DEF DestroyProject, SingleOwner, Unloading, GateFollowsOwner, ProjectFollowsOwner
  <2>2. Tokens = {}
    BY <2>1, NobodyInside DEF Shut, Tokens, Inside
  <2>3. Current # None /\ Current' = None /\ ~Admitted /\ ~Admitted'
    BY <1>3, <2>1 DEF DestroyProject, Current, Admitted
  <2> QED
    BY <1>1, <2>2, <2>3 DEF Ready!Next, Ready!Retire, Current, Admitted, Tokens
<1>4. CASE UnloadFinish(c)
  <2>1. lifecycle = "draining" /\ lifecycle' = "unloaded" /\ project = None
    BY <1>4 DEF UnloadFinish, SingleOwner, Unloading, ProjectFollowsOwner
  <2>2. Current' = Current /\ Admitted' = Admitted
    BY <2>1 DEF Current, Admitted
  <2> QED
    BY <1>1, <2>2 DEF Ready!vars, Current, Admitted, Tokens
<1>5. CASE CloseGate(c) \/ RequestStop(c) \/ DrainLoad(c) \/ DrainWait(c)
  <2>1. lifecycle = "draining" /\ lifecycle' = "draining" /\ project' = project
    BY <1>5 DEF CloseGate, RequestStop, DrainLoad, DrainWait, SingleOwner, Unloading
  <2>2. Current' = Current /\ Admitted' = Admitted
    BY <2>1 DEF Current, Admitted
  <2> QED
    BY <1>1, <2>2 DEF Ready!vars, Current, Admitted, Tokens
<1> QED
  BY <1>2, <1>3, <1>4, <1>5 DEF UnloadStep

(* The destructor closes admission, then retires the Project.              *)
LEMMA DestructorRefines ==
    ASSUME IndInv, DestructorClose \/ DestructorDestroy
    PROVE  [Ready!Next]_(Ready!vars)
<1> USE DEF IndInv, readerVars, coordVars
<1>1. Tokens' = Tokens
  BY DEF DestructorClose, DestructorDestroy, Tokens
<1>2. CASE DestructorClose
  <2>1. Current' = Current /\ ~Admitted'
    BY <1>2 DEF DestructorClose, Current, Admitted, TypeOK, Word
  <2>2. CASE Admitted
    BY <1>1, <2>1, <2>2 DEF Ready!Next, Ready!Close, Current, Admitted, Tokens
  <2>3. CASE ~Admitted
    <3>1. Admitted' = Admitted
      BY <2>1, <2>3 DEF Admitted
    <3> QED
      BY <1>1, <2>1, <3>1 DEF Ready!vars, Current, Admitted, Tokens
  <2> QED
    BY <2>2, <2>3
<1>3. CASE DestructorDestroy
  <2>1. ~Admitted /\ Admitted' = Admitted
    BY <1>3 DEF DestructorDestroy, GateFollowsOwner, Admitted
  <2>2. CASE Current' = Current
    BY <1>1, <2>1, <2>2 DEF Ready!vars, Current, Admitted, Tokens
  <2>3. CASE Current' # Current
    <3>1. gate.count = 0 /\ Current' = None
      BY <1>3, <2>3 DEF DestructorDestroy, Current
    <3>2. Tokens = {}
      BY <3>1, NobodyInside DEF Tokens, Inside
    <3> QED
      BY <1>1, <2>1, <2>3, <3>1, <3>2
         DEF Ready!Next, Ready!Retire, Current, Admitted, Tokens
  <2> QED
    BY <2>2, <2>3
<1> QED
  BY <1>2, <1>3

(* Tokens, admission and retirement happen as ReadyProject specifies them: *)
(* a Project is retired only with admission closed and no token out, and a *)
(* token is granted only while READY is published.                         *)
THEOREM Refinement == Spec => ImplementsReady
<1>1. Init => Ready!Init
  BY DEF Init, Shut, Ready!Init
<1>2. IndInv /\ [Next]_vars => [Ready!Next]_(Ready!vars)
  <2> SUFFICES ASSUME IndInv, [Next]_vars PROVE [Ready!Next]_(Ready!vars)
    OBVIOUS
  <2>1. CASE UNCHANGED vars
    BY <2>1 DEF vars, Ready!vars
  <2> QED
    BY <2>1, ReaderRefines, ConstructRefines, UnloadRefines, DestructorRefines
       DEF Next, Stopped
<1> QED
  BY <1>1, <1>2, IndInvHolds, PTL DEF Spec, ImplementsReady, Ready!Spec
=============================================================================
