------------------------ MODULE BaselineStore_proofs ------------------------
(***************************************************************************)
(* The baseline store survives crashes and power losses, its snapshots     *)
(* stay coherent and its committed transactions immutable: for any number  *)
(* of Projects sharing it, any files and any number of commits and faults. *)
(***************************************************************************)
EXTENDS BaselineStore, TLAPS

(* The inode holds the bytes of the transaction that created it, synced.   *)
Full(t, f) == inode[t][f] = [from |-> t, synced |-> TRUE]

(* Name f of transaction t can be opened and its inode is full.            *)
Done(t, f) == entry[t][f] # NoTx /\ Full(entry[t][f], f)

Stored(t) == t \in live /\ \A f \in Layout(t) : Done(t, f)

Durable(t) == Stored(t) /\ t \in rootDurable /\ t \in dirDurable

(* An inode is blank or full with its creator's bytes: nobody writes the   *)
(* inode of another transaction, and none is written twice.                *)
InodesWhole ==
    \A t \in Tx : \A f \in Files :
        /\ inode[t][f] = Blank \/ Full(t, f)
        /\ t > used => inode[t][f] = Blank

(* A directory that does not exist has no names.  A name that is a link    *)
(* is a section, and its inode is full with the same section contents.     *)
NamesWhole ==
    \A t \in Tx : \A f \in Files :
        /\ t \notin live => entry[t][f] = NoTx
        /\ entry[t][f] \notin {NoTx, t} =>
             /\ f \in Sections
             /\ Full(entry[t][f], f)
             /\ payload[entry[t][f]][f] = payload[t][f]

(* What is known of the transaction of a commit at each position.          *)
CommitPositions ==
    \A p \in Clients :
        /\ tx[p] # NoTx <=> pc[p] \notin {"idle", "create"}
        /\ tx[p] # NoTx => tx[p] \in live
        /\ pc[p] # "artifacts" => todo[p] = {} /\ writing[p] = {}
        /\ pc[p] \in {"artifacts", "flush_tx", "flush_root", "replace", "cleanup"} =>
             /\ tx[p] \notin onDisk \cup {current}
             /\ \A q \in Clients : pin[q] # tx[p]
        /\ pc[p] \in {"flush_tx", "flush_root", "replace"} => Stored(tx[p])
        /\ pc[p] \in {"flush_root", "replace"} => tx[p] \in dirDurable
        /\ pc[p] = "replace" => tx[p] \in rootDurable

Pending(p, f) == f \in todo[p] \cup writing[p]

(* The artifact tasks: what is not opened has no name and no bytes, what   *)
(* is being written has a name and no bytes, and unless a task failed the  *)
(* rest is done.                                                           *)
ArtifactTasks ==
    \A p \in Clients : pc[p] = "artifacts" =>
        /\ \A f \in todo[p] : entry[tx[p]][f] = NoTx /\ inode[tx[p]][f] = Blank
        /\ \A f \in writing[p] : entry[tx[p]][f] = tx[p] /\ inode[tx[p]][f] = Blank
        /\ todo[p] \cap Sections # {} =>
             /\ Packed \notin todo[p]
             /\ entry[tx[p]][Packed] = NoTx
             /\ inode[tx[p]][Packed] = Blank
        /\ ~failed[p] =>
             /\ \A f \in Plain : Pending(p, f) \/ Done(tx[p], f)
             /\ \/ Pending(p, Packed) \/ Done(tx[p], Packed)
                \/ /\ entry[tx[p]][Packed] = NoTx
                   /\ \A s \in Sections : Pending(p, s) \/ Done(tx[p], s)

(* What a selector names is durable; a pinned transaction is durable while *)
(* its directory exists.                                                   *)
SelectedDurable ==
    /\ \A t \in onDisk \cup {current} : t # NoTx => Durable(t)
    /\ \A p \in Clients : pin[p] # NoTx =>
         /\ pin[p] \in 1..used
         /\ pin[p] \in live => Durable(pin[p])

(* A mapping keeps an inode of its snapshot's bytes.                       *)
MapsWhole ==
    \A p \in Clients : \A f \in Files : mapped[p][f] # NoTx =>
        /\ pin[p] # NoTx
        /\ Full(mapped[p][f], f)
        /\ SameBytes(mapped[p][f], pin[p], f)

(* A collection runs beside no commit and keeps what is selected and what  *)
(* its caller pinned.                                                      *)
CollectionCold ==
    collector.on =>
        /\ \A p \in Clients : pc[p] = "idle"
        /\ onDisk = {current}
        /\ current \in collector.keep
        /\ \A p \in collector.by : pin[p] \in collector.keep \cup {NoTx}

IndInv ==
    /\ TypeOK
    /\ InodesWhole
    /\ NamesWhole
    /\ CommitPositions
    /\ ArtifactTasks
    /\ SelectedDurable
    /\ MapsWhole
    /\ CollectionCold

-----------------------------------------------------------------------------
(* Types                                                                   *)

StoreType ==
    /\ used \in 0..MaxTx
    /\ live \subseteq 1..used
    /\ current \in Tx \cup {NoTx}
    /\ onDisk \subseteq Tx \cup {NoTx}
    /\ rootDurable \subseteq Tx
    /\ dirDurable \subseteq Tx
    /\ faults \in 0..MaxFaults
    /\ payload \in [Tx -> [Sections -> Values]]

CollectorType ==
    collector \in [on : BOOLEAN, by : SUBSET Clients, keep : SUBSET (Tx \cup {NoTx}),
                   visit : SUBSET Tx]

FilesType ==
    /\ entry \in [Tx -> [Files -> Tx \cup {NoTx}]]
    /\ inode \in [Tx -> [Files -> [from : Tx \cup {NoTx}, synced : BOOLEAN]]]

CommitType ==
    /\ pc \in [Clients -> {"idle", "create", "artifacts", "flush_tx", "flush_root",
                           "replace", "final_flush", "cleanup"}]
    /\ tx \in [Clients -> Tx \cup {NoTx}]
    /\ prev \in [Clients -> Tx \cup {NoTx}]
    /\ todo \in [Clients -> SUBSET Files]
    /\ writing \in [Clients -> SUBSET Files]
    /\ failed \in [Clients -> BOOLEAN]

OneWriter == \A p, q \in Clients : p # q => tx[p] # tx[q] \/ tx[p] = NoTx

SnapshotType ==
    /\ pin \in [Clients -> Tx \cup {NoTx}]
    /\ mapped \in [Clients -> [Files -> Tx \cup {NoTx}]]

(* The type invariant, by parts, before a step and after it.               *)
LEMMA TypeParts ==
    /\ TypeOK <=> /\ StoreType /\ CollectorType /\ FilesType /\ CommitType /\ OneWriter
                  /\ SnapshotType
    /\ TypeOK' <=> /\ StoreType' /\ CollectorType' /\ FilesType' /\ CommitType' /\ OneWriter'
                   /\ SnapshotType'
<1>1. StoreType => live \subseteq Tx
  BY StoreAssumption DEF StoreType, Tx
<1>2. StoreType' => live' \subseteq Tx
  BY StoreAssumption DEF StoreType, Tx
<1>3. TypeOK <=> /\ StoreType /\ CollectorType /\ FilesType /\ CommitType /\ OneWriter
                 /\ SnapshotType
  BY <1>1 DEF TypeOK, StoreType, CollectorType, FilesType, CommitType, OneWriter, SnapshotType
<1>4. TypeOK' <=> /\ StoreType' /\ CollectorType' /\ FilesType' /\ CommitType' /\ OneWriter'
                  /\ SnapshotType'
  BY <1>2 DEF TypeOK, StoreType, CollectorType, FilesType, CommitType, OneWriter, SnapshotType
<1> QED BY <1>3, <1>4

(* The steps of a commit, those of a snapshot, and the rest.               *)
LEMMA Steps ==
    ASSUME [Next]_vars
    PROVE  \/ \E p \in Clients : CommitStep(p)
           \/ \E p \in Clients : OpenSelected(p) \/ MapPlain(p) \/ MapSections(p) \/ CloseSnapshot(p)
           \/ \E p \in Clients : CollectBegin(p)
           \/ CollectOne \/ CollectEnd
           \/ ProcessCrash \/ PowerLoss
           \/ UNCHANGED vars
BY DEF Next

(* The selectors, directories and names handed out keep their type.        *)
LEMMA StoreTypeStep ==
    ASSUME TypeOK, CommitPositions, [Next]_vars
    PROVE  StoreType'
<1>0. StoreType /\ CommitType /\ CollectorType
  BY TypeParts
<1> USE <1>0, StoreAssumption DEF StoreType, Tx
<1>1. ASSUME NEW p \in Clients, CommitStep(p)
      PROVE  StoreType'
  <2>1. CASE CreateTransaction(p)
    BY <2>1 DEF CreateTransaction
  <2>2. CASE FlushTransaction(p)
    BY <2>2 DEF FlushTransaction, CommitType, CommitPositions, nameVars
  <2>3. CASE FlushRoot(p)
    <3>1. /\ UNCHANGED <<used, live, current, dirDurable, faults, payload>>
          /\ rootDurable' \in {rootDurable, rootDurable \cup live}
          /\ onDisk' \in {onDisk, {current}}
      BY <2>3 DEF FlushRoot, RootReachesDisk, nameVars
    <3> QED BY <3>1
  <2>4. CASE ReplaceCurrent(p)
    BY <2>4 DEF ReplaceCurrent, CommitType, nameVars
  <2>5. CASE FinalFlush(p)
    <3>1. /\ UNCHANGED <<used, live, current, dirDurable, faults, payload>>
          /\ rootDurable' \in {rootDurable, rootDurable \cup live}
          /\ onDisk' \in {onDisk, {current}}
      BY <2>5 DEF FinalFlush, RootReachesDisk, nameVars
    <3> QED BY <3>1
  <2>6. CASE Cleanup(p)
    BY <2>6 DEF Cleanup, Remove, nameVars
  <2>7. CASE UNCHANGED <<used, live, current, onDisk, rootDurable, dirDurable, faults, payload>>
    BY <2>7
  <2> QED
    BY <1>1, <2>1, <2>2, <2>3, <2>4, <2>5, <2>6, <2>7
       DEF CommitStep, ReadPrevious, CreateFails, LinkSection, SectionsFail, FallBackToPacked,
           WriteOpen, WriteSync, WriteFails, ArtifactsDone, fsVars, nameVars
<1>2. ASSUME NEW p \in Clients,
             \/ OpenSelected(p) \/ MapPlain(p) \/ MapSections(p) \/ CloseSnapshot(p)
             \/ CollectBegin(p)
      PROVE  StoreType'
  BY <1>2 DEF OpenSelected, MapPlain, MapSections, MapFiles, CloseSnapshot, CollectBegin, fsVars, nameVars
<1>3. CASE CollectOne
  BY <1>3 DEF CollectOne, Remove, nameVars
<1>4. CASE CollectEnd \/ UNCHANGED vars
  BY <1>4 DEF CollectEnd, vars, fsVars, nameVars
<1>5. CASE ProcessCrash
  BY <1>5 DEF ProcessCrash, StopClients, nameVars
<1>6. CASE PowerLoss
  <2>1. UNCHANGED <<used, payload>> /\ faults' \in 0..MaxFaults /\ current' \in onDisk
        /\ onDisk' = {current'} /\ live' \subseteq live /\ rootDurable' = live' /\ dirDurable' = live'
    BY <1>6 DEF PowerLoss, StopClients, nameVars
  <2> QED BY <2>1
<1> QED BY <1>1, <1>2, <1>3, <1>4, <1>5, <1>6, Steps

(* So does the collector,                                                  *)
LEMMA CollectorTypeStep ==
    ASSUME TypeOK, [Next]_vars
    PROVE  CollectorType'
<1>0. StoreType /\ CollectorType /\ SnapshotType /\ live \subseteq Tx
  BY TypeParts DEF TypeOK
<1> USE <1>0 DEF CollectorType
<1>1. CASE UNCHANGED collector
  BY <1>1
<1>2. ASSUME NEW p \in Clients, CommitStep(p)
      PROVE  UNCHANGED collector
  BY <1>2 DEF CommitStep, ReadPrevious, CreateTransaction, CreateFails, LinkSection, SectionsFail,
              FallBackToPacked, WriteOpen, WriteSync, WriteFails, ArtifactsDone, FlushTransaction,
              FlushRoot, ReplaceCurrent, FinalFlush, Cleanup
<1>3. ASSUME NEW p \in Clients,
             OpenSelected(p) \/ MapPlain(p) \/ MapSections(p) \/ CloseSnapshot(p)
      PROVE  UNCHANGED collector
  BY <1>3 DEF OpenSelected, MapPlain, MapSections, MapFiles, CloseSnapshot
<1>4. ASSUME NEW p \in Clients, CollectBegin(p)
      PROVE  CollectorType'
  <2>1. {p} \subseteq Clients /\ {current, pin[p]} \subseteq Tx \cup {NoTx}
    BY DEF StoreType, SnapshotType
  <2> QED BY <1>4, <2>1 DEF CollectBegin
<1>5. CASE CollectOne
  BY <1>5 DEF CollectOne
<1>6. CASE CollectEnd \/ ProcessCrash \/ PowerLoss
  <2>1. collector' = Idle
    BY <1>6 DEF CollectEnd, ProcessCrash, PowerLoss, StopClients
  <2>2. Idle \in [on : BOOLEAN, by : SUBSET Clients, keep : SUBSET (Tx \cup {NoTx}),
                  visit : SUBSET Tx]
    BY DEF Idle
  <2> QED BY <2>1, <2>2
<1>7. CASE UNCHANGED vars
  BY <1>7 DEF vars
<1> QED BY <1>1, <1>2, <1>3, <1>4, <1>5, <1>6, <1>7, Steps

(* What reclaiming leaves of an inode.                                     *)
LEMMA ReclaimType ==
    ASSUME FilesType, NEW names, NEW maps
    PROVE  /\ Reclaim(names, maps) \in [Tx -> [Files -> [from : Tx \cup {NoTx}, synced : BOOLEAN]]]
           /\ \A t \in Tx : \A f \in Files : Reclaim(names, maps)[t][f] \in {inode[t][f], Blank}
           /\ \A t \in Tx : \A f \in Files :
                 (\E u \in Tx : names[u][f] = t) \/ (\E p \in Clients : maps[p][f] = t)
                    => Reclaim(names, maps)[t][f] = inode[t][f]
<1>1. Blank \in [from : Tx \cup {NoTx}, synced : BOOLEAN]
  BY DEF Blank
<1>2. \A t \in Tx : \A f \in Files : inode[t][f] \in [from : Tx \cup {NoTx}, synced : BOOLEAN]
  BY DEF FilesType
<1> HIDE DEF FilesType, Blank
<1> DEFINE R == [from : Tx \cup {NoTx}, synced : BOOLEAN]
<1> HIDE DEF R
<1>3. Blank \in R /\ \A t \in Tx : \A f \in Files : inode[t][f] \in R
  BY <1>1, <1>2 DEF R
<1>4. Reclaim(names, maps) \in [Tx -> [Files -> R]]
  BY <1>3 DEF Reclaim
<1> QED BY <1>4 DEF Reclaim, R

(* so do the names and the inodes,                                         *)
LEMMA FilesTypeStep ==
    ASSUME TypeOK, [Next]_vars
    PROVE  FilesType'
<1> DEFINE R == [from : Tx \cup {NoTx}, synced : BOOLEAN]
<1>0. FilesType /\ CommitType /\ SnapshotType
  BY TypeParts
<1>a. /\ entry \in [Tx -> [Files -> Tx \cup {NoTx}]]
      /\ inode \in [Tx -> [Files -> R]]
      /\ NoEntries \in [Files -> Tx \cup {NoTx}]
      /\ Blank \in R
      /\ NoTx \notin Tx
      /\ Sections \subseteq Files
      /\ \A p \in Clients : tx[p] \in Tx \cup {NoTx}
      /\ \A t \in Tx : [from |-> t, synced |-> TRUE] \in R
  <2>1. entry \in [Tx -> [Files -> Tx \cup {NoTx}]] /\ inode \in [Tx -> [Files -> R]]
    BY <1>0 DEF FilesType
  <2>2. NoEntries \in [Files -> Tx \cup {NoTx}] /\ Sections \subseteq Files
    BY DEF NoEntries, Files
  <2>3. Blank \in R /\ \A t \in Tx : [from |-> t, synced |-> TRUE] \in R
    BY DEF Blank
  <2>4. NoTx \notin Tx /\ \A p \in Clients : tx[p] \in Tx \cup {NoTx}
    BY <1>0 DEF Tx, NoTx, CommitType
  <2> QED BY <2>1, <2>2, <2>3, <2>4
<1>b. \A names, maps : Reclaim(names, maps) \in [Tx -> [Files -> R]]
  BY <1>0, ReclaimType
<1>c. FilesType' <=> /\ entry' \in [Tx -> [Files -> Tx \cup {NoTx}]]
                     /\ inode' \in [Tx -> [Files -> R]]
  BY DEF FilesType
<1> HIDE DEF R
<1>1. CASE UNCHANGED <<entry, inode>>
  BY <1>1, <1>a, <1>c
<1>2. ASSUME NEW t \in Tx \cup {NoTx}, NEW g,
             g \in [Files -> Tx \cup {NoTx}], entry' = [entry EXCEPT ![t] = g], UNCHANGED inode
      PROVE  FilesType'
  BY <1>2, <1>a, <1>c
<1>3. ASSUME NEW t \in Tx \cup {NoTx}, Remove(t)
      PROVE  FilesType'
  BY <1>3, <1>a, <1>b, <1>c DEF Remove
<1>4. ASSUME NEW p \in Clients, NEW s \in Sections, LinkSection(p, s)
      PROVE  FilesType'
  <2>1. PICK i \in Tx \cup {NoTx} : entry' = [entry EXCEPT ![tx[p]][s] = i]
    <3>1. PICK source \in {pin[p], prev[p]} \ {NoTx} :
             entry' = [entry EXCEPT ![tx[p]][s] = entry[source][s]]
      BY <1>4 DEF LinkSection
    <3>2. source \in Tx
      BY <1>0, <3>1 DEF SnapshotType, CommitType
    <3>3. entry[source][s] \in Tx \cup {NoTx}
      BY <1>a, <3>2
    <3> QED BY <3>1, <3>3
  <2> QED BY <1>4, <1>a, <1>c, <2>1 DEF LinkSection
<1>5. ASSUME NEW p \in Clients, SectionsFail(p) \/ FallBackToPacked(p)
      PROVE  FilesType'
  <2> DEFINE g == [f \in Files |-> IF f \in Sections THEN NoTx ELSE entry[tx[p]][f]]
  <2>1. CASE tx[p] \in Tx
    <3>1. g \in [Files -> Tx \cup {NoTx}]
      BY <1>a, <2>1
    <3>2. entry' = [entry EXCEPT ![tx[p]] = g] /\ UNCHANGED inode
      BY <1>5, <1>a, <2>1 DEF SectionsFail, FallBackToPacked
    <3> QED BY <1>2, <1>a, <3>1, <3>2
  <2>2. CASE tx[p] \notin Tx
    <3>1. UNCHANGED <<entry, inode>>
      BY <1>5, <1>a, <2>2 DEF SectionsFail, FallBackToPacked
    <3> QED BY <1>1, <3>1
  <2> QED BY <2>1, <2>2
<1>6. ASSUME NEW p \in Clients, NEW f \in Files, WriteOpen(p, f)
      PROVE  FilesType'
  <2> DEFINE i == IF entry[tx[p]][f] = NoTx THEN tx[p] ELSE entry[tx[p]][f]
  <2>1. /\ entry' = [entry EXCEPT ![tx[p]][f] = i]
        /\ inode' = [inode EXCEPT ![i][f] = Blank]
    BY <1>6 DEF WriteOpen
  <2>2. tx[p] \in Tx => i \in Tx \cup {NoTx}
    BY <1>a
  <2> HIDE DEF i
  <2>3. inode' \in [Tx -> [Files -> R]]
    BY <1>a, <2>1
  <2>4. entry' \in [Tx -> [Files -> Tx \cup {NoTx}]]
    BY <1>a, <2>1, <2>2
  <2> QED BY <1>c, <2>3, <2>4
<1>7. ASSUME NEW p \in Clients, NEW f \in Files, WriteSync(p, f)
      PROVE  FilesType'
  <2> DEFINE i == entry[tx[p]][f]
             r == [from |-> tx[p], synced |-> TRUE]
  <2>1. UNCHANGED entry /\ inode' = [inode EXCEPT ![i][f] = r]
    BY <1>7 DEF WriteSync
  <2>2. r \in R
    BY <1>a DEF R
  <2> HIDE DEF i, r
  <2>3. inode' \in [Tx -> [Files -> R]]
    BY <1>a, <2>1, <2>2
  <2> QED BY <1>a, <1>c, <2>1, <2>3
<1>8. ASSUME NEW p \in Clients, Cleanup(p)
      PROVE  FilesType'
  BY <1>1, <1>3, <1>8, <1>a DEF Cleanup
<1>9. ASSUME NEW p \in Clients, MapPlain(p) \/ MapSections(p) \/ CloseSnapshot(p)
      PROVE  FilesType'
  <2>1. UNCHANGED entry /\ inode' = Reclaim(entry, mapped')
    BY <1>9 DEF MapPlain, MapSections, MapFiles, CloseSnapshot
  <2> QED BY <1>a, <1>b, <1>c, <2>1
<1>10. CASE CollectOne
  <2>1. collector.visit \subseteq Tx
    BY TypeParts DEF CollectorType
  <2> QED BY <1>1, <1>3, <1>10, <2>1 DEF CollectOne
<1>11. CASE ProcessCrash
  BY <1>11, <1>a, <1>b, <1>c DEF ProcessCrash
<1>12. CASE PowerLoss
  <2>1. PICK full : entry' = [t \in Tx |-> IF t \in full THEN entry[t] ELSE NoEntries]
    BY <1>12 DEF PowerLoss
  <2> DEFINE C == Reclaim(entry', mapped')
  <2>2. C \in [Tx -> [Files -> R]]
    BY <1>b
  <2>3. inode' = [t \in Tx |-> [f \in Files |-> IF inode[t][f].synced THEN C[t][f] ELSE Blank]]
    BY <1>12 DEF PowerLoss
  <2> HIDE DEF C
  <2> QED BY <1>a, <1>c, <2>1, <2>2, <2>3
<1>13. ASSUME NEW p \in Clients,
              \/ ReadPrevious(p) \/ CreateTransaction(p) \/ CreateFails(p) \/ ArtifactsDone(p)
              \/ FlushTransaction(p) \/ FlushRoot(p) \/ ReplaceCurrent(p) \/ FinalFlush(p)
              \/ (\E f \in Files : WriteFails(p, f)) \/ OpenSelected(p) \/ CollectBegin(p)
       PROVE  UNCHANGED <<entry, inode>>
  BY <1>13 DEF ReadPrevious, CreateTransaction, CreateFails, ArtifactsDone, FlushTransaction, FlushRoot,
               ReplaceCurrent, FinalFlush, WriteFails, OpenSelected, CollectBegin, fsVars
<1>14. CASE CollectEnd \/ UNCHANGED vars
  BY <1>1, <1>14 DEF CollectEnd, vars, fsVars
<1>15. ASSUME NEW p \in Clients, CommitStep(p)
       PROVE  FilesType'
  BY <1>15, <1>1, <1>4, <1>5, <1>6, <1>7, <1>8, <1>13 DEF CommitStep
<1> QED BY <1>1, <1>9, <1>10, <1>11, <1>12, <1>13, <1>14, <1>15, Steps

(* and so does the local state of every commit.                            *)
LEMMA CommitTypeStep ==
    ASSUME TypeOK, [Next]_vars
    PROVE  CommitType'
<1>0. StoreType /\ CommitType
  BY TypeParts
<1> USE <1>0
<1>a. Plain \subseteq Files /\ Sections \subseteq Files /\ Packed \in Files
  BY DEF Files
<1>1. ASSUME NEW p \in Clients, Return(p)
      PROVE  CommitType'
  BY <1>1 DEF CommitType, Return, Go
<1>2. ASSUME NEW p \in Clients, CommitStep(p)
      PROVE  CommitType'
  <2>1. CASE CreateTransaction(p)
    <3>1. used + 1 \in Tx
      BY <2>1, StoreAssumption DEF CreateTransaction, StoreType, Tx
    <3>2. PICK parts \in SUBSET Files : todo' = [todo EXCEPT ![p] = Plain \cup parts]
      BY <2>1, <1>a DEF CreateTransaction
    <3> QED BY <2>1, <3>1, <3>2, <1>a DEF CreateTransaction, CommitType, Go
  <2>2. CASE ReadPrevious(p)
    BY <2>2 DEF ReadPrevious, CommitType, StoreType, Go
  <2>3. CASE \E s \in Sections : LinkSection(p, s)
    <3>1. PICK s : todo' = [todo EXCEPT ![p] = @ \ {s}]
      BY <2>3 DEF LinkSection
    <3> QED BY <2>3, <3>1 DEF LinkSection, CommitType
  <2>4. CASE SectionsFail(p)
    BY <2>4 DEF SectionsFail, CommitType
  <2>5. CASE FallBackToPacked(p)
    BY <2>5, <1>a DEF FallBackToPacked, CommitType
  <2>6. CASE \E f \in Files : WriteOpen(p, f)
    <3>1. PICK f \in Files : /\ todo' = [todo EXCEPT ![p] = @ \ {f}]
                             /\ writing' = [writing EXCEPT ![p] = @ \cup {f}]
                             /\ UNCHANGED <<pc, tx, prev, failed>>
      BY <2>6 DEF WriteOpen
    <3> QED BY <3>1 DEF CommitType
  <2>7. CASE \E f \in Files : WriteSync(p, f) \/ WriteFails(p, f)
    <3>1. PICK f \in Files : /\ writing' = [writing EXCEPT ![p] = @ \ {f}]
                             /\ failed' \in {failed, [failed EXCEPT ![p] = TRUE]}
                             /\ UNCHANGED <<pc, tx, prev, todo>>
      BY <2>7 DEF WriteSync, WriteFails
    <3> QED BY <3>1 DEF CommitType
  <2>8. CASE CreateFails(p) \/ FinalFlush(p) \/ Cleanup(p)
    BY <2>8, <1>1 DEF CreateFails, FinalFlush, Cleanup
  <2>9. CASE ArtifactsDone(p) \/ FlushTransaction(p) \/ FlushRoot(p) \/ ReplaceCurrent(p)
    <3>1. /\ \E where \in {"cleanup", "flush_tx", "flush_root", "replace", "final_flush"} : Go(p, where)
          /\ UNCHANGED <<tx, prev, todo, writing, failed>>
      BY <2>9 DEF ArtifactsDone, FlushTransaction, FlushRoot, ReplaceCurrent
    <3> QED BY <3>1 DEF Go, CommitType
  <2> QED
    BY <1>2, <2>1, <2>2, <2>3, <2>4, <2>5, <2>6, <2>7, <2>8, <2>9 DEF CommitStep
<1>3. ASSUME NEW p \in Clients,
             \/ OpenSelected(p) \/ MapPlain(p) \/ MapSections(p) \/ CloseSnapshot(p)
             \/ CollectBegin(p)
      PROVE  UNCHANGED commitVars
  BY <1>3 DEF OpenSelected, MapPlain, MapSections, MapFiles, CloseSnapshot, CollectBegin
<1>4. CASE UNCHANGED commitVars
  BY <1>4 DEF commitVars, CommitType
<1>5. CASE CollectOne \/ CollectEnd \/ UNCHANGED vars
  BY <1>4, <1>5 DEF CollectOne, CollectEnd, vars
<1>6. CASE ProcessCrash \/ PowerLoss
  BY <1>6 DEF ProcessCrash, PowerLoss, StopClients, CommitType
<1> QED BY <1>2, <1>3, <1>4, <1>5, <1>6, Steps

(* A step of one client's commit touches no other client's, and no         *)
(* snapshot.                                                               *)
LEMMA OthersStill ==
    ASSUME CommitType, NEW p \in Clients, CommitStep(p)
    PROVE  /\ UNCHANGED <<pin, mapped, collector, payload>>
           /\ \A q \in Clients : q # p =>
                /\ pc'[q] = pc[q] /\ tx'[q] = tx[q] /\ prev'[q] = prev[q]
                /\ todo'[q] = todo[q] /\ writing'[q] = writing[q] /\ failed'[q] = failed[q]
<1>1. UNCHANGED <<pin, mapped, collector, payload>>
  BY DEF CommitStep, ReadPrevious, CreateTransaction, CreateFails, LinkSection, SectionsFail,
         FallBackToPacked, WriteOpen, WriteSync, WriteFails, ArtifactsDone, FlushTransaction,
         FlushRoot, ReplaceCurrent, FinalFlush, Cleanup, snapVars, nameVars
<1> SUFFICES ASSUME NEW q \in Clients, q # p
             PROVE  /\ pc'[q] = pc[q] /\ tx'[q] = tx[q] /\ prev'[q] = prev[q]
                    /\ todo'[q] = todo[q] /\ writing'[q] = writing[q] /\ failed'[q] = failed[q]
  BY <1>1
<1>2. CASE Return(p)
  BY <1>2 DEF Return, Go, CommitType
<1>3. CASE CreateTransaction(p)
  BY <1>3 DEF CreateTransaction, Go, CommitType
<1>4. CASE ReadPrevious(p) \/ ArtifactsDone(p) \/ FlushTransaction(p) \/ FlushRoot(p) \/ ReplaceCurrent(p)
  BY <1>4 DEF ReadPrevious, ArtifactsDone, FlushTransaction, FlushRoot, ReplaceCurrent, Go, CommitType
<1>5. CASE \/ SectionsFail(p) \/ FallBackToPacked(p) \/ \E s \in Sections : LinkSection(p, s)
           \/ \E f \in Files : WriteOpen(p, f) \/ WriteSync(p, f) \/ WriteFails(p, f)
  BY <1>5 DEF SectionsFail, FallBackToPacked, LinkSection, WriteOpen, WriteSync, WriteFails, CommitType
<1> QED BY <1>2, <1>3, <1>4, <1>5 DEF CommitStep, CreateFails, FinalFlush, Cleanup

(* Every other step leaves the commits alone, or stops them all.           *)
LEMMA CommitsStill ==
    ASSUME [Next]_vars, \A p \in Clients : ~CommitStep(p)
    PROVE  UNCHANGED commitVars \/ StopClients
BY Steps DEF OpenSelected, MapPlain, MapSections, MapFiles, CloseSnapshot, CollectBegin, CollectOne,
             CollectEnd, vars, ProcessCrash, PowerLoss

(* No two commits come to write into the same directory: names are fresh.  *)
LEMMA OneWriterStep ==
    ASSUME TypeOK, CommitPositions, [Next]_vars
    PROVE  OneWriter'
<1>0. StoreType /\ CommitType /\ OneWriter
  BY TypeParts
<1>1. ASSUME NEW p \in Clients, CommitStep(p)
      PROVE  OneWriter'
  <2>1. \A q \in Clients : q # p => tx'[q] = tx[q]
    BY <1>0, <1>1, OthersStill
  <2>2. CASE tx'[p] \in {tx[p], NoTx}
    BY <1>0, <2>1, <2>2 DEF OneWriter
  <2>3. CASE CreateTransaction(p)
    <3>1. tx'[p] = used + 1
      BY <1>0, <2>3 DEF CreateTransaction, CommitType
    <3>2. \A q \in Clients : tx[q] \in live \/ tx[q] = NoTx
      BY DEF CommitPositions
    <3>3. used + 1 \notin live /\ used + 1 # NoTx
      BY <1>0 DEF StoreType, NoTx
    <3> QED BY <1>0, <2>1, <3>1, <3>2, <3>3 DEF OneWriter
  <2>4. CASE ~CreateTransaction(p)
    <3>1. tx'[p] \in {tx[p], NoTx}
      BY <1>0, <1>1, <2>4
         DEF CommitStep, ReadPrevious, CreateFails, LinkSection, SectionsFail, FallBackToPacked,
             WriteOpen, WriteSync, WriteFails, ArtifactsDone, FlushTransaction, FlushRoot,
             ReplaceCurrent, FinalFlush, Cleanup, Return, CommitType
    <3> QED BY <2>2, <3>1
  <2> QED BY <2>3, <2>4
<1>2. CASE UNCHANGED commitVars
  BY <1>0, <1>2 DEF commitVars, OneWriter
<1>3. CASE StopClients
  BY <1>3 DEF StopClients, OneWriter
<1> QED BY <1>1, <1>2, <1>3, CommitsStill

(* What a step does to a snapshot: it stays, is dropped, is opened on      *)
(* CURRENT, or maps files of its transaction by their names.               *)
SnapshotMove(p) ==
    /\ \/ pin'[p] = pin[p]
       \/ pin'[p] = NoTx
       \/ OpenSelected(p) /\ pin'[p] = current
    /\ \A f \in Files :
         \/ mapped'[p][f] = NoTx
         \/ mapped'[p][f] = mapped[p][f] /\ pin'[p] = pin[p]
         \/ /\ mapped'[p][f] = entry[pin[p]][f]
            /\ pin'[p] = pin[p] /\ pin[p] # NoTx
            /\ f \in Layout(pin[p])

(* A mapping call moves its own snapshot and no other.                     *)
LEMMA MapFilesMoves ==
    ASSUME SnapshotType, NEW q \in Clients, NEW part \in SUBSET Files, MapFiles(q, part),
           part \subseteq Layout(pin[q])
    PROVE  \A p \in Clients : SnapshotMove(p)
<1> SUFFICES ASSUME NEW p \in Clients
             PROVE  SnapshotMove(p)
  OBVIOUS
<1>1. CASE p # q
  <2>1. pin'[p] = pin[p] /\ mapped'[p] = mapped[p]
    BY <1>1 DEF MapFiles, SnapshotType
  <2> QED BY <2>1 DEF SnapshotMove
<1>2. CASE p = q /\ \A f \in part : entry[pin[q]][f] # NoTx
  <2>1. /\ pin'[q] = pin[q] /\ pin[q] # NoTx
        /\ mapped'[q] = [f \in Files |-> IF f \in part THEN entry[pin[q]][f] ELSE mapped[q][f]]
    BY <1>2 DEF MapFiles, SnapshotType
  <2> QED BY <1>2, <2>1 DEF SnapshotMove
<1>3. CASE p = q /\ ~\A f \in part : entry[pin[q]][f] # NoTx
  <2>1. pin'[q] = NoTx /\ mapped'[q] = NoEntries
    BY <1>3 DEF MapFiles, SnapshotType
  <2> QED BY <1>3, <2>1 DEF SnapshotMove, NoEntries
<1> QED BY <1>1, <1>2, <1>3

(* Every step moves every snapshot as SnapshotMove says.                   *)
LEMMA SnapshotMoves ==
    ASSUME TypeOK, MapsWhole, [Next]_vars
    PROVE  \A p \in Clients : SnapshotMove(p)
<1>0. SnapshotType /\ CommitType
  BY TypeParts
<1>1. CASE UNCHANGED <<pin, mapped>>
  BY <1>1 DEF SnapshotMove
<1>2. ASSUME NEW q \in Clients, CommitStep(q)
      PROVE  UNCHANGED <<pin, mapped>>
  BY <1>0, <1>2, OthersStill
<1>3. ASSUME NEW q \in Clients, OpenSelected(q)
      PROVE  \A p \in Clients : SnapshotMove(p)
  <2>1. \A p \in Clients : p # q => pin'[p] = pin[p] /\ mapped'[p] = mapped[p]
    BY <1>0, <1>3 DEF OpenSelected, SnapshotType
  <2>2. pin'[q] = current /\ \A f \in Files : mapped'[q][f] = NoTx
    BY <1>0, <1>3 DEF OpenSelected, SnapshotType, MapsWhole
  <2> QED BY <1>3, <2>1, <2>2 DEF SnapshotMove
<1>4. ASSUME NEW q \in Clients, MapPlain(q)
      PROVE  \A p \in Clients : SnapshotMove(p)
  BY <1>0, <1>4, MapFilesMoves DEF MapPlain, Layout, Files
<1>5. ASSUME NEW q \in Clients, MapSections(q)
      PROVE  \A p \in Clients : SnapshotMove(p)
  <2>1. Layout(pin[q]) \ Plain \in SUBSET Files
    BY DEF Layout, Files
  <2> QED BY <1>0, <1>5, <2>1, MapFilesMoves DEF MapSections
<1>6. ASSUME NEW q \in Clients, CloseSnapshot(q)
      PROVE  \A p \in Clients : SnapshotMove(p)
  <2>1. \A p \in Clients : p # q => pin'[p] = pin[p] /\ mapped'[p] = mapped[p]
    BY <1>0, <1>6 DEF CloseSnapshot, SnapshotType
  <2>2. pin'[q] = NoTx /\ mapped'[q] = NoEntries
    BY <1>0, <1>6 DEF CloseSnapshot, SnapshotType
  <2> QED BY <2>1, <2>2 DEF SnapshotMove, NoEntries
<1>7. CASE ProcessCrash \/ PowerLoss
  <2>1. \A p \in Clients : pin'[p] = NoTx /\ mapped'[p] = NoEntries
    BY <1>7 DEF ProcessCrash, PowerLoss, StopClients
  <2> QED BY <2>1 DEF SnapshotMove, NoEntries
<1>8. ASSUME NEW q \in Clients, CollectBegin(q)
      PROVE  UNCHANGED <<pin, mapped>>
  BY <1>8 DEF CollectBegin, snapVars
<1>9. CASE CollectOne \/ CollectEnd \/ UNCHANGED vars
  BY <1>1, <1>9 DEF CollectOne, CollectEnd, snapVars, vars
<1> QED BY <1>1, <1>2, <1>3, <1>4, <1>5, <1>6, <1>7, <1>8, <1>9, Steps

(* The snapshots keep their type.                                          *)
LEMMA SnapshotTypeStep ==
    ASSUME TypeOK, [Next]_vars
    PROVE  SnapshotType'
<1>0. SnapshotType /\ CommitType /\ StoreType /\ FilesType
  BY TypeParts
<1>a. NoEntries \in [Files -> Tx \cup {NoTx}] /\ current \in Tx \cup {NoTx}
  BY <1>0 DEF NoEntries, StoreType
<1>1. CASE UNCHANGED <<pin, mapped>>
  BY <1>0, <1>1 DEF SnapshotType
<1>2. ASSUME NEW q \in Clients, CommitStep(q)
      PROVE  UNCHANGED <<pin, mapped>>
  BY <1>0, <1>2, OthersStill
<1>3. ASSUME NEW q \in Clients, OpenSelected(q)
      PROVE  SnapshotType'
  BY <1>0, <1>3, <1>a DEF OpenSelected, SnapshotType
<1>4. ASSUME NEW q \in Clients, NEW part, MapFiles(q, part)
      PROVE  SnapshotType'
  <2>1. CASE \A f \in part : entry[pin[q]][f] # NoTx
    <3> DEFINE g == [f \in Files |-> IF f \in part THEN entry[pin[q]][f] ELSE mapped[q][f]]
    <3>1. pin[q] \in Tx /\ UNCHANGED pin /\ mapped' = [mapped EXCEPT ![q] = g]
      BY <1>0, <1>4, <2>1 DEF MapFiles, SnapshotType
    <3>2. g \in [Files -> Tx \cup {NoTx}]
      BY <1>0, <3>1 DEF SnapshotType, FilesType
    <3> QED BY <1>0, <3>1, <3>2 DEF SnapshotType
  <2>2. CASE ~\A f \in part : entry[pin[q]][f] # NoTx
    BY <1>0, <1>4, <1>a, <2>2 DEF MapFiles, SnapshotType
  <2> QED BY <2>1, <2>2
<1>5. ASSUME NEW q \in Clients, CloseSnapshot(q)
      PROVE  SnapshotType'
  BY <1>0, <1>5, <1>a DEF CloseSnapshot, SnapshotType
<1>6. CASE ProcessCrash \/ PowerLoss
  BY <1>6, <1>a DEF ProcessCrash, PowerLoss, StopClients, SnapshotType
<1>7. ASSUME NEW q \in Clients, CollectBegin(q)
      PROVE  UNCHANGED <<pin, mapped>>
  BY <1>7 DEF CollectBegin, snapVars
<1>8. CASE CollectOne \/ CollectEnd \/ UNCHANGED vars
  BY <1>1, <1>8 DEF CollectOne, CollectEnd, snapVars, vars
<1> QED BY <1>1, <1>2, <1>3, <1>4, <1>5, <1>6, <1>7, <1>8, Steps DEF MapPlain, MapSections

(* The types survive every step.                                           *)
LEMMA TypeStep ==
    ASSUME TypeOK, CommitPositions, [Next]_vars
    PROVE  TypeOK'
BY TypeParts, StoreTypeStep, CollectorTypeStep, FilesTypeStep, CommitTypeStep, OneWriterStep,
   SnapshotTypeStep

-----------------------------------------------------------------------------
(* What a step does to the files                                           *)

(* Facts about names used throughout.                                      *)
LEMMA Basics ==
    /\ NoTx \notin Tx
    /\ Sections \subseteq Files /\ Plain \subseteq Files /\ Packed \in Files
    /\ \A t \in Tx : Blank # [from |-> t, synced |-> TRUE]
    /\ Blank.from = NoTx /\ Blank.synced = FALSE
    /\ \A t \in Tx : Layout(t) \subseteq Files
BY DEF Tx, NoTx, Files, Blank, Layout

(* One file of one transaction is updated.                                 *)
LEMMA UpdateOne ==
    ASSUME NEW S, NEW h \in [Tx -> [Files -> S]], NEW t \in Tx, NEW f \in Files, NEW v,
           NEW g, g = [h EXCEPT ![t][f] = v]
    PROVE  /\ g[t][f] = v
           /\ \A u \in Tx : \A e \in Files : ~(u = t /\ e = f) => g[u][e] = h[u][e]
           /\ \A u \in Tx : u # t => g[u] = h[u]
OBVIOUS

(* An inode stays as it is, is freed, or is filled by the commit that      *)
(* created it; while a name or a mapping is left, a full one stays.        *)
InodeMove(t, f) ==
    /\ \/ inode'[t][f] = inode[t][f]
       \/ inode'[t][f] = Blank
       \/ /\ Full(t, f)'
          /\ \E p \in Clients : WriteSync(p, f) /\ tx[p] = t
    /\ Full(t, f) /\ ((\E u \in Tx : entry'[u][f] = t) \/ (\E p \in Clients : mapped'[p][f] = t))
          => Full(t, f)'

(* The inode a commit opens was blank, and nobody else's.                  *)
LEMMA WriteOpenBlank ==
    ASSUME IndInv, NEW p \in Clients, NEW f \in Files, WriteOpen(p, f)
    PROVE  /\ tx[p] \in Tx /\ tx[p] \in live
           /\ entry' = [entry EXCEPT ![tx[p]][f] = tx[p]]
           /\ inode' = inode
<1>0. FilesType /\ CommitType /\ StoreType
  BY TypeParts DEF IndInv
<1>1. tx[p] \in Tx /\ tx[p] \in live
  BY <1>0 DEF IndInv, CommitPositions, WriteOpen, CommitType
<1>2. entry[tx[p]][f] = NoTx /\ inode[tx[p]][f] = Blank
  BY DEF IndInv, ArtifactTasks, WriteOpen
<1>3. entry' = [entry EXCEPT ![tx[p]][f] = tx[p]] /\ inode' = [inode EXCEPT ![tx[p]][f] = Blank]
  BY <1>2 DEF WriteOpen
<1>4. inode' = inode
  BY <1>0, <1>1, <1>2, <1>3 DEF FilesType
<1> QED BY <1>1, <1>3, <1>4

(* The inode a commit fills is its own.                                    *)
LEMMA WriteSyncOwn ==
    ASSUME IndInv, NEW p \in Clients, NEW f \in Files, WriteSync(p, f)
    PROVE  /\ tx[p] \in Tx /\ tx[p] \in live
           /\ entry[tx[p]][f] = tx[p]
           /\ inode[tx[p]][f] = Blank
           /\ inode' = [inode EXCEPT ![tx[p]][f] = [from |-> tx[p], synced |-> TRUE]]
<1>0. FilesType /\ CommitType
  BY TypeParts DEF IndInv
<1>1. tx[p] \in Tx /\ tx[p] \in live
  BY <1>0 DEF IndInv, CommitPositions, WriteSync, CommitType
<1>2. entry[tx[p]][f] = tx[p] /\ inode[tx[p]][f] = Blank
  BY DEF IndInv, ArtifactTasks, WriteSync
<1> QED BY <1>1, <1>2 DEF WriteSync

(* Every step moves every inode as InodeMove says.                         *)
LEMMA InodeMoves ==
    ASSUME IndInv, [Next]_vars, NEW t \in Tx, NEW f \in Files
    PROVE  InodeMove(t, f)
<1>0. FilesType /\ CommitType
  BY TypeParts DEF IndInv
<1>1. CASE UNCHANGED inode
  BY <1>1 DEF InodeMove, Full
<1>2. CASE inode' = Reclaim(entry', mapped')
  <2>1. /\ Reclaim(entry', mapped')[t][f] \in {inode[t][f], Blank}
        /\ (\E u \in Tx : entry'[u][f] = t) \/ (\E p \in Clients : mapped'[p][f] = t)
              => Reclaim(entry', mapped')[t][f] = inode[t][f]
    BY <1>0, ReclaimType
  <2> QED BY <1>2, <2>1 DEF InodeMove, Full
<1>3. ASSUME NEW p \in Clients, NEW g \in Files, WriteSync(p, g)
      PROVE  InodeMove(t, f)
  <2>0. /\ inode[tx[p]][g] = Blank
        /\ inode'[tx[p]][g] = [from |-> tx[p], synced |-> TRUE]
        /\ \A u \in Tx : \A e \in Files : ~(u = tx[p] /\ e = g) => inode'[u][e] = inode[u][e]
    <3>1. inode \in [Tx -> [Files -> [from : Tx \cup {NoTx}, synced : BOOLEAN]]]
      BY <1>0 DEF FilesType
    <3>2. /\ tx[p] \in Tx /\ inode[tx[p]][g] = Blank
          /\ inode' = [inode EXCEPT ![tx[p]][g] = [from |-> tx[p], synced |-> TRUE]]
      BY <1>3, WriteSyncOwn
    <3> DEFINE R == [from : Tx \cup {NoTx}, synced : BOOLEAN]
               v == [from |-> tx[p], synced |-> TRUE]
    <3>3. inode \in [Tx -> [Files -> R]] /\ inode' = [inode EXCEPT ![tx[p]][g] = v]
      BY <3>1, <3>2
    <3> HIDE DEF R, v
    <3>4. /\ inode'[tx[p]][g] = v
          /\ \A u \in Tx : \A e \in Files : ~(u = tx[p] /\ e = g) => inode'[u][e] = inode[u][e]
      BY <3>2, <3>3, UpdateOne
    <3> QED BY <3>2, <3>4 DEF v
  <2>1. CASE t = tx[p] /\ f = g
    <3>1. inode[t][f] = Blank /\ inode'[t][f] = [from |-> t, synced |-> TRUE]
      BY <2>1, <2>0
    <3> QED BY <1>3, <2>1, <3>1 DEF InodeMove, Full
  <2>2. CASE ~(t = tx[p] /\ f = g)
    <3>1. inode'[t][f] = inode[t][f]
      BY <2>2, <2>0
    <3> QED BY <3>1 DEF InodeMove, Full
  <2> QED BY <2>1, <2>2
<1>4. CASE PowerLoss
  <2> DEFINE C == Reclaim(entry', mapped')
  <2>1. /\ C[t][f] \in {inode[t][f], Blank}
        /\ (\E u \in Tx : entry'[u][f] = t) \/ (\E p \in Clients : mapped'[p][f] = t)
              => C[t][f] = inode[t][f]
    BY <1>0, ReclaimType
  <2>2. inode' = [u \in Tx |-> [g \in Files |-> IF inode[u][g].synced THEN C[u][g] ELSE Blank]]
    BY <1>4 DEF PowerLoss
  <2> HIDE DEF C
  <2>3. inode'[t][f] = IF inode[t][f].synced THEN C[t][f] ELSE Blank
    BY <2>2
  <2> QED BY <2>1, <2>3 DEF InodeMove, Full
<1>5. ASSUME NEW p \in Clients, CommitStep(p)
      PROVE  InodeMove(t, f)
  <2>1. CASE Cleanup(p)
    BY <1>1, <1>2, <2>1 DEF Cleanup, Remove, snapVars
  <2>2. CASE \E g \in Files : WriteOpen(p, g)
    BY <1>1, <2>2, WriteOpenBlank
  <2>3. CASE \E g \in Files : WriteSync(p, g)
    BY <1>3, <2>3
  <2>4. CASE ~Cleanup(p) /\ \A g \in Files : ~WriteOpen(p, g) /\ ~WriteSync(p, g)
    <3>1. UNCHANGED inode
      BY <1>5, <2>4
         DEF CommitStep, ReadPrevious, CreateTransaction, CreateFails, LinkSection, SectionsFail,
             FallBackToPacked, WriteFails, ArtifactsDone, FlushTransaction, FlushRoot,
             ReplaceCurrent, FinalFlush, fsVars
    <3> QED BY <1>1, <3>1
  <2> QED BY <2>1, <2>2, <2>3, <2>4
<1>6. ASSUME NEW p \in Clients, OpenSelected(p) \/ CollectBegin(p)
      PROVE  UNCHANGED inode
  BY <1>6 DEF OpenSelected, CollectBegin, fsVars
<1>7. ASSUME NEW p \in Clients, MapPlain(p) \/ MapSections(p) \/ CloseSnapshot(p)
      PROVE  inode' = Reclaim(entry', mapped')
  BY <1>7 DEF MapPlain, MapSections, MapFiles, CloseSnapshot
<1>8. CASE CollectOne
  BY <1>1, <1>2, <1>8 DEF CollectOne, Remove, snapVars
<1>9. CASE ProcessCrash
  BY <1>2, <1>9 DEF ProcessCrash
<1>10. CASE CollectEnd \/ UNCHANGED vars
  BY <1>1, <1>10 DEF CollectEnd, vars, fsVars
<1> QED BY <1>1, <1>2, <1>4, <1>5, <1>6, <1>7, <1>8, <1>9, <1>10, Steps

(* The inode behind a name that can be opened and read is full.            *)
LEMMA HeldIsFull ==
    ASSUME IndInv, NEW t \in Tx, NEW f \in Files, Holds(t, f)
    PROVE  entry[t][f] \in Tx /\ Full(entry[t][f], f) /\ SameBytes(entry[t][f], t, f)
<1>0. FilesType
  BY TypeParts DEF IndInv
<1>1. entry[t][f] \in Tx
  BY <1>0 DEF FilesType, Holds
<1>2. Full(entry[t][f], f)
  BY <1>1, Basics DEF IndInv, InodesWhole, Holds
<1>3. inode[entry[t][f]][f].from = entry[t][f]
  BY <1>2 DEF Full
<1> QED BY <1>1, <1>2, <1>3 DEF Holds

(* A name stays, goes, or is made by the commit that owns the directory:   *)
(* for a new inode, or as a link to a full one of the same contents.       *)
NameMove(t, f) ==
    \/ entry'[t][f] = entry[t][f]
    \/ entry'[t][f] = NoTx
    \/ \E p \in Clients :
         /\ tx[p] = t /\ pc[p] = "artifacts" /\ f \in todo[p]
         /\ t \in live'
         /\ \/ entry'[t][f] = t
            \/ /\ f \in Sections
               /\ entry'[t][f] \in Tx
               /\ Full(entry'[t][f], f)
               /\ payload[entry'[t][f]][f] = payload[t][f]

(* The names a step may touch: those of a directory that is being written, *)
(* that is removed, or that a power loss found without a flush.            *)
Untouched(t) ==
    /\ t \in live /\ t \in live'
    /\ \A p \in Clients : tx[p] = t /\ pc[p] = "artifacts" => ~CommitStep(p)
    /\ PowerLoss => t \in dirDurable

NamesOf(t) ==
    /\ \A f \in Files : NameMove(t, f)
    /\ t \notin live' => entry'[t] = NoEntries
    /\ Untouched(t) => entry'[t] = entry[t]

(* Linking a section makes one name of the directory being written.        *)
LEMMA LinkNames ==
    ASSUME IndInv, NEW p \in Clients, NEW s \in Sections, LinkSection(p, s), NEW t \in Tx
    PROVE  NamesOf(t)
<1>0. FilesType /\ CommitType /\ StoreType /\ SnapshotType
  BY TypeParts DEF IndInv
<1>1. pc[p] = "artifacts" /\ s \in todo[p] /\ UNCHANGED live
  BY DEF LinkSection, Linking
<1>2. tx[p] \in Tx /\ tx[p] \in live
  BY <1>0, <1>1 DEF IndInv, CommitPositions, CommitType
<1>3. PICK source \in {pin[p], prev[p]} \ {NoTx} :
         /\ Holds(source, s)
         /\ SameBytes(source, tx[p], s)
         /\ entry' = [entry EXCEPT ![tx[p]][s] = entry[source][s]]
  BY DEF LinkSection
<1>4. source \in Tx
  BY <1>0, <1>3 DEF SnapshotType, CommitType
<1> DEFINE i == entry[source][s]
<1>5. i \in Tx /\ Full(i, s) /\ payload[i][s] = payload[tx[p]][s]
  BY <1>3, <1>4, HeldIsFull, Basics DEF SameBytes
<1>6. entry' = [entry EXCEPT ![tx[p]][s] = i]
  BY <1>3
<1> HIDE DEF i
<1>7. CASE t = tx[p]
  <2>1. entry'[t][s] = i /\ \A f \in Files : f # s => entry'[t][f] = entry[t][f]
    BY <1>0, <1>2, <1>6, <1>7, UpdateOne, Basics DEF FilesType
  <2>2. \A f \in Files : NameMove(t, f)
    BY <1>1, <1>2, <1>5, <1>7, <2>1 DEF NameMove
  <2>3. CommitStep(p)
    BY DEF CommitStep
  <2> QED BY <1>1, <1>2, <1>7, <2>2, <2>3 DEF NamesOf, Untouched
<1>8. CASE t # tx[p]
  <2>1. entry'[t] = entry[t]
    BY <1>0, <1>2, <1>6, <1>8 DEF FilesType
  <2>2. t \notin live => entry[t] = NoEntries
    BY <1>0 DEF IndInv, NamesWhole, NoEntries, FilesType
  <2> QED BY <1>1, <2>1, <2>2 DEF NamesOf, NameMove
<1> QED BY <1>7, <1>8

(* Names of a directory that a step leaves alone.                          *)
LEMMA NamesStill ==
    ASSUME IndInv, NEW t \in Tx, entry'[t] = entry[t], t \in live => t \in live'
    PROVE  NamesOf(t)
<1>0. FilesType
  BY TypeParts DEF IndInv
<1>1. t \notin live => entry[t] = NoEntries
  BY <1>0 DEF IndInv, NamesWhole, NoEntries, FilesType
<1> QED BY <1>1 DEF NamesOf, NameMove

(* Names of a directory that is removed.                                   *)
LEMMA NamesGone ==
    ASSUME NEW t \in Tx, entry'[t] = NoEntries, t \notin live'
    PROVE  NamesOf(t)
BY DEF NamesOf, NameMove, NoEntries, Untouched

(* Removing a directory takes its names and leaves the others.             *)
LEMMA RemoveNames ==
    ASSUME IndInv, NEW u \in Tx, Remove(u), NEW t \in Tx
    PROVE  NamesOf(t)
<1>0. FilesType
  BY TypeParts DEF IndInv
<1>1. CASE t = u
  BY <1>0, <1>1, NamesGone DEF Remove, FilesType
<1>2. CASE t # u
  BY <1>0, <1>2, NamesStill DEF Remove, FilesType
<1> QED BY <1>1, <1>2

(* Giving the sections up takes section names of the directory being       *)
(* written.                                                                *)
LEMMA SectionsGoneNames ==
    ASSUME IndInv, NEW p \in Clients, SectionsFail(p) \/ FallBackToPacked(p), NEW t \in Tx
    PROVE  NamesOf(t)
<1>0. FilesType /\ CommitType /\ StoreType
  BY TypeParts DEF IndInv
<1>1. pc[p] = "artifacts" /\ UNCHANGED live
  BY DEF SectionsFail, FallBackToPacked, Linking
<1>2. tx[p] \in Tx /\ tx[p] \in live
  BY <1>0, <1>1 DEF IndInv, CommitPositions, CommitType
<1> DEFINE g == [f \in Files |-> IF f \in Sections THEN NoTx ELSE entry[tx[p]][f]]
<1>3. entry' = [entry EXCEPT ![tx[p]] = g]
  BY <1>0, <1>2 DEF SectionsFail, FallBackToPacked, FilesType
<1>4. CASE t = tx[p]
  <2>1. entry'[t] = g
    BY <1>0, <1>2, <1>3, <1>4 DEF FilesType
  <2>2. \A f \in Files : entry'[t][f] = NoTx \/ entry'[t][f] = entry[t][f]
    BY <1>4, <2>1
  <2>3. CommitStep(p)
    BY DEF CommitStep
  <2> QED BY <1>1, <1>2, <1>4, <2>2, <2>3 DEF NamesOf, NameMove, Untouched
<1>5. CASE t # tx[p]
  <2>1. entry'[t] = entry[t]
    BY <1>0, <1>2, <1>3, <1>5 DEF FilesType
  <2> QED BY <1>1, <2>1, NamesStill
<1> QED BY <1>4, <1>5

(* Opening a file makes one name of the directory being written.           *)
LEMMA OpenNames ==
    ASSUME IndInv, NEW p \in Clients, NEW g \in Files, WriteOpen(p, g), NEW t \in Tx
    PROVE  NamesOf(t)
<1>0. FilesType
  BY TypeParts DEF IndInv
<1>1. pc[p] = "artifacts" /\ UNCHANGED live /\ g \in todo[p]
  BY DEF WriteOpen
<1>2. tx[p] \in Tx /\ tx[p] \in live /\ entry' = [entry EXCEPT ![tx[p]][g] = tx[p]]
  BY WriteOpenBlank
<1>3. /\ entry'[tx[p]][g] = tx[p]
      /\ \A u \in Tx : \A e \in Files : ~(u = tx[p] /\ e = g) => entry'[u][e] = entry[u][e]
      /\ \A u \in Tx : u # tx[p] => entry'[u] = entry[u]
  BY <1>0, <1>2, UpdateOne DEF FilesType
<1>4. CASE t = tx[p]
  <2>1. CommitStep(p)
    BY DEF CommitStep
  <2> QED BY <1>1, <1>2, <1>3, <1>4, <2>1 DEF NamesOf, NameMove, Untouched
<1>5. CASE t # tx[p]
  BY <1>1, <1>3, <1>5, NamesStill
<1> QED BY <1>4, <1>5

(* A power loss takes names, of directories without a flush only.          *)
LEMMA PowerLossNames ==
    ASSUME IndInv, PowerLoss, NEW t \in Tx
    PROVE  NamesOf(t)
<1>1. PICK kept \in SUBSET live : \E full \in {S \in SUBSET kept : kept \cap dirDurable \subseteq S} :
        /\ live' = kept
        /\ entry' = [u \in Tx |-> IF u \in full THEN entry[u] ELSE NoEntries]
  BY DEF PowerLoss
<1>2. PICK full \in SUBSET live' :
        /\ live' \cap dirDurable \subseteq full
        /\ entry' = [u \in Tx |-> IF u \in full THEN entry[u] ELSE NoEntries]
  BY <1>1
<1>3. CASE t \in full
  <2>1. entry'[t] = entry[t] /\ t \in live'
    BY <1>2, <1>3
  <2> QED BY <2>1, NamesStill
<1>4. CASE t \notin full
  <2>1. entry'[t] = NoEntries
    BY <1>2, <1>4
  <2>2. ~Untouched(t)
    BY <1>2, <1>4 DEF Untouched
  <2> QED BY <2>1, <2>2 DEF NamesOf, NameMove, NoEntries
<1> QED BY <1>3, <1>4

(* Every step moves the names of every directory as NamesOf says.          *)
LEMMA NameMoves ==
    ASSUME IndInv, [Next]_vars, NEW t \in Tx
    PROVE  NamesOf(t)
<1>0. FilesType /\ CommitType /\ StoreType /\ CollectorType
  BY TypeParts DEF IndInv
<1>1. CASE UNCHANGED <<entry, live>>
  BY <1>1, NamesStill
<1>2. ASSUME NEW p \in Clients, CommitStep(p)
      PROVE  NamesOf(t)
  <2>1. CASE Cleanup(p)
    <3>1. tx[p] \in Tx
      BY <1>0, <2>1 DEF Cleanup, IndInv, CommitPositions, CommitType
    <3> QED BY <1>1, <2>1, <3>1, RemoveNames DEF Cleanup
  <2>2. CASE CreateTransaction(p)
    <3>1. UNCHANGED entry /\ live \subseteq live'
      BY <2>2 DEF CreateTransaction
    <3> QED BY <3>1, NamesStill
  <2>3. CASE \/ SectionsFail(p) \/ FallBackToPacked(p) \/ \E s \in Sections : LinkSection(p, s)
             \/ \E f \in Files : WriteOpen(p, f)
    BY <2>3, SectionsGoneNames, LinkNames, OpenNames
  <2>4. CASE \/ ReadPrevious(p) \/ CreateFails(p) \/ ArtifactsDone(p) \/ FlushTransaction(p)
             \/ FlushRoot(p) \/ ReplaceCurrent(p) \/ FinalFlush(p)
             \/ \E f \in Files : WriteSync(p, f) \/ WriteFails(p, f)
    BY <1>1, <2>4 DEF ReadPrevious, CreateFails, ArtifactsDone, FlushTransaction, FlushRoot,
                      ReplaceCurrent, FinalFlush, WriteSync, WriteFails, fsVars
  <2> QED BY <1>2, <2>1, <2>2, <2>3, <2>4 DEF CommitStep
<1>3. ASSUME NEW p \in Clients,
             \/ OpenSelected(p) \/ MapPlain(p) \/ MapSections(p) \/ CloseSnapshot(p)
             \/ CollectBegin(p)
      PROVE  UNCHANGED <<entry, live>>
  BY <1>3 DEF OpenSelected, MapPlain, MapSections, MapFiles, CloseSnapshot, CollectBegin, fsVars
<1>4. CASE CollectOne
  <2>1. collector.visit \subseteq Tx
    BY <1>0 DEF CollectorType
  <2> QED BY <1>1, <1>4, <2>1, RemoveNames DEF CollectOne
<1>5. CASE CollectEnd \/ UNCHANGED vars \/ ProcessCrash
  BY <1>1, <1>5 DEF CollectEnd, vars, fsVars, ProcessCrash
<1> QED BY <1>1, <1>2, <1>3, <1>4, <1>5, PowerLossNames, Steps

(* What a commit is asked to store never changes.                          *)
LEMMA PayloadStays ==
    ASSUME CommitType, [Next]_vars
    PROVE  UNCHANGED payload
<1>1. ASSUME NEW p \in Clients, CommitStep(p)
      PROVE  UNCHANGED payload
  BY <1>1, OthersStill
<1> QED
  BY <1>1, Steps DEF OpenSelected, MapPlain, MapSections, MapFiles, CloseSnapshot, CollectBegin,
                     CollectOne, CollectEnd, ProcessCrash, PowerLoss, StopClients, vars, nameVars

(* Names are handed out in increasing order, and a directory is new under  *)
(* a new name.                                                             *)
LEMMA UsedGrows ==
    ASSUME TypeOK, [Next]_vars
    PROVE  used' \in Nat /\ used \in Nat /\ used' >= used
<1>0. StoreType
  BY TypeParts
<1>1. used' \in {used, used + 1}
  <2>1. ASSUME NEW p \in Clients, CommitStep(p)
        PROVE  used' \in {used, used + 1}
    BY <2>1 DEF CommitStep, ReadPrevious, CreateTransaction, CreateFails, LinkSection, SectionsFail,
                FallBackToPacked, WriteOpen, WriteSync, WriteFails, ArtifactsDone, FlushTransaction,
                FlushRoot, ReplaceCurrent, FinalFlush, Cleanup, nameVars
  <2> QED
    BY <2>1, Steps DEF OpenSelected, MapPlain, MapSections, MapFiles, CloseSnapshot, CollectBegin,
                       CollectOne, CollectEnd, ProcessCrash, PowerLoss, StopClients, vars, nameVars
<1> QED BY <1>0, <1>1 DEF StoreType

(* A directory appears under the next name and under no other.             *)
LEMMA LiveGrows ==
    ASSUME [Next]_vars, NEW t \in live', t \notin live
    PROVE  t = used + 1
<1>1. ASSUME NEW p \in Clients, CommitStep(p)
      PROVE  t = used + 1
  BY <1>1 DEF CommitStep, ReadPrevious, CreateTransaction, CreateFails, LinkSection, SectionsFail,
              FallBackToPacked, WriteOpen, WriteSync, WriteFails, ArtifactsDone, FlushTransaction,
              FlushRoot, ReplaceCurrent, FinalFlush, Cleanup, Remove, fsVars
<1>2. ASSUME NEW p \in Clients,
             \/ OpenSelected(p) \/ MapPlain(p) \/ MapSections(p) \/ CloseSnapshot(p)
             \/ CollectBegin(p)
      PROVE  FALSE
  BY <1>2 DEF OpenSelected, MapPlain, MapSections, MapFiles, CloseSnapshot, CollectBegin, fsVars
<1>3. CASE CollectOne
  BY <1>3 DEF CollectOne, Remove
<1>4. CASE CollectEnd \/ UNCHANGED vars \/ ProcessCrash \/ PowerLoss
  BY <1>4 DEF CollectEnd, vars, fsVars, ProcessCrash, PowerLoss
<1> QED BY <1>1, <1>2, <1>3, <1>4, Steps

(* A directory goes only in the cleanup of its commit, in a collection     *)
(* that does not keep it, or in a power loss before a flush of the root.   *)
LEMMA LiveMoves ==
    ASSUME IndInv, [Next]_vars, NEW t \in live, t \notin live'
    PROVE  \/ \E p \in Clients : Cleanup(p) /\ tx[p] = t
           \/ CollectOne /\ collector.on /\ t \notin collector.keep
           \/ PowerLoss /\ t \notin rootDurable
<1>1. ASSUME NEW p \in Clients, CommitStep(p)
      PROVE  Cleanup(p) /\ tx[p] = t
  BY <1>1 DEF CommitStep, ReadPrevious, CreateTransaction, CreateFails, LinkSection, SectionsFail,
              FallBackToPacked, WriteOpen, WriteSync, WriteFails, ArtifactsDone, FlushTransaction,
              FlushRoot, ReplaceCurrent, FinalFlush, Cleanup, Remove, fsVars
<1>2. ASSUME NEW p \in Clients,
             \/ OpenSelected(p) \/ MapPlain(p) \/ MapSections(p) \/ CloseSnapshot(p)
             \/ CollectBegin(p)
      PROVE  FALSE
  BY <1>2 DEF OpenSelected, MapPlain, MapSections, MapFiles, CloseSnapshot, CollectBegin, fsVars
<1>3. CASE CollectOne
  BY <1>3 DEF CollectOne, Remove
<1>4. CASE CollectEnd \/ UNCHANGED vars \/ ProcessCrash
  BY <1>4 DEF CollectEnd, vars, fsVars, ProcessCrash
<1>5. CASE PowerLoss
  BY <1>5 DEF PowerLoss
<1> QED BY <1>1, <1>2, <1>3, <1>4, <1>5, Steps

(* What was flushed stays flushed while its directory exists.              *)
LEMMA DurableMoves ==
    ASSUME IndInv, [Next]_vars, NEW t \in live'
    PROVE  /\ t \in rootDurable => t \in rootDurable'
           /\ t \in dirDurable => t \in dirDurable'
<1>1. ASSUME NEW p \in Clients, CommitStep(p)
      PROVE  /\ t \in rootDurable => t \in rootDurable'
             /\ t \in dirDurable => t \in dirDurable'
  BY <1>1 DEF CommitStep, ReadPrevious, CreateTransaction, CreateFails, LinkSection, SectionsFail,
              FallBackToPacked, WriteOpen, WriteSync, WriteFails, ArtifactsDone, FlushTransaction,
              FlushRoot, ReplaceCurrent, FinalFlush, Cleanup, Remove, RootReachesDisk, fsVars
<1>2. ASSUME NEW p \in Clients,
             \/ OpenSelected(p) \/ MapPlain(p) \/ MapSections(p) \/ CloseSnapshot(p)
             \/ CollectBegin(p)
      PROVE  UNCHANGED <<rootDurable, dirDurable>>
  BY <1>2 DEF OpenSelected, MapPlain, MapSections, MapFiles, CloseSnapshot, CollectBegin, fsVars
<1>3. CASE CollectOne
  BY <1>3 DEF CollectOne, Remove
<1>4. CASE CollectEnd \/ UNCHANGED vars \/ ProcessCrash
  BY <1>4 DEF CollectEnd, vars, fsVars, ProcessCrash
<1>5. CASE PowerLoss
  BY <1>5 DEF PowerLoss
<1> QED BY <1>1, <1>2, <1>3, <1>4, <1>5, Steps

(* A complete transaction whose names stay is complete after the step.     *)
LEMMA StoredStays ==
    ASSUME IndInv, [Next]_vars, NEW t \in Tx, Stored(t), t \in live', entry'[t] = entry[t]
    PROVE  Stored(t)'
<1>0. FilesType
  BY TypeParts DEF IndInv
<1>1. Layout(t)' = Layout(t)
  BY DEF Layout
<1>2. ASSUME NEW f \in Layout(t)
      PROVE  Done(t, f)'
  <2>1. f \in Files /\ Done(t, f)
    BY Basics DEF Stored
  <2>2. PICK i \in Tx : entry[t][f] = i /\ Full(i, f)
    BY <1>0, <2>1 DEF FilesType, Done
  <2>3. Full(i, f)'
    BY <2>1, <2>2, InodeMoves DEF InodeMove
  <2> QED BY <2>2, <2>3, Basics DEF Done, Full
<1> QED BY <1>1, <1>2 DEF Stored

(* A durable transaction that no commit is writing keeps its names and     *)
(* stays durable while its directory exists.                               *)
LEMMA DurableStays ==
    ASSUME IndInv, [Next]_vars, NEW t \in Tx, Durable(t), t \in live',
           \A p \in Clients : tx[p] = t => pc[p] # "artifacts"
    PROVE  entry'[t] = entry[t] /\ Durable(t)'
<1>1. Untouched(t)
  BY DEF Untouched, Durable, Stored
<1>2. entry'[t] = entry[t]
  BY <1>1, NameMoves DEF NamesOf
<1>3. Stored(t)'
  BY <1>2, StoredStays DEF Durable
<1> QED BY <1>2, <1>3, DurableMoves DEF Durable

(* What a selector names is no commit's to write or to clean up, and no    *)
(* collection's and no power loss's to remove.                             *)
LEMMA SelectedStays ==
    ASSUME IndInv, [Next]_vars, NEW t \in onDisk \cup {current}, t # NoTx
    PROVE  t \in Tx /\ t \in live' /\ entry'[t] = entry[t] /\ Durable(t)'
<1>0. StoreType /\ CommitType
  BY TypeParts DEF IndInv
<1>1. t \in Tx /\ Durable(t) /\ t \in live
  BY <1>0 DEF IndInv, SelectedDurable, StoreType, Durable, Stored
<1>2. \A p \in Clients : tx[p] = t => pc[p] \notin {"artifacts", "cleanup"}
  BY DEF IndInv, CommitPositions
<1>3. t \in live'
  <2> SUFFICES ASSUME t \notin live'
               PROVE  FALSE
    OBVIOUS
  <2>1. CASE \E p \in Clients : Cleanup(p) /\ tx[p] = t
    BY <1>2, <2>1 DEF Cleanup
  <2>2. CASE CollectOne /\ collector.on /\ t \notin collector.keep
    BY <2>2 DEF IndInv, CollectionCold
  <2>3. CASE PowerLoss /\ t \notin rootDurable
    BY <1>1, <2>3 DEF Durable
  <2> QED BY <1>1, <2>1, <2>2, <2>3, LiveMoves
<1> QED BY <1>1, <1>2, <1>3, DurableStays

(* Nor is what a snapshot pins, while its directory exists.                *)
LEMMA PinnedStays ==
    ASSUME IndInv, [Next]_vars, NEW p \in Clients, NEW t \in Tx, pin[p] = t, t \in live, t \in live'
    PROVE  entry'[t] = entry[t] /\ Durable(t)'
<1>1. Durable(t)
  BY Basics DEF IndInv, SelectedDurable
<1>2. \A q \in Clients : tx[q] = t => pc[q] # "artifacts"
  BY DEF IndInv, CommitPositions
<1> QED BY <1>1, <1>2, DurableStays

-----------------------------------------------------------------------------
(* The parts of the invariant                                              *)

(* Inodes stay blank or full, through every step.                          *)
LEMMA InodesStep ==
    ASSUME IndInv, [Next]_vars
    PROVE  InodesWhole'
<1>0. StoreType /\ CommitType
  BY TypeParts DEF IndInv
<1>1. used' \in Nat /\ used \in Nat /\ used' >= used
  BY UsedGrows DEF IndInv
<1> SUFFICES ASSUME NEW t \in Tx, NEW f \in Files
             PROVE  /\ inode'[t][f] = Blank \/ Full(t, f)'
                    /\ t > used' => inode'[t][f] = Blank
  BY DEF InodesWhole
<1>2. InodeMove(t, f)
  BY InodeMoves
<1>3. inode[t][f] = Blank \/ Full(t, f)
  BY DEF IndInv, InodesWhole
<1>4. inode'[t][f] = Blank \/ Full(t, f)'
  BY <1>2, <1>3 DEF InodeMove, Full
<1>5. ASSUME t > used'
      PROVE  inode'[t][f] = Blank
  <2>1. t > used /\ inode[t][f] = Blank
    BY <1>1, <1>5 DEF IndInv, InodesWhole, Tx
  <2>2. ASSUME NEW p \in Clients, WriteSync(p, f), tx[p] = t
        PROVE  FALSE
    <3>1. tx[p] \in live
      BY <2>2, WriteSyncOwn
    <3>2. t \in 1..used
      BY <1>0, <2>2, <3>1 DEF StoreType
    <3> QED BY <1>1, <2>1, <3>2
  <2> QED BY <1>2, <2>1, <2>2 DEF InodeMove
<1> QED BY <1>4, <1>5

(* Links stay links to full sections of the same contents.                 *)
LEMMA NamesStep ==
    ASSUME IndInv, [Next]_vars
    PROVE  NamesWhole'
<1>0. FilesType /\ CommitType
  BY TypeParts DEF IndInv
<1>a. UNCHANGED payload
  BY <1>0, PayloadStays
<1>1. ASSUME NEW t \in Tx, NEW f \in Files, t \notin live'
      PROVE  entry'[t][f] = NoTx
  BY <1>1, NameMoves DEF NamesOf, NoEntries
<1>2. ASSUME NEW t \in Tx, NEW f \in Files, NEW i \in Tx, entry'[t][f] = i, i # t
      PROVE  f \in Sections /\ Full(i, f)' /\ payload[i][f] = payload[t][f]
  <2>1. NamesOf(t) /\ InodeMove(i, f)
    BY NameMoves, InodeMoves
  <2>2. CASE entry'[t][f] = entry[t][f]
    <3>1. f \in Sections /\ Full(i, f) /\ payload[i][f] = payload[t][f]
      BY <1>2, <2>2, Basics DEF IndInv, NamesWhole
    <3> QED BY <1>2, <2>1, <3>1 DEF InodeMove
  <2>3. CASE f \in Sections /\ Full(i, f) /\ payload[i][f] = payload[t][f]
    BY <1>2, <2>1, <2>3 DEF InodeMove
  <2> QED BY <1>2, <2>1, <2>2, <2>3, Basics DEF NamesOf, NameMove
<1>3. FilesType'
  BY TypeStep, TypeParts DEF IndInv
<1> SUFFICES ASSUME NEW t \in Tx, NEW f \in Files
             PROVE  /\ t \notin live' => entry'[t][f] = NoTx
                    /\ entry'[t][f] \notin {NoTx, t} =>
                         /\ f \in Sections
                         /\ inode'[entry'[t][f]][f] = [from |-> entry'[t][f], synced |-> TRUE]
                         /\ payload'[entry'[t][f]][f] = payload'[t][f]
  BY DEF NamesWhole, Full
<1>4. PICK i \in Tx \cup {NoTx} : entry'[t][f] = i
  BY <1>3 DEF FilesType
<1>5. CASE i \in Tx /\ i # t
  <2>1. f \in Sections /\ Full(i, f)' /\ payload[i][f] = payload[t][f]
    BY <1>2, <1>4, <1>5
  <2> QED BY <1>1, <1>4, <1>a, <2>1 DEF Full
<1>6. CASE i \in {NoTx, t}
  BY <1>1, <1>4, <1>6
<1> QED BY <1>4, <1>5, <1>6

(* A transaction is selected by the rename over CURRENT and by nothing     *)
(* else.                                                                   *)
LEMMA NewlySelected ==
    ASSUME IndInv, [Next]_vars, NEW t, t \in onDisk' \cup {current'}, t \notin onDisk \cup {current}
    PROVE  \E p \in Clients : ReplaceCurrent(p) /\ tx[p] = t
<1>1. ASSUME NEW p \in Clients, CommitStep(p)
      PROVE  ReplaceCurrent(p) /\ tx[p] = t
  <2>1. CASE FlushRoot(p) \/ FinalFlush(p)
    <3>1. onDisk' \in {onDisk, {current}} /\ UNCHANGED current
      BY <2>1 DEF FlushRoot, FinalFlush, RootReachesDisk
    <3> QED BY <3>1
  <2>2. CASE ReplaceCurrent(p)
    BY <2>2 DEF ReplaceCurrent
  <2>3. CASE UNCHANGED <<onDisk, current>>
    BY <2>3
  <2> QED
    BY <1>1, <2>1, <2>2, <2>3
       DEF CommitStep, ReadPrevious, CreateTransaction, CreateFails, LinkSection, SectionsFail,
           FallBackToPacked, WriteOpen, WriteSync, WriteFails, ArtifactsDone, FlushTransaction,
           Cleanup, fsVars
<1>2. ASSUME NEW p \in Clients,
             \/ OpenSelected(p) \/ MapPlain(p) \/ MapSections(p) \/ CloseSnapshot(p)
             \/ CollectBegin(p)
      PROVE  FALSE
  BY <1>2 DEF OpenSelected, MapPlain, MapSections, MapFiles, CloseSnapshot, CollectBegin, fsVars
<1>3. CASE CollectOne \/ CollectEnd \/ UNCHANGED vars \/ ProcessCrash
  BY <1>3 DEF CollectOne, CollectEnd, vars, fsVars, ProcessCrash
<1>4. CASE PowerLoss
  BY <1>4 DEF PowerLoss
<1> QED BY <1>1, <1>2, <1>3, <1>4, Steps

(* What the selectors name, and what the snapshots pin, stays durable.     *)
LEMMA SelectedStep ==
    ASSUME IndInv, [Next]_vars
    PROVE  SelectedDurable'
<1>0. StoreType /\ CommitType /\ SnapshotType
  BY TypeParts DEF IndInv
<1>1. ASSUME NEW t \in onDisk' \cup {current'}, t # NoTx
      PROVE  Durable(t)'
  <2>1. CASE t \in onDisk \cup {current}
    BY <1>1, <2>1, SelectedStays
  <2>2. CASE t \notin onDisk \cup {current}
    <3>1. PICK p \in Clients : ReplaceCurrent(p) /\ tx[p] = t
      BY <1>1, <2>2, NewlySelected
    <3>2. UNCHANGED <<live, rootDurable, dirDurable, entry, inode>> /\ pc[p] = "replace"
      BY <3>1 DEF ReplaceCurrent
    <3>3. Durable(t)
      BY <3>1, <3>2 DEF IndInv, CommitPositions, Durable
    <3> QED BY <3>2, <3>3 DEF Durable, Stored, Done, Full, Layout
  <2> QED BY <2>1, <2>2
<1>2. ASSUME NEW p \in Clients, NEW t \in Tx, pin'[p] = t
      PROVE  t \in 1..used' /\ (t \in live' => Durable(t)')
  <2>1. SnapshotMove(p)
    BY SnapshotMoves DEF IndInv
  <2>2. \A u \in 1..used : u \in 1..used'
    BY <1>0, UsedGrows DEF IndInv, StoreType
  <2>3. CASE pin[p] = t
    <3>1. t \in 1..used
      BY <2>3, Basics DEF IndInv, SelectedDurable
    <3>2. CASE t \in live
      BY <2>2, <2>3, <3>1, <3>2, PinnedStays
    <3>3. CASE t \notin live
      <4>1. t \notin live'
        BY <1>0, <3>1, <3>3, LiveGrows DEF StoreType
      <4> QED BY <2>2, <3>1, <4>1
    <3> QED BY <3>2, <3>3
  <2>4. CASE t = current
    <3>1. t \in 1..used
      BY <1>0, <2>4, Basics DEF IndInv, SelectedDurable, Durable, Stored, StoreType
    <3> QED BY <2>2, <2>4, <3>1, SelectedStays, Basics
  <2> QED BY <1>2, <2>1, <2>3, <2>4, Basics DEF SnapshotMove
<1>3. SnapshotType'
  BY TypeStep, TypeParts DEF IndInv
<1>4. ASSUME NEW p \in Clients, pin'[p] # NoTx
      PROVE  pin'[p] \in 1..used' /\ (pin'[p] \in live' => Durable(pin[p])')
  <2>1. PICK t \in Tx : pin'[p] = t
    BY <1>3, <1>4 DEF SnapshotType
  <2>2. t \in 1..used' /\ (t \in live' => Durable(t)')
    BY <1>2, <2>1
  <2> QED BY <2>1, <2>2 DEF Durable, Stored, Done, Full, Layout
<1>5. ASSUME NEW t \in (onDisk \cup {current})', t # NoTx
      PROVE  Durable(t)'
  BY <1>1, <1>5
<1> QED BY <1>4, <1>5 DEF SelectedDurable

(* Mappings keep the bytes of their transaction: names of it are durable   *)
(* when they are mapped, and a mapped inode is neither freed nor written.  *)
LEMMA MapsStep ==
    ASSUME IndInv, [Next]_vars
    PROVE  MapsWhole'
<1>0. FilesType /\ CommitType /\ SnapshotType
  BY TypeParts DEF IndInv
<1>a. UNCHANGED payload
  BY <1>0, PayloadStays
<1>1. ASSUME NEW p \in Clients, NEW f \in Files, NEW i \in Tx, mapped'[p][f] = i
      PROVE  \E t \in Tx : pin'[p] = t /\ Full(i, f)' /\ SameBytes(i, t, f)
  <2>0. SnapshotMove(p) /\ InodeMove(i, f)
    BY SnapshotMoves, InodeMoves DEF IndInv
  <2>1. CASE mapped'[p][f] = mapped[p][f] /\ pin'[p] = pin[p]
    <3>1. pin[p] \in Tx /\ Full(i, f) /\ SameBytes(i, pin[p], f)
      BY <1>0, <1>1, <2>1, Basics DEF IndInv, MapsWhole, SnapshotType
    <3> QED BY <1>1, <2>0, <2>1, <3>1 DEF InodeMove
  <2>2. CASE /\ mapped'[p][f] = entry[pin[p]][f]
             /\ pin'[p] = pin[p] /\ pin[p] # NoTx
             /\ f \in Layout(pin[p])
    <3>1. PICK t \in Tx : pin[p] = t
      BY <1>0, <2>2 DEF SnapshotType
    <3>2. entry[t][f] = i /\ t \in live
      BY <1>1, <2>2, <3>1, Basics DEF IndInv, NamesWhole
    <3>3. Durable(t)
      BY <3>1, <3>2, Basics DEF IndInv, SelectedDurable
    <3>4. Full(i, f)
      BY <2>2, <3>1, <3>2, <3>3 DEF Durable, Stored, Done
    <3>5. SameBytes(i, t, f)
      BY <3>2, Basics DEF IndInv, NamesWhole, SameBytes
    <3> QED BY <1>1, <2>0, <2>2, <3>1, <3>4, <3>5 DEF InodeMove
  <2> QED BY <1>1, <2>0, <2>1, <2>2, Basics DEF SnapshotMove
<1>2. SnapshotType'
  BY TypeStep, TypeParts DEF IndInv
<1> SUFFICES ASSUME NEW p \in Clients, NEW f \in Files, mapped'[p][f] # NoTx
             PROVE  /\ pin'[p] # NoTx
                    /\ inode'[mapped'[p][f]][f] = [from |-> mapped'[p][f], synced |-> TRUE]
                    /\ SameBytes(mapped[p][f], pin[p], f)'
  BY DEF MapsWhole, Full
<1>3. PICK i \in Tx : mapped'[p][f] = i
  BY <1>2 DEF SnapshotType
<1>4. PICK t \in Tx : pin'[p] = t /\ Full(i, f)' /\ SameBytes(i, t, f)
  BY <1>1, <1>3
<1> QED BY <1>3, <1>4, <1>a, Basics DEF Full, SameBytes

(* A collection stays beside no commit and keeps what it read at its       *)
(* start.                                                                  *)
LEMMA CollectionStep ==
    ASSUME IndInv, [Next]_vars
    PROVE  CollectionCold'
<1>0. StoreType /\ CommitType /\ SnapshotType /\ CollectorType
  BY TypeParts DEF IndInv
<1>1. CASE UNCHANGED <<collector, pc, onDisk, current, pin>>
  BY <1>1 DEF IndInv, CollectionCold
<1>2. ASSUME NEW p \in Clients, CommitStep(p)
      PROVE  CollectionCold'
  <2>1. UNCHANGED collector
    BY <1>0, <1>2, OthersStill
  <2>2. ~collector.on
    <3>1. pc[p] # "idle" \/ ~collector.on
      BY <1>2 DEF CommitStep, ReadPrevious, CreateTransaction, CreateFails, LinkSection, SectionsFail,
                  FallBackToPacked, Linking, WriteOpen, WriteSync, WriteFails, ArtifactsDone,
                  FlushTransaction, FlushRoot, ReplaceCurrent, FinalFlush, Cleanup
    <3> QED BY <3>1 DEF IndInv, CollectionCold
  <2> QED BY <2>1, <2>2 DEF CollectionCold
<1>3. ASSUME NEW p \in Clients,
             OpenSelected(p) \/ MapPlain(p) \/ MapSections(p) \/ CloseSnapshot(p)
      PROVE  CollectionCold'
  <2>1. UNCHANGED <<collector, pc, onDisk, current>>
    BY <1>3 DEF OpenSelected, MapPlain, MapSections, MapFiles, CloseSnapshot, commitVars, fsVars
  <2>2. \A q \in Clients : pin'[q] \in {pin[q], NoTx, current}
    BY SnapshotMoves DEF IndInv, SnapshotMove
  <2>3. collector.by \subseteq Clients
    BY <1>0 DEF CollectorType
  <2> QED BY <2>1, <2>2, <2>3 DEF IndInv, CollectionCold
<1>4. ASSUME NEW p \in Clients, CollectBegin(p)
      PROVE  CollectionCold'
  <2>1. /\ collector' = [on |-> TRUE, by |-> {p}, keep |-> {current, pin[p]}, visit |-> live]
        /\ UNCHANGED <<pc, onDisk, current, pin>>
        /\ ColdBoundary
    BY <1>4 DEF CollectBegin, fsVars, commitVars, snapVars
  <2> QED BY <2>1 DEF CollectionCold, ColdBoundary
<1>5. CASE CollectOne
  <2>1. /\ collector'.on = collector.on /\ collector'.keep = collector.keep
        /\ collector'.by = collector.by
        /\ UNCHANGED <<pc, onDisk, current, pin>>
    BY <1>0, <1>5 DEF CollectOne, CollectorType, commitVars, snapVars
  <2> QED BY <2>1 DEF IndInv, CollectionCold
<1>6. CASE CollectEnd \/ ProcessCrash \/ PowerLoss
  <2>1. collector'.on = FALSE
    BY <1>6 DEF CollectEnd, ProcessCrash, PowerLoss, StopClients, Idle
  <2> QED BY <2>1 DEF CollectionCold
<1>7. CASE UNCHANGED vars
  BY <1>1, <1>7 DEF vars, fsVars, commitVars, snapVars
<1> QED BY <1>2, <1>3, <1>4, <1>5, <1>6, <1>7, Steps

(* What is selected or pinned after a step was so before it, or is         *)
(* committed by it.                                                        *)
LEMMA SelectionMoves ==
    ASSUME IndInv, [Next]_vars, NEW t \in Tx,
           t \in onDisk' \cup {current'} \/ \E r \in Clients : pin'[r] = t
    PROVE  \/ t \in onDisk \cup {current}
           \/ \E r \in Clients : pin[r] = t
           \/ \E p \in Clients : ReplaceCurrent(p) /\ tx[p] = t
<1>1. CASE \E r \in Clients : pin'[r] = t
  <2>1. PICK r \in Clients : pin'[r] = t
    BY <1>1
  <2>2. SnapshotMove(r)
    BY SnapshotMoves DEF IndInv
  <2> QED BY <2>1, <2>2, Basics DEF SnapshotMove
<1>2. CASE t \in onDisk' \cup {current'} /\ t \notin onDisk \cup {current}
  BY <1>2, NewlySelected
<1> QED BY <1>1, <1>2

(* The directory of a commit that goes on is there, and unless the commit  *)
(* itself takes the step its names stay.                                   *)
LEMMA OwnStays ==
    ASSUME IndInv, [Next]_vars, NEW q \in Clients, NEW t \in Tx, tx[q] = t, tx'[q] = t
    PROVE  /\ t \in live /\ t \in live'
           /\ pc[q] # "artifacts" \/ ~CommitStep(q) => entry'[t] = entry[t]
<1>0. CommitType /\ OneWriter
  BY TypeParts DEF IndInv
<1>1. t \in live /\ pc[q] # "idle"
  BY Basics DEF IndInv, CommitPositions
<1>2. ~PowerLoss
  BY Basics DEF PowerLoss, StopClients
<1>3. t \in live'
  <2> SUFFICES ASSUME t \notin live'
               PROVE  FALSE
    OBVIOUS
  <2>1. CASE \E p \in Clients : Cleanup(p) /\ tx[p] = t
    <3>1. Cleanup(q)
      BY <1>0, <2>1, Basics DEF OneWriter
    <3>2. tx'[q] = NoTx
      BY <1>0, <3>1 DEF Cleanup, Return, CommitType
    <3> QED BY <3>2, Basics
  <2>2. CASE collector.on
    BY <1>1, <2>2 DEF IndInv, CollectionCold
  <2> QED BY <1>1, <1>2, <2>1, <2>2, LiveMoves
<1>4. ASSUME pc[q] # "artifacts" \/ ~CommitStep(q)
      PROVE  entry'[t] = entry[t]
  <2>1. Untouched(t)
    BY <1>0, <1>1, <1>2, <1>3, <1>4, Basics DEF OneWriter, Untouched
  <2> QED BY <2>1, NameMoves DEF NamesOf
<1> QED BY <1>1, <1>3, <1>4

(* What is known of a commit at its position.                              *)
Position(p) ==
    /\ tx[p] # NoTx <=> pc[p] \notin {"idle", "create"}
    /\ tx[p] # NoTx => tx[p] \in live
    /\ pc[p] # "artifacts" => todo[p] = {} /\ writing[p] = {}
    /\ pc[p] \in {"artifacts", "flush_tx", "flush_root", "replace", "cleanup"} =>
         /\ tx[p] \notin onDisk \cup {current}
         /\ \A q \in Clients : pin[q] # tx[p]
    /\ pc[p] \in {"flush_tx", "flush_root", "replace"} => Stored(tx[p])
    /\ pc[p] \in {"flush_root", "replace"} => tx[p] \in dirDurable
    /\ pc[p] = "replace" => tx[p] \in rootDurable

(* A commit that stays where it is.                                        *)
LEMMA PositionStays ==
    ASSUME IndInv, [Next]_vars, NEW q \in Clients, pc'[q] = pc[q], tx'[q] = tx[q],
           pc[q] # "artifacts" => todo'[q] = todo[q] /\ writing'[q] = writing[q]
    PROVE  Position(q)'
<1>0. CommitType /\ OneWriter
  BY TypeParts DEF IndInv
<1>1. Position(q)
  BY DEF IndInv, CommitPositions, Position
<1>2. CASE tx[q] = NoTx
  BY <1>1, <1>2 DEF Position
<1>3. CASE tx[q] # NoTx
  <2>1. PICK t \in Tx : tx[q] = t
    BY <1>0, <1>3 DEF CommitType
  <2>2. t \in live /\ t \in live'
    BY <2>1, OwnStays
  <2>3. ASSUME pc[q] \in {"artifacts", "flush_tx", "flush_root", "replace", "cleanup"}
        PROVE  t \notin onDisk' \cup {current'} /\ \A r \in Clients : pin'[r] # t
    <3>1. \A p \in Clients : ReplaceCurrent(p) => tx[p] # t
      <4> SUFFICES ASSUME NEW p \in Clients, ReplaceCurrent(p), tx[p] = t
                   PROVE  FALSE
        OBVIOUS
      <4>1. p = q
        BY <1>0, <2>1, Basics DEF OneWriter
      <4>2. pc'[q] # pc[q]
        BY <1>0, <4>1 DEF ReplaceCurrent, Go, CommitType
      <4> QED BY <4>2
    <3>2. t \notin onDisk \cup {current} /\ \A r \in Clients : pin[r] # t
      BY <1>1, <2>1, <2>3 DEF Position
    <3> QED BY <3>1, <3>2, SelectionMoves
  <2>4. ASSUME pc[q] \in {"flush_tx", "flush_root", "replace"}
        PROVE  Stored(t)'
    <3>1. entry'[t] = entry[t]
      BY <2>1, <2>4, OwnStays
    <3>2. Stored(t)
      BY <1>1, <2>1, <2>4 DEF Position
    <3> QED BY <2>2, <3>1, <3>2, StoredStays
  <2>5. /\ pc[q] \in {"flush_root", "replace"} => t \in dirDurable'
        /\ pc[q] = "replace" => t \in rootDurable'
    BY <1>1, <2>1, <2>2, DurableMoves DEF Position
  <2>6. pc[q] \in {"flush_tx", "flush_root", "replace"} => Stored(tx[q])'
    BY <2>1, <2>4 DEF Stored, Done, Full, Layout
  <2> QED BY <1>1, <1>3, <2>1, <2>2, <2>3, <2>5, <2>6 DEF Position
<1> QED BY <1>2, <1>3

(* All tasks done and none failed: the transaction is complete.            *)
LEMMA TasksDoneStored ==
    ASSUME IndInv, NEW q \in Clients, pc[q] = "artifacts", todo[q] = {}, writing[q] = {}, ~failed[q]
    PROVE  Stored(tx[q])
<1>0. CommitType
  BY TypeParts DEF IndInv
<1>1. tx[q] \in live
  BY <1>0 DEF IndInv, CommitPositions
<1>2. /\ \A f \in Plain : Done(tx[q], f)
      /\ \/ Done(tx[q], Packed)
         \/ entry[tx[q]][Packed] = NoTx /\ \A s \in Sections : Done(tx[q], s)
  BY DEF IndInv, ArtifactTasks, Pending
<1> QED BY <1>1, <1>2 DEF Stored, Layout, Done

(* A commit that moves on.                                                 *)
LEMMA PositionMoves ==
    ASSUME IndInv, [Next]_vars, NEW q \in Clients, CommitStep(q), pc'[q] # pc[q]
    PROVE  Position(q)'
<1>0. CommitType /\ OneWriter /\ StoreType
  BY TypeParts DEF IndInv
<1>1. Position(q)
  BY DEF IndInv, CommitPositions, Position
<1>2. CASE Return(q)
  <2>1. pc'[q] = "idle" /\ tx'[q] = NoTx /\ todo'[q] = {} /\ writing'[q] = {}
    BY <1>0, <1>2 DEF Return, Go, CommitType
  <2> QED BY <2>1 DEF Position
<1>3. CASE ReadPrevious(q)
  <2>1. pc[q] = "idle" /\ pc'[q] = "create" /\ UNCHANGED <<tx, todo, writing>>
    BY <1>0, <1>3 DEF ReadPrevious, Go, CommitType
  <2> QED BY <1>1, <2>1 DEF Position
<1>4. CASE CreateTransaction(q)
  <2>1. /\ pc'[q] = "artifacts" /\ tx'[q] = used + 1 /\ live' = live \cup {used + 1}
        /\ UNCHANGED <<onDisk, current, pin>>
    BY <1>0, <1>4 DEF CreateTransaction, Go, CommitType, snapVars
  <2>2. used \in Nat /\ used + 1 # NoTx /\ used + 1 \notin 1..used
    BY <1>0 DEF StoreType, NoTx
  <2>3. used + 1 \notin onDisk \cup {current}
    BY <1>0, <2>2 DEF IndInv, SelectedDurable, Durable, Stored, StoreType
  <2>4. \A r \in Clients : pin[r] # used + 1
    BY <2>2 DEF IndInv, SelectedDurable
  <2> QED BY <2>1, <2>2, <2>3, <2>4 DEF Position
<1>5. CASE ArtifactsDone(q)
  <2>1. /\ pc[q] = "artifacts" /\ todo[q] = {} /\ writing[q] = {}
        /\ pc'[q] = IF failed[q] THEN "cleanup" ELSE "flush_tx"
        /\ UNCHANGED <<fsVars, tx, todo, writing, pin>>
    BY <1>0, <1>5 DEF ArtifactsDone, Go, CommitType, snapVars
  <2>2. ~failed[q] => Stored(tx[q])
    BY <2>1, TasksDoneStored
  <2>3. ~failed[q] => Stored(tx[q])'
    BY <2>1, <2>2 DEF Stored, Done, Full, Layout, fsVars
  <2> QED BY <1>1, <2>1, <2>3 DEF Position, fsVars
<1>6. CASE FlushTransaction(q)
  <2>1. /\ pc[q] = "flush_tx"
        /\ \/ pc'[q] = "flush_root" /\ dirDurable' = dirDurable \cup {tx[q]}
           \/ pc'[q] = "cleanup"
        /\ UNCHANGED <<current, onDisk, live, entry, inode, tx, todo, writing, pin>>
    BY <1>0, <1>6 DEF FlushTransaction, Go, CommitType, snapVars
  <2>2. Stored(tx[q])'
    BY <1>1, <2>1 DEF Position, Stored, Done, Full, Layout
  <2> QED BY <1>1, <2>1, <2>2 DEF Position
<1>7. CASE FlushRoot(q)
  <2>1. /\ pc[q] = "flush_root"
        /\ \/ pc'[q] = "replace" /\ rootDurable' = rootDurable \cup live
           \/ pc'[q] = "cleanup"
        /\ onDisk' \in {onDisk, {current}}
        /\ UNCHANGED <<current, live, dirDurable, entry, inode, tx, todo, writing, pin>>
    BY <1>0, <1>7 DEF FlushRoot, RootReachesDisk, Go, CommitType, snapVars
  <2>2. Stored(tx[q])'
    BY <1>1, <2>1 DEF Position, Stored, Done, Full, Layout
  <2>3. tx[q] \notin onDisk' \cup {current'}
    BY <1>1, <2>1 DEF Position
  <2> QED BY <1>1, <2>1, <2>2, <2>3 DEF Position
<1>8. CASE ReplaceCurrent(q)
  <2>1. /\ pc[q] = "replace"
        /\ \/ pc'[q] = "final_flush"
           \/ pc'[q] = "cleanup" /\ UNCHANGED <<current, onDisk>>
        /\ UNCHANGED <<live, tx, todo, writing, pin>>
    BY <1>0, <1>8 DEF ReplaceCurrent, Go, CommitType, snapVars
  <2> QED BY <1>1, <2>1 DEF Position
<1>9. CASE \/ SectionsFail(q) \/ FallBackToPacked(q) \/ \E s \in Sections : LinkSection(q, s)
           \/ \E f \in Files : WriteOpen(q, f) \/ WriteSync(q, f) \/ WriteFails(q, f)
  BY <1>9 DEF SectionsFail, FallBackToPacked, LinkSection, WriteOpen, WriteSync, WriteFails
<1> QED
  BY <1>2, <1>3, <1>4, <1>5, <1>6, <1>7, <1>8, <1>9
     DEF CommitStep, CreateFails, FinalFlush, Cleanup

(* A step inside the artifact tasks keeps the transaction.                 *)
LEMMA TaskStep ==
    ASSUME CommitType, NEW q \in Clients, CommitStep(q), pc'[q] = pc[q]
    PROVE  /\ pc[q] = "artifacts" /\ tx'[q] = tx[q]
           /\ \/ SectionsFail(q) \/ FallBackToPacked(q) \/ \E s \in Sections : LinkSection(q, s)
              \/ \E f \in Files : WriteOpen(q, f) \/ WriteSync(q, f) \/ WriteFails(q, f)
<1>1. CASE \/ ReadPrevious(q) \/ CreateTransaction(q) \/ CreateFails(q) \/ ArtifactsDone(q)
           \/ FlushTransaction(q) \/ FlushRoot(q) \/ ReplaceCurrent(q) \/ FinalFlush(q) \/ Cleanup(q)
  BY <1>1 DEF ReadPrevious, CreateTransaction, CreateFails, ArtifactsDone, FlushTransaction, FlushRoot,
              ReplaceCurrent, FinalFlush, Cleanup, Return, Go, CommitType
<1>2. CASE \/ SectionsFail(q) \/ FallBackToPacked(q) \/ \E s \in Sections : LinkSection(q, s)
           \/ \E f \in Files : WriteOpen(q, f) \/ WriteSync(q, f) \/ WriteFails(q, f)
  BY <1>2 DEF SectionsFail, FallBackToPacked, LinkSection, Linking, WriteOpen, WriteSync, WriteFails
<1> QED BY <1>1, <1>2 DEF CommitStep

(* What is known at each position of a commit, through every step.         *)
LEMMA PositionsStep ==
    ASSUME IndInv, [Next]_vars
    PROVE  CommitPositions'
<1>0. CommitType
  BY TypeParts DEF IndInv
<1> SUFFICES ASSUME NEW q \in Clients
             PROVE  Position(q)'
  BY DEF CommitPositions, Position
<1>1. CASE CommitStep(q)
  <2>1. CASE pc'[q] = pc[q]
    BY <1>0, <1>1, <2>1, TaskStep, PositionStays
  <2>2. CASE pc'[q] # pc[q]
    BY <1>1, <2>2, PositionMoves
  <2> QED BY <2>1, <2>2
<1>2. ASSUME NEW p \in Clients, CommitStep(p), p # q
      PROVE  Position(q)'
  BY <1>0, <1>2, OthersStill, PositionStays
<1>3. CASE UNCHANGED commitVars
  BY <1>3, PositionStays DEF commitVars
<1>4. CASE StopClients
  <2>1. pc'[q] = "idle" /\ tx'[q] = NoTx /\ todo'[q] = {} /\ writing'[q] = {}
    BY <1>4 DEF StopClients
  <2> QED BY <2>1 DEF Position
<1> QED BY <1>1, <1>2, <1>3, <1>4, CommitsStill

-----------------------------------------------------------------------------
(* The artifact tasks                                                      *)

Tasks(p) ==
    /\ \A f \in todo[p] : entry[tx[p]][f] = NoTx /\ inode[tx[p]][f] = Blank
    /\ \A f \in writing[p] : entry[tx[p]][f] = tx[p] /\ inode[tx[p]][f] = Blank
    /\ todo[p] \cap Sections # {} =>
         /\ Packed \notin todo[p]
         /\ entry[tx[p]][Packed] = NoTx
         /\ inode[tx[p]][Packed] = Blank
    /\ ~failed[p] =>
         /\ \A f \in Plain : Pending(p, f) \/ Done(tx[p], f)
         /\ \/ Pending(p, Packed) \/ Done(tx[p], Packed)
            \/ /\ entry[tx[p]][Packed] = NoTx
               /\ \A s \in Sections : Pending(p, s) \/ Done(tx[p], s)

(* A task that is done stays done while its name does.                     *)
LEMMA DoneStays ==
    ASSUME IndInv, [Next]_vars, NEW t \in Tx, NEW f \in Files, Done(t, f), entry'[t][f] = entry[t][f]
    PROVE  Done(t, f)'
<1>0. FilesType
  BY TypeParts DEF IndInv
<1>1. PICK i \in Tx : entry[t][f] = i /\ Full(i, f)
  BY <1>0 DEF FilesType, Done
<1>2. Full(i, f)'
  BY <1>1, InodeMoves DEF InodeMove
<1> QED BY <1>1, <1>2, Basics DEF Done, Full

(* The tasks of a commit that another actor's step leaves alone.           *)
LEMMA TasksStay ==
    ASSUME IndInv, [Next]_vars, NEW q \in Clients, pc[q] = "artifacts", ~CommitStep(q),
           tx'[q] = tx[q], todo'[q] = todo[q], writing'[q] = writing[q], failed'[q] = failed[q]
    PROVE  Tasks(q)'
<1>0. CommitType /\ OneWriter
  BY TypeParts DEF IndInv
<1>1. Tasks(q)
  BY DEF IndInv, ArtifactTasks, Tasks
<1>2. PICK t \in Tx : tx[q] = t
  BY <1>0 DEF IndInv, CommitPositions, CommitType
<1>3. entry'[t] = entry[t]
  BY <1>2, OwnStays
<1>4. ASSUME NEW f \in Files, inode[t][f] = Blank
      PROVE  inode'[t][f] = Blank
  <2>1. ASSUME NEW p \in Clients, WriteSync(p, f), tx[p] = t
        PROVE  FALSE
    <3>1. p = q
      BY <1>0, <1>2, <2>1, Basics DEF OneWriter
    <3> QED BY <2>1, <3>1 DEF CommitStep
  <2> QED BY <1>4, <2>1, InodeMoves DEF InodeMove
<1>5. \A f \in Files : Done(t, f) => Done(t, f)'
  BY <1>3, DoneStays
<1>6. todo[q] \subseteq Files /\ writing[q] \subseteq Files
  BY <1>0 DEF CommitType
<1>7. /\ \A f \in todo[q] : entry'[t][f] = NoTx /\ inode'[t][f] = Blank
      /\ \A f \in writing[q] : entry'[t][f] = t /\ inode'[t][f] = Blank
      /\ todo[q] \cap Sections # {} =>
           /\ Packed \notin todo[q]
           /\ entry'[t][Packed] = NoTx
           /\ inode'[t][Packed] = Blank
  BY <1>1, <1>2, <1>3, <1>4, <1>6, Basics DEF Tasks
<1>8. ~failed[q] =>
         /\ \A f \in Plain : Pending(q, f) \/ Done(t, f)'
         /\ \/ Pending(q, Packed) \/ Done(t, Packed)'
            \/ /\ entry'[t][Packed] = NoTx
               /\ \A s \in Sections : Pending(q, s) \/ Done(t, s)'
  BY <1>1, <1>2, <1>3, <1>5, Basics DEF Tasks
<1>9. \A f : Done(t, f)' <=> Done(tx[q], f)'
  BY <1>2 DEF Done, Full
<1>10. \A f : Pending(q, f)' <=> Pending(q, f)
  BY DEF Pending
<1> QED BY <1>2, <1>7, <1>8, <1>9, <1>10 DEF Tasks

(* The same of a transaction and of sets of tasks.                         *)
TaskSets(t, D, W, F) ==
    /\ \A f \in D : entry[t][f] = NoTx /\ inode[t][f] = Blank
    /\ \A f \in W : entry[t][f] = t /\ inode[t][f] = Blank
    /\ D \cap Sections # {} =>
         /\ Packed \notin D
         /\ entry[t][Packed] = NoTx
         /\ inode[t][Packed] = Blank
    /\ ~F =>
         /\ \A f \in Plain : f \in D \cup W \/ Done(t, f)
         /\ \/ Packed \in D \cup W \/ Done(t, Packed)
            \/ /\ entry[t][Packed] = NoTx
               /\ \A s \in Sections : s \in D \cup W \/ Done(t, s)

(* The tasks of a client, from those of its transaction after the step.    *)
LEMMA TasksAre ==
    ASSUME NEW q, NEW t, NEW D, NEW W, NEW F,
           tx'[q] = t, todo'[q] = D, writing'[q] = W, failed'[q] = F, TaskSets(t, D, W, F)'
    PROVE  Tasks(q)'
<1>1. \A f : Done(t, f)' <=> Done(tx[q], f)'
  BY DEF Done, Full
<1>2. \A f : Pending(q, f)' <=> f \in D \cup W
  BY DEF Pending
<1> QED BY <1>1, <1>2 DEF Tasks, TaskSets

(* The tasks of a commit that takes a step among them.                     *)
LEMMA TasksMove ==
    ASSUME IndInv, [Next]_vars, NEW q \in Clients, CommitStep(q), pc'[q] = pc[q]
    PROVE  Tasks(q)'
<1>0. CommitType /\ FilesType
  BY TypeParts DEF IndInv
<1>a. pc[q] = "artifacts" /\ tx'[q] = tx[q]
  BY <1>0, TaskStep
<1>b. PICK t \in Tx, D \in SUBSET Files, W \in SUBSET Files, F \in BOOLEAN :
         tx[q] = t /\ todo[q] = D /\ writing[q] = W /\ failed[q] = F
  BY <1>0, <1>a DEF IndInv, CommitPositions, CommitType
<1>c. TaskSets(t, D, W, F)
  BY <1>a, <1>b DEF IndInv, ArtifactTasks, TaskSets, Pending
<1>d. \A f \in Files : Done(t, f) /\ entry'[t][f] = entry[t][f] => Done(t, f)'
  BY DoneStays
<1>e. /\ Packed \notin Sections /\ Plain \cap Sections = {}
      /\ Sections \subseteq Files /\ Plain \subseteq Files /\ Packed \in Files /\ NoTx # t
  BY StoreAssumption, Basics
<1>1. ASSUME NEW s \in Sections, LinkSection(q, s)
      PROVE  Tasks(q)'
  <2>1. PICK i : Done(t, s)' /\ entry'[t][s] = i
    <3>1. PICK source \in {pin[q], prev[q]} \ {NoTx} :
             /\ Holds(source, s)
             /\ entry' = [entry EXCEPT ![tx[q]][s] = entry[source][s]]
      BY <1>1 DEF LinkSection
    <3>2. source \in Tx
      BY <1>0, <3>1, TypeParts DEF IndInv, SnapshotType, CommitType
    <3>3. PICK i \in Tx : entry[source][s] = i /\ Full(i, s)
      BY <3>1, <3>2, HeldIsFull, Basics
    <3>4. entry'[t][s] = i
      BY <1>0, <1>b, <1>e, <3>1, <3>3 DEF FilesType
    <3>5. Full(i, s)'
      BY <1>1, <3>3 DEF LinkSection, Full
    <3> QED BY <3>4, <3>5, Basics DEF Done, Full
  <2>2. /\ s \in D /\ D \cap Sections # {} /\ (D \ {s}) \cap Sections \subseteq D \cap Sections
        /\ \A f \in Files : f # s => entry'[t][f] = entry[t][f]
        /\ UNCHANGED inode
    BY <1>0, <1>1, <1>b, <1>e DEF LinkSection, FilesType
  <2>3. todo'[q] = D \ {s} /\ writing'[q] = W /\ failed'[q] = F
    BY <1>0, <1>1, <1>b DEF LinkSection, CommitType
  <2>4. s \notin W
    BY <1>c, <1>e, <2>2 DEF TaskSets
  <2>5. TaskSets(t, D \ {s}, W, F)'
    BY <1>c, <1>d, <1>e, <2>1, <2>2, <2>4 DEF TaskSets
  <2> QED BY <1>a, <1>b, <2>3, <2>5, TasksAre
<1>2. ASSUME SectionsFail(q) \/ FallBackToPacked(q)
      PROVE  Tasks(q)'
  <2>1. /\ D \cap Sections # {} /\ W \cap Sections = {}
        /\ \A f \in Files : entry'[t][f] = IF f \in Sections THEN NoTx ELSE entry[t][f]
        /\ UNCHANGED inode
    <3>1. D \cap Sections # {} /\ (\A s \in Sections : entry[t][s] # t) /\ UNCHANGED inode
      BY <1>2, <1>b DEF SectionsFail, FallBackToPacked, Linking
    <3> DEFINE g == [f \in Files |-> IF f \in Sections THEN NoTx ELSE entry[t][f]]
    <3>2. entry' = [entry EXCEPT ![t] = g]
      <4>1. entry' = [entry EXCEPT ![tx[q]] =
                         [f \in Files |-> IF f \in Sections THEN NoTx ELSE entry[tx[q]][f]]]
        BY <1>0, <1>2, <1>b DEF SectionsFail, FallBackToPacked, FilesType
      <4> QED BY <1>b, <4>1
    <3>3. entry'[t] = g
      BY <1>0, <3>2 DEF FilesType
    <3> QED BY <1>c, <3>1, <3>3 DEF TaskSets
  <2>2. CASE SectionsFail(q)
    <3>1. todo'[q] = D \ Sections /\ writing'[q] = W /\ failed'[q] = TRUE
      BY <1>0, <1>b, <2>2 DEF SectionsFail, CommitType
    <3>2. TaskSets(t, D \ Sections, W, TRUE)'
      BY <1>c, <1>e, <2>1 DEF TaskSets
    <3> QED BY <1>a, <1>b, <3>1, <3>2, TasksAre
  <2>3. CASE FallBackToPacked(q)
    <3>1. todo'[q] = (D \ Sections) \cup {Packed} /\ writing'[q] = W /\ failed'[q] = F
      BY <1>0, <1>b, <2>3 DEF FallBackToPacked, CommitType
    <3>2. TaskSets(t, (D \ Sections) \cup {Packed}, W, F)'
      BY <1>c, <1>d, <1>e, <2>1 DEF TaskSets
    <3> QED BY <1>a, <1>b, <3>1, <3>2, TasksAre
  <2> QED BY <1>2, <2>2, <2>3
<1>3. ASSUME NEW f \in Files, WriteOpen(q, f)
      PROVE  Tasks(q)'
  <2>1. /\ f \in D /\ UNCHANGED inode /\ entry'[t][f] = t
        /\ \A g \in Files : g # f => entry'[t][g] = entry[t][g]
    <3>1. f \in D /\ UNCHANGED inode /\ entry' = [entry EXCEPT ![t][f] = t]
      BY <1>3, <1>b, WriteOpenBlank DEF WriteOpen
    <3> QED BY <1>0, <3>1, UpdateOne DEF FilesType
  <2>2. todo'[q] = D \ {f} /\ writing'[q] = W \cup {f} /\ failed'[q] = F
    BY <1>0, <1>3, <1>b DEF WriteOpen, CommitType
  <2>3. D \cap Sections # {} => f # Packed
    BY <1>c, <2>1 DEF TaskSets
  <2>4. TaskSets(t, D \ {f}, W \cup {f}, F)'
    BY <1>c, <1>d, <1>e, <2>1, <2>3 DEF TaskSets
  <2> QED BY <1>a, <1>b, <2>2, <2>4, TasksAre
<1>4. ASSUME NEW f \in Files, WriteSync(q, f)
      PROVE  Tasks(q)'
  <2>1. /\ f \in W /\ UNCHANGED entry /\ Full(t, f)'
        /\ \A g \in Files : g # f => inode'[t][g] = inode[t][g]
    BY <1>0, <1>4, <1>b, WriteSyncOwn DEF FilesType, WriteSync, Full
  <2>2. entry[t][f] = t
    BY <1>c, <2>1 DEF TaskSets
  <2>3. todo'[q] = D /\ writing'[q] = W \ {f} /\ failed'[q] = F
    BY <1>0, <1>4, <1>b DEF WriteSync, CommitType
  <2>4. Done(t, f)' /\ f \notin D /\ (D \cap Sections # {} => f # Packed)
    BY <1>c, <1>e, <2>1, <2>2 DEF TaskSets, Done, Full
  <2>5. TaskSets(t, D, W \ {f}, F)'
    BY <1>c, <1>d, <1>e, <2>1, <2>4 DEF TaskSets
  <2> QED BY <1>a, <1>b, <2>3, <2>5, TasksAre
<1>5. ASSUME NEW f \in Files, WriteFails(q, f)
      PROVE  Tasks(q)'
  <2>1. todo'[q] = D /\ writing'[q] = W \ {f} /\ failed'[q] = TRUE
    BY <1>0, <1>5, <1>b DEF WriteFails, CommitType
  <2>2. UNCHANGED <<entry, inode>>
    BY <1>5 DEF WriteFails, fsVars
  <2>3. TaskSets(t, D, W \ {f}, TRUE)'
    BY <1>c, <2>2 DEF TaskSets
  <2> QED BY <1>a, <1>b, <2>1, <2>3, TasksAre
<1> QED BY <1>0, <1>1, <1>2, <1>3, <1>4, <1>5, TaskStep

(* The tasks of a new transaction: nothing exists under its name.          *)
LEMMA TasksBegin ==
    ASSUME IndInv, NEW q \in Clients, CreateTransaction(q)
    PROVE  Tasks(q)'
<1>0. CommitType /\ FilesType /\ StoreType
  BY TypeParts DEF IndInv
<1>1. used \in Nat /\ used + 1 \in Tx /\ used + 1 \notin live
  BY <1>0, StoreAssumption DEF CreateTransaction, StoreType, Tx
<1>2. PICK t \in Tx : t = used + 1 /\ t > used
  BY <1>1
<1>3. \A f \in Files : entry[t][f] = NoTx /\ inode[t][f] = Blank
  BY <1>1, <1>2 DEF IndInv, NamesWhole, InodesWhole
<1>4. PICK parts \in {Sections, {Packed}} : todo' = [todo EXCEPT ![q] = Plain \cup parts]
  BY DEF CreateTransaction
<1>5. tx'[q] = t /\ todo'[q] = Plain \cup parts /\ writing'[q] = {} /\ failed'[q] = FALSE
  BY <1>0, <1>2, <1>4 DEF CreateTransaction, CommitType
<1>6. UNCHANGED <<entry, inode>>
  BY DEF CreateTransaction
<1>7. TaskSets(t, Plain \cup parts, {}, FALSE)'
  BY <1>3, <1>4, <1>6, StoreAssumption, Basics DEF TaskSets
<1> QED BY <1>5, <1>7, TasksAre

(* The artifact tasks, through every step.                                 *)
LEMMA TasksStep ==
    ASSUME IndInv, [Next]_vars
    PROVE  ArtifactTasks'
<1>0. CommitType
  BY TypeParts DEF IndInv
<1> SUFFICES ASSUME NEW q \in Clients, pc'[q] = "artifacts"
             PROVE  Tasks(q)'
  BY DEF ArtifactTasks, Tasks
<1>1. CASE CommitStep(q)
  <2>1. CASE pc'[q] = pc[q]
    BY <1>1, <2>1, TasksMove
  <2>2. CASE pc'[q] # pc[q]
    <3>1. CreateTransaction(q)
      BY <1>0, <1>1, <2>2
         DEF CommitStep, ReadPrevious, CreateFails, LinkSection, SectionsFail,
             FallBackToPacked, WriteOpen, WriteSync, WriteFails, ArtifactsDone, FlushTransaction,
             FlushRoot, ReplaceCurrent, FinalFlush, Cleanup, Return, Go, CommitType
    <3> QED BY <3>1, TasksBegin
  <2> QED BY <2>1, <2>2
<1>2. ASSUME NEW p \in Clients, CommitStep(p), p # q, ~CommitStep(q)
      PROVE  Tasks(q)'
  BY <1>0, <1>2, OthersStill, TasksStay
<1>3. CASE UNCHANGED commitVars /\ ~CommitStep(q)
  BY <1>3, TasksStay DEF commitVars
<1>4. CASE StopClients
  BY <1>4 DEF StopClients
<1> QED BY <1>1, <1>2, <1>3, <1>4, CommitsStill

-----------------------------------------------------------------------------
(* The theorems                                                            *)

(* An empty store satisfies the invariant.                                 *)
LEMMA InitInv == Init => IndInv
<1> SUFFICES ASSUME Init
             PROVE  IndInv
  OBVIOUS
<1>1. \A t \in Tx : \A f \in Files : entry[t][f] = NoTx /\ inode[t][f] = Blank
  BY DEF Init, NoEntries
<1>2. TypeOK
  <2>1. StoreType
    BY StoreAssumption DEF Init, StoreType, Tx
  <2>2. CollectorType
    BY DEF Init, Idle, CollectorType
  <2>3. FilesType
    <3>1. Blank \in [from : Tx \cup {NoTx}, synced : BOOLEAN]
      BY DEF Blank
    <3> DEFINE R == [from : Tx \cup {NoTx}, synced : BOOLEAN]
    <3>2. inode \in [Tx -> [Files -> R]]
      <4>1. Blank \in R
        BY <3>1
      <4> HIDE DEF R
      <4> QED BY <4>1 DEF Init
    <3> QED BY <3>2 DEF Init, FilesType, NoEntries
  <2>4. CommitType /\ OneWriter
    BY DEF Init, CommitType, OneWriter
  <2>5. SnapshotType
    BY DEF Init, SnapshotType, NoEntries
  <2> QED BY <2>1, <2>2, <2>3, <2>4, <2>5, TypeParts
<1>3. InodesWhole /\ NamesWhole
  BY <1>1 DEF InodesWhole, NamesWhole
<1>4. CommitPositions /\ ArtifactTasks
  BY DEF Init, CommitPositions, ArtifactTasks
<1>5. SelectedDurable /\ MapsWhole /\ CollectionCold
  BY DEF Init, SelectedDurable, MapsWhole, CollectionCold, NoEntries, Idle
<1> QED BY <1>2, <1>3, <1>4, <1>5 DEF IndInv

(* Every step keeps the invariant.                                         *)
LEMMA StepInv ==
    ASSUME IndInv, [Next]_vars
    PROVE  IndInv'
BY TypeStep, InodesStep, NamesStep, PositionsStep, TasksStep, SelectedStep, MapsStep, CollectionStep
   DEF IndInv

(* The invariant holds in every behaviour of the store.                    *)
THEOREM Inductive == Spec => []IndInv
BY InitInv, StepInv, PTL DEF Spec

(* Types hold, directories exist only under names handed out and no two    *)
(* commits write into one directory.                                       *)
THEOREM TypeCorrect == Spec => []TypeOK
<1>1. IndInv => TypeOK
  BY DEF IndInv
<1> QED BY <1>1, Inductive, PTL

(* The selectors a crash or a power loss may leave in CURRENT name         *)
(* complete, durable transactions.                                         *)
THEOREM PowerLossSafe == Spec => []SurvivesPowerLoss
<1>1. IndInv => SurvivesPowerLoss
  <2> SUFFICES ASSUME IndInv, NEW t \in (onDisk \cup {current}) \ {NoTx}
               PROVE  /\ Readable(t)
                      /\ t \in rootDurable \cap dirDurable
                      /\ \A f \in Layout(t) : inode[entry[t][f]][f].synced
    BY DEF SurvivesPowerLoss
  <2>1. t \in Tx /\ Durable(t) /\ FilesType
    BY TypeParts DEF IndInv, StoreType, SelectedDurable
  <2>2. ASSUME NEW f \in Layout(t)
        PROVE  Holds(t, f) /\ inode[entry[t][f]][f].synced
    <3>1. f \in Files /\ Done(t, f)
      BY <2>1, Basics DEF Durable, Stored
    <3>2. PICK i \in Tx : entry[t][f] = i /\ Full(i, f)
      BY <2>1, <3>1 DEF FilesType, Done
    <3>3. inode[i][f].from = i /\ inode[i][f].synced
      BY <3>2 DEF Full
    <3>4. SameBytes(i, t, f)
      BY <2>1, <3>1, <3>2, Basics DEF IndInv, NamesWhole, SameBytes
    <3> QED BY <3>2, <3>3, <3>4, Basics DEF Holds
  <2> QED BY <2>1, <2>2 DEF Readable, Durable, Stored
<1> QED BY <1>1, Inductive, PTL

(* What a snapshot has mapped are the bytes of its transaction.            *)
THEOREM SnapshotsCoherent == Spec => []SnapshotCoherent
<1>1. IndInv => SnapshotCoherent
  <2> SUFFICES ASSUME IndInv, NEW p \in Clients, NEW f \in Files, mapped[p][f] # NoTx
               PROVE  LET bytes == inode[mapped[p][f]][f].from
                      IN bytes # NoTx /\ SameBytes(bytes, pin[p], f)
    BY DEF SnapshotCoherent
  <2>1. Full(mapped[p][f], f) /\ SameBytes(mapped[p][f], pin[p], f)
    BY DEF IndInv, MapsWhole
  <2>2. inode[mapped[p][f]][f].from = mapped[p][f]
    BY <2>1 DEF Full
  <2> QED BY <2>1, <2>2
<1> QED BY <1>1, Inductive, PTL

(* The files of a transaction that is selected or pinned stay as they are  *)
(* while its directory exists.                                             *)
LEMMA BytesStay ==
    ASSUME IndInv, [Next]_vars, NEW t \in Tx, t \in live, t \in live',
           t \in onDisk \cup {current} \/ \E p \in Clients : pin[p] = t
    PROVE  entry'[t] = entry[t] /\ \A f \in Files : Bytes(t, f)' = Bytes(t, f)
<1>0. FilesType
  BY TypeParts DEF IndInv
<1>1. entry'[t] = entry[t]
  BY SelectedStays, PinnedStays, Basics
<1>2. \A p \in Clients : tx[p] = t => pc[p] # "artifacts"
  BY DEF IndInv, CommitPositions
<1>3. ASSUME NEW f \in Files, NEW i \in Tx, entry[t][f] = i
      PROVE  inode'[i][f] = inode[i][f]
  <2>1. InodeMove(i, f)
    BY InodeMoves
  <2>2. CASE Full(i, f)
    BY <1>1, <1>3, <2>1, <2>2 DEF InodeMove, Full
  <2>3. CASE inode[i][f] = Blank
    <3>1. i = t
      BY <1>3, <2>3, Basics DEF IndInv, NamesWhole, Full
    <3>2. ASSUME NEW p \in Clients, WriteSync(p, f), tx[p] = i
          PROVE  FALSE
      BY <1>2, <3>1, <3>2 DEF WriteSync
    <3> QED BY <2>1, <2>3, <3>2 DEF InodeMove
  <2> QED BY <2>2, <2>3 DEF IndInv, InodesWhole
<1>4. ASSUME NEW f \in Files
      PROVE  Bytes(t, f)' = Bytes(t, f)
  <2>1. PICK i \in Tx \cup {NoTx} : entry[t][f] = i
    BY <1>0 DEF FilesType
  <2> QED BY <1>1, <1>3, <2>1 DEF Bytes
<1> QED BY <1>1, <1>4

(* Transaction directories are immutable after their commit.               *)
THEOREM TransactionsImmutable == Spec => CommittedImmutable
<1>1. ASSUME IndInv, [Next]_vars
      PROVE  \A t \in onDisk \cup {current} \cup {pin[p] : p \in Clients} :
               t \in live /\ t \in live' => \A f \in Files : Bytes(t, f)' = Bytes(t, f)
  <2> SUFFICES ASSUME NEW t \in onDisk \cup {current} \cup {pin[p] : p \in Clients},
                      t \in live, t \in live'
               PROVE  \A f \in Files : Bytes(t, f)' = Bytes(t, f)
    OBVIOUS
  <2>1. t \in Tx
    BY <1>1 DEF IndInv, TypeOK
  <2>2. t \in onDisk \cup {current} \/ \E p \in Clients : pin[p] = t
    OBVIOUS
  <2> QED BY <1>1, <2>1, <2>2, BytesStay
<1> QED BY <1>1, Inductive, PTL DEF Spec, CommittedImmutable

(* What a Project has not mapped yet stays readable, whatever anyone       *)
(* commits, and through every collection while it is CURRENT or mapped by  *)
(* the Project that collects.                                              *)
THEOREM PinnedMappable == Spec => PinnedStaysMappable
<1>1. ASSUME IndInv, [Next]_vars
      PROVE  \A p \in Clients :
               pin[p] # NoTx /\ pin'[p] = pin[p] /\ Readable(pin[p]) =>
                 \/ Readable(pin[p])'
                 \/ collector.on /\ pin[p] \notin {current} \cup {pin[q] : q \in collector.by}
  <2> SUFFICES ASSUME NEW p \in Clients, pin[p] # NoTx, pin'[p] = pin[p], Readable(pin[p]),
                      ~(collector.on /\ pin[p] \notin {current} \cup {pin[q] : q \in collector.by})
               PROVE  Readable(pin[p])'
    OBVIOUS
  <2>0. SnapshotType /\ CommitType /\ FilesType
    BY <1>1, TypeParts DEF IndInv
  <2>1. PICK t \in Tx : pin[p] = t
    BY <2>0 DEF SnapshotType
  <2>2. t \in live /\ Readable(t)
    BY <2>1 DEF Readable
  <2>3. t \in live'
    <3> SUFFICES ASSUME t \notin live'
                 PROVE  FALSE
      OBVIOUS
    <3>1. CASE \E q \in Clients : Cleanup(q) /\ tx[q] = t
      BY <1>1, <2>1, <3>1 DEF Cleanup, IndInv, CommitPositions
    <3>2. CASE collector.on /\ t \notin collector.keep
      BY <1>1, <2>1, <3>2, Basics DEF IndInv, CollectionCold
    <3>3. CASE PowerLoss
      BY <2>1, <3>3, Basics DEF PowerLoss, StopClients
    <3> QED BY <1>1, <2>2, <3>1, <3>2, <3>3, LiveMoves
  <2>4. entry'[t] = entry[t] /\ \A f \in Files : Bytes(t, f)' = Bytes(t, f)
    BY <1>1, <2>1, <2>2, <2>3, BytesStay
  <2>5. UNCHANGED payload
    BY <1>1, <2>0, PayloadStays
  <2>6. Layout(t)' = Layout(t) /\ Layout(t) \subseteq Files
    BY <2>4, Basics DEF Layout
  <2>7. ASSUME NEW f \in Layout(t)
        PROVE  Holds(t, f)'
    <3>1. f \in Files /\ Holds(t, f)
      BY <2>2, <2>6 DEF Readable
    <3>2. Bytes(t, f)' = Bytes(t, f)
      BY <2>4, <3>1
    <3> QED BY <2>4, <2>5, <3>1, <3>2 DEF Holds, Bytes, SameBytes
  <2>8. Readable(t)'
    BY <2>3, <2>6, <2>7 DEF Readable
  <2> QED BY <2>1, <2>8 DEF Readable, Holds, Layout, SameBytes
<1> QED BY <1>1, Inductive, PTL DEF Spec, PinnedStaysMappable
=============================================================================
