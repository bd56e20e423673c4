---------------------------- MODULE BaselineStore ----------------------------
(***************************************************************************)
(* The persistent baseline store of one Project configuration: immutable   *)
(* transaction directories, the CURRENT selector, snapshots that map the   *)
(* files of a transaction, and the garbage collector.                      *)
(*                                                                         *)
(* A transaction holds plain files (compiled.bin, manifest.bin, ...) and   *)
(* section files; a section may be a hard link to the file of an earlier   *)
(* transaction.  An inode is named by the transaction that created it, so  *)
(* entry[t][f] = u reads "name f of transaction t is inode <u, f>".        *)
(* What an inode holds is named by the transaction whose bytes were        *)
(* written to it last (0: truncated or torn).                              *)
(*                                                                         *)
(* The file system is the weakest one POSIX allows: bytes survive a power  *)
(* loss after fsync of the file, a name after fsync of its directory.      *)
(***************************************************************************)
EXTENDS Naturals, FiniteSets

CONSTANTS Clients,     \* Projects (threads or processes) sharing the store
          Plain,       \* files every commit writes itself
          Sections,    \* section files, which a commit may link instead
          Values,      \* contents a section can have
          MaxTx,       \* bound: transaction names handed out
          MaxFaults    \* bound: process crashes and power losses

Packed == "packed"     \* source_manager.bin/build_cache.bin as one whole file
Files  == Plain \cup Sections \cup {Packed}
Tx     == 1..MaxTx
NoTx   == 0

ASSUME StoreAssumption ==
    /\ MaxTx \in Nat \ {0}
    /\ MaxFaults \in Nat
    /\ Plain \cap Sections = {}
    /\ Packed \notin Plain \cup Sections

VARIABLES current,      \* transaction CURRENT selects, or NoTx
          onDisk,       \* selectors a power loss may leave in CURRENT
          live,         \* transaction directories that exist
          rootDurable,  \* ... whose name in the root directory is durable
          dirDurable,   \* ... whose own entries are durable
          entry,        \* entry[t][f]: the inode a name refers to
          inode,        \* inode[t][f]: the bytes it holds and whether they are synced
          payload,      \* payload[t]: section contents the t-th commit is asked to store
          used,         \* transaction names handed out
          faults,       \* crashes so far
          pc,           \* client: position in commit
          tx,           \* client: the transaction it is writing
          prev,         \* client: the transaction commit read from CURRENT
          todo,         \* client: files not yet linked or opened
          writing,      \* client: files opened and truncated, not yet synced
          failed,       \* client: some artifact task failed
          pin,          \* client: transaction of its snapshot
          mapped,       \* client: inode behind each mapped file, or NoTx
          collector     \* collect_garbage: what it keeps and what it still visits

fsVars     == <<current, onDisk, live, rootDurable, dirDurable, entry, inode>>
nameVars   == <<payload, used>>
commitVars == <<pc, tx, prev, todo, writing, failed>>
snapVars   == <<pin, mapped>>
vars == <<fsVars, nameVars, faults, commitVars, snapVars, collector>>

NoEntries == [f \in Files |-> NoTx]
Blank     == [from |-> NoTx, synced |-> FALSE]
Idle      == [on |-> FALSE, by |-> {}, keep |-> {}, visit |-> {}]

Init ==
    /\ current = NoTx
    /\ onDisk = {NoTx}
    /\ live = {}
    /\ rootDurable = {}
    /\ dirDurable = {}
    /\ entry = [t \in Tx |-> NoEntries]
    /\ inode = [t \in Tx |-> [f \in Files |-> Blank]]
    /\ payload \in [Tx -> [Sections -> Values]]
    /\ used = 0
    /\ faults = 0
    /\ pc = [p \in Clients |-> "idle"]
    /\ tx = [p \in Clients |-> NoTx]
    /\ prev = [p \in Clients |-> NoTx]
    /\ todo = [p \in Clients |-> {}]
    /\ writing = [p \in Clients |-> {}]
    /\ failed = [p \in Clients |-> FALSE]
    /\ pin = [p \in Clients |-> NoTx]
    /\ mapped = [p \in Clients |-> NoEntries]
    /\ collector = Idle

Go(p, where) == pc' = [pc EXCEPT ![p] = where]

(* commit returns: its local state is gone.                                *)
Return(p) ==
    /\ Go(p, "idle")
    /\ tx' = [tx EXCEPT ![p] = NoTx]
    /\ prev' = [prev EXCEPT ![p] = NoTx]
    /\ todo' = [todo EXCEPT ![p] = {}]
    /\ writing' = [writing EXCEPT ![p] = {}]
    /\ failed' = [failed EXCEPT ![p] = FALSE]

(* The file system frees an inode with its last name and last mapping.     *)
Reclaim(names, maps) ==
    [t \in Tx |-> [f \in Files |->
       IF (\E u \in Tx : names[u][f] = t) \/ (\E p \in Clients : maps[p][f] = t)
         THEN inode[t][f] ELSE Blank]]

(* remove_all of a transaction directory.                                  *)
Remove(t) ==
    /\ live' = live \ {t}
    /\ rootDurable' = rootDurable \ {t}
    /\ dirDurable' = dirDurable \ {t}
    /\ entry' = [entry EXCEPT ![t] = NoEntries]
    /\ inode' = Reclaim(entry', mapped)

(* The bytes transaction a has for file f are those transaction b has.     *)
SameBytes(a, b, f) ==
    IF f \in Sections THEN payload[a][f] = payload[b][f] ELSE a = b

(* Name f of transaction t can be opened and holds t's own bytes.          *)
Holds(t, f) ==
    /\ entry[t][f] # NoTx
    /\ LET bytes == inode[entry[t][f]][f].from
       IN bytes # NoTx /\ SameBytes(bytes, t, f)

(* The loader takes the whole file when there is one, else the sections.   *)
Layout(t) == Plain \cup IF entry[t][Packed] # NoTx THEN {Packed} ELSE Sections

Readable(t) == t \in live /\ \A f \in Layout(t) : Holds(t, f)

-----------------------------------------------------------------------------
(* commit: the selector is read for reusable sections, then the directory  *)
(* is created.  Anything but a valid selector means nothing to reuse.      *)
ReadPrevious(p) ==
    /\ pc[p] = "idle"
    /\ ~collector.on
    /\ prev' = [prev EXCEPT ![p] = current]
    /\ Go(p, "create")
    /\ UNCHANGED <<fsVars, nameVars, faults, tx, todo, writing, failed, snapVars, collector>>

(* Mutation: a directory that already exists is taken for a new one.       *)
CreateReusesName(p) ==
    /\ pc[p] = "create"
    /\ \E name \in {used, used + 1} \cap Tx :
         /\ used' = name
         /\ live' = live \cup {name}
         /\ tx' = [tx EXCEPT ![p] = name]
    /\ \E parts \in {Sections, {Packed}} : todo' = [todo EXCEPT ![p] = Plain \cup parts]
    /\ Go(p, "artifacts")
    /\ UNCHANGED <<current, onDisk, rootDurable, dirDurable, entry, inode,
                   payload, faults, prev, writing, failed, snapVars, collector>>

(* A fresh name is created (create_directory fails on an existing one and  *)
(* the next candidate is tried).  A contiguous image is written whole, a   *)
(* segmented one by sections.                                              *)
CreateTransaction(p) ==
    /\ pc[p] = "create"
    /\ used < MaxTx
    /\ used' = used + 1
    /\ live' = live \cup {used'}
    /\ \E parts \in {Sections, {Packed}} : todo' = [todo EXCEPT ![p] = Plain \cup parts]
    /\ tx' = [tx EXCEPT ![p] = used']
    /\ writing' = [writing EXCEPT ![p] = {}]
    /\ failed' = [failed EXCEPT ![p] = FALSE]
    /\ Go(p, "artifacts")
    /\ UNCHANGED <<current, onDisk, rootDurable, dirDurable, entry, inode,
                   payload, faults, prev, snapVars, collector>>

(* A failing create_directories, exists or create_directory.               *)
CreateFails(p) ==
    /\ pc[p] = "create"
    /\ Return(p)
    /\ UNCHANGED <<fsVars, nameVars, faults, snapVars, collector>>

(* The loop over the sections is not over: none has been written yet.      *)
Linking(p) ==
    /\ pc[p] = "artifacts"
    /\ todo[p] \cap Sections # {}
    /\ \A s \in Sections : entry[tx[p]][s] # tx[p]

(* Mutation: a section is linked on equal metadata, without the comparison *)
(* of the bytes.                                                           *)
LinkUnchecked(p, s) ==
    /\ Linking(p)
    /\ s \in todo[p]
    /\ \E source \in {pin[p], prev[p]} \ {NoTx} :
         /\ source \in live
         /\ entry[source][s] # NoTx
         /\ entry' = [entry EXCEPT ![tx[p]][s] = entry[source][s]]
    /\ todo' = [todo EXCEPT ![p] = @ \ {s}]
    /\ UNCHANGED <<current, onDisk, live, rootDurable, dirDurable, inode, nameVars,
                   faults, pc, tx, prev, writing, failed, snapVars, collector>>

(* A section is linked to the file of the snapshot the Project is bound to *)
(* (the bytes are that very mapping) or to the same section of the         *)
(* previous CURRENT once its bytes compared equal.                         *)
LinkSection(p, s) ==
    /\ Linking(p)
    /\ s \in todo[p]
    /\ \E source \in {pin[p], prev[p]} \ {NoTx} :
         /\ source \in live
         /\ Holds(source, s)
         /\ source = pin[p] => mapped[p][s] # NoTx
         /\ SameBytes(source, tx[p], s)
         /\ entry' = [entry EXCEPT ![tx[p]][s] = entry[source][s]]
    /\ todo' = [todo EXCEPT ![p] = @ \ {s}]
    /\ UNCHANGED <<current, onDisk, live, rootDurable, dirDurable, inode, nameVars,
                   faults, pc, tx, prev, writing, failed, snapVars, collector>>

(* The previous sections cannot be read, or create_hard_link fails for a   *)
(* reason that does not allow a rewrite: the section directory is removed  *)
(* and the artifact has failed.                                            *)
SectionsFail(p) ==
    /\ Linking(p)
    /\ entry' = [entry EXCEPT ![tx[p]] =
                   [f \in Files |-> IF f \in Sections THEN NoTx ELSE @[f]]]
    /\ todo' = [todo EXCEPT ![p] = @ \ Sections]
    /\ failed' = [failed EXCEPT ![p] = TRUE]
    /\ UNCHANGED <<current, onDisk, live, rootDurable, dirDurable, inode, nameVars,
                   faults, pc, tx, prev, writing, snapVars, collector>>

(* The section writer answers not_available: what it made is removed and   *)
(* the artifact is written as one whole file.                              *)
FallBackToPacked(p) ==
    /\ Linking(p)
    /\ entry' = [entry EXCEPT ![tx[p]] =
                   [f \in Files |-> IF f \in Sections THEN NoTx ELSE @[f]]]
    /\ todo' = [todo EXCEPT ![p] = (@ \ Sections) \cup {Packed}]
    /\ UNCHANGED <<current, onDisk, live, rootDurable, dirDurable, inode, nameVars,
                   faults, pc, tx, prev, writing, failed, snapVars, collector>>

(* durable_write_file: open creates the name or truncates what it names,   *)
(* then every byte is written and fsync'ed.                                *)
WriteOpen(p, f) ==
    /\ pc[p] = "artifacts"
    /\ f \in todo[p]
    /\ LET t == tx[p]
           i == IF entry[t][f] = NoTx THEN t ELSE entry[t][f]
       IN /\ entry' = [entry EXCEPT ![t][f] = i]
          /\ inode' = [inode EXCEPT ![i][f] = Blank]
    /\ todo' = [todo EXCEPT ![p] = @ \ {f}]
    /\ writing' = [writing EXCEPT ![p] = @ \cup {f}]
    /\ UNCHANGED <<current, onDisk, live, rootDurable, dirDurable, nameVars,
                   faults, pc, tx, prev, failed, snapVars, collector>>

(* Mutation: the fsync is left out.                                        *)
WriteUnsynced(p, f) ==
    /\ pc[p] = "artifacts"
    /\ f \in writing[p]
    /\ inode' = [inode EXCEPT ![entry[tx[p]][f]][f] = [from |-> tx[p], synced |-> FALSE]]
    /\ writing' = [writing EXCEPT ![p] = @ \ {f}]
    /\ UNCHANGED <<current, onDisk, live, rootDurable, dirDurable, entry, nameVars,
                   faults, pc, tx, prev, todo, failed, snapVars, collector>>

WriteSync(p, f) ==
    /\ pc[p] = "artifacts"
    /\ f \in writing[p]
    /\ inode' = [inode EXCEPT ![entry[tx[p]][f]][f] = [from |-> tx[p], synced |-> TRUE]]
    /\ writing' = [writing EXCEPT ![p] = @ \ {f}]
    /\ UNCHANGED <<current, onDisk, live, rootDurable, dirDurable, entry, nameVars,
                   faults, pc, tx, prev, todo, failed, snapVars, collector>>

(* A write or fsync fails: the other tasks run on, the commit will fail.   *)
WriteFails(p, f) ==
    /\ pc[p] = "artifacts"
    /\ f \in writing[p]
    /\ writing' = [writing EXCEPT ![p] = @ \ {f}]
    /\ failed' = [failed EXCEPT ![p] = TRUE]
    /\ UNCHANGED <<fsVars, nameVars, faults, pc, tx, prev, todo, snapVars, collector>>

(* transaction_executor.run has returned: every task is done.              *)
ArtifactsDone(p) ==
    /\ pc[p] = "artifacts"
    /\ todo[p] = {}
    /\ writing[p] = {}
    /\ Go(p, IF failed[p] THEN "cleanup" ELSE "flush_tx")
    /\ UNCHANGED <<fsVars, nameVars, faults, tx, prev, todo, writing, failed, snapVars, collector>>

FlushTransaction(p) ==
    /\ pc[p] = "flush_tx"
    /\ \/ Go(p, "flush_root") /\ dirDurable' = dirDurable \cup {tx[p]}
       \/ Go(p, "cleanup") /\ UNCHANGED dirDurable
    /\ UNCHANGED <<current, onDisk, live, rootDurable, entry, inode, nameVars,
                   faults, tx, prev, todo, writing, failed, snapVars, collector>>

(* fsync of the root directory: every name in it, CURRENT included.        *)
RootReachesDisk ==
    /\ rootDurable' = rootDurable \cup live
    /\ onDisk' = {current}

FlushRoot(p) ==
    /\ pc[p] = "flush_root"
    /\ \/ Go(p, "replace") /\ RootReachesDisk
       \/ Go(p, "cleanup") /\ UNCHANGED <<rootDurable, onDisk>>
    /\ UNCHANGED <<current, live, dirDurable, entry, inode, nameVars,
                   faults, tx, prev, todo, writing, failed, snapVars, collector>>

(* The new selector is written durably beside CURRENT and renamed over it: *)
(* the commit point.  Either step may fail.                                *)
ReplaceCurrent(p) ==
    /\ pc[p] = "replace"
    /\ \/ /\ current' = tx[p]
          /\ onDisk' = onDisk \cup {tx[p]}
          /\ Go(p, "final_flush")
       \/ /\ Go(p, "cleanup")
          /\ UNCHANGED <<current, onDisk>>
    /\ UNCHANGED <<live, rootDurable, dirDurable, entry, inode, nameVars,
                   faults, tx, prev, todo, writing, failed, snapVars, collector>>

(* The last flush of the root is best effort: its result is ignored.       *)
FinalFlush(p) ==
    /\ pc[p] = "final_flush"
    /\ \/ RootReachesDisk
       \/ UNCHANGED <<rootDurable, onDisk>>
    /\ Return(p)
    /\ UNCHANGED <<current, live, dirDurable, entry, inode, nameVars,
                   faults, snapVars, collector>>

(* cleanup_failed_transaction ignores errors, and an exception skips it:   *)
(* the directory may stay behind.                                          *)
Cleanup(p) ==
    /\ pc[p] = "cleanup"
    /\ \/ Remove(tx[p])
       \/ UNCHANGED <<live, rootDurable, dirDurable, entry, inode>>
    /\ Return(p)
    /\ UNCHANGED <<current, onDisk, nameVars, faults, snapVars, collector>>

-----------------------------------------------------------------------------
(* Snapshots.  Opening reads the selector, then the files by name; the     *)
(* artifacts a LOAD or BUILD does not need at once are mapped later.       *)

(* open_current_ready, open_current_decision, open, probe: CURRENT.        *)
OpenSelected(p) ==
    /\ pc[p] = "idle"
    /\ pin[p] = NoTx
    /\ current # NoTx
    /\ pin' = [pin EXCEPT ![p] = current]
    /\ UNCHANGED <<fsVars, nameVars, faults, commitVars, mapped, collector>>

(* A mapping call for part of a transaction's files: a missing name is     *)
(* artifact_corrupt, and the caller drops the snapshot.                    *)
MapFiles(p, part) ==
    /\ pin[p] # NoTx
    /\ \E f \in part : mapped[p][f] = NoTx
    /\ IF \A f \in part : entry[pin[p]][f] # NoTx
         THEN /\ mapped' = [mapped EXCEPT ![p] =
                              [f \in Files |-> IF f \in part THEN entry[pin[p]][f] ELSE @[f]]]
              /\ UNCHANGED pin
         ELSE /\ pin' = [pin EXCEPT ![p] = NoTx]
              /\ mapped' = [mapped EXCEPT ![p] = NoEntries]
    /\ inode' = Reclaim(entry, mapped')
    /\ UNCHANGED <<current, onDisk, live, rootDurable, dirDurable, entry,
                   nameVars, faults, commitVars, collector>>

MapPlain(p) == MapFiles(p, Plain)

(* map_source_manager_artifact, map_build_cache_artifact.                  *)
MapSections(p) ==
    /\ pin[p] # NoTx
    /\ MapFiles(p, Layout(pin[p]) \ Plain)

(* UNLOAD releases the mappings.                                           *)
CloseSnapshot(p) ==
    /\ pc[p] = "idle"
    /\ pin[p] # NoTx
    /\ pin' = [pin EXCEPT ![p] = NoTx]
    /\ mapped' = [mapped EXCEPT ![p] = NoEntries]
    /\ inode' = Reclaim(entry, mapped')
    /\ UNCHANGED <<current, onDisk, live, rootDurable, dirDurable, entry,
                   nameVars, faults, commitVars, collector>>

-----------------------------------------------------------------------------
(* collect_garbage runs at a cold maintenance boundary: no commit is under *)
(* way and CURRENT has reached the disk.                                   *)
ColdBoundary == (\A p \in Clients : pc[p] = "idle") /\ onDisk = {current}

(* Mutation: the transaction the caller has mapped is not kept.            *)
CollectIgnoresPin(p) ==
    /\ ~collector.on
    /\ ColdBoundary
    /\ collector' = [on |-> TRUE, by |-> {p}, keep |-> {current}, visit |-> live]
    /\ UNCHANGED <<fsVars, nameVars, faults, commitVars, snapVars>>

(* CURRENT is read once; the caller pins the transaction it has mapped.    *)
CollectBegin(p) ==
    /\ ~collector.on
    /\ ColdBoundary
    /\ collector' = [on |-> TRUE, by |-> {p}, keep |-> {current, pin[p]}, visit |-> live]
    /\ UNCHANGED <<fsVars, nameVars, faults, commitVars, snapVars>>

CollectOne ==
    /\ collector.on
    /\ \E t \in collector.visit :
         /\ collector' = [collector EXCEPT !.visit = @ \ {t}]
         /\ IF t \in collector.keep
              THEN UNCHANGED <<live, rootDurable, dirDurable, entry, inode>>
              ELSE Remove(t)
    /\ UNCHANGED <<current, onDisk, nameVars, faults, commitVars, snapVars>>

(* The directory is exhausted, or an error ends the collection early.      *)
CollectEnd ==
    /\ collector.on
    /\ collector' = Idle
    /\ UNCHANGED <<fsVars, nameVars, faults, commitVars, snapVars>>

-----------------------------------------------------------------------------
(* Every client stops where it is; the visible files stay as they are.     *)
StopClients ==
    /\ pc' = [p \in Clients |-> "idle"]
    /\ pin' = [p \in Clients |-> NoTx]
    /\ mapped' = [p \in Clients |-> NoEntries]
    /\ collector' = Idle
    /\ faults < MaxFaults
    /\ faults' = faults + 1
    /\ tx' = [p \in Clients |-> NoTx]
    /\ prev' = [p \in Clients |-> NoTx]
    /\ todo' = [p \in Clients |-> {}]
    /\ writing' = [p \in Clients |-> {}]
    /\ failed' = [p \in Clients |-> FALSE]
    /\ UNCHANGED nameVars

ProcessCrash ==
    /\ StopClients
    /\ inode' = Reclaim(entry, mapped')
    /\ UNCHANGED <<current, onDisk, live, rootDurable, dirDurable, entry>>

(* After a power loss CURRENT is one of the selectors that may be on disk; *)
(* a directory or a name that was not flushed may be gone; bytes that were *)
(* not synced are torn.                                                    *)
PowerLoss ==
    /\ StopClients
    /\ current' \in onDisk
    /\ onDisk' = {current'}
    /\ \E kept \in {S \in SUBSET live : live \cap rootDurable \subseteq S} :
       \E full \in {S \in SUBSET kept : kept \cap dirDurable \subseteq S} :
          /\ live' = kept
          /\ entry' = [t \in Tx |-> IF t \in full THEN entry[t] ELSE NoEntries]
    /\ inode' = [t \in Tx |-> [f \in Files |->
                   IF inode[t][f].synced THEN Reclaim(entry', mapped')[t][f] ELSE Blank]]
    /\ rootDurable' = live'
    /\ dirDurable' = live'

-----------------------------------------------------------------------------
CommitStep(p) ==
    \/ ReadPrevious(p) \/ CreateTransaction(p) \/ CreateFails(p)
    \/ \E s \in Sections : LinkSection(p, s)
    \/ SectionsFail(p) \/ FallBackToPacked(p)
    \/ \E f \in Files : WriteOpen(p, f) \/ WriteSync(p, f) \/ WriteFails(p, f)
    \/ ArtifactsDone(p) \/ FlushTransaction(p) \/ FlushRoot(p)
    \/ ReplaceCurrent(p) \/ FinalFlush(p) \/ Cleanup(p)

Next ==
    \/ \E p \in Clients :
         \/ CommitStep(p)
         \/ OpenSelected(p) \/ MapPlain(p) \/ MapSections(p) \/ CloseSnapshot(p)
         \/ CollectBegin(p)
    \/ CollectOne
    \/ CollectEnd
    \/ ProcessCrash
    \/ PowerLoss

Spec == Init /\ [][Next]_vars

-----------------------------------------------------------------------------
(* Properties                                                              *)

(* Every variable has its type, directories exist only under names handed  *)
(* out, and no two commits write into the same one.                        *)
TypeOK ==
    /\ live \subseteq 1..used
    /\ \A p, q \in Clients : p # q => tx[p] # tx[q] \/ tx[p] = NoTx
    /\ current \in Tx \cup {NoTx}
    /\ onDisk \subseteq Tx \cup {NoTx}
    /\ live \subseteq Tx
    /\ rootDurable \subseteq Tx
    /\ dirDurable \subseteq Tx
    /\ entry \in [Tx -> [Files -> Tx \cup {NoTx}]]
    /\ inode \in [Tx -> [Files -> [from : Tx \cup {NoTx}, synced : BOOLEAN]]]
    /\ payload \in [Tx -> [Sections -> Values]]
    /\ used \in 0..MaxTx
    /\ faults \in 0..MaxFaults
    /\ pc \in [Clients -> {"idle", "create", "artifacts", "flush_tx", "flush_root",
                           "replace", "final_flush", "cleanup"}]
    /\ tx \in [Clients -> Tx \cup {NoTx}]
    /\ prev \in [Clients -> Tx \cup {NoTx}]
    /\ todo \in [Clients -> SUBSET Files]
    /\ writing \in [Clients -> SUBSET Files]
    /\ failed \in [Clients -> BOOLEAN]
    /\ pin \in [Clients -> Tx \cup {NoTx}]
    /\ mapped \in [Clients -> [Files -> Tx \cup {NoTx}]]
    /\ collector \in [on : BOOLEAN, by : SUBSET Clients, keep : SUBSET (Tx \cup {NoTx}), visit : SUBSET Tx]

(* Whatever commits, failures, crashes and collections happened, CURRENT   *)
(* selects a directory whose every file holds the bytes of its commit, and *)
(* so does any selector a power loss may bring back: what it names is      *)
(* complete and durable, because the flush order of commit is strong       *)
(* enough.                                                                 *)
SurvivesPowerLoss ==
    \A t \in (onDisk \cup {current}) \ {NoTx} :
        /\ Readable(t)
        /\ t \in rootDurable \cap dirDurable
        /\ \A f \in Layout(t) : inode[entry[t][f]][f].synced

(* The files a snapshot has mapped hold the bytes of the transaction it    *)
(* opened, whenever each was mapped and whatever happened to CURRENT, to   *)
(* the directory and to the files that share its sections since.           *)
SnapshotCoherent ==
    \A p \in Clients : \A f \in Files :
        mapped[p][f] # NoTx =>
            LET bytes == inode[mapped[p][f]][f].from
            IN bytes # NoTx /\ SameBytes(bytes, pin[p], f)

(* The bytes behind a name of a transaction.                               *)
Bytes(t, f) == IF entry[t][f] = NoTx THEN NoTx ELSE inode[entry[t][f]][f].from

(* Transaction directories are immutable after commit: no step changes a   *)
(* file of a selected or mapped transaction, through a shared inode        *)
(* either, short of removing the whole directory.                          *)
CommittedImmutable ==
    [][\A t \in onDisk \cup {current} \cup {pin[p] : p \in Clients} :
         t \in live /\ t \in live' =>
             \A f \in Files : Bytes(t, f)' = Bytes(t, f)]_vars

(* The files a Project has not mapped yet stay available under the name of *)
(* its transaction.  They go only in a collection, and then the            *)
(* transaction is neither CURRENT nor mapped by the Project that collects: *)
(* collect_garbage pins the caller's transaction and no one else's.        *)
PinnedStaysMappable ==
    [][\A p \in Clients :
         pin[p] # NoTx /\ pin'[p] = pin[p] /\ Readable(pin[p]) =>
             \/ Readable(pin[p])'
             \/ collector.on /\ pin[p] \notin {current} \cup {pin[q] : q \in collector.by}]_vars
=============================================================================
