-------------------------- MODULE IncrementalBuild --------------------------
(***************************************************************************)
(* How BUILD finds out what changed since the baseline was saved, while    *)
(* the Source files keep being edited: the volume's change journal, the    *)
(* checkpoint a Generation carries, the full content scan the detector     *)
(* falls back to, acquisition of the dirty Sources, publication, and SAVE. *)
(*                                                                         *)
(* A Source file has contents, a stamp (size and modification time) and a  *)
(* file reference that no other file of the volume ever has.  All tracked  *)
(* Sources are in one directory.  SHA-256 is taken to be injective.        *)
(*                                                                         *)
(* The store is used through what BaselineStore promises: a commit is one  *)
(* atomic replacement of CURRENT, a snapshot does not change.              *)
(***************************************************************************)
EXTENDS Naturals, Sequences, FiniteSets

CONSTANTS Managers,          \* project_managers on one configuration
          Sources,           \* tracked Source paths
          Contents,          \* what a file can hold
          SameStampWrites,   \* may an edit leave size and time as they were?
          MaxEdits,          \* bound: changes made to the tree
          MaxJournalFaults,  \* bound: truncations and re-creations of the journal
          MaxSaves           \* bound: transactions committed

Absent       == "absent"         \* no file at the path
NoRef        == <<>>             \* no file reference
NoCheckpoint == [id |-> 0, usn |-> 0]
Nothing      == [content |-> Absent, stamp |-> 0, ref |-> NoRef]
NoBaseline   == [tx |-> 0, snap |-> [s \in Sources |-> Nothing],
                 checkpoint |-> NoCheckpoint, dirs |-> {}, arrivals |-> {}]

ASSUME BuildAssumption ==
    /\ Absent \notin Contents
    /\ SameStampWrites \in BOOLEAN
    /\ MaxEdits \in Nat
    /\ MaxJournalFaults \in Nat
    /\ MaxSaves \in Nat

VARIABLES file,       \* file[s]: contents, stamp and reference now at path s
          directory,  \* reference of the directory now at the Sources' parent path
          journal,    \* the records of the change journal
          firstUsn,   \* how many of them have been dropped again
          journalId,
          edits,      \* edits so far; fresh stamps and references are drawn from it
          faults,     \* journal faults so far
          current,    \* the baseline CURRENT selects
          session,    \* session[m]: the Project manager m is building or has READY
          seen        \* seen[m][s]: what path s held while m's BUILD was running

treeVars    == <<file, directory, edits>>
journalVars == <<journal, firstUsn, journalId>>
vars == <<treeVars, journalVars, faults, current, session, seen>>

Unloaded ==
    [pc         |-> "unloaded",
     base       |-> NoBaseline,    \* the baseline BUILD opened; NoBaseline: full build
     snap       |-> [s \in Sources |-> Nothing],
     checkpoint |-> NoCheckpoint,  \* generation_checkpoint
     dirs       |-> {},            \* directories watched for topology changes
     arrivals   |-> {},            \* directories watched for arrivals
     todo       |-> {},            \* Sources still to scan or to acquire
     dirty      |-> {},            \* Sources the scan found changed
     physical   |-> {},            \* Sources acquired anew
     semantic   |-> {},            \* ... whose contents differ
     persisted  |-> 0,             \* transaction known to hold this state, or 0
     built      |-> FALSE]         \* READY by BUILD rather than by LOAD

Building(m) == session[m].pc \notin {"unloaded", "ready"}

Init ==
    /\ \E c \in [Sources -> Contents] :
          file = [s \in Sources |-> [content |-> c[s], stamp |-> 0, ref |-> <<s, 0>>]]
    /\ directory = 0
    /\ journal = <<>>
    /\ firstUsn = 0
    /\ journalId = 1
    /\ edits = 0
    /\ faults = 0
    /\ current = NoBaseline
    /\ session = [m \in Managers |-> Unloaded]
    /\ seen = [m \in Managers |-> [s \in Sources |-> {}]]

-----------------------------------------------------------------------------
(***************************************************************************)
(* The tree and its journal: not part of the program.  A record names the  *)
(* file it is about and the directory the file is in, or the directory it  *)
(* is about.                                                               *)
(***************************************************************************)
Record(kind, ref) == [kind |-> kind, ref |-> ref, dir |-> directory]
Moved(d)          == [kind |-> "directory", ref |-> NoRef, dir |-> d]

Stamps(s) == {edits + 1} \cup (IF SameStampWrites THEN {file[s].stamp} ELSE {})

Edit(newFile, records) ==
    /\ edits < MaxEdits
    /\ edits' = edits + 1
    /\ file' = newFile
    /\ journal' = journal \o records
    /\ seen' = [m \in Managers |-> [s \in Sources |->
                    IF Building(m) THEN seen[m][s] \cup {newFile[s].content}
                                   ELSE seen[m][s]]]
    /\ UNCHANGED <<firstUsn, journalId, faults, current, session>>

\* A file is rewritten in place.
Write(s, c, t) ==
    /\ file[s] # Nothing
    /\ t \in Stamps(s)
    /\ Edit([file EXCEPT ![s].content = c, ![s].stamp = t],
            <<Record("data", file[s].ref)>>)
    /\ UNCHANGED directory

\* A new file is created at the path, or renamed over the one there.
Replace(s, c, t) ==
    /\ t \in Stamps(s)
    /\ Edit([file EXCEPT ![s] = [content |-> c, stamp |-> t, ref |-> <<s, edits + 1>>]],
            (IF file[s] = Nothing THEN <<>> ELSE <<Record("topology", file[s].ref)>>)
              \o <<Record("arrival", <<s, edits + 1>>)>>)
    /\ UNCHANGED directory

Delete(s) ==
    /\ file[s] # Nothing
    /\ Edit([file EXCEPT ![s] = Nothing], <<Record("topology", file[s].ref)>>)
    /\ UNCHANGED directory

\* The whole directory is renamed away and another one takes its path: not one
\* record names a Source file.
SwapDirectory(c) ==
    /\ Edit([s \in Sources |->
                [content |-> c, stamp |-> edits + 1, ref |-> <<s, edits + 1>>]],
            <<Moved(directory), Moved(edits + 1)>>)
    /\ directory' = edits + 1

JournalFault ==
    /\ faults < MaxJournalFaults
    /\ faults' = faults + 1
    /\ UNCHANGED <<treeVars, current, session, seen>>

Truncate ==
    /\ JournalFault
    /\ firstUsn' \in (firstUsn + 1)..Len(journal)
    /\ UNCHANGED <<journal, journalId>>

Recreate ==
    /\ JournalFault
    /\ journalId' = journalId + 1
    /\ journal' = <<>>
    /\ firstUsn' = 0

-----------------------------------------------------------------------------
(***************************************************************************)
(* What the journal says about a generation g (a baseline, or the state a  *)
(* manager holds) since the checkpoint g carries.                          *)
(***************************************************************************)
\* Mutant: a re-created journal passes for the old one.
ReadableAnyJournal(g) ==
    /\ g.checkpoint # NoCheckpoint
    /\ firstUsn <= g.checkpoint.usn
    /\ g.checkpoint.usn <= Len(journal)

Readable(g) ==
    /\ g.checkpoint # NoCheckpoint
    /\ g.checkpoint.id = journalId
    /\ firstUsn <= g.checkpoint.usn
    /\ g.checkpoint.usn <= Len(journal)

Since(g) ==
    {journal[i] : i \in {k \in 1..Len(journal) : firstUsn < k /\ g.checkpoint.usn < k}}

About(g, r, s) == r.kind # "directory" /\ g.snap[s].ref = r.ref

TopologyChanged(g) ==
    \E r \in Since(g) :
        \/ r.kind = "directory" /\ r.dir \in g.dirs
        \/ r.kind = "arrival" /\ r.dir \in g.arrivals
        \/ r.kind \in {"topology", "arrival"} /\ \E s \in Sources : About(g, r, s)

Touched(g) == {s \in Sources : \E r \in Since(g) : About(g, r, s)}

-----------------------------------------------------------------------------
(***************************************************************************)
(* BUILD.  Every step changes only the manager's own session; whatever     *)
(* fails abandons the construction.                                        *)
(***************************************************************************)
Step(m, new) ==
    /\ session' = [session EXCEPT ![m] = new]
    /\ UNCHANGED <<treeVars, journalVars, faults, current>>

Begin(m, base) ==
    /\ session[m].pc = "unloaded"
    /\ Step(m, [Unloaded EXCEPT !.pc = "capture", !.base = base])
    /\ seen' = [seen EXCEPT ![m] = [s \in Sources |-> {file[s].content}]]

Forget(m) ==
    /\ Step(m, Unloaded)
    /\ seen' = [seen EXCEPT ![m] = [s \in Sources |-> {}]]

\* REBUILD, or BUILD when no baseline fits the configuration.
BeginFull(m) == Begin(m, NoBaseline)

BeginIncremental(m) == current # NoBaseline /\ Begin(m, current)

\* The Generation epoch: taken before the first Source is looked at.
CaptureCheckpoint(m) ==
    LET full == session[m].base = NoBaseline
        here == [id |-> journalId, usn |-> Len(journal)]
    IN  /\ session[m].pc = "capture"
        /\ \E c \in {here, NoCheckpoint} :
              /\ full \/ session[m].base.checkpoint # NoCheckpoint \/ c = NoCheckpoint
              /\ Step(m, [session[m] EXCEPT
                            !.pc = IF full THEN "acquire" ELSE "detect",
                            !.checkpoint = c,
                            !.snap = session[m].base.snap,
                            !.todo = IF full THEN Sources ELSE {}])
        /\ UNCHANGED seen

Detected(m, new, dirty) ==
    Step(m, [new EXCEPT !.pc = IF dirty = {} THEN "activate" ELSE "acquire",
                        !.dirty = {},
                        !.todo = dirty])

DetectFast(m) ==
    /\ session[m].pc = "detect"
    /\ Readable(session[m].base)
    /\ ~TopologyChanged(session[m].base)
    /\ Detected(m, session[m], Touched(session[m].base))
    /\ UNCHANGED seen

\* Mutant: the scan's result is saved with a checkpoint.
FallbackKeepsCheckpoint(m) ==
    /\ session[m].pc = "detect"
    /\ Step(m, [session[m] EXCEPT !.pc = "scan", !.todo = Sources])
    /\ UNCHANGED seen

\* No checkpoint, another journal, records dropped, a topology change or a failed
\* read: scan the contents of every Source, and give the checkpoint up.
DetectFallback(m) ==
    /\ session[m].pc = "detect"
    /\ Step(m, [session[m] EXCEPT !.pc = "scan",
                                  !.checkpoint = NoCheckpoint,
                                  !.todo = Sources])
    /\ UNCHANGED seen

Scan(m, s) ==
    LET me    == session[m]
        dirty == me.dirty \cup
                    {x \in {s} : file[s].content # me.base.snap[s].content}
    IN  /\ me.pc = "scan"
        /\ s \in me.todo
        /\ IF me.todo = {s}
           THEN Detected(m, me, dirty)
           ELSE Step(m, [me EXCEPT !.dirty = dirty, !.todo = @ \ {s}])
        /\ UNCHANGED seen

Activate(m, base, built) ==
    Step(m, [Unloaded EXCEPT !.pc = "ready", !.snap = base.snap,
                             !.persisted = base.tx, !.built = built])

ActivateBaseline(m) ==
    /\ session[m].pc = "activate"
    /\ Activate(m, session[m].base, TRUE)
    /\ UNCHANGED seen

\* A Source whose snapshot has the stamp the file has now is taken to be unchanged.
AcquireUnchanged(m, s) ==
    /\ session[m].snap[s] # Nothing
    /\ file[s] # Nothing
    /\ session[m].snap[s].stamp = file[s].stamp
    /\ Step(m, [session[m] EXCEPT !.todo = @ \ {s}])

AcquireMissing(m, s) ==
    /\ session[m].snap[s] # Nothing
    /\ file[s] = Nothing
    /\ Step(m, [session[m] EXCEPT !.todo = @ \ {s},
                                  !.snap[s] = Nothing,
                                  !.physical = @ \cup {s},
                                  !.semantic = @ \cup {s}])

AcquirePresent(m, s) ==
    LET old == session[m].snap[s]
    IN  /\ file[s] # Nothing
        /\ old = Nothing \/ old.stamp # file[s].stamp
        /\ Step(m, [session[m] EXCEPT
                      !.todo = @ \ {s},
                      !.snap[s] = file[s],
                      !.physical = @ \cup {s},
                      !.semantic = @ \cup {x \in {s} : old.content # file[s].content}])

Acquire(m, s) ==
    /\ session[m].pc = "acquire"
    /\ s \in session[m].todo
    /\ AcquireUnchanged(m, s) \/ AcquireMissing(m, s) \/ AcquirePresent(m, s)
    /\ UNCHANGED seen

\* The dirty Sources turn out to hold what the baseline holds.
PublishUnchanged(m) ==
    LET me == session[m]
    IN  /\ me.pc = "acquire"
        /\ me.todo = {}
        /\ me.base # NoBaseline
        /\ me.semantic = {}
        /\ Activate(m, me.base, TRUE)
        /\ UNCHANGED seen

\* What a Generation remembers of the tree.  Its directories are looked up now,
\* after the Sources were read; when that fails it carries no checkpoint.
Capture(me, arrivals) ==
    {[me EXCEPT !.checkpoint = c,
                !.dirs = me.base.dirs \cup {directory},
                !.arrivals = me.base.arrivals \cup arrivals] :
        c \in {me.checkpoint, NoCheckpoint}}

PublishAs(m, captures) ==
    \E new \in captures :
        Step(m, [new EXCEPT !.pc = "ready", !.base = NoBaseline,
                            !.physical = {}, !.semantic = {}, !.built = TRUE])

PublishFull(m) ==
    LET me == session[m]
    IN  /\ me.pc = "acquire"
        /\ me.todo = {}
        /\ me.base = NoBaseline
        /\ PublishAs(m, Capture(me, {}))
        /\ UNCHANGED seen

\* The directory of a Source found missing is watched for its return.
PublishSparse(m) ==
    LET me   == session[m]
        lost == {s \in me.physical : me.snap[s] = Nothing}
    IN  /\ me.pc = "acquire"
        /\ me.todo = {}
        /\ me.base # NoBaseline
        /\ me.semantic # {}
        /\ PublishAs(m, Capture(me, IF lost = {} THEN {} ELSE {directory}))
        /\ UNCHANGED seen

AbandonConstruction(m) ==
    /\ Building(m)
    /\ Forget(m)

-----------------------------------------------------------------------------
Load(m) ==
    /\ session[m].pc = "unloaded"
    /\ current # NoBaseline
    /\ Activate(m, current, FALSE)
    /\ UNCHANGED seen

\* Mutant: a Generation is saved with the checkpoint of the baseline it replaces.
MaterializeInherited(me) ==
    [tx |-> current.tx + 1, snap |-> me.snap, dirs |-> me.dirs, arrivals |-> me.arrivals,
     checkpoint |-> IF current = NoBaseline THEN me.checkpoint ELSE current.checkpoint]

\* The file index of a Generation none of whose Sources exists is empty: it is
\* saved without a checkpoint.
Materialize(me) ==
    [tx |-> current.tx + 1,
     snap |-> me.snap,
     checkpoint |-> IF \A s \in Sources : me.snap[s] = Nothing THEN NoCheckpoint
                                                               ELSE me.checkpoint,
     dirs |-> me.dirs,
     arrivals |-> me.arrivals]

\* A state that is persisted already is not written again.
Save(m) ==
    /\ session[m].pc = "ready"
    /\ session[m].persisted = 0
    /\ current.tx < MaxSaves
    /\ current' = Materialize(session[m])
    /\ session' = [session EXCEPT ![m].persisted = current.tx + 1]
    /\ UNCHANGED <<treeVars, journalVars, faults, seen>>

\* UNLOAD, or the end of the process.
Unload(m) ==
    /\ session[m].pc = "ready"
    /\ Forget(m)

EditTree ==
    \/ \E s \in Sources, c \in Contents, t \in 0..MaxEdits :
          Write(s, c, t) \/ Replace(s, c, t)
    \/ \E s \in Sources : Delete(s)
    \/ \E c \in Contents : SwapDirectory(c)

Build(m) ==
    \/ BeginFull(m) \/ BeginIncremental(m) \/ CaptureCheckpoint(m)
    \/ DetectFast(m) \/ DetectFallback(m) \/ \E s \in Sources : Scan(m, s)
    \/ ActivateBaseline(m)
    \/ \E s \in Sources : Acquire(m, s)
    \/ PublishUnchanged(m) \/ PublishFull(m) \/ PublishSparse(m)
    \/ AbandonConstruction(m)

Next ==
    \/ EditTree
    \/ Truncate
    \/ Recreate
    \/ \E m \in Managers : Build(m) \/ Load(m) \/ Save(m) \/ Unload(m)

Spec == Init /\ [][Next]_vars

-----------------------------------------------------------------------------
Refs       == {NoRef} \cup (Sources \X (0..MaxEdits))
Snapshots  == [content : Contents \cup {Absent}, stamp : 0..MaxEdits, ref : Refs]
Checkpoint == [id : 0..(MaxJournalFaults + 1), usn : Nat]
Baselines  == [tx : 0..MaxSaves, snap : [Sources -> Snapshots], checkpoint : Checkpoint,
               dirs : SUBSET (0..MaxEdits), arrivals : SUBSET (0..MaxEdits)]
Sessions   == [pc : {"unloaded", "capture", "detect", "scan", "activate", "acquire", "ready"},
               base : Baselines, snap : [Sources -> Snapshots], checkpoint : Checkpoint,
               dirs : SUBSET (0..MaxEdits), arrivals : SUBSET (0..MaxEdits),
               todo : SUBSET Sources, dirty : SUBSET Sources,
               physical : SUBSET Sources, semantic : SUBSET Sources,
               persisted : 0..MaxSaves, built : BOOLEAN]

Records    == [kind : {"data", "topology", "arrival", "directory"}, ref : Refs, dir : 0..MaxEdits]

InJournal(c) == c.id = journalId => c.usn <= Len(journal)

\* The type of every variable; a checkpoint never is ahead of the journal it is a
\* position in.
TypeOK ==
    /\ file \in [Sources -> Snapshots]
    /\ directory \in 0..MaxEdits
    /\ journal \in Seq(Records)
    /\ firstUsn \in 0..Len(journal)
    /\ journalId \in 1..(MaxJournalFaults + 1)
    /\ edits \in 0..MaxEdits
    /\ faults \in 0..MaxJournalFaults
    /\ current \in Baselines
    /\ session \in [Managers -> Sessions]
    /\ seen \in [Managers -> [Sources -> SUBSET (Contents \cup {Absent})]]
    /\ InJournal(current.checkpoint)
    /\ \A m \in Managers : InJournal(session[m].checkpoint)

\* A BUILD that ends READY holds, for every Source, contents the file really had
\* while that BUILD ran: whatever raced it, nothing older is published.
ReadyFresh ==
    \A m \in Managers : session[m].pc = "ready" /\ session[m].built =>
        \A s \in Sources : session[m].snap[s].content \in seen[m][s]

\* The journal can still tell what the generation g has missed.
Told(g) == Readable(g) /\ ~TopologyChanged(g)

Generations ==
    {current} \cup {session[m] : m \in {k \in Managers : session[k].pc = "ready"}}

\* The next BUILD finds every edit: a Source that differs from the saved baseline
\* (or from a Generation not saved yet) is reported by the journal, unless the
\* journal sends the detector to the full scan.
NoLostEdit ==
    \A g \in Generations : Told(g) =>
        \A s \in Sources : g.snap[s].content # file[s].content => s \in Touched(g)

\* The file index stays exact: while the journal shows no topology change, every
\* Source path still is the very file the baseline's index names for it.
IndexExact ==
    \A g \in Generations : Told(g) =>
        \A s \in Sources : g.snap[s].ref = file[s].ref
=============================================================================
