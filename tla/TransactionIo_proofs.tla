------------------------ MODULE TransactionIo_proofs ------------------------
(***************************************************************************)
(* TransactionIo for any number of pool threads, artifacts, copies and     *)
(* tasks, and any capacity of the ring: wait() returns when everything is  *)
(* written, once, and no job outlives the frame it captured.               *)
(***************************************************************************)
EXTENDS TransactionIo, FiniteSetTheorems, TLAPS

-----------------------------------------------------------------------------
(* The inductive invariant                                                 *)

Waits == {"submit", "load", "take", "reload", "block", "asleep"}
Ends  == {"stop", "join", "joined"}
PCs   == Waits \cup Ends \cup {"task", "finish", "notify"}

FrameOf(x) == FrameAt(x[1], x[2])

FrameSet == [job : Jobs \cup {NoJob}, batch : Batches \cup {"none"}, at : PCs,
             todo : Seq(Jobs), saw : Nat]

(* A worker copy belongs to the batch of its artifact.                     *)
JobOK(j) == j.batch # Outer => j.name = j.batch

(* The frames of the caller, of a sectioned artifact, and of the jobs that *)
(* submit nothing.                                                         *)
FrameOK(f) ==
    /\ f.at # "submit" => f.todo = <<>>
    /\ \A k \in 1..Len(f.todo) : f.todo[k].batch = f.batch /\ JobOK(f.todo[k])
    /\ f.job = NoJob => f.batch = Outer /\ f.at \in Waits \cup Ends
    /\ f.job # NoJob =>
          /\ f.job \in Jobs /\ JobOK(f.job)
          /\ IF f.job.batch = Outer /\ f.job.name \in Sectioned
             THEN f.batch = f.job.name /\ f.at \in Waits \cup {"finish", "notify"}
             ELSE f.batch = "none" /\ f.at \in {"task", "finish", "notify"}

(* Only the caller's first frame runs no job, and only top frames are past *)
(* their waiting.                                                          *)
StackOK ==
    /\ stack \in [Threads -> Seq(FrameSet)]
    /\ Len(stack[Caller]) >= 1
    /\ \A t \in Threads : \A i \in 1..Len(stack[t]) :
          /\ FrameOK(stack[t][i])
          /\ stack[t][i].job = NoJob <=> t = Caller /\ i = 1
          /\ i < Len(stack[t]) => stack[t][i].at \in {"submit", "load"}

QueueOK == \A k \in 1..Len(queue) : JobOK(queue[k])

(* remaining counts the queued jobs and the frames that have not finished. *)
Queued(b) == {k \in 1..Len(queue) : queue[k].batch = b}
Live(b)   == {x \in Frames : FrameOf(x).job.batch = b
                             /\ FrameOf(x).at # "notify"}

CountOK ==
    \A b \in Batches :
        /\ IsFiniteSet(Live(b))
        /\ remaining[b] = Cardinality(Queued(b)) + Cardinality(Live(b))

(* Somebody waits for a batch that is not done.                            *)
Waiter(b) ==
    \E x \in Frames : FrameOf(x).batch = b /\ FrameOf(x).at \in Waits

WaitersOK == \A b \in Batches : remaining[b] # 0 => Waiter(b)

(* The counter of an artifact gives every task out once, and what was      *)
(* given out is written or being written.                                  *)
InHand(a, k) == \E t \in Threads : taken[t] = <<a, k>>

TasksOK ==
    /\ \A a \in Sectioned :
          /\ next[a] >= 1
          /\ \A k \in 1..TaskCount :
                /\ ran[a][k] = IF k < next[a] /\ ~InHand(a, k) THEN 1 ELSE 0
                /\ InHand(a, k) => k < next[a]
    /\ \A t, u \in Threads : taken[t] # NoTask /\ taken[t] = taken[u] => t = u

(* A task is in the hand of a copy that has not ended.                     *)
WritersOK ==
    \A t \in Threads : taken[t] # NoTask =>
        \E x \in Frames : /\ x[1] = t /\ FrameOf(x).at = "task"
                          /\ FrameOf(x).job.batch = taken[t][1]

Done(a) == \A k \in Tasks(a) : ran[a][k] = 1

(* How far the artifact is when a frame of it is where it is.              *)
FrameDone(f) ==
    /\ f.job = NoJob /\ f.at \in Ends => \A a \in Names : Done(a)
    /\ f.job # NoJob /\ f.job.batch # Outer /\ f.at \in {"finish", "notify"}
          => next[f.job.batch] > TaskCount
    /\ f.job # NoJob /\ f.job.batch = Outer =>
          IF f.job.name \in Sectioned
          THEN /\ f.at \in {"finish", "notify"} => Done(f.job.name)
               /\ Len(f.todo) < Copies /\ remaining[f.job.name] = 0
                    => next[f.job.name] > TaskCount
          ELSE ran[f.job.name][1] = IF f.at = "task" THEN 0 ELSE 1

ProgressOK == \A x \in Frames : \A f \in {FrameOf(x)} : FrameDone(f)

(* The outer job of an artifact is to be submitted, queued or running, in  *)
(* one place, or over.                                                     *)
Todo == stack[Caller][1].todo
TodoNames    == {Todo[k].name : k \in 1..Len(Todo)}
QueueNames   == {queue[k].name : k \in Queued(Outer)}
RunningNames == {FrameOf(x).job.name :
                    x \in {y \in Frames : FrameOf(y).job.batch = Outer}}

TodoOnce  == \A j, k \in 1..Len(Todo) : Todo[j].name = Todo[k].name => j = k
QueueOnce == \A j, k \in Queued(Outer) : queue[j].name = queue[k].name => j = k
RunOnce   == \A x, y \in Frames :
                FrameOf(x).job.batch = Outer /\ FrameOf(y).job = FrameOf(x).job => x = y

OnceOK ==
    /\ TodoOnce /\ QueueOnce /\ RunOnce
    /\ TodoNames \cap QueueNames = {}
    /\ TodoNames \cap RunningNames = {}
    /\ QueueNames \cap RunningNames = {}

PendingOK ==
    /\ \A a \in TodoNames \cup QueueNames : a \notin Sectioned => ran[a][1] = 0
    /\ \A a \in Names : a \in TodoNames \cup QueueNames \cup RunningNames \/ Done(a)

IndInv ==
    /\ TypeOK
    /\ StackOK
    /\ QueueOK
    /\ CountOK
    /\ WaitersOK
    /\ TasksOK
    /\ WritersOK
    /\ ProgressOK
    /\ OnceOK
    /\ PendingOK

-----------------------------------------------------------------------------
(* Jobs and frames                                                         *)

LEMMA NamesFacts ==
    /\ Outer \notin Names /\ Outer \notin Sectioned /\ "none" \notin Batches
    /\ Sectioned \subseteq Names /\ Sectioned \subseteq Batches /\ Outer \in Batches
    /\ Caller \in Threads /\ Workers \subseteq Threads
BY ExecutorAssumption DEF Batches, Outer, Threads

LEMMA JobType ==
    ASSUME NEW j \in Jobs
    PROVE  /\ j.batch \in Batches /\ j.name \in Names /\ j # NoJob
           /\ j.batch # Outer => j.batch \in Sectioned /\ j.name \in Sectioned
           /\ j.batch = Outer => j = [batch |-> Outer, name |-> j.name]
BY NamesFacts DEF Jobs, NoJob, Batches

LEMMA OuterJob ==
    ASSUME NEW a \in Names
    PROVE  /\ [batch |-> Outer, name |-> a] \in Jobs
           /\ JobOK([batch |-> Outer, name |-> a])
BY DEF Jobs, JobOK

LEMMA CopyJob ==
    ASSUME NEW a \in Sectioned
    PROVE  /\ [batch |-> a, name |-> a] \in Jobs
           /\ JobOK([batch |-> a, name |-> a])
BY NamesFacts DEF Jobs, JobOK

LEMMA FrameType ==
    ASSUME NEW f \in FrameSet
    PROVE  /\ f.job \in Jobs \cup {NoJob} /\ f.batch \in Batches \cup {"none"} /\ f.at \in PCs
           /\ f.todo \in Seq(Jobs) /\ Len(f.todo) \in Nat /\ f.saw \in Nat
BY DEF FrameSet

LEMMA FrameMoves ==
    ASSUME NEW f \in FrameSet, NEW pc \in PCs, NEW g, g = [f EXCEPT !.at = pc]
    PROVE  /\ g \in FrameSet
           /\ g.job = f.job /\ g.batch = f.batch /\ g.at = pc /\ g.todo = f.todo /\ g.saw = f.saw
BY DEF FrameSet

LEMMA FrameSees ==
    ASSUME NEW f \in FrameSet, NEW pc \in PCs, NEW n \in Nat,
           NEW g, g = [f EXCEPT !.saw = n, !.at = pc]
    PROVE  /\ g \in FrameSet
           /\ g.job = f.job /\ g.batch = f.batch /\ g.at = pc /\ g.todo = f.todo
BY DEF FrameSet

LEMMA FrameSubmits ==
    ASSUME NEW f \in FrameSet, f.todo # <<>>, NEW g, g = [f EXCEPT !.todo = Tail(@)]
    PROVE  /\ g \in FrameSet
           /\ g.job = f.job /\ g.batch = f.batch /\ g.at = f.at
           /\ Len(g.todo) = Len(f.todo) - 1 /\ Len(f.todo) >= 1
           /\ \A k \in 1..Len(g.todo) : g.todo[k] = f.todo[k + 1] /\ k + 1 \in 1..Len(f.todo)
           /\ Head(f.todo) = f.todo[1] /\ Head(f.todo) \in Jobs
<1>1. f.todo \in Seq(Jobs) /\ Tail(f.todo) \in Seq(Jobs)
  BY DEF FrameSet
<1>2. g \in FrameSet /\ g.todo = Tail(f.todo) /\ g.job = f.job /\ g.batch = f.batch /\ g.at = f.at
  BY <1>1 DEF FrameSet
<1>3. /\ Len(Tail(f.todo)) = Len(f.todo) - 1 /\ Len(f.todo) >= 1
      /\ \A k \in 1..Len(Tail(f.todo)) : Tail(f.todo)[k] = f.todo[k + 1] /\ k + 1 \in 1..Len(f.todo)
      /\ Head(f.todo) = f.todo[1] /\ Head(f.todo) \in Jobs
  BY <1>1
<1> QED
  BY <1>2, <1>3

(* What a job starts with.                                                 *)
LEMMA EntryFacts ==
    ASSUME NEW j \in Jobs, JobOK(j)
    PROVE  /\ Entry(j) \in FrameSet /\ FrameOK(Entry(j))
           /\ Entry(j).job = j
           /\ IF j.batch = Outer /\ j.name \in Sectioned
              THEN Entry(j).at = "submit" /\ Len(Entry(j).todo) = Copies
              ELSE Entry(j).at = "task"
<1>0. j.batch \in Batches /\ j.name \in Names /\ j # NoJob /\ Copies \in Nat
  BY JobType, ExecutorAssumption
<1>1. CASE j.batch = Outer /\ j.name \in Sectioned
  <2> DEFINE c == [batch |-> j.name, name |-> j.name]
             s == [i \in 1..Copies |-> c]
  <2>1. c \in Jobs /\ JobOK(c) /\ c.batch = j.name
    BY <1>1, CopyJob
  <2> HIDE DEF c
  <2>2. s \in Seq(Jobs) /\ Len(s) = Copies /\ \A k \in 1..Copies : s[k] = c
    BY <1>0, <2>1
  <2>3. Entry(j) = Frame(j, j.name, "submit", s)
    BY <1>1 DEF Entry, c
  <2> HIDE DEF s
  <2>4. Entry(j) = [job |-> j, batch |-> j.name, at |-> "submit", todo |-> s, saw |-> 0]
    BY <2>3 DEF Frame
  <2>5. j.name \in Batches
    BY <1>1, NamesFacts
  <2>6. Entry(j) \in FrameSet
    BY <2>2, <2>4, <2>5 DEF FrameSet, PCs, Waits
  <2>7. FrameOK(Entry(j))
    BY <1>0, <1>1, <2>1, <2>2, <2>4 DEF FrameOK, Waits
  <2> QED
    BY <1>1, <2>2, <2>4, <2>6, <2>7
<1>2. CASE ~(j.batch = Outer /\ j.name \in Sectioned)
  <2>1. Entry(j) = [job |-> j, batch |-> "none", at |-> "task", todo |-> <<>>, saw |-> 0]
    BY <1>2 DEF Entry, Frame
  <2>2. Entry(j) \in FrameSet
    BY <2>1 DEF FrameSet, PCs
  <2>3. FrameOK(Entry(j))
    BY <1>0, <1>2, <2>1 DEF FrameOK
  <2> QED
    BY <1>2, <2>1, <2>2, <2>3
<1> QED
  BY <1>1, <1>2

-----------------------------------------------------------------------------
(* How steps change a stack                                                *)

LEMMA FramesHas ==
    ASSUME StackOK, NEW x
    PROVE  x \in Frames <=> \E t \in Threads : \E i \in 1..Len(stack[t]) : x = <<t, i>>
<1>1. \A t \in Threads : DOMAIN stack[t] = 1..Len(stack[t])
  BY DEF StackOK
<1> QED
  BY <1>1 DEF Frames

LEMMA TopFacts ==
    ASSUME StackOK, NEW t \in Threads, stack[t] # <<>>
    PROVE  /\ Len(stack[t]) \in Nat /\ Len(stack[t]) >= 1
           /\ Top(t) \in FrameSet /\ FrameOK(Top(t))
           /\ <<t, Len(stack[t])>> \in Frames
           /\ FrameAt(t, Len(stack[t])) = Top(t)
<1>1. stack[t] \in Seq(FrameSet)
  BY DEF StackOK
<1>2. Len(stack[t]) \in Nat /\ Len(stack[t]) >= 1
  BY <1>1
<1>3. Len(stack[t]) \in 1..Len(stack[t])
  BY <1>2
<1>4. Top(t) \in FrameSet /\ FrameOK(Top(t))
  BY <1>1, <1>3 DEF Top, StackOK
<1>5. <<t, Len(stack[t])>> \in Frames
  BY <1>3, FramesHas
<1> QED
  BY <1>2, <1>4, <1>5 DEF Top, FrameAt

(* The top frame of t becomes g.                                           *)
Changes(t, g) ==
    /\ stack' \in [Threads -> Seq(FrameSet)]
    /\ Len(stack'[t]) = Len(stack[t])
    /\ stack'[t][Len(stack[t])] = g
    /\ \A i \in 1..(Len(stack[t]) - 1) : stack'[t][i] = stack[t][i]
    /\ \A u \in Threads : u # t => stack'[u] = stack[u]

LEMMA ChangeShape ==
    ASSUME StackOK, NEW t \in Threads, stack[t] # <<>>, NEW g \in FrameSet,
           stack' = [stack EXCEPT ![t] = Moved(t, g)]
    PROVE  Changes(t, g)
<1>1. stack[t] \in Seq(FrameSet) /\ Len(stack[t]) >= 1 /\ Len(stack[t]) \in Nat
      /\ stack \in [Threads -> Seq(FrameSet)]
  BY TopFacts DEF StackOK
<1> DEFINE s == Moved(t, g)
<1>2. /\ s \in Seq(FrameSet) /\ Len(s) = Len(stack[t]) /\ s[Len(stack[t])] = g
      /\ \A i \in 1..(Len(stack[t]) - 1) : s[i] = stack[t][i]
  BY <1>1 DEF Moved
<1> HIDE DEF s
<1>3. stack' = [stack EXCEPT ![t] = s]
  BY DEF s
<1>4. stack'[t] = s /\ stack' \in [Threads -> Seq(FrameSet)] /\ \A u \in Threads : u # t => stack'[u] = stack[u]
  BY <1>1, <1>2, <1>3
<1> QED
  BY <1>2, <1>4 DEF Changes

(* The job frame g is put on the stack of t, whose frames below are s.     *)
Pushes(t, s, g) ==
    /\ stack' \in [Threads -> Seq(FrameSet)]
    /\ Len(stack'[t]) = Len(stack[t]) + 1
    /\ stack'[t][Len(stack[t]) + 1] = g
    /\ \A i \in 1..Len(stack[t]) : stack'[t][i] = s[i]
    /\ \A u \in Threads : u # t => stack'[u] = stack[u]

LEMMA PushShape ==
    ASSUME StackOK, NEW t \in Threads, NEW s \in Seq(FrameSet), Len(s) = Len(stack[t]),
           NEW g \in FrameSet, stack' = [stack EXCEPT ![t] = Append(s, g)]
    PROVE  Pushes(t, s, g)
<1> DEFINE r == Append(s, g)
<1>1. /\ r \in Seq(FrameSet) /\ Len(r) = Len(stack[t]) + 1 /\ r[Len(stack[t]) + 1] = g
      /\ \A i \in 1..Len(stack[t]) : r[i] = s[i]
  OBVIOUS
<1> HIDE DEF r
<1>2. stack \in [Threads -> Seq(FrameSet)] /\ stack' = [stack EXCEPT ![t] = r]
  BY DEF StackOK, r
<1> QED
  BY <1>1, <1>2 DEF Pushes

(* The top frame of t is gone.                                             *)
LEMMA PopShape ==
    ASSUME StackOK, NEW t \in Threads, stack[t] # <<>>
    PROVE  /\ Popped(t) \in Seq(FrameSet)
           /\ Len(Popped(t)) = Len(stack[t]) - 1
           /\ \A i \in 1..(Len(stack[t]) - 1) : Popped(t)[i] = stack[t][i]
<1>1. stack[t] \in Seq(FrameSet) /\ Len(stack[t]) >= 1 /\ Len(stack[t]) \in Nat
  BY TopFacts DEF StackOK
<1> QED
  BY <1>1 DEF Popped

(* What the invariant says of a frame, wherever it is.                     *)
LEMMA FramesOK ==
    ASSUME StackOK
    PROVE  /\ <<Caller, 1>> \in Frames
           /\ \A x \in Frames : /\ FrameOf(x) \in FrameSet
                                /\ FrameOK(FrameOf(x))
                                /\ FrameOf(x).job = NoJob <=> x = <<Caller, 1>>
<1>1. <<Caller, 1>> \in Frames
  <2>1. Caller \in Threads /\ 1 \in 1..Len(stack[Caller])
    BY NamesFacts DEF StackOK
  <2> QED BY <2>1, FramesHas
<1>2. ASSUME NEW x \in Frames
      PROVE  /\ FrameOf(x) \in FrameSet
             /\ FrameOK(FrameOf(x))
             /\ FrameOf(x).job = NoJob <=> x = <<Caller, 1>>
  <2>1. PICK t \in Threads : \E i \in 1..Len(stack[t]) : x = <<t, i>>
    BY FramesHas
  <2>2. PICK i \in 1..Len(stack[t]) : x = <<t, i>>
    BY <2>1
  <2>3. stack[t] \in Seq(FrameSet) /\ FrameOf(x) = stack[t][i]
    BY <2>2 DEF StackOK, FrameOf, FrameAt
  <2>4. stack[t][i] \in FrameSet
    BY <2>3
  <2>5. FrameOK(stack[t][i]) /\ (stack[t][i].job = NoJob <=> t = Caller /\ i = 1)
    BY DEF StackOK
  <2> QED BY <2>2, <2>3, <2>4, <2>5
<1> QED BY <1>1, <1>2

(* The frame y becomes g.                                                  *)
Moves(y, g) ==
    /\ Frames' = Frames /\ y \in Frames
    /\ FrameOf(y)' = g
    /\ \A x \in Frames : x # y => FrameOf(x)' = FrameOf(x)

LEMMA MoveStack ==
    ASSUME StackOK, NEW t \in Threads, stack[t] # <<>>, NEW g \in FrameSet, FrameOK(g),
           stack' = [stack EXCEPT ![t] = Moved(t, g)], g.job = Top(t).job,
           NEW n, n = Len(stack[t])
    PROVE  StackOK' /\ Moves(<<t, n>>, g)
<1>1. Changes(t, g)
  BY ChangeShape
<1>2. /\ n \in Nat /\ n >= 1 /\ Top(t) = stack[t][n] /\ <<t, n>> \in Frames
  BY TopFacts DEF Top
<1>3. \A u \in Threads : Len(stack'[u]) = Len(stack[u])
  BY <1>1 DEF Changes
<1>4. \A u \in Threads : \A i \in 1..Len(stack[u]) :
         stack'[u][i] = IF u = t /\ i = n THEN g ELSE stack[u][i]
  <2> SUFFICES ASSUME NEW u \in Threads, NEW i \in 1..Len(stack[u])
               PROVE  stack'[u][i] = IF u = t /\ i = n THEN g ELSE stack[u][i]
    OBVIOUS
  <2>1. CASE u = t /\ i # n
    <3>1. i \in 1..(n - 1)
      BY <1>2, <2>1
    <3> QED BY <1>1, <2>1, <3>1 DEF Changes
  <2>2. CASE u # t
    BY <1>1, <2>2 DEF Changes
  <2> QED BY <1>1, <2>1, <2>2 DEF Changes
<1>5. StackOK'
  <2>1. stack' \in [Threads -> Seq(FrameSet)] /\ Len(stack'[Caller]) >= 1
    BY <1>1, <1>3, NamesFacts DEF Changes, StackOK
  <2>2. ASSUME NEW u \in Threads, NEW i \in 1..Len(stack'[u])
        PROVE  /\ FrameOK(stack'[u][i])
               /\ stack'[u][i].job = NoJob <=> u = Caller /\ i = 1
               /\ i < Len(stack'[u]) => stack'[u][i].at \in {"submit", "load"}
    <3>1. i \in 1..Len(stack[u]) /\ Len(stack'[u]) = Len(stack[u])
      BY <1>3
    <3>2. /\ FrameOK(stack[u][i])
          /\ stack[u][i].job = NoJob <=> u = Caller /\ i = 1
          /\ i < Len(stack[u]) => stack[u][i].at \in {"submit", "load"}
      BY <3>1 DEF StackOK
    <3> QED BY <1>2, <1>4, <3>1, <3>2
  <2> QED BY <2>1, <2>2 DEF StackOK, FrameOK, JobOK
<1>6. Frames' = Frames
  <2>1. \A u \in Threads : DOMAIN stack'[u] = DOMAIN stack[u]
    BY <1>1, <1>3 DEF StackOK, Changes
  <2> QED BY <2>1 DEF Frames
<1>7. ASSUME NEW x \in Frames
      PROVE  FrameOf(x)' = IF x = <<t, n>> THEN g ELSE FrameOf(x)
  <2>1. PICK u \in Threads : \E i \in 1..Len(stack[u]) : x = <<u, i>>
    BY FramesHas
  <2>2. PICK i \in 1..Len(stack[u]) : x = <<u, i>>
    BY <2>1
  <2> QED BY <1>4, <2>2 DEF FrameOf, FrameAt
<1> QED
  BY <1>2, <1>5, <1>6, <1>7 DEF Moves

(* The frame z of a job is put on a stack; below it y becomes h.           *)
NewFrame(y, h, z, e) ==
    /\ Frames' = Frames \cup {z} /\ z \notin Frames /\ y \in Frames
    /\ FrameOf(z)' = e
    /\ FrameOf(y)' = h
    /\ \A x \in Frames : x # y => FrameOf(x)' = FrameOf(x)

LEMMA PushStack ==
    ASSUME StackOK, NEW t \in Threads, NEW n, n = Len(stack[t]),
           NEW s \in Seq(FrameSet), Len(s) = n,
           NEW e \in FrameSet, FrameOK(e), e.job # NoJob,
           stack' = [stack EXCEPT ![t] = Append(s, e)],
           NEW y \in Frames, NEW h,
           \A i \in 1..n : /\ s[i] = IF <<t, i>> = y THEN h ELSE stack[t][i]
                           /\ FrameOK(s[i])
                           /\ s[i].job = stack[t][i].job
                           /\ s[i].at \in {"submit", "load"},
           y[1] # t => h = FrameOf(y)
    PROVE  StackOK' /\ NewFrame(y, h, <<t, n + 1>>, e)
<1>0. n \in Nat
  BY DEF StackOK
<1>1. Pushes(t, s, e)
  BY PushShape
<1>2. Len(stack'[t]) = n + 1 /\ \A u \in Threads : u # t => stack'[u] = stack[u]
  BY <1>1 DEF Pushes
<1>3. stack'[t][n + 1] = e /\ \A i \in 1..n : stack'[t][i] = s[i]
  BY <1>1 DEF Pushes
<1>4. StackOK'
  <2>1. stack' \in [Threads -> Seq(FrameSet)] /\ Len(stack'[Caller]) >= 1
    <3>1. Len(stack[Caller]) >= 1 /\ Caller \in Threads
      BY NamesFacts DEF StackOK
    <3> QED BY <1>0, <1>1, <1>2, <3>1 DEF Pushes
  <2>2. ASSUME NEW u \in Threads, NEW i \in 1..Len(stack'[u])
        PROVE  /\ FrameOK(stack'[u][i])
               /\ stack'[u][i].job = NoJob <=> u = Caller /\ i = 1
               /\ i < Len(stack'[u]) => stack'[u][i].at \in {"submit", "load"}
    <3>1. CASE u # t
      BY <1>2, <3>1 DEF StackOK
    <3>2. CASE u = t /\ i = n + 1
      <4>1. t = Caller => n >= 1
        BY DEF StackOK
      <4> QED BY <1>0, <1>2, <1>3, <3>2, <4>1
    <3>3. CASE u = t /\ i # n + 1
      <4>1. i \in 1..n
        BY <1>0, <1>2, <3>3
      <4>2. stack[t][i].job = NoJob <=> t = Caller /\ i = 1
        BY <4>1 DEF StackOK
      <4> QED BY <1>3, <3>3, <4>1, <4>2
    <3> QED BY <3>1, <3>2, <3>3
  <2> QED BY <2>1, <2>2 DEF StackOK, FrameOK, JobOK
<1>5. Frames' = Frames \cup {<<t, n + 1>>}
  <2>1. \A u \in Threads : u # t => DOMAIN stack'[u] = DOMAIN stack[u]
    BY <1>2
  <2>2. DOMAIN stack[t] = 1..n /\ DOMAIN stack'[t] = 1..(n + 1)
    BY <1>1, <1>2 DEF StackOK, Pushes
  <2>3. DOMAIN stack'[t] = DOMAIN stack[t] \cup {n + 1}
    BY <1>0, <2>2
  <2> QED BY <2>1, <2>3 DEF Frames
<1>6. <<t, n + 1>> \notin Frames
  <2> SUFFICES ASSUME <<t, n + 1>> \in Frames PROVE FALSE
    OBVIOUS
  <2>1. PICK u \in Threads : \E i \in 1..Len(stack[u]) : <<t, n + 1>> = <<u, i>>
    BY FramesHas
  <2> QED BY <1>0, <2>1
<1>7. FrameOf(<<t, n + 1>>)' = e
  BY <1>3 DEF FrameOf, FrameAt
<1>8. ASSUME NEW x \in Frames
      PROVE  FrameOf(x)' = IF x = y THEN h ELSE FrameOf(x)
  <2>1. PICK u \in Threads : \E i \in 1..Len(stack[u]) : x = <<u, i>>
    BY FramesHas
  <2>2. PICK i \in 1..Len(stack[u]) : x = <<u, i>>
    BY <2>1
  <2>3. FrameOf(x) = stack[u][i] /\ FrameOf(x)' = stack'[u][i]
    BY <2>2 DEF FrameOf, FrameAt
  <2>4. CASE u # t
    <3>1. FrameOf(x)' = FrameOf(x)
      BY <1>2, <2>3, <2>4
    <3>2. x[1] # t
      BY <2>2, <2>4
    <3> QED BY <3>1, <3>2
  <2>5. CASE u = t
    <3>1. i \in 1..n /\ FrameOf(x)' = s[i]
      BY <1>3, <2>3, <2>5
    <3> QED BY <2>2, <2>3, <2>5, <3>1
  <2> QED BY <2>4, <2>5
<1> QED
  BY <1>4, <1>5, <1>6, <1>7, <1>8 DEF NewFrame

(* The frame y is gone, and threads asleep may have been woken.            *)
Gone(y) ==
    /\ Frames' = Frames \ {y} /\ y \in Frames
    /\ \A x \in Frames \ {y} :
          \/ FrameOf(x)' = FrameOf(x)
          \/ /\ FrameOf(x).at = "asleep"
             /\ FrameOf(x)' = [FrameOf(x) EXCEPT !.at = "load"]

LEMMA WokenFrame ==
    ASSUME NEW f \in FrameSet, FrameOK(f), f.at = "asleep", NEW g, g = [f EXCEPT !.at = "load"]
    PROVE  g \in FrameSet /\ FrameOK(g) /\ g.job = f.job
<1>1. "load" \in PCs
  BY DEF PCs, Waits
<1>2. g \in FrameSet /\ g.job = f.job /\ g.batch = f.batch /\ g.at = "load" /\ g.todo = f.todo
  BY <1>1, FrameMoves
<1>3. FrameOK(g)
  BY <1>2 DEF FrameOK, Waits
<1> QED BY <1>2, <1>3

LEMMA PopStack ==
    ASSUME StackOK, NEW t \in Threads, NEW n, n = Len(stack[t]), stack[t] # <<>>,
           Top(t).job # NoJob,
           stack' = [u \in Threads |-> stack'[u]], stack'[t] = Popped(t),
           \A u \in Threads : u # t =>
              \/ stack'[u] = stack[u]
              \/ At(u, "asleep") /\ stack'[u] = Moved(u, [Top(u) EXCEPT !.at = "load"])
    PROVE  StackOK' /\ Gone(<<t, n>>)
<1>0. n \in Nat /\ n >= 1 /\ <<t, n>> \in Frames /\ Top(t) = stack[t][n]
  BY TopFacts DEF Top
<1>1. /\ stack'[t] \in Seq(FrameSet) /\ Len(stack'[t]) = n - 1
      /\ \A i \in 1..(n - 1) : stack'[t][i] = stack[t][i]
  BY PopShape
<1>2. ASSUME NEW u \in Threads, u # t
      PROVE  /\ stack'[u] \in Seq(FrameSet) /\ Len(stack'[u]) = Len(stack[u])
             /\ \A i \in 1..Len(stack[u]) :
                   \/ stack'[u][i] = stack[u][i]
                   \/ /\ i = Len(stack[u]) /\ stack[u][i].at = "asleep"
                      /\ stack'[u][i] = [stack[u][i] EXCEPT !.at = "load"]
  <2>0. \/ stack'[u] = stack[u]
        \/ At(u, "asleep") /\ stack'[u] = Moved(u, [Top(u) EXCEPT !.at = "load"])
    BY <1>2
  <2>1. CASE stack'[u] = stack[u]
    BY <2>1 DEF StackOK
  <2>2. CASE At(u, "asleep") /\ stack'[u] = Moved(u, [Top(u) EXCEPT !.at = "load"])
    <3>0. stack[u] # <<>> /\ Top(u).at = "asleep"
      BY <2>2 DEF At
    <3>1. /\ stack[u] \in Seq(FrameSet) /\ Len(stack[u]) \in Nat /\ Len(stack[u]) >= 1
          /\ Top(u) = stack[u][Len(stack[u])] /\ Top(u) \in FrameSet
      BY <3>0, TopFacts DEF StackOK, Top
    <3>2. PICK g : g = [Top(u) EXCEPT !.at = "load"]
      OBVIOUS
    <3>3. g \in FrameSet
      BY <3>1, <3>2, FrameMoves DEF PCs, Waits
    <3>4. stack'[u] = [stack[u] EXCEPT ![Len(stack[u])] = g]
      BY <2>2, <3>2 DEF Moved
    <3>5. /\ stack'[u] \in Seq(FrameSet) /\ Len(stack'[u]) = Len(stack[u])
          /\ \A i \in 1..Len(stack[u]) :
                stack'[u][i] = IF i = Len(stack[u]) THEN g ELSE stack[u][i]
      BY <3>1, <3>3, <3>4
    <3> QED BY <3>0, <3>1, <3>2, <3>5
  <2> QED BY <2>0, <2>1, <2>2
<1>3. StackOK'
  <2>1. stack' \in [Threads -> Seq(FrameSet)]
    BY <1>1, <1>2
  <2>2. Len(stack'[Caller]) >= 1
    <3>1. Len(stack[Caller]) >= 1 /\ Caller \in Threads
      BY NamesFacts DEF StackOK
    <3>2. t = Caller => n # 1
      BY <1>0 DEF StackOK
    <3>3. CASE t = Caller
      <4>0. n # 1
        BY <3>2, <3>3
      <4>1. n - 1 >= 1
        <5>1. \A m \in Nat : m >= 1 /\ m # 1 => m - 1 >= 1
          OBVIOUS
        <5> QED BY <1>0, <4>0, <5>1
      <4>2. Len(stack'[t]) = n - 1
        BY <1>1
      <4> QED BY <3>3, <4>1, <4>2
    <3>4. CASE t # Caller
      BY <1>2, <3>1, <3>4
    <3> QED BY <3>3, <3>4
  <2>3. ASSUME NEW u \in Threads, NEW i \in 1..Len(stack'[u])
        PROVE  /\ FrameOK(stack'[u][i])
               /\ stack'[u][i].job = NoJob <=> u = Caller /\ i = 1
               /\ i < Len(stack'[u]) => stack'[u][i].at \in {"submit", "load"}
    <3>1. i \in 1..Len(stack[u]) /\ (i < Len(stack'[u]) => i < Len(stack[u]))
      BY <1>0, <1>1, <1>2
    <3>2. /\ FrameOK(stack[u][i]) /\ stack[u][i] \in FrameSet
          /\ stack[u][i].job = NoJob <=> u = Caller /\ i = 1
          /\ i < Len(stack[u]) => stack[u][i].at \in {"submit", "load"}
      BY <3>1 DEF StackOK
    <3>3. CASE stack'[u][i] = stack[u][i]
      BY <3>1, <3>2, <3>3
    <3>4. CASE stack'[u][i] # stack[u][i]
      <4>1. u # t
        BY <1>0, <1>1, <3>4
      <4>2. /\ i = Len(stack[u]) /\ stack[u][i].at = "asleep" /\ Len(stack'[u]) = Len(stack[u])
            /\ stack'[u][i] = [stack[u][i] EXCEPT !.at = "load"]
        BY <1>2, <3>1, <3>4, <4>1
      <4>3. PICK f, g : f = stack[u][i] /\ g = stack'[u][i]
        OBVIOUS
      <4>4. FrameOK(g) /\ g.job = f.job
        BY <3>2, <4>2, <4>3, WokenFrame
      <4> QED BY <3>2, <4>2, <4>3, <4>4
    <3> QED BY <3>3, <3>4
  <2> QED BY <2>1, <2>2, <2>3 DEF StackOK, FrameOK, JobOK
<1>4. Frames' = Frames \ {<<t, n>>}
  <2>1. \A u \in Threads : u # t => DOMAIN stack'[u] = DOMAIN stack[u]
    BY <1>2 DEF StackOK
  <2>2. DOMAIN stack[t] = 1..n /\ DOMAIN stack'[t] = 1..(n - 1)
    BY <1>1 DEF StackOK
  <2>3. DOMAIN stack'[t] = DOMAIN stack[t] \ {n}
    BY <1>0, <2>2
  <2> QED BY <2>1, <2>3 DEF Frames
<1>5. ASSUME NEW x \in Frames \ {<<t, n>>}
      PROVE  \/ FrameOf(x)' = FrameOf(x)
             \/ /\ FrameOf(x).at = "asleep"
                /\ FrameOf(x)' = [FrameOf(x) EXCEPT !.at = "load"]
  <2>1. PICK u \in Threads : \E i \in 1..Len(stack[u]) : x = <<u, i>>
    BY FramesHas
  <2>2. PICK i \in 1..Len(stack[u]) : x = <<u, i>>
    BY <2>1
  <2>3. FrameOf(x) = stack[u][i] /\ FrameOf(x)' = stack'[u][i]
    BY <2>2 DEF FrameOf, FrameAt
  <2>4. CASE u = t
    <3>1. i \in 1..(n - 1)
      BY <1>0, <2>2, <2>4
    <3> QED BY <1>1, <2>3, <2>4, <3>1
  <2>5. CASE u # t
    BY <1>2, <2>3, <2>5
  <2> QED BY <2>4, <2>5
<1> QED
  BY <1>0, <1>3, <1>4, <1>5 DEF Gone

-----------------------------------------------------------------------------
(* Counting                                                                *)

LEMMA CardMove ==
    ASSUME NEW A, NEW B, NEW y, IsFiniteSet(A), B \ {y} = A \ {y}
    PROVE  /\ IsFiniteSet(B) /\ Cardinality(A) \in Nat /\ Cardinality(B) \in Nat
           /\ (y \in A <=> y \in B) => Cardinality(B) = Cardinality(A)
           /\ y \notin A /\ y \in B => Cardinality(B) = Cardinality(A) + 1
           /\ y \in A /\ y \notin B => Cardinality(A) = Cardinality(B) + 1
<1>1. CASE y \in A <=> y \in B
  <2>1. A = B
    BY <1>1
  <2> QED BY <1>1, <2>1, FS_CardinalityType
<1>2. CASE y \notin A /\ y \in B
  <2>1. B = A \cup {y}
    BY <1>2
  <2> QED BY <1>2, <2>1, FS_AddElement, FS_CardinalityType
<1>3. CASE y \in A /\ y \notin B
  <2>1. A = B \cup {y} /\ B \subseteq A
    BY <1>3
  <2>2. IsFiniteSet(B)
    BY <2>1, FS_Subset
  <2> QED BY <1>3, <2>1, <2>2, FS_AddElement, FS_CardinalityType
<1> QED BY <1>1, <1>2, <1>3

(* The places of a batch's jobs in a ring q.                               *)
Places(q, b) == {k \in 1..Len(q) : q[k].batch = b}

LEMMA PlacesFinite ==
    ASSUME NEW q \in Seq(Jobs), NEW b
    PROVE  IsFiniteSet(Places(q, b)) /\ Cardinality(Places(q, b)) \in Nat
<1>1. IsFiniteSet(1..Len(q))
  BY FS_Interval
<1>2. Places(q, b) \subseteq 1..Len(q)
  BY DEF Places
<1> QED BY <1>1, <1>2, FS_Subset, FS_CardinalityType

LEMMA PlacesAppend ==
    ASSUME NEW q \in Seq(Jobs), NEW j \in Jobs, NEW b
    PROVE  Cardinality(Places(Append(q, j), b))
             = Cardinality(Places(q, b)) + (IF j.batch = b THEN 1 ELSE 0)
<1> DEFINE n == Len(q) + 1
<1>1. /\ Append(q, j) \in Seq(Jobs) /\ Len(Append(q, j)) = n /\ Append(q, j)[n] = j
      /\ \A k \in 1..Len(q) : Append(q, j)[k] = q[k]
      /\ n \notin 1..Len(q) /\ 1..n = 1..Len(q) \cup {n}
  OBVIOUS
<1>2. Places(Append(q, j), b) \ {n} = Places(q, b) \ {n}
  BY <1>1 DEF Places
<1>3. n \notin Places(q, b) /\ (n \in Places(Append(q, j), b) <=> j.batch = b)
  BY <1>1 DEF Places
<1> HIDE DEF n
<1> QED BY <1>2, <1>3, PlacesFinite, CardMove

LEMMA PlacesTail ==
    ASSUME NEW q \in Seq(Jobs), q # <<>>, NEW b
    PROVE  Cardinality(Places(q, b))
             = Cardinality(Places(Tail(q), b)) + (IF Head(q).batch = b THEN 1 ELSE 0)
<1>1. /\ Tail(q) \in Seq(Jobs) /\ Len(q) >= 1 /\ Len(q) \in Nat /\ Len(Tail(q)) = Len(q) - 1 /\ Head(q) = q[1]
      /\ \A k \in 1..(Len(q) - 1) : Tail(q)[k] = q[k + 1]
  OBVIOUS
<1> DEFINE A == Places(Tail(q), b)
           B == Places(q, b) \ {1}
           f == [k \in A |-> k + 1]
<1>2. f \in Bijection(A, B)
  <2>1. f \in [A -> B]
    BY <1>1 DEF Places
  <2>2. \A k, l \in A : f[k] = f[l] => k = l
    BY DEF Places
  <2>3. ASSUME NEW k \in B PROVE \E l \in A : f[l] = k
    <3>1. k - 1 \in A
      BY <1>1 DEF Places
    <3>2. f[k - 1] = k
      <4>1. k \in Nat
        BY <1>1 DEF Places
      <4> QED BY <3>1, <4>1
    <3> QED BY <3>1, <3>2
  <2> HIDE DEF f, A, B
  <2> QED BY <2>1, <2>2, <2>3 DEF Bijection, Injection, Surjection, IsInjective
<1>3. IsFiniteSet(A) /\ IsFiniteSet(Places(q, b))
  BY <1>1, PlacesFinite
<1>4. Cardinality(B) = Cardinality(A)
  <2> HIDE DEF f, A, B
  <2> QED BY <1>2, <1>3, FS_Bijection DEF ExistsBijection
<1>5. 1 \in Places(q, b) <=> Head(q).batch = b
  BY <1>1 DEF Places
<1>6. B \ {1} = Places(q, b) \ {1} /\ 1 \notin B
  OBVIOUS
<1> HIDE DEF A, B
<1>7. IF 1 \in Places(q, b) THEN Cardinality(Places(q, b)) = Cardinality(B) + 1
                            ELSE Cardinality(Places(q, b)) = Cardinality(B)
  BY <1>3, <1>6, CardMove
<1>8. Cardinality(A) \in Nat
  BY <1>3, FS_CardinalityType
<1> QED BY <1>4, <1>5, <1>7, <1>8 DEF A

-----------------------------------------------------------------------------
(* What a step leaves alone                                                *)

(* Every frame but y keeps its job and does not finish.                    *)
Others(y) ==
    \A x : x # y =>
       /\ x \in Frames' <=> x \in Frames
       /\ x \in Frames => /\ FrameOf(x)'.job = FrameOf(x).job
                          /\ FrameOf(x)'.at = "notify" <=> FrameOf(x).at = "notify"

LEMMA MoveOthers ==
    ASSUME NEW y, NEW g, Moves(y, g)
    PROVE  Others(y)
BY DEF Moves, Others

LEMMA NewOthers ==
    ASSUME NEW y, NEW h, NEW z, NEW e, NewFrame(y, h, z, e),
           h.job = FrameOf(y).job, h.at # "notify", FrameOf(y).at # "notify"
    PROVE  Others(z)
BY DEF NewFrame, Others

LEMMA GoneOthers ==
    ASSUME StackOK, NEW y, Gone(y)
    PROVE  Others(y)
<1>1. ASSUME NEW x, x # y
      PROVE  x \in Frames' <=> x \in Frames
  BY <1>1 DEF Gone
<1>2. ASSUME NEW x, x # y, x \in Frames
      PROVE  /\ FrameOf(x)'.job = FrameOf(x).job
             /\ FrameOf(x)'.at = "notify" <=> FrameOf(x).at = "notify"
  <2>1. PICK f, g : f = FrameOf(x) /\ g = FrameOf(x)'
    OBVIOUS
  <2>2. f \in FrameSet /\ FrameOK(f)
    BY <1>2, <2>1, FramesOK
  <2>3. CASE g = f
    BY <2>1, <2>3
  <2>4. CASE f.at = "asleep" /\ g = [f EXCEPT !.at = "load"]
    <3>1. g.job = f.job /\ g.at = "load"
      BY <2>2, <2>4, FrameMoves DEF PCs, Waits
    <3> QED BY <2>1, <2>4, <3>1
  <2> QED BY <1>2, <2>1, <2>3, <2>4 DEF Gone
<1> QED BY <1>1, <1>2 DEF Others

LEMMA LiveChange ==
    ASSUME CountOK, NEW y, Others(y), NEW b \in Batches
    PROVE  /\ IsFiniteSet(Live(b))'
           /\ Cardinality(Live(b)) \in Nat /\ Cardinality(Live(b))' \in Nat
           /\ (y \in Live(b) <=> y \in Live(b)') => Cardinality(Live(b))' = Cardinality(Live(b))
           /\ y \notin Live(b) /\ y \in Live(b)' => Cardinality(Live(b))' = Cardinality(Live(b)) + 1
           /\ y \in Live(b) /\ y \notin Live(b)' => Cardinality(Live(b)) = Cardinality(Live(b))' + 1
<1>1. PICK A, B : A = Live(b) /\ B = Live(b)'
  OBVIOUS
<1>2. \A x : x # y => (x \in B <=> x \in A)
  BY <1>1 DEF Live, Others
<1>3. IsFiniteSet(A)
  BY <1>1 DEF CountOK
<1>4. B \ {y} = A \ {y}
  BY <1>2
<1>5. /\ IsFiniteSet(B) /\ Cardinality(A) \in Nat /\ Cardinality(B) \in Nat
      /\ (y \in A <=> y \in B) => Cardinality(B) = Cardinality(A)
      /\ y \notin A /\ y \in B => Cardinality(B) = Cardinality(A) + 1
      /\ y \in A /\ y \notin B => Cardinality(A) = Cardinality(B) + 1
  BY <1>3, <1>4, CardMove
<1> QED BY <1>1, <1>5

LEMMA QueueGrows ==
    ASSUME TypeOK, NEW j \in Jobs, queue' = Append(queue, j), NEW b
    PROVE  /\ Cardinality(Queued(b)) \in Nat
           /\ Cardinality(Queued(b))' = Cardinality(Queued(b)) + (IF j.batch = b THEN 1 ELSE 0)
<1>1. queue \in Seq(Jobs)
  BY DEF TypeOK
<1>2. Queued(b) = Places(queue, b) /\ Queued(b)' = Places(Append(queue, j), b)
  BY DEF Queued, Places
<1>3. PICK q \in Seq(Jobs) : q = queue
  BY <1>1
<1> QED BY <1>2, <1>3, PlacesAppend, PlacesFinite

LEMMA QueueShrinks ==
    ASSUME TypeOK, queue # <<>>, queue' = Tail(queue), NEW b
    PROVE  /\ Cardinality(Queued(b))' \in Nat
           /\ Cardinality(Queued(b)) = Cardinality(Queued(b))' + (IF Head(queue).batch = b THEN 1 ELSE 0)
<1>1. queue \in Seq(Jobs) /\ Tail(queue) \in Seq(Jobs)
  BY DEF TypeOK
<1>2. Queued(b) = Places(queue, b) /\ Queued(b)' = Places(Tail(queue), b)
  BY DEF Queued, Places
<1>3. PICK q \in Seq(Jobs) : q = queue /\ Tail(q) \in Seq(Jobs)
  BY <1>1
<1>4. /\ Cardinality(Places(q, b))
           = Cardinality(Places(Tail(q), b)) + (IF Head(q).batch = b THEN 1 ELSE 0)
      /\ Cardinality(Places(Tail(q), b)) \in Nat
  <2>1. q # <<>>
    BY <1>3
  <2>2. Cardinality(Places(Tail(q), b)) \in Nat
    BY <1>3, PlacesFinite
  <2> QED BY <2>1, <2>2, PlacesTail
<1> QED BY <1>2, <1>3, <1>4

LEMMA QueuedCount ==
    ASSUME TypeOK, NEW b
    PROVE  Cardinality(Queued(b)) \in Nat
<1>1. PICK q \in Seq(Jobs) : q = queue
  BY DEF TypeOK
<1> QED BY <1>1, PlacesFinite DEF Queued, Places

(* Whoever waits goes on waiting, until the batch is empty.                *)
LEMMA WaitersKept ==
    ASSUME WaitersOK,
           \A b \in Batches : remaining'[b] # 0 => remaining[b] # 0 \/ Waiter(b)',
           \A x \in Frames : FrameOf(x).at \in Waits =>
              \/ /\ x \in Frames' /\ FrameOf(x)'.at \in Waits
                 /\ FrameOf(x)'.batch = FrameOf(x).batch
              \/ remaining'[FrameOf(x).batch] = 0
    PROVE  WaitersOK'
<1> SUFFICES ASSUME NEW b \in Batches, remaining'[b] # 0 PROVE Waiter(b)'
  BY DEF WaitersOK
<1>1. CASE Waiter(b)'
  BY <1>1
<1>2. CASE remaining[b] # 0
  <2>1. PICK x \in Frames : FrameOf(x).batch = b /\ FrameOf(x).at \in Waits
    BY <1>2 DEF WaitersOK, Waiter
  <2>2. x \in Frames' /\ FrameOf(x)'.at \in Waits /\ FrameOf(x)'.batch = b
    BY <2>1
  <2> QED BY <2>2 DEF Waiter
<1> QED BY <1>1, <1>2

-----------------------------------------------------------------------------
(* Where the outer job of an artifact is                                   *)

LEMMA QueueNamesHas ==
    ASSUME NEW q, NEW A, q = queue, A = Queued(Outer)
    PROVE  /\ \A a : a \in QueueNames <=> \E k \in A : q[k].name = a
           /\ QueueOnce <=> \A k, l \in A : q[k].name = q[l].name => k = l
BY DEF QueueNames, QueueOnce

LEMMA QueueGetsName ==
    ASSUME TypeOK, QueueOnce, NEW j \in Jobs, queue' = Append(queue, j),
           j.batch = Outer => j.name \notin QueueNames
    PROVE  /\ QueueOnce'
           /\ QueueNames' = IF j.batch = Outer THEN QueueNames \cup {j.name} ELSE QueueNames
<1>0. PICK q, r, A, B, n : /\ q = queue /\ r = queue' /\ n = Len(queue) + 1
                           /\ A = Queued(Outer) /\ B = Queued(Outer)'
  OBVIOUS
<1>1. q \in Seq(Jobs)
  BY <1>0 DEF TypeOK
<1>2. /\ Len(r) = n /\ r[n] = j
      /\ \A k \in 1..Len(q) : r[k] = q[k]
      /\ n \notin 1..Len(q) /\ 1..n = 1..Len(q) \cup {n}
  BY <1>0, <1>1
<1>3. /\ B = IF j.batch = Outer THEN A \cup {n} ELSE A
      /\ \A k \in A : k \in 1..Len(q) /\ r[k] = q[k]
      /\ n \notin A
  <2>1. A = {k \in 1..Len(q) : q[k].batch = Outer} /\ B = {k \in 1..Len(r) : r[k].batch = Outer}
    BY <1>0 DEF Queued
  <2> QED BY <1>2, <2>1
<1>4. /\ \A a : a \in QueueNames <=> \E k \in A : q[k].name = a
      /\ \A k, l \in A : q[k].name = q[l].name => k = l
  BY <1>0, QueueNamesHas
<1>5. /\ \A a : a \in QueueNames' <=> \E k \in B : r[k].name = a
      /\ QueueOnce' <=> \A k, l \in B : r[k].name = r[l].name => k = l
  BY <1>0 DEF QueueNames, QueueOnce
<1>6. \A k, l \in B : r[k].name = r[l].name => k = l
  BY <1>2, <1>3, <1>4
<1>7. \A a : a \in QueueNames' <=> a \in QueueNames \/ (j.batch = Outer /\ a = j.name)
  <2>1. \A a : (\E k \in A : r[k].name = a) <=> (\E k \in A : q[k].name = a)
    BY <1>3
  <2>2. CASE j.batch = Outer
    <3>1. B = A \cup {n} /\ r[n].name = j.name
      BY <1>2, <1>3, <2>2
    <3>2. \A a : (\E k \in B : r[k].name = a) <=> (\E k \in A : r[k].name = a) \/ a = j.name
      BY <3>1
    <3> QED BY <1>4, <1>5, <2>1, <2>2, <3>2
  <2>3. CASE j.batch # Outer
    BY <1>3, <1>4, <1>5, <2>1, <2>3
  <2> QED BY <2>2, <2>3
<1>8. QueueNames' = IF j.batch = Outer THEN QueueNames \cup {j.name} ELSE QueueNames
  BY <1>7
<1> QED BY <1>5, <1>6, <1>8

LEMMA QueueGivesName ==
    ASSUME TypeOK, QueueOnce, queue # <<>>, queue' = Tail(queue), NEW j, j = Head(queue)
    PROVE  /\ QueueOnce'
           /\ j.batch = Outer => j.name \in QueueNames
           /\ QueueNames' = IF j.batch = Outer THEN QueueNames \ {j.name} ELSE QueueNames
<1>0. PICK q, r, A, B : /\ q = queue /\ r = queue'
                        /\ A = Queued(Outer) /\ B = Queued(Outer)'
  OBVIOUS
<1>1. q \in Seq(Jobs) /\ Len(q) \in Nat /\ Len(q) >= 1
  BY <1>0 DEF TypeOK
<1>2. /\ Len(r) = Len(q) - 1 /\ j = q[1]
      /\ \A k \in 1..(Len(q) - 1) : r[k] = q[k + 1]
  BY <1>0, <1>1
<1>3. A = {k \in 1..Len(q) : q[k].batch = Outer} /\ B = {k \in 1..Len(r) : r[k].batch = Outer}
  BY <1>0 DEF Queued
<1>4. \A k \in B : k + 1 \in A /\ r[k] = q[k + 1] /\ k \in Nat /\ k >= 1
  BY <1>1, <1>2, <1>3
<1>5. \A k \in A : k # 1 => k - 1 \in B /\ r[k - 1] = q[k]
  BY <1>1, <1>2, <1>3
<1>6. 1 \in A <=> j.batch = Outer
  BY <1>1, <1>2, <1>3
<1>7. /\ \A a : a \in QueueNames <=> \E k \in A : q[k].name = a
      /\ \A k, l \in A : q[k].name = q[l].name => k = l
  BY <1>0, QueueNamesHas
<1>8. /\ \A a : a \in QueueNames' <=> \E k \in B : r[k].name = a
      /\ QueueOnce' <=> \A k, l \in B : r[k].name = r[l].name => k = l
  BY <1>0 DEF QueueNames, QueueOnce
<1>9. ASSUME NEW k \in B, NEW l \in B, r[k].name = r[l].name
      PROVE  k = l
  <2>1. k + 1 = l + 1
    BY <1>4, <1>7, <1>9
  <2> QED BY <1>4, <2>1
<1>10. j.batch = Outer => j.name \in QueueNames
  BY <1>2, <1>6, <1>7
<1>11. ASSUME NEW a PROVE a \in QueueNames' <=> a \in QueueNames /\ (j.batch = Outer => a # j.name)
  <2>1. ASSUME a \in QueueNames' PROVE a \in QueueNames /\ (j.batch = Outer => a # j.name)
    <3>1. PICK k \in B : a = r[k].name
      BY <1>8, <2>1
    <3>2. k + 1 \in A /\ a = q[k + 1].name /\ k + 1 # 1
      BY <1>4, <3>1
    <3> QED BY <1>2, <1>6, <1>7, <3>2
  <2>2. ASSUME a \in QueueNames, j.batch = Outer => a # j.name PROVE a \in QueueNames'
    <3>1. PICK k \in A : a = q[k].name
      BY <1>7, <2>2
    <3>2. k # 1
      BY <1>2, <1>6, <2>2, <3>1
    <3>3. k - 1 \in B /\ r[k - 1].name = a
      BY <1>5, <3>1, <3>2
    <3> QED BY <1>8, <3>3
  <2> QED BY <2>1, <2>2
<1>12. QueueNames' = IF j.batch = Outer THEN QueueNames \ {j.name} ELSE QueueNames
  BY <1>11
<1> QED BY <1>8, <1>9, <1>10, <1>12

LEMMA TodoGivesName ==
    ASSUME TodoOnce, Todo \in Seq(Jobs), Todo # <<>>, Todo' = Tail(Todo), NEW j, j = Head(Todo)
    PROVE  /\ TodoOnce'
           /\ j.name \in TodoNames
           /\ TodoNames' = TodoNames \ {j.name}
<1>0. PICK d, e : d = Todo /\ e = Todo'
  OBVIOUS
<1>1. /\ Len(d) \in Nat /\ Len(d) >= 1 /\ Len(e) = Len(d) - 1 /\ j = d[1]
      /\ \A k \in 1..(Len(d) - 1) : e[k] = d[k + 1]
  BY <1>0
<1>2. \A k, l \in 1..Len(d) : d[k].name = d[l].name => k = l
  BY <1>0 DEF TodoOnce
<1>3. \A k \in 1..Len(e) : k + 1 \in 1..Len(d) /\ e[k] = d[k + 1] /\ k \in Nat /\ k >= 1
  BY <1>1
<1>4. \A k \in 1..Len(d) : k # 1 => k - 1 \in 1..Len(e) /\ e[k - 1] = d[k]
  BY <1>1
<1>5. TodoOnce'
  <2> SUFFICES ASSUME NEW k \in 1..Len(e), NEW l \in 1..Len(e), e[k].name = e[l].name
               PROVE  k = l
    BY <1>0 DEF TodoOnce
  <2>1. k + 1 = l + 1
    BY <1>2, <1>3
  <2> QED BY <1>3, <2>1
<1>6. 1 \in 1..Len(d)
  BY <1>1
<1>7. ASSUME NEW a
      PROVE  (\E k \in 1..Len(e) : e[k].name = a) <=> (\E k \in 1..Len(d) : d[k].name = a) /\ a # j.name
  <2>1. ASSUME NEW k \in 1..Len(e), e[k].name = a PROVE (\E l \in 1..Len(d) : d[l].name = a) /\ a # j.name
    <3>1. k + 1 \in 1..Len(d) /\ d[k + 1].name = a /\ k + 1 # 1
      BY <1>3, <2>1
    <3> QED BY <1>1, <1>2, <1>6, <3>1
  <2>2. ASSUME NEW k \in 1..Len(d), d[k].name = a, a # j.name PROVE \E l \in 1..Len(e) : e[l].name = a
    <3>1. k # 1
      BY <1>1, <2>2
    <3> QED BY <1>4, <2>2, <3>1
  <2> QED BY <2>1, <2>2
<1>8. j.name \in TodoNames
  BY <1>0, <1>1, <1>6 DEF TodoNames
<1>9. TodoNames' = TodoNames \ {j.name}
  <2>1. \A a : a \in TodoNames' <=> \E k \in 1..Len(e) : e[k].name = a
    BY <1>0 DEF TodoNames
  <2>2. \A a : a \in TodoNames <=> \E k \in 1..Len(d) : d[k].name = a
    BY <1>0 DEF TodoNames
  <2>3. \A a : a \in TodoNames' <=> a \in TodoNames /\ a # j.name
    BY <1>7, <2>1, <2>2
  <2> QED BY <2>3
<1> QED BY <1>5, <1>8, <1>9

LEMMA RunSame ==
    ASSUME NEW y, Others(y), RunOnce, y \in Frames, y \in Frames', FrameOf(y)'.job = FrameOf(y).job
    PROVE  RunOnce' /\ RunningNames' = RunningNames
<1>1. Frames' = Frames
  BY DEF Others
<1>2. \A x \in Frames : FrameOf(x)'.job = FrameOf(x).job
  BY DEF Others
<1>3. RunOnce'
  BY <1>1, <1>2 DEF RunOnce
<1>4. ASSUME NEW a PROVE a \in RunningNames' <=> a \in RunningNames
  <2>1. a \in RunningNames <=> \E x \in Frames : FrameOf(x).job.batch = Outer /\ a = FrameOf(x).job.name
    BY DEF RunningNames
  <2>2. a \in RunningNames' <=> \E x \in Frames' : FrameOf(x)'.job.batch = Outer /\ a = FrameOf(x)'.job.name
    BY DEF RunningNames
  <2> QED BY <1>1, <1>2, <2>1, <2>2
<1> QED BY <1>3, <1>4

LEMMA RunStarts ==
    ASSUME NEW y, Others(y), RunOnce, y \notin Frames, y \in Frames', NEW j, FrameOf(y)'.job = j,
           j.batch = Outer => j.name \notin RunningNames
    PROVE  /\ RunOnce'
           /\ RunningNames' = IF j.batch = Outer THEN RunningNames \cup {j.name} ELSE RunningNames
<1>1. Frames' = Frames \cup {y}
  BY DEF Others
<1>2. \A x \in Frames : FrameOf(x)'.job = FrameOf(x).job
  BY DEF Others
<1>3. \A a : a \in RunningNames <=> \E x \in Frames : FrameOf(x).job.batch = Outer /\ a = FrameOf(x).job.name
  BY DEF RunningNames
<1>4. \A a : a \in RunningNames' <=> \E x \in Frames' : FrameOf(x)'.job.batch = Outer /\ a = FrameOf(x)'.job.name
  BY DEF RunningNames
<1>5. RunOnce'
  <2> SUFFICES ASSUME NEW x \in Frames', NEW z \in Frames', FrameOf(x)'.job.batch = Outer,
                      FrameOf(z)'.job = FrameOf(x)'.job
               PROVE  x = z
    BY DEF RunOnce
  <2>1. CASE x \in Frames /\ z \in Frames
    BY <1>2, <2>1 DEF RunOnce
  <2>2. CASE x = y /\ z \in Frames
    BY <1>2, <1>3, <2>2
  <2>3. CASE x \in Frames /\ z = y
    BY <1>2, <1>3, <2>3
  <2> QED BY <1>1, <2>1, <2>2, <2>3
<1>6. \A a : a \in RunningNames' <=> a \in RunningNames \/ (j.batch = Outer /\ a = j.name)
  BY <1>1, <1>2, <1>3, <1>4
<1> QED BY <1>5, <1>6

LEMMA RunEnds ==
    ASSUME StackOK, NEW y, Others(y), RunOnce, y \in Frames, y \notin Frames',
           NEW j \in Jobs, FrameOf(y).job = j
    PROVE  /\ RunOnce'
           /\ j.batch = Outer => j.name \in RunningNames
           /\ RunningNames' = IF j.batch = Outer THEN RunningNames \ {j.name} ELSE RunningNames
<1>1. Frames' = Frames \ {y}
  BY DEF Others
<1>2. \A x \in Frames' : FrameOf(x)'.job = FrameOf(x).job
  BY <1>1 DEF Others
<1>3. \A a : a \in RunningNames <=> \E x \in Frames : FrameOf(x).job.batch = Outer /\ a = FrameOf(x).job.name
  BY DEF RunningNames
<1>4. \A a : a \in RunningNames' <=> \E x \in Frames' : FrameOf(x)'.job.batch = Outer /\ a = FrameOf(x)'.job.name
  BY DEF RunningNames
<1>5. RunOnce'
  BY <1>1, <1>2 DEF RunOnce
<1>6. ASSUME NEW x \in Frames', FrameOf(x).job.batch = Outer, FrameOf(x).job.name = j.name, j.batch = Outer
      PROVE  FALSE
  <2>1. FrameOf(x).job \in Jobs
    <3>1. FrameOf(x) \in FrameSet /\ x \in Frames
      BY <1>1, FramesOK
    <3>2. FrameOf(x).job \in Jobs \cup {NoJob}
      BY <3>1, FrameType
    <3>3. FrameOf(x).job # NoJob
      BY <1>6 DEF NoJob, Outer
    <3> QED BY <3>2, <3>3
  <2>2. PICK i \in Jobs : i = FrameOf(x).job
    BY <2>1
  <2>3. i = [batch |-> Outer, name |-> i.name] /\ j = [batch |-> Outer, name |-> j.name]
    BY <1>6, <2>2, JobType
  <2>4. FrameOf(x).job = FrameOf(y).job
    BY <1>6, <2>2, <2>3
  <2> QED BY <1>1, <1>6, <2>4 DEF RunOnce
<1>7. \A a : a \in RunningNames' <=> a \in RunningNames /\ ~(j.batch = Outer /\ a = j.name)
  <2> SUFFICES ASSUME NEW a
               PROVE  a \in RunningNames' <=> a \in RunningNames /\ ~(j.batch = Outer /\ a = j.name)
    OBVIOUS
  <2>1. ASSUME a \in RunningNames' PROVE a \in RunningNames /\ ~(j.batch = Outer /\ a = j.name)
    <3>1. PICK x \in Frames' : FrameOf(x)'.job.batch = Outer /\ a = FrameOf(x)'.job.name
      BY <1>4, <2>1
    <3>2. FrameOf(x).job.batch = Outer /\ a = FrameOf(x).job.name /\ x \in Frames
      BY <1>1, <1>2, <3>1
    <3> QED BY <1>3, <1>6, <3>2
  <2>2. ASSUME a \in RunningNames, ~(j.batch = Outer /\ a = j.name) PROVE a \in RunningNames'
    <3>1. PICK x \in Frames : FrameOf(x).job.batch = Outer /\ a = FrameOf(x).job.name
      BY <1>3, <2>2
    <3>2. x \in Frames'
      BY <1>1, <2>2, <3>1
    <3> QED BY <1>2, <1>4, <3>1, <3>2
  <2> QED BY <2>1, <2>2
<1>8. j.batch = Outer => j.name \in RunningNames
  BY <1>3
<1> QED BY <1>5, <1>7, <1>8

(* The outer job of an artifact goes from the caller's list to the ring or *)
(* a stack, from the ring to a stack, and is over when it is done.         *)
LEMMA NamesStep ==
    ASSUME OnceOK, PendingOK, TodoOnce', QueueOnce', RunOnce', UNCHANGED ran, NEW a,
           \/ TodoNames' = TodoNames /\ QueueNames' = QueueNames /\ RunningNames' = RunningNames
           \/ /\ a \in TodoNames /\ TodoNames' = TodoNames \ {a}
              /\ QueueNames' = QueueNames \cup {a} /\ RunningNames' = RunningNames
           \/ /\ a \in TodoNames /\ TodoNames' = TodoNames \ {a}
              /\ QueueNames' = QueueNames /\ RunningNames' = RunningNames \cup {a}
           \/ /\ a \in QueueNames /\ QueueNames' = QueueNames \ {a}
              /\ TodoNames' = TodoNames /\ RunningNames' = RunningNames \cup {a}
           \/ /\ a \in RunningNames /\ RunningNames' = RunningNames \ {a} /\ Done(a)
              /\ TodoNames' = TodoNames /\ QueueNames' = QueueNames
    PROVE  OnceOK' /\ PendingOK'
<1>1. \A b : Done(b)' <=> Done(b)
  BY DEF Done
<1>2. PendingOK'
  <2>1. \A b \in TodoNames' \cup QueueNames' : b \in TodoNames \cup QueueNames
    BY DEF OnceOK
  <2>2. \A b \in TodoNames \cup QueueNames \cup RunningNames :
           b \in TodoNames' \cup QueueNames' \cup RunningNames' \/ Done(b)
    BY DEF OnceOK
  <2> QED BY <1>1, <2>1, <2>2 DEF PendingOK
<1>3. OnceOK'
  <2>1. TodoNames' \cap QueueNames' = {}
    BY DEF OnceOK
  <2>2. TodoNames' \cap RunningNames' = {}
    BY DEF OnceOK
  <2>3. QueueNames' \cap RunningNames' = {}
    BY DEF OnceOK
  <2> QED BY <2>1, <2>2, <2>3 DEF OnceOK
<1> QED BY <1>2, <1>3

-----------------------------------------------------------------------------
(* What has been written                                                   *)

(* The job of an artifact is over when all of it is written.               *)
LEMMA EndedDone ==
    ASSUME NEW f, f.job \in Jobs, f.job.batch = Outer, FrameDone(f),
           f.at \in {"finish", "notify"}
    PROVE  Done(f.job.name)
<1>1. f.job # NoJob
  BY JobType
<1> QED BY <1>1 DEF FrameDone, Done, Tasks

(* Nobody takes a task, or writes one.                                     *)
LEMMA TasksKept ==
    ASSUME TasksOK, UNCHANGED <<next, ran, taken>>
    PROVE  TasksOK'
<1>1. \A a, k : InHand(a, k)' <=> InHand(a, k)
  BY DEF InHand
<1> QED BY <1>1 DEF TasksOK

LEMMA WritersKept ==
    ASSUME WritersOK, UNCHANGED taken,
           \A x \in Frames : FrameOf(x).at = "task" =>
              x \in Frames' /\ FrameOf(x)' = FrameOf(x)
    PROVE  WritersOK'
<1> SUFFICES ASSUME NEW t \in Threads, taken[t] # NoTask
             PROVE  \E x \in Frames' : /\ x[1] = t /\ FrameOf(x)'.at = "task"
                                       /\ FrameOf(x)'.job.batch = taken[t][1]
  BY DEF WritersOK
<1>1. PICK x \in Frames : /\ x[1] = t /\ FrameOf(x).at = "task"
                          /\ FrameOf(x).job.batch = taken[t][1]
  BY DEF WritersOK
<1> QED BY <1>1

LEMMA MoveWriters ==
    ASSUME WritersOK, UNCHANGED taken, NEW y, NEW g, Moves(y, g), FrameOf(y).at # "task"
    PROVE  WritersOK'
BY WritersKept DEF Moves

LEMMA NewWriters ==
    ASSUME WritersOK, UNCHANGED taken, NEW y, NEW h, NEW z, NEW e, NewFrame(y, h, z, e),
           FrameOf(y).at # "task"
    PROVE  WritersOK'
BY WritersKept DEF NewFrame

LEMMA GoneWriters ==
    ASSUME WritersOK, UNCHANGED taken, NEW y, Gone(y), FrameOf(y).at # "task"
    PROVE  WritersOK'
<1>1. \A x \in Frames : FrameOf(x).at = "task" => x \in Frames' /\ FrameOf(x)' = FrameOf(x)
  BY DEF Gone
<1> QED BY <1>1, WritersKept

(* A copy moves that has no task in hand any more, or takes one.           *)
LEMMA OwnWriter ==
    ASSUME WritersOK, NEW t \in Threads, NEW n, NEW g, Moves(<<t, n>>, g),
           taken'[t] = NoTask \/ (g.at = "task" /\ g.job.batch = taken'[t][1]),
           \A u \in Threads : u # t => taken'[u] = taken[u]
    PROVE  WritersOK'
<1> SUFFICES ASSUME NEW u \in Threads, taken'[u] # NoTask
             PROVE  \E x \in Frames' : /\ x[1] = u /\ FrameOf(x)'.at = "task"
                                       /\ FrameOf(x)'.job.batch = taken'[u][1]
  BY DEF WritersOK
<1>1. CASE u = t
  <2>1. PICK y : y = <<t, n>>
    OBVIOUS
  <2>2. y \in Frames' /\ y[1] = t /\ FrameOf(y)' = g
    BY <2>1 DEF Moves
  <2> QED BY <1>1, <2>2
<1>2. CASE u # t
  <2>1. PICK x \in Frames : /\ x[1] = u /\ FrameOf(x).at = "task"
                            /\ FrameOf(x).job.batch = taken[u][1]
    BY <1>2 DEF WritersOK
  <2>2. x # <<t, n>>
    BY <1>2, <2>1
  <2> QED BY <1>2, <2>1, <2>2 DEF Moves
<1> QED BY <1>1, <1>2

(* A batch that waits for nothing has no task in hand.                     *)
LEMMA NothingInHand ==
    ASSUME TypeOK, CountOK, WritersOK, NEW a \in Sectioned, remaining[a] = 0
    PROVE  \A k \in 1..TaskCount : ~InHand(a, k)
<1> SUFFICES ASSUME NEW k \in 1..TaskCount, NEW t \in Threads, taken[t] = <<a, k>>
             PROVE  FALSE
  BY DEF InHand
<1>1. PICK x \in Frames : FrameOf(x).at = "task" /\ FrameOf(x).job.batch = a
  BY DEF WritersOK, NoTask
<1>2. x \in Live(a)
  BY <1>1 DEF Live
<1>3. /\ IsFiniteSet(Live(a)) /\ Cardinality(Queued(a)) \in Nat
      /\ 0 = Cardinality(Queued(a)) + Cardinality(Live(a))
  <2>1. a \in Batches
    BY DEF Batches
  <2> QED BY <2>1, QueuedCount DEF CountOK
<1>4. Cardinality(Live(a)) \in Nat
  BY <1>3, FS_CardinalityType
<1>5. Cardinality(Live(a)) = 0
  BY <1>3, <1>4
<1> QED BY <1>2, <1>3, <1>5, FS_EmptySet

LEMMA DoneKept ==
    ASSUME NEW f, FrameDone(f), UNCHANGED <<next, ran, taken>>,
           \A a \in Sectioned : remaining'[a] = 0 => remaining[a] = 0 \/ next[a] > TaskCount
    PROVE  FrameDone(f)'
<1>1. \A b : Done(b)' <=> Done(b)
  BY DEF Done
<1> QED BY <1>1 DEF FrameDone

LEMMA ProgressKept ==
    ASSUME ProgressOK, UNCHANGED <<next, ran, taken>>,
           \A a \in Sectioned : remaining'[a] = 0 => remaining[a] = 0 \/ next[a] > TaskCount,
           \A x \in Frames' : \A g \in {FrameOf(x)'} :
              (x \in Frames /\ g = FrameOf(x)) \/ FrameDone(g)'
    PROVE  ProgressOK'
<1> SUFFICES ASSUME NEW x \in Frames', NEW g \in {FrameOf(x)'}
             PROVE  FrameDone(g)'
  BY DEF ProgressOK
<1>1. CASE FrameDone(g)'
  BY <1>1
<1>2. CASE x \in Frames /\ g = FrameOf(x)
  <2>1. FrameDone(g)
    BY <1>2 DEF ProgressOK
  <2> QED BY <2>1, DoneKept
<1> QED BY <1>1, <1>2

LEMMA FrameProgress ==
    ASSUME ProgressOK, NEW x \in Frames, NEW f, f = FrameOf(x)
    PROVE  FrameDone(f)
BY DEF ProgressOK

-----------------------------------------------------------------------------
(* Steps                                                                   *)

(* A step that only moves one frame, and does not finish its job.          *)
LEMMA MoveKeeps ==
    ASSUME IndInv, NEW t \in Threads, NEW n, n = Len(stack[t]), stack[t] # <<>>,
           NEW f, f = Top(t), NEW g \in FrameSet, FrameOK(g),
           g.job = f.job, g.batch = f.batch, g.todo = f.todo,
           f.at # "notify", g.at # "notify",
           f.at \in Waits => g.at \in Waits \/ remaining[f.batch] = 0,
           stack' = [stack EXCEPT ![t] = Moved(t, g)],
           UNCHANGED <<queue, remaining>>
    PROVE  /\ StackOK' /\ QueueOK' /\ CountOK' /\ WaitersOK' /\ OnceOK'
           /\ TodoNames' = TodoNames /\ QueueNames' = QueueNames /\ RunningNames' = RunningNames
           /\ Moves(<<t, n>>, g)
<1> DEFINE y == <<t, n>>
<1>0. TypeOK /\ StackOK /\ QueueOK /\ CountOK /\ WaitersOK /\ OnceOK
  BY DEF IndInv
<1>1. StackOK' /\ Moves(y, g) /\ y \in Frames /\ FrameOf(y) = f
  BY <1>0, MoveStack, TopFacts DEF FrameOf
<1> HIDE DEF y
<1>2. Others(y)
  BY <1>1, MoveOthers
<1>4. QueueOK'
  BY <1>0 DEF QueueOK
<1>5. CountOK'
  <2> SUFFICES ASSUME NEW b \in Batches
               PROVE  /\ IsFiniteSet(Live(b))'
                      /\ remaining'[b] = Cardinality(Queued(b))' + Cardinality(Live(b))'
    BY DEF CountOK
  <2>1. y \in Live(b) <=> y \in Live(b)'
    BY <1>1 DEF Live, Moves
  <2>2. Cardinality(Queued(b))' = Cardinality(Queued(b))
    BY DEF Queued
  <2> QED BY <1>0, <1>2, <2>1, <2>2, LiveChange DEF CountOK
<1>6. WaitersOK'
  <2>1. ASSUME NEW x \in Frames, FrameOf(x).at \in Waits
        PROVE  \/ /\ x \in Frames' /\ FrameOf(x)'.at \in Waits
                  /\ FrameOf(x)'.batch = FrameOf(x).batch
               \/ remaining'[FrameOf(x).batch] = 0
    BY <1>1, <2>1 DEF Moves
  <2> QED BY <1>0, <2>1, WaitersKept
<1>9. Todo' = Todo
  <2>1. <<Caller, 1>> \in Frames
    BY <1>0, FramesOK
  <2>2. FrameOf(<<Caller, 1>>)'.todo = FrameOf(<<Caller, 1>>).todo
    BY <1>1, <2>1 DEF Moves
  <2> QED BY <2>2 DEF Todo, FrameOf, FrameAt
<1>10. TodoNames' = TodoNames /\ TodoOnce'
  BY <1>0, <1>9 DEF TodoNames, TodoOnce, OnceOK
<1>11. QueueNames' = QueueNames /\ QueueOnce'
  BY <1>0 DEF QueueNames, QueueOnce, OnceOK, Queued
<1>12. RunningNames' = RunningNames /\ RunOnce'
  BY <1>0, <1>1, <1>2, RunSame DEF OnceOK, Moves
<1>13. OnceOK'
  BY <1>0, <1>10, <1>11, <1>12 DEF OnceOK
<1> QED BY <1>1, <1>4, <1>5, <1>6, <1>10, <1>11, <1>12, <1>13 DEF y

LEMMA QuietMove ==
    ASSUME IndInv, NEW t \in Threads, NEW n, n = Len(stack[t]), stack[t] # <<>>,
           NEW f, f = Top(t), NEW g \in FrameSet, FrameOK(g), FrameDone(g),
           g.job = f.job, g.batch = f.batch, g.todo = f.todo,
           f.at \notin {"notify", "task"}, g.at # "notify",
           f.at \in Waits => g.at \in Waits \/ remaining[f.batch] = 0,
           stack' = [stack EXCEPT ![t] = Moved(t, g)],
           UNCHANGED <<queue, remaining, next, ran, taken>>,
           parked' \subseteq Workers, exited' \subseteq Workers, stopping' \in BOOLEAN
    PROVE  IndInv'
<1>0. TypeOK /\ StackOK /\ TasksOK /\ WritersOK /\ ProgressOK /\ PendingOK
  BY DEF IndInv
<1>1. /\ StackOK' /\ QueueOK' /\ CountOK' /\ WaitersOK' /\ OnceOK'
      /\ TodoNames' = TodoNames /\ QueueNames' = QueueNames /\ RunningNames' = RunningNames
      /\ Moves(<<t, n>>, g)
  BY MoveKeeps
<1>2. TypeOK'
  BY <1>0, <1>1 DEF TypeOK, StackOK
<1>3. TasksOK'
  BY <1>0, TasksKept
<1>4. ProgressOK'
  <2>1. FrameDone(g)'
    BY DoneKept
  <2>2. \A x \in Frames' : \A h \in {FrameOf(x)'} : (x \in Frames /\ h = FrameOf(x)) \/ FrameDone(h)'
    BY <1>1, <2>1 DEF Moves
  <2> QED BY <1>0, <2>2, ProgressKept
<1>5. PendingOK'
  <2>1. \A b : Done(b)' <=> Done(b)
    BY DEF Done
  <2> QED BY <1>0, <1>1, <2>1 DEF PendingOK
<1>6. WritersOK'
  <2>1. FrameOf(<<t, n>>) = f
    BY <1>0, TopFacts DEF FrameOf
  <2> QED BY <1>0, <1>1, <2>1, MoveWriters
<1> QED BY <1>1, <1>2, <1>3, <1>4, <1>5, <1>6 DEF IndInv

(* The frame a thread is in.                                               *)
LEMMA InFrame ==
    ASSUME IndInv, NEW t \in Threads, NEW pc, At(t, pc)
    PROVE  \E f \in FrameSet, n \in Nat \ {0} :
              /\ f = Top(t) /\ n = Len(stack[t]) /\ stack[t] # <<>> /\ f.at = pc
              /\ FrameOK(f) /\ FrameDone(f)
              /\ <<t, n>> \in Frames /\ FrameOf(<<t, n>>) = f
              /\ f.job = NoJob <=> t = Caller /\ n = 1
              /\ f.job # NoJob => f.job \in Jobs
<1>0. StackOK /\ ProgressOK /\ stack[t] # <<>> /\ Top(t).at = pc
  BY DEF IndInv, At
<1>1. PICK f, n : f = Top(t) /\ n = Len(stack[t])
  OBVIOUS
<1>2. /\ n \in Nat \ {0} /\ f \in FrameSet /\ FrameOK(f)
      /\ <<t, n>> \in Frames /\ FrameOf(<<t, n>>) = f
  BY <1>0, <1>1, TopFacts DEF FrameOf
<1>3. FrameDone(f)
  BY <1>0, <1>2, FrameProgress
<1>4. f.job = NoJob <=> <<t, n>> = <<Caller, 1>>
  BY <1>0, <1>2, FramesOK
<1>5. f.job # NoJob => f.job \in Jobs
  BY <1>2, FrameType
<1> QED BY <1>0, <1>1, <1>2, <1>3, <1>4, <1>5

(* A waiting frame goes on waiting.                                        *)
LEMMA WaitingMove ==
    ASSUME IndInv, NEW t \in Threads, NEW pc \in Waits, At(t, pc), Top(t).todo = <<>>,
           NEW qc \in Waits, stack' = To(t, qc),
           UNCHANGED <<queue, remaining, parked, exited, stopping, next, ran, taken>>
    PROVE  IndInv'
<1>1. PICK f \in FrameSet, n \in Nat \ {0} :
              /\ f = Top(t) /\ n = Len(stack[t]) /\ stack[t] # <<>> /\ f.at = pc
              /\ FrameOK(f) /\ FrameDone(f)
  BY InFrame
<1>2. PICK g : g = [f EXCEPT !.at = qc]
  OBVIOUS
<1>3. g \in FrameSet /\ g.job = f.job /\ g.batch = f.batch /\ g.at = qc /\ g.todo = f.todo
  BY <1>2, FrameMoves DEF PCs
<1>4. stack' = [stack EXCEPT ![t] = Moved(t, g)]
  BY <1>1, <1>2 DEF To
<1>5. f.todo = <<>>
  BY <1>1
<1>6. FrameOK(g)
  BY <1>1, <1>3, <1>5 DEF FrameOK, Waits
<1>7. FrameDone(g)
  BY <1>1, <1>3 DEF FrameDone, FrameOK, Waits, Ends
<1>8. parked' \subseteq Workers /\ exited' \subseteq Workers /\ stopping' \in BOOLEAN
  BY DEF IndInv, TypeOK
<1>9. f.at \notin {"notify", "task"} /\ g.at # "notify"
  BY <1>1, <1>3 DEF Waits
<1> QED BY <1>1, <1>3, <1>4, <1>6, <1>7, <1>8, <1>9, QuietMove

LEMMA SubmitDoneStep ==
    ASSUME IndInv, NEW t \in Threads, SubmitDone(t)
    PROVE  IndInv'
BY WaitingMove DEF SubmitDone, Waits

(* A frame past its submissions has none left.                             *)
LEMMA NothingTodo ==
    ASSUME IndInv, NEW t \in Threads, NEW pc \in Waits, pc # "submit", At(t, pc)
    PROVE  Top(t).todo = <<>>
<1>1. PICK f \in FrameSet, n \in Nat \ {0} : f = Top(t) /\ f.at = pc /\ FrameOK(f)
  BY InFrame
<1> QED BY <1>1 DEF FrameOK

LEMMA WaitBlockStep ==
    ASSUME IndInv, NEW t \in Threads, WaitBlock(t)
    PROVE  IndInv'
<1>1. Top(t).todo = <<>> /\ At(t, "block") /\ "block" \in Waits
  BY NothingTodo DEF WaitBlock, Waits
<1>2. CASE remaining[Top(t).batch] = Top(t).saw
  <2>1. stack' = To(t, "asleep") /\ "asleep" \in Waits
    BY <1>2 DEF WaitBlock, Waits
  <2> QED BY <1>1, <2>1, WaitingMove DEF WaitBlock
<1>3. CASE remaining[Top(t).batch] # Top(t).saw
  <2>1. stack' = To(t, "load") /\ "load" \in Waits
    BY <1>3 DEF WaitBlock, Waits
  <2> QED BY <1>1, <2>1, WaitingMove DEF WaitBlock
<1> QED BY <1>2, <1>3

LEMMA WaitReloadStep ==
    ASSUME IndInv, NEW t \in Threads, WaitReload(t)
    PROVE  IndInv'
<1>1. PICK f \in FrameSet, n \in Nat \ {0} :
              /\ f = Top(t) /\ n = Len(stack[t]) /\ stack[t] # <<>> /\ f.at = "reload"
              /\ FrameOK(f) /\ FrameDone(f)
  BY InFrame DEF WaitReload
<1>2. PICK left, qc : left = remaining[f.batch] /\ qc = IF left = 0 THEN "load" ELSE "block"
  OBVIOUS
<1>3. f.batch \in Batches /\ left \in Nat
  <2>1. f.batch \in Batches
    BY <1>1, NamesFacts DEF FrameOK, Waits, Batches
  <2> QED BY <1>2, <2>1 DEF IndInv, TypeOK
<1>4. PICK g : g = [f EXCEPT !.saw = left, !.at = qc]
  OBVIOUS
<1>5. g \in FrameSet /\ g.job = f.job /\ g.batch = f.batch /\ g.at = qc /\ g.todo = f.todo
  <2>1. qc \in PCs
    BY <1>2 DEF PCs, Waits
  <2>2. left \in Nat /\ f \in FrameSet
    BY <1>1, <1>3
  <2> HIDE <1>1, <1>2, <1>3
  <2> QED BY <1>4, <2>1, <2>2 DEF FrameSet
<1>6. stack' = [stack EXCEPT ![t] = Moved(t, g)]
  BY <1>1, <1>2, <1>4 DEF WaitReload
<1>7. FrameOK(g)
  BY <1>1, <1>2, <1>5 DEF FrameOK, Waits
<1>8. FrameDone(g)
  BY <1>1, <1>2, <1>5 DEF FrameDone, FrameOK, Waits, Ends
<1>9. parked' \subseteq Workers /\ exited' \subseteq Workers /\ stopping' \in BOOLEAN
  BY DEF IndInv, TypeOK, WaitReload
<1>10. f.at # "notify" /\ g.at # "notify" /\ g.at \in Waits
  BY <1>1, <1>2, <1>5 DEF Waits
<1>11. UNCHANGED <<queue, remaining, next, ran, taken>>
  BY DEF WaitReload
<1> QED BY <1>1, <1>5, <1>6, <1>7, <1>8, <1>9, <1>10, <1>11, QuietMove

(* The caller's wait returns only when every artifact is written.          *)
LEMMA EmptyBatchDone ==
    ASSUME IndInv, NEW f, f = FrameOf(<<Caller, 1>>), f.todo = <<>>, remaining[Outer] = 0
    PROVE  \A a \in Names : Done(a)
<1>0. TypeOK /\ StackOK /\ CountOK /\ TasksOK /\ ProgressOK /\ OnceOK /\ PendingOK
  BY DEF IndInv
<1>1. TodoNames = {}
  <2>1. Todo = <<>>
    BY DEF Todo, FrameOf, FrameAt
  <2>2. 1..Len(Todo) = {}
    BY <2>1
  <2> QED BY <2>2 DEF TodoNames
<1>2. Queued(Outer) = {} /\ Live(Outer) = {}
  <2>1. Cardinality(Queued(Outer)) \in Nat
    BY <1>0, QueuedCount
  <2>2. IsFiniteSet(Live(Outer)) /\ 0 = Cardinality(Queued(Outer)) + Cardinality(Live(Outer))
    BY <1>0, NamesFacts DEF CountOK
  <2>3. Cardinality(Live(Outer)) \in Nat
    BY <2>2, FS_CardinalityType
  <2>4. Cardinality(Queued(Outer)) = 0 /\ Cardinality(Live(Outer)) = 0
    BY <2>1, <2>2, <2>3
  <2>5. IsFiniteSet(Queued(Outer))
    <3>1. PICK q \in Seq(Jobs) : q = queue
      BY <1>0 DEF TypeOK
    <3> QED BY <3>1, PlacesFinite DEF Queued, Places
  <2> QED BY <2>2, <2>4, <2>5, FS_EmptySet
<1>3. QueueNames = {}
  BY <1>2 DEF QueueNames
<1>4. ASSUME NEW a \in RunningNames PROVE Done(a)
  <2>1. PICK x \in Frames : FrameOf(x).job.batch = Outer /\ a = FrameOf(x).job.name
    BY <1>4 DEF RunningNames
  <2>2. PICK h : h = FrameOf(x)
    OBVIOUS
  <2>3. h.at = "notify"
    BY <1>2, <2>1, <2>2 DEF Live
  <2>4. h \in FrameSet /\ FrameDone(h)
    BY <1>0, <2>2, FramesOK, FrameProgress
  <2>5. h.job \in Jobs
    <3>1. h.job # NoJob
      BY <2>1, <2>2 DEF NoJob, Outer
    <3> QED BY <2>4, <3>1, FrameType
  <2> QED BY <1>0, <2>1, <2>2, <2>3, <2>4, <2>5, EndedDone
<1> QED BY <1>0, <1>1, <1>3, <1>4 DEF PendingOK

LEMMA WaitLoadStep ==
    ASSUME IndInv, NEW t \in Threads, WaitLoad(t)
    PROVE  IndInv'
<1>0. At(t, "load") /\ "load" \in Waits /\ UNCHANGED <<queue, remaining, parked, exited, stopping, next, ran, taken>>
  BY DEF WaitLoad, Waits
<1>1. PICK f \in FrameSet, n \in Nat \ {0} :
              /\ f = Top(t) /\ n = Len(stack[t]) /\ stack[t] # <<>> /\ f.at = "load"
              /\ FrameOK(f) /\ FrameDone(f)
              /\ <<t, n>> \in Frames /\ FrameOf(<<t, n>>) = f
              /\ f.job = NoJob <=> t = Caller /\ n = 1
  BY <1>0, InFrame
<1>2. f.todo = <<>>
  BY <1>1 DEF FrameOK
<1>3. CASE remaining[f.batch] # 0
  <2>1. stack' = To(t, "take") /\ "take" \in Waits
    BY <1>1, <1>3 DEF WaitLoad, Waits
  <2> QED BY <1>0, <1>1, <1>2, <2>1, WaitingMove
<1>4. CASE remaining[f.batch] = 0
  <2>1. PICK qc : qc = IF f.job = NoJob THEN "stop" ELSE "finish"
    OBVIOUS
  <2>2. PICK g : g = [f EXCEPT !.at = qc]
    OBVIOUS
  <2>3. qc \in PCs
    BY <2>1 DEF PCs, Ends
  <2>4. g \in FrameSet /\ g.job = f.job /\ g.batch = f.batch /\ g.at = qc /\ g.todo = f.todo
    BY <2>2, <2>3, FrameMoves
  <2>5. stack' = [stack EXCEPT ![t] = Moved(t, g)]
    BY <1>1, <1>4, <2>1, <2>2 DEF To, WaitLoad
  <2>6. FrameOK(g)
    BY <1>1, <1>2, <2>1, <2>4 DEF FrameOK, Waits, Ends
  <2>7. FrameDone(g)
    <3>1. CASE f.job = NoJob
      <4>1. f.batch = Outer /\ f = FrameOf(<<Caller, 1>>)
        BY <1>1, <3>1 DEF FrameOK
      <4>2. \A a \in Names : Done(a)
        BY <1>2, <1>4, <4>1, EmptyBatchDone
      <4> QED BY <2>4, <3>1, <4>2 DEF FrameDone
    <3>2. CASE f.job # NoJob
      <4>1. f.job.batch = Outer /\ f.job.name \in Sectioned /\ f.batch = f.job.name
        BY <1>1, <3>2 DEF FrameOK
      <4>2. Len(f.todo) < Copies
        BY <1>2, ExecutorAssumption
      <4>3. next[f.job.name] > TaskCount
        BY <1>1, <1>4, <3>2, <4>1, <4>2 DEF FrameDone
      <4>4. Done(f.job.name)
        <5>1. \A k \in 1..TaskCount : ~InHand(f.job.name, k)
          BY <1>4, <4>1, NothingInHand DEF IndInv
        <5>2. next[f.job.name] \in Nat /\ TaskCount \in Nat /\ TasksOK
          BY <4>1, ExecutorAssumption DEF IndInv, TypeOK
        <5>3. \A k \in 1..TaskCount : k < next[f.job.name]
          BY <4>3, <5>2
        <5> QED BY <4>1, <5>1, <5>2, <5>3 DEF TasksOK, Done, Tasks
      <4> QED BY <2>4, <3>2, <4>1, <4>3, <4>4 DEF FrameDone
    <3> QED BY <3>1, <3>2
  <2>8. parked' \subseteq Workers /\ exited' \subseteq Workers /\ stopping' \in BOOLEAN
    BY <1>0 DEF IndInv, TypeOK
  <2>9. g.at # "notify"
    BY <2>1, <2>4
  <2> QED BY <1>0, <1>1, <1>4, <2>4, <2>5, <2>6, <2>7, <2>8, <2>9, QuietMove
<1> QED BY <1>3, <1>4

(* The destructor.                                                         *)
LEMMA EndMove ==
    ASSUME IndInv, NEW pc \in Ends, At(Caller, pc), NEW qc \in Ends, stack' = To(Caller, qc),
           UNCHANGED <<queue, remaining, exited, next, ran, taken>>,
           parked' \subseteq Workers, stopping' \in BOOLEAN
    PROVE  IndInv'
<1>0. Caller \in Threads
  BY NamesFacts
<1>1. PICK f \in FrameSet, n \in Nat \ {0} :
              /\ f = Top(Caller) /\ n = Len(stack[Caller]) /\ stack[Caller] # <<>> /\ f.at = pc
              /\ FrameOK(f) /\ FrameDone(f)
  BY <1>0, InFrame
<1>2. f.job = NoJob /\ f.todo = <<>>
  BY <1>1 DEF FrameOK, Ends, Waits
<1>3. PICK g : g = [f EXCEPT !.at = qc]
  OBVIOUS
<1>4. g \in FrameSet /\ g.job = f.job /\ g.batch = f.batch /\ g.at = qc /\ g.todo = f.todo
  BY <1>3, FrameMoves DEF PCs
<1>5. stack' = [stack EXCEPT ![Caller] = Moved(Caller, g)]
  BY <1>1, <1>3 DEF To
<1>6. FrameOK(g)
  BY <1>1, <1>2, <1>4 DEF FrameOK
<1>7. FrameDone(g)
  BY <1>1, <1>2, <1>4 DEF FrameDone
<1>8. f.at \notin {"notify", "task"} /\ g.at # "notify" /\ f.at \notin Waits
  BY <1>1, <1>4 DEF Ends, Waits
<1>9. exited' \subseteq Workers
  BY DEF IndInv, TypeOK
<1> QED BY <1>0, <1>1, <1>4, <1>5, <1>6, <1>7, <1>8, <1>9, QuietMove

LEMMA StopStep ==
    ASSUME IndInv, Stop
    PROVE  IndInv'
BY EndMove DEF Stop, Ends

LEMMA JoinStep ==
    ASSUME IndInv, Join
    PROVE  IndInv'
<1>1. parked' \subseteq Workers /\ stopping' \in BOOLEAN
  BY DEF IndInv, TypeOK, Join
<1> QED BY <1>1, EndMove DEF Join, Ends

-----------------------------------------------------------------------------
(* Running tasks                                                           *)

LEMMA DoneGrows ==
    ASSUME NEW h, FrameDone(h), UNCHANGED remaining,
           \A b \in Names : Done(b) => Done(b)',
           \A b \in Sectioned : next[b] > TaskCount => next'[b] > TaskCount,
           h.job # NoJob => h.job \in Jobs,
           h.job # NoJob /\ h.job.batch = Outer /\ h.job.name \notin Sectioned
              => ran'[h.job.name][1] = ran[h.job.name][1]
    PROVE  FrameDone(h)'
<1>1. h.job # NoJob /\ h.job.batch # Outer => h.job.batch \in Sectioned
  BY JobType
<1>2. h.job # NoJob /\ h.job.batch = Outer => h.job.name \in Names
  BY JobType
<1> QED BY <1>1, <1>2 DEF FrameDone

LEMMA NamesKnown ==
    ASSUME IndInv
    PROVE  TodoNames \subseteq Names /\ QueueNames \subseteq Names
<1>0. TypeOK /\ StackOK
  BY DEF IndInv
<1>1. \A k \in 1..Len(queue) : queue[k] \in Jobs
  BY <1>0 DEF TypeOK
<1>2. \A k \in 1..Len(Todo) : Todo[k] \in Jobs
  <2>1. PICK c : c = FrameOf(<<Caller, 1>>)
    OBVIOUS
  <2>2. c.todo \in Seq(Jobs)
    BY <1>0, <2>1, FramesOK, FrameType
  <2> QED BY <2>1, <2>2 DEF Todo, FrameOf, FrameAt
<1> QED BY <1>1, <1>2, JobType DEF TodoNames, QueueNames, Queued

LEMMA RunPlain ==
    ASSUME IndInv, NEW t \in Threads, RunTask(t), Top(t).job.batch = Outer
    PROVE  IndInv'
<1>0. /\ TypeOK /\ StackOK /\ TasksOK /\ WritersOK /\ ProgressOK /\ OnceOK /\ PendingOK
      /\ UNCHANGED <<queue, remaining, next, parked, exited, stopping>> /\ At(t, "task") /\ taken[t] = NoTask
  BY DEF IndInv, RunTask
<1>1. PICK f \in FrameSet, n \in Nat \ {0} :
              /\ f = Top(t) /\ n = Len(stack[t]) /\ stack[t] # <<>> /\ f.at = "task"
              /\ FrameOK(f) /\ FrameDone(f)
              /\ <<t, n>> \in Frames /\ FrameOf(<<t, n>>) = f
              /\ f.job # NoJob => f.job \in Jobs
  BY <1>0, InFrame
<1>2. PICK a : a = f.job.name
  OBVIOUS
<1>3. f.job # NoJob /\ f.job \in Jobs /\ f.job.batch = Outer /\ a \notin Sectioned /\ a \in Names
  <2>1. f.job # NoJob
    BY <1>1 DEF FrameOK, Waits, Ends
  <2> QED BY <1>1, <1>2, <2>1, JobType DEF FrameOK, Waits
<1>4. ran[a] \in [{1} -> Nat] /\ ran[a][1] = 0
  BY <1>0, <1>1, <1>2, <1>3 DEF FrameDone, TypeOK, Tasks
<1>5. ran' = [ran EXCEPT ![a][1] = @ + 1] /\ stack' = To(t, "finish") /\ taken' = taken
  BY <1>1, <1>2 DEF RunTask
<1>6. /\ ran'[a] \in [{1} -> Nat] /\ ran'[a][1] = 1 /\ DOMAIN ran' = Names
      /\ \A b \in Names : b # a => ran'[b] = ran[b]
  BY <1>0, <1>3, <1>4, <1>5 DEF TypeOK
<1>7. PICK g : g = [f EXCEPT !.at = "finish"]
  OBVIOUS
<1>8. g \in FrameSet /\ g.job = f.job /\ g.batch = f.batch /\ g.at = "finish" /\ g.todo = f.todo
  BY <1>7, FrameMoves DEF PCs
<1>9. stack' = [stack EXCEPT ![t] = Moved(t, g)]
  BY <1>1, <1>5, <1>7 DEF To
<1>10. FrameOK(g)
  BY <1>1, <1>2, <1>3, <1>8 DEF FrameOK
<1>11. /\ StackOK' /\ QueueOK' /\ CountOK' /\ WaitersOK' /\ OnceOK'
       /\ TodoNames' = TodoNames /\ QueueNames' = QueueNames /\ RunningNames' = RunningNames
       /\ Moves(<<t, n>>, g)
  <2>1. f.at # "notify" /\ g.at # "notify" /\ f.at \notin Waits
    BY <1>1, <1>8 DEF Waits
  <2> QED BY <1>0, <1>1, <1>8, <1>9, <1>10, <2>1, MoveKeeps
<1>17. WritersOK'
  BY <1>0, <1>5, <1>11, OwnWriter
<1>12. TypeOK'
  <2>1. \A b \in Names : ran'[b] \in [Tasks(b) -> Nat]
    BY <1>0, <1>3, <1>6 DEF TypeOK, Tasks
  <2> QED BY <1>0, <1>5, <1>6, <1>11, <2>1 DEF TypeOK, StackOK
<1>13. TasksOK'
  <2>1. \A b, k : InHand(b, k)' <=> InHand(b, k)
    BY <1>5 DEF InHand
  <2>2. \A b \in Sectioned : ran'[b] = ran[b] /\ next'[b] = next[b]
    BY <1>0, <1>3, <1>6, NamesFacts
  <2> QED BY <1>0, <1>5, <2>1, <2>2 DEF TasksOK
<1>14. \A b \in Names : Done(b) => Done(b)'
  BY <1>3, <1>6 DEF Done, Tasks
<1>15. ProgressOK'
  <2>1. FrameDone(g)'
    BY <1>2, <1>3, <1>6, <1>8 DEF FrameDone
  <2>2. ASSUME NEW x \in Frames, x # <<t, n>>, NEW h, h = FrameOf(x)
        PROVE  FrameDone(h)'
    <3>1. FrameDone(h) /\ h \in FrameSet
      BY <1>0, <2>2, FrameProgress, FramesOK
    <3>2. h.job # NoJob => h.job \in Jobs
      BY <3>1, FrameType
    <3>3. ASSUME h.job # NoJob, h.job.batch = Outer PROVE h.job.name # a
      <4> SUFFICES ASSUME h.job.name = a PROVE FALSE
        OBVIOUS
      <4>1. h.job = f.job
        <5>1. PICK i, j : i = h.job /\ j = f.job
          OBVIOUS
        <5>2. i = [batch |-> Outer, name |-> i.name] /\ j = [batch |-> Outer, name |-> j.name]
          BY <1>3, <3>2, <3>3, <5>1, JobType
        <5> QED BY <1>2, <5>1, <5>2
      <4> QED BY <1>0, <1>1, <1>3, <2>2, <4>1 DEF OnceOK, RunOnce
    <3>4. h.job # NoJob /\ h.job.batch = Outer => ran'[h.job.name][1] = ran[h.job.name][1]
      BY <1>6, <3>2, <3>3, JobType
    <3> QED BY <1>0, <1>14, <3>1, <3>2, <3>4, DoneGrows
  <2> QED BY <1>11, <2>1, <2>2 DEF ProgressOK, Moves
<1>16. PendingOK'
  <2>1. a \in RunningNames
    BY <1>1, <1>2, <1>3 DEF RunningNames
  <2>2. \A b \in TodoNames \cup QueueNames : b # a
    BY <1>0, <2>1 DEF OnceOK
  <2>3. \A b \in Names : b \in TodoNames' \cup QueueNames' \cup RunningNames' \/ Done(b)'
    BY <1>0, <1>11, <1>14 DEF PendingOK
  <2>4. ASSUME NEW b \in TodoNames' \cup QueueNames', b \notin Sectioned PROVE ran'[b][1] = 0
    <3>1. ran[b][1] = 0 /\ b # a /\ b \in Names
      <4>1. b \in Names
        BY <1>11, NamesKnown
      <4> QED BY <1>0, <1>11, <2>2, <2>4, <4>1 DEF PendingOK
    <3> QED BY <1>6, <3>1
  <2> QED BY <2>3, <2>4 DEF PendingOK
<1> QED BY <1>11, <1>12, <1>13, <1>15, <1>16, <1>17 DEF IndInv

(* A copy takes a task, or finds that none is left and ends.               *)
LEMMA RunCopy ==
    ASSUME IndInv, NEW t \in Threads, RunTask(t), Top(t).job.batch # Outer
    PROVE  IndInv'
<1>0. /\ TypeOK /\ StackOK /\ TasksOK /\ WritersOK /\ ProgressOK /\ OnceOK /\ PendingOK
      /\ UNCHANGED <<queue, remaining, parked, exited, stopping>> /\ At(t, "task") /\ taken[t] = NoTask
  BY DEF IndInv, RunTask
<1>1. PICK f \in FrameSet, n \in Nat \ {0} :
              /\ f = Top(t) /\ n = Len(stack[t]) /\ stack[t] # <<>> /\ f.at = "task"
              /\ FrameOK(f) /\ FrameDone(f)
              /\ <<t, n>> \in Frames /\ FrameOf(<<t, n>>) = f
              /\ f.job # NoJob => f.job \in Jobs
  BY <1>0, InFrame
<1>2. PICK a : a = f.job.name
  OBVIOUS
<1>3. f.job # NoJob /\ f.job \in Jobs /\ f.job.batch = a /\ a \in Sectioned /\ a \in Names /\ a # Outer
  <2>1. f.job # NoJob
    BY <1>1 DEF FrameOK, Waits, Ends
  <2>2. f.job.batch # Outer /\ JobOK(f.job)
    BY <1>1, <2>1 DEF FrameOK
  <2> QED BY <1>1, <1>2, <2>1, <2>2, JobType DEF JobOK
<1>4. PICK m : m = next[a]
  OBVIOUS
<1>5. /\ m \in Nat /\ m >= 1 /\ TaskCount \in Nat /\ next \in [Sectioned -> Nat]
  BY <1>0, <1>3, <1>4, ExecutorAssumption DEF TypeOK, TasksOK
<1>6. next' = [next EXCEPT ![a] = m + 1] /\ ran' = ran
  BY <1>1, <1>2, <1>4 DEF RunTask
<1>7. next' \in [Sectioned -> Nat] /\ next'[a] = m + 1 /\ \A b \in Sectioned : b # a => next'[b] = next[b]
  BY <1>3, <1>5, <1>6
<1>8. /\ taken' \in [Threads -> {NoTask} \cup (Sectioned \X (1..TaskCount))]
      /\ \A u \in Threads : u # t => taken'[u] = taken[u]
      /\ taken'[t] = IF m > TaskCount THEN NoTask ELSE <<a, m>>
  <2>1. taken \in [Threads -> {NoTask} \cup (Sectioned \X (1..TaskCount))]
    BY <1>0 DEF TypeOK
  <2>2. CASE m > TaskCount
    BY <1>0, <1>1, <1>2, <1>4, <2>1, <2>2 DEF RunTask
  <2>3. CASE ~(m > TaskCount)
    <3>1. taken' = [taken EXCEPT ![t] = <<a, m>>]
      BY <1>1, <1>2, <1>4, <2>3 DEF RunTask
    <3>2. <<a, m>> \in Sectioned \X (1..TaskCount)
      BY <1>3, <1>5, <2>3
    <3> QED BY <2>1, <2>3, <3>1, <3>2
  <2> QED BY <2>2, <2>3
<1>9. PICK g : g = IF m > TaskCount THEN [f EXCEPT !.at = "finish"] ELSE f
  OBVIOUS
<1>10. /\ g \in FrameSet /\ g.job = f.job /\ g.batch = f.batch /\ g.todo = f.todo
       /\ g.at = IF m > TaskCount THEN "finish" ELSE "task"
  BY <1>1, <1>9, FrameMoves DEF PCs
<1>11. stack' = [stack EXCEPT ![t] = Moved(t, g)]
  <2>1. CASE m > TaskCount
    BY <1>1, <1>2, <1>4, <1>9, <2>1 DEF RunTask, To
  <2>2. CASE ~(m > TaskCount)
    <3>1. stack' = stack /\ g = Top(t)
      BY <1>1, <1>2, <1>4, <1>9, <2>2 DEF RunTask
    <3>2. stack \in [Threads -> Seq(FrameSet)] /\ stack[t] \in Seq(FrameSet)
      BY <1>0 DEF StackOK
    <3>3. Moved(t, g) = stack[t]
      BY <3>1, <3>2 DEF Moved, Top
    <3> QED BY <3>1, <3>2, <3>3
  <2> QED BY <2>1, <2>2
<1>12. FrameOK(g)
  BY <1>1, <1>3, <1>10 DEF FrameOK
<1>13. /\ StackOK' /\ QueueOK' /\ CountOK' /\ WaitersOK' /\ OnceOK'
       /\ TodoNames' = TodoNames /\ QueueNames' = QueueNames /\ RunningNames' = RunningNames
       /\ Moves(<<t, n>>, g)
  <2>1. f.at # "notify" /\ g.at # "notify" /\ f.at \notin Waits
    BY <1>1, <1>10 DEF Waits
  <2> QED BY <1>0, <1>1, <1>10, <1>11, <1>12, <2>1, MoveKeeps
<1>14. TypeOK'
  BY <1>0, <1>6, <1>7, <1>8, <1>13 DEF TypeOK, StackOK
<1>15. TasksOK'
  <2>1. ASSUME NEW b, NEW k
        PROVE  InHand(b, k)' <=> InHand(b, k) \/ (~(m > TaskCount) /\ b = a /\ k = m)
    <3>1. taken[t] # <<b, k>> /\ NoTask # <<b, k>>
      BY <1>0 DEF NoTask
    <3>2. taken'[t] = <<b, k>> <=> ~(m > TaskCount) /\ b = a /\ k = m
      BY <1>8, <3>1
    <3> QED BY <1>8, <3>1, <3>2 DEF InHand
  <2>2. ASSUME NEW b \in Sectioned, NEW k \in 1..TaskCount
        PROVE  /\ next'[b] >= 1
               /\ ran'[b][k] = IF k < next'[b] /\ ~InHand(b, k)' THEN 1 ELSE 0
               /\ InHand(b, k)' => k < next'[b]
    <3>1. /\ next[b] >= 1 /\ ran[b][k] = IF k < next[b] /\ ~InHand(b, k) THEN 1 ELSE 0
          /\ InHand(b, k) => k < next[b]
      BY <1>0 DEF TasksOK
    <3>2. CASE b # a
      BY <1>6, <1>7, <2>1, <3>1, <3>2
    <3>3. CASE b = a /\ k = m
      <4>1. InHand(b, k)' /\ k < m + 1 /\ ~(k < m)
        BY <1>5, <2>1, <3>3
      <4> QED BY <1>4, <1>5, <1>6, <1>7, <3>1, <3>3, <4>1
    <3>4. CASE b = a /\ k # m
      <4>1. (k < m + 1 <=> k < m) /\ (InHand(b, k)' <=> InHand(b, k))
        BY <1>5, <2>1, <3>4
      <4> QED BY <1>4, <1>5, <1>6, <1>7, <3>1, <3>4, <4>1
    <3> QED BY <3>2, <3>3, <3>4
  <2>3. ASSUME NEW u \in Threads, NEW v \in Threads, taken'[u] # NoTask, taken'[u] = taken'[v]
        PROVE  u = v
    <3>1. ASSUME NEW w \in Threads, w # t, taken'[t] # NoTask PROVE taken'[w] # taken'[t]
      <4>1. taken'[t] = <<a, m>> /\ m \in 1..TaskCount
        BY <1>5, <1>8, <3>1
      <4>2. ~InHand(a, m)
        BY <1>0, <1>3, <1>4, <1>5, <4>1 DEF TasksOK
      <4> QED BY <1>8, <3>1, <4>1, <4>2 DEF InHand
    <3>2. CASE u = t \/ v = t
      BY <2>3, <3>1, <3>2
    <3>3. CASE u # t /\ v # t
      BY <1>0, <1>8, <2>3, <3>3 DEF TasksOK
    <3> QED BY <3>2, <3>3
  <2>4. \A b \in Sectioned : next'[b] >= 1
    BY <1>0, <1>5, <1>7 DEF TasksOK
  <2> QED BY <2>2, <2>3, <2>4 DEF TasksOK
<1>16. \A b \in Names : Done(b) => Done(b)'
  BY <1>6 DEF Done
<1>20. WritersOK'
  BY <1>0, <1>3, <1>8, <1>10, <1>13, OwnWriter
<1>17. \A b \in Sectioned : next[b] > TaskCount => next'[b] > TaskCount
  BY <1>4, <1>5, <1>7
<1>18. ProgressOK'
  <2>1. ASSUME NEW x \in Frames, NEW h, h = FrameOf(x)
        PROVE  FrameDone(h)'
    <3>1. FrameDone(h) /\ h \in FrameSet
      BY <1>0, <2>1, FrameProgress, FramesOK
    <3>2. h.job # NoJob => h.job \in Jobs
      BY <3>1, FrameType
    <3>4. h.job # NoJob /\ h.job.batch = Outer /\ h.job.name \notin Sectioned
             => ran'[h.job.name][1] = ran[h.job.name][1]
      BY <1>6
    <3> QED BY <1>0, <1>16, <1>17, <3>1, <3>2, <3>4, DoneGrows
  <2>2. FrameDone(g)'
    <3>1. CASE m > TaskCount
      <4>1. next'[a] > TaskCount
        BY <1>5, <1>7, <3>1
      <4> QED BY <1>3, <1>10, <4>1 DEF FrameDone
    <3>2. CASE ~(m > TaskCount)
      BY <1>1, <1>9, <2>1, <3>2
    <3> QED BY <3>1, <3>2
  <2> QED BY <1>13, <2>1, <2>2 DEF ProgressOK, Moves
<1>19. PendingOK'
  <2>1. \A b \in Names : b \in TodoNames' \cup QueueNames' \cup RunningNames' \/ Done(b)'
    BY <1>0, <1>13, <1>16 DEF PendingOK
  <2>2. ASSUME NEW b \in TodoNames' \cup QueueNames', b \notin Sectioned PROVE ran'[b][1] = 0
    <3>1. ran[b][1] = 0 /\ b # a /\ b \in Names
      BY <1>0, <1>3, <1>13, <2>2, NamesKnown DEF PendingOK
    <3> QED BY <1>6, <3>1
  <2> QED BY <2>1, <2>2 DEF PendingOK
<1> QED BY <1>13, <1>14, <1>15, <1>18, <1>19, <1>20 DEF IndInv

(* The task drawn is written.                                              *)
LEMMA WriteStep ==
    ASSUME IndInv, NEW t \in Threads, WriteTask(t)
    PROVE  IndInv'
<1>0. /\ TypeOK /\ StackOK /\ QueueOK /\ CountOK /\ WaitersOK /\ TasksOK /\ WritersOK
      /\ ProgressOK /\ OnceOK /\ PendingOK /\ taken[t] # NoTask
      /\ UNCHANGED <<queue, remaining, stack, parked, exited, stopping, next>>
  BY DEF IndInv, WriteTask
<1>1. PICK a \in Sectioned, m \in 1..TaskCount : taken[t] = <<a, m>>
  BY <1>0 DEF TypeOK
<1>2. InHand(a, m) /\ ran[a][m] = 0 /\ m < next[a]
  <2>1. InHand(a, m)
    BY <1>1 DEF InHand
  <2> QED BY <1>0, <2>1 DEF TasksOK
<1>3. /\ DOMAIN ran = Names /\ ran[a] \in [1..TaskCount -> Nat] /\ a \in Names
      /\ taken \in [Threads -> {NoTask} \cup (Sectioned \X (1..TaskCount))]
  BY <1>0, NamesFacts DEF TypeOK, Tasks
<1>4. ran' = [ran EXCEPT ![a][m] = @ + 1] /\ taken' = [taken EXCEPT ![t] = NoTask]
  BY <1>1 DEF WriteTask
<1>5. /\ taken' \in [Threads -> {NoTask} \cup (Sectioned \X (1..TaskCount))]
      /\ taken'[t] = NoTask /\ \A u \in Threads : u # t => taken'[u] = taken[u]
  BY <1>3, <1>4
<1>6. /\ DOMAIN ran' = Names /\ \A b \in Names : b # a => ran'[b] = ran[b]
      /\ ran'[a] = [ran[a] EXCEPT ![m] = @ + 1]
  BY <1>3, <1>4
<1>7. PICK r \in [1..TaskCount -> Nat] : r = ran[a]
  BY <1>3
<1>8. ran'[a] = [r EXCEPT ![m] = 1] /\ [r EXCEPT ![m] = 1] \in [1..TaskCount -> Nat]
  BY <1>2, <1>6, <1>7
<1>9. \A k \in 1..TaskCount : ran'[a][k] = IF k = m THEN 1 ELSE ran[a][k]
  BY <1>7, <1>8
<1>10. TypeOK'
  <2>1. \A b \in Names : ran'[b] \in [Tasks(b) -> Nat]
    BY <1>0, <1>1, <1>6, <1>8 DEF TypeOK, Tasks
  <2> QED BY <1>0, <1>5, <1>6, <2>1 DEF TypeOK
<1>11. ASSUME NEW b, NEW k
       PROVE  InHand(b, k)' <=> InHand(b, k) /\ <<b, k>> # <<a, m>>
  <2>1. <<b, k>> # NoTask
    BY DEF NoTask
  <2>2. CASE <<b, k>> = <<a, m>>
    <3>1. \A u \in Threads : u # t => taken[u] # taken[t]
      BY <1>0 DEF TasksOK
    <3> QED BY <1>1, <1>5, <2>1, <2>2, <3>1 DEF InHand
  <2>3. CASE <<b, k>> # <<a, m>>
    BY <1>1, <1>5, <2>1, <2>3 DEF InHand
  <2> QED BY <2>2, <2>3
<1>12. TasksOK'
  <2>1. ASSUME NEW b \in Sectioned, NEW k \in 1..TaskCount
        PROVE  /\ ran'[b][k] = IF k < next'[b] /\ ~InHand(b, k)' THEN 1 ELSE 0
               /\ InHand(b, k)' => k < next'[b]
    <3>1. /\ ran[b][k] = IF k < next[b] /\ ~InHand(b, k) THEN 1 ELSE 0
          /\ InHand(b, k) => k < next[b]
      BY <1>0 DEF TasksOK
    <3>2. CASE b = a /\ k = m
      BY <1>0, <1>2, <1>9, <1>11, <3>2
    <3>3. CASE b = a /\ k # m
      BY <1>0, <1>9, <1>11, <3>1, <3>3
    <3>4. CASE b # a
      BY <1>0, <1>6, <1>11, <3>1, <3>4, NamesFacts
    <3> QED BY <3>2, <3>3, <3>4
  <2>2. \A u, v \in Threads : taken'[u] # NoTask /\ taken'[u] = taken'[v] => u = v
    BY <1>0, <1>5 DEF TasksOK
  <2>3. \A b \in Sectioned : next'[b] >= 1
    BY <1>0 DEF TasksOK
  <2> QED BY <2>1, <2>2, <2>3 DEF TasksOK
<1>13. Frames' = Frames /\ \A x : FrameOf(x)' = FrameOf(x)
  BY <1>0 DEF Frames, FrameOf, FrameAt
<1>14. WritersOK'
  BY <1>0, <1>5, <1>13 DEF WritersOK
<1>15. StackOK' /\ QueueOK'
  BY <1>0 DEF StackOK, QueueOK
<1>16. \A b : Queued(b)' = Queued(b) /\ Live(b)' = Live(b) /\ Waiter(b)' = Waiter(b)
  BY <1>0, <1>13 DEF Queued, Live, Waiter
<1>17. CountOK' /\ WaitersOK'
  BY <1>0, <1>16 DEF CountOK, WaitersOK
<1>18. \A b \in Names : Done(b) => Done(b)'
  <2> SUFFICES ASSUME NEW b \in Names, Done(b) PROVE Done(b)'
    OBVIOUS
  <2>1. b # a
    BY <1>1, <1>2 DEF Done, Tasks
  <2> QED BY <1>6, <2>1 DEF Done
<1>19. ProgressOK'
  <2> SUFFICES ASSUME NEW x \in Frames, NEW h, h = FrameOf(x) PROVE FrameDone(h)'
    BY <1>13 DEF ProgressOK
  <2>1. FrameDone(h) /\ h \in FrameSet
    BY <1>0, FrameProgress, FramesOK
  <2>2. h.job # NoJob => h.job \in Jobs
    BY <2>1, FrameType
  <2>3. h.job # NoJob /\ h.job.batch = Outer /\ h.job.name \notin Sectioned
           => ran'[h.job.name][1] = ran[h.job.name][1]
    BY <1>1, <1>6, <2>2, JobType
  <2> QED BY <1>0, <1>18, <2>1, <2>2, <2>3, DoneGrows
<1>20. TodoNames' = TodoNames /\ QueueNames' = QueueNames /\ RunningNames' = RunningNames /\ OnceOK'
  <2>1. Todo' = Todo
    BY <1>0 DEF Todo
  <2>2. TodoNames' = TodoNames /\ TodoOnce'
    BY <1>0, <2>1 DEF TodoNames, TodoOnce, OnceOK
  <2>3. QueueNames' = QueueNames /\ QueueOnce'
    BY <1>0, <1>16 DEF QueueNames, QueueOnce, OnceOK
  <2>4. RunningNames' = RunningNames /\ RunOnce'
    BY <1>0, <1>13 DEF RunningNames, RunOnce, OnceOK
  <2> QED BY <1>0, <2>2, <2>3, <2>4 DEF OnceOK
<1>21. PendingOK'
  <2>1. \A b \in TodoNames \cup QueueNames : b \in Names /\ (b \notin Sectioned => ran'[b][1] = 0)
    BY <1>0, <1>1, <1>6, NamesKnown DEF PendingOK
  <2>2. \A b \in Names : b \in TodoNames \cup QueueNames \cup RunningNames \/ Done(b)'
    BY <1>0, <1>18 DEF PendingOK
  <2> QED BY <1>20, <2>1, <2>2 DEF PendingOK
<1> QED BY <1>10, <1>12, <1>14, <1>15, <1>17, <1>19, <1>20, <1>21 DEF IndInv

-----------------------------------------------------------------------------
(* Ending a job                                                            *)

LEMMA EndingFrame ==
    ASSUME NEW f \in FrameSet, FrameOK(f), f.at \in {"finish", "notify"}
    PROVE  f.job # NoJob /\ f.job \in Jobs /\ f.job.batch \in Batches
<1>1. f.job # NoJob
  BY DEF FrameOK, Waits, Ends
<1>2. f.job \in Jobs
  BY <1>1, FrameType
<1> QED BY <1>1, <1>2, JobType

LEMMA WokenDone ==
    ASSUME NEW f \in FrameSet, FrameOK(f), FrameDone(f), f.at = "asleep",
           NEW g, g = [f EXCEPT !.at = "load"]
    PROVE  /\ FrameDone(g)
           /\ g.at \in Waits /\ g.batch = f.batch /\ g.todo = f.todo
<1>1. "load" \in PCs
  BY DEF PCs, Waits
<1>2. g \in FrameSet /\ g.job = f.job /\ g.batch = f.batch /\ g.at = "load" /\ g.todo = f.todo
  BY <1>1, FrameMoves
<1>3. FrameDone(g)
  BY <1>2 DEF FrameDone, FrameOK, Ends
<1> QED BY <1>2, <1>3 DEF Waits

LEMMA GoneKeeps ==
    ASSUME IndInv, NEW y \in Frames, Gone(y), NEW f, f = FrameOf(y), f.at \in {"finish", "notify"},
           UNCHANGED <<queue, next, ran, taken>>,
           \A b \in Batches : remaining'[b] # 0 => remaining[b] # 0,
           \A a \in Sectioned : remaining'[a] = 0 => remaining[a] = 0 \/ next[a] > TaskCount
    PROVE  /\ QueueOK' /\ WaitersOK' /\ TasksOK' /\ WritersOK' /\ ProgressOK' /\ OnceOK' /\ PendingOK'
           /\ Others(y)
<1>0. TypeOK /\ StackOK /\ QueueOK /\ WaitersOK /\ TasksOK /\ WritersOK /\ ProgressOK /\ OnceOK /\ PendingOK
  BY DEF IndInv
<1>1. f \in FrameSet /\ FrameOK(f) /\ FrameDone(f) /\ (f.job = NoJob <=> y = <<Caller, 1>>)
  BY <1>0, FramesOK, FrameProgress
<1>2. f.job # NoJob /\ f.job \in Jobs
  BY <1>1, EndingFrame
<1>3. Others(y)
  BY <1>0, GoneOthers
<1>4. ASSUME NEW x \in Frames, x # y, NEW h, h = FrameOf(x), NEW g, g = FrameOf(x)'
      PROVE  /\ g = h \/ FrameDone(g)
             /\ h.at \in Waits => g.at \in Waits
             /\ g.batch = h.batch /\ g.todo = h.todo
  <2>1. h \in FrameSet /\ FrameOK(h) /\ FrameDone(h)
    BY <1>0, <1>4, FramesOK, FrameProgress
  <2>2. CASE g = h
    BY <2>2
  <2>3. CASE h.at = "asleep" /\ g = [h EXCEPT !.at = "load"]
    BY <2>1, <2>3, WokenDone
  <2> QED BY <1>4, <2>2, <2>3 DEF Gone
<1>5. QueueOK' /\ TasksOK' /\ WritersOK'
  BY <1>0, TasksKept, GoneWriters DEF QueueOK
<1>6. WaitersOK'
  <2>1. ASSUME NEW x \in Frames, FrameOf(x).at \in Waits
        PROVE  /\ x \in Frames' /\ FrameOf(x)'.at \in Waits
               /\ FrameOf(x)'.batch = FrameOf(x).batch
    <3>1. x # y
      BY <2>1 DEF Waits
    <3> QED BY <1>4, <2>1, <3>1 DEF Gone
  <2> QED BY <1>0, <2>1, WaitersKept
<1>7. ProgressOK'
  <2>1. ASSUME NEW x \in Frames', NEW g \in {FrameOf(x)'}
        PROVE  (x \in Frames /\ g = FrameOf(x)) \/ FrameDone(g)'
    <3>1. x \in Frames /\ x # y
      BY DEF Gone
    <3>2. g = FrameOf(x) \/ FrameDone(g)
      BY <1>4, <3>1
    <3> QED BY <3>1, <3>2, DoneKept
  <2> QED BY <1>0, <2>1, ProgressKept
<1>8. OnceOK' /\ PendingOK'
  <2>1. Todo' = Todo
    <3>1. <<Caller, 1>> \in Frames /\ <<Caller, 1>> # y
      BY <1>0, <1>1, <1>2, FramesOK
    <3>2. FrameOf(<<Caller, 1>>)'.todo = FrameOf(<<Caller, 1>>).todo
      BY <1>4, <3>1
    <3> QED BY <3>2 DEF Todo, FrameOf, FrameAt
  <2>2. TodoNames' = TodoNames /\ TodoOnce'
    BY <1>0, <2>1 DEF TodoNames, TodoOnce, OnceOK
  <2>3. QueueNames' = QueueNames /\ QueueOnce'
    BY <1>0 DEF QueueNames, QueueOnce, OnceOK, Queued
  <2>4. PICK j \in Jobs : j = f.job
    BY <1>2
  <2>5. /\ RunOnce'
        /\ j.batch = Outer => j.name \in RunningNames
        /\ RunningNames' = IF j.batch = Outer THEN RunningNames \ {j.name} ELSE RunningNames
    <3>1. y \notin Frames' /\ RunOnce
      BY <1>0 DEF Gone, OnceOK
    <3> QED BY <1>0, <1>3, <2>4, <3>1, RunEnds
  <2>6. CASE j.batch = Outer
    <3>1. Done(j.name)
      BY <1>0, <1>1, <2>4, <2>6, EndedDone
    <3>2. PICK a : a = j.name
      OBVIOUS
    <3> QED BY <1>0, <2>2, <2>3, <2>5, <2>6, <3>1, <3>2, NamesStep
  <2>7. CASE j.batch # Outer
    BY <1>0, <2>2, <2>3, <2>5, <2>7, NamesStep
  <2> QED BY <2>6, <2>7
<1> QED BY <1>3, <1>5, <1>6, <1>7, <1>8

LEMMA NotifyStep ==
    ASSUME IndInv, NEW t \in Threads, Notify(t)
    PROVE  IndInv'
<1>0. /\ TypeOK /\ StackOK /\ CountOK /\ At(t, "notify")
      /\ UNCHANGED <<queue, remaining, parked, exited, stopping, next, ran, taken>>
  BY DEF IndInv, Notify
<1>1. PICK f \in FrameSet, n \in Nat \ {0} :
              /\ f = Top(t) /\ n = Len(stack[t]) /\ stack[t] # <<>> /\ f.at = "notify"
              /\ FrameOK(f)
              /\ <<t, n>> \in Frames /\ FrameOf(<<t, n>>) = f
  BY <1>0, InFrame
<1>2. f.job # NoJob
  BY <1>1, EndingFrame
<1>3. StackOK' /\ Gone(<<t, n>>)
  <2>1. stack' = [u \in Threads |->
                   IF u = t THEN Popped(t)
                   ELSE IF Woken(u, f.job.batch)
                        THEN Moved(u, [Top(u) EXCEPT !.at = "load"])
                        ELSE stack[u]]
    BY <1>1 DEF Notify
  <2>2. stack' = [u \in Threads |-> stack'[u]] /\ stack'[t] = Popped(t)
    BY <2>1
  <2>3. ASSUME NEW u \in Threads, u # t
        PROVE  \/ stack'[u] = stack[u]
               \/ At(u, "asleep") /\ stack'[u] = Moved(u, [Top(u) EXCEPT !.at = "load"])
    <3>1. stack'[u] = IF Woken(u, f.job.batch) THEN Moved(u, [Top(u) EXCEPT !.at = "load"])
                                               ELSE stack[u]
      BY <2>1, <2>3
    <3>2. CASE Woken(u, f.job.batch)
      BY <3>1, <3>2 DEF Woken
    <3>3. CASE ~Woken(u, f.job.batch)
      BY <3>1, <3>3
    <3> QED BY <3>2, <3>3
  <2> QED BY <1>0, <1>1, <1>2, <2>2, <2>3, PopStack
<1>4. PICK y \in Frames : y = <<t, n>>
  BY <1>1
<1>5. QueueOK' /\ WaitersOK' /\ TasksOK' /\ WritersOK' /\ ProgressOK' /\ OnceOK' /\ PendingOK' /\ Others(y)
  <2>1. Gone(y) /\ f = FrameOf(y)
    BY <1>1, <1>3, <1>4
  <2> QED BY <1>0, <1>1, <2>1, GoneKeeps
<1>6. CountOK'
  <2> SUFFICES ASSUME NEW b \in Batches
               PROVE  /\ IsFiniteSet(Live(b))'
                      /\ remaining'[b] = Cardinality(Queued(b))' + Cardinality(Live(b))'
    BY DEF CountOK
  <2>1. y \notin Live(b) /\ y \notin Live(b)'
    BY <1>1, <1>3, <1>4 DEF Live, Gone
  <2>2. Cardinality(Queued(b))' = Cardinality(Queued(b))
    BY <1>0 DEF Queued
  <2> QED BY <1>0, <1>5, <2>1, <2>2, LiveChange DEF CountOK
<1>7. TypeOK'
  BY <1>0, <1>3 DEF TypeOK, StackOK
<1> QED BY <1>3, <1>5, <1>6, <1>7 DEF IndInv

LEMMA FinishStep ==
    ASSUME IndInv, NEW t \in Threads, Finish(t)
    PROVE  IndInv'
<1>0. /\ TypeOK /\ StackOK /\ QueueOK /\ CountOK /\ WaitersOK /\ TasksOK /\ WritersOK /\ ProgressOK
      /\ OnceOK /\ PendingOK
      /\ At(t, "finish")
      /\ UNCHANGED <<queue, parked, exited, stopping, next, ran, taken>>
  BY DEF IndInv, Finish
<1>f. At(t, "finish")
  BY <1>0
<1>1. PICK f \in FrameSet, n \in Nat \ {0} :
              /\ f = Top(t) /\ n = Len(stack[t]) /\ stack[t] # <<>> /\ f.at = "finish"
              /\ FrameOK(f) /\ FrameDone(f)
              /\ <<t, n>> \in Frames /\ FrameOf(<<t, n>>) = f
  BY <1>f, InFrame
<1>2. f.job # NoJob /\ f.job \in Jobs /\ f.job.batch \in Batches
  BY <1>1, EndingFrame
<1>3. PICK y \in Frames, b \in Batches : y = <<t, n>> /\ b = f.job.batch
  BY <1>1, <1>2
<1>4. y \in Live(b) /\ \A c : c # b => y \notin Live(c)
  BY <1>1, <1>3 DEF Live
<1>5. remaining[b] \in Nat /\ remaining[b] >= 1
  <2>1. IsFiniteSet(Live(b)) /\ remaining[b] = Cardinality(Queued(b)) + Cardinality(Live(b))
    BY <1>0 DEF CountOK
  <2>2. Cardinality(Live(b)) \in Nat /\ Cardinality(Live(b)) # 0
    BY <1>4, <2>1, FS_EmptySet, FS_CardinalityType
  <2>3. Cardinality(Queued(b)) \in Nat
    BY <1>0, QueuedCount
  <2> QED BY <2>1, <2>2, <2>3
<1>6. remaining' = [remaining EXCEPT ![b] = @ - 1] /\ remaining \in [Batches -> Nat]
  BY <1>0, <1>1, <1>3 DEF Finish, TypeOK
<1>7. /\ remaining' \in [Batches -> Nat] /\ remaining'[b] = remaining[b] - 1
      /\ \A c \in Batches : c # b => remaining'[c] = remaining[c]
  BY <1>5, <1>6
<1>8. \A c \in Batches : remaining'[c] # 0 => remaining[c] # 0
  BY <1>5, <1>7
<1>9. \A a \in Sectioned : remaining'[a] = 0 => remaining[a] = 0 \/ next[a] > TaskCount
  <2> SUFFICES ASSUME NEW a \in Sectioned, a = b PROVE next[a] > TaskCount
    BY <1>7, NamesFacts
  <2>1. f.job.batch # Outer
    BY <1>3, NamesFacts
  <2> QED BY <1>1, <1>2, <1>3, <2>1 DEF FrameDone
<1>10. ASSUME StackOK', Others(y), \A c : y \notin Live(c)'
       PROVE  TypeOK' /\ CountOK'
  <2>1. TypeOK'
    BY <1>0, <1>7, <1>10 DEF TypeOK, StackOK
  <2>2. ASSUME NEW c \in Batches
        PROVE  /\ IsFiniteSet(Live(c))'
               /\ remaining'[c] = Cardinality(Queued(c))' + Cardinality(Live(c))'
    <3>1. /\ IsFiniteSet(Live(c))' /\ Cardinality(Live(c)) \in Nat /\ Cardinality(Live(c))' \in Nat
          /\ Cardinality(Live(c)) = IF c = b THEN Cardinality(Live(c))' + 1 ELSE Cardinality(Live(c))'
      BY <1>0, <1>4, <1>10, LiveChange
    <3>2. Cardinality(Queued(c))' = Cardinality(Queued(c)) /\ Cardinality(Queued(c)) \in Nat
      BY <1>0, QueuedCount DEF Queued
    <3>3. remaining[c] = Cardinality(Queued(c)) + Cardinality(Live(c))
      BY <1>0 DEF CountOK
    <3> QED BY <1>7, <3>1, <3>2, <3>3
  <2> QED BY <2>1, <2>2 DEF CountOK
<1>11. CASE remaining[b] # 1
  <2>1. stack' = [stack EXCEPT ![t] = Popped(t)]
    BY <1>1, <1>3, <1>11 DEF Finish
  <2>2. stack' = [u \in Threads |-> stack'[u]] /\ stack'[t] = Popped(t)
        /\ \A u \in Threads : u # t => stack'[u] = stack[u]
    BY <1>0, <2>1 DEF StackOK
  <2>3. StackOK' /\ Gone(y)
    BY <1>0, <1>1, <1>2, <1>3, <2>2, PopStack
  <2>4. QueueOK' /\ WaitersOK' /\ TasksOK' /\ WritersOK' /\ ProgressOK' /\ OnceOK' /\ PendingOK' /\ Others(y)
    BY <1>0, <1>1, <1>3, <1>8, <1>9, <2>3, GoneKeeps
  <2>5. \A c : y \notin Live(c)'
    BY <2>3 DEF Gone, Live
  <2> QED BY <1>10, <2>3, <2>4, <2>5 DEF IndInv
<1>12. CASE remaining[b] = 1
  <2>1. PICK g : g = [f EXCEPT !.at = "notify"]
    OBVIOUS
  <2>2. g \in FrameSet /\ g.job = f.job /\ g.batch = f.batch /\ g.at = "notify" /\ g.todo = f.todo
    BY <2>1, FrameMoves DEF PCs
  <2>3. stack' = [stack EXCEPT ![t] = Moved(t, g)]
    BY <1>1, <1>3, <1>12, <2>1 DEF Finish, To
  <2>4. FrameOK(g)
    BY <1>1, <1>2, <2>2 DEF FrameOK, Waits
  <2>5. StackOK' /\ Moves(y, g)
    BY <1>0, <1>1, <1>3, <2>2, <2>3, <2>4, MoveStack
  <2>6. Others(y)
    BY <2>5, MoveOthers
  <2>7. \A c : y \notin Live(c)'
    BY <2>2, <2>5 DEF Moves, Live
  <2>8. QueueOK' /\ TasksOK' /\ WritersOK'
    BY <1>0, <1>1, <1>3, <2>5, TasksKept, MoveWriters DEF QueueOK
  <2>9. WaitersOK'
    <3>1. ASSUME NEW x \in Frames, FrameOf(x).at \in Waits
          PROVE  /\ x \in Frames' /\ FrameOf(x)'.at \in Waits
                 /\ FrameOf(x)'.batch = FrameOf(x).batch
      <4>1. x # y
        BY <1>1, <1>3, <3>1 DEF Waits
      <4> QED BY <2>5, <3>1, <4>1 DEF Moves
    <3> QED BY <1>0, <1>8, <3>1, WaitersKept
  <2>10. ProgressOK'
    <3>1. FrameDone(g)
      BY <1>1, <1>2, <2>2 DEF FrameDone
    <3>2. FrameDone(g)'
      BY <1>0, <1>9, <3>1, DoneKept
    <3>3. \A x \in Frames' : \A h \in {FrameOf(x)'} : (x \in Frames /\ h = FrameOf(x)) \/ FrameDone(h)'
      BY <2>5, <3>2 DEF Moves
    <3> QED BY <1>0, <1>9, <3>3, ProgressKept
  <2>11. OnceOK' /\ PendingOK'
    <3>1. Todo' = Todo
      <4>1. <<Caller, 1>> \in Frames /\ <<Caller, 1>> # y
        BY <1>0, <1>1, <1>2, <1>3, FramesOK
      <4>2. FrameOf(<<Caller, 1>>)' = FrameOf(<<Caller, 1>>)
        BY <2>5, <4>1 DEF Moves
      <4> QED BY <4>2 DEF Todo, FrameOf, FrameAt
    <3>2. TodoNames' = TodoNames /\ TodoOnce'
      BY <1>0, <3>1 DEF TodoNames, TodoOnce, OnceOK
    <3>3. QueueNames' = QueueNames /\ QueueOnce'
      BY <1>0 DEF QueueNames, QueueOnce, OnceOK, Queued
    <3>4. RunningNames' = RunningNames /\ RunOnce'
      BY <1>0, <1>1, <1>3, <2>2, <2>5, <2>6, RunSame DEF OnceOK, Moves
    <3> QED BY <1>0, <3>2, <3>3, <3>4, NamesStep
  <2> QED BY <1>10, <2>5, <2>6, <2>7, <2>8, <2>9, <2>10, <2>11 DEF IndInv
<1> QED BY <1>11, <1>12

-----------------------------------------------------------------------------
(* Starting a job                                                          *)

LEMMA EntryDone ==
    ASSUME NEW j \in Jobs, JobOK(j), NEW e, e = Entry(j),
           j.batch = Outer /\ j.name \notin Sectioned => ran[j.name][1] = 0
    PROVE  FrameDone(e)
<1>1. /\ e.job = j /\ j # NoJob
      /\ IF j.batch = Outer /\ j.name \in Sectioned
         THEN e.at = "submit" /\ Len(e.todo) = Copies
         ELSE e.at = "task"
  BY EntryFacts, JobType
<1>2. Copies \in Nat
  BY ExecutorAssumption
<1>3. ~(Copies < Copies)
  BY <1>2
<1> QED BY <1>1, <1>3 DEF FrameDone, Ends

LEMMA EntryLive ==
    ASSUME NEW j \in Jobs, JobOK(j), NEW e, e = Entry(j)
    PROVE  e \in FrameSet /\ FrameOK(e) /\ e.job = j /\ e.job # NoJob /\ e.at # "notify"
BY EntryFacts, JobType

(* A queued job starts on a stack.                                         *)
LEMMA TakeKeeps ==
    ASSUME IndInv, NEW j, NEW e, NEW y, NEW h, NEW z, NewFrame(y, h, z, e), StackOK',
           queue # <<>>, j = Head(queue), e = Entry(j), queue' = Tail(queue),
           h.job = FrameOf(y).job, h.batch = FrameOf(y).batch, h.todo = FrameOf(y).todo,
           FrameDone(h), h.at # "notify", FrameOf(y).at \notin {"notify", "task"},
           FrameOf(y).at \in Waits => h.at \in Waits,
           UNCHANGED <<remaining, parked, exited, stopping, next, ran, taken>>
    PROVE  IndInv'
<1>0. TypeOK /\ StackOK /\ QueueOK /\ CountOK /\ WaitersOK /\ TasksOK /\ WritersOK /\ ProgressOK /\ OnceOK /\ PendingOK
  BY DEF IndInv
<1>1. /\ queue \in Seq(Jobs) /\ Len(queue) \in Nat /\ Len(queue) >= 1 /\ queue' \in Seq(Jobs)
      /\ Len(queue') = Len(queue) - 1 /\ j = queue[1] /\ j \in Jobs
      /\ \A k \in 1..Len(queue') : queue'[k] = queue[k + 1] /\ k + 1 \in 1..Len(queue)
  BY <1>0 DEF TypeOK
<1>2. JobOK(j)
  BY <1>0, <1>1 DEF QueueOK
<1>3. e.job = j /\ e.at # "notify"
  BY <1>1, <1>2, EntryLive
<1>4. Others(z)
  BY NewOthers
<1>5. TypeOK'
  <2>1. Len(queue') <= QueueCapacity
    BY <1>0, <1>1, ExecutorAssumption DEF TypeOK
  <2> QED BY <1>0, <1>1, <2>1 DEF TypeOK, StackOK
<1>6. QueueOK'
  BY <1>0, <1>1 DEF QueueOK, JobOK
<1>7. CountOK'
  <2> SUFFICES ASSUME NEW b \in Batches
               PROVE  /\ IsFiniteSet(Live(b))'
                      /\ remaining'[b] = Cardinality(Queued(b))' + Cardinality(Live(b))'
    BY DEF CountOK
  <2>1. z \notin Live(b) /\ (z \in Live(b)' <=> j.batch = b)
    BY <1>3 DEF Live, NewFrame
  <2>2. /\ IsFiniteSet(Live(b))' /\ Cardinality(Live(b)) \in Nat
        /\ Cardinality(Live(b))' = IF j.batch = b THEN Cardinality(Live(b)) + 1 ELSE Cardinality(Live(b))
    BY <1>0, <1>4, <2>1, LiveChange
  <2>3. /\ Cardinality(Queued(b))' \in Nat
        /\ Cardinality(Queued(b)) = Cardinality(Queued(b))' + (IF j.batch = b THEN 1 ELSE 0)
    BY <1>0, QueueShrinks
  <2>4. remaining[b] = Cardinality(Queued(b)) + Cardinality(Live(b))
    BY <1>0 DEF CountOK
  <2> QED BY <2>2, <2>3, <2>4
<1>8. WaitersOK'
  <2>1. \A x \in Frames : FrameOf(x).at \in Waits =>
           /\ x \in Frames' /\ FrameOf(x)'.at \in Waits
           /\ FrameOf(x)'.batch = FrameOf(x).batch
    BY DEF NewFrame
  <2> QED BY <1>0, <2>1, WaitersKept
<1>9. TasksOK' /\ WritersOK'
  BY <1>0, TasksKept, NewWriters
<1>10. /\ QueueOnce'
       /\ j.batch = Outer => j.name \in QueueNames
       /\ QueueNames' = IF j.batch = Outer THEN QueueNames \ {j.name} ELSE QueueNames
  BY <1>0, QueueGivesName DEF OnceOK
<1>11. ProgressOK'
  <2>1. FrameDone(e)
    BY <1>0, <1>1, <1>2, <1>10, EntryDone DEF PendingOK
  <2>2. FrameDone(e)' /\ FrameDone(h)'
    BY <2>1, DoneKept
  <2>3. \A x \in Frames' : \A g \in {FrameOf(x)'} : (x \in Frames /\ g = FrameOf(x)) \/ FrameDone(g)'
    BY <2>2 DEF NewFrame
  <2> QED BY <1>0, <2>3, ProgressKept
<1>12. TodoNames' = TodoNames /\ TodoOnce'
  <2>1. <<Caller, 1>> \in Frames
    BY <1>0, FramesOK
  <2>2. FrameOf(<<Caller, 1>>)'.todo = FrameOf(<<Caller, 1>>).todo
    BY <2>1 DEF NewFrame
  <2>3. Todo' = Todo
    BY <2>2 DEF Todo, FrameOf, FrameAt
  <2> QED BY <1>0, <2>3 DEF TodoNames, TodoOnce, OnceOK
<1>13. /\ RunOnce'
       /\ RunningNames' = IF j.batch = Outer THEN RunningNames \cup {j.name} ELSE RunningNames
  <2>1. j.batch = Outer => j.name \notin RunningNames
    BY <1>0, <1>10 DEF OnceOK
  <2>2. z \notin Frames /\ z \in Frames' /\ FrameOf(z)'.job = j /\ RunOnce
    BY <1>0, <1>3 DEF NewFrame, OnceOK
  <2> QED BY <1>4, <2>1, <2>2, RunStarts
<1>14. OnceOK' /\ PendingOK'
  <2>1. PICK a : a = j.name
    OBVIOUS
  <2>2. CASE j.batch = Outer
    BY <1>0, <1>10, <1>12, <1>13, <2>1, <2>2, NamesStep
  <2>3. CASE j.batch # Outer
    BY <1>0, <1>10, <1>12, <1>13, <2>3, NamesStep
  <2> QED BY <2>2, <2>3
<1> QED BY <1>5, <1>6, <1>7, <1>8, <1>9, <1>11, <1>14 DEF IndInv

LEMMA HeadJob ==
    ASSUME IndInv, queue # <<>>, NEW j, j = Head(queue)
    PROVE  j \in Jobs /\ JobOK(j)
<1>1. /\ queue \in Seq(Jobs) /\ Len(queue) \in Nat /\ Len(queue) >= 1 /\ j = queue[1] /\ j \in Jobs
  BY DEF IndInv, TypeOK
<1> QED BY <1>1 DEF IndInv, QueueOK

LEMMA WaitTakeStep ==
    ASSUME IndInv, NEW t \in Threads, WaitTake(t)
    PROVE  IndInv'
<1>0. /\ StackOK /\ At(t, "take") /\ "take" \in Waits /\ UNCHANGED <<remaining, parked, exited, stopping, next, ran, taken>>
  BY DEF IndInv, WaitTake, Waits
<1>1. Top(t).todo = <<>>
  BY <1>0, NothingTodo
<1>2. CASE queue = <<>>
  <2>1. stack' = To(t, "reload") /\ "reload" \in Waits /\ queue' = queue
    BY <1>2 DEF WaitTake, Waits
  <2> QED BY <1>0, <1>1, <2>1, WaitingMove
<1>3. CASE queue # <<>>
  <2>0. At(t, "take")
    BY <1>0
  <2>1. PICK f \in FrameSet, n \in Nat \ {0} :
              /\ f = Top(t) /\ n = Len(stack[t]) /\ stack[t] # <<>> /\ f.at = "take"
              /\ FrameOK(f) /\ FrameDone(f)
              /\ <<t, n>> \in Frames /\ FrameOf(<<t, n>>) = f
              /\ f.job = NoJob <=> t = Caller /\ n = 1
              /\ f.job # NoJob => f.job \in Jobs
    BY <2>0, InFrame
  <2>2. PICK j, e : j = Head(queue) /\ e = Entry(j)
    OBVIOUS
  <2>3. j \in Jobs /\ JobOK(j) /\ e \in FrameSet /\ FrameOK(e) /\ e.job # NoJob
    BY <1>3, <2>2, HeadJob, EntryLive
  <2>4. PICK h : h = [f EXCEPT !.at = "load"]
    OBVIOUS
  <2>5. h \in FrameSet /\ h.job = f.job /\ h.batch = f.batch /\ h.at = "load" /\ h.todo = f.todo
    BY <2>4, FrameMoves DEF PCs, Waits
  <2>6. FrameOK(h)
    BY <2>1, <2>5 DEF FrameOK, Waits
  <2>7. FrameDone(h)
    BY <2>1, <2>5 DEF FrameDone, FrameOK, Ends
  <2>8. PICK s : s = Moved(t, h)
    OBVIOUS
  <2>9. stack' = [stack EXCEPT ![t] = Append(s, e)] /\ queue' = Tail(queue)
    BY <1>3, <2>1, <2>2, <2>4, <2>8 DEF WaitTake
  <2>10. stack[t] \in Seq(FrameSet)
    BY <1>0 DEF StackOK
  <2>11. /\ s \in Seq(FrameSet) /\ Len(s) = n
         /\ \A i \in 1..n : s[i] = IF i = n THEN h ELSE stack[t][i]
    BY <2>1, <2>5, <2>8, <2>10 DEF Moved
  <2>12. ASSUME NEW i \in 1..n
         PROVE  /\ s[i] = IF <<t, i>> = <<t, n>> THEN h ELSE stack[t][i]
                /\ FrameOK(s[i])
                /\ s[i].job = stack[t][i].job
                /\ s[i].at \in {"submit", "load"}
    <3>1. i # n => FrameOK(stack[t][i]) /\ stack[t][i].at \in {"submit", "load"}
      BY <1>0, <2>1 DEF StackOK
    <3>2. stack[t][n] = f
      BY <2>1 DEF Top
    <3>3. s[i] = IF i = n THEN h ELSE stack[t][i]
      BY <2>11
    <3>4. CASE i = n
      BY <2>5, <2>6, <3>2, <3>3, <3>4
    <3>5. CASE i # n
      BY <3>1, <3>3, <3>5
    <3> QED BY <3>4, <3>5
  <2>13. PICK y \in Frames : y = <<t, n>>
    BY <2>1
  <2>14. StackOK' /\ NewFrame(y, h, <<t, n + 1>>, e)
    <3>1. y[1] = t
      BY <2>13
    <3>2. \A i \in 1..n : /\ s[i] = IF <<t, i>> = y THEN h ELSE stack[t][i]
                          /\ FrameOK(s[i])
                          /\ s[i].job = stack[t][i].job
                          /\ s[i].at \in {"submit", "load"}
      BY <2>12, <2>13
    <3>3. n = Len(stack[t]) /\ s \in Seq(FrameSet) /\ Len(s) = n
      BY <2>1, <2>11
    <3> QED BY <1>0, <2>3, <2>9, <3>1, <3>2, <3>3, PushStack
  <2>15. PICK z : z = <<t, n + 1>>
    OBVIOUS
  <2>16. FrameOf(y) = f /\ h.at # "notify" /\ f.at \notin {"notify", "task"} /\ h.at \in Waits
    BY <2>1, <2>5, <2>13 DEF Waits
  <2> QED BY <1>0, <1>3, <2>2, <2>5, <2>7, <2>9, <2>14, <2>15, <2>16, TakeKeeps
<1> QED BY <1>2, <1>3

(* Nothing of the invariant is about the pool threads that do not run.     *)
LEMMA IdleKeeps ==
    ASSUME IndInv, UNCHANGED <<queue, remaining, stack, next, ran, taken>>,
           parked' \subseteq Workers, exited' \subseteq Workers, stopping' \in BOOLEAN
    PROVE  IndInv'
<1>1. TypeOK'
  BY DEF IndInv, TypeOK
<1>2. StackOK' /\ QueueOK' /\ TasksOK'
  BY TasksKept DEF IndInv, StackOK, QueueOK
<1>3. Frames' = Frames /\ \A x : FrameOf(x)' = FrameOf(x)
  BY DEF Frames, FrameOf, FrameAt
<1>4. \A b : Queued(b)' = Queued(b) /\ Live(b)' = Live(b) /\ Waiter(b)' = Waiter(b)
  BY <1>3 DEF Queued, Live, Waiter
<1>5. CountOK' /\ WaitersOK'
  BY <1>4 DEF IndInv, CountOK, WaitersOK
<1>6. ProgressOK'
  <2>1. \A x \in Frames' : \A g \in {FrameOf(x)'} : (x \in Frames /\ g = FrameOf(x)) \/ FrameDone(g)'
    BY <1>3
  <2> QED BY <2>1, ProgressKept DEF IndInv
<1>8. WritersOK'
  BY <1>3, WritersKept DEF IndInv
<1>7. OnceOK' /\ PendingOK'
  <2>1. Todo' = Todo
    BY DEF Todo
  <2>2. TodoNames' = TodoNames /\ TodoOnce'
    BY <2>1 DEF TodoNames, TodoOnce, OnceOK, IndInv
  <2>3. QueueNames' = QueueNames /\ QueueOnce'
    BY <1>4 DEF QueueNames, QueueOnce, OnceOK, IndInv
  <2>4. RunningNames' = RunningNames /\ RunOnce'
    BY <1>3 DEF RunningNames, RunOnce, OnceOK, IndInv
  <2> QED BY <2>2, <2>3, <2>4, NamesStep DEF IndInv
<1> QED BY <1>1, <1>2, <1>5, <1>6, <1>7, <1>8 DEF IndInv

LEMMA WorkerLoopStep ==
    ASSUME IndInv, NEW w \in Workers, WorkerLoop(w)
    PROVE  IndInv'
<1>0. /\ StackOK /\ TypeOK /\ ProgressOK /\ stack[w] = <<>> /\ w \in Threads
      /\ UNCHANGED <<remaining, stopping, next, ran, taken>>
  BY NamesFacts DEF IndInv, WorkerLoop
<1>1. CASE queue = <<>>
  <2>1. parked' \subseteq Workers /\ exited' \subseteq Workers /\ UNCHANGED <<stack, queue>>
    BY <1>0, <1>1 DEF WorkerLoop, TypeOK
  <2> QED BY <1>0, <2>1, IdleKeeps DEF TypeOK
<1>2. CASE queue # <<>>
  <2>1. PICK j, e : j = Head(queue) /\ e = Entry(j)
    OBVIOUS
  <2>2. j \in Jobs /\ JobOK(j) /\ e \in FrameSet /\ FrameOK(e) /\ e.job # NoJob
    BY <1>2, <2>1, HeadJob, EntryLive
  <2>3. stack' = [stack EXCEPT ![w] = <<e>>] /\ queue' = Tail(queue) /\ UNCHANGED <<parked, exited>>
    BY <1>2, <2>1 DEF WorkerLoop
  <2>4. PICK s : s = <<>>
    OBVIOUS
  <2>5. s \in Seq(FrameSet) /\ Len(s) = 0 /\ Len(stack[w]) = 0 /\ Append(s, e) = <<e>>
    BY <1>0, <2>2, <2>4
  <2>6. <<Caller, 1>> \in Frames /\ w # Caller
    BY <1>0, FramesOK, ExecutorAssumption
  <2>y. PICK y \in Frames : y = <<Caller, 1>>
    BY <2>6
  <2>h. PICK h : h = FrameOf(y)
    OBVIOUS
  <2>8. StackOK' /\ NewFrame(y, h, <<w, 0 + 1>>, e)
    <3>1. \A i \in 1..0 : FALSE
      OBVIOUS
    <3>2. stack' = [stack EXCEPT ![w] = Append(s, e)]
      BY <2>3, <2>5
    <3> QED BY <1>0, <2>2, <2>5, <2>y, <2>h, <3>1, <3>2, PushStack
  <2>9. PICK z : z = <<w, 0 + 1>>
    OBVIOUS
  <2>10. FrameDone(h) /\ FrameOK(h) /\ h.job = NoJob
    BY <1>0, <2>y, <2>h, FrameProgress, FramesOK
  <2>11. h.at \notin {"notify", "task"}
    BY <2>10 DEF FrameOK, Waits, Ends
  <2> QED BY <1>0, <1>2, <2>1, <2>3, <2>y, <2>h, <2>8, <2>9, <2>10, <2>11, TakeKeeps
<1> QED BY <1>1, <1>2

-----------------------------------------------------------------------------
(* Submitting a job                                                        *)

(* The frame that submits: its job comes from its own list and belongs to  *)
(* the batch it will wait for.                                             *)
LEMMA SubmitFrame ==
    ASSUME IndInv, NEW t \in Threads, Submit(t)
    PROVE  \E f \in FrameSet, n \in Nat \ {0}, j \in Jobs, g \in FrameSet :
              /\ f = Top(t) /\ n = Len(stack[t]) /\ stack[t] # <<>> /\ f.at = "submit"
              /\ <<t, n>> \in Frames /\ FrameOf(<<t, n>>) = f
              /\ f.job = NoJob <=> t = Caller /\ n = 1
              /\ f.todo # <<>> /\ j = Head(f.todo) /\ JobOK(j) /\ j.batch = f.batch
              /\ g = [f EXCEPT !.todo = Tail(@)] /\ FrameOK(g)
              /\ g.job = f.job /\ g.batch = f.batch /\ g.at = "submit" /\ g.todo = Tail(f.todo)
              /\ f.job = NoJob => f.batch = Outer
              /\ f.job # NoJob => f.job.batch = Outer /\ f.job.name \in Sectioned /\ f.batch = f.job.name
<1>1. PICK f \in FrameSet, n \in Nat \ {0} :
              /\ f = Top(t) /\ n = Len(stack[t]) /\ stack[t] # <<>> /\ f.at = "submit"
              /\ FrameOK(f)
              /\ <<t, n>> \in Frames /\ FrameOf(<<t, n>>) = f
              /\ f.job = NoJob <=> t = Caller /\ n = 1
  <2>1. At(t, "submit")
    BY DEF Submit
  <2> QED BY <2>1, InFrame
<1>2. f.todo # <<>>
  BY <1>1 DEF Submit
<1>3. PICK g, j : g = [f EXCEPT !.todo = Tail(@)] /\ j = Head(f.todo)
  OBVIOUS
<1>4. /\ g \in FrameSet
      /\ g.job = f.job /\ g.batch = f.batch /\ g.at = f.at
      /\ Len(g.todo) = Len(f.todo) - 1 /\ Len(f.todo) >= 1
      /\ \A k \in 1..Len(g.todo) : g.todo[k] = f.todo[k + 1] /\ k + 1 \in 1..Len(f.todo)
      /\ j = f.todo[1] /\ j \in Jobs
  BY <1>2, <1>3, FrameSubmits
<1>5. g.todo = Tail(f.todo)
  BY <1>3 DEF FrameSet
<1>6. Len(f.todo) \in Nat /\ 1 \in 1..Len(f.todo)
  BY <1>4, FrameType
<1>7. JobOK(j) /\ j.batch = f.batch
  BY <1>1, <1>4, <1>6 DEF FrameOK
<1>8. /\ f.job = NoJob => f.batch = Outer
      /\ f.job # NoJob => f.job.batch = Outer /\ f.job.name \in Sectioned /\ f.batch = f.job.name
  BY <1>1 DEF FrameOK
<1>9. FrameOK(g)
  <2>1. \A k \in 1..Len(g.todo) : g.todo[k].batch = g.batch /\ JobOK(g.todo[k])
    BY <1>1, <1>4 DEF FrameOK
  <2> QED BY <1>1, <1>4, <2>1 DEF FrameOK, Waits
<1> QED BY <1>1, <1>2, <1>3, <1>4, <1>5, <1>7, <1>8, <1>9

(* The list the job came from.                                             *)
LEMMA SubmitTodo ==
    ASSUME StackOK, TodoOnce, NEW y \in Frames, NEW f \in FrameSet, NEW g, NEW j,
           f = FrameOf(y), g = FrameOf(y)', f.todo # <<>>, j = Head(f.todo), g.todo = Tail(f.todo),
           \A x \in Frames : x # y => FrameOf(x)' = FrameOf(x)
    PROVE  /\ TodoOnce'
           /\ f.job = NoJob => j.name \in TodoNames /\ TodoNames' = TodoNames \ {j.name}
           /\ f.job # NoJob => TodoNames' = TodoNames
<1>0. <<Caller, 1>> \in Frames /\ (f.job = NoJob <=> y = <<Caller, 1>>)
  BY FramesOK
<1>1. Todo = FrameOf(<<Caller, 1>>).todo /\ Todo' = FrameOf(<<Caller, 1>>)'.todo
  BY DEF Todo, FrameOf, FrameAt
<1>2. CASE f.job = NoJob
  <2>1. Todo = f.todo /\ Todo' = Tail(f.todo)
    BY <1>0, <1>1, <1>2
  <2>2. Todo \in Seq(Jobs) /\ Todo # <<>> /\ Todo' = Tail(Todo) /\ j = Head(Todo)
    BY <2>1, FrameType
  <2> QED BY <1>2, <2>2, TodoGivesName
<1>3. CASE f.job # NoJob
  <2>1. Todo' = Todo
    BY <1>0, <1>1, <1>3
  <2> QED BY <1>3, <2>1 DEF TodoNames, TodoOnce
<1> QED BY <1>2, <1>3

(* The submitting frame has not started to wait for what it counts.        *)
LEMMA SubmitProgress ==
    ASSUME NEW f, NEW g, NEW j, g.job = f.job, g.at = "submit",
           f.job # NoJob => f.job.batch = Outer /\ f.job.name \in Sectioned /\ j.batch = f.job.name,
           remaining'[j.batch] # 0
    PROVE  FrameDone(g)'
BY DEF FrameDone, Ends

LEMMA SubmitQueued ==
    ASSUME IndInv, NEW t \in Threads, Submit(t), Len(queue) # QueueCapacity
    PROVE  IndInv'
<1>0. /\ TypeOK /\ StackOK /\ QueueOK /\ CountOK /\ WaitersOK /\ TasksOK /\ WritersOK /\ ProgressOK
      /\ OnceOK /\ PendingOK /\ UNCHANGED <<exited, stopping, next, ran, taken>>
  BY DEF IndInv, Submit
<1>1. PICK f \in FrameSet, n \in Nat \ {0}, j \in Jobs, g \in FrameSet :
              /\ f = Top(t) /\ n = Len(stack[t]) /\ stack[t] # <<>> /\ f.at = "submit"
              /\ <<t, n>> \in Frames /\ FrameOf(<<t, n>>) = f
              /\ f.job = NoJob <=> t = Caller /\ n = 1
              /\ f.todo # <<>> /\ j = Head(f.todo) /\ JobOK(j) /\ j.batch = f.batch
              /\ g = [f EXCEPT !.todo = Tail(@)] /\ FrameOK(g)
              /\ g.job = f.job /\ g.batch = f.batch /\ g.at = "submit" /\ g.todo = Tail(f.todo)
              /\ f.job = NoJob => f.batch = Outer
              /\ f.job # NoJob => f.job.batch = Outer /\ f.job.name \in Sectioned /\ f.batch = f.job.name
  BY SubmitFrame
<1>2. PICK y \in Frames, b \in Batches : y = <<t, n>> /\ b = j.batch
  BY <1>1, JobType
<1>3. /\ remaining' = [remaining EXCEPT ![b] = @ + 1]
      /\ queue' = Append(queue, j)
      /\ stack' = [stack EXCEPT ![t] = Moved(t, g)]
      /\ parked' \subseteq parked
  BY <1>1, <1>2 DEF Submit
<1>4. /\ remaining' \in [Batches -> Nat] /\ remaining'[b] = remaining[b] + 1 /\ remaining'[b] # 0
      /\ \A c \in Batches : c # b => remaining'[c] = remaining[c]
      /\ \A c \in Batches : remaining'[c] = 0 => remaining[c] = 0
      /\ remaining \in [Batches -> Nat]
  BY <1>0, <1>3 DEF TypeOK
<1>5. StackOK' /\ Moves(y, g)
  BY <1>0, <1>1, <1>2, <1>3, MoveStack
<1>6. Others(y)
  BY <1>5, MoveOthers
<1>7. /\ queue' \in Seq(Jobs) /\ Len(queue') = Len(queue) + 1 /\ Len(queue) \in Nat
      /\ queue'[Len(queue) + 1] = j /\ \A k \in 1..Len(queue) : queue'[k] = queue[k]
  BY <1>0, <1>3 DEF TypeOK
<1>8. TypeOK'
  <2>1. Len(queue') <= QueueCapacity
    BY <1>0, <1>7, ExecutorAssumption DEF TypeOK
  <2> QED BY <1>0, <1>3, <1>4, <1>5, <1>7, <2>1 DEF TypeOK, StackOK
<1>9. QueueOK'
  <2> SUFFICES ASSUME NEW k \in 1..Len(queue') PROVE JobOK(queue'[k])
    BY DEF QueueOK, JobOK
  <2>1. k \in 1..Len(queue) \/ k = Len(queue) + 1
    BY <1>7
  <2> QED BY <1>0, <1>1, <1>7, <2>1 DEF QueueOK
<1>10. CountOK'
  <2> SUFFICES ASSUME NEW c \in Batches
               PROVE  /\ IsFiniteSet(Live(c))'
                      /\ remaining'[c] = Cardinality(Queued(c))' + Cardinality(Live(c))'
    BY DEF CountOK
  <2>1. y \in Live(c) <=> y \in Live(c)'
    BY <1>1, <1>2, <1>5 DEF Live, Moves
  <2>2. IsFiniteSet(Live(c))' /\ Cardinality(Live(c)) \in Nat /\ Cardinality(Live(c))' = Cardinality(Live(c))
    BY <1>0, <1>6, <2>1, LiveChange
  <2>3. /\ Cardinality(Queued(c)) \in Nat
        /\ Cardinality(Queued(c))' = Cardinality(Queued(c)) + (IF b = c THEN 1 ELSE 0)
    BY <1>0, <1>2, <1>3, QueueGrows
  <2>4. remaining[c] = Cardinality(Queued(c)) + Cardinality(Live(c))
    BY <1>0 DEF CountOK
  <2> QED BY <1>4, <2>2, <2>3, <2>4
<1>11. WaitersOK'
  <2>1. Waiter(b)'
    <3>1. y \in Frames' /\ FrameOf(y)'.batch = b /\ FrameOf(y)'.at \in Waits
      BY <1>1, <1>2, <1>5 DEF Moves, Waits
    <3> QED BY <3>1 DEF Waiter
  <2>2. \A c \in Batches : remaining'[c] # 0 => remaining[c] # 0 \/ Waiter(c)'
    BY <1>4, <2>1
  <2>3. \A x \in Frames : FrameOf(x).at \in Waits =>
           /\ x \in Frames' /\ FrameOf(x)'.at \in Waits
           /\ FrameOf(x)'.batch = FrameOf(x).batch
    BY <1>1, <1>2, <1>5 DEF Moves, Waits
  <2> QED BY <1>0, <2>2, <2>3, WaitersKept
<1>12. TasksOK' /\ WritersOK'
  <2>1. FrameOf(y).at # "task"
    BY <1>1, <1>2
  <2> QED BY <1>0, <1>5, <2>1, TasksKept, MoveWriters
<1>13. ProgressOK'
  <2>1. FrameDone(g)'
    <3>1. /\ g.job = f.job /\ g.at = "submit" /\ remaining'[j.batch] # 0
          /\ f.job # NoJob => f.job.batch = Outer /\ f.job.name \in Sectioned /\ j.batch = f.job.name
      BY <1>1, <1>2, <1>4
    <3> QED BY <3>1, SubmitProgress
  <2>2. \A x \in Frames' : \A h \in {FrameOf(x)'} : (x \in Frames /\ h = FrameOf(x)) \/ FrameDone(h)'
    BY <1>5, <2>1 DEF Moves
  <2>3. \A a \in Sectioned : remaining'[a] = 0 => remaining[a] = 0 \/ next[a] > TaskCount
    BY <1>4, NamesFacts
  <2> QED BY <1>0, <2>2, <2>3, ProgressKept
<1>14. /\ TodoOnce'
       /\ f.job = NoJob => j.name \in TodoNames /\ TodoNames' = TodoNames \ {j.name}
       /\ f.job # NoJob => TodoNames' = TodoNames
  <2>1. /\ f = FrameOf(y) /\ g = FrameOf(y)' /\ TodoOnce
        /\ \A x \in Frames : x # y => FrameOf(x)' = FrameOf(x)
    BY <1>0, <1>1, <1>2, <1>5 DEF OnceOK, Moves
  <2>2. f.todo # <<>> /\ j = Head(f.todo) /\ g.todo = Tail(f.todo)
    BY <1>1
  <2> QED BY <1>0, <2>1, <2>2, SubmitTodo
<1>15. j.batch = Outer <=> f.job = NoJob
  BY <1>1, NamesFacts
<1>16. /\ QueueOnce'
       /\ QueueNames' = IF j.batch = Outer THEN QueueNames \cup {j.name} ELSE QueueNames
  <2>1. j.batch = Outer => j.name \notin QueueNames
    BY <1>0, <1>14, <1>15 DEF OnceOK
  <2> QED BY <1>0, <1>3, <2>1, QueueGetsName DEF OnceOK
<1>17. RunningNames' = RunningNames /\ RunOnce'
  BY <1>0, <1>1, <1>2, <1>5, <1>6, RunSame DEF OnceOK, Moves
<1>18. OnceOK' /\ PendingOK'
  <2>1. PICK a : a = j.name
    OBVIOUS
  <2>2. CASE f.job = NoJob
    BY <1>0, <1>14, <1>15, <1>16, <1>17, <2>1, <2>2, NamesStep
  <2>3. CASE f.job # NoJob
    BY <1>0, <1>14, <1>15, <1>16, <1>17, <2>3, NamesStep
  <2> QED BY <2>2, <2>3
<1> QED BY <1>5, <1>8, <1>9, <1>10, <1>11, <1>12, <1>13, <1>18 DEF IndInv

LEMMA SubmitFull ==
    ASSUME IndInv, NEW t \in Threads, Submit(t), Len(queue) = QueueCapacity
    PROVE  IndInv'
<1>0. /\ TypeOK /\ StackOK /\ QueueOK /\ CountOK /\ WaitersOK /\ TasksOK /\ WritersOK /\ ProgressOK
      /\ OnceOK /\ PendingOK /\ UNCHANGED <<queue, parked, exited, stopping, next, ran, taken>>
  BY DEF IndInv, Submit
<1>1. PICK f \in FrameSet, n \in Nat \ {0}, j \in Jobs, g \in FrameSet :
              /\ f = Top(t) /\ n = Len(stack[t]) /\ stack[t] # <<>> /\ f.at = "submit"
              /\ <<t, n>> \in Frames /\ FrameOf(<<t, n>>) = f
              /\ f.job = NoJob <=> t = Caller /\ n = 1
              /\ f.todo # <<>> /\ j = Head(f.todo) /\ JobOK(j) /\ j.batch = f.batch
              /\ g = [f EXCEPT !.todo = Tail(@)] /\ FrameOK(g)
              /\ g.job = f.job /\ g.batch = f.batch /\ g.at = "submit" /\ g.todo = Tail(f.todo)
              /\ f.job = NoJob => f.batch = Outer
              /\ f.job # NoJob => f.job.batch = Outer /\ f.job.name \in Sectioned /\ f.batch = f.job.name
  BY SubmitFrame
<1>2. PICK y \in Frames, b \in Batches : y = <<t, n>> /\ b = j.batch
  BY <1>1, JobType
<1>3. PICK e, s, z : e = Entry(j) /\ s = Moved(t, g) /\ z = <<t, n + 1>>
  OBVIOUS
<1>4. /\ remaining' = [remaining EXCEPT ![b] = @ + 1]
      /\ stack' = [stack EXCEPT ![t] = Append(s, e)]
  BY <1>1, <1>2, <1>3 DEF Submit
<1>5. /\ remaining' \in [Batches -> Nat] /\ remaining'[b] = remaining[b] + 1 /\ remaining'[b] # 0
      /\ \A c \in Batches : c # b => remaining'[c] = remaining[c]
      /\ \A c \in Batches : remaining'[c] = 0 => remaining[c] = 0
      /\ remaining \in [Batches -> Nat]
  BY <1>0, <1>4 DEF TypeOK
<1>6. e \in FrameSet /\ FrameOK(e) /\ e.job = j /\ e.job # NoJob /\ e.at # "notify"
  BY <1>1, <1>3, EntryLive
<1>7. StackOK' /\ NewFrame(y, g, z, e)
  <2>1. stack[t] \in Seq(FrameSet)
    BY <1>0 DEF StackOK
  <2>2. /\ s \in Seq(FrameSet) /\ Len(s) = n
        /\ \A i \in 1..n : s[i] = IF i = n THEN g ELSE stack[t][i]
    BY <1>1, <1>3, <2>1 DEF Moved
  <2>3. ASSUME NEW i \in 1..n
        PROVE  /\ s[i] = IF <<t, i>> = y THEN g ELSE stack[t][i]
               /\ FrameOK(s[i])
               /\ s[i].job = stack[t][i].job
               /\ s[i].at \in {"submit", "load"}
    <3>1. i # n => FrameOK(stack[t][i]) /\ stack[t][i].at \in {"submit", "load"}
      BY <1>0, <1>1 DEF StackOK
    <3>2. stack[t][n] = f
      BY <1>1 DEF Top
    <3>3. s[i] = IF i = n THEN g ELSE stack[t][i]
      BY <2>2
    <3>4. CASE i = n
      BY <1>1, <1>2, <3>2, <3>3, <3>4
    <3>5. CASE i # n
      BY <1>2, <3>1, <3>3, <3>5
    <3> QED BY <3>4, <3>5
  <2>4. y[1] = t /\ n = Len(stack[t])
    BY <1>1, <1>2
  <2>5. \A i \in 1..n : /\ s[i] = IF <<t, i>> = y THEN g ELSE stack[t][i]
                        /\ FrameOK(s[i])
                        /\ s[i].job = stack[t][i].job
                        /\ s[i].at \in {"submit", "load"}
    BY <2>3
  <2>6. s \in Seq(FrameSet) /\ Len(s) = n
    BY <2>2
  <2>7. StackOK' /\ NewFrame(y, g, <<t, n + 1>>, e)
    BY <1>0, <1>4, <1>6, <2>4, <2>5, <2>6, PushStack
  <2> QED BY <1>3, <2>7
<1>8. FrameOf(y) = f /\ FrameOf(y)' = g
  BY <1>1, <1>2, <1>7 DEF NewFrame
<1>9. Others(z)
  <2>1. g.job = FrameOf(y).job /\ g.at # "notify" /\ FrameOf(y).at # "notify"
    BY <1>1, <1>8
  <2> QED BY <1>7, <2>1, NewOthers
<1>10. TypeOK'
  BY <1>0, <1>5, <1>7 DEF TypeOK, StackOK
<1>11. QueueOK' /\ TasksOK' /\ WritersOK'
  <2>1. FrameOf(y).at # "task"
    BY <1>1, <1>8
  <2> QED BY <1>0, <1>7, <2>1, TasksKept, NewWriters DEF QueueOK
<1>12. CountOK'
  <2> SUFFICES ASSUME NEW c \in Batches
               PROVE  /\ IsFiniteSet(Live(c))'
                      /\ remaining'[c] = Cardinality(Queued(c))' + Cardinality(Live(c))'
    BY DEF CountOK
  <2>1. z \notin Live(c) /\ (z \in Live(c)' <=> b = c)
    BY <1>2, <1>6, <1>7 DEF Live, NewFrame
  <2>2. /\ IsFiniteSet(Live(c))' /\ Cardinality(Live(c)) \in Nat
        /\ Cardinality(Live(c))' = IF b = c THEN Cardinality(Live(c)) + 1 ELSE Cardinality(Live(c))
    BY <1>0, <1>9, <2>1, LiveChange
  <2>3. Cardinality(Queued(c)) \in Nat /\ Cardinality(Queued(c))' = Cardinality(Queued(c))
    BY <1>0, QueuedCount DEF Queued
  <2>4. remaining[c] = Cardinality(Queued(c)) + Cardinality(Live(c))
    BY <1>0 DEF CountOK
  <2> QED BY <1>5, <2>2, <2>3, <2>4
<1>13. WaitersOK'
  <2>1. Waiter(b)'
    <3>1. y \in Frames' /\ FrameOf(y)'.batch = b /\ FrameOf(y)'.at \in Waits
      BY <1>1, <1>2, <1>7 DEF NewFrame, Waits
    <3> QED BY <3>1 DEF Waiter
  <2>2. \A c \in Batches : remaining'[c] # 0 => remaining[c] # 0 \/ Waiter(c)'
    BY <1>5, <2>1
  <2>3. \A x \in Frames : FrameOf(x).at \in Waits =>
           /\ x \in Frames' /\ FrameOf(x)'.at \in Waits
           /\ FrameOf(x)'.batch = FrameOf(x).batch
    BY <1>1, <1>7, <1>8 DEF NewFrame, Waits
  <2> QED BY <1>0, <2>2, <2>3, WaitersKept
<1>14. /\ TodoOnce'
       /\ f.job = NoJob => j.name \in TodoNames /\ TodoNames' = TodoNames \ {j.name}
       /\ f.job # NoJob => TodoNames' = TodoNames
  <2>1. TodoOnce /\ \A x \in Frames : x # y => FrameOf(x)' = FrameOf(x)
    BY <1>0, <1>7 DEF OnceOK, NewFrame
  <2>2. f.todo # <<>> /\ j = Head(f.todo) /\ g.todo = Tail(f.todo)
    BY <1>1
  <2> QED BY <1>0, <1>8, <2>1, <2>2, SubmitTodo
<1>15. j.batch = Outer <=> f.job = NoJob
  BY <1>1, NamesFacts
<1>16. ProgressOK'
  <2>1. FrameDone(g)'
    <3>1. /\ g.job = f.job /\ g.at = "submit" /\ remaining'[j.batch] # 0
          /\ f.job # NoJob => f.job.batch = Outer /\ f.job.name \in Sectioned /\ j.batch = f.job.name
      BY <1>1, <1>2, <1>5
    <3> QED BY <3>1, SubmitProgress
  <2>2. FrameDone(e)
    <3>1. j.batch = Outer /\ j.name \notin Sectioned => ran[j.name][1] = 0
      BY <1>0, <1>14, <1>15 DEF PendingOK
    <3> QED BY <1>1, <1>3, <3>1, EntryDone
  <2>3. \A a \in Sectioned : remaining'[a] = 0 => remaining[a] = 0 \/ next[a] > TaskCount
    BY <1>5, NamesFacts
  <2>4. FrameDone(e)'
    BY <1>0, <2>2, <2>3, DoneKept
  <2>5. \A x \in Frames' : \A h \in {FrameOf(x)'} : (x \in Frames /\ h = FrameOf(x)) \/ FrameDone(h)'
    BY <1>7, <2>1, <2>4 DEF NewFrame
  <2> QED BY <1>0, <2>3, <2>5, ProgressKept
<1>17. QueueNames' = QueueNames /\ QueueOnce'
  BY <1>0 DEF QueueNames, QueueOnce, OnceOK, Queued
<1>18. /\ RunOnce'
       /\ RunningNames' = IF j.batch = Outer THEN RunningNames \cup {j.name} ELSE RunningNames
  <2>1. j.batch = Outer => j.name \notin RunningNames
    BY <1>0, <1>14, <1>15 DEF OnceOK
  <2>2. z \notin Frames /\ z \in Frames' /\ FrameOf(z)'.job = j /\ RunOnce
    BY <1>0, <1>6, <1>7 DEF NewFrame, OnceOK
  <2> QED BY <1>9, <2>1, <2>2, RunStarts
<1>19. OnceOK' /\ PendingOK'
  <2>1. PICK a : a = j.name
    OBVIOUS
  <2>2. CASE f.job = NoJob
    BY <1>0, <1>14, <1>15, <1>17, <1>18, <2>1, <2>2, NamesStep
  <2>3. CASE f.job # NoJob
    BY <1>0, <1>14, <1>15, <1>17, <1>18, <2>3, NamesStep
  <2> QED BY <2>2, <2>3
<1> QED BY <1>7, <1>10, <1>11, <1>12, <1>13, <1>16, <1>19 DEF IndInv

-----------------------------------------------------------------------------
(* The invariant                                                           *)

LEMMA InitInv == Init => IndInv
<1> SUFFICES ASSUME Init PROVE IndInv
  OBVIOUS
<1>0. /\ Caller \in Threads /\ Artifacts \in Seq(Names)
      /\ \A i \in DOMAIN Artifacts : Artifacts[i] \in Names
      /\ DOMAIN Artifacts = 1..Len(Artifacts) /\ Len(Artifacts) \in Nat
  BY NamesFacts, ExecutorAssumption
<1>1. PICK todo : todo = [i \in DOMAIN Artifacts |-> [batch |-> Outer, name |-> Artifacts[i]]]
  OBVIOUS
<1>2. \A a \in Names : [batch |-> Outer, name |-> a] \in Jobs
  BY OuterJob
<1>3. /\ todo \in Seq(Jobs) /\ Len(todo) = Len(Artifacts)
      /\ \A k \in 1..Len(Artifacts) : todo[k] = [batch |-> Outer, name |-> Artifacts[k]]
  BY <1>0, <1>1, <1>2
<1>4. CommitFrame = [job |-> NoJob, batch |-> Outer, at |-> "submit", todo |-> todo, saw |-> 0]
  BY <1>1 DEF CommitFrame, Frame
<1>5. CommitFrame \in FrameSet
  BY <1>3, <1>4, NamesFacts DEF FrameSet, PCs, Waits
<1>6. FrameOK(CommitFrame)
  <2>1. ASSUME NEW k \in 1..Len(todo) PROVE todo[k].batch = Outer /\ JobOK(todo[k])
    <3>1. todo[k] = [batch |-> Outer, name |-> Artifacts[k]]
      BY <1>3
    <3> QED BY <3>1 DEF JobOK
  <2> QED BY <1>4, <2>1 DEF FrameOK, Waits
<1>7. PICK c \in FrameSet : c = CommitFrame
  BY <1>5
<1>8. /\ stack = [t \in Threads |-> IF t = Caller THEN <<c>> ELSE <<>>]
  BY <1>7 DEF Init
<1>9. /\ stack \in [Threads -> Seq(FrameSet)]
      /\ stack[Caller] = <<c>> /\ \A t \in Threads : t # Caller => stack[t] = <<>>
  BY <1>0, <1>8
<1>10. StackOK
  <2>1. Len(stack[Caller]) = 1 /\ stack[Caller][1] = c
    BY <1>9
  <2>2. \A t \in Threads : t # Caller => Len(stack[t]) = 0
    BY <1>9
  <2>3. FrameOK(c) /\ c.job = NoJob
    BY <1>4, <1>6, <1>7
  <2>4. ASSUME NEW t \in Threads, NEW i \in 1..Len(stack[t])
        PROVE  /\ FrameOK(stack[t][i])
               /\ stack[t][i].job = NoJob <=> t = Caller /\ i = 1
               /\ i < Len(stack[t]) => stack[t][i].at \in {"submit", "load"}
    <3>1. t = Caller
      BY <2>2
    <3>2. i \in 1..1
      BY <2>1, <3>1
    <3>3. i = 1
      BY <3>2
    <3>4. stack[t][i] = c /\ ~(i < Len(stack[t]))
      <4>1. stack[t] = stack[Caller] /\ ~(1 < 1)
        BY <3>1
      <4>2. stack[Caller][i] = c /\ ~(i < Len(stack[Caller]))
        BY <2>1, <3>3, <4>1
      <4> QED BY <4>1, <4>2
    <3> QED BY <2>3, <3>1, <3>3, <3>4
  <2> QED BY <1>9, <2>1, <2>4 DEF StackOK
<1>11. \A x \in Frames : x = <<Caller, 1>>
  <2> SUFFICES ASSUME NEW x \in Frames PROVE x = <<Caller, 1>>
    OBVIOUS
  <2>1. PICK t \in Threads : \E i \in 1..Len(stack[t]) : x = <<t, i>>
    BY <1>10, FramesHas
  <2>2. PICK i \in 1..Len(stack[t]) : x = <<t, i>>
    BY <2>1
  <2>3. t = Caller
    BY <1>9
  <2>4. Len(stack[Caller]) = 1
    BY <1>9
  <2>5. i \in 1..1
    BY <2>3, <2>4
  <2> QED BY <2>2, <2>3, <2>5
<1>12. /\ FrameOf(<<Caller, 1>>) = c /\ Todo = todo /\ c.job = NoJob /\ c.at = "submit"
       /\ c.job.batch = "none"
  BY <1>4, <1>7, <1>9 DEF FrameOf, FrameAt, Todo, NoJob
<1>13. queue = <<>> /\ Len(queue) = 0 /\ \A b : Queued(b) = {}
  BY DEF Init, Queued
<1>14. TypeOK
  <2>1. remaining \in [Batches -> Nat] /\ next \in [Sectioned -> Nat] /\ parked \subseteq Workers
        /\ exited \subseteq Workers /\ stopping \in BOOLEAN
    BY DEF Init
  <2>4. taken \in [Threads -> {NoTask} \cup (Sectioned \X (1..TaskCount))]
    BY DEF Init
  <2>2. DOMAIN ran = Names /\ \A a \in Names : ran[a] \in [Tasks(a) -> Nat]
    BY DEF Init
  <2>3. queue \in Seq(Jobs) /\ Len(queue) <= QueueCapacity
    BY <1>13, ExecutorAssumption
  <2> QED BY <1>9, <2>1, <2>2, <2>3, <2>4 DEF TypeOK
<1>15. QueueOK
  BY <1>13 DEF QueueOK
<1>16. CountOK /\ WaitersOK
  <2>1. \A b \in Batches : remaining[b] = 0
    BY DEF Init
  <2>2. \A b \in Batches : Live(b) = {}
    BY <1>11, <1>12, NamesFacts DEF Live
  <2>3. IsFiniteSet({}) /\ Cardinality({}) = 0
    BY FS_EmptySet
  <2>4. ASSUME NEW b \in Batches
        PROVE  IsFiniteSet(Live(b)) /\ remaining[b] = Cardinality(Queued(b)) + Cardinality(Live(b))
    <3>1. Live(b) = {} /\ Queued(b) = {} /\ remaining[b] = 0
      BY <1>13, <2>1, <2>2
    <3> QED BY <2>3, <3>1
  <2> QED BY <2>1, <2>4 DEF CountOK, WaitersOK
<1>17. TasksOK /\ WritersOK
  <2>1. ASSUME NEW a \in Sectioned
        PROVE  next[a] = 1 /\ \A k \in 1..TaskCount : ran[a][k] = 0 /\ ~(k < 1)
    BY NamesFacts, ExecutorAssumption DEF Init, Tasks
  <2>2. \A t \in Threads : taken[t] = NoTask
    BY DEF Init
  <2>3. \A a, k : ~InHand(a, k)
    <3>1. \A a, k : <<a, k>> # NoTask
      BY DEF NoTask
    <3> QED BY <2>2, <3>1 DEF InHand
  <2> QED BY <2>1, <2>2, <2>3 DEF TasksOK, WritersOK
<1>18. ProgressOK
  BY <1>11, <1>12 DEF ProgressOK, FrameDone, Ends
<1>19. ASSUME NEW k \in 1..Len(todo) PROVE todo[k].name = Artifacts[k] /\ k \in DOMAIN Artifacts
  <2>1. k \in DOMAIN Artifacts /\ todo[k] = [batch |-> Outer, name |-> Artifacts[k]]
    BY <1>0, <1>3
  <2> QED BY <2>1
<1>20. 1..Len(todo) = DOMAIN Artifacts
  BY <1>0, <1>3
<1>21. QueueNames = {} /\ RunningNames = {} /\ TodoNames = Names
  <2>1. QueueNames = {}
    BY <1>13 DEF QueueNames
  <2>2. RunningNames = {}
    BY <1>11, <1>12 DEF RunningNames, Outer
  <2>3. TodoNames = Names
    <3>1. TodoNames = {todo[k].name : k \in DOMAIN Artifacts}
      BY <1>12, <1>20 DEF TodoNames
    <3> QED BY <1>19, <1>20, <3>1 DEF Names
  <2> QED BY <2>1, <2>2, <2>3
<1>22. OnceOK
  <2>1. TodoOnce
    <3>1. \A j, k \in 1..Len(todo) : todo[j].name = todo[k].name => j = k
      BY <1>19, ExecutorAssumption
    <3> QED BY <1>12, <3>1 DEF TodoOnce
  <2>2. QueueOnce
    BY <1>13 DEF QueueOnce
  <2>3. RunOnce
    BY <1>11 DEF RunOnce
  <2> QED BY <1>21, <2>1, <2>2, <2>3 DEF OnceOK
<1>23. PendingOK
  <2>1. \A a \in Names : a \notin Sectioned => ran[a][1] = 0
    BY DEF Init, Tasks
  <2> QED BY <1>21, <2>1 DEF PendingOK
<1> QED BY <1>10, <1>14, <1>15, <1>16, <1>17, <1>18, <1>22, <1>23 DEF IndInv

LEMMA StepInv == IndInv /\ [Next]_vars => IndInv'
<1> SUFFICES ASSUME IndInv, [Next]_vars PROVE IndInv'
  OBVIOUS
<1>0. parked \subseteq Workers /\ exited \subseteq Workers /\ stopping \in BOOLEAN
  BY DEF IndInv, TypeOK
<1>1. CASE UNCHANGED vars
  BY <1>0, <1>1, IdleKeeps DEF vars
<1>2. CASE Committed
  BY <1>0, <1>2, IdleKeeps DEF Committed, vars
<1>3. ASSUME NEW t \in Threads, ThreadStep(t) PROVE IndInv'
  <2>1. CASE Submit(t)
    BY <2>1, SubmitQueued, SubmitFull
  <2>2. CASE SubmitDone(t)
    BY <2>2, SubmitDoneStep
  <2>3. CASE WaitLoad(t)
    BY <2>3, WaitLoadStep
  <2>4. CASE WaitTake(t)
    BY <2>4, WaitTakeStep
  <2>5. CASE WaitReload(t)
    BY <2>5, WaitReloadStep
  <2>6. CASE WaitBlock(t)
    BY <2>6, WaitBlockStep
  <2>7. CASE RunTask(t)
    BY <2>7, RunPlain, RunCopy
  <2>12. CASE WriteTask(t)
    BY <2>12, WriteStep
  <2>8. CASE Finish(t)
    BY <2>8, FinishStep
  <2>9. CASE Notify(t)
    BY <2>9, NotifyStep
  <2>10. CASE t \in Workers /\ WorkerLoop(t)
    BY <2>10, WorkerLoopStep
  <2>11. CASE t = Caller /\ (Stop \/ Join)
    BY <2>11, StopStep, JoinStep
  <2> QED BY <1>3, <2>1, <2>2, <2>3, <2>4, <2>5, <2>6, <2>7, <2>8, <2>9, <2>10, <2>11, <2>12 DEF ThreadStep
<1> QED BY <1>1, <1>2, <1>3 DEF Next

(* The invariant holds in every behaviour of the executor.                 *)
THEOREM Inductive == Spec => []IndInv
BY InitInv, StepInv, PTL DEF Spec

(* Every variable keeps its type, and the ring never holds more than it    *)
(* has room for.                                                           *)
THEOREM TypeCorrect == Spec => []TypeOK
<1>1. IndInv => TypeOK
  BY DEF IndInv
<1> QED BY <1>1, Inductive, PTL

(* When wait returns, everything its batch stands for has been written,    *)
(* and once, whichever threads helped and however many copies raced.       *)
THEOREM WaitsComplete == Spec => []WaitMeansDone
<1>1. ASSUME IndInv PROVE WaitMeansDone
  <2>0. TypeOK /\ StackOK /\ TasksOK /\ ProgressOK
    BY <1>1 DEF IndInv
  <2>1. ASSUME NEW a \in Names, NEW x \in Frames,
               FrameAt(x[1], x[2]).job = [batch |-> Outer, name |-> a],
               FrameAt(x[1], x[2]).at \in {"finish", "notify"}
        PROVE  \A k \in Tasks(a) : ran[a][k] = 1
    <3>1. PICK f : f = FrameOf(x)
      OBVIOUS
    <3>2. f.job = [batch |-> Outer, name |-> a] /\ f.at \in {"finish", "notify"} /\ FrameDone(f)
      BY <2>0, <2>1, <3>1, FrameProgress DEF FrameOf
    <3>3. f.job \in Jobs /\ f.job.batch = Outer /\ f.job.name = a
      BY <3>2, OuterJob
    <3>4. Done(a)
      BY <3>2, <3>3, EndedDone
    <3> QED BY <3>4 DEF Done
  <2>2. ASSUME At(Caller, "stop")
        PROVE  \A a \in Names : \A k \in Tasks(a) : ran[a][k] = 1
    <3>1. Caller \in Threads
      BY NamesFacts
    <3>2. PICK f \in FrameSet, n \in Nat \ {0} : f.at = "stop" /\ FrameOK(f) /\ FrameDone(f)
      BY <1>1, <2>2, <3>1, InFrame
    <3>3. f.job = NoJob
      BY <3>2 DEF FrameOK, Waits
    <3> QED BY <3>2, <3>3 DEF FrameDone, Ends, Done
  <2> QED BY <2>1, <2>2 DEF WaitMeansDone
<1> QED BY <1>1, Inductive, PTL

(* A job runs only while the frame whose locals it captured is waiting.    *)
THEOREM FramesOutlive == Spec => []StackOutlivesJobs
<1>1. ASSUME IndInv PROVE StackOutlivesJobs
  <2>0. TypeOK /\ StackOK /\ CountOK /\ WaitersOK
    BY <1>1 DEF IndInv
  <2> SUFFICES ASSUME NEW x \in Frames, FrameOf(x).job # NoJob, FrameOf(x).at # "notify"
               PROVE  Waiter(FrameOf(x).job.batch)
    BY DEF StackOutlivesJobs, Waiter, FrameOf, Waits
  <2>1. PICK f, b : f = FrameOf(x) /\ b = f.job.batch
    OBVIOUS
  <2>2. f \in FrameSet /\ f.job # NoJob
    BY <2>0, <2>1, FramesOK
  <2>3. f.job \in Jobs
    BY <2>2, FrameType
  <2>4. b \in Batches
    BY <2>1, <2>3, JobType
  <2>5. x \in Live(b)
    BY <2>1 DEF Live
  <2>6. IsFiniteSet(Live(b)) /\ remaining[b] = Cardinality(Queued(b)) + Cardinality(Live(b))
    BY <2>0, <2>4 DEF CountOK
  <2>7. Cardinality(Live(b)) \in Nat /\ Cardinality(Live(b)) # 0
    BY <2>5, <2>6, FS_EmptySet, FS_CardinalityType
  <2>8. Cardinality(Queued(b)) \in Nat
    BY <2>0, QueuedCount
  <2>9. remaining[b] # 0
    BY <2>6, <2>7, <2>8
  <2> QED BY <2>0, <2>1, <2>4, <2>9 DEF WaitersOK
<1> QED BY <1>1, Inductive, PTL
=============================================================================
