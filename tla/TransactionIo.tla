---------------------------- MODULE TransactionIo ----------------------------
(***************************************************************************)
(* transaction_io_executor: the thread pool of one commit.  The caller     *)
(* submits one job per artifact and waits; the job of a sectioned artifact *)
(* submits, from whichever thread runs it, copies of a worker function     *)
(* that share a task counter, and waits for them.  A waiting thread helps: *)
(* it runs queued jobs of any batch on top of its own stack.               *)
(*                                                                         *)
(* Batches, counters and jobs' captured state live on the stack of the     *)
(* thread that submitted them.                                             *)
(***************************************************************************)
EXTENDS Naturals, Sequences, FiniteSets

CONSTANTS Caller,         \* the thread that runs commit
          Workers,        \* pool threads the constructor tries to launch
          Artifacts,      \* the jobs of the outer batch, in submission order
          Sectioned,      \* artifacts written by sections
          TaskCount,      \* files of a sectioned artifact still to be written
          Copies,         \* worker copies submitted for a sectioned artifact
          QueueCapacity   \* jobs the ring holds (128 in the code)

Threads == {Caller} \cup Workers
Names   == {Artifacts[i] : i \in DOMAIN Artifacts}
Outer   == "outer"                      \* the batch of run()
Batches == {Outer} \cup Sectioned       \* one batch per sectioned artifact

ASSUME ExecutorAssumption ==
    /\ IsFiniteSet(Workers)
    /\ Caller \notin Workers
    /\ Artifacts \in Seq(Names)
    /\ \A i, j \in DOMAIN Artifacts : Artifacts[i] = Artifacts[j] => i = j
    /\ Outer \notin Names /\ "none" \notin Names
    /\ Sectioned \subseteq Names
    /\ TaskCount \in Nat \ {0}
    /\ Copies \in 1..TaskCount
    /\ QueueCapacity \in Nat \ {0}

VARIABLES queue,      \* the ring: jobs not yet taken
          remaining,  \* remaining[b]: transaction_io_batch::remaining
          stack,      \* stack[t]: the frames of a thread, the running one last
          parked,     \* pool threads blocked on queue_condition
          exited,     \* pool threads that have returned or were never launched
          stopping,   \* the destructor has begun
          next,       \* next[a]: the task counter of a sectioned artifact
          ran,        \* ran[a]: times each task of the artifact was run
          taken       \* taken[t]: the task a worker copy on thread t is writing

vars == <<queue, remaining, stack, parked, exited, stopping, next, ran, taken>>

(* A job of the outer batch writes an artifact; a job of an inner batch is *)
(* one copy of that artifact's worker function.                            *)
Jobs == [batch : {Outer}, name : Names] \cup [batch : Sectioned, name : Sectioned]

Tasks(a) == IF a \in Sectioned THEN 1..TaskCount ELSE {1}

(* A frame: the job it runs, the batch it waits for, where it is, the jobs *)
(* it has yet to submit and the counter it goes to sleep on.               *)
Frame(job, batch, at, todo) ==
    [job |-> job, batch |-> batch, at |-> at, todo |-> todo, saw |-> 0]

NoTask == <<>>
NoJob  == [batch |-> "none", name |-> "none"]

(* execute(job): what the invoked function starts with.                    *)
Entry(job) ==
    IF job.batch # Outer THEN Frame(job, "none", "task", <<>>)
    ELSE IF job.name \in Sectioned
         THEN Frame(job, job.name, "submit",
                    [i \in 1..Copies |-> [batch |-> job.name, name |-> job.name]])
         ELSE Frame(job, "none", "task", <<>>)

CommitFrame ==
    Frame(NoJob, Outer, "submit",
          [i \in DOMAIN Artifacts |-> [batch |-> Outer, name |-> Artifacts[i]]])

Init ==
    /\ queue = <<>>
    /\ remaining = [b \in Batches |-> 0]
    /\ stack = [t \in Threads |-> IF t = Caller THEN <<CommitFrame>> ELSE <<>>]
    /\ parked = {}
    /\ exited \in SUBSET Workers     \* std::jthread failed to launch these
    /\ stopping = FALSE
    /\ next = [a \in Sectioned |-> 1]
    /\ ran = [a \in Names |-> [k \in Tasks(a) |-> 0]]
    /\ taken = [t \in Threads |-> NoTask]

Top(t)    == stack[t][Len(stack[t])]
At(t, pc) == stack[t] # <<>> /\ Top(t).at = pc

(* The thread's stack with its top frame changed, and with one more frame. *)
Moved(t, frame) == [stack[t] EXCEPT ![Len(stack[t])] = frame]
To(t, pc)       == [stack EXCEPT ![t] = Moved(t, [Top(t) EXCEPT !.at = pc])]

-----------------------------------------------------------------------------
(* submit and enqueue: the batch is counted first; notify_one wakes one    *)
(* blocked pool thread; a full ring makes the submitter run the job.       *)
Submit(t) ==
    /\ At(t, "submit")
    /\ Top(t).todo # <<>>
    /\ LET job  == Head(Top(t).todo)
           rest == Moved(t, [Top(t) EXCEPT !.todo = Tail(@)])
       IN /\ remaining' = [remaining EXCEPT ![job.batch] = @ + 1]
          /\ IF Len(queue) = QueueCapacity
               THEN /\ stack' = [stack EXCEPT ![t] = Append(rest, Entry(job))]
                    /\ UNCHANGED <<queue, parked>>
               ELSE /\ queue' = Append(queue, job)
                    /\ stack' = [stack EXCEPT ![t] = rest]
                    /\ IF parked = {} THEN UNCHANGED parked
                       ELSE \E w \in parked : parked' = parked \ {w}
    /\ UNCHANGED <<exited, stopping, next, ran, taken>>

SubmitDone(t) ==
    /\ At(t, "submit")
    /\ Top(t).todo = <<>>
    /\ stack' = To(t, "load")
    /\ UNCHANGED <<queue, remaining, parked, exited, stopping, next, ran, taken>>

(* Mutation: an empty ring is taken for the end of the batch.              *)
WaitLoadTrustsQueue(t) ==
    /\ At(t, "load")
    /\ stack' = To(t, IF remaining[Top(t).batch] = 0 \/ queue = <<>>
                        THEN (IF Top(t).job = NoJob THEN "stop" ELSE "finish")
                        ELSE "take")
    /\ UNCHANGED <<queue, remaining, parked, exited, stopping, next, ran, taken>>

(* wait: nothing remaining ends the batch.  For the caller the executor's  *)
(* destructor is next, for an artifact job the end of execute().           *)
WaitLoad(t) ==
    /\ At(t, "load")
    /\ stack' = To(t, IF remaining[Top(t).batch] = 0
                        THEN (IF Top(t).job = NoJob THEN "stop" ELSE "finish")
                        ELSE "take")
    /\ UNCHANGED <<queue, remaining, parked, exited, stopping, next, ran, taken>>

(* try_take: a queued job, of whatever batch, runs on top of this frame.   *)
WaitTake(t) ==
    /\ At(t, "take")
    /\ IF queue = <<>>
         THEN /\ stack' = To(t, "reload")
              /\ UNCHANGED queue
         ELSE /\ stack' = [stack EXCEPT ![t] =
                             Append(Moved(t, [Top(t) EXCEPT !.at = "load"]), Entry(Head(queue)))]
              /\ queue' = Tail(queue)
    /\ UNCHANGED <<remaining, parked, exited, stopping, next, ran, taken>>

WaitReload(t) ==
    /\ At(t, "reload")
    /\ LET left == remaining[Top(t).batch]
       IN stack' = [stack EXCEPT ![t] =
                      Moved(t, [Top(t) EXCEPT !.saw = left,
                                              !.at = IF left = 0 THEN "load" ELSE "block"])]
    /\ UNCHANGED <<queue, remaining, parked, exited, stopping, next, ran, taken>>

(* remaining.wait(saw) blocks only while the counter is the one loaded.    *)
WaitBlock(t) ==
    /\ At(t, "block")
    /\ stack' = To(t, IF remaining[Top(t).batch] = Top(t).saw THEN "asleep" ELSE "load")
    /\ UNCHANGED <<queue, remaining, parked, exited, stopping, next, ran, taken>>

-----------------------------------------------------------------------------
(* The invoked functions.  A worker copy draws tasks from the shared       *)
(* counter until it is exhausted; a plain artifact is one task.            *)
RunTask(t) ==
    /\ At(t, "task")
    /\ taken[t] = NoTask
    /\ LET job == Top(t).job
           a   == job.name
       IN IF job.batch = Outer
            THEN /\ ran' = [ran EXCEPT ![a][1] = @ + 1]
                 /\ stack' = To(t, "finish")
                 /\ UNCHANGED <<next, taken>>
            ELSE /\ next' = [next EXCEPT ![a] = @ + 1]
                 /\ IF next[a] > TaskCount
                      THEN stack' = To(t, "finish") /\ UNCHANGED taken
                      ELSE taken' = [taken EXCEPT ![t] = <<a, next[a]>>] /\ UNCHANGED stack
                 /\ UNCHANGED ran
    /\ UNCHANGED <<queue, remaining, parked, exited, stopping>>

(* durable_write_file of the task drawn; other copies draw, write and end  *)
(* meanwhile.                                                              *)
WriteTask(t) ==
    /\ taken[t] # NoTask
    /\ ran' = [ran EXCEPT ![taken[t][1]][taken[t][2]] = @ + 1]
    /\ taken' = [taken EXCEPT ![t] = NoTask]
    /\ UNCHANGED <<queue, remaining, stack, parked, exited, stopping, next>>

Popped(t) == SubSeq(stack[t], 1, Len(stack[t]) - 1)

(* Mutation: every job notifies except the last one.                       *)
FinishNotifiesEarly(t) ==
    /\ At(t, "finish")
    /\ LET b == Top(t).job.batch
       IN /\ remaining' = [remaining EXCEPT ![b] = @ - 1]
          /\ stack' = IF remaining[b] # 1 THEN To(t, "notify")
                      ELSE [stack EXCEPT ![t] = Popped(t)]
    /\ UNCHANGED <<queue, parked, exited, stopping, next, ran, taken>>

(* The end of execute: fetch_sub, and notify_all when it was the last.     *)
Finish(t) ==
    /\ At(t, "finish")
    /\ LET b == Top(t).job.batch
       IN /\ remaining' = [remaining EXCEPT ![b] = @ - 1]
          /\ stack' = IF remaining[b] = 1 THEN To(t, "notify")
                      ELSE [stack EXCEPT ![t] = Popped(t)]
    /\ UNCHANGED <<queue, parked, exited, stopping, next, ran, taken>>

(* notify_all wakes the thread asleep on this counter, if it has changed.  *)
Woken(u, b) == At(u, "asleep") /\ Top(u).batch = b /\ Top(u).saw # remaining[b]

Notify(t) ==
    /\ At(t, "notify")
    /\ stack' = [u \in Threads |->
                   IF u = t THEN Popped(t)
                   ELSE IF Woken(u, Top(t).job.batch)
                        THEN Moved(u, [Top(u) EXCEPT !.at = "load"])
                        ELSE stack[u]]
    /\ UNCHANGED <<queue, remaining, parked, exited, stopping, next, ran, taken>>

-----------------------------------------------------------------------------
(* worker_loop: under the mutex, take a job, leave, or block.              *)
WorkerLoop(w) ==
    /\ w \notin parked \cup exited
    /\ stack[w] = <<>>
    /\ IF queue # <<>>
         THEN /\ stack' = [stack EXCEPT ![w] = <<Entry(Head(queue))>>]
              /\ queue' = Tail(queue)
              /\ UNCHANGED <<parked, exited>>
         ELSE /\ IF stopping THEN exited' = exited \cup {w} /\ UNCHANGED parked
                             ELSE parked' = parked \cup {w} /\ UNCHANGED exited
              /\ UNCHANGED <<stack, queue>>
    /\ UNCHANGED <<remaining, stopping, next, ran, taken>>

(* The destructor: stopping is set, all are notified, all are joined.      *)
Stop ==
    /\ At(Caller, "stop")
    /\ stopping' = TRUE
    /\ parked' = {}
    /\ stack' = To(Caller, "join")
    /\ UNCHANGED <<queue, remaining, exited, next, ran, taken>>

Join ==
    /\ At(Caller, "join")
    /\ exited = Workers
    /\ stack' = To(Caller, "joined")
    /\ UNCHANGED <<queue, remaining, parked, exited, stopping, next, ran, taken>>

Committed ==
    /\ At(Caller, "joined")
    /\ UNCHANGED vars

-----------------------------------------------------------------------------
ThreadStep(t) ==
    \/ Submit(t) \/ SubmitDone(t)
    \/ WaitLoad(t) \/ WaitTake(t) \/ WaitReload(t) \/ WaitBlock(t)
    \/ RunTask(t) \/ WriteTask(t) \/ Finish(t) \/ Notify(t)
    \/ t \in Workers /\ WorkerLoop(t)
    \/ t = Caller /\ (Stop \/ Join)

Next == (\E t \in Threads : ThreadStep(t)) \/ Committed

Spec == Init /\ [][Next]_vars

(* Every thread that can run runs.                                         *)
FairSpec == Spec /\ \A t \in Threads : WF_vars(ThreadStep(t))

-----------------------------------------------------------------------------
(* Properties                                                              *)

(* Every variable has its type, and the ring never overflows.              *)
TypeOK ==
    /\ queue \in Seq(Jobs) /\ Len(queue) <= QueueCapacity
    /\ remaining \in [Batches -> Nat]
    /\ DOMAIN stack = Threads
    /\ parked \subseteq Workers /\ exited \subseteq Workers
    /\ stopping \in BOOLEAN
    /\ next \in [Sectioned -> Nat]
    /\ taken \in [Threads -> {NoTask} \cup (Sectioned \X (1..TaskCount))]
    /\ DOMAIN ran = Names /\ \A a \in Names : ran[a] \in [Tasks(a) -> Nat]

FrameAt(t, i) == stack[t][i]
Frames == UNION {{t} \X DOMAIN stack[t] : t \in Threads}

(* When wait() returns, in the caller or in an artifact job, everything    *)
(* the batch stands for has been written, and written once, although       *)
(* several copies of the worker function race for the counter: the         *)
(* statuses that commit reads next are final.                              *)
WaitMeansDone ==
    /\ \A a \in Names :
         (\E x \in Frames : LET fr == FrameAt(x[1], x[2])
                            IN /\ fr.job = [batch |-> Outer, name |-> a]
                               /\ fr.at \in {"finish", "notify"})
           => \A k \in Tasks(a) : ran[a][k] = 1
    /\ At(Caller, "stop") => \A a \in Names : \A k \in Tasks(a) : ran[a][k] = 1

(* A job only runs while the frame whose locals it captured is still       *)
(* there: an inner job beside its artifact's waiting frame, an outer one   *)
(* beside the caller's.                                                    *)
StackOutlivesJobs ==
    \A x \in Frames :
        LET fr == FrameAt(x[1], x[2])
        IN fr.job # NoJob /\ fr.at # "notify" =>
             \E y \in Frames :
                /\ FrameAt(y[1], y[2]).batch = fr.job.batch
                /\ FrameAt(y[1], y[2]).at \in
                     {"submit", "load", "take", "reload", "block", "asleep"}

(* The commit gets through its artifacts and joins its threads, however    *)
(* few pool threads could be launched and however full the ring is.        *)
CommitFinishes == <>At(Caller, "joined")
=============================================================================
