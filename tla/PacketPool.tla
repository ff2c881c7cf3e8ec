----------------------------- MODULE PacketPool -----------------------------
(***************************************************************************)
(* ReMoLON_Util/ThreadPool.h: the pool that runs received packets.         *)
(*                                                                         *)
(* executeTask runs under the mutex of the queue, so it is one action; a   *)
(* worker reads the stop flags, locks, tests the queue, and blocks or      *)
(* takes a task in separate steps, for shutDown changes the flags and      *)
(* notifies without that mutex.  Workers are numbered as they are created, *)
(* which is their order in the list purgeIdleThreads walks.                *)
(*                                                                         *)
(* Undefined behaviour ends the process: purgeIdleThreads goes on from the *)
(* iterator it has just erased, and a worker that outlives shutDown uses   *)
(* its freed TWorkerThread.                                                *)
(***************************************************************************)
EXTENDS Naturals, Sequences, FiniteSets

CONSTANTS
  MinSize,     \* _minPoolSize
  QueueCap,    \* _maxQueueSize
  MaxWorkers,  \* bound: workers ever created
  MaxTasks     \* bound: tasks ever handed in

ASSUME PoolAssumption ==
  /\ MinSize \in Nat \ {0} /\ QueueCap \in Nat \ {0}
  /\ MaxWorkers \in Nat /\ MinSize <= MaxWorkers
  /\ MaxTasks \in Nat

Workers == 1..MaxWorkers
Tasks == 1..MaxTasks
Nobody == 0

VARIABLES
  tasks,    \* _tasks
  next,     \* the next task to be handed in
  created,  \* workers created so far: 1..created
  pool,     \* the workers in _pool
  count,    \* _currentPoolSize
  told,     \* workers whose own _active is false
  idle,     \* workers whose last activity is longer ago than _maxIdleTimeMilis
  ended,    \* workers whose _terminated is set
  pc, job,  \* [w]: where a worker is, and the task it runs
  mtx,      \* the worker that holds _mtx across steps
  shut,     \* how far shutDown has come; from "flag" on, _active is false
  alive     \* the process runs

vars == <<tasks, next, created, pool, count, told, idle, ended, pc, job, mtx,
          shut, alive>>

PoolTypeOK ==
  /\ tasks \in Seq(Tasks) /\ Len(tasks) <= QueueCap
  /\ next \in 1..(MaxTasks + 1)
  /\ created \in MinSize..MaxWorkers
  /\ pool \subseteq 1..created
  /\ count \in Nat
  /\ told \subseteq 1..created /\ idle \subseteq 1..created /\ ended \subseteq 1..created
  /\ pc \in [Workers -> {"none", "top", "lock", "checked", "wait", "run", "leave", "done"}]
  /\ job \in [Workers -> Tasks \cup {Nobody}]
  /\ mtx \in Workers \cup {Nobody}
  /\ shut \in {"no", "flag", "notified", "done"}
  /\ alive \in BOOLEAN

\* initializeThreadPool.
Init ==
  /\ tasks = <<>> /\ next = 1
  /\ created = MinSize /\ pool = 1..MinSize /\ count = MinSize
  /\ told = {} /\ idle = {} /\ ended = {}
  /\ pc = [w \in Workers |-> IF w <= MinSize THEN "top" ELSE "none"]
  /\ job = [w \in Workers |-> Nobody]
  /\ mtx = Nobody /\ shut = "no" /\ alive = TRUE

Goto(w, label) == pc' = [pc EXCEPT ![w] = label]

\* _monitor.notify_all: whoever waits goes back to lock and test again.
Awake(p) == [w \in Workers |-> IF p[w] = "wait" THEN "lock" ELSE p[w]]

-----------------------------------------------------------------------------
(* executeTask.                                                            *)

\* Seeded fault: one task more than the queue may hold.
FullTooLate == Len(tasks) > QueueCap

Full == Len(tasks) >= QueueCap

\* A full queue throws.
Refuse ==
  /\ Full
  /\ UNCHANGED <<tasks, created, pool, count, told, pc, alive>>

Push(p) == tasks' = Append(tasks, next) /\ pc' = Awake(p)

\* createWorker: "attempts", but nothing looks at _maxPoolSize.
CreateWorker ==
  /\ ~Full /\ Len(tasks) > count
  /\ created < MaxWorkers
  /\ created' = created + 1
  /\ pool' = pool \cup {created + 1}
  /\ count' = count + 1
  /\ Push([pc EXCEPT ![created + 1] = "top"])
  /\ UNCHANGED <<told, alive>>

\* The workers of the list on which purgeIdleThreads acts: it walks on until
\* the count is down to the minimum.
Purgeable == pool \cap (idle \cup ended)
IsFirstOf(V, S) == \A v \in V, s \in S \ V : v < s
Excess == count - MinSize

\* Seeded fault: every worker found is told to finish.
VisitsAll(V) == V = Purgeable

Visits(V) ==
  /\ V \subseteq Purgeable /\ IsFirstOf(V, Purgeable)
  /\ Cardinality(V) = IF Cardinality(Purgeable) < Excess
                      THEN Cardinality(Purgeable) ELSE Excess

\* Seeded fault: a worker told before is not counted out again.
PurgeIdleThreadsOnce ==
  /\ ~Full /\ Len(tasks) <= count /\ count > MinSize
  /\ \E V \in SUBSET Purgeable :
       /\ Visits(V) /\ V \cap ended = {}
       /\ told' = told \cup V
       /\ count' = count - Cardinality(V \cap told)
  /\ Push(pc)
  /\ UNCHANGED <<created, pool, alive>>

\* An idle worker is told to finish and counted out, told before or not.
PurgeIdleThreads ==
  /\ ~Full /\ Len(tasks) <= count /\ count > MinSize
  /\ \E V \in SUBSET Purgeable :
       /\ Visits(V) /\ V \cap ended = {}
       /\ told' = told \cup V
       /\ count' = count - Cardinality(V)
  /\ Push(pc)
  /\ UNCHANGED <<created, pool, alive>>

\* A terminated worker is erased and the loop goes on from the erased node,
\* before the task is in the queue.
PurgeErased ==
  /\ ~Full /\ Len(tasks) <= count /\ count > MinSize
  /\ \E V \in SUBSET Purgeable : Visits(V) /\ V \cap ended # {}
  /\ alive' = FALSE
  /\ UNCHANGED <<tasks, next, created, pool, count, told, pc>>

Enqueue ==
  /\ ~Full /\ Len(tasks) <= count /\ count <= MinSize
  /\ Push(pc)
  /\ UNCHANGED <<created, pool, count, told, alive>>

ExecuteTask ==
  /\ alive /\ mtx = Nobody
  /\ next <= MaxTasks
  /\ \/ next' = next + 1 /\ (Refuse \/ CreateWorker \/ PurgeIdleThreads \/ Enqueue)
     \/ PurgeErased
  /\ UNCHANGED <<idle, ended, job, mtx, shut>>

-----------------------------------------------------------------------------
(* threadLoop.                                                             *)

Stays(w) == shut = "no" /\ w \notin told

\* The condition of the outer loop, read without the mutex.
Top(w) ==
  /\ alive /\ pc[w] = "top"
  /\ Goto(w, IF Stays(w) THEN "lock" ELSE "leave")
  /\ UNCHANGED <<tasks, next, created, pool, count, told, idle, ended, job,
                 mtx, shut, alive>>

\* Seeded fault: the queue is tested before the mutex is taken.
FindEmptyUnlocked(w) ==
  /\ alive /\ pc[w] = "lock" /\ mtx = Nobody
  /\ Stays(w) /\ tasks = <<>>
  /\ Goto(w, "checked")
  /\ UNCHANGED <<tasks, next, created, pool, count, told, idle, ended, job,
                 mtx, shut, alive>>

\* The inner loop finds nothing to do; the worker holds the mutex until it
\* blocks.
FindEmpty(w) ==
  /\ alive /\ pc[w] = "lock" /\ mtx = Nobody
  /\ Stays(w) /\ tasks = <<>>
  /\ Goto(w, "checked")
  /\ mtx' = w
  /\ UNCHANGED <<tasks, next, created, pool, count, told, idle, ended, job,
                 shut, alive>>

Wait(w) ==
  /\ alive /\ pc[w] = "checked"
  /\ Goto(w, "wait")
  /\ mtx' = Nobody
  /\ UNCHANGED <<tasks, next, created, pool, count, told, idle, ended, job,
                 shut, alive>>

\* A worker told to finish, too, takes a task if there is one.
TakeTask(w) ==
  /\ alive /\ pc[w] = "lock" /\ mtx = Nobody
  /\ tasks # <<>>
  /\ tasks' = Tail(tasks)
  /\ job' = [job EXCEPT ![w] = Head(tasks)]
  /\ idle' = idle \ {w}
  /\ Goto(w, "run")
  /\ UNCHANGED <<next, created, pool, count, told, ended, mtx, shut, alive>>

TakeNothing(w) ==
  /\ alive /\ pc[w] = "lock" /\ mtx = Nobody
  /\ ~Stays(w) /\ tasks = <<>>
  /\ Goto(w, "top")
  /\ UNCHANGED <<tasks, next, created, pool, count, told, idle, ended, job,
                 mtx, shut, alive>>

FinishTask(w) ==
  /\ alive /\ pc[w] = "run"
  /\ job' = [job EXCEPT ![w] = Nobody]
  /\ Goto(w, "top")
  /\ UNCHANGED <<tasks, next, created, pool, count, told, idle, ended, mtx,
                 shut, alive>>

Terminate(w) ==
  /\ alive /\ pc[w] = "leave"
  /\ Goto(w, "done")
  /\ ended' = ended \cup {w}
  /\ UNCHANGED <<tasks, next, created, pool, count, told, idle, job, mtx,
                 shut, alive>>

WorkerStep(w) ==
  \/ Top(w) \/ FindEmpty(w) \/ Wait(w) \/ TakeTask(w) \/ TakeNothing(w)
  \/ FinishTask(w) \/ Terminate(w)

\* _maxIdleTimeMilis go by without a task.
GetsIdle(w) ==
  /\ alive /\ w <= created
  /\ idle' = idle \cup {w}
  /\ UNCHANGED <<tasks, next, created, pool, count, told, ended, pc, job, mtx,
                 shut, alive>>

-----------------------------------------------------------------------------
(* shutDown.  The workers are detached, so none is joined.                 *)

ClearFlag ==
  /\ alive /\ shut = "no"
  /\ shut' = "flag"
  /\ UNCHANGED <<tasks, next, created, pool, count, told, idle, ended, pc, job,
                 mtx, alive>>

NotifyAll ==
  /\ alive /\ shut = "flag"
  /\ shut' = "notified"
  /\ pc' = Awake(pc)
  /\ UNCHANGED <<tasks, next, created, pool, count, told, idle, ended, job,
                 mtx, alive>>

ClearPool ==
  /\ alive /\ shut = "notified"
  /\ shut' = "done"
  /\ tasks' = <<>>
  /\ pool' = {}
  /\ UNCHANGED <<next, created, count, told, idle, ended, pc, job, mtx, alive>>

\* A worker uses its entry after it was freed.
UseFreed(w) ==
  /\ alive /\ w \notin pool /\ pc[w] \notin {"none", "done"}
  /\ alive' = FALSE
  /\ UNCHANGED <<tasks, next, created, pool, count, told, idle, ended, pc, job,
                 mtx, shut>>

-----------------------------------------------------------------------------
Next ==
  \/ ExecuteTask
  \/ \E w \in Workers : WorkerStep(w) \/ GetsIdle(w) \/ UseFreed(w)
  \/ ClearFlag \/ NotifyAll \/ ClearPool

Spec == Init /\ [][Next]_vars

\* Workers run, and the packets they run return.
FairSpec == Spec /\ \A w \in Workers : WF_vars(WorkerStep(w))

-----------------------------------------------------------------------------
(* Properties.                                                             *)

\* The size the pool believes it has stays between its minimum and one less
\* than its queue holds: that, and not _maxPoolSize, is what bounds it.
CountWithinBounds ==
  /\ count >= MinSize
  /\ count > MinSize => count < QueueCap

\* However often a worker is counted out before it has ended, at least as
\* many workers as are counted go on: the minimum of threads is kept.
CountedGoOn == Cardinality((1..created) \ told) >= count

Busy == {job[w] : w \in Workers} \ {Nobody}

P == INSTANCE TaskPool WITH
       left <- next..MaxTasks, queue <- tasks, running <- Busy,
       stopped <- shut # "no" \/ ~alive

\* Every accepted packet is run, once and in the order of the queue, although
\* workers come, are told to finish and go (until a purge or a shutdown ends
\* it all).
PoolKeepsPromise == P!Promise
=============================================================================
