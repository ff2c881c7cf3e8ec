-------------------------- MODULE PacketPoolProofs --------------------------
(***************************************************************************)
(* The packet pool, for every minimum of threads and every length of its   *)
(* queue: who holds what, what its count means, and that it keeps the      *)
(* safety half of what its users rely on.                                  *)
(***************************************************************************)
EXTENDS PacketPool, SequenceTheorems, FiniteSetTheorems, TLAPS

\* The queue holds tasks in the order they came.
Queued ==
  /\ \A i, j \in 1..Len(tasks) : i < j => tasks[i] < tasks[j]
  /\ \A i \in 1..Len(tasks) : tasks[i] < next

\* A worker was created before it does anything, has a task exactly while it
\* runs one, and holds the mutex exactly between its test of the queue and its
\* wait; what it runs came before what is in the queue, and no other runs it.
Sound(w) ==
  /\ pc[w] # "none" => w <= created
  /\ pc[w] = "run" <=> job[w] # Nobody
  /\ pc[w] = "checked" <=> mtx = w
  /\ job[w] # Nobody =>
       /\ job[w] < next
       /\ \A i \in 1..Len(tasks) : job[w] < tasks[i]
       /\ \A v \in Workers : job[v] = job[w] => v = w

\* No worker sleeps, or is about to, while there is something in the queue:
\* executeTask wakes them all, and needs the mutex of whoever is about to.
NoneSleepsOverTasks ==
  \A w \in Workers : pc[w] \in {"checked", "wait"} => tasks = <<>>

\* Until shutDown has freed them, every worker created is in the list.
PoolIsWhole == shut # "done" => pool = 1..created

Counts == CountWithinBounds /\ CountedGoOn

PoolInv ==
  /\ PoolTypeOK /\ Queued /\ NoneSleepsOverTasks /\ PoolIsWhole /\ Counts
  /\ \A w \in Workers : Sound(w)

-----------------------------------------------------------------------------
(* The queue and the count.                                                *)

\* Numbers.
LEMMA PoolNumbers ==
  ASSUME PoolTypeOK
  PROVE  /\ MinSize \in Nat /\ MinSize > 0 /\ QueueCap \in Nat /\ QueueCap > 0
         /\ MaxWorkers \in Nat /\ MaxTasks \in Nat
         /\ next \in Nat /\ created \in Nat /\ count \in Nat
         /\ MinSize <= created /\ created <= MaxWorkers
         /\ tasks \in Seq(Tasks) /\ Len(tasks) \in Nat
         /\ Workers = 1..MaxWorkers /\ Nobody = 0
         /\ \A t \in Tasks : t \in Nat /\ t # Nobody
         /\ \A i \in 1..Len(tasks) : tasks[i] \in Tasks
BY PoolAssumption DEF PoolTypeOK, Workers, Tasks, Nobody

\* executeTask puts its task behind all there are.
LEMMA PushQueues ==
  ASSUME PoolTypeOK, Queued, ~Full, next <= MaxTasks,
         tasks' = Append(tasks, next), next' = next + 1
  PROVE  /\ tasks' \in Seq(Tasks) /\ Len(tasks') <= QueueCap /\ next' \in 1..(MaxTasks + 1)
         /\ Queued'
         /\ \A n \in Nat : n < next /\ (\A i \in 1..Len(tasks) : n < tasks[i])
                             => n < next' /\ \A i \in 1..Len(tasks') : n < tasks'[i]
<1>1. /\ next \in Nat /\ MaxTasks \in Nat /\ QueueCap \in Nat /\ tasks \in Seq(Tasks)
      /\ Len(tasks) \in Nat /\ \A i \in 1..Len(tasks) : tasks[i] \in Nat
  BY PoolNumbers
<1>2. next \in Tasks /\ next' \in 1..(MaxTasks + 1)
  BY <1>1 DEF PoolTypeOK, Tasks
<1>3. /\ tasks' \in Seq(Tasks) /\ Len(tasks') = Len(tasks) + 1
      /\ \A i \in 1..(Len(tasks) + 1) : tasks'[i] = IF i <= Len(tasks) THEN tasks[i] ELSE next
  BY <1>1, <1>2, AppendProperties
<1>4. Len(tasks') <= QueueCap
  BY <1>1, <1>3 DEF Full
<1>5. \A i \in 1..Len(tasks) : tasks[i] < next
  BY DEF Queued
<1>6. Queued'
  <2>1. \A i \in 1..Len(tasks') : tasks'[i] < next'
    BY <1>1, <1>3, <1>5
  <2>2. ASSUME NEW i \in 1..Len(tasks'), NEW j \in 1..Len(tasks'), i < j
        PROVE  tasks'[i] < tasks'[j]
    <3>1. i \in 1..Len(tasks) /\ tasks'[i] = tasks[i]
      BY <1>1, <1>3, <2>2
    <3>2. CASE j \in 1..Len(tasks)
      <4>1. tasks'[j] = tasks[j] /\ tasks[i] < tasks[j]
        BY <1>1, <1>3, <2>2, <3>1, <3>2 DEF Queued
      <4>. QED BY <3>1, <4>1
    <3>3. CASE j \notin 1..Len(tasks)
      <4>1. tasks'[j] = next
        BY <1>1, <1>3, <2>2, <3>3
      <4>. QED BY <1>5, <3>1, <4>1
    <3>. QED BY <3>2, <3>3
  <2>. QED BY <2>1, <2>2 DEF Queued
<1>7. \A n \in Nat : n < next /\ (\A i \in 1..Len(tasks) : n < tasks[i])
                       => n < next' /\ \A i \in 1..Len(tasks') : n < tasks'[i]
  BY <1>1, <1>3
<1>. QED BY <1>2, <1>3, <1>4, <1>6, <1>7

\* A worker takes the oldest task.
LEMMA PopQueues ==
  ASSUME PoolTypeOK, Queued, tasks # <<>>, tasks' = Tail(tasks), next' = next
  PROVE  /\ tasks' \in Seq(Tasks) /\ Len(tasks') <= QueueCap
         /\ Queued'
         /\ Head(tasks) \in Tasks /\ Head(tasks) < next
         /\ \A i \in 1..Len(tasks') : Head(tasks) < tasks'[i]
         /\ \A n \in Nat : (\A i \in 1..Len(tasks) : n < tasks[i])
                             => n < Head(tasks) /\ \A i \in 1..Len(tasks') : n < tasks'[i]
<1>1. /\ QueueCap \in Nat /\ tasks \in Seq(Tasks) /\ Len(tasks) \in Nat
      /\ \A i \in 1..Len(tasks) : tasks[i] \in Nat
  BY PoolNumbers
<1>2. /\ tasks' \in Seq(Tasks) /\ Len(tasks') = Len(tasks) - 1
      /\ \A i \in 1..Len(tasks') : tasks'[i] = tasks[i + 1]
      /\ Head(tasks) \in Tasks /\ Head(tasks) = tasks[1] /\ Len(tasks) >= 1
  BY <1>1, HeadTailProperties, EmptySeq
<1>3. \A i \in 1..Len(tasks') : i + 1 \in 1..Len(tasks) /\ 1 < i + 1
  BY <1>1, <1>2
<1>4. 1 \in 1..Len(tasks)
  BY <1>1, <1>2
<1>5. \A i \in 1..Len(tasks') : Head(tasks) < tasks'[i]
  BY <1>2, <1>3, <1>4 DEF Queued
<1>6. Queued'
  <2>1. ASSUME NEW i \in 1..Len(tasks'), NEW j \in 1..Len(tasks'), i < j
        PROVE  tasks'[i] < tasks'[j]
    <3>1. i + 1 < j + 1
      BY <2>1
    <3>. QED BY <1>2, <1>3, <3>1 DEF Queued
  <2>. QED BY <1>2, <1>3, <2>1 DEF Queued
<1>7. Len(tasks') <= QueueCap
  BY <1>1, <1>2 DEF PoolTypeOK
<1>. QED BY <1>2, <1>3, <1>4, <1>5, <1>6, <1>7 DEF Queued

\* notify_all leaves everybody where he is, but for those who waited.
LEMMA AwakeMoves ==
  ASSUME NEW p \in [Workers -> {"none", "top", "lock", "checked", "wait", "run", "leave", "done"}]
  PROVE  /\ Awake(p) \in [Workers -> {"none", "top", "lock", "checked", "wait", "run", "leave", "done"}]
         /\ \A w \in Workers : Awake(p)[w] # "wait"
         /\ \A w \in Workers : p[w] # "wait" => Awake(p)[w] = p[w]
         /\ \A w \in Workers : p[w] = "wait" => Awake(p)[w] = "lock"
BY DEF Awake

\* Workers told to finish are some of those created.
LEMMA GoOnFinite ==
  ASSUME PoolTypeOK
  PROVE  /\ IsFiniteSet(1..created)
         /\ \A S \in SUBSET (1..created) : IsFiniteSet(S) /\ Cardinality(S) \in Nat
         /\ IsFiniteSet((1..created) \ told) /\ Cardinality((1..created) \ told) \in Nat
<1>1. IsFiniteSet(1..created)
  BY PoolNumbers, FS_Interval
<1>2. \A S \in SUBSET (1..created) : IsFiniteSet(S) /\ Cardinality(S) \in Nat
  BY <1>1, FS_Subset, FS_CardinalityType
<1>. QED BY <1>1, <1>2

\* A new worker goes on.
LEMMA CreateCounts ==
  ASSUME PoolTypeOK, Counts, ~Full, Len(tasks) > count,
         created' = created + 1, count' = count + 1, told' = told
  PROVE  Counts'
<1>1. /\ created \in Nat /\ count \in Nat /\ Len(tasks) \in Nat /\ MinSize \in Nat
      /\ QueueCap \in Nat /\ told \subseteq 1..created
  BY PoolNumbers DEF PoolTypeOK
<1>2. (1..created') \ told' = ((1..created) \ told) \cup {created + 1}
  BY <1>1
<1>3. created + 1 \notin (1..created) \ told
  BY <1>1
<1>4. Cardinality((1..created') \ told') = Cardinality((1..created) \ told) + 1
  BY <1>2, <1>3, GoOnFinite, FS_AddElement
<1>5. Cardinality((1..created) \ told) >= count /\ Cardinality((1..created) \ told) \in Nat
  BY GoOnFinite DEF Counts, CountedGoOn
<1>6. CountedGoOn'
  BY <1>1, <1>4, <1>5 DEF CountedGoOn
<1>7. CountWithinBounds'
  BY <1>1 DEF Counts, CountWithinBounds, Full
<1>. QED BY <1>6, <1>7 DEF Counts

\* A purge tells no more workers to finish than it counts out, and stops at
\* the minimum.
LEMMA PurgeCounts ==
  ASSUME PoolTypeOK, Counts, count > MinSize, NEW V, Visits(V),
         created' = created, told' = told \cup V, count' = count - Cardinality(V)
  PROVE  Counts' /\ V \subseteq 1..created /\ count' \in Nat
<1>1. /\ created \in Nat /\ count \in Nat /\ MinSize \in Nat /\ QueueCap \in Nat
      /\ pool \subseteq 1..created
  BY PoolNumbers DEF PoolTypeOK
<1>2. V \subseteq 1..created /\ Purgeable \subseteq 1..created
  BY <1>1 DEF Visits, Purgeable
<1>3. Cardinality(V) \in Nat /\ Cardinality(Purgeable) \in Nat /\ IsFiniteSet(V)
  BY <1>2, GoOnFinite
<1>4. Cardinality(V) <= count - MinSize
  BY <1>1, <1>3 DEF Visits, Excess
<1> DEFINE S == (1..created) \ told
<1>5. IsFiniteSet(S) /\ Cardinality(S) \in Nat /\ Cardinality(S) >= count
  BY GoOnFinite DEF Counts, CountedGoOn
<1>6. /\ Cardinality(S \ V) = Cardinality(S) - Cardinality(S \cap V)
      /\ Cardinality(S \cap V) <= Cardinality(V) /\ Cardinality(S \cap V) \in Nat
  BY <1>3, <1>5, FS_Difference, FS_Subset, FS_CardinalityType, FS_Intersection
<1>7. (1..created') \ told' = S \ V
  OBVIOUS
<1>8. Cardinality((1..created') \ told') >= count'
  <2>1. Cardinality(S \ V) >= count - Cardinality(V)
    BY <1>1, <1>3, <1>5, <1>6
  <2>. QED BY <1>7, <2>1
<1>9. CountWithinBounds'
  BY <1>1, <1>3, <1>4 DEF Counts, CountWithinBounds
<1>. QED BY <1>1, <1>2, <1>3, <1>4, <1>8, <1>9 DEF Counts, CountedGoOn

-----------------------------------------------------------------------------
(* executeTask.                                                            *)

\* A push, with whatever executeTask did to the pool before it: nobody is
\* between a test and a wait, for the mutex is free, and nobody waits after.
LEMMA PushKeeps ==
  ASSUME PoolInv, mtx = Nobody, ~Full, next <= MaxTasks, next' = next + 1,
         NEW p \in [Workers -> {"none", "top", "lock", "checked", "wait", "run", "leave", "done"}],
         Push(p), UNCHANGED <<idle, ended, job, mtx, shut, alive>>,
         created' \in created..MaxWorkers,
         \A w \in Workers : p[w] # pc[w] => pc[w] = "none" /\ p[w] = "top" /\ w <= created',
         told' \subseteq 1..created', pool' \subseteq 1..created',
         PoolIsWhole', Counts', count' \in Nat
  PROVE  PoolInv'
<1>1. /\ created \in Nat /\ MinSize \in Nat /\ MaxWorkers \in Nat /\ MinSize <= created
      /\ Workers = 1..MaxWorkers
  BY PoolNumbers DEF PoolInv
<1>2. tasks' = Append(tasks, next) /\ pc' = Awake(p)
  BY DEF Push
<1>3. /\ tasks' \in Seq(Tasks) /\ Len(tasks') <= QueueCap /\ next' \in 1..(MaxTasks + 1)
      /\ Queued'
      /\ \A n \in Nat : n < next /\ (\A i \in 1..Len(tasks) : n < tasks[i])
                          => n < next' /\ \A i \in 1..Len(tasks') : n < tasks'[i]
  BY <1>2, PushQueues DEF PoolInv
<1>4. /\ pc' \in [Workers -> {"none", "top", "lock", "checked", "wait", "run", "leave", "done"}]
      /\ \A w \in Workers : pc'[w] # "wait"
      /\ \A w \in Workers : p[w] # "wait" => pc'[w] = p[w]
      /\ \A w \in Workers : p[w] = "wait" => pc'[w] = "lock"
  BY <1>2, AwakeMoves
<1>5. created' \in MinSize..MaxWorkers /\ \A k \in 1..created : k \in 1..created'
  BY <1>1
<1>6. PoolTypeOK'
  <2>1. idle' \subseteq 1..created' /\ ended' \subseteq 1..created'
    BY <1>5 DEF PoolInv, PoolTypeOK
  <2>. QED BY <1>3, <1>4, <1>5, <2>1 DEF PoolInv, PoolTypeOK
<1>7. ASSUME NEW w \in Workers
      PROVE  Sound(w)' /\ pc'[w] \notin {"checked", "wait"}
  <2>1. Sound(w) /\ w # Nobody
    BY <1>1 DEF PoolInv, Nobody
  <2>2. pc[w] # "checked"
    BY <2>1 DEF Sound
  <2>3. /\ pc'[w] # "none" => w <= created'
        /\ pc'[w] \notin {"checked", "wait"}
        /\ pc'[w] = "run" <=> pc[w] = "run"
    <3>1. pc[w] # "none" => w <= created'
      BY <1>1, <1>5, <2>1 DEF Sound
    <3>2. CASE p[w] = pc[w]
      BY <1>4, <2>2, <3>1, <3>2
    <3>3. CASE p[w] # pc[w]
      BY <1>4, <3>3
    <3>. QED BY <3>2, <3>3
  <2>4. job[w] # Nobody => job[w] \in Nat
    BY PoolNumbers DEF PoolInv, PoolTypeOK
  <2>5. job[w] # Nobody =>
          /\ job[w] < next'
          /\ \A i \in 1..Len(tasks') : job[w] < tasks'[i]
    BY <1>3, <2>1, <2>4 DEF Sound
  <2>. QED BY <2>1, <2>3, <2>5 DEF Sound
<1>8. NoneSleepsOverTasks'
  BY <1>7 DEF NoneSleepsOverTasks
<1>. QED BY <1>3, <1>6, <1>7, <1>8 DEF PoolInv

LEMMA ExecuteTaskKeeps ==
  ASSUME PoolInv, ExecuteTask
  PROVE  PoolInv'
<1> USE DEF PoolInv
<1>1. /\ mtx = Nobody /\ next <= MaxTasks
      /\ UNCHANGED <<idle, ended, job, mtx, shut>>
  BY DEF ExecuteTask
<1>2. /\ created \in Nat /\ MaxWorkers \in Nat /\ MaxTasks \in Nat /\ next \in Nat /\ count \in Nat
      /\ created <= MaxWorkers /\ Workers = 1..MaxWorkers
      /\ pc \in [Workers -> {"none", "top", "lock", "checked", "wait", "run", "leave", "done"}]
      /\ told \subseteq 1..created /\ pool \subseteq 1..created
  BY PoolNumbers DEF PoolTypeOK
<1>3. created \in created..MaxWorkers
  BY <1>2
<1>4. CASE Refuse /\ next' = next + 1
  <2>1. UNCHANGED <<tasks, created, pool, count, told, idle, ended, pc, job, mtx, shut, alive>>
    BY <1>1, <1>4 DEF Refuse
  <2>2. next' \in 1..(MaxTasks + 1) /\ \A n \in Nat : n < next => n < next'
    BY <1>1, <1>2, <1>4
  <2>3. PoolTypeOK' /\ NoneSleepsOverTasks' /\ PoolIsWhole' /\ Counts'
    BY <2>1, <2>2 DEF PoolTypeOK, NoneSleepsOverTasks, PoolIsWhole, Counts, CountWithinBounds,
       CountedGoOn
  <2>4. Queued'
    <3>1. \A i \in 1..Len(tasks) : tasks[i] \in Nat /\ tasks[i] < next
      BY PoolNumbers DEF Queued
    <3>. QED BY <2>1, <2>2, <3>1 DEF Queued
  <2>5. ASSUME NEW w \in Workers
        PROVE  Sound(w)'
    <3>1. job[w] # Nobody => job[w] \in Nat
      BY PoolNumbers DEF PoolTypeOK
    <3>. QED BY <2>1, <2>2, <3>1 DEF Sound
  <2>. QED BY <2>3, <2>4, <2>5
<1>5. CASE CreateWorker /\ next' = next + 1
  <2> DEFINE p == [pc EXCEPT ![created + 1] = "top"]
  <2>1. /\ ~Full /\ Len(tasks) > count /\ created < MaxWorkers
        /\ created' = created + 1 /\ pool' = pool \cup {created + 1} /\ count' = count + 1
        /\ Push(p) /\ UNCHANGED <<told, alive>>
    BY <1>5 DEF CreateWorker
  <2>2. created + 1 \in Workers /\ created' \in created..MaxWorkers /\ ~(created + 1 <= created)
        /\ created + 1 <= created'
    BY <1>2, <2>1
  <2>3. pc[created + 1] = "none"
    BY <2>2 DEF Sound
  <2>4. p \in [Workers -> {"none", "top", "lock", "checked", "wait", "run", "leave", "done"}]
    BY <1>2
  <2>5. \A w \in Workers : p[w] # pc[w] => pc[w] = "none" /\ p[w] = "top" /\ w <= created'
    BY <1>2, <2>2, <2>3
  <2>6. told' \subseteq 1..created' /\ pool' \subseteq 1..created' /\ PoolIsWhole' /\ count' \in Nat
    <3>1. 1..created' = (1..created) \cup {created + 1}
      BY <1>2, <2>1
    <3>2. count' \in Nat
      BY <1>2, <2>1
    <3>. QED BY <1>1, <1>2, <2>1, <3>1, <3>2 DEF PoolIsWhole
  <2>7. Counts'
    BY <2>1, CreateCounts
  <2> HIDE DEF p
  <2>. QED BY <1>1, <1>5, <2>1, <2>2, <2>4, <2>5, <2>6, <2>7, PushKeeps
<1>6. CASE PurgeIdleThreads /\ next' = next + 1
  <2>1. PICK V \in SUBSET Purgeable :
          /\ Visits(V) /\ told' = told \cup V /\ count' = count - Cardinality(V)
    BY <1>6 DEF PurgeIdleThreads
  <2>2. ~Full /\ count > MinSize /\ Push(pc) /\ UNCHANGED <<created, pool, alive>>
    BY <1>6 DEF PurgeIdleThreads
  <2>3. Counts' /\ V \subseteq 1..created /\ count' \in Nat
    BY <2>1, <2>2, PurgeCounts
  <2>4. told' \subseteq 1..created' /\ pool' \subseteq 1..created' /\ PoolIsWhole'
        /\ created' \in created..MaxWorkers
    BY <1>1, <1>2, <1>3, <2>1, <2>2, <2>3 DEF PoolIsWhole
  <2>. QED BY <1>1, <1>2, <1>6, <2>2, <2>3, <2>4, PushKeeps
<1>7. CASE Enqueue /\ next' = next + 1
  <2>1. ~Full /\ Push(pc) /\ UNCHANGED <<created, pool, count, told, alive>>
    BY <1>7 DEF Enqueue
  <2>2. Counts' /\ PoolIsWhole'
    BY <1>1, <2>1 DEF Counts, CountWithinBounds, CountedGoOn, PoolIsWhole
  <2>. QED BY <1>1, <1>2, <1>3, <1>7, <2>1, <2>2, PushKeeps
<1>8. CASE PurgeErased
  BY <1>1, <1>8 DEF PurgeErased, PoolTypeOK, Queued, NoneSleepsOverTasks, PoolIsWhole, Counts,
     CountWithinBounds, CountedGoOn, Sound
<1>. QED BY <1>4, <1>5, <1>6, <1>7, <1>8 DEF ExecuteTask

-----------------------------------------------------------------------------
(* threadLoop and shutDown.                                                *)

\* What a step leaves alone when it only moves threads.
LEMMA PoolFrame ==
  ASSUME PoolInv, UNCHANGED <<created, pool, count, told>>, shut = "done" => shut' = "done"
  PROVE  PoolIsWhole' /\ Counts'
BY DEF PoolInv, PoolIsWhole, Counts, CountWithinBounds, CountedGoOn

\* One worker moves on, and keeps its task and the queue.
LEMMA WorkerMoves ==
  ASSUME PoolInv, NEW w \in Workers, NEW label \in {"top", "lock", "checked", "wait", "leave", "done"},
         pc[w] \notin {"none", "run"}, Goto(w, label),
         UNCHANGED <<tasks, next, created, pool, count, told, idle, job, shut, alive>>,
         ended' \subseteq ended \cup {w},
         label \in {"checked", "wait"} => tasks = <<>>,
         \/ label = "checked" /\ mtx = Nobody /\ mtx' = w
         \/ label # "checked" /\ pc[w] = "checked" /\ mtx' = Nobody
         \/ label # "checked" /\ pc[w] # "checked" /\ mtx' = mtx
  PROVE  PoolInv'
<1>1. Workers = 1..MaxWorkers /\ created \in Nat /\ w # Nobody /\ w \in 1..MaxWorkers /\ MaxWorkers \in Nat
  BY PoolNumbers DEF PoolInv
<1>2. pc \in [Workers -> {"none", "top", "lock", "checked", "wait", "run", "leave", "done"}]
  BY DEF PoolInv, PoolTypeOK
<1>3. /\ pc' \in [Workers -> {"none", "top", "lock", "checked", "wait", "run", "leave", "done"}]
      /\ pc'[w] = label /\ \A v \in Workers : v # w => pc'[v] = pc[v]
  BY <1>2 DEF Goto
<1>4. Sound(w) /\ w <= created
  BY DEF PoolInv, Sound
<1>5. mtx' \in Workers \cup {Nobody} /\ ended' \subseteq 1..created
  BY <1>1, <1>4 DEF PoolInv, PoolTypeOK
<1>6. PoolTypeOK' /\ Queued'
  BY <1>3, <1>5 DEF PoolInv, PoolTypeOK, Queued
<1>7. ASSUME NEW v \in Workers
      PROVE  Sound(v)'
  <2>1. Sound(v) /\ v # Nobody
    BY <1>1 DEF PoolInv, Nobody
  <2>2. CASE v = w
    BY <1>3, <1>4, <2>1, <2>2 DEF Sound
  <2>3. CASE v # w
    <3>1. pc[v] = "checked" <=> mtx' = v
      BY <1>1, <1>4, <2>1, <2>3 DEF Sound
    <3>. QED BY <1>3, <2>1, <2>3, <3>1 DEF Sound
  <2>. QED BY <2>2, <2>3
<1>8. NoneSleepsOverTasks'
  BY <1>3 DEF PoolInv, NoneSleepsOverTasks
<1>. QED BY <1>6, <1>7, <1>8, PoolFrame DEF PoolInv

\* The task at the head of the queue is the oldest there is, and no one else's.
LEMMA TakeTaskKeeps ==
  ASSUME PoolInv, NEW w \in Workers, TakeTask(w)
  PROVE  PoolInv'
<1>1. /\ pc[w] = "lock" /\ mtx = Nobody /\ tasks # <<>>
      /\ tasks' = Tail(tasks) /\ job' = [job EXCEPT ![w] = Head(tasks)]
      /\ idle' = idle \ {w} /\ Goto(w, "run")
      /\ UNCHANGED <<next, created, pool, count, told, ended, mtx, shut, alive>>
  BY DEF TakeTask
<1>2. /\ tasks' \in Seq(Tasks) /\ Len(tasks') <= QueueCap
      /\ Queued'
      /\ Head(tasks) \in Tasks /\ Head(tasks) < next
      /\ \A i \in 1..Len(tasks') : Head(tasks) < tasks'[i]
      /\ \A n \in Nat : (\A i \in 1..Len(tasks) : n < tasks[i])
                          => n < Head(tasks) /\ \A i \in 1..Len(tasks') : n < tasks'[i]
  BY <1>1, PopQueues DEF PoolInv
<1>3. /\ pc \in [Workers -> {"none", "top", "lock", "checked", "wait", "run", "leave", "done"}]
      /\ job \in [Workers -> Tasks \cup {Nobody}]
      /\ \A t \in Tasks : t \in Nat /\ t # Nobody
      /\ \A v \in Workers : v # Nobody
  BY PoolNumbers DEF PoolInv, PoolTypeOK
<1>4. /\ pc' \in [Workers -> {"none", "top", "lock", "checked", "wait", "run", "leave", "done"}]
      /\ pc'[w] = "run" /\ \A v \in Workers : v # w => pc'[v] = pc[v]
      /\ job' \in [Workers -> Tasks \cup {Nobody}]
      /\ job'[w] = Head(tasks) /\ \A v \in Workers : v # w => job'[v] = job[v]
  BY <1>1, <1>2, <1>3 DEF Goto
<1>5. PoolTypeOK'
  BY <1>1, <1>2, <1>4 DEF PoolInv, PoolTypeOK
<1>6. \A v \in Workers : job[v] # Nobody => job[v] # Head(tasks)
  <2>1. SUFFICES ASSUME NEW v \in Workers, job[v] # Nobody
                 PROVE  job[v] < Head(tasks) /\ job[v] \in Nat /\ Head(tasks) \in Nat
    OBVIOUS
  <2>2. job[v] \in Nat /\ Head(tasks) \in Nat
    BY <1>2, <1>3, <2>1
  <2>. QED BY <1>2, <2>1, <2>2 DEF PoolInv, Sound
<1>7. ASSUME NEW v \in Workers
      PROVE  Sound(v)'
  <2>1. Sound(v) /\ Sound(w)
    BY DEF PoolInv
  <2>2. CASE v = w
    <3>1. job'[v] < next' /\ \A i \in 1..Len(tasks') : job'[v] < tasks'[i]
      BY <1>1, <1>2, <1>4, <2>2
    <3>2. \A u \in Workers : job'[u] = job'[v] => u = v
      BY <1>2, <1>3, <1>4, <1>6, <2>2
    <3>3. w <= created
      BY <1>1, <2>1 DEF Sound
    <3>4. pc'[v] = "run" /\ job'[v] # Nobody /\ mtx' # v
      BY <1>1, <1>2, <1>3, <1>4, <2>2
    <3>. QED BY <1>1, <2>2, <3>1, <3>2, <3>3, <3>4 DEF Sound
  <2>3. CASE v # w
    <3>1. job'[v] = job[v] /\ pc'[v] = pc[v]
      BY <1>4, <2>3
    <3>2. job[v] # Nobody => \A i \in 1..Len(tasks') : job[v] < tasks'[i]
      BY <1>2, <1>3, <2>1 DEF Sound
    <3>3. job[v] # Nobody => \A u \in Workers : job'[u] = job[v] => u = v
      BY <1>4, <1>6, <2>1 DEF Sound
    <3>. QED BY <1>1, <2>1, <3>1, <3>2, <3>3 DEF Sound
  <2>. QED BY <2>2, <2>3
<1>8. NoneSleepsOverTasks'
  BY <1>1, <1>4 DEF PoolInv, NoneSleepsOverTasks
<1>. QED BY <1>1, <1>2, <1>5, <1>7, <1>8, PoolFrame DEF PoolInv

LEMMA FinishTaskKeeps ==
  ASSUME PoolInv, NEW w \in Workers, FinishTask(w)
  PROVE  PoolInv'
<1>1. /\ pc[w] = "run" /\ job' = [job EXCEPT ![w] = Nobody] /\ Goto(w, "top")
      /\ UNCHANGED <<tasks, next, created, pool, count, told, idle, ended, mtx, shut, alive>>
  BY DEF FinishTask
<1>2. /\ pc \in [Workers -> {"none", "top", "lock", "checked", "wait", "run", "leave", "done"}]
      /\ job \in [Workers -> Tasks \cup {Nobody}]
  BY DEF PoolInv, PoolTypeOK
<1>3. /\ pc' \in [Workers -> {"none", "top", "lock", "checked", "wait", "run", "leave", "done"}]
      /\ pc'[w] = "top" /\ \A v \in Workers : v # w => pc'[v] = pc[v]
      /\ job' \in [Workers -> Tasks \cup {Nobody}]
      /\ job'[w] = Nobody /\ \A v \in Workers : v # w => job'[v] = job[v]
  BY <1>1, <1>2 DEF Goto
<1>4. PoolTypeOK' /\ Queued'
  BY <1>1, <1>3 DEF PoolInv, PoolTypeOK, Queued
<1>5. \A v \in Workers : Sound(v)'
  BY <1>1, <1>3 DEF PoolInv, Sound
<1>6. NoneSleepsOverTasks'
  BY <1>1, <1>3 DEF PoolInv, NoneSleepsOverTasks
<1>. QED BY <1>1, <1>4, <1>5, <1>6, PoolFrame DEF PoolInv

LEMMA WorkerKeeps ==
  ASSUME PoolInv, NEW w \in Workers, WorkerStep(w) \/ GetsIdle(w) \/ UseFreed(w)
  PROVE  PoolInv'
<1>1. CASE Top(w)
  <2>1. PICK label \in {"lock", "leave"} : Goto(w, label)
    BY <1>1 DEF Top
  <2>. QED BY <1>1, <2>1, WorkerMoves DEF Top
<1>2. CASE FindEmpty(w)
  BY <1>2, WorkerMoves DEF FindEmpty
<1>3. CASE Wait(w)
  <2>1. tasks = <<>>
    BY <1>3 DEF Wait, PoolInv, NoneSleepsOverTasks
  <2>. QED BY <1>3, <2>1, WorkerMoves DEF Wait
<1>4. CASE TakeTask(w)
  BY <1>4, TakeTaskKeeps
<1>5. CASE TakeNothing(w)
  BY <1>5, WorkerMoves DEF TakeNothing
<1>6. CASE FinishTask(w)
  BY <1>6, FinishTaskKeeps
<1>7. CASE Terminate(w)
  BY <1>7, WorkerMoves DEF Terminate
<1>8. CASE GetsIdle(w) \/ UseFreed(w)
  <2>1. /\ UNCHANGED <<tasks, next, created, pool, count, told, ended, pc, job, mtx, shut>>
        /\ idle' \subseteq 1..created /\ alive' \in BOOLEAN
    <3>1. w \in 1..MaxWorkers /\ created \in Nat
      BY PoolNumbers DEF PoolInv
    <3>2. w <= created => w \in 1..created
      BY <3>1
    <3>. QED BY <1>8, <3>2 DEF GetsIdle, UseFreed, PoolInv, PoolTypeOK
  <2>2. PoolTypeOK' /\ Queued' /\ NoneSleepsOverTasks' /\ \A v \in Workers : Sound(v)'
    BY <2>1 DEF PoolInv, PoolTypeOK, Queued, NoneSleepsOverTasks, Sound
  <2>. QED BY <2>1, <2>2, PoolFrame DEF PoolInv
<1>. QED BY <1>1, <1>2, <1>3, <1>4, <1>5, <1>6, <1>7, <1>8 DEF WorkerStep

LEMMA ShutDownKeeps ==
  ASSUME PoolInv, ClearFlag \/ NotifyAll \/ ClearPool
  PROVE  PoolInv'
<1>1. CASE ClearFlag
  <2>1. /\ UNCHANGED <<tasks, next, created, pool, count, told, idle, ended, pc, job, mtx, alive>>
        /\ shut = "no" /\ shut' = "flag"
    BY <1>1 DEF ClearFlag
  <2>2. PoolTypeOK' /\ Queued' /\ NoneSleepsOverTasks' /\ \A v \in Workers : Sound(v)'
    BY <2>1 DEF PoolInv, PoolTypeOK, Queued, NoneSleepsOverTasks, Sound
  <2>. QED BY <2>1, <2>2, PoolFrame DEF PoolInv
<1>2. CASE NotifyAll
  <2>1. /\ UNCHANGED <<tasks, next, created, pool, count, told, idle, ended, job, mtx, alive>>
        /\ shut = "flag" /\ shut' = "notified" /\ pc' = Awake(pc)
    BY <1>2 DEF NotifyAll
  <2>2. /\ pc' \in [Workers -> {"none", "top", "lock", "checked", "wait", "run", "leave", "done"}]
        /\ \A w \in Workers : pc'[w] # "wait"
        /\ \A w \in Workers : pc[w] # "wait" => pc'[w] = pc[w]
        /\ \A w \in Workers : pc[w] = "wait" => pc'[w] = "lock"
    BY <2>1, AwakeMoves DEF PoolInv, PoolTypeOK
  <2>3. PoolTypeOK' /\ Queued' /\ NoneSleepsOverTasks'
    BY <2>1, <2>2 DEF PoolInv, PoolTypeOK, Queued, NoneSleepsOverTasks
  <2>4. \A v \in Workers : Sound(v)'
    BY <2>1, <2>2 DEF PoolInv, Sound
  <2>. QED BY <2>1, <2>3, <2>4, PoolFrame DEF PoolInv
<1>3. CASE ClearPool
  <2>1. /\ UNCHANGED <<next, created, count, told, idle, ended, pc, job, mtx, alive>>
        /\ shut' = "done" /\ tasks' = <<>> /\ pool' = {}
    BY <1>3 DEF ClearPool
  <2>2. Len(tasks') = 0 /\ QueueCap \in Nat /\ tasks' \in Seq(Tasks)
    BY <2>1, PoolNumbers DEF PoolInv
  <2>3. PoolTypeOK'
    BY <2>1, <2>2 DEF PoolInv, PoolTypeOK
  <2>4. Queued' /\ NoneSleepsOverTasks' /\ \A v \in Workers : Sound(v)'
    BY <2>1, <2>2 DEF PoolInv, Queued, NoneSleepsOverTasks, Sound
  <2>5. PoolIsWhole' /\ Counts'
    BY <2>1 DEF PoolInv, PoolIsWhole, Counts, CountWithinBounds, CountedGoOn
  <2>. QED BY <2>3, <2>4, <2>5 DEF PoolInv
<1>. QED BY <1>1, <1>2, <1>3

-----------------------------------------------------------------------------
(* The invariant.                                                          *)

LEMMA PoolInit == Init => PoolInv
<1> SUFFICES ASSUME Init PROVE PoolInv
  OBVIOUS
<1>1. /\ MinSize \in Nat /\ MinSize > 0 /\ QueueCap \in Nat /\ MaxWorkers \in Nat /\ MaxTasks \in Nat
      /\ MinSize <= MaxWorkers /\ Workers = 1..MaxWorkers
  BY PoolAssumption DEF Workers
<1>2. Len(tasks) = 0 /\ tasks \in Seq(Tasks)
  BY DEF Init
<1>3. PoolTypeOK
  BY <1>1, <1>2 DEF Init, PoolTypeOK
<1>4. Queued /\ NoneSleepsOverTasks /\ PoolIsWhole
  BY <1>2 DEF Init, Queued, NoneSleepsOverTasks, PoolIsWhole
<1>5. Counts
  <2>1. (1..created) \ told = 1..MinSize
    BY DEF Init
  <2>2. Cardinality(1..MinSize) = MinSize
    BY <1>1, FS_Interval
  <2>. QED BY <1>1, <2>1, <2>2 DEF Init, Counts, CountWithinBounds, CountedGoOn
<1>6. \A w \in Workers : Sound(w)
  BY <1>1 DEF Init, Sound, Nobody
<1>. QED BY <1>3, <1>4, <1>5, <1>6 DEF PoolInv

LEMMA PoolStep == PoolInv /\ [Next]_vars => PoolInv'
<1> SUFFICES ASSUME PoolInv, [Next]_vars PROVE PoolInv'
  OBVIOUS
<1>1. CASE UNCHANGED vars
  BY <1>1 DEF vars, PoolInv, PoolTypeOK, Queued, NoneSleepsOverTasks, PoolIsWhole, Counts,
     CountWithinBounds, CountedGoOn, Sound
<1>2. CASE ExecuteTask
  BY <1>2, ExecuteTaskKeeps
<1>3. ASSUME NEW w \in Workers, WorkerStep(w) \/ GetsIdle(w) \/ UseFreed(w)
      PROVE  PoolInv'
  BY <1>3, WorkerKeeps
<1>4. CASE ClearFlag \/ NotifyAll \/ ClearPool
  BY <1>4, ShutDownKeeps
<1>. QED BY <1>1, <1>2, <1>3, <1>4 DEF Next

\* The inductive invariant.
THEOREM PoolInvariant == Spec => []PoolInv
BY PoolInit, PoolStep, PTL DEF Spec

\* Types; the queue never holds more than _maxQueueSize.
THEOREM PoolTypeCorrect == Spec => []PoolTypeOK
<1>1. PoolInv => PoolTypeOK
  BY DEF PoolInv
<1>. QED BY <1>1, PoolInvariant, PTL

\* _currentPoolSize stays between the minimum and one less than the queue
\* holds, although nothing looks at _maxPoolSize.
THEOREM CountWithinBoundsCorrect == Spec => []CountWithinBounds
<1>1. PoolInv => CountWithinBounds
  BY DEF PoolInv, Counts
<1>. QED BY <1>1, PoolInvariant, PTL

\* purgeIdleThreads may count a worker out again and again: there are still as
\* many that go on as are counted.
THEOREM CountedGoOnCorrect == Spec => []CountedGoOn
<1>1. PoolInv => CountedGoOn
  BY DEF PoolInv, Counts
<1>. QED BY <1>1, PoolInvariant, PTL

\* executeTask and threadLoop: no wake-up is lost.
THEOREM NoneSleepsOverTasksCorrect == Spec => []NoneSleepsOverTasks
<1>1. PoolInv => NoneSleepsOverTasks
  BY DEF PoolInv
<1>. QED BY <1>1, PoolInvariant, PTL

-----------------------------------------------------------------------------
(* What its users rely on.                                                 *)

\* Nothing a user of the pool sees.
LEMMA Unseen ==
  ASSUME UNCHANGED <<next, tasks, job, shut, alive>>
  PROVE  UNCHANGED P!promiseVars
BY DEF P!promiseVars, Busy

LEMMA ExecuteTaskSeen ==
  ASSUME PoolInv, ExecuteTask
  PROVE  [P!PromiseNext]_(P!promiseVars)
<1>1. next \in Tasks /\ next \in next..MaxTasks
  BY PoolNumbers DEF ExecuteTask, Tasks, PoolInv, PoolTypeOK
<1>2. UNCHANGED <<job, shut>> /\ Busy' = Busy
  BY DEF ExecuteTask, Busy
<1>3. ASSUME next' = next + 1, alive' = alive,
             tasks' = IF Len(tasks) < QueueCap THEN Append(tasks, next) ELSE tasks
      PROVE  P!HandIn(next)
  <2>1. (next'..MaxTasks) = (next..MaxTasks) \ {next}
    BY <1>3, PoolNumbers DEF PoolInv
  <2>. QED BY <1>1, <1>2, <1>3, <2>1 DEF P!HandIn
<1>4. Len(tasks) < QueueCap <=> ~Full
  BY PoolNumbers DEF Full, PoolInv
<1>5. CASE PurgeErased
  <2>1. P!Stop
    BY <1>2, <1>5 DEF PurgeErased, P!Stop
  <2>. QED BY <2>1 DEF P!PromiseNext
<1>6. CASE next' = next + 1 /\ (Refuse \/ CreateWorker \/ PurgeIdleThreads \/ Enqueue)
  <2>1. alive' = alive /\ tasks' = IF Len(tasks) < QueueCap THEN Append(tasks, next) ELSE tasks
    BY <1>4, <1>6 DEF Refuse, CreateWorker, PurgeIdleThreads, Enqueue, Push
  <2>2. P!HandIn(next)
    BY <1>3, <1>6, <2>1
  <2>. QED BY <1>1, <2>2 DEF P!PromiseNext
<1>. QED BY <1>5, <1>6 DEF ExecuteTask

LEMMA TakeTaskSeen ==
  ASSUME PoolInv, NEW w \in Workers, TakeTask(w)
  PROVE  P!Begin
<1>1. job \in [Workers -> Tasks \cup {Nobody}] /\ Head(tasks) \in Tasks /\ Head(tasks) # Nobody
  BY PopQueues, PoolNumbers DEF TakeTask, PoolInv, PoolTypeOK
<1>2. job[w] = Nobody
  BY DEF TakeTask, PoolInv, Sound
<1>3. job'[w] = Head(tasks) /\ \A v \in Workers : v # w => job'[v] = job[v]
  BY <1>1 DEF TakeTask
<1>4. Busy' = Busy \cup {Head(tasks)}
  BY <1>1, <1>2, <1>3 DEF Busy
<1>. QED BY <1>4 DEF TakeTask, P!Begin

\* No other worker runs the same task: it is finished once.
LEMMA FinishTaskSeen ==
  ASSUME PoolInv, NEW w \in Workers, FinishTask(w)
  PROVE  \E t \in Tasks : P!Finish(t)
<1>1. job \in [Workers -> Tasks \cup {Nobody}] /\ \A t \in Tasks : t # Nobody
  BY PoolNumbers DEF PoolInv, PoolTypeOK
<1>2. job[w] # Nobody /\ job[w] \in Tasks /\ \A v \in Workers : job[v] = job[w] => v = w
  BY <1>1 DEF FinishTask, PoolInv, Sound
<1>3. job'[w] = Nobody /\ \A v \in Workers : v # w => job'[v] = job[v]
  BY <1>1 DEF FinishTask
<1>4. Busy' = Busy \ {job[w]} /\ job[w] \in Busy
  BY <1>1, <1>2, <1>3 DEF Busy
<1>5. P!Finish(job[w])
  BY <1>4 DEF FinishTask, P!Finish
<1>. QED BY <1>2, <1>5

LEMMA StepSeen == PoolInv /\ [Next]_vars => [P!PromiseNext]_(P!promiseVars)
<1> SUFFICES ASSUME PoolInv, [Next]_vars PROVE [P!PromiseNext]_(P!promiseVars)
  OBVIOUS
<1>1. CASE UNCHANGED vars
  BY <1>1, Unseen DEF vars
<1>2. CASE ExecuteTask
  BY <1>2, ExecuteTaskSeen
<1>3. ASSUME NEW w \in Workers, WorkerStep(w) \/ GetsIdle(w) \/ UseFreed(w)
      PROVE  [P!PromiseNext]_(P!promiseVars)
  <2>1. CASE TakeTask(w)
    BY <2>1, TakeTaskSeen DEF P!PromiseNext
  <2>2. CASE FinishTask(w)
    BY <2>2, FinishTaskSeen DEF P!PromiseNext
  <2>3. CASE UseFreed(w)
    <3>1. P!Stop
      BY <2>3 DEF UseFreed, P!Stop, Busy
    <3>. QED BY <3>1 DEF P!PromiseNext
  <2>4. CASE Top(w) \/ FindEmpty(w) \/ Wait(w) \/ TakeNothing(w) \/ Terminate(w) \/ GetsIdle(w)
    BY <2>4, Unseen DEF Top, FindEmpty, Wait, TakeNothing, Terminate, GetsIdle
  <2>. QED BY <1>3, <2>1, <2>2, <2>3, <2>4 DEF WorkerStep
<1>4. CASE ClearFlag
  <2>1. P!Stop
    BY <1>4 DEF ClearFlag, P!Stop, Busy
  <2>. QED BY <2>1 DEF P!PromiseNext
<1>5. CASE NotifyAll
  <2>1. UNCHANGED <<next, tasks, Busy>> /\ (shut # "no" \/ ~alive)' = (shut # "no" \/ ~alive)
    BY <1>5 DEF NotifyAll, Busy
  <2>. QED BY <2>1 DEF P!promiseVars
<1>6. CASE ClearPool
  <2>1. P!Drop
    BY <1>6 DEF ClearPool, P!Drop, Busy
  <2>. QED BY <2>1 DEF P!PromiseNext
<1>. QED BY <1>1, <1>2, <1>3, <1>4, <1>5, <1>6 DEF Next

\* Whatever its threads do, a task handed in while there is room is started
\* once, in the order of the queue, and nothing else is.  (That it is started
\* at all is for the fairness of the workers.)
THEOREM PoolImplementsPromise == Spec => P!PromiseSafety
<1>1. Init => P!PromiseInit
  <2> SUFFICES ASSUME Init PROVE P!PromiseInit
    OBVIOUS
  <2>1. Busy = {} /\ next..MaxTasks = Tasks
    BY DEF Init, Busy, Tasks
  <2>. QED BY <2>1 DEF Init, P!PromiseInit
<1>. QED BY <1>1, StepSeen, PoolInvariant, PTL DEF Spec, P!PromiseSafety
=============================================================================
