------------------------------ MODULE TaskPool ------------------------------
(***************************************************************************)
(* What the users of a thread pool rely on, whatever its threads do: a     *)
(* task handed in while the queue has room is started exactly once, in the *)
(* order of the queue, and it is started for sure as long as nobody shuts  *)
(* the pool down.  Frontend takes this for granted; PacketPool is checked  *)
(* to implement it.                                                        *)
(***************************************************************************)
EXTENDS Naturals, Sequences

CONSTANTS Tasks, QueueCap

VARIABLES
  left,     \* tasks nobody handed in yet
  queue,    \* accepted, not started
  running,  \* started, not finished
  stopped   \* no promise holds any more

promiseVars == <<left, queue, running, stopped>>

PromiseInit ==
  /\ left = Tasks
  /\ queue = <<>>
  /\ running = {}
  /\ stopped = FALSE

\* A full queue refuses the task for good.
HandIn(t) ==
  /\ t \in left
  /\ left' = left \ {t}
  /\ queue' = IF Len(queue) < QueueCap THEN Append(queue, t) ELSE queue
  /\ UNCHANGED <<running, stopped>>

Begin ==
  /\ queue # <<>>
  /\ queue' = Tail(queue)
  /\ running' = running \cup {Head(queue)}
  /\ UNCHANGED <<left, stopped>>

Finish(t) ==
  /\ t \in running
  /\ running' = running \ {t}
  /\ UNCHANGED <<left, queue, stopped>>

Stop == stopped' = TRUE /\ UNCHANGED <<left, queue, running>>

Drop == stopped /\ queue' = <<>> /\ UNCHANGED <<left, running, stopped>>

PromiseNext ==
  \/ \E t \in Tasks : HandIn(t) \/ Finish(t)
  \/ Begin \/ Stop \/ Drop

PromiseSafety == PromiseInit /\ [][PromiseNext]_promiseVars

Promise == PromiseSafety /\ WF_promiseVars(Begin /\ ~stopped)
=============================================================================
