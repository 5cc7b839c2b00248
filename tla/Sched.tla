------------------------------- MODULE Sched -------------------------------
(***************************************************************************)
(* The sleep and wake-up primitives of kernel/sched.c, on one CPU.         *)
(*                                                                         *)
(* A task in the kernel is never preempted: it gives the CPU up only in    *)
(* schedule(), which __sleep_on calls.  A wait queue is no list: *p holds  *)
(* the last task that went to sleep on it, and every sleeper keeps in its  *)
(* local tmp the task that was there before, so that the sleepers form a   *)
(* chain that has to unwind from its head.                                 *)
(*                                                                         *)
(* schedule() takes the runnable task with the largest counter; the        *)
(* counters are abstracted, any runnable task may be taken.  Task 0, the   *)
(* idle task, is Idle: it runs when no other task can.                     *)
(***************************************************************************)
EXTENDS Naturals, FiniteSets

CONSTANTS
  Tasks,   \* the tasks other than task 0
  Queues,  \* the wait queues: the struct task_struct * that callers pass
  Idle,    \* task 0
  NoTask   \* the NULL pointer

ASSUME SchedAssumption ==
  /\ Idle \notin Tasks
  /\ NoTask \notin Tasks
  /\ Idle # NoTask
  /\ IsFiniteSet(Tasks)

VARIABLES
  current,  \* the task on the CPU
  state,    \* task_struct.state of every task but task 0
  wq,       \* wq[q]: what *p holds for the wait queue q
  tmp       \* tmp[t]: the local variable of the __sleep_on that t is in

schedVars == <<current, state, wq, tmp>>

RUNNING == "running"
UNINTERRUPTIBLE == "uninterruptible"

SchedTypeOK ==
  /\ current \in Tasks \union {Idle}
  /\ state \in [Tasks -> {RUNNING, UNINTERRUPTIBLE}]
  /\ wq \in [Queues -> Tasks \union {NoTask}]
  /\ tmp \in [Tasks -> Tasks \union {NoTask}]

SchedInit ==
  /\ current = Idle
  /\ state = [t \in Tasks |-> RUNNING]
  /\ wq = [q \in Queues |-> NoTask]
  /\ tmp = [t \in Tasks |-> NoTask]

Runnable(st) == {t \in Tasks : st[t] = RUNNING}

(* schedule(), called when the states of the tasks are st. *)
Schedule(st) ==
  IF Runnable(st) = {} THEN current' = Idle ELSE current' \in Runnable(st)

(* wake_up(p): the task *p points to, the head of the chain, and no other. *)
WakeUp(st, t) == IF t = NoTask THEN st ELSE [st EXCEPT ![t] = RUNNING]

(* The first half of __sleep_on, up to and including schedule(). *)
SleepOn(t, q) ==
  /\ tmp' = [tmp EXCEPT ![t] = wq[q]]
  /\ wq' = [wq EXCEPT ![q] = t]
  /\ state' = [state EXCEPT ![t] = UNINTERRUPTIBLE]
  /\ Schedule(state')

(* schedule() has returned in __sleep_on, but another task went to sleep   *)
(* on the queue since: wake that one and sleep again ("goto repeat").      *)
Overtaken(t, q) == wq[q] \notin {NoTask, t}

SleepAgain(t, q) ==
  /\ state' = [state EXCEPT ![wq[q]] = RUNNING, ![t] = UNINTERRUPTIBLE]
  /\ Schedule(state')
  /\ UNCHANGED <<wq, tmp>>

(* Mutant: the rest of the chain is forgotten. *)
UnlinkAll(t, q) ==
  /\ wq' = [wq EXCEPT ![q] = NoTask]
  /\ state' = WakeUp(state, tmp[t])
  /\ UNCHANGED <<current, tmp>>

(* The second half of __sleep_on: unlink, and wake the next of the chain.  *)
(* The caller goes on.                                                     *)
Unlink(t, q) ==
  /\ wq' = [wq EXCEPT ![q] = tmp[t]]
  /\ state' = WakeUp(state, tmp[t])
  /\ UNCHANGED <<current, tmp>>
=============================================================================
