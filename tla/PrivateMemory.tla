--------------------------- MODULE PrivateMemory ---------------------------
(***************************************************************************)
(* What fork, the page faults and exit owe the tasks (mm/memory.c,         *)
(* kernel/fork.c): every task has a memory of its own.  A child begins     *)
(* with a copy, a write is seen by the writer alone, and nothing else      *)
(* changes what a task reads.  Who wrote is all that is told of a value: a *)
(* task writes its number.                                                 *)
(***************************************************************************)
EXTENDS Naturals

CONSTANTS
  TaskNrs,  \* the tasks
  Addrs,    \* the pages of an address space
  Values,   \* what a page may hold: TaskNrs, and what nobody has written
  NoMemory  \* what a task that is not there has

VARIABLE memory

Start == memory \in [TaskNrs -> [Addrs -> Values] \union {NoMemory}]

Fork(t, c) ==
  /\ memory[t] # NoMemory /\ memory[c] = NoMemory
  /\ memory' = [memory EXCEPT ![c] = memory[t]]

Store(t, a) ==
  /\ memory[t] # NoMemory
  /\ memory' = [memory EXCEPT ![t] = [@ EXCEPT ![a] = t]]

Leave(t) ==
  /\ memory[t] # NoMemory
  /\ memory' = [memory EXCEPT ![t] = NoMemory]

Step(t) ==
  \/ \E c \in TaskNrs : Fork(t, c)
  \/ \E a \in Addrs : Store(t, a)
  \/ Leave(t)

Spec == Start /\ [][\E t \in TaskNrs : Step(t)]_memory
=============================================================================
