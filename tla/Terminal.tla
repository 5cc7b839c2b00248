------------------------------ MODULE Terminal ------------------------------
(***************************************************************************)
(* The consoles and the shell: kernel/chr_drv/keyboard.s, copy_to_cooked   *)
(* of kernel/chr_drv/tty_io.c, and kernel/shell.c.                         *)
(*                                                                         *)
(* There is no shell process.  A line that ends is run inside the keyboard *)
(* interrupt, on the kernel stack of the task that was interrupted: task   *)
(* 1, which spins in init(), or task 0 while task 1 sleeps.  The interrupt *)
(* controller has been told the end of the interrupt before, so that the   *)
(* next key interrupts the command.                                        *)
(*                                                                         *)
(* Bounds: interrupts nest MaxNest deep, where the code has the rest of a  *)
(* page of kernel stack.  Keys are slower than copy_to_cooked: they come   *)
(* between the lines or while a command runs, not between two              *)
(* instructions of the loop.                                               *)
(***************************************************************************)
EXTENDS Naturals, Sequences, SequencesExt

CONSTANTS
  Consoles,   \* 0 .. NR_CONSOLES - 1
  ReadSize,   \* TTY_BUF_SIZE, of the read queues
  CookedSize, \* TTY_BUF_SIZE, of the secondary queues
  MaxNest     \* keyboard interrupts in each other

ASSUME TerminalAssumption ==
  /\ 0 \in Consoles
  /\ ReadSize \in Nat \ {0, 1} /\ CookedSize \in Nat \ {0, 1} /\ MaxNest \in Nat \ {0}

VARIABLES
  fg_console,
  read_q,     \* tty->read_q: the keys put_queue has put there
  secondary,  \* tty->secondary: the line so far
  stack,      \* stack[t]: the keyboard interrupts on the kernel stack of task t
  current,
  wild        \* the kernel has gone through current->pwd of task 0, NULL

vars == <<fg_console, read_q, secondary, stack, current, wild>>

Tasks == {0, 1}

(* Lines that begin with "l" look at the disk: ls, cd, mkdir, rmdir, pwd.   *)
(* The others print something.                                             *)
Letters == {"l", "t"}
Keys == Letters \union {"erase", "kill", "newline"}
NeedsDisk(line) == line[1] = "l"

QUEUE_FULL(q, size) == Len(q) = size - 1

Interrupts == [tty : Consoles, at : {"loop", "command", "asleep"}, disk : BOOLEAN]

TypeOK ==
  /\ fg_console \in Consoles
  /\ read_q \in [Consoles -> Seq(Keys)]
  /\ secondary \in [Consoles -> Seq(Letters)]
  /\ \A c \in Consoles : Len(read_q[c]) < ReadSize /\ Len(secondary[c]) < CookedSize
  /\ stack \in [Tasks -> Seq(Interrupts)]
  /\ \A t \in Tasks : Len(stack[t]) <= MaxNest
  /\ current \in Tasks
  /\ wild \in BOOLEAN

(* init() has called start_shell and spins. *)
Init ==
  /\ fg_console = 0
  /\ read_q = [c \in Consoles |-> <<>>]
  /\ secondary = [c \in Consoles |-> <<>>]
  /\ stack = [t \in Tasks |-> <<>>]
  /\ current = 1
  /\ wild = FALSE
-----------------------------------------------------------------------------
(* The interrupt on top, if any, and where it is. *)
Top(t) == Last(stack[t])
At(t, label) == stack[t] # <<>> /\ Top(t).at = label
GoTo(t, label) == stack' = [stack EXCEPT ![t][Len(stack[t])].at = label]
Asleep(t) == At(t, "asleep")

(* keyboard_interrupt, up to the call of do_tty_interrupt(0). *)
Enter(c) ==
  stack' = [stack EXCEPT ![current] = Append(@, [tty |-> c, at |-> "loop", disk |-> FALSE])]

MayInterrupt ==
  /\ ~wild
  /\ stack[current] = <<>> \/ At(current, "command")
  /\ Len(stack[current]) < MaxNest

Key(k) ==
  /\ MayInterrupt
  /\ read_q' = IF QUEUE_FULL(read_q[fg_console], ReadSize) THEN read_q
               ELSE [read_q EXCEPT ![fg_console] = Append(@, k)]
  /\ Enter(fg_console)
  /\ UNCHANGED <<fg_console, secondary, current, wild>>

(* Alt and a function key: change_console. *)
ChangeConsole(c) ==
  /\ MayInterrupt /\ c # fg_console
  /\ fg_console' = c
  /\ Enter(c)
  /\ UNCHANGED <<read_q, secondary, current, wild>>
-----------------------------------------------------------------------------
(* copy_to_cooked takes one key after the other, *)
Looping == ~wild /\ At(current, "loop")
tty == Top(current).tty
(* Mutant: no look at the room. *)
TakesAlways == read_q[tty] # <<>>
MayTake == read_q[tty] # <<>> /\ ~QUEUE_FULL(secondary[tty], CookedSize)
Take(k) ==
  /\ Looping /\ MayTake
  /\ Head(read_q[tty]) = k
  /\ read_q' = [read_q EXCEPT ![tty] = Tail(@)]

PutChar(k) ==
  /\ Take(k)
  /\ secondary' = [secondary EXCEPT ![tty] = Append(@, k)]
  /\ UNCHANGED <<fg_console, stack, current, wild>>

(* There is no newline in the secondary queue to stop at: the shell has     *)
(* taken what was before it.                                                *)
EraseChar ==
  /\ Take("erase")
  /\ secondary' = [secondary EXCEPT ![tty] = IF @ = <<>> THEN @ ELSE Front(@)]
  /\ UNCHANGED <<fg_console, stack, current, wild>>

KillLine ==
  /\ Take("kill")
  /\ secondary' = [secondary EXCEPT ![tty] = <<>>]
  /\ UNCHANGED <<fg_console, stack, current, wild>>

(* Mutant: the shell leaves the line in the queue. *)
LineStays ==
  /\ Take("newline")
  /\ stack' = IF secondary[fg_console] = <<>> THEN stack
              ELSE [stack EXCEPT ![current][Len(stack[current])] =
                      [tty |-> tty, at |-> "command", disk |-> NeedsDisk(secondary[fg_console])]]
  /\ UNCHANGED <<fg_console, secondary, current, wild>>

(* shell_manage and format_cmd_buf: the line of the console that is shown. *)
Newline ==
  LET line == secondary[fg_console] IN
  /\ Take("newline")
  /\ secondary' = [secondary EXCEPT ![fg_console] = <<>>]
  /\ IF line = <<>> THEN stack' = stack
     ELSE stack' = [stack EXCEPT ![current][Len(stack[current])] =
                      [tty |-> tty, at |-> "command", disk |-> NeedsDisk(line)]]
  /\ UNCHANGED <<fg_console, current, wild>>

Leave ==
  /\ Looping /\ ~MayTake
  /\ stack' = [stack EXCEPT ![current] = Front(@)]
  /\ UNCHANGED <<fg_console, read_q, secondary, current, wild>>
-----------------------------------------------------------------------------
(* A command waits for the disk, zero or more times, and ends. *)
Running == ~wild /\ At(current, "command")

SleepOnDisk ==
  /\ Running /\ Top(current).disk /\ current = 1
  /\ GoTo(1, "asleep")
  /\ current' = 0
  /\ UNCHANGED <<fg_console, read_q, secondary, wild>>

(* Task 0 has no current->pwd and no current->root, and must not sleep. *)
NoDirectory ==
  /\ Running /\ Top(current).disk /\ current = 0
  /\ wild' = TRUE
  /\ UNCHANGED <<fg_console, read_q, secondary, stack, current>>

CommandEnds ==
  /\ Running /\ (Top(current).disk => current = 1)
  /\ GoTo(current, "loop")
  /\ UNCHANGED <<fg_console, read_q, secondary, current, wild>>

(* hd_interrupt and end_request wake the command. *)
DiskInterrupt ==
  /\ ~wild /\ Asleep(1)
  /\ GoTo(1, "command")
  /\ UNCHANGED <<fg_console, read_q, secondary, current, wild>>

(* Mutants: task 0 is preempted in the kernel; init() pauses, not spins. *)
Preempts ==
  /\ ~wild /\ current = 0 /\ ~Asleep(1)
  /\ current' = 1
  /\ UNCHANGED <<fg_console, read_q, secondary, stack, wild>>


InitPauses ==
  /\ ~wild
  /\ \/ current = 0 /\ ~Asleep(1) /\ (stack[0] = <<>> \/ At(0, "command"))
     \/ current = 1 /\ stack[1] = <<>>
  /\ current' = 1 - current
  /\ UNCHANGED <<fg_console, read_q, secondary, stack, wild>>

(* Task 0 calls schedule() in pause; it is INTERRUPTIBLE there, so that each *)
(* system call of a command on its stack ends in schedule() too.            *)
Schedule ==
  /\ ~wild /\ current = 0 /\ ~Asleep(1)
  /\ stack[0] = <<>> \/ At(0, "command")
  /\ current' = 1
  /\ UNCHANGED <<fg_console, read_q, secondary, stack, wild>>
-----------------------------------------------------------------------------
CopyToCooked ==
  \/ \E k \in Letters : PutChar(k)
  \/ EraseChar \/ KillLine \/ Newline \/ Leave

Next ==
  \/ \E k \in Keys : Key(k)
  \/ \E c \in Consoles : ChangeConsole(c)
  \/ CopyToCooked
  \/ SleepOnDisk \/ NoDirectory \/ CommandEnds
  \/ DiskInterrupt \/ Schedule

Spec == Init /\ [][Next]_vars
=============================================================================
