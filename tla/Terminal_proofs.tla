--------------------------- MODULE Terminal_proofs ---------------------------
(***************************************************************************)
(* Proofs about the consoles, for any number of them, queues of any size   *)
(* and interrupts nested as deep as one likes.                             *)
(***************************************************************************)
EXTENDS TerminalProps, FiniteSetTheorems, WellFoundedInduction, TLAPS

(* A key that could be worked into its line. *)
Pending(c) == read_q[c] # <<>> /\ ~QUEUE_FULL(secondary[c], CookedSize)

(* Such a key is alone, on the console that is shown, and the loop that runs *)
(* is about to take it: every other loop has gone on as long as it could.    *)
KeysTaken ==
  \A c \in Consoles :
    Pending(c) => At(current, "loop") /\ tty = c /\ c = fg_console /\ Len(read_q[c]) = 1

(* A task loses the CPU in a command, never in the loop. *)
Resting == \A t \in Tasks : t # current => stack[t] = <<>> \/ Top(t).at # "loop"

(* Task 0 has the CPU while something is on the stack of task 1. *)
ZeroIsSecond == (current = 0 => stack[1] # <<>>) /\ (wild => current = 0)

Inv == TypeOK /\ KeysTaken /\ Resting /\ ZeroIsSecond

USE TerminalAssumption DEF Tasks
-----------------------------------------------------------------------------
(* What the sequences do: the last and all but the last, tail and append. *)
LEMMA Sequence ==
  ASSUME NEW S, NEW s \in Seq(S), s # <<>>
  PROVE  /\ Len(s) \in Nat \ {0} /\ Head(s) \in S /\ Last(s) \in S
         /\ Tail(s) \in Seq(S) /\ Len(Tail(s)) = Len(s) - 1
         /\ Front(s) \in Seq(S) /\ Len(Front(s)) = Len(s) - 1
  <1>1. Len(s) \in Nat \ {0} /\ Head(s) \in S /\ Tail(s) \in Seq(S) /\ Len(Tail(s)) = Len(s) - 1
    OBVIOUS
  <1>2. Last(s) \in S
    BY <1>1 DEF Last
  <1>3. Front(s) \in Seq(S) /\ Len(Front(s)) = Len(s) - 1
    BY <1>1 DEF Front
  <1> QED
    BY <1>1, <1>2, <1>3

(* No element, and at least one. *)
LEMMA NotEmpty == ASSUME NEW S, NEW s \in Seq(S) PROVE s = <<>> <=> Len(s) = 0
  OBVIOUS

(* Changing the interrupt on top of a stack. *)
LEMMA NewTop ==
  ASSUME TypeOK, NEW t \in Tasks, stack[t] # <<>>, NEW i \in Interrupts,
         stack' = [stack EXCEPT ![t][Len(stack[t])] = i]
  PROVE  /\ stack' \in [Tasks -> Seq(Interrupts)]
         /\ \A u \in Tasks : Len(stack'[u]) = Len(stack[u])
         /\ \A u \in Tasks : u # t => stack'[u] = stack[u]
         /\ stack'[t] # <<>> /\ Last(stack'[t]) = i
  <1> DEFINE s == [stack[t] EXCEPT ![Len(stack[t])] = i]
  <1>1. stack \in [Tasks -> Seq(Interrupts)] /\ stack[t] \in Seq(Interrupts)
    BY DEF TypeOK
  <1>2. Len(stack[t]) \in 1 .. Len(stack[t])
    BY <1>1
  <1>3. s \in Seq(Interrupts) /\ Len(s) = Len(stack[t]) /\ s[Len(stack[t])] = i
    BY <1>1, <1>2
  <1>4. stack' = [stack EXCEPT ![t] = s]
    OBVIOUS
  <1>5. Last(s) = i /\ s # <<>>
    BY <1>2, <1>3 DEF Last
  <1>6. \A u \in Tasks : stack'[u] = IF u = t THEN s ELSE stack[u]
    BY <1>1, <1>4
  <1> HIDE DEF s
  <1>7. stack' \in [Tasks -> Seq(Interrupts)]
    BY <1>1, <1>3, <1>4
  <1> QED
    BY <1>3, <1>5, <1>6, <1>7

(* The same when the interrupt only gets to another place. *)
LEMMA NewPlace ==
  ASSUME TypeOK, NEW t \in Tasks, stack[t] # <<>>, NEW p \in {"loop", "command", "asleep"},
         GoTo(t, p)
  PROVE  /\ stack' \in [Tasks -> Seq(Interrupts)]
         /\ \A u \in Tasks : Len(stack'[u]) = Len(stack[u])
         /\ \A u \in Tasks : u # t => stack'[u] = stack[u]
         /\ stack'[t] # <<>> /\ Last(stack'[t]).at = p
  <1> DEFINE i == [stack[t][Len(stack[t])] EXCEPT !.at = p]
  <1>1. stack[t] \in Seq(Interrupts)
    BY DEF TypeOK
  <1>2. stack[t][Len(stack[t])] \in Interrupts
    BY <1>1
  <1>3. i \in Interrupts /\ i.at = p
    BY <1>2 DEF Interrupts
  <1>4. stack' = [stack EXCEPT ![t][Len(stack[t])] = i]
    BY DEF GoTo
  <1> HIDE DEF i
  <1> QED
    BY <1>3, <1>4, NewTop
-----------------------------------------------------------------------------
(* A new interrupt finds every key taken that can be. *)
LEMMA EnterKeeps ==
  ASSUME Inv, MayInterrupt, NEW c \in Consoles, Enter(c)
  PROVE  /\ stack' \in [Tasks -> Seq(Interrupts)]
         /\ \A t \in Tasks : Len(stack'[t]) <= MaxNest
         /\ \A t \in Tasks : t # current => stack'[t] = stack[t]
         /\ stack'[current] # <<>> /\ Last(stack'[current]).at = "loop"
         /\ Last(stack'[current]).tty = c
         /\ \A d \in Consoles : ~Pending(d)
  <1> DEFINE i == [tty |-> c, at |-> "loop", disk |-> FALSE]
  <1>1. /\ current \in Tasks /\ stack \in [Tasks -> Seq(Interrupts)]
        /\ stack[current] \in Seq(Interrupts) /\ Len(stack[current]) < MaxNest
        /\ \A t \in Tasks : Len(stack[t]) <= MaxNest
    BY DEF Inv, TypeOK, MayInterrupt
  <1>2. i \in Interrupts
    BY DEF Interrupts
  <1>3. /\ Append(stack[current], i) \in Seq(Interrupts)
        /\ Len(Append(stack[current], i)) = Len(stack[current]) + 1
        /\ Append(stack[current], i)[Len(stack[current]) + 1] = i
    BY <1>1, <1>2
  <1>4. stack' = [stack EXCEPT ![current] = Append(stack[current], i)]
    BY DEF Enter
  <1>5. Last(Append(stack[current], i)) = i /\ Append(stack[current], i) # <<>>
    BY <1>1, <1>3 DEF Last
  <1>6. ~At(current, "loop")
    BY DEF MayInterrupt, At
  <1> QED
    BY <1>1, <1>3, <1>4, <1>5, <1>6 DEF Inv, KeysTaken

(* What is to be shown of each step once the stacks are known. *)
LEMMA KeyKeeps == ASSUME Inv, NEW k \in Keys, Key(k) PROVE Inv'
  <1>1. fg_console \in Consoles /\ MayInterrupt /\ Enter(fg_console)
        /\ fg_console' = fg_console /\ secondary' = secondary /\ current' = current /\ wild' = wild
    BY DEF Inv, TypeOK, Key
  <1>2. \A c \in Consoles : c # fg_console => read_q'[c] = read_q[c]
    BY DEF Key, Inv, TypeOK
  <1>3. /\ read_q' \in [Consoles -> Seq(Keys)]
        /\ \A c \in Consoles : Len(read_q'[c]) < ReadSize
        /\ read_q[fg_console] = <<>> => Len(read_q'[fg_console]) = 1
        /\ read_q[fg_console] # <<>> => read_q'[fg_console] # <<>>
    <2>1. CASE QUEUE_FULL(read_q[fg_console], ReadSize)
      BY <1>1, <2>1 DEF Key, Inv, TypeOK, QUEUE_FULL
    <2>2. CASE ~QUEUE_FULL(read_q[fg_console], ReadSize)
      <3> DEFINE q == Append(read_q[fg_console], k)
      <3>1. /\ read_q \in [Consoles -> Seq(Keys)] /\ read_q[fg_console] \in Seq(Keys)
            /\ \A c \in Consoles : Len(read_q[c]) < ReadSize
        BY <1>1 DEF Inv, TypeOK
      <3>2. q \in Seq(Keys) /\ Len(q) = Len(read_q[fg_console]) + 1 /\ q # <<>>
        <4>1. q \in Seq(Keys) /\ Len(q) = Len(read_q[fg_console]) + 1 /\ Len(read_q[fg_console]) \in Nat
          BY <3>1
        <4> HIDE DEF q
        <4> QED
          BY <4>1, NotEmpty
      <3>3. Len(q) < ReadSize
        BY <1>1, <2>2, <3>1, <3>2 DEF QUEUE_FULL
      <3>4. read_q' = [read_q EXCEPT ![fg_console] = q]
        BY <2>2 DEF Key
      <3>5. read_q[fg_console] = <<>> => Len(q) = 1
        BY <3>2
      <3> HIDE DEF q
      <3> QED
        BY <1>1, <3>1, <3>2, <3>3, <3>4, <3>5
    <2> QED
      BY <2>1, <2>2
  <1>4. TypeOK'
    BY <1>1, <1>3, EnterKeeps DEF Inv, TypeOK
  <1>5. KeysTaken'
    BY <1>1, <1>2, <1>3, EnterKeeps DEF KeysTaken, Pending, At, Top, tty
  <1>6. Resting' /\ ZeroIsSecond'
    BY <1>1, EnterKeeps DEF Inv, TypeOK, Resting, ZeroIsSecond, Top, MayInterrupt
  <1> QED
    BY <1>4, <1>5, <1>6 DEF Inv

(* change_console. *)
LEMMA ChangeConsoleKeeps == ASSUME Inv, NEW c \in Consoles, ChangeConsole(c) PROVE Inv'
  <1>1. MayInterrupt /\ Enter(c) /\ fg_console' = c /\ read_q' = read_q
        /\ secondary' = secondary /\ current' = current /\ wild' = wild
    BY DEF ChangeConsole
  <1>2. TypeOK'
    BY <1>1, EnterKeeps DEF Inv, TypeOK
  <1>3. KeysTaken'
    BY <1>1, EnterKeeps DEF KeysTaken, Pending
  <1>4. Resting' /\ ZeroIsSecond'
    BY <1>1, EnterKeeps DEF Inv, TypeOK, Resting, ZeroIsSecond, Top, MayInterrupt
  <1> QED
    BY <1>2, <1>3, <1>4 DEF Inv
-----------------------------------------------------------------------------
(* The key that the loop takes is alone, and its console is the one shown. *)
LEMMA TakeFinds ==
  ASSUME Inv, NEW k, Take(k)
  PROVE  /\ tty \in Consoles /\ tty = fg_console /\ k \in Keys
         /\ stack[current] # <<>> /\ current \in Tasks
         /\ read_q' \in [Consoles -> Seq(Keys)] /\ read_q'[tty] = <<>>
         /\ \A c \in Consoles : Len(read_q'[c]) < ReadSize
         /\ \A c \in Consoles : c # tty => ~Pending(c) /\ read_q'[c] = read_q[c]
  <1>1. /\ current \in Tasks /\ stack[current] # <<>> /\ stack[current] \in Seq(Interrupts)
        /\ read_q \in [Consoles -> Seq(Keys)] /\ MayTake /\ Head(read_q[tty]) = k
        /\ read_q' = [read_q EXCEPT ![tty] = Tail(read_q[tty])]
    BY DEF Inv, TypeOK, Take, Looping, At
  <1>2. Top(current) \in Interrupts
    BY <1>1, Sequence DEF Top
  <1>3. tty \in Consoles
    BY <1>2 DEF tty, Interrupts
  <1>4. Pending(tty) /\ read_q[tty] \in Seq(Keys)
    BY <1>1, <1>3 DEF Pending, MayTake
  <1>5. tty = fg_console /\ Len(read_q[tty]) = 1
    BY <1>3, <1>4 DEF Inv, KeysTaken
  <1>6. k \in Keys /\ Tail(read_q[tty]) \in Seq(Keys) /\ Len(Tail(read_q[tty])) = 0
    BY <1>1, <1>4, <1>5, Sequence
  <1>7. Tail(read_q[tty]) = <<>>
    BY <1>6, NotEmpty
  <1>8. \A c \in Consoles : c # tty => ~Pending(c)
    BY DEF Inv, KeysTaken
  <1> QED
    BY <1>1, <1>3, <1>5, <1>6, <1>7, <1>8 DEF Inv, TypeOK

(* A key that is worked into the line leaves nothing to take. *)
LEMMA LineKeeps ==
  ASSUME Inv, NEW k, Take(k), NEW s \in Seq(Letters), Len(s) < CookedSize,
         secondary' = [secondary EXCEPT ![tty] = s],
         UNCHANGED <<fg_console, stack, current, wild>>
  PROVE  Inv'
  <1>1. tty \in Consoles /\ secondary \in [Consoles -> Seq(Letters)]
    BY TakeFinds DEF Inv, TypeOK
  <1>2. \A c \in Consoles : secondary'[c] = IF c = tty THEN s ELSE secondary[c]
    BY <1>1
  <1>3. TypeOK'
    BY <1>1, <1>2, TakeFinds DEF Inv, TypeOK
  <1>4. \A c \in Consoles : ~Pending(c)'
    BY <1>2, TakeFinds DEF Pending
  <1>5. KeysTaken' /\ Resting' /\ ZeroIsSecond'
    BY <1>4 DEF Inv, KeysTaken, Resting, ZeroIsSecond, Top
  <1> QED
    BY <1>3, <1>5 DEF Inv

(* PUTCH: there is room. *)
LEMMA PutCharKeeps == ASSUME Inv, NEW k \in Letters, PutChar(k) PROVE Inv'
  <1> DEFINE s == Append(secondary[tty], k)
  <1>1. Take(k) /\ tty \in Consoles /\ secondary[tty] \in Seq(Letters)
        /\ Len(secondary[tty]) < CookedSize /\ ~QUEUE_FULL(secondary[tty], CookedSize)
    BY TakeFinds DEF PutChar, Inv, TypeOK, Take, MayTake
  <1>2. s \in Seq(Letters) /\ Len(s) < CookedSize
    BY <1>1 DEF QUEUE_FULL
  <1> QED
    BY <1>1, <1>2, LineKeeps DEF PutChar

(* ERASE_CHAR *)
LEMMA EraseCharKeeps == ASSUME Inv, EraseChar PROVE Inv'
  <1> DEFINE s == IF secondary[tty] = <<>> THEN secondary[tty] ELSE Front(secondary[tty])
  <1>1. Take("erase") /\ tty \in Consoles /\ secondary[tty] \in Seq(Letters)
        /\ Len(secondary[tty]) < CookedSize
    BY TakeFinds DEF EraseChar, Inv, TypeOK
  <1>2. s \in Seq(Letters) /\ Len(s) < CookedSize
    BY <1>1, Sequence
  <1> QED
    BY <1>1, <1>2, LineKeeps DEF EraseChar

(* KILL_CHAR *)
LEMMA KillLineKeeps == ASSUME Inv, KillLine PROVE Inv'
  <1>1. Take("kill") /\ <<>> \in Seq(Letters) /\ Len(<<>>) < CookedSize
    BY DEF KillLine
  <1> QED
    BY <1>1, LineKeeps DEF KillLine

(* The shell takes the line: of the console of the loop, which is shown. *)
LEMMA NewlineKeeps == ASSUME Inv, Newline PROVE Inv'
  <1> DEFINE line == secondary[fg_console]
             i == [tty |-> tty, at |-> "command", disk |-> NeedsDisk(line)]
  <1>1. /\ Take("newline") /\ tty = fg_console /\ tty \in Consoles
        /\ secondary \in [Consoles -> Seq(Letters)]
        /\ secondary' = [secondary EXCEPT ![tty] = <<>>]
        /\ UNCHANGED <<fg_console, current, wild>>
    BY TakeFinds DEF Newline, Inv, TypeOK
  <1>2. CASE line = <<>>
    <2>1. UNCHANGED stack /\ <<>> \in Seq(Letters) /\ Len(<<>>) < CookedSize
      BY <1>2 DEF Newline
    <2> HIDE DEF line, i
    <2> QED
      BY <1>1, <2>1, LineKeeps
  <1>3. CASE line # <<>>
    <2>1. i \in Interrupts /\ stack' = [stack EXCEPT ![current][Len(stack[current])] = i]
      BY <1>1, <1>3 DEF Interrupts, Newline, NeedsDisk
    <2> HIDE DEF i, line
    <2>2. /\ stack' \in [Tasks -> Seq(Interrupts)]
          /\ \A u \in Tasks : Len(stack'[u]) = Len(stack[u])
          /\ \A u \in Tasks : u # current => stack'[u] = stack[u]
          /\ stack'[current] # <<>>
      BY <2>1, <1>1, TakeFinds, NewTop DEF Inv
    <2>3. \A c \in Consoles : ~Pending(c)'
      BY <1>1, TakeFinds DEF Pending
    <2>4. TypeOK'
      BY <1>1, <2>2, TakeFinds DEF Inv, TypeOK
    <2>5. KeysTaken' /\ Resting' /\ ZeroIsSecond'
      BY <1>1, <2>2, <2>3, TakeFinds DEF Inv, KeysTaken, Resting, ZeroIsSecond, Top
    <2> QED
      BY <2>4, <2>5 DEF Inv
  <1> QED
    BY <1>2, <1>3

(* The loop ends when it can take nothing. *)
LEMMA LeaveKeeps == ASSUME Inv, Leave PROVE Inv'
  <1>1. /\ current \in Tasks /\ stack \in [Tasks -> Seq(Interrupts)]
        /\ stack[current] \in Seq(Interrupts) /\ stack[current] # <<>> /\ ~wild
        /\ stack' = [stack EXCEPT ![current] = Front(stack[current])]
        /\ UNCHANGED <<fg_console, read_q, secondary, current, wild>>
    BY DEF Leave, Looping, At, Inv, TypeOK
  <1>2. Front(stack[current]) \in Seq(Interrupts)
        /\ Len(Front(stack[current])) = Len(stack[current]) - 1
    BY <1>1, Sequence
  <1>3. TypeOK'
    BY <1>1, <1>2 DEF Inv, TypeOK
  <1>4. \A c \in Consoles : ~Pending(c)
    BY DEF Leave, MayTake, Inv, KeysTaken, Pending
  <1>5. KeysTaken' /\ Resting' /\ ZeroIsSecond'
    BY <1>1, <1>4 DEF Inv, KeysTaken, Pending, Resting, ZeroIsSecond, Top
  <1> QED
    BY <1>3, <1>5 DEF Inv
-----------------------------------------------------------------------------
(* Steps at which no loop runs, and which take no key. *)
LEMMA QuietKeeps ==
  ASSUME Inv, TypeOK', ~At(current, "loop"), Resting', ZeroIsSecond',
         UNCHANGED <<fg_console, read_q, secondary>>
  PROVE  Inv'
  <1>1. \A c \in Consoles : ~Pending(c)'
    BY DEF Inv, KeysTaken, Pending
  <1> QED
    BY <1>1 DEF Inv, KeysTaken

(* A command of task 1 sleeps, and task 0 gets the CPU. *)
LEMMA SleepOnDiskKeeps == ASSUME Inv, SleepOnDisk PROVE Inv'
  <1>1. current = 1 /\ GoTo(1, "asleep") /\ stack[1] # <<>> /\ Top(1).at = "command"
        /\ current' = 0 /\ UNCHANGED <<fg_console, read_q, secondary, wild>>
    BY DEF SleepOnDisk, Running, At
  <1>2. /\ stack' \in [Tasks -> Seq(Interrupts)]
        /\ \A u \in Tasks : Len(stack'[u]) = Len(stack[u])
        /\ stack'[1] # <<>> /\ Last(stack'[1]).at = "asleep"
    BY <1>1, NewPlace DEF Inv
  <1>3. TypeOK'
    BY <1>1, <1>2 DEF Inv, TypeOK
  <1>4. Resting' /\ ZeroIsSecond'
    BY <1>1, <1>2 DEF Inv, Resting, ZeroIsSecond, Top
  <1> QED
    BY <1>1, <1>3, <1>4, QuietKeeps DEF At

(* A command of task 0 goes through NULL. *)
LEMMA NoDirectoryKeeps == ASSUME Inv, NoDirectory PROVE Inv'
  <1>1. current = 0 /\ Top(current).at = "command" /\ wild' = TRUE
        /\ UNCHANGED <<fg_console, read_q, secondary, stack, current>>
    BY DEF NoDirectory, Running, At
  <1>2. TypeOK' /\ Resting' /\ ZeroIsSecond'
    BY <1>1 DEF Inv, TypeOK, Resting, ZeroIsSecond, Top
  <1> QED
    BY <1>1, <1>2, QuietKeeps DEF At

(* A command ends, and the loop beneath goes on. *)
LEMMA CommandEndsKeeps == ASSUME Inv, CommandEnds PROVE Inv'
  <1>1. /\ current \in Tasks /\ GoTo(current, "loop") /\ stack[current] # <<>>
        /\ Top(current).at = "command"
        /\ UNCHANGED <<fg_console, read_q, secondary, current, wild>>
    BY DEF CommandEnds, Running, At, Inv, TypeOK
  <1>2. /\ stack' \in [Tasks -> Seq(Interrupts)]
        /\ \A u \in Tasks : Len(stack'[u]) = Len(stack[u])
        /\ \A u \in Tasks : u # current => stack'[u] = stack[u]
        /\ stack'[current] # <<>>
    BY <1>1, NewPlace DEF Inv
  <1>3. TypeOK'
    BY <1>1, <1>2 DEF Inv, TypeOK
  <1>4. Resting' /\ ZeroIsSecond'
    BY <1>1, <1>2 DEF Inv, Resting, ZeroIsSecond, Top
  <1> QED
    BY <1>1, <1>3, <1>4, QuietKeeps DEF At

(* The disk has answered: the loop that runs, if any, is that of task 0. *)
LEMMA DiskInterruptKeeps == ASSUME Inv, DiskInterrupt PROVE Inv'
  <1>1. /\ GoTo(1, "command") /\ stack[1] # <<>> /\ Top(1).at = "asleep"
        /\ UNCHANGED <<fg_console, read_q, secondary, current, wild>>
    BY DEF DiskInterrupt, Asleep, At
  <1>2. /\ stack' \in [Tasks -> Seq(Interrupts)]
        /\ \A u \in Tasks : Len(stack'[u]) = Len(stack[u])
        /\ stack'[0] = stack[0]
        /\ stack'[1] # <<>> /\ Last(stack'[1]).at = "command"
    BY <1>1, NewPlace DEF Inv
  <1>3. TypeOK'
    BY <1>1, <1>2 DEF Inv, TypeOK
  <1>4. Resting' /\ ZeroIsSecond'
    BY <1>1, <1>2 DEF Inv, Resting, ZeroIsSecond, Top
  <1>5. KeysTaken'
    <2>1. ASSUME NEW c \in Consoles, Pending(c)'
          PROVE  current # 1 /\ (At(current, "loop") /\ tty = c)' /\ c = fg_console /\ Len(read_q[c]) = 1
      <3>1. Pending(c)
        BY <2>1, <1>1 DEF Pending
      <3>2. At(current, "loop") /\ tty = c /\ c = fg_console /\ Len(read_q[c]) = 1
        BY <3>1 DEF Inv, KeysTaken
      <3>3. current = 0
        BY <3>2, <1>1 DEF At, Inv, TypeOK
      <3> QED
        BY <3>2, <3>3, <1>1, <1>2 DEF At, Top, tty
    <2> QED
      BY <2>1, <1>1 DEF KeysTaken
  <1> QED
    BY <1>3, <1>4, <1>5 DEF Inv

(* Task 0 gives the CPU back, at rest or in a command. *)
LEMMA ScheduleKeeps == ASSUME Inv, Schedule PROVE Inv'
  <1>1. /\ current = 0 /\ ~wild /\ current' = 1 /\ ~At(current, "loop")
        /\ UNCHANGED <<fg_console, read_q, secondary, stack, wild>>
    BY DEF Schedule, At
  <1>2. TypeOK' /\ Resting' /\ ZeroIsSecond'
    BY <1>1 DEF Inv, TypeOK, Resting, ZeroIsSecond, Top, At
  <1> QED
    BY <1>1, <1>2, QuietKeeps
-----------------------------------------------------------------------------
(* The invariant, for the specification with the record of what was typed. *)
THEOREM SpecInv == TypedSpec => []Inv
  <1>1. TypedInit => Inv
    BY DEF TypedInit, Init, Inv, TypeOK, KeysTaken, Pending, Resting, ZeroIsSecond
  <1>2. Inv /\ [TypedNext]_<<vars, typed>> => Inv'
    <2> SUFFICES ASSUME Inv, [TypedNext]_<<vars, typed>> PROVE Inv'
      OBVIOUS
    <2>1. CASE UNCHANGED <<vars, typed>>
      BY <2>1 DEF vars, Inv, TypeOK, KeysTaken, Pending, Resting, ZeroIsSecond, Top, At, tty
    <2>2. ASSUME NEW k \in Keys, Type(k) PROVE Inv'
      BY <2>2, KeyKeeps DEF Type
    <2>3. ASSUME NEW c \in Consoles, ChangeConsole(c) PROVE Inv'
      BY <2>3, ChangeConsoleKeeps
    <2>4. ASSUME NEW k \in Letters, PutChar(k) PROVE Inv'
      BY <2>4, PutCharKeeps
    <2>5. CASE GiveLine
      BY <2>5, NewlineKeeps DEF GiveLine
    <2>6. CASE EraseChar \/ KillLine \/ Leave
      BY <2>6, EraseCharKeeps, KillLineKeeps, LeaveKeeps
    <2>7. CASE SleepOnDisk \/ NoDirectory \/ CommandEnds
      BY <2>7, SleepOnDiskKeeps, NoDirectoryKeeps, CommandEndsKeeps
    <2>8. CASE DiskInterrupt \/ Schedule
      BY <2>8, DiskInterruptKeeps, ScheduleKeeps
    <2> QED
      BY <2>1, <2>2, <2>3, <2>4, <2>5, <2>6, <2>7, <2>8 DEF TypedNext
  <1> QED
    BY <1>1, <1>2, PTL DEF TypedSpec

(* Queues, stacks and consoles keep their bounds. *)
THEOREM SpecTypeOK == TypedSpec => []TypeOK
  <1>1. Inv => TypeOK
    BY DEF Inv
  <1> QED
    BY <1>1, SpecInv, PTL

(* shell_manage, which takes the line of the console that is shown, takes  *)
(* that of the console copy_to_cooked works for.                           *)
THEOREM SpecLineIsTheConsoles == TypedSpec => []LineIsTheConsoles
  <1>1. Inv => LineIsTheConsoles
    <2> SUFFICES ASSUME Inv, Looping, MayTake, Head(read_q[tty]) = "newline" PROVE tty = fg_console
      BY DEF LineIsTheConsoles
    <2>2. current \in Tasks /\ stack[current] # <<>> /\ stack[current] \in Seq(Interrupts)
      BY DEF Inv, TypeOK, Looping, At
    <2>3. Top(current) \in Interrupts
      BY <2>2, Sequence DEF Top
    <2>4. tty \in Consoles
      BY <2>3 DEF tty, Interrupts
    <2> QED
      BY <2>4 DEF Inv, KeysTaken, Pending, MayTake
  <1> QED
    BY <1>1, SpecInv, PTL

(* A command that goes through the NULL directory of task 0 was entered     *)
(* while another command had not ended.                                     *)
THEOREM SpecWildNeedsASleeper == TypedSpec => []WildNeedsASleeper
  <1>1. Inv => WildNeedsASleeper
    BY DEF Inv, ZeroIsSecond, WildNeedsASleeper
  <1> QED
    BY <1>1, SpecInv, PTL
-----------------------------------------------------------------------------
(* A set of numbers that is not empty has a least one. *)
LEMMA Least ==
  ASSUME NEW T, T \subseteq Nat, T # {}
  PROVE  \E x \in T : \A y \in T : x <= y
  <1> DEFINE F == {0 .. x : x \in T}
  <1>1. F \subseteq FiniteSubsetsOf(Nat) /\ F # {}
    <2>1. ASSUME NEW x \in T PROVE 0 .. x \in SUBSET Nat /\ IsFiniteSet(0 .. x)
      <3>1. x \in Int /\ 0 \in Int
        OBVIOUS
      <3>2. IsFiniteSet(0 .. x)
        BY <3>1, FS_Interval
      <3> QED
        BY <3>2
    <2> QED
      BY <2>1 DEF FiniteSubsetsOf
  <1>2. PICK U \in F : \A V \in F : <<V, U>> \notin StrictSubsetOrdering(Nat)
    <2>1. IsWellFoundedOn(StrictSubsetOrdering(Nat), FiniteSubsetsOf(Nat))
      BY FS_StrictSubsetOrderingWellFounded
    <2> HIDE DEF F
    <2> QED
      BY <1>1, <2>1, WFMin, Zenon
  <1>3. PICK x \in T : U = 0 .. x
    OBVIOUS
  <1>4. ASSUME NEW y \in T, y < x PROVE FALSE
    <2>1. <<0 .. y, 0 .. x>> \notin StrictSubsetOrdering(Nat)
      BY <1>2, <1>3
    <2>2. 0 .. y \subseteq 0 .. x /\ x \in 0 .. x /\ x \notin 0 .. y /\ 0 .. x \subseteq Nat
      BY <1>4
    <2> QED
      BY <2>1, <2>2, Zenon DEF StrictSubsetOrdering
  <1> QED
    BY <1>4

(* A set that has 0 and with a number the next has all, up to a bound. *)
LEMMA UpTo ==
  ASSUME NEW N \in Nat, NEW P, 0 \in P, \A k \in 0 .. N : k \in P /\ k < N => k + 1 \in P
  PROVE  \A k \in 0 .. N : k \in P
  <1> DEFINE T == {k \in 0 .. N : k \notin P}
  <1> SUFFICES ASSUME T # {} PROVE FALSE
    OBVIOUS
  <1>1. T \subseteq Nat
    OBVIOUS
  <1>2. PICK x \in T : \A y \in T : x <= y
    <2> HIDE DEF T
    <2> QED
      BY <1>1, Least
  <1>3. x # 0
    OBVIOUS
  <1>4. x - 1 \in 0 .. N /\ x - 1 \notin T
    BY <1>2, <1>3
  <1> QED
    BY <1>4

(* Working keys into a line, one after the other. *)
Fold(b, s) == FoldLeft(Edited, b, s)
Folding(f, b, s, D) == f = [S \in SUBSET D |->
  IF S = {} THEN b ELSE Edited(f[S \ {Max(S)}], s[Max(S)])]

(* It is defined over the sets of the places in s, the last place first. *)
LEMMA FoldIs ==
  ASSUME NEW b, NEW s
  PROVE  Fold(b, s) = (CHOOSE f : Folding(f, b, s, DOMAIN s))[DOMAIN s]
  BY DEF Fold, FoldLeft, MapThenFoldSet, Folding

(* The greatest of some places. *)
LEMMA MaxPlace ==
  /\ \A m \in Nat : \A S \in SUBSET (1 .. m + 1) : m + 1 \in S => Max(S) = m + 1
  /\ \A m \in Nat : \A S \in SUBSET (1 .. m) : S # {} => Max(S) \in S
  <1>1. ASSUME NEW m \in Nat, NEW S \in SUBSET (1 .. m + 1), m + 1 \in S PROVE Max(S) = m + 1
    <2>1. \A y \in S : m + 1 >= y
      OBVIOUS
    <2>2. \A x \in S : (\A y \in S : x >= y) => x = m + 1
      BY <1>1
    <2> QED
      BY <1>1, <2>1, <2>2 DEF Max
  <1>2. \A m \in Nat : \A S \in SUBSET (1 .. m) : S # {} => Max(S) \in S
    <2> DEFINE P(m) == \A S \in SUBSET (1 .. m) : S # {} => Max(S) \in S
    <2> SUFFICES ASSUME NEW N \in Nat PROVE P(N)
      OBVIOUS
    <2>1. P(0)
      <3>1. \A S \in SUBSET (1 .. 0) : \A x \in S : x \in 1 .. 0
        OBVIOUS
      <3>2. \A x : x \notin 1 .. 0
        OBVIOUS
      <3>3. \A S \in SUBSET (1 .. 0) : S = {}
        BY <3>1, <3>2, Zenon
      <3> QED
        BY <3>3
    <2>2. ASSUME NEW m \in 0 .. N, P(m), m < N PROVE P(m + 1)
      <3> SUFFICES ASSUME NEW S \in SUBSET (1 .. m + 1), S # {} PROVE Max(S) \in S
        OBVIOUS
      <3>1. CASE m + 1 \in S
        <4>1. Max(S) = m + 1
          BY <1>1, <3>1
        <4> QED
          BY <3>1, <4>1
      <3>2. CASE m + 1 \notin S
        <4>1. S \in SUBSET (1 .. m)
          BY <3>2
        <4> QED
          BY <2>2, <4>1
      <3> QED
        BY <3>1, <3>2
    <2> DEFINE Q == {m \in 0 .. N : P(m)}
    <2>3. 0 \in Q /\ \A k \in 0 .. N : k \in Q /\ k < N => k + 1 \in Q
      <3> HIDE DEF P
      <3> QED
        BY <2>1, <2>2
    <2>4. \A k \in 0 .. N : k \in Q
      <3> HIDE DEF Q
      <3> QED
        BY <2>3, UpTo
    <2>5. N \in Q
      <3> HIDE DEF Q
      <3> QED
        BY <2>4
    <2> HIDE DEF P
    <2> QED
      BY <2>5
  <1> QED
    BY <1>1, <1>2

(* There is such a function. *)
LEMMA FoldExists ==
  ASSUME NEW b, NEW s, NEW N \in Nat
  PROVE  \E f : Folding(f, b, s, 1 .. N)
  <1> DEFINE P == {m \in 0 .. N : \E f : Folding(f, b, s, 1 .. m)}
  <1>1. 0 \in P
    <2> DEFINE f == [S \in SUBSET (1 .. 0) |-> b]
    <2>1. \A S \in SUBSET (1 .. 0) : S = {}
      OBVIOUS
    <2>2. Folding(f, b, s, 1 .. 0)
      BY <2>1 DEF Folding
    <2> QED
      BY <2>2
  <1>2. ASSUME NEW m \in 0 .. N, m \in P, m < N PROVE m + 1 \in P
    <2>1. PICK f : Folding(f, b, s, 1 .. m)
      BY <1>2
    <2>2. \A S \in SUBSET (1 .. m) : f[S] = IF S = {} THEN b ELSE Edited(f[S \ {Max(S)}], s[Max(S)])
      BY <2>1 DEF Folding
    <2> DEFINE g == [S \in SUBSET (1 .. m + 1) |->
                      IF m + 1 \in S THEN Edited(f[S \ {m + 1}], s[m + 1]) ELSE f[S]]
    <2>3. m + 1 \in 0 .. N /\ m + 1 \notin 1 .. m /\ 1 .. m \subseteq 1 .. m + 1
          /\ \A x \in 1 .. m + 1 : x # m + 1 => x \in 1 .. m
      BY <1>2
    <2>4. ASSUME NEW S \in SUBSET (1 .. m + 1)
          PROVE  g[S] = IF S = {} THEN b ELSE Edited(g[S \ {Max(S)}], s[Max(S)])
      <3>1. CASE m + 1 \in S
        <4>1. Max(S) = m + 1 /\ S # {}
          BY <3>1, MaxPlace
        <4>2. S \ {m + 1} \in SUBSET (1 .. m + 1) /\ m + 1 \notin S \ {m + 1}
          OBVIOUS
        <4>3. S \ {m + 1} \in SUBSET (1 .. m)
          BY <2>3
        <4>4. g[S \ {m + 1}] = f[S \ {m + 1}]
          BY <4>2
        <4> QED
          BY <3>1, <4>1, <4>4
      <3>2. CASE m + 1 \notin S
        <4>1. S \in SUBSET (1 .. m) /\ g[S] = f[S]
          BY <2>3, <3>2
        <4>2. S # {} => S \ {Max(S)} \in SUBSET (1 .. m + 1) /\ m + 1 \notin S \ {Max(S)}
          BY <3>2
        <4>3. S # {} => g[S \ {Max(S)}] = f[S \ {Max(S)}]
          BY <4>2
        <4> QED
          BY <2>2, <4>1, <4>3
      <3> QED
        BY <3>1, <3>2
    <2>5. Folding(g, b, s, 1 .. m + 1)
      <3>1. g = [S \in SUBSET (1 .. m + 1) |-> g[S]]
        OBVIOUS
      <3> HIDE DEF g
      <3> QED
        BY <2>4, <3>1 DEF Folding
    <2> QED
      BY <2>3, <2>5
  <1>3. \A m \in 0 .. N : m \in P
    <2> HIDE DEF P
    <2> QED
      BY <1>1, <1>2, UpTo
  <1> QED
    BY <1>3

(* So the fold is step by step what Edited makes of it. *)
Steps(b, s) == \E g : /\ g[0] = b
                      /\ \A k \in 1 .. Len(s) : g[k] = Edited(g[k - 1], s[k])
                      /\ Fold(b, s) = g[Len(s)]
(* There are such steps for every line. *)
LEMMA FoldSteps ==
  ASSUME NEW b, NEW S, NEW s \in Seq(S)
  PROVE  Steps(b, s)
  <1>1. Len(s) \in Nat /\ DOMAIN s = 1 .. Len(s)
    OBVIOUS
  <1>2. PICK n \in Nat : n = Len(s)
    BY <1>1
  <1>3. PICK f : Folding(f, b, s, 1 .. n) /\ Fold(b, s) = f[1 .. n]
    <2>1. Folding(CHOOSE f : Folding(f, b, s, 1 .. n), b, s, 1 .. n)
      BY FoldExists
    <2> QED
      BY <1>1, <1>2, <2>1, FoldIs
  <1>4. \A T \in SUBSET (1 .. n) : f[T] = IF T = {} THEN b ELSE Edited(f[T \ {Max(T)}], s[Max(T)])
    BY <1>3 DEF Folding
  <1> DEFINE g == [k \in 0 .. n |-> f[1 .. k]]
  <1>5. g[0] = b
    <2>1. 0 \in 0 .. n /\ {} \in SUBSET (1 .. n)
      OBVIOUS
    <2>2. \A x : x \notin 1 .. 0
      OBVIOUS
    <2>3. 1 .. 0 = {}
      BY <2>2, Zenon
    <2>4. g[0] = f[1 .. 0]
      BY <2>1
    <2> HIDE DEF g
    <2> QED
      BY <1>4, <2>1, <2>3, <2>4
  <1>6. ASSUME NEW k \in 1 .. n PROVE g[k] = Edited(g[k - 1], s[k])
    <2>1. /\ k \in 0 .. n /\ k - 1 \in 0 .. n /\ k - 1 \in Nat /\ (k - 1) + 1 = k /\ k \in 1 .. k
          /\ \A x \in 1 .. k : x \in 1 .. n
          /\ \A x : x \in 1 .. k /\ x # k <=> x \in 1 .. k - 1
      OBVIOUS
    <2>2. 1 .. k \in SUBSET (1 .. n) /\ 1 .. k # {} /\ (1 .. k) \ {k} = 1 .. k - 1
      <3>1. (1 .. k) \ {k} = 1 .. k - 1
        BY <2>1, Zenon
      <3>2. 1 .. k \subseteq 1 .. n /\ 1 .. k # {}
        BY <2>1, Zenon
      <3> QED
        BY <3>1, <3>2
    <2>3. Max(1 .. k) = k
      <3>1. PICK j \in Nat : j + 1 = k
        BY <2>1
      <3>2. PICK T : T = 1 .. k
        OBVIOUS
      <3>3. T \in SUBSET (1 .. j + 1) /\ j + 1 \in T
        BY <2>1, <3>1, <3>2
      <3>4. Max(T) = j + 1
        BY <3>3, MaxPlace
      <3> QED
        BY <3>1, <3>2, <3>4
    <2>4. f[1 .. k] = Edited(f[(1 .. k) \ {k}], s[k])
      BY <1>4, <2>2, <2>3, Zenon
    <2>5. g[k] = f[1 .. k] /\ g[k - 1] = f[1 .. k - 1]
      BY <2>1
    <2> HIDE DEF g
    <2> QED
      BY <2>2, <2>4, <2>5
  <1>7. g[n] = f[1 .. n]
    BY <1>2
  <1> HIDE DEF g
  <1> QED
    BY <1>2, <1>3, <1>5, <1>6, <1>7 DEF Steps

(* No key, and one more. *)
LEMMA FoldAppend ==
  ASSUME NEW b, NEW S, NEW s \in Seq(S), NEW k \in S
  PROVE  Fold(b, Append(s, k)) = Edited(Fold(b, s), k)
  <1> DEFINE t == Append(s, k)
  <1>1. /\ Len(s) \in Nat /\ t \in Seq(S) /\ Len(t) = Len(s) + 1 /\ t[Len(s) + 1] = k
        /\ \A i \in 1 .. Len(s) : t[i] = s[i]
    OBVIOUS
  <1> HIDE DEF t
  <1>2. PICK n \in Nat : n = Len(s)
    BY <1>1
  <1>3. PICK g : g[0] = b /\ (\A i \in 1 .. n : g[i] = Edited(g[i - 1], s[i])) /\ Fold(b, s) = g[n]
    BY <1>2, FoldSteps DEF Steps
  <1>4. PICK h : h[0] = b /\ (\A i \in 1 .. n + 1 : h[i] = Edited(h[i - 1], t[i])) /\ Fold(b, t) = h[n + 1]
    BY <1>1, <1>2, FoldSteps DEF Steps
  <1> DEFINE P == {i \in 0 .. n : h[i] = g[i]}
  <1>5. 0 \in P
    BY <1>3, <1>4
  <1>6. ASSUME NEW i \in 0 .. n, i \in P, i < n PROVE i + 1 \in P
    <2>1. i + 1 \in 1 .. n /\ i + 1 \in 1 .. n + 1 /\ i + 1 \in 0 .. n /\ (i + 1) - 1 = i
      BY <1>6
    <2>2. h[i + 1] = Edited(h[i], t[i + 1]) /\ g[i + 1] = Edited(g[i], s[i + 1])
      BY <1>3, <1>4, <2>1
    <2>3. t[i + 1] = s[i + 1] /\ h[i] = g[i]
      BY <1>1, <1>2, <1>6, <2>1
    <2> QED
      BY <2>1, <2>2, <2>3
  <1>7. \A i \in 0 .. n : i \in P
    <2> HIDE DEF P
    <2> QED
      BY <1>5, <1>6, UpTo
  <1>8. h[n] = g[n]
    BY <1>7
  <1>9. n + 1 \in 1 .. n + 1 /\ (n + 1) - 1 = n
    OBVIOUS
  <1>10. h[n + 1] = Edited(h[n], t[n + 1])
    BY <1>4, <1>9
  <1> QED
    BY <1>1, <1>2, <1>3, <1>4, <1>8, <1>10 DEF t

(* Of an empty queue, and of one key. *)
LEMMA FoldFew ==
  ASSUME NEW b
  PROVE  Fold(b, <<>>) = b /\ \A k : Fold(b, <<k>>) = Edited(b, k)
  <1>1. Fold(b, <<>>) = b
    <2>1. <<>> \in Seq({}) /\ Len(<<>>) = 0
      OBVIOUS
    <2>2. Steps(b, <<>>)
      BY <2>1, FoldSteps
    <2> QED
      BY <2>1, <2>2 DEF Steps
  <1>2. ASSUME NEW k PROVE Fold(b, <<k>>) = Edited(b, k)
    <2>1. <<>> \in Seq({k}) /\ k \in {k} /\ Append(<<>>, k) = <<k>>
      OBVIOUS
    <2>2. Fold(b, Append(<<>>, k)) = Edited(Fold(b, <<>>), k)
      BY <2>1, FoldAppend
    <2> QED
      BY <1>1, <2>1, <2>2
  <1> QED
    BY <1>1, <1>2

-----------------------------------------------------------------------------
(* What a key does to a line that has not ended. *)
LEMMA EditedLine ==
  ASSUME NEW s \in Seq(Letters)
  PROVE  /\ Edited(s, "erase") = IF s = <<>> THEN s ELSE Front(s)
         /\ Edited(s, "kill") = <<>>
         /\ \A k \in Letters \union {"newline"} : Edited(s, k) = Append(s, k)
  <1>1. "newline" \notin ToSet(s)
    BY DEF ToSet, Letters
  <1>2. Len(s) \in Nat /\ (Len(s) = 0 <=> s = <<>>)
    BY NotEmpty
  <1>3. Edited(s, "erase") = IF Len(s) = 0 THEN s ELSE Front(s)
    BY <1>1 DEF Edited
  <1>4. Edited(s, "kill") = SubSeq(s, 1, Len(s) - Len(s))
    BY <1>1 DEF Edited
  <1>5. SubSeq(s, 1, Len(s) - Len(s)) = <<>>
    BY <1>2
  <1>6. ASSUME NEW k \in Letters \union {"newline"} PROVE Edited(s, k) = Append(s, k)
    <2>1. k # "erase" /\ k # "kill"
      BY DEF Letters
    <2> QED
      BY <2>1 DEF Edited
  <1> QED
    BY <1>2, <1>3, <1>4, <1>5, <1>6

(* The line and what follows its newline: nothing. *)
LEMMA LineEnds ==
  ASSUME NEW s \in Seq(Letters), NEW t, t = Append(s, "newline")
  PROVE  SubSeq(t, SelectInSeq(t, LAMBDA k : k = "newline") + 1, Len(t)) = <<>>
  <1>1. PICK n \in Nat : n = Len(s)
    OBVIOUS
  <1>2. /\ t \in Seq(Letters \union {"newline"}) /\ Len(t) = n + 1 /\ t[n + 1] = "newline"
        /\ \A i \in 1 .. n : t[i] \in Letters
    BY <1>1
  <1>3. {i \in 1 .. Len(t) : t[i] = "newline"} = {n + 1}
    BY <1>2 DEF Letters
  <1>4. Min({n + 1}) = n + 1
    BY DEF Min
  <1>5. SubSeq(t, (n + 1) + 1, Len(t)) = <<>>
    BY <1>2
  <1> QED
    BY <1>3, <1>4, <1>5 DEF SelectInSeq

(* What is typed is what the queues hold. *)
Cooked == /\ typed = [c \in Consoles |-> typed[c]]
          /\ \A c \in Consoles : Fold(secondary[c], read_q[c]) = typed[c]
(* It is what is to be shown. *)
LEMMA CookedIs == Cooked => CookedIsTyped
  BY DEF Cooked, CookedIsTyped, Fold

(* put_queue adds a key to the end of the queue, or loses it. *)
LEMMA TypeCooked ==
  ASSUME Inv, Cooked, NEW k \in Keys, Type(k)
  PROVE  Cooked'
  <1>1. /\ fg_console \in Consoles /\ secondary' = secondary
        /\ read_q \in [Consoles -> Seq(Keys)]
    BY DEF Type, Key, Inv, TypeOK
  <1>2. CASE AcceptsKey
    <2>1. /\ read_q' = [read_q EXCEPT ![fg_console] = Append(read_q[fg_console], k)]
          /\ typed' = [typed EXCEPT ![fg_console] = Edited(typed[fg_console], k)]
      BY <1>2 DEF Type, Key, AcceptsKey
    <2>2. /\ typed' = [c \in Consoles |-> typed'[c]]
          /\ \A c \in Consoles : typed'[c] = IF c = fg_console THEN Edited(typed[c], k) ELSE typed[c]
      BY <1>1, <2>1 DEF Cooked
    <2>3. ASSUME NEW c \in Consoles PROVE Fold(secondary'[c], read_q'[c]) = typed'[c]
      <3>1. CASE c = fg_console
        <4>1. read_q'[c] = Append(read_q[c], k) /\ read_q[c] \in Seq(Keys)
          BY <1>1, <2>1, <3>1
        <4>2. Fold(secondary[c], Append(read_q[c], k)) = Edited(Fold(secondary[c], read_q[c]), k)
          BY <4>1, FoldAppend
        <4>3. Fold(secondary[c], read_q[c]) = typed[c]
          BY DEF Cooked
        <4> QED
          BY <1>1, <2>2, <3>1, <4>1, <4>2, <4>3
      <3>2. CASE c # fg_console
        <4>1. read_q'[c] = read_q[c]
          BY <1>1, <2>1, <3>2
        <4> QED
          BY <1>1, <2>2, <3>2, <4>1 DEF Cooked
      <3> QED
        BY <3>1, <3>2
    <2> QED
      BY <2>2, <2>3 DEF Cooked
  <1>3. CASE ~AcceptsKey
    <2>1. read_q' = read_q /\ typed' = typed
      BY <1>3 DEF Type, Key, AcceptsKey
    <2> QED
      BY <1>1, <2>1 DEF Cooked
  <1> QED
    BY <1>2, <1>3

(* The loop finds one key in the queue, and its line changes as the key     *)
(* would have it.                                                           *)
LEMMA TakeCooked ==
  ASSUME Inv, Cooked, NEW k, Take(k), NEW s,
         secondary' = [secondary EXCEPT ![tty] = s],
         \/ typed' = typed /\ s = Edited(secondary[tty], k)
         \/ typed' = [typed EXCEPT ![tty] = s]
  PROVE  Cooked'
  <1>1. /\ tty \in Consoles /\ read_q'[tty] = <<>>
        /\ \A c \in Consoles : c # tty => read_q'[c] = read_q[c]
        /\ secondary \in [Consoles -> Seq(Letters)]
    BY TakeFinds DEF Inv, TypeOK
  <1>2. read_q[tty] \in Seq(Keys) /\ Len(read_q[tty]) = 1 /\ Head(read_q[tty]) = k
    <2>1. Pending(tty) /\ read_q[tty] \in Seq(Keys) /\ Head(read_q[tty]) = k
      BY <1>1 DEF Take, MayTake, Pending, Inv, TypeOK
    <2> QED
      BY <1>1, <2>1 DEF Inv, KeysTaken
  <1>3. read_q[tty] = <<k>>
    BY <1>2
  <1>4. Edited(secondary[tty], k) = typed[tty]
    BY <1>1, <1>3, FoldFew DEF Cooked
  <1>5. \A c \in Consoles : secondary'[c] = IF c = tty THEN s ELSE secondary[c]
    BY <1>1
  <1>6. /\ typed' = [c \in Consoles |-> typed'[c]]
        /\ \A c \in Consoles : typed'[c] = IF c = tty THEN s ELSE typed[c]
    BY <1>1, <1>4 DEF Cooked
  <1>7. ASSUME NEW c \in Consoles PROVE Fold(secondary'[c], read_q'[c]) = typed'[c]
    <2>1. CASE c = tty
      BY <1>1, <1>5, <1>6, <2>1, FoldFew
    <2>2. CASE c # tty
      BY <1>1, <1>5, <1>6, <2>2 DEF Cooked
    <2> QED
      BY <2>1, <2>2
  <1> QED
    BY <1>6, <1>7 DEF Cooked

(* The shell takes the line and its newline, which is all that was typed. *)
LEMMA GiveLineCooked ==
  ASSUME Inv, Cooked, GiveLine
  PROVE  Cooked'
  <1>1. /\ Take("newline") /\ tty \in Consoles /\ tty = fg_console
        /\ secondary' = [secondary EXCEPT ![tty] = <<>>]
        /\ secondary[tty] \in Seq(Letters)
    BY TakeFinds DEF GiveLine, Newline, Inv, TypeOK
  <1>2. Pending(tty) /\ read_q[tty] \in Seq(Keys) /\ Head(read_q[tty]) = "newline"
    BY <1>1 DEF Take, MayTake, Pending, Inv, TypeOK
  <1>3. Len(read_q[tty]) = 1
    BY <1>1, <1>2 DEF Inv, KeysTaken
  <1>4. read_q[tty] = <<"newline">>
    BY <1>2, <1>3
  <1>5. typed[tty] = Append(secondary[tty], "newline")
    <2>1. Edited(secondary[tty], "newline") = Append(secondary[tty], "newline")
      BY <1>1, EditedLine
    <2> QED
      BY <1>1, <1>4, <2>1, FoldFew DEF Cooked
  <1>6. SubSeq(typed[tty], SelectInSeq(typed[tty], LAMBDA k : k = "newline") + 1, Len(typed[tty])) = <<>>
    BY <1>1, <1>5, LineEnds
  <1>7. typed' = [typed EXCEPT ![tty] = <<>>]
    BY <1>6 DEF GiveLine
  <1> QED
    BY <1>1, <1>7, TakeCooked

(* The line that the shell takes is the line on the screen: whatever keys,  *)
(* consoles and commands come between, the queues hold what was typed.      *)
THEOREM SpecCookedIsTyped == TypedSpec => []CookedIsTyped
  <1>1. TypedInit => Cooked
    <2> SUFFICES ASSUME TypedInit PROVE Cooked
      OBVIOUS
    <2>1. /\ typed = [c \in Consoles |-> <<>>] /\ read_q = [c \in Consoles |-> <<>>]
          /\ secondary = [c \in Consoles |-> <<>>]
      BY DEF TypedInit, Init
    <2>2. \A c \in Consoles : Fold(secondary[c], read_q[c]) = typed[c]
      BY <2>1, FoldFew
    <2> QED
      BY <2>1, <2>2 DEF Cooked
  <1>2. Inv /\ Cooked /\ [TypedNext]_<<vars, typed>> => Cooked'
    <2> SUFFICES ASSUME Inv, Cooked, [TypedNext]_<<vars, typed>> PROVE Cooked'
      OBVIOUS
    <2>1. CASE UNCHANGED <<read_q, secondary, typed>>
      BY <2>1 DEF Cooked
    <2>2. ASSUME NEW k \in Keys, Type(k) PROVE Cooked'
      BY <2>2, TypeCooked
    <2>3. ASSUME NEW k \in Letters, PutChar(k), UNCHANGED typed PROVE Cooked'
      <3>1. /\ Take(k) /\ secondary' = [secondary EXCEPT ![tty] = Append(secondary[tty], k)]
            /\ secondary[tty] \in Seq(Letters)
        BY <2>3, TakeFinds DEF PutChar, Inv, TypeOK
      <3>2. Append(secondary[tty], k) = Edited(secondary[tty], k)
        BY <3>1, EditedLine
      <3> QED
        BY <2>3, <3>1, <3>2, TakeCooked
    <2>4. CASE EraseChar /\ UNCHANGED typed
      <3>1. PICK s : s = IF secondary[tty] = <<>> THEN secondary[tty] ELSE Front(secondary[tty])
        OBVIOUS
      <3>2. /\ Take("erase") /\ secondary' = [secondary EXCEPT ![tty] = s]
            /\ secondary[tty] \in Seq(Letters)
        BY <2>4, <3>1, TakeFinds DEF EraseChar, Inv, TypeOK
      <3>3. s = Edited(secondary[tty], "erase")
        BY <3>1, <3>2, EditedLine
      <3> QED
        BY <2>4, <3>2, <3>3, TakeCooked
    <2>5. CASE KillLine /\ UNCHANGED typed
      <3>1. /\ Take("kill") /\ secondary' = [secondary EXCEPT ![tty] = <<>>]
            /\ secondary[tty] \in Seq(Letters)
        BY <2>5, TakeFinds DEF KillLine, Inv, TypeOK
      <3>2. <<>> = Edited(secondary[tty], "kill")
        BY <3>1, EditedLine
      <3> QED
        BY <2>5, <3>1, <3>2, TakeCooked
    <2>6. CASE GiveLine
      BY <2>6, GiveLineCooked
    <2>7. ASSUME NEW c \in Consoles, ChangeConsole(c), UNCHANGED typed PROVE Cooked'
      BY <2>1, <2>7 DEF ChangeConsole
    <2>8. CASE (Leave \/ SleepOnDisk \/ NoDirectory \/ CommandEnds \/ DiskInterrupt \/ Schedule) /\ UNCHANGED typed
      BY <2>1, <2>8 DEF Leave, SleepOnDisk, NoDirectory, CommandEnds, DiskInterrupt, Schedule
    <2>9. CASE UNCHANGED <<vars, typed>>
      BY <2>1, <2>9 DEF vars
    <2> QED
      BY <2>2, <2>3, <2>4, <2>5, <2>6, <2>7, <2>8, <2>9 DEF TypedNext
  <1> QED
    BY <1>1, <1>2, SpecInv, CookedIs, PTL DEF TypedSpec
=============================================================================
