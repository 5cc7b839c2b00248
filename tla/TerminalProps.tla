--------------------------- MODULE TerminalProps ---------------------------
(* What the user sees of the consoles. *)
EXTENDS Terminal, SequencesExt

VARIABLE typed  \* typed[c]: what stands in the lines of console c, as typed

(* What a key does to the lines on the screen: nothing reaches back over a *)
(* newline.                                                                *)
LastLine(s) == SelectInSeq(Reverse(s), LAMBDA k : k = "newline")
Edited(s, k) ==
  LET open == IF "newline" \in ToSet(s) THEN LastLine(s) - 1 ELSE Len(s) IN
  CASE k = "erase" -> IF open = 0 THEN s ELSE Front(s)
    [] k = "kill" -> SubSeq(s, 1, Len(s) - open)
    [] OTHER -> Append(s, k)

AcceptsKey == ~QUEUE_FULL(read_q[fg_console], ReadSize)
Type(k) ==
  /\ Key(k)
  /\ typed' = IF AcceptsKey THEN [typed EXCEPT ![fg_console] = Edited(@, k)] ELSE typed
GiveLine ==
  /\ Newline
  /\ typed' = [typed EXCEPT ![tty] = SubSeq(@, SelectInSeq(@, LAMBDA k : k = "newline") + 1, Len(@))]

TypedInit == Init /\ typed = [c \in Consoles |-> <<>>]
TypedNext ==
  \/ \E k \in Keys : Type(k)
  \/ GiveLine
  \/ \E c \in Consoles : ChangeConsole(c) /\ UNCHANGED typed
  \/ \E k \in Letters : PutChar(k) /\ UNCHANGED typed
  \/ EraseChar /\ UNCHANGED typed
  \/ KillLine /\ UNCHANGED typed
  \/ Leave /\ UNCHANGED typed
  \/ SleepOnDisk /\ UNCHANGED typed
  \/ NoDirectory /\ UNCHANGED typed
  \/ CommandEnds /\ UNCHANGED typed
  \/ DiskInterrupt /\ UNCHANGED typed
  \/ Schedule /\ UNCHANGED typed
TypedSpec == TypedInit /\ [][TypedNext]_<<vars, typed>>

(* The secondary queue, and the keys that wait to be worked into it, are    *)
(* what the user has typed, on each console, however interrupts nest and    *)
(* consoles change: so the line the shell takes is the line on the screen.  *)
CookedIsTyped == \A c \in Consoles : FoldLeft(Edited, secondary[c], read_q[c]) = typed[c]
LineIsTheConsoles == Looping /\ MayTake /\ Head(read_q[tty]) = "newline" => tty = fg_console

(* A command goes wrong only when it is entered while another one has not   *)
(* ended: task 0 has the CPU while a command of task 1 sleeps and at no    *)
(* other time (tty_io.c:375).                                              *)
WildNeedsASleeper == wild => stack[1] # <<>>
=============================================================================
