--------------------------- MODULE BlockIO_proofs ---------------------------
(***************************************************************************)
(* The block layer keeps its types, its slots and its buffer locks in      *)
(* order, for any number of tasks, buffers and slots: IInv is inductive.   *)
(*                                                                         *)
(* The steps fall into few kinds: most change no slot, lock or owner       *)
(* (SameOwners) or only move a task about (Move), six end the current      *)
(* request (EndRequest), and four hand a lock or a slot on.                *)
(***************************************************************************)
EXTENDS BlockIOProps, TLAPS

(* Sequences without repetition: what taking the head off, and inserting an *)
(* element, do to their elements.                                           *)
Once(q) == \A i, j \in DOMAIN q : q[i] = q[j] => i = j

(* Without its head, such a sequence holds everything else. *)
LEMMA TailOnce ==
  ASSUME NEW S, NEW q \in Seq(S), q # <<>>, Once(q)
  PROVE  /\ Tail(q) \in Seq(S) /\ Once(Tail(q))
         /\ ToSet(Tail(q)) = ToSet(q) \ {Head(q)}
         /\ Head(q) \in S /\ Head(q) \in ToSet(q)
  <1>1. /\ Len(q) \in Nat \ {0} /\ DOMAIN q = 1 .. Len(q) /\ Head(q) = q[1]
        /\ \A i \in 1 .. Len(q) : q[i] \in S
    OBVIOUS
  <1>2. /\ Tail(q) \in Seq(S) /\ Len(Tail(q)) = Len(q) - 1
        /\ DOMAIN Tail(q) = 1 .. Len(q) - 1
        /\ \A i \in 1 .. Len(q) - 1 : Tail(q)[i] = q[i + 1]
    OBVIOUS
  <1>3. Once(Tail(q))
    BY <1>1, <1>2 DEF Once
  <1>4. ToSet(Tail(q)) = ToSet(q) \ {Head(q)}
    <2>1. ASSUME NEW x \in ToSet(Tail(q)) PROVE x \in ToSet(q) \ {Head(q)}
      BY <1>1, <1>2 DEF Once, ToSet
    <2>2. ASSUME NEW x \in ToSet(q), x # Head(q) PROVE x \in ToSet(Tail(q))
      <3>1. PICK i \in 1 .. Len(q) : q[i] = x
        BY <1>1 DEF ToSet
      <3>2. i - 1 \in 1 .. Len(q) - 1 /\ Tail(q)[i - 1] = x
        BY <3>1, <2>2, <1>1, <1>2
      <3> QED
        BY <3>2, <1>2 DEF ToSet
    <2> QED
      BY <2>1, <2>2
  <1>5. Head(q) \in ToSet(q)
    <2>1. 1 \in DOMAIN q
      BY <1>1
    <2> QED
      BY <2>1, <1>1 DEF ToSet
  <1> QED
    BY <1>1, <1>2, <1>3, <1>4, <1>5

(* A new element, inserted anywhere, is all that is added. *)
LEMMA InsertOnce ==
  ASSUME NEW S, NEW q \in Seq(S), Once(q), NEW x \in S, x \notin ToSet(q),
         NEW k \in 1 .. Len(q) + 1
  PROVE  /\ InsertAt(q, k, x) \in Seq(S) /\ Once(InsertAt(q, k, x))
         /\ ToSet(InsertAt(q, k, x)) = ToSet(q) \union {x}
  <1> DEFINE new == InsertAt(q, k, x)
             n == Len(q)
  <1>1. n \in Nat /\ DOMAIN q = 1 .. n /\ \A i \in 1 .. n : q[i] \in S
    OBVIOUS
  <1> DEFINE start == SubSeq(q, 1, k - 1)
  <1>2. start \in Seq(S) /\ Len(start) = k - 1 /\ \A i \in 1 .. k - 1 : start[i] = q[i]
    BY <1>1
  <1> DEFINE back == SubSeq(q, k, n)
  <1>3. /\ back \in Seq(S) /\ Len(back) = n - k + 1
        /\ \A i \in 1 .. n - k + 1 : back[i] = q[k + i - 1]
    BY <1>1
  <1> DEFINE front == start \o <<x>>
  <1>4. new = front \o back
    BY DEF InsertAt
  <1> HIDE DEF start, back, new
  <1>5. /\ front \in Seq(S) /\ Len(front) = k
        /\ \A i \in 1 .. k : front[i] = IF i < k THEN q[i] ELSE x
    BY <1>1, <1>2
  <1> HIDE DEF front
  <1>6. new \in Seq(S) /\ Len(new) = n + 1 /\ DOMAIN new = 1 .. n + 1
    BY <1>1, <1>3, <1>4, <1>5
  <1>7. ASSUME NEW i \in 1 .. n + 1
        PROVE  new[i] = IF i < k THEN q[i] ELSE IF i = k THEN x ELSE q[i - 1]
    <2>1. CASE i <= k
      BY <2>1, <1>1, <1>3, <1>4, <1>5
    <2>2. CASE i > k
      <3>1. i - k \in 1 .. n - k + 1 /\ back[i - k] = q[i - 1]
        <4>1. i - k \in 1 .. n - k + 1 /\ k + (i - k) - 1 = i - 1
          BY <2>2, <1>1
        <4>2. back[i - k] = q[k + (i - k) - 1]
          BY <4>1, <1>3
        <4> QED
          BY <4>1, <4>2
      <3>2. new[i] = back[i - k]
        BY <2>2, <1>1, <1>3, <1>4, <1>5
      <3> QED
        BY <3>1, <3>2, <2>2
    <2> QED
      BY <2>1, <2>2, <1>1
  <1>8. \A i \in 1 .. n : q[i] # x
    BY <1>1 DEF ToSet
  <1>9. Once(new)
    <2> SUFFICES ASSUME NEW i \in 1 .. n + 1, NEW j \in 1 .. n + 1, i < j
                 PROVE  new[i] # new[j]
      BY <1>1, <1>6 DEF Once
    <2>1. CASE j < k
      BY <2>1, <1>1, <1>7 DEF Once
    <2>2. CASE j = k
      BY <2>2, <1>1, <1>8, <1>7
    <2>3. CASE k < j /\ i < k
      BY <2>3, <1>1, <1>7 DEF Once
    <2>4. CASE k < j /\ i = k
      BY <2>4, <1>1, <1>8, <1>7
    <2>5. CASE k < i
      BY <2>5, <1>1, <1>7 DEF Once
    <2> QED
      BY <2>1, <2>2, <2>3, <2>4, <2>5, <1>1
  <1>10. ToSet(new) = ToSet(q) \union {x}
    <2>1. ASSUME NEW y \in ToSet(new) PROVE y \in ToSet(q) \union {x}
      BY <1>1, <1>6, <1>7 DEF ToSet
    <2>2. x \in ToSet(new)
      BY <1>1, <1>6, <1>7 DEF ToSet
    <2>3. ASSUME NEW y \in ToSet(q) PROVE y \in ToSet(new)
      <3>1. PICK i \in 1 .. n : q[i] = y
        BY <1>1 DEF ToSet
      <3>2. CASE i < k
        <4>1. i \in 1 .. n + 1 /\ new[i] = y
          BY <3>1, <3>2, <1>1, <1>7
        <4> QED
          BY <4>1, <1>6 DEF ToSet
      <3>3. CASE i >= k
        <4>1. i + 1 \in 1 .. n + 1 /\ new[i + 1] = y
          BY <3>1, <3>3, <1>1, <1>7
        <4> QED
          BY <4>1, <1>6 DEF ToSet
      <3> QED
        BY <3>1, <3>2, <3>3, <1>1
    <2> QED
      BY <2>1, <2>2, <2>3
  <1> QED
    BY <1>6, <1>9, <1>10 DEF new

(* What is inserted behind the head leaves the head. *)
LEMMA InsertHead ==
  ASSUME NEW S, NEW q \in Seq(S), NEW x \in S, NEW k \in 2 .. Len(q) + 1
  PROVE  Head(InsertAt(q, k, x)) = Head(q)
  <1> DEFINE start == SubSeq(q, 1, k - 1)
             back == SubSeq(q, k, Len(q))
  <1>1. /\ start \in Seq(S) /\ start # <<>> /\ Len(start) = k - 1 /\ start[1] = q[1]
        /\ back \in Seq(S) /\ q # <<>>
    OBVIOUS
  <1>2. InsertAt(q, k, x) = (start \o <<x>>) \o back
    BY DEF InsertAt
  <1> HIDE DEF start, back
  <1>3. start \o <<x>> \in Seq(S) /\ Len(start \o <<x>>) = k /\ (start \o <<x>>)[1] = q[1]
    BY <1>1
  <1> QED
    BY <1>1, <1>2, <1>3
-----------------------------------------------------------------------------

Owned == SlotsAccounted /\ LockOwned /\ FilledSlot
Scanning(c) == c.pc \in {"scan", "full", "req_sleep", "add"}

(* The constants are numbers where the code has numbers, and NULL is no buffer and no task. *)
LEMMA Constants ==
  /\ NrRequest \in Nat \ {0} /\ MaxErrors \in Nat \ {0} /\ NrHd \in Nat \ {0}
  /\ BlockSectors \in Nat \ {0} /\ PageSectors \in Nat \ {0}
  /\ NoBuf \notin Buffers /\ NoTask \notin Tasks /\ Idle \notin Tasks
  /\ Buffers \subseteq Queues /\ WaitForRequest \in Queues
  /\ \A id \in BlockIds \union Pages : id[1] \in Nat /\ id[2] \in Nat
  BY BlockIOAssumption, SchedAssumption

(* Each buffer stands for a block at first. *)
LEMMA AssignedIds == \A f \in Assigned : f \in [Buffers -> BlockIds]
  BY BlockIOAssumption

(* bh = NULL is no buffer. *)
LEMMA NoBufIsNone == NoBuf \notin Buffers
  BY BlockIOAssumption

(* The first two thirds of the slots are slots. *)
LEMMA WriteSlotsAreSlots == WriteSlots \subseteq Slots
  <1> DEFINE k == (NrRequest * 2) \div 3
  <1>1. k \in Nat /\ k <= NrRequest
    BY Constants
  <1> QED
    BY <1>1, Constants DEF WriteSlots, Slots

(* A step that changes no owner. *)
SameOwners ==
  /\ queue' = queue
  /\ \A s \in Slots : request'[s].busy = request[s].busy /\ request'[s].bh = request[s].bh
  /\ \A b \in Buffers : buf'[b].lock = buf[b].lock
  /\ task' = task

(* A step that changes no owner keeps the accounts. *)
LEMMA SameOwnersKeeps == TypeOK /\ Owned /\ SameOwners => Owned'
  <1> SUFFICES ASSUME TypeOK, Owned, SameOwners PROVE Owned'
    OBVIOUS
  <1>1. \A s \in ToSet(queue) : s \in Slots
    BY DEF TypeOK, ToSet
  <1>2. \A b \in Buffers : Preparing(b)' = Preparing(b) /\ QueuedFor(b)' = QueuedFor(b)
    BY <1>1 DEF SameOwners, Preparing, QueuedFor
  <1>3. LockOwned'
    BY <1>2 DEF SameOwners, Owned, LockOwned
  <1>4. SlotsAccounted'
    BY DEF SameOwners, Owned, SlotsAccounted, Adding
  <1>5. FilledSlot'
    BY DEF SameOwners, Owned, FilledSlot, Adding
  <1> QED
    BY <1>3, <1>4, <1>5 DEF Owned

(* A step of a task that hands nothing on. *)
Move(t, c) ==
  /\ task' = [task EXCEPT ![t] = c]
  /\ task[t].pc # "add" /\ c.pc # "add"
  /\ \A b \in Buffers : Scanning(task[t]) /\ task[t].bh = b <=> Scanning(c) /\ c.bh = b
  /\ queue' = queue /\ request' = request
  /\ \A b \in Buffers : buf'[b].lock = buf[b].lock

(* A task that hands no lock and no slot on keeps the accounts. *)
LEMMA MoveKeeps ==
  ASSUME TypeOK, Owned, NEW t \in Tasks, NEW c \in Calls, Move(t, c)
  PROVE  Owned'
  <1>1. \A u \in Tasks : task'[u] = IF u = t THEN c ELSE task[u]
    BY DEF Move, TypeOK
  <1>2. \A b \in Buffers : Preparing(b)' = Preparing(b)
    BY <1>1 DEF Move, Preparing, Scanning
  <1>3. \A b \in Buffers : QueuedFor(b)' = QueuedFor(b)
    BY DEF Move, QueuedFor
  <1>4. LockOwned'
    BY <1>2, <1>3 DEF Move, Owned, LockOwned
  <1>5. \A u \in Tasks : Adding(u)' = Adding(u) /\ (Adding(u) => task'[u] = task[u])
    BY <1>1 DEF Adding, Move
  <1>6. {task'[u].slot : u \in {v \in Tasks : Adding(v)'}}
          = {task[u].slot : u \in {v \in Tasks : Adding(v)}}
    BY <1>5
  <1>7. SlotsAccounted'
    BY <1>5, <1>6 DEF Move, Owned, SlotsAccounted
  <1>8. FilledSlot'
    BY <1>5 DEF Move, Owned, FilledSlot
  <1> QED
    BY <1>4, <1>7, <1>8 DEF Owned

(* The end of the current request: its buffer and its slot are free again. *)
End ==
  /\ queue # <<>> /\ queue' = Tail(queue)
  /\ request' = [request EXCEPT ![Head(queue)] = FreeRequest]
  /\ \A b \in Buffers : buf'[b].lock <=> buf[b].lock /\ b # Current.bh
  /\ task' = task

(* The end of the current request keeps the accounts. *)
LEMMA EndKeeps ==
  ASSUME TypeOK, Owned, End
  PROVE  Owned' /\ queue' \in Seq(Slots) /\ Head(queue) \in Slots
  <1> DEFINE h == Head(queue)
  <1>1. queue \in Seq(Slots) /\ Once(queue)
    BY DEF TypeOK, Owned, SlotsAccounted, Once
  <1>2. /\ queue' \in Seq(Slots) /\ Once(queue') /\ h \in Slots /\ h \in ToSet(queue)
        /\ ToSet(queue') = ToSet(queue) \ {h}
    BY <1>1, TailOnce DEF End
  <1>3. \A s \in ToSet(queue) : s \in Slots
    BY <1>1 DEF ToSet
  <1>4. \A s \in Slots : request'[s] = IF s = h THEN FreeRequest ELSE request[s]
    BY DEF End, TypeOK
  <1>5. \A b \in Buffers : Preparing(b)' = Preparing(b)
    BY DEF End, Preparing
  <1>6. \A b \in Buffers : QueuedFor(b)' = QueuedFor(b) \ {h}
    BY <1>2, <1>3, <1>4 DEF QueuedFor
  <1>7. \A b \in Buffers : h \in QueuedFor(b) <=> Current.bh = b
    BY <1>2 DEF QueuedFor, Current
  <1>8. LockOwned'
    <2> SUFFICES ASSUME NEW b \in Buffers
                 PROVE  /\ buf'[b].lock <=> Preparing(b)' # {} \/ QueuedFor(b)' # {}
                        /\ Preparing(b)' = {} \/ QueuedFor(b)' = {}
                        /\ \A t, u \in Preparing(b)' : t = u
                        /\ \A r, s \in QueuedFor(b)' : r = s
      BY DEF LockOwned
    <2>1. /\ buf[b].lock <=> Preparing(b) # {} \/ QueuedFor(b) # {}
          /\ Preparing(b) = {} \/ QueuedFor(b) = {}
          /\ \A t, u \in Preparing(b) : t = u
          /\ \A r, s \in QueuedFor(b) : r = s
      BY DEF Owned, LockOwned
    <2>2. CASE Current.bh = b
      <3>1. h \in QueuedFor(b) /\ QueuedFor(b)' = {} /\ Preparing(b) = {}
        BY <2>1, <2>2, <1>6, <1>7
      <3> QED
        BY <3>1, <2>2, <1>5 DEF End
    <2>3. CASE Current.bh # b
      <3>1. QueuedFor(b)' = QueuedFor(b)
        BY <2>3, <1>6, <1>7
      <3> QED
        BY <3>1, <2>1, <2>3, <1>5 DEF End
    <2> QED
      BY <2>2, <2>3
  <1>9. \A t \in Tasks : /\ Adding(t)' = Adding(t)
                         /\ Adding(t) => task[t].slot \in Slots /\ task[t].slot # h
    BY <1>2 DEF End, Adding, Owned, SlotsAccounted, FilledSlot
  <1>10. SlotsAccounted'
    <2>1. {s \in Slots : request'[s].busy} = {s \in Slots : request[s].busy} \ {h}
      BY <1>4 DEF FreeRequest
    <2>2. {task'[t].slot : t \in {u \in Tasks : Adding(u)'}}
            = {task[t].slot : t \in {u \in Tasks : Adding(u)}}
      BY DEF End, Adding
    <2>3. h \notin {task[t].slot : t \in {u \in Tasks : Adding(u)}}
      BY <1>9
    <2>4. {s \in Slots : request'[s].busy}
            = ToSet(queue') \union {task'[t].slot : t \in {u \in Tasks : Adding(u)'}}
      BY <2>1, <2>2, <2>3, <1>2 DEF Owned, SlotsAccounted
    <2>5. \A i, j \in DOMAIN queue' : queue'[i] = queue'[j] => i = j
      BY <1>2 DEF Once
    <2> QED
      BY <2>4, <2>5, <1>2, <1>9 DEF SlotsAccounted, Owned, Adding, End
  <1>11. FilledSlot'
    BY <1>4, <1>9 DEF FilledSlot, Owned, Adding, End
  <1> QED
    BY <1>2, <1>8, <1>10, <1>11 DEF Owned
-----------------------------------------------------------------------------
(* The types of what the actions are built from. *)

(* A free slot and a task in user mode have their types. *)
LEMMA FreeTypes == FreeRequest \in Requests /\ User \in Calls
  BY Constants DEF FreeRequest, Requests, User, Calls, Labels, NoSlot, Slots, READ, WRITE

(* A task that goes to another label has its type. *)
LEMMA GotoTypes ==
  ASSUME TypeOK, NEW t \in Tasks, NEW l \in Labels
  PROVE  /\ [task[t] EXCEPT !.pc = l] \in Calls
         /\ [task EXCEPT ![t].pc = l] = [task EXCEPT ![t] = [task[t] EXCEPT !.pc = l]]
         /\ [task EXCEPT ![t].pc = l] \in [Tasks -> Calls]
  <1>1. task \in [Tasks -> Calls] /\ task[t] \in Calls
    BY DEF TypeOK
  <1>2. [task[t] EXCEPT !.pc = l] \in Calls
    BY <1>1 DEF Calls
  <1>3. [task EXCEPT ![t].pc = l] = [task EXCEPT ![t] = [task[t] EXCEPT !.pc = l]]
    BY <1>1
  <1> QED
    BY <1>1, <1>2, <1>3

(* A task that returns to its caller has its type. *)
LEMMA ReturnTypes ==
  ASSUME TypeOK, NEW t \in Tasks, Return(t)
  PROVE  \E c \in Calls : /\ task' = [task EXCEPT ![t] = c] /\ c.bh = NoBuf
                          /\ c.pc = IF task[t].bh = NoBuf THEN "page" ELSE "user"
  <1> DEFINE c == [User EXCEPT !.pc = IF task[t].bh = NoBuf THEN "page" ELSE "user"]
  <1>1. c \in Calls
    BY FreeTypes DEF Calls, Labels
  <1>2. c.bh = NoBuf /\ c.pc = IF task[t].bh = NoBuf THEN "page" ELSE "user"
    BY DEF User
  <1>3. task' = [task EXCEPT ![t] = c]
    BY DEF Return
  <1> QED
    BY <1>1, <1>2, <1>3

(* wake_up leaves states of tasks. *)
LEMMA WakeUpTypes ==
  ASSUME NEW st \in [Tasks -> {RUNNING, UNINTERRUPTIBLE}], NEW t
  PROVE  WakeUp(st, t) \in [Tasks -> {RUNNING, UNINTERRUPTIBLE}]
  BY DEF WakeUp

(* schedule takes a task, or the idle task. *)
LEMMA ScheduleTypes ==
  ASSUME NEW st, Schedule(st)
  PROVE  current' \in Tasks \union {Idle}
  BY DEF Schedule, Runnable

(* The first half of __sleep_on keeps the types of the scheduler. *)
LEMMA SleepOnTypes ==
  ASSUME SchedTypeOK, NEW t \in Tasks, NEW q \in Queues, SleepOn(t, q)
  PROVE  SchedTypeOK'
  BY ScheduleTypes DEF SchedTypeOK, SleepOn

(* The state after blk_dev_init. *)
LEMMA InitIInv == Init => IInv
  <1> SUFFICES ASSUME Init PROVE IInv
    OBVIOUS
  <1>1. SchedTypeOK
    BY DEF Init, SchedInit, SchedTypeOK
  <1>2. buf \in [Buffers -> Heads] /\ \A b \in Buffers : buf[b].lock = FALSE
    BY AssignedIds DEF Init, Heads
  <1>3. TypeOK
    <2>1. hd \in Drives
      BY Constants DEF Init, Drives, Handlers
    <2>2. request \in [Slots -> Requests] /\ task \in [Tasks -> Calls]
      BY FreeTypes DEF Init
    <2>3. queue = <<>> /\ wild \in BOOLEAN
      BY DEF Init
    <2>4. queue \in Seq(Slots)
      BY <2>3
    <2> QED
      BY <1>1, <1>2, <2>1, <2>2, <2>3, <2>4 DEF TypeOK
  <1>4. ToSet(queue) = {} /\ DOMAIN queue = {}
    BY DEF Init, ToSet
  <1>5. \A t \in Tasks : task[t].pc = "user"
    BY DEF Init, User
  <1>6. \A s \in Slots : request[s].busy = FALSE
    BY DEF Init, FreeRequest
  <1>7. SlotsAccounted
    BY <1>4, <1>5, <1>6 DEF SlotsAccounted, Adding
  <1>8. LockOwned
    BY <1>2, <1>4, <1>5 DEF LockOwned, Preparing, QueuedFor
  <1>9. HasBuffer /\ FilledSlot /\ SectorsLeft
    BY <1>5, <1>6 DEF HasBuffer, FilledSlot, Adding, Masked, SectorsLeft
  <1> QED
    BY <1>3, <1>7, <1>8, <1>9 DEF IInv
-----------------------------------------------------------------------------
(* The steps of a task. *)

(* A step that is a Move keeps IInv. *)
LEMMA MoveTypes ==
  ASSUME IInv, NEW t \in Tasks, NEW c \in Calls, Move(t, c),
         SchedTypeOK', buf' \in [Buffers -> Heads], hd' \in Drives, wild' \in BOOLEAN,
         c.pc \in Masked => c.bh # NoBuf
  PROVE  IInv'
  <1>1. TypeOK /\ Owned
    BY DEF IInv, Owned
  <1>2. TypeOK'
    BY <1>1 DEF Move, TypeOK
  <1>3. Owned'
    BY <1>1, MoveKeeps
  <1>4. HasBuffer' /\ SectorsLeft'
    BY <1>1 DEF IInv, HasBuffer, SectorsLeft, Move, TypeOK
  <1> QED
    BY <1>2, <1>3, <1>4 DEF IInv, Owned

(* A task that goes to another label, its lock where it was, keeps IInv. *)
LEMMA GotoTo ==
  ASSUME IInv, NEW t \in Tasks, NEW l \in Labels, Goto(t, l), task[t].pc # "add", l # "add",
         Scanning(task[t]) <=> l \in {"scan", "full", "req_sleep"},
         queue' = queue, request' = request, \A b \in Buffers : buf'[b].lock = buf[b].lock,
         SchedTypeOK', buf' \in [Buffers -> Heads], hd' \in Drives, wild' \in BOOLEAN,
         l \in Masked => task[t].bh # NoBuf
  PROVE  IInv'
  <1> DEFINE c == [task[t] EXCEPT !.pc = l]
  <1>1. TypeOK /\ task[t] \in Calls
    BY DEF IInv, TypeOK
  <1>2. c \in Calls /\ task' = [task EXCEPT ![t] = c] /\ c.pc = l /\ c.bh = task[t].bh
    BY <1>1, GotoTypes DEF Goto, Calls
  <1>3. Scanning(c) <=> Scanning(task[t])
    BY <1>2 DEF Scanning
  <1>4. Move(t, c)
    BY <1>2, <1>3 DEF Move
  <1> QED
    BY <1>2, <1>4, MoveTypes

(* A task without a lock returns to its caller. *)
LEMMA ReturnTo ==
  ASSUME IInv, NEW t \in Tasks, Return(t), ~Scanning(task[t]),
         queue' = queue, request' = request, \A b \in Buffers : buf'[b].lock = buf[b].lock,
         SchedTypeOK', buf' \in [Buffers -> Heads], hd' \in Drives, wild' \in BOOLEAN
  PROVE  IInv'
  <1>1. TypeOK
    BY DEF IInv
  <1>2. PICK c \in Calls : /\ task' = [task EXCEPT ![t] = c] /\ c.bh = NoBuf
                           /\ c.pc = IF task[t].bh = NoBuf THEN "page" ELSE "user"
    BY <1>1, ReturnTypes
  <1>3. ~Scanning(c) /\ c.pc # "add" /\ c.pc \notin Masked /\ task[t].pc # "add"
    BY <1>2 DEF Scanning, Masked
  <1>4. Move(t, c)
    BY <1>2, <1>3 DEF Move
  <1> QED
    BY <1>2, <1>3, <1>4, MoveTypes

(* A step that changes no owner and no count of sectors keeps IInv. *)
LEMMA SameOwnersTypes ==
  ASSUME IInv, SameOwners, TypeOK', \A s \in Slots : request'[s].nr = request[s].nr
  PROVE  IInv'
  <1>1. Owned'
    BY SameOwnersKeeps DEF IInv, Owned
  <1>2. HasBuffer' /\ SectorsLeft'
    BY DEF IInv, HasBuffer, SectorsLeft, SameOwners
  <1> QED
    BY <1>1, <1>2 DEF IInv, Owned

(* A task calls the block layer. *)
LEMMA CallStep == ASSUME IInv, NEW t \in Tasks, Call(t) PROVE IInv'
  <1>1. TypeOK /\ task[t].pc = "user" /\ UNCHANGED <<schedVars, buf, request, queue, hd, wild>>
    BY DEF Call, At, IInv
  <1>2. PICK c \in Calls :
          /\ task' = [task EXCEPT ![t] = c] /\ c.pc \in {"lock", "wait", "scan"}
          /\ c.pc = "scan" => c.bh = NoBuf
          /\ c.pc # "scan" => c.bh \in Buffers
    <2>1. ASSUME NEW rw \in {READ, WRITE}, NEW ahead \in BOOLEAN, NEW b \in Buffers
          PROVE  [User EXCEPT !.pc = "lock", !.rw = rw, !.ahead = ahead, !.bh = b] \in Calls
      BY FreeTypes DEF Calls, User, Labels
    <2>2. ASSUME NEW rw \in {READ, WRITE}, NEW b \in Buffers
          PROVE  [User EXCEPT !.pc = "wait", !.rw = rw, !.bh = b] \in Calls
      BY FreeTypes DEF Calls, User, Labels
    <2>3. ASSUME NEW rw \in {READ, WRITE}, NEW p \in Pages
          PROVE  [User EXCEPT !.pc = "scan", !.rw = rw, !.at = p] \in Calls
      BY FreeTypes, BlockIOAssumption DEF Calls, User, Labels
    <2> QED
      BY <2>1, <2>2, <2>3 DEF Call, User
  <1>3. Move(t, c)
    <2>1. ~Scanning(task[t])
      BY <1>1 DEF Scanning
    <2>2. ASSUME NEW b \in Buffers PROVE ~(Scanning(c) /\ c.bh = b)
      <3>1. CASE c.pc = "scan"
        BY <3>1, <1>2, NoBufIsNone
      <3>2. CASE c.pc # "scan"
        BY <3>2, <1>2 DEF Scanning
      <3> QED
        BY <3>1, <3>2
    <2>3. task[t].pc # "add" /\ c.pc # "add" /\ queue' = queue /\ request' = request
      BY <1>1, <1>2
    <2>4. \A b \in Buffers : buf'[b].lock = buf[b].lock
      BY <1>1
    <2> QED
      BY <1>2, <2>1, <2>2, <2>3, <2>4, Zenon DEF Move
  <1>4. SchedTypeOK' /\ buf' \in [Buffers -> Heads]
    BY <1>1 DEF TypeOK, SchedTypeOK, schedVars
  <1>5. c.pc \in Masked => c.bh # NoBuf
    BY <1>2, NoBufIsNone DEF Masked
  <1>6. hd' \in Drives /\ wild' \in BOOLEAN
    BY <1>1 DEF TypeOK
  <1> QED
    BY <1>2, <1>3, <1>4, <1>5, <1>6, MoveTypes

(* lock_buffer and wait_on_buffer go to sleep. *)
LEMMA SleepOnBufferStep == ASSUME IInv, NEW t \in Tasks, SleepOnBuffer(t) PROVE IInv'
  <1>1. /\ TypeOK /\ SchedTypeOK /\ task[t].bh # NoBuf /\ task[t].pc \in {"lock", "wait"}
        /\ UNCHANGED <<buf, request, queue, hd, wild>>
    BY DEF SleepOnBuffer, At, IInv, TypeOK, HasBuffer, Masked
  <1>2. task[t].bh \in Queues
    BY <1>1, BlockIOAssumption DEF TypeOK, Calls
  <1>3. SchedTypeOK'
    BY <1>1, <1>2, SleepOnTypes DEF SleepOnBuffer
  <1>4. PICK l \in {"lock_sleep", "wait_sleep"} : Goto(t, l)
    BY DEF SleepOnBuffer
  <1>5. /\ l \in Labels /\ l # "add" /\ task[t].pc # "add"
        /\ Scanning(task[t]) <=> l \in {"scan", "full", "req_sleep"}
    BY <1>1 DEF Labels, Scanning
  <1>6. buf' \in [Buffers -> Heads] /\ hd' \in Drives /\ wild' \in BOOLEAN
    BY <1>1 DEF TypeOK
  <1> QED
    BY <1>1, <1>3, <1>4, <1>5, <1>6, GotoTo

(* wait_on_buffer returns. *)
LEMMA WaitDoneStep == ASSUME IInv, NEW t \in Tasks, WaitDone(t) PROVE IInv'
  <1>1. /\ ~Scanning(task[t]) /\ Return(t)
        /\ UNCHANGED <<schedVars, buf, request, queue, hd, wild>>
    BY DEF WaitDone, At, Scanning
  <1>2. SchedTypeOK' /\ buf' \in [Buffers -> Heads] /\ hd' \in Drives /\ wild' \in BOOLEAN
    BY <1>1 DEF IInv, TypeOK, SchedTypeOK, schedVars
  <1> QED
    BY <1>1, <1>2, ReturnTo

(* make_request finds no free slot. *)
LEMMA FindFullStep == ASSUME IInv, NEW t \in Tasks, FindFull(t) PROVE IInv'
  <1>1. /\ task[t].pc = "scan" /\ Goto(t, "full")
        /\ UNCHANGED <<schedVars, buf, request, queue, hd, wild>>
    BY DEF FindFull, At
  <1>2. SchedTypeOK' /\ buf' \in [Buffers -> Heads] /\ hd' \in Drives /\ wild' \in BOOLEAN
    BY <1>1 DEF IInv, TypeOK, SchedTypeOK, schedVars
  <1>3. Scanning(task[t]) /\ "full" \in Labels /\ "full" \notin Masked
    BY <1>1 DEF Scanning, Labels, Masked
  <1> QED
    BY <1>1, <1>2, <1>3, GotoTo

(* make_request goes to sleep. *)
LEMMA SleepOnRequestStep == ASSUME IInv, NEW t \in Tasks, SleepOnRequest(t) PROVE IInv'
  <1>1. /\ task[t].pc = "full" /\ Goto(t, "req_sleep") /\ SleepOn(t, WaitForRequest)
        /\ UNCHANGED <<buf, request, queue, hd, wild>>
    BY DEF SleepOnRequest, At
  <1>2. SchedTypeOK'
    BY <1>1, BlockIOAssumption, SleepOnTypes DEF IInv, TypeOK
  <1>3. buf' \in [Buffers -> Heads] /\ hd' \in Drives /\ wild' \in BOOLEAN
    BY <1>1 DEF IInv, TypeOK
  <1>4. Scanning(task[t]) /\ "req_sleep" \in Labels /\ "req_sleep" \notin Masked
    BY <1>1 DEF Scanning, Labels, Masked
  <1> QED
    BY <1>1, <1>2, <1>3, <1>4, GotoTo

(* The task starts do_hd_request. *)
LEMMA StartDriveStep == ASSUME IInv, NEW t \in Tasks, StartDrive(t) PROVE IInv'
  <1>1. /\ ~Scanning(task[t]) /\ Return(t) /\ hd' = [hd EXCEPT !.driving = TRUE]
        /\ UNCHANGED <<schedVars, buf, request, queue, wild>>
    BY DEF StartDrive, At, Scanning
  <1>2. hd' \in Drives
    BY <1>1 DEF IInv, TypeOK, Drives
  <1>3. SchedTypeOK' /\ buf' \in [Buffers -> Heads] /\ wild' \in BOOLEAN
    BY <1>1 DEF IInv, TypeOK, SchedTypeOK, schedVars
  <1> QED
    BY <1>1, <1>2, <1>3, ReturnTo

(* ll_rw_page waits for its page. *)
LEMMA PageSteps ==
  ASSUME IInv, NEW t \in Tasks, SleepOnPage(t) \/ PageDone(t)
  PROVE  IInv'
  <1>1. PICK l \in {"page_sleep", "user"} : Goto(t, l)
    BY DEF SleepOnPage, PageDone
  <1>2. task[t].pc \in {"page", "page_sleep"} /\ UNCHANGED <<state, wq, tmp, buf, request, queue, hd, wild>>
    BY DEF SleepOnPage, PageDone, At, schedVars
  <1>3. current' \in Tasks \union {Idle}
    BY ScheduleTypes DEF SleepOnPage, PageDone, schedVars, IInv, TypeOK, SchedTypeOK
  <1>4. SchedTypeOK' /\ buf' \in [Buffers -> Heads] /\ hd' \in Drives /\ wild' \in BOOLEAN
    BY <1>2, <1>3 DEF IInv, TypeOK, SchedTypeOK
  <1>5. ~Scanning(task[t]) /\ l \in Labels /\ l \notin Masked /\ task[t].pc # "add"
    BY <1>2 DEF Scanning, Labels, Masked
  <1> QED
    BY <1>1, <1>2, <1>4, <1>5, GotoTo

(* The second half of __sleep_on. *)
LEMMA ResumeStep == ASSUME IInv, NEW t \in Tasks, Resume(t) PROVE IInv'
  <1> DEFINE q == SleepsOn(t)
  <1>1. TypeOK /\ SchedTypeOK /\ task[t].pc \in Asleep /\ UNCHANGED <<buf, request, queue, hd, wild>>
    BY DEF Resume, IInv, TypeOK
  <1>2. CASE SleepAgain(t, q) /\ UNCHANGED task
    <2>1. state' \in [Tasks -> {RUNNING, UNINTERRUPTIBLE}] /\ UNCHANGED <<wq, tmp>>
      BY <1>1, <1>2 DEF SleepAgain, SchedTypeOK
    <2>2. current' \in Tasks \union {Idle}
      BY <1>2, ScheduleTypes DEF SleepAgain
    <2>3. TypeOK'
      BY <1>1, <1>2, <2>1, <2>2 DEF TypeOK, SchedTypeOK
    <2>4. SameOwners
      BY <1>1, <1>2 DEF SameOwners
    <2> QED
      BY <1>1, <2>3, <2>4, SameOwnersTypes
  <1>3. CASE Unlink(t, q) /\ Goto(t, Next_pc[task[t].pc])
    <2>1. state' \in [Tasks -> {RUNNING, UNINTERRUPTIBLE}]
      BY <1>1, <1>3, WakeUpTypes DEF Unlink, SchedTypeOK
    <2>2. SchedTypeOK'
      BY <1>1, <1>3, <2>1 DEF Unlink, SchedTypeOK
    <2>3. PICK l \in {"lock", "wait", "scan"} :
            /\ Goto(t, l)
            /\ l = "scan" <=> task[t].pc = "req_sleep"
      <3>1. CASE task[t].pc = "lock_sleep"
        BY <3>1, <1>3 DEF Next_pc
      <3>2. CASE task[t].pc = "wait_sleep"
        BY <3>2, <1>3 DEF Next_pc
      <3>3. CASE task[t].pc = "req_sleep"
        BY <3>3, <1>3 DEF Next_pc
      <3> QED
        BY <3>1, <3>2, <3>3, <1>1 DEF Asleep
    <2>4. Scanning(task[t]) <=> l \in {"scan", "full", "req_sleep"}
      BY <1>1, <2>3 DEF Scanning, Asleep
    <2>5. l \in Masked => task[t].bh # NoBuf
      BY <1>1, <2>3 DEF IInv, HasBuffer, Masked, Asleep
    <2>6. l \in Labels /\ l # "add" /\ task[t].pc # "add"
      BY <1>1 DEF Labels, Asleep
    <2>7. buf' \in [Buffers -> Heads] /\ hd' \in Drives /\ wild' \in BOOLEAN
      BY <1>1 DEF TypeOK
    <2> QED
      BY <1>1, <2>2, <2>3, <2>4, <2>5, <2>6, <2>7, GotoTo
  <1> QED
    BY <1>2, <1>3 DEF Resume

(* A task takes the lock of a buffer nobody owns. *)
LEMMA LockBufferStep == ASSUME IInv, NEW t \in Tasks, LockBuffer(t) PROVE IInv'
  <1> DEFINE b == task[t].bh
  <1>1. /\ TypeOK /\ SchedTypeOK /\ task[t].pc = "lock" /\ b \in Buffers /\ ~buf[b].lock
        /\ UNCHANGED <<request, queue, hd, wild>>
    BY DEF LockBuffer, At, IInv, TypeOK, HasBuffer, Masked, Calls
  <1>2. hd' \in Drives /\ wild' \in BOOLEAN
    BY <1>1 DEF TypeOK
  <1>3. ~Scanning(task[t])
    BY <1>1 DEF Scanning
  <1>4. CASE Unlock(b) /\ Return(t)
    <2>1. SchedTypeOK'
      BY <1>1, <1>4, WakeUpTypes DEF Unlock, SchedTypeOK
    <2>2. buf' \in [Buffers -> Heads] /\ \A a \in Buffers : buf'[a].lock = buf[a].lock
      BY <1>1, <1>4 DEF Unlock, TypeOK, Heads
    <2> QED
      BY <1>1, <1>2, <1>3, <1>4, <2>1, <2>2, ReturnTo
  <1>5. CASE buf' = [buf EXCEPT ![b].lock = TRUE] /\ Goto(t, "scan") /\ UNCHANGED schedVars
    <2>1. /\ buf' \in [Buffers -> Heads] /\ buf'[b].lock = TRUE
          /\ \A a \in Buffers : a # b => buf'[a] = buf[a]
      BY <1>1, <1>5 DEF TypeOK, Heads
    <2>2. /\ task' \in [Tasks -> Calls] /\ \A u \in Tasks : u # t => task'[u] = task[u]
          /\ task'[t].pc = "scan" /\ task'[t].bh = b
      <3>1. task \in [Tasks -> Calls] /\ task[t] \in Calls /\ task' = [task EXCEPT ![t].pc = "scan"]
        BY <1>1, <1>5 DEF TypeOK, Goto
      <3>2. task' \in [Tasks -> Calls]
        BY <1>1, <3>1, GotoTypes DEF Labels
      <3>3. task'[t] = [task[t] EXCEPT !.pc = "scan"] /\ \A u \in Tasks : u # t => task'[u] = task[u]
        BY <3>1
      <3>4. task'[t].pc = "scan" /\ task'[t].bh = b
        BY <3>1, <3>3 DEF Calls
      <3> QED
        BY <3>2, <3>3, <3>4
    <2>3. TypeOK'
      BY <1>1, <1>2, <1>5, <2>1, <2>2 DEF TypeOK, SchedTypeOK, schedVars
    <2>4. \A a \in Buffers : QueuedFor(a)' = QueuedFor(a)
      BY <1>1 DEF QueuedFor
    <2>5. \A a \in Buffers : Preparing(a)' = IF a = b THEN Preparing(a) \union {t} ELSE Preparing(a)
      BY <1>1, <2>2 DEF Preparing
    <2>6. Preparing(b) = {} /\ QueuedFor(b) = {}
      BY <1>1 DEF IInv, LockOwned
    <2>7. LockOwned'
      <3> SUFFICES ASSUME NEW a \in Buffers
                   PROVE  /\ buf'[a].lock <=> Preparing(a)' # {} \/ QueuedFor(a)' # {}
                          /\ Preparing(a)' = {} \/ QueuedFor(a)' = {}
                          /\ \A x, y \in Preparing(a)' : x = y
                          /\ \A r, s \in QueuedFor(a)' : r = s
        BY DEF LockOwned
      <3>1. CASE a = b
        BY <3>1, <2>1, <2>4, <2>5, <2>6
      <3>2. CASE a # b
        BY <3>2, <2>1, <2>4, <2>5 DEF IInv, LockOwned
      <3> QED
        BY <3>1, <3>2
    <2>8. \A u \in Tasks : Adding(u)' = Adding(u) /\ (Adding(u) => task'[u] = task[u])
      BY <1>1, <2>2 DEF Adding
    <2>9. SlotsAccounted'
      <3>1. {task'[u].slot : u \in {v \in Tasks : Adding(v)'}}
              = {task[u].slot : u \in {v \in Tasks : Adding(v)}}
        BY <2>8
      <3> QED
        BY <1>1, <2>8, <3>1 DEF IInv, SlotsAccounted
    <2>10. HasBuffer' /\ FilledSlot' /\ SectorsLeft'
      BY <1>1, <2>2, <2>8 DEF IInv, HasBuffer, FilledSlot, Masked, SectorsLeft
    <2> QED
      BY <2>3, <2>7, <2>9, <2>10 DEF IInv
  <1> QED
    BY <1>4, <1>5 DEF LockBuffer

(* A read-ahead that finds no slot gives the lock up. *)
LEMMA GiveUpAheadStep == ASSUME IInv, NEW t \in Tasks, GiveUpAhead(t) PROVE IInv'
  <1> DEFINE b == task[t].bh
  <1>1. /\ TypeOK /\ SchedTypeOK /\ task[t].pc = "scan"
        /\ Unlock(b) /\ Return(t) /\ UNCHANGED <<request, queue, hd, wild>>
    BY DEF GiveUpAhead, At, IInv, TypeOK
  <1>2. SchedTypeOK'
    BY <1>1, WakeUpTypes DEF Unlock, SchedTypeOK
  <1>3. /\ buf' \in [Buffers -> Heads]
        /\ \A a \in Buffers : buf'[a].lock <=> buf[a].lock /\ a # b
    BY <1>1 DEF Unlock, TypeOK, Heads
  <1>4. PICK c \in Calls : /\ task' = [task EXCEPT ![t] = c] /\ c.bh = NoBuf
                           /\ c.pc = IF task[t].bh = NoBuf THEN "page" ELSE "user"
    BY <1>1, ReturnTypes
  <1>5. /\ task' \in [Tasks -> Calls] /\ \A u \in Tasks : u # t => task'[u] = task[u]
        /\ task'[t] = c /\ c.pc \in {"page", "user"}
    BY <1>1, <1>4 DEF TypeOK
  <1>6. TypeOK'
    BY <1>1, <1>2, <1>3, <1>5 DEF TypeOK
  <1>7. \A a \in Buffers : QueuedFor(a)' = QueuedFor(a)
    BY <1>1 DEF QueuedFor
  <1>8. \A a \in Buffers : Preparing(a)' = Preparing(a) \ {t}
    BY <1>5 DEF Preparing
  <1>9. \A a \in Buffers : t \in Preparing(a) <=> a = b
    BY <1>1 DEF Preparing
  <1>10. LockOwned'
    <2> SUFFICES ASSUME NEW a \in Buffers
                 PROVE  /\ buf'[a].lock <=> Preparing(a)' # {} \/ QueuedFor(a)' # {}
                        /\ Preparing(a)' = {} \/ QueuedFor(a)' = {}
                        /\ \A x, y \in Preparing(a)' : x = y
                        /\ \A r, s \in QueuedFor(a)' : r = s
      BY DEF LockOwned
    <2>1. /\ buf[a].lock <=> Preparing(a) # {} \/ QueuedFor(a) # {}
          /\ Preparing(a) = {} \/ QueuedFor(a) = {}
          /\ \A x, y \in Preparing(a) : x = y
          /\ \A r, s \in QueuedFor(a) : r = s
      BY DEF IInv, LockOwned
    <2>2. CASE a = b
      <3>1. t \in Preparing(a) /\ Preparing(a)' = {} /\ QueuedFor(a) = {}
        BY <2>1, <2>2, <1>8, <1>9
      <3> QED
        BY <3>1, <2>2, <1>3, <1>7
    <2>3. CASE a # b
      <3>1. Preparing(a)' = Preparing(a)
        BY <2>3, <1>8, <1>9
      <3> QED
        BY <3>1, <2>1, <2>3, <1>3, <1>7
    <2> QED
      BY <2>2, <2>3
  <1>11. \A u \in Tasks : Adding(u)' = Adding(u) /\ (Adding(u) => task'[u] = task[u])
    BY <1>1, <1>5 DEF Adding
  <1>12. SlotsAccounted'
    <2>1. {task'[u].slot : u \in {v \in Tasks : Adding(v)'}}
            = {task[u].slot : u \in {v \in Tasks : Adding(v)}}
      BY <1>11
    <2> QED
      BY <1>1, <1>11, <2>1 DEF IInv, SlotsAccounted
  <1>13. HasBuffer' /\ FilledSlot' /\ SectorsLeft'
    BY <1>1, <1>5, <1>11 DEF IInv, HasBuffer, FilledSlot, Masked, SectorsLeft
  <1> QED
    BY <1>6, <1>10, <1>12, <1>13 DEF IInv

(* A free slot is filled; the lock stays with the task. *)
LEMMA FillRequestStep == ASSUME IInv, NEW t \in Tasks, FillRequest(t) PROVE IInv'
  <1> DEFINE b == task[t].bh
  <1>1. /\ TypeOK /\ SchedTypeOK /\ task[t].pc = "scan" /\ task[t] \in Calls
        /\ UNCHANGED <<current, wq, tmp, buf, queue, hd, wild>>
    BY DEF FillRequest, At, IInv, TypeOK
  <1>2. PICK s \in Free(task[t]), r \in Requests :
          /\ request' = [request EXCEPT ![s] = r] /\ r.busy /\ r.bh = b
          /\ r.nr \in 1 .. IF r.bh = NoBuf THEN PageSectors ELSE BlockSectors
          /\ task' = [task EXCEPT ![t].slot = s, ![t].pc = "add"]
    <2> DEFINE id == IF b = NoBuf THEN task[t].at ELSE buf[b].id
               nr == IF b = NoBuf THEN PageSectors ELSE BlockSectors
    <2>1. id[1] \in Nat /\ id[2] \in Nat /\ nr \in Nat \ {0}
      <3>1. CASE b = NoBuf
        BY <3>1, <1>1, Constants DEF Calls
      <3>2. CASE b # NoBuf
        <4>1. buf[b].id \in BlockIds
          BY <3>2, <1>1 DEF TypeOK, Calls, Heads
        <4> QED
          BY <4>1, <3>2, Constants
      <3> QED
        BY <3>1, <3>2
    <2>2. id[2] * nr \in Nat
      BY <2>1
    <2> HIDE DEF id, nr
    <2> DEFINE r == [busy |-> TRUE, cmd |-> task[t].rw, errors |-> 0, dev |-> id[1],
                     sector |-> id[2] * nr, nr |-> nr,
                     waiting |-> IF b = NoBuf THEN t ELSE NoTask, bh |-> b]
    <2>3. r \in Requests
      BY <2>1, <2>2, <1>1 DEF Requests, Calls
    <2>4. r.nr \in 1 .. IF r.bh = NoBuf THEN PageSectors ELSE BlockSectors
      BY <2>1 DEF nr
    <2> QED
      BY <2>3, <2>4 DEF FillRequest, id, nr
  <1>3. s \in Slots /\ ~request[s].busy
    BY WriteSlotsAreSlots DEF Free
  <1>4. state' \in [Tasks -> {RUNNING, UNINTERRUPTIBLE}]
    BY <1>1 DEF FillRequest, SchedTypeOK
  <1>5. /\ request' \in [Slots -> Requests] /\ request'[s].busy /\ request'[s].bh = b
        /\ \A x \in Slots : x # s => request'[x] = request[x]
    BY <1>1, <1>2, <1>3 DEF TypeOK
  <1>6. /\ task' \in [Tasks -> Calls] /\ \A u \in Tasks : u # t => task'[u] = task[u]
        /\ task'[t].pc = "add" /\ task'[t].slot = s /\ task'[t].bh = b
    <2> DEFINE c == [task[t] EXCEPT !.slot = s, !.pc = "add"]
    <2>1. c \in Calls /\ c.pc = "add" /\ c.slot = s /\ c.bh = b
      BY <1>1, <1>3 DEF Calls, Labels
    <2>2. task' = [task EXCEPT ![t] = c] /\ task \in [Tasks -> Calls]
      BY <1>1, <1>2 DEF TypeOK
    <2> HIDE DEF c
    <2> QED
      BY <2>1, <2>2
  <1>7. TypeOK'
    BY <1>1, <1>4, <1>5, <1>6 DEF TypeOK, SchedTypeOK
  <1>8. \A x \in ToSet(queue) : x \in Slots /\ request[x].busy
    BY DEF IInv, SlotsAccounted
  <1>9. \A a \in Buffers : QueuedFor(a)' = QueuedFor(a)
    BY <1>1, <1>3, <1>5, <1>8 DEF QueuedFor
  <1>10. \A a \in Buffers : Preparing(a)' = Preparing(a)
    BY <1>1, <1>6 DEF Preparing
  <1>11. LockOwned'
    BY <1>1, <1>9, <1>10 DEF IInv, LockOwned
  <1>12. \A u \in Tasks : Adding(u)' <=> Adding(u) \/ u = t
    BY <1>1, <1>6 DEF Adding
  <1>13. SlotsAccounted'
    <2> DEFINE filled == {task[u].slot : u \in {v \in Tasks : Adding(v)}}
               filledNow == {task'[u].slot : u \in {v \in Tasks : Adding(v)'}}
    <2>1. filledNow = filled \union {s}
      <3>1. ASSUME NEW x \in filledNow PROVE x \in filled \union {s}
        BY <1>6, <1>12
      <3>2. ASSUME NEW x \in filled PROVE x \in filledNow
        <4>1. PICK u \in Tasks : Adding(u) /\ x = task[u].slot
          OBVIOUS
        <4>2. u # t
          BY <4>1, <1>1 DEF Adding
        <4> QED
          BY <4>1, <4>2, <1>6, <1>12
      <3>3. s \in filledNow
        BY <1>6, <1>12
      <3> QED
        BY <3>1, <3>2, <3>3
    <2>2. {x \in Slots : request'[x].busy} = {x \in Slots : request[x].busy} \union {s}
      BY <1>3, <1>5
    <2>3. {x \in Slots : request[x].busy} = ToSet(queue) \union filled
      BY DEF IInv, SlotsAccounted
    <2>4. {x \in Slots : request'[x].busy} = ToSet(queue') \union filledNow
      BY <2>1, <2>2, <2>3, <1>1
    <2>5. \A u \in Tasks : Adding(u) => task[u].slot # s /\ task[u].slot \notin ToSet(queue)
      BY <1>3, <2>3 DEF IInv, SlotsAccounted
    <2>6. s \notin ToSet(queue)
      BY <1>3, <1>8
    <2>7. \A u \in Tasks : Adding(u)' => task'[u].slot \notin ToSet(queue')
      BY <1>1, <1>6, <1>12, <2>5, <2>6
    <2>8. \A u, v \in Tasks : Adding(u)' /\ Adding(v)' /\ task'[u].slot = task'[v].slot => u = v
      BY <1>6, <1>12, <2>5 DEF IInv, SlotsAccounted
    <2>9. \A i, j \in DOMAIN queue' : queue'[i] = queue'[j] => i = j
      BY <1>1 DEF IInv, SlotsAccounted
    <2> QED
      BY <2>4, <2>7, <2>8, <2>9 DEF SlotsAccounted
  <1>14. HasBuffer' /\ SectorsLeft'
    BY <1>2, <1>3, <1>5, <1>6, <1>1 DEF IInv, HasBuffer, Masked, SectorsLeft, TypeOK
  <1>15. FilledSlot'
    <2> SUFFICES ASSUME NEW u \in Tasks, Adding(u)'
                 PROVE  task'[u].slot \in Slots /\ request'[task'[u].slot].bh = task'[u].bh
      BY DEF FilledSlot
    <2>1. CASE u = t
      BY <2>1, <1>3, <1>5, <1>6
    <2>2. CASE u # t
      <3>1. Adding(u) /\ task'[u] = task[u]
        BY <2>2, <1>6, <1>12
      <3>2. /\ task[u].slot \in Slots /\ request[task[u].slot].bh = task[u].bh
            /\ request[task[u].slot].busy
        BY <3>1 DEF IInv, FilledSlot, SlotsAccounted
      <3> QED
        BY <3>1, <3>2, <1>3, <1>5
    <2> QED
      BY <2>1, <2>2
  <1> QED
    BY <1>7, <1>11, <1>13, <1>14, <1>15 DEF IInv

(* The request enters the queue, and with it the lock goes to the drive. *)
LEMMA AddRequestStep == ASSUME IInv, NEW t \in Tasks, AddRequest(t) PROVE IInv'
  <1> DEFINE b == task[t].bh
             s == task[t].slot
  <1>1. /\ TypeOK /\ SchedTypeOK /\ task[t].pc = "add" /\ task[t] \in Calls
        /\ UNCHANGED <<schedVars, request, hd, wild>>
    BY DEF AddRequest, At, IInv, TypeOK
  <1>2. /\ s \in Slots /\ request[s].bh = b /\ request[s].busy /\ s \notin ToSet(queue)
        /\ queue \in Seq(Slots) /\ Once(queue)
    BY <1>1 DEF IInv, FilledSlot, SlotsAccounted, Adding, TypeOK, Once
  <1>3. queue' \in Seq(Slots) /\ Once(queue') /\ ToSet(queue') = ToSet(queue) \union {s}
    <2>1. CASE queue = <<>> /\ queue' = <<s>>
      <3>1. ToSet(queue) = {} /\ ToSet(queue') = {s} /\ Once(queue') /\ queue' \in Seq(Slots)
        BY <2>1, <1>2 DEF ToSet, Once
      <3> QED
        BY <3>1
    <2>2. CASE queue # <<>> /\ Link(s)
      <3>1. PICK i \in Stops(request[s]) : queue' = InsertAt(queue, i + 1, s)
        BY <2>2 DEF Link
      <3>2. i + 1 \in 1 .. Len(queue) + 1
        BY <2>2, <1>2 DEF Stops
      <3> QED
        BY <3>1, <3>2, <1>2, InsertOnce
    <2> QED
      BY <2>1, <2>2 DEF AddRequest
  <1>4. /\ buf' \in [Buffers -> Heads]
        /\ \A a \in Buffers : buf'[a].lock = buf[a].lock
    BY <1>1 DEF AddRequest, TypeOK, Heads
  <1>5. PICK c \in Calls : task' = [task EXCEPT ![t] = c] /\ c.pc \in {"start", "page", "user"}
    <2>1. CASE Goto(t, "start")
      <3> DEFINE c == [task[t] EXCEPT !.pc = "start"]
      <3>1. c \in Calls /\ c.pc = "start"
        BY <1>1 DEF Calls, Labels
      <3>2. task' = [task EXCEPT ![t] = c]
        BY <2>1, <1>1, GotoTypes DEF Goto, Labels
      <3> QED
        BY <3>1, <3>2
    <2>2. CASE Return(t)
      BY <2>2, <1>1, ReturnTypes
    <2> QED
      BY <2>1, <2>2 DEF AddRequest
  <1>6. /\ task' \in [Tasks -> Calls] /\ task'[t] = c
        /\ \A u \in Tasks : u # t => task'[u] = task[u]
    BY <1>1, <1>5 DEF TypeOK
  <1>7. TypeOK'
    BY <1>1, <1>3, <1>4, <1>6 DEF TypeOK, SchedTypeOK, schedVars
  <1>8. \A u \in Tasks : Adding(u)' <=> Adding(u) /\ u # t
    BY <1>5, <1>6 DEF Adding
  <1>9. \A a \in Buffers : Preparing(a)' = Preparing(a) \ {t}
    BY <1>5, <1>6 DEF Preparing
  <1>10. \A a \in Buffers : QueuedFor(a)' = IF a = b THEN QueuedFor(a) \union {s} ELSE QueuedFor(a)
    BY <1>1, <1>2, <1>3 DEF QueuedFor
  <1>11. LockOwned'
    <2> SUFFICES ASSUME NEW a \in Buffers
                 PROVE  /\ buf'[a].lock <=> Preparing(a)' # {} \/ QueuedFor(a)' # {}
                        /\ Preparing(a)' = {} \/ QueuedFor(a)' = {}
                        /\ \A x, y \in Preparing(a)' : x = y
                        /\ \A x, y \in QueuedFor(a)' : x = y
      BY DEF LockOwned
    <2>1. /\ buf[a].lock <=> Preparing(a) # {} \/ QueuedFor(a) # {}
          /\ Preparing(a) = {} \/ QueuedFor(a) = {}
          /\ \A x, y \in Preparing(a) : x = y
          /\ \A x, y \in QueuedFor(a) : x = y
      BY DEF IInv, LockOwned
    <2>2. t \in Preparing(a) <=> a = b
      BY <1>1 DEF Preparing
    <2>3. CASE a = b
      <3>1. Preparing(a)' = {} /\ QueuedFor(a) = {} /\ QueuedFor(a)' = {s} /\ buf[a].lock
        BY <2>1, <2>2, <2>3, <1>9, <1>10
      <3> QED
        BY <3>1, <1>4
    <2>4. CASE a # b
      <3>1. Preparing(a)' = Preparing(a) /\ QueuedFor(a)' = QueuedFor(a)
        BY <2>2, <2>4, <1>9, <1>10
      <3> QED
        BY <3>1, <2>1, <1>4
    <2> QED
      BY <2>3, <2>4
  <1>12. SlotsAccounted'
    <2> DEFINE filled == {task[u].slot : u \in {v \in Tasks : Adding(v)}}
               filledNow == {task'[u].slot : u \in {v \in Tasks : Adding(v)'}}
    <2>1. filled = filledNow \union {s}
      <3>1. ASSUME NEW x \in filledNow PROVE x \in filled
        BY <1>6, <1>8
      <3>2. ASSUME NEW x \in filled, x # s PROVE x \in filledNow
        <4>1. PICK u \in Tasks : Adding(u) /\ x = task[u].slot
          OBVIOUS
        <4>2. u # t
          BY <4>1, <3>2
        <4> QED
          BY <4>1, <4>2, <1>6, <1>8
      <3>3. s \in filled
        BY <1>1 DEF Adding
      <3> QED
        BY <3>1, <3>2, <3>3
    <2>2. {x \in Slots : request'[x].busy} = ToSet(queue') \union filledNow
      BY <2>1, <1>1, <1>3 DEF IInv, SlotsAccounted
    <2>3. \A u \in Tasks : Adding(u)' => task'[u].slot \notin ToSet(queue')
      <3> SUFFICES ASSUME NEW u \in Tasks, Adding(u), u # t
                   PROVE  task[u].slot \notin ToSet(queue) \union {s}
        BY <1>3, <1>6, <1>8
      <3> QED
        BY <1>1 DEF IInv, SlotsAccounted, Adding
    <2>4. \A u, v \in Tasks : Adding(u)' /\ Adding(v)' /\ task'[u].slot = task'[v].slot => u = v
      BY <1>6, <1>8 DEF IInv, SlotsAccounted
    <2>5. \A i, j \in DOMAIN queue' : queue'[i] = queue'[j] => i = j
      BY <1>3 DEF Once
    <2> QED
      BY <2>2, <2>3, <2>4, <2>5 DEF SlotsAccounted
  <1>13. HasBuffer' /\ FilledSlot' /\ SectorsLeft'
    BY <1>1, <1>5, <1>6, <1>8 DEF IInv, HasBuffer, FilledSlot, Masked, SectorsLeft
  <1> QED
    BY <1>7, <1>11, <1>12, <1>13 DEF IInv

(* Any step of a task in the block layer. *)
LEMMA KernelStep == ASSUME IInv, NEW t \in Tasks, Kernel(t) PROVE IInv'
  BY SleepOnBufferStep, WaitDoneStep, LockBufferStep, GiveUpAheadStep, FindFullStep,
     SleepOnRequestStep, FillRequestStep, AddRequestStep, StartDriveStep, PageSteps, ResumeStep
     DEF Kernel

(* The callers' own steps leave the locks alone. *)
LEMMA CallerLocks ==
  ASSUME TypeOK, NEW t \in Tasks, Modify(t) \/ Forget(t) \/ Reuse(t)
  PROVE  buf' \in [Buffers -> Heads] /\ \A a \in Buffers : buf'[a].lock = buf[a].lock
  <1>1. TypeOK
    OBVIOUS
  <1>2. PICK b \in Buffers, h \in Heads : /\ buf' = [buf EXCEPT ![b] = h]
                                        /\ h.lock = buf[b].lock
    <2>1. \A b \in Buffers : buf[b] \in Heads
      BY <1>1 DEF TypeOK
    <2>2. CASE Modify(t)
      <3>1. PICK b \in Buffers, whole \in BOOLEAN :
              buf' = [buf EXCEPT ![b] = [@ EXCEPT !.uptodate = whole \/ buf[b].uptodate,
                                                  !.dirt = TRUE, !.stale = Sectors]]
        BY <2>2 DEF Modify
      <3> DEFINE u == whole \/ buf[b].uptodate
      <3>2. u \in BOOLEAN
        OBVIOUS
      <3> HIDE DEF u
      <3> DEFINE h == [buf[b] EXCEPT !.uptodate = u, !.dirt = TRUE, !.stale = Sectors]
      <3>3. h \in Heads /\ h.lock = buf[b].lock
        BY <2>1, <3>2 DEF Heads
      <3>4. buf' = [buf EXCEPT ![b] = h]
        BY <3>1, <1>1 DEF TypeOK, u
      <3> QED
        BY <3>3, <3>4
    <2>4. CASE Forget(t)
      <3>1. PICK b \in Buffers :
              buf' = [buf EXCEPT ![b] = [@ EXCEPT !.uptodate = FALSE, !.dirt = FALSE]]
        BY <2>4 DEF Forget
      <3> DEFINE h == [buf[b] EXCEPT !.uptodate = FALSE, !.dirt = FALSE]
      <3>2. h \in Heads /\ h.lock = buf[b].lock
        BY <2>1 DEF Heads
      <3>3. buf' = [buf EXCEPT ![b] = h]
        BY <3>1, <1>1 DEF TypeOK
      <3> QED
        BY <3>2, <3>3
    <2>3. CASE Reuse(t)
      <3>1. PICK b \in Buffers, id \in BlockIds :
              buf' = [buf EXCEPT ![b] = [@ EXCEPT !.id = id, !.uptodate = FALSE, !.stale = Sectors]]
        BY <2>3 DEF Reuse
      <3> DEFINE h == [buf[b] EXCEPT !.id = id, !.uptodate = FALSE, !.stale = Sectors]
      <3>2. h \in Heads /\ h.lock = buf[b].lock
        BY <2>1 DEF Heads
      <3>3. buf' = [buf EXCEPT ![b] = h]
        BY <3>1, <1>1 DEF TypeOK
      <3> QED
        BY <3>2, <3>3
    <2> QED
      BY <2>2, <2>3, <2>4
  <1> QED
    BY <1>1, <1>2 DEF TypeOK

(* And so they keep everything. *)
LEMMA CallerSteps ==
  ASSUME IInv, NEW t \in Tasks, Modify(t) \/ Forget(t) \/ Reuse(t)
  PROVE  IInv'
  <1>1. TypeOK /\ UNCHANGED <<schedVars, request, queue, hd, task, wild>>
    BY DEF Modify, Forget, Reuse, IInv
  <1>3. buf' \in [Buffers -> Heads] /\ \A a \in Buffers : buf'[a].lock = buf[a].lock
    BY <1>1, CallerLocks
  <1>4. TypeOK'
    BY <1>1, <1>3 DEF TypeOK, SchedTypeOK, schedVars
  <1>5. SameOwners
    BY <1>1, <1>3 DEF SameOwners
  <1> QED
    BY <1>1, <1>4, <1>5, SameOwnersTypes

(* The CPU goes to another task. *)
LEMMA SwitchTaskStep == ASSUME IInv, SwitchTask PROVE IInv'
  <1>1. TypeOK /\ UNCHANGED <<state, wq, tmp, buf, request, queue, hd, task, wild>>
    BY DEF SwitchTask, IInv
  <1>2. current' \in Tasks \union {Idle}
    BY ScheduleTypes DEF SwitchTask
  <1>3. TypeOK' /\ SameOwners
    BY <1>1, <1>2 DEF TypeOK, SchedTypeOK, SameOwners
  <1> QED
    BY <1>1, <1>3, SameOwnersTypes
-----------------------------------------------------------------------------
(* The steps of the drive. *)

(* end_request, whatever the transfer did to the slot before. *)
LEMMA EndRequestKeeps ==
  ASSUME IInv, queue # <<>>, NEW r, NEW rs, NEW bs \in [Buffers -> Heads], NEW up \in BOOLEAN,
         rs = request \/ rs = [request EXCEPT ![Head(queue)] = r],
         \A b \in Buffers : bs[b].lock = buf[b].lock,
         EndRequest(rs, bs, up), task' = task, hd' \in Drives, wild' \in BOOLEAN
  PROVE  IInv'
  <1> DEFINE h == Head(queue)
             b == Current.bh
  <1>1. TypeOK /\ Owned /\ h \in Slots /\ request[h] = Current
    BY DEF IInv, TypeOK, Owned, Current
  <1>2. b \in Buffers \union {NoBuf} /\ request \in [Slots -> Requests]
    BY <1>1 DEF TypeOK, Requests
  <1>3. request' = [request EXCEPT ![h] = FreeRequest]
    BY <1>1, <1>2 DEF EndRequest
  <1>4. /\ buf' \in [Buffers -> Heads]
        /\ \A a \in Buffers : buf'[a].lock <=> buf[a].lock /\ a # b
    <2>1. CASE b = NoBuf
      BY <2>1, <1>2, NoBufIsNone DEF EndRequest
    <2>2. CASE b # NoBuf
      <3> DEFINE new == [bs[b] EXCEPT !.uptodate = up, !.lock = FALSE]
      <3>1. b \in Buffers /\ bs[b] \in Heads
        BY <2>2, <1>2
      <3>2. new \in Heads /\ ~new.lock
        BY <3>1 DEF Heads
      <3>3. buf' = [bs EXCEPT ![b] = new]
        BY <2>2, <3>1 DEF EndRequest
      <3> HIDE DEF new
      <3> QED
        BY <3>1, <3>2, <3>3, <1>1 DEF TypeOK, Heads
    <2> QED
      BY <2>1, <2>2
  <1>5. queue' = Tail(queue)
    BY DEF EndRequest
  <1>6. End
    BY <1>3, <1>4, <1>5 DEF End
  <1>7. Owned' /\ queue' \in Seq(Slots)
    BY <1>1, <1>6, EndKeeps
  <1>8. SchedTypeOK'
    <2>1. SchedTypeOK /\ UNCHANGED <<current, wq, tmp>>
      BY <1>1 DEF TypeOK, EndRequest
    <2>2. state' \in [Tasks -> {RUNNING, UNINTERRUPTIBLE}]
      BY <2>1, WakeUpTypes DEF SchedTypeOK, EndRequest
    <2> QED
      BY <2>1, <2>2 DEF SchedTypeOK
  <1>9. request' \in [Slots -> Requests]
    BY <1>2, <1>3, FreeTypes
  <1>10. TypeOK'
    BY <1>1, <1>4, <1>7, <1>8, <1>9 DEF TypeOK
  <1>11. HasBuffer' /\ SectorsLeft'
    BY <1>2, <1>3 DEF IInv, HasBuffer, SectorsLeft, FreeRequest
  <1> QED
    BY <1>7, <1>10, <1>11 DEF IInv, Owned

(* bad_rw_intr: the error is counted, or the request ends. *)
LEMMA BadRwIntrKeeps ==
  ASSUME IInv, queue # <<>>, NEW bs \in [Buffers -> Heads],
         \A b \in Buffers : bs[b].lock = buf[b].lock,
         BadRwIntr(bs), task' = task, hd' \in Drives, wild' \in BOOLEAN
  PROVE  IInv'
  <1> DEFINE h == Head(queue)
             r == [request[h] EXCEPT !.errors = @ + 1]
             rs == [request EXCEPT ![h] = r]
  <1>1. TypeOK /\ h \in Slots /\ request \in [Slots -> Requests] /\ request[h] \in Requests
    BY DEF IInv, TypeOK
  <1>2. [request EXCEPT ![h].errors = @ + 1] = rs
    BY <1>1
  <1>3. /\ r \in Requests /\ r.busy = request[h].busy /\ r.bh = request[h].bh
        /\ r.nr = request[h].nr
    <2> DEFINE n == request[h].errors + 1
    <2>1. n \in Nat
      BY <1>1 DEF Requests
    <2> HIDE DEF n
    <2>2. r = [request[h] EXCEPT !.errors = n]
      BY DEF n
    <2>3. [request[h] EXCEPT !.errors = n] \in Requests
      BY <1>1, <2>1 DEF Requests
    <2>4. r.busy = request[h].busy /\ r.bh = request[h].bh /\ r.nr = request[h].nr
      BY <1>1 DEF Requests
    <2> QED
      BY <2>2, <2>3, <2>4
  <1>4. CASE EndRequest(rs, bs, FALSE)
    <2>1. rs = [request EXCEPT ![Head(queue)] = r] /\ FALSE \in BOOLEAN
      OBVIOUS
    <2> HIDE DEF r, rs
    <2> QED
      BY <1>4, <2>1, EndRequestKeeps, Zenon
  <1>5. CASE request' = rs /\ buf' = bs /\ UNCHANGED <<schedVars, queue>>
    <2> HIDE DEF r
    <2>1. TypeOK'
      BY <1>1, <1>3, <1>5 DEF TypeOK, SchedTypeOK, schedVars
    <2>2. SameOwners /\ \A s \in Slots : request'[s].nr = request[s].nr
      BY <1>1, <1>3, <1>5 DEF SameOwners
    <2> QED
      BY <2>1, <2>2, SameOwnersTypes
  <1> QED
    BY <1>2, <1>4, <1>5 DEF BadRwIntr

(* Whatever is read of the next request, reset stays a flag. *)
LEMMA ResetTypes == ResetAfterError \subseteq BOOLEAN
  BY DEF ResetAfterError

(* reset_hd and the interrupt entry set the drive's state to a state of the drive. *)
LEMMA DriveTypes ==
  ASSUME TypeOK
  PROVE  /\ \A i \in Nat : Specify(i) \in Drives
         /\ \A handler \in Handlers : Issued(handler) \in Drives
         /\ Handled \in Drives
  <1>1. hd \in Drives /\ NrHd \in Nat \ {0}
    BY Constants DEF TypeOK
  <1>2. ASSUME NEW i \in Nat PROVE Specify(i) \in Drives
    <2>1. CASE i < NrHd
      <3>1. i \in 0 .. NrHd - 1
        BY <2>1, <1>1
      <3> QED
        BY <2>1, <3>1, <1>1 DEF Specify, Drives, Handlers
    <2>2. CASE ~(i < NrHd)
      <3>1. 0 \in 0 .. NrHd - 1
        BY <1>1
      <3> QED
        BY <2>2, <3>1, <1>1 DEF Specify, Drives, Handlers
    <2> QED
      BY <2>1, <2>2
  <1>3. ASSUME NEW handler \in Handlers PROVE Issued(handler) \in Drives
    BY <1>1 DEF Issued, Drives
  <1>4. Handled \in Drives
    BY <1>1 DEF Handled, Drives, Handlers
  <1> QED
    BY <1>2, <1>3, <1>4

(* A sector goes over the bus: no lock changes. *)
LEMMA StaleTypes ==
  ASSUME IInv, queue # <<>>, NEW S \in SUBSET Sectors
  PROVE  /\ WithStale(S) \in [Buffers -> Heads]
         /\ \A b \in Buffers : WithStale(S)[b].lock = buf[b].lock
  <1>1. buf \in [Buffers -> Heads] /\ Current \in Requests
    BY DEF IInv, TypeOK, Current
  <1>2. CASE Current.bh = NoBuf
    BY <1>1, <1>2 DEF WithStale
  <1>3. CASE Current.bh # NoBuf
    <2> DEFINE c == Current.bh
               new == [buf[c] EXCEPT !.stale = S]
    <2>1. c \in Buffers /\ buf[c] \in Heads
      BY <1>1, <1>3 DEF Requests
    <2>2. new \in Heads /\ new.lock = buf[c].lock
      BY <2>1 DEF Heads
    <2>3. WithStale(S) = [buf EXCEPT ![c] = new]
      BY <1>3, <2>1, <1>1 DEF WithStale
    <2> HIDE DEF new
    <2> QED
      BY <1>1, <2>1, <2>2, <2>3
  <1> QED
    BY <1>2, <1>3

(* The current request is one of the queue, and so has a sector to go. *)
LEMMA CurrentLeft ==
  ASSUME IInv, queue # <<>>
  PROVE  /\ Head(queue) \in Slots /\ Current = request[Head(queue)] /\ Current \in Requests
         /\ Current.nr \in Nat \ {0}
         /\ Current.bh # NoBuf => Current.bh \in Buffers /\ Sector(Current.nr) \in Sectors
  <1>1. Head(queue) \in Slots /\ Current = request[Head(queue)] /\ Current \in Requests
    BY DEF IInv, TypeOK, Current
  <1>2. Head(queue) \in ToSet(queue)
    BY DEF IInv, TypeOK, ToSet
  <1>3. Current.nr \in 1 .. IF Current.bh = NoBuf THEN PageSectors ELSE BlockSectors
    BY <1>1, <1>2 DEF IInv, SlotsAccounted, SectorsLeft
  <1>4. BlockSectors \in Nat /\ PageSectors \in Nat
    BY Constants
  <1>5. Current.nr \in Nat \ {0}
    BY <1>3, <1>4
  <1>6. Current.bh # NoBuf => Current.bh \in Buffers /\ Sector(Current.nr) \in Sectors
    BY <1>1, <1>3, <1>4 DEF Requests, Sector, Sectors
  <1> QED
    BY <1>1, <1>5, <1>6

(* A sector is through and another is to come. *)
LEMMA SectorKeeps ==
  ASSUME IInv, queue # <<>>, NEW r \in Requests, r.busy = Current.busy, r.bh = Current.bh,
         Current.nr > 1, r.nr = Current.nr - 1,
         request' = [request EXCEPT ![Head(queue)] = r], NEW S \in SUBSET Sectors,
         buf' = WithStale(S), UNCHANGED <<schedVars, queue, hd, task, wild>>
  PROVE  IInv'
  <1>1. TypeOK /\ Head(queue) \in Slots /\ request[Head(queue)] = Current
    BY DEF IInv, TypeOK, Current
  <1>2. buf' \in [Buffers -> Heads] /\ \A b \in Buffers : buf'[b].lock = buf[b].lock
    BY StaleTypes
  <1>3. SchedTypeOK'
    BY <1>1 DEF TypeOK, SchedTypeOK, schedVars
  <1>4. TypeOK'
    BY <1>1, <1>2, <1>3 DEF TypeOK
  <1>5. SameOwners
    BY <1>1, <1>2 DEF SameOwners, TypeOK
  <1>6. Owned'
    BY <1>5, SameOwnersKeeps DEF IInv, Owned
  <1>7. SectorsLeft'
    <2>1. \A s \in Slots : request'[s] = IF s = Head(queue) THEN r ELSE request[s]
      BY <1>1 DEF TypeOK
    <2>2. BlockSectors \in Nat /\ PageSectors \in Nat /\ r.nr \in Nat /\ Current.nr \in Nat
      BY <1>1, Constants DEF Requests, TypeOK
    <2> QED
      BY <2>1, <2>2, <1>1 DEF IInv, SectorsLeft
  <1> QED
    BY <1>4, <1>6, <1>7 DEF IInv, Owned, HasBuffer

(* A step that changes no more than the drive and the copies on the disk. *)
LEMMA DriveKeeps ==
  ASSUME IInv, hd' \in Drives, buf' \in [Buffers -> Heads], wild' \in BOOLEAN,
         \A b \in Buffers : buf'[b].lock = buf[b].lock,
         UNCHANGED <<schedVars, request, queue, task>>
  PROVE  IInv'
  <1>1. TypeOK' /\ SameOwners /\ request' = request
    BY DEF IInv, TypeOK, SchedTypeOK, schedVars, SameOwners
  <1> QED
    BY <1>1, SameOwnersTypes

(* A sector that is not written: no lock changes. *)
LEMMA NotCopiedTypes ==
  ASSUME IInv, queue # <<>>
  PROVE  /\ NotCopied(Current.nr) \in [Buffers -> Heads]
         /\ \A b \in Buffers : NotCopied(Current.nr)[b].lock = buf[b].lock
  <1> DEFINE S == buf[Current.bh].stale \union {Sector(Current.nr)}
  <1>1. CASE Current.bh = NoBuf
    BY <1>1 DEF IInv, TypeOK, NotCopied, WithStale
  <1>2. CASE Current.bh # NoBuf
    <2>1. S \in SUBSET Sectors
      BY <1>2, CurrentLeft DEF IInv, TypeOK, Heads
    <2>2. NotCopied(Current.nr) = WithStale(S)
      BY DEF NotCopied
    <2> HIDE DEF S
    <2> QED
      BY <2>1, <2>2, StaleTypes
  <1> QED
    BY <1>1, <1>2

(* The drive reports an error. *)
LEMMA TransferErrorStep == ASSUME IInv, TransferError PROVE IInv'
  <1>1. TypeOK /\ hd' \in Drives /\ queue # <<>> /\ UNCHANGED <<task, wild>>
    <2>1. PICK again \in BOOLEAN : hd' = [Handled EXCEPT !.reset = again]
      BY ResetTypes DEF TransferError
    <2>2. Handled \in Drives
      BY DriveTypes DEF IInv
    <2> QED
      BY <2>1, <2>2 DEF Drives, TransferError, IInv
  <1>2. wild' \in BOOLEAN
    BY <1>1 DEF TypeOK
  <1>3. CASE BadRwIntr(buf)
    <2>1. buf \in [Buffers -> Heads]
      BY <1>1 DEF TypeOK
    <2> QED
      BY <1>1, <1>2, <1>3, <2>1, BadRwIntrKeeps
  <1>4. CASE BadRwIntr(NotCopied(Current.nr)) /\ hd.intr = "write_intr"
    BY <1>1, <1>2, <1>4, NotCopiedTypes, BadRwIntrKeeps
  <1> QED
    BY <1>3, <1>4 DEF TransferError, Interrupt

(* One sector less to go. *)
LEMMA GoneTypes ==
  ASSUME NEW r \in Requests, r.nr - 1 \in Nat
  PROVE  /\ SectorGone(r) \in Requests /\ SectorGone(r).nr = r.nr - 1
         /\ SectorGone(r).busy = r.busy /\ SectorGone(r).bh = r.bh
  <1> DEFINE n == r.nr - 1
             m == r.sector + 1
  <1>1. SectorGone(r) = [r EXCEPT !.sector = m, !.nr = n]
    BY DEF SectorGone
  <1>2. n \in Nat /\ m \in Nat
    BY DEF Requests
  <1> HIDE DEF n, m
  <1>3. /\ [r EXCEPT !.sector = m, !.nr = n] \in Requests
        /\ [r EXCEPT !.sector = m, !.nr = n].nr = n
        /\ [r EXCEPT !.sector = m, !.nr = n].busy = r.busy
        /\ [r EXCEPT !.sector = m, !.nr = n].bh = r.bh
    BY <1>2 DEF Requests
  <1> QED
    BY <1>1, <1>3 DEF n

(* The interrupts that bring the next sector. *)
LEMMA SectorSteps ==
  ASSUME IInv, ReadSector \/ WriteSector
  PROVE  IInv'
  <1> DEFINE h == Head(queue)
             left == Current.nr - 1
             S(x) == buf[Current.bh].stale \ {x}
  <1>1. /\ TypeOK /\ queue # <<>> /\ Current.nr > 1
        /\ UNCHANGED <<schedVars, queue, hd, task, wild>>
    BY DEF ReadSector, WriteSector, IInv
  <1>2. /\ h \in Slots /\ Current = request[h] /\ Current \in Requests
        /\ left \in Nat
    BY <1>1, CurrentLeft DEF Requests
  <1>3. request \in [Slots -> Requests]
    BY <1>1 DEF TypeOK
  <1> HIDE DEF h, left
  <1>4. PICK r \in Requests :
          /\ r.busy = Current.busy /\ r.bh = Current.bh /\ r.nr = left
          /\ request' = [request EXCEPT ![h] = r]
    <2>1. CASE ReadSector
      <3> DEFINE r == SectorGone([Current EXCEPT !.errors = 0])
      <3>1. [Current EXCEPT !.errors = 0] \in Requests
        BY <1>2 DEF Requests
      <3>2. r \in Requests /\ r.busy = Current.busy /\ r.bh = Current.bh /\ r.nr = left
        BY <1>2, <3>1, GoneTypes DEF Requests, left
      <3> QED
        BY <2>1, <1>2, <3>2 DEF ReadSector, h
    <2>2. CASE WriteSector
      <3> DEFINE r == SectorGone(Current)
      <3>1. r \in Requests /\ r.busy = Current.busy /\ r.bh = Current.bh /\ r.nr = left
        BY <1>2, GoneTypes DEF left
      <3> QED
        BY <2>2, <1>2, <3>1 DEF WriteSector, h
    <2> QED
      BY <2>1, <2>2
  <1>5. PICK x : buf' = WithStale(S(x))
    BY DEF ReadSector, WriteSector, Copied
  <1>6. CASE Current.bh = NoBuf
    <2>1. WithStale(S(x)) = WithStale({})
      BY <1>6 DEF WithStale
    <2> QED
      BY <1>1, <1>2, <1>4, <1>5, <2>1, SectorKeeps DEF h, left
  <1>7. CASE Current.bh # NoBuf
    <2>1. S(x) \in SUBSET Sectors
      BY <1>1, <1>2, <1>7 DEF TypeOK, Heads, Requests
    <2> HIDE DEF S
    <2> QED
      BY <1>1, <1>2, <1>4, <1>5, <2>1, SectorKeeps DEF h, left
  <1> QED
    BY <1>6, <1>7

(* The copy of a sector to the disk or from it: no lock changes. *)
LEMMA CopiedTypes ==
  ASSUME IInv, queue # <<>>, NEW n
  PROVE  /\ Copied(n) \in [Buffers -> Heads]
         /\ \A b \in Buffers : Copied(n)[b].lock = buf[b].lock
  <1>1. CASE Current.bh = NoBuf
    BY <1>1 DEF IInv, TypeOK, Copied, WithStale
  <1>2. CASE Current.bh # NoBuf
    <2> DEFINE S == buf[Current.bh].stale \ {Sector(n)}
    <2>1. S \in SUBSET Sectors
      BY <1>2, CurrentLeft DEF IInv, TypeOK, Heads
    <2>2. Copied(n) = WithStale(S)
      BY DEF Copied
    <2> HIDE DEF S
    <2> QED
      BY <2>1, <2>2, StaleTypes
  <1> QED
    BY <1>1, <1>2

(* The interrupts with which a request ends. *)
LEMMA DoneSteps ==
  ASSUME IInv, ReadDone \/ WriteDone
  PROVE  IInv'
  <1>1. TypeOK /\ queue # <<>> /\ hd' \in Drives /\ wild' \in BOOLEAN /\ task' = task
    BY DriveTypes DEF ReadDone, WriteDone, IInv, TypeOK
  <1>2. Head(queue) \in Slots /\ Current = request[Head(queue)] /\ request \in [Slots -> Requests]
    BY <1>1, CurrentLeft DEF TypeOK
  <1>3. CASE ReadDone
    <2> DEFINE r == SectorGone([Current EXCEPT !.errors = 0])
               rs == [request EXCEPT ![Head(queue)] = r]
    <2>1. EndRequest(rs, Copied(1), TRUE)
      BY <1>3 DEF ReadDone
    <2>2. /\ Copied(1) \in [Buffers -> Heads]
          /\ \A b \in Buffers : Copied(1)[b].lock = buf[b].lock
      BY <1>1, CopiedTypes
    <2> HIDE DEF r
    <2> QED
      BY <1>1, <2>1, <2>2, EndRequestKeeps
  <1>4. CASE WriteDone
    <2> DEFINE r == [Current EXCEPT !.nr = 0]
               rs == [request EXCEPT ![Head(queue)] = r]
    <2>1. EndRequest(rs, buf, TRUE)
      BY <1>2, <1>4 DEF WriteDone
    <2>2. buf \in [Buffers -> Heads]
      BY <1>1 DEF TypeOK
    <2> HIDE DEF r
    <2> QED
      BY <1>1, <2>1, <2>2, EndRequestKeeps
  <1> QED
    BY <1>3, <1>4

(* The reset of the drives and the recalibration. *)
LEMMA ResetSteps ==
  ASSUME IInv, Recalibrated \/ DriveReset \/ ResetError \/ ResetErrorNoRequest
  PROVE  IInv'
  <1>1. TypeOK /\ hd \in Drives /\ hd.i + 1 \in Nat /\ 0 \in Nat
    BY DEF IInv, TypeOK, Drives
  <1>2. buf \in [Buffers -> Heads] /\ wild' \in BOOLEAN
    BY <1>1 DEF Recalibrated, DriveReset, ResetError, ResetErrorNoRequest, TypeOK
  <1>3. CASE ResetError
    <2>1. hd' \in Drives
      <3>1. PICK again : hd' = Specify(IF again THEN 0 ELSE hd.i + 1)
        BY <1>3 DEF ResetError
      <3> QED
        BY <3>1, <1>1, DriveTypes
    <2> QED
      BY <1>2, <1>3, <2>1, BadRwIntrKeeps DEF ResetError
  <1>4. CASE Recalibrated \/ DriveReset \/ ResetErrorNoRequest
    <2>1. hd' \in Drives
      BY <1>1, <1>4, DriveTypes DEF Recalibrated, DriveReset, ResetErrorNoRequest
    <2>2. buf' = buf /\ UNCHANGED <<schedVars, request, queue, task>>
      BY <1>4 DEF Recalibrated, DriveReset, ResetErrorNoRequest
    <2> QED
      BY <1>2, <2>1, <2>2, DriveKeeps
  <1> QED
    BY <1>3, <1>4

(* do_hd_request. *)
LEMMA DoHdRequestStep == ASSUME IInv, DoHdRequest PROVE IInv'
  <1>1. TypeOK /\ hd \in Drives /\ buf \in [Buffers -> Heads] /\ wild' \in BOOLEAN /\ task' = task
    BY DEF IInv, TypeOK, DoHdRequest, NoRequest, OutOfRange, ResetDrives, Recalibrate,
           StartRead, StartWrite, NoDataRequest
  <1>2. \A handler \in Handlers : Issued(handler) \in Drives
    BY <1>1, DriveTypes
  <1>3. CASE NoRequest \/ ResetDrives \/ Recalibrate \/ StartRead
    <2>1. hd' \in Drives
      <3>1. CASE NoRequest
        BY <3>1, <1>2 DEF NoRequest, Handlers
      <3>2. CASE ResetDrives
        BY <3>2, <1>1, DriveTypes DEF ResetDrives, Drives
      <3>3. CASE Recalibrate
        BY <3>3, <1>2 DEF Recalibrate, Handlers, Drives
      <3>4. CASE StartRead
        BY <3>4, <1>2 DEF StartRead, Handlers
      <3> QED
        BY <1>3, <3>1, <3>2, <3>3, <3>4
    <2>2. buf' = buf /\ UNCHANGED <<schedVars, request, queue, task>>
      BY <1>3 DEF NoRequest, ResetDrives, Recalibrate, StartRead
    <2> QED
      BY <1>1, <2>1, <2>2, DriveKeeps
  <1>4. CASE StartWrite
    <2>1. hd' \in Drives
      BY <1>4, <1>2 DEF StartWrite, Handlers
    <2>2. /\ buf' \in [Buffers -> Heads]
          /\ \A b \in Buffers : buf'[b].lock = buf[b].lock
      BY <1>4, CopiedTypes DEF StartWrite, Transferring, Fit
    <2>3. UNCHANGED <<schedVars, request, queue, task>>
      BY <1>4 DEF StartWrite
    <2> QED
      BY <1>1, <2>1, <2>2, <2>3, DriveKeeps
  <1>5. CASE OutOfRange
    <2>1. EndRequest(request, buf, FALSE) /\ queue # <<>> /\ hd' \in Drives /\ FALSE \in BOOLEAN
      BY <1>1, <1>5 DEF OutOfRange
    <2> QED
      BY <1>1, <2>1, EndRequestKeeps
  <1>6. CASE NoDataRequest
    <2>1. PICK again \in BOOLEAN : hd' = [hd EXCEPT !.intr = "write_intr", !.reset = again]
      BY <1>6, ResetTypes DEF NoDataRequest
    <2>2. hd' \in Drives
      BY <1>1, <2>1 DEF Drives, Handlers
    <2>3. BadRwIntr(buf) /\ queue # <<>>
      BY <1>6 DEF NoDataRequest, Transferring, Fit
    <2> QED
      BY <1>1, <2>2, <2>3, BadRwIntrKeeps
  <1> QED
    BY <1>3, <1>4, <1>5, <1>6 DEF DoHdRequest

(* IInv is inductive. *)
LEMMA NextIInv == IInv /\ [Next]_vars => IInv'
  <1> SUFFICES ASSUME IInv, [Next]_vars PROVE IInv'
    OBVIOUS
  <1>1. ASSUME NEW t \in Tasks, Call(t) \/ Modify(t) \/ Forget(t) \/ Reuse(t) \/ Kernel(t)
        PROVE  IInv'
    BY <1>1, CallStep, CallerSteps, KernelStep
  <1>2. CASE SwitchTask
    BY <1>2, SwitchTaskStep
  <1>3. CASE DoHdRequest
    BY <1>3, DoHdRequestStep
  <1>4. CASE HdInterrupt
    BY <1>4, TransferErrorStep, SectorSteps, DoneSteps, ResetSteps DEF HdInterrupt
  <1>5. CASE UNCHANGED vars
    <2>1. TypeOK' /\ SameOwners /\ request' = request
      BY <1>5 DEF IInv, TypeOK, SchedTypeOK, SameOwners, vars, schedVars
    <2> QED
      BY <2>1, SameOwnersTypes
  <1> QED
    BY <1>1, <1>2, <1>3, <1>4, <1>5 DEF Next
-----------------------------------------------------------------------------
(* What the kernel can rely on, whatever the number of tasks, buffers,   *)
(* partitions, slots, drives, and whatever the blocks and their sectors. *)

(* IInv holds in every reachable state: the types, the accounts of slots *)
(* and locks, and the sectors left of every request.                     *)
THEOREM SpecIInv == Spec => []IInv
  <1>1. Init => IInv
    BY InitIInv
  <1>2. IInv /\ [Next]_vars => IInv'
    BY NextIInv
  <1> QED
    BY <1>1, <1>2, PTL DEF Spec

(* Every variable keeps its type: the static variable of reset_hd never *)
(* runs past the drives, the queue only holds slots.                    *)
THEOREM SpecTypeOK == Spec => []TypeOK
  <1>1. IInv => TypeOK
    BY DEF IInv
  <1> QED
    BY <1>1, SpecIInv, PTL

(* A locked buffer has one owner, task or request, and an unlocked one none. *)
THEOREM SpecLockOwned == Spec => []LockOwned
  <1>1. IInv => LockOwned
    BY DEF IInv
  <1> QED
    BY <1>1, SpecIInv, PTL

(* A slot is busy exactly while its request is queued, once, or is about *)
(* to be: no request is lost and none is queued twice.                   *)
THEOREM SpecSlotsAccounted == Spec => []SlotsAccounted
  <1>1. IInv => SlotsAccounted
    BY DEF IInv
  <1> QED
    BY <1>1, SpecIInv, PTL

(* do_hd_request never finds the buffer of the current request unlocked, *)
(* for which it would stop the machine.                                  *)
THEOREM SpecNoUnlockedBlock == Spec => []NoUnlockedBlock
  <1>1. IInv => NoUnlockedBlock
    <2> SUFFICES ASSUME IInv, queue # <<>>, Current.bh # NoBuf
                 PROVE  buf[Current.bh].lock
      BY DEF NoUnlockedBlock, Locked
    <2>1. Head(queue) \in ToSet(queue) /\ Current.bh \in Buffers
      BY CurrentLeft DEF IInv, TypeOK, ToSet
    <2>2. Head(queue) \in QueuedFor(Current.bh)
      BY <2>1 DEF QueuedFor, Current
    <2> QED
      BY <2>1, <2>2 DEF IInv, LockOwned
  <1> QED
    BY <1>1, SpecIInv, PTL
=============================================================================
