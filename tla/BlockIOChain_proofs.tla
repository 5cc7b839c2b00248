------------------------ MODULE BlockIOChain_proofs ------------------------
(***************************************************************************)
(* The chain of sleepers that __sleep_on keeps in local variables is whole *)
(* and its head is awake as soon as the buffer is unlocked, for any number *)
(* of tasks and buffers: with IInv, ChainWhole and NoLostWakeup are        *)
(* inductive.                                                              *)
(*                                                                         *)
(* Three steps touch a chain: a task goes to sleep on top of it, at two    *)
(* places, or is unlinked from its top.  All the others are Quiet.         *)
(***************************************************************************)
EXTENDS BlockIO_proofs, FiniteSetTheorems

Size(q) == Cardinality(SleepersOn(q))

(* There are finitely many sleepers, all of them tasks. *)
LEMMA Sleepers ==
  \A q : /\ SleepersOn(q) \subseteq Tasks /\ IsFiniteSet(SleepersOn(q)) /\ Size(q) \in Nat
  <1> SUFFICES ASSUME NEW q
               PROVE  /\ SleepersOn(q) \subseteq Tasks /\ IsFiniteSet(SleepersOn(q))
                      /\ Size(q) \in Nat
    OBVIOUS
  <1>1. SleepersOn(q) \subseteq Tasks
    BY DEF SleepersOn
  <1>2. IsFiniteSet(SleepersOn(q))
    BY <1>1, FS_Subset, SchedAssumption
  <1> QED
    BY <1>1, <1>2, FS_CardinalityType DEF Size

(* A task that sleeps does so on one queue. *)
LEMMA OneQueue ==
  \A q : \A t \in SleepersOn(q) : task[t].pc \in Asleep /\ q = SleepsOn(t)
  BY DEF SleepersOn

(* A task goes to sleep: it is put on top of the chain. *)
LEMMA PushKeeps ==
  ASSUME NEW q, NEW t \in Tasks, t \notin SleepersOn(q),
         NEW n \in Nat, n = Size(q), NEW s \in [1 .. n -> SleepersOn(q)], IsChain(s, n, q),
         SleepersOn(q)' = SleepersOn(q) \union {t},
         wq'[q] = t, tmp'[t] = wq[q], \A u \in SleepersOn(q) : tmp'[u] = tmp[u]
  PROVE  /\ Size(q)' = n + 1
         /\ \E z \in [1 .. n + 1 -> SleepersOn(q)'] : IsChain(z, n + 1, q)'
  <1> DEFINE z == [i \in 1 .. n + 1 |-> IF i = 1 THEN t ELSE s[i - 1]]
  <1>1. Size(q)' = n + 1
    <2>1. Cardinality(SleepersOn(q) \union {t}) = Cardinality(SleepersOn(q)) + 1
      BY Sleepers, FS_AddElement
    <2> QED
      BY <2>1 DEF Size
  <1>2. z \in [1 .. n + 1 -> SleepersOn(q)']
    OBVIOUS
  <1>3. /\ z[1] = t
        /\ \A i \in 2 .. n + 1 : i - 1 \in 1 .. n /\ z[i] = s[i - 1] /\ z[i] \in SleepersOn(q)
    OBVIOUS
  <1>4. wq'[q] = ChainLink(z, n + 1, 0)
    BY <1>3 DEF ChainLink
  <1>5. ASSUME NEW i \in 1 .. n + 1 PROVE tmp'[z[i]] = ChainLink(z, n + 1, i)
    <2>1. CASE i = 1
      <3>1. 1 < n + 1 => 2 \in 2 .. n + 1 /\ z[2] = s[1]
        BY <1>3
      <3>2. tmp'[z[i]] = ChainLink(s, n, 0)
        BY <2>1, <1>3 DEF IsChain
      <3>3. ChainLink(z, n + 1, 1) = ChainLink(s, n, 0)
        BY <3>1 DEF ChainLink
      <3> QED
        BY <2>1, <3>2, <3>3
    <2>2. CASE i # 1
      <3>1. i - 1 \in 1 .. n /\ tmp'[z[i]] = tmp[s[i - 1]]
        BY <2>2, <1>3
      <3>2. tmp[s[i - 1]] = ChainLink(s, n, i - 1)
        BY <3>1 DEF IsChain
      <3>3. i < n + 1 => i + 1 \in 2 .. n + 1 /\ z[i + 1] = s[i]
        BY <1>3
      <3> QED
        BY <3>1, <3>2, <3>3 DEF ChainLink
    <2> QED
      BY <2>1, <2>2
  <1>6. ASSUME NEW i \in 1 .. n + 1, NEW j \in 1 .. n + 1, z[i] = z[j] PROVE i = j
    <2>1. i = 1 <=> j = 1
      BY <1>3, <1>6
    <2>2. CASE i # 1
      <3>1. i - 1 \in 1 .. n /\ j - 1 \in 1 .. n /\ s[i - 1] = s[j - 1]
        BY <2>1, <2>2, <1>3, <1>6
      <3>2. i - 1 = j - 1
        BY <3>1 DEF IsChain
      <3> QED
        BY <3>2
    <2> QED
      BY <2>1, <2>2
  <1>7. ASSUME NEW u \in SleepersOn(q)' PROVE \E i \in 1 .. n + 1 : z[i] = u
    <2>1. CASE u = t
      BY <2>1, <1>3
    <2>2. CASE u # t
      <3>1. PICK i \in 1 .. n : s[i] = u
        BY <2>2 DEF IsChain
      <3>2. i + 1 \in 2 .. n + 1 /\ z[i + 1] = u
        BY <3>1, <1>3
      <3> QED
        BY <3>2
    <2> QED
      BY <2>1, <2>2
  <1>8. IsChain(z, n + 1, q)'
    BY <1>4, <1>5, <1>6, <1>7 DEF IsChain, ChainLink
  <1> QED
    BY <1>1, <1>2, <1>8

(* A task is unlinked: it was the top of the chain, which goes on below it. *)
LEMMA PopKeeps ==
  ASSUME NEW q, NEW t \in SleepersOn(q), wq[q] \in {NoTask, t},
         NEW n \in Nat, n = Size(q), NEW s \in [1 .. n -> SleepersOn(q)], IsChain(s, n, q),
         SleepersOn(q)' = SleepersOn(q) \ {t},
         wq'[q] = tmp[t], \A u \in SleepersOn(q) : tmp'[u] = tmp[u]
  PROVE  /\ Size(q)' = n - 1 /\ n - 1 \in Nat
         /\ \E z \in [1 .. n - 1 -> SleepersOn(q)'] : IsChain(z, n - 1, q)'
  <1> DEFINE z == [i \in 1 .. n - 1 |-> s[i + 1]]
  <1>1. PICK k \in 1 .. n : s[k] = t
    BY DEF IsChain
  <1>2. n \in Nat \ {0} /\ 1 \in 1 .. n /\ s[1] \in Tasks
    BY <1>1, Sleepers
  <1>3. s[1] = t
    BY <1>2, Constants DEF IsChain, ChainLink
  <1>4. Size(q)' = n - 1 /\ n - 1 \in Nat
    <2>1. Cardinality(SleepersOn(q) \ {t}) = Cardinality(SleepersOn(q)) - 1
      BY Sleepers, FS_RemoveElement
    <2> QED
      BY <2>1, <1>2 DEF Size
  <1>5. \A i \in 1 .. n - 1 : i + 1 \in 1 .. n /\ z[i] = s[i + 1]
    BY <1>2
  <1>6. z \in [1 .. n - 1 -> SleepersOn(q)']
    <2>1. ASSUME NEW i \in 1 .. n - 1 PROVE s[i + 1] \in SleepersOn(q) \ {t}
      <3>1. i + 1 \in 1 .. n /\ i + 1 # 1
        BY <1>2
      <3> QED
        BY <3>1, <1>2, <1>3 DEF IsChain
    <2> QED
      BY <2>1
  <1>7. wq'[q] = ChainLink(z, n - 1, 0)
    <2>1. tmp[t] = ChainLink(s, n, 1)
      BY <1>2, <1>3 DEF IsChain
    <2>2. 0 < n - 1 => 1 \in 1 .. n - 1 /\ z[1] = s[2]
      BY <1>2, <1>5
    <2> QED
      BY <2>1, <2>2, <1>2 DEF ChainLink
  <1>8. ASSUME NEW i \in 1 .. n - 1 PROVE tmp'[z[i]] = ChainLink(z, n - 1, i)
    <2>1. i + 1 \in 1 .. n /\ tmp'[z[i]] = tmp[s[i + 1]]
      BY <1>5
    <2>2. tmp[s[i + 1]] = ChainLink(s, n, i + 1)
      BY <2>1 DEF IsChain
    <2>3. i < n - 1 => i + 1 \in 1 .. n - 1 /\ z[i + 1] = s[i + 2]
      BY <1>2, <1>5
    <2> QED
      BY <2>1, <2>2, <2>3, <1>2 DEF ChainLink
  <1>9. ASSUME NEW i \in 1 .. n - 1, NEW j \in 1 .. n - 1, z[i] = z[j] PROVE i = j
    <2>1. i + 1 \in 1 .. n /\ j + 1 \in 1 .. n /\ s[i + 1] = s[j + 1]
      BY <1>5, <1>9
    <2>2. i + 1 = j + 1
      BY <2>1 DEF IsChain
    <2> QED
      BY <2>2
  <1>10. ASSUME NEW u \in SleepersOn(q)' PROVE \E i \in 1 .. n - 1 : z[i] = u
    <2>1. PICK i \in 1 .. n : s[i] = u
      BY DEF IsChain
    <2>2. i # 1 /\ i - 1 \in 1 .. n - 1
      BY <2>1, <1>2, <1>3
    <2>3. z[i - 1] = s[i - 1 + 1] /\ i - 1 + 1 = i
      BY <2>2, <1>5
    <2> QED
      BY <2>1, <2>2, <2>3
  <1>11. IsChain(z, n - 1, q)'
    BY <1>7, <1>8, <1>9, <1>10 DEF IsChain, ChainLink
  <1> QED
    BY <1>4, <1>6, <1>11

(* A chain whose sleepers and links stay is whole afterwards. *)
LEMMA SameKeeps ==
  ASSUME NEW q, NEW n \in Nat, n = Size(q), NEW s \in [1 .. n -> SleepersOn(q)], IsChain(s, n, q),
         SleepersOn(q)' = SleepersOn(q),
         wq'[q] = wq[q], \A u \in SleepersOn(q) : tmp'[u] = tmp[u]
  PROVE  Size(q)' = n /\ IsChain(s, n, q)'
  BY DEF Size, IsChain, ChainLink

(* A step that leaves the chains alone. *)
SameSleepers ==
  \/ task' = task
  \/ \E t \in Tasks : /\ task[t].pc \notin Asleep /\ task'[t].pc \notin Asleep
                      /\ \A u \in Tasks \ {t} : task'[u] = task[u]
Quiet == wq' = wq /\ tmp' = tmp /\ SameSleepers

(* Whoever sleeps in a chain and was woken stays awake, and the head of the *)
(* sleepers on a buffer is woken when it is unlocked.                       *)
Wakes ==
  /\ \A u \in Tasks : task[u].pc \in Asleep /\ state[u] = RUNNING => state'[u] = RUNNING
  /\ \A b \in Buffers : buf[b].lock /\ ~buf'[b].lock /\ wq[b] \in Tasks => state'[wq[b]] = RUNNING

(* The chains and their heads are as they should be. *)
Chains == ChainWhole /\ NoLostWakeup

(* The chain of each queue, by name. *)
LEMMA ChainOf ==
  ASSUME ChainWhole, NEW q \in Queues
  PROVE  \E s \in [1 .. Size(q) -> SleepersOn(q)] : IsChain(s, Size(q), q)
  BY DEF ChainWhole, Size

(* The head of a chain sleeps on that queue. *)
LEMMA HeadSleeps ==
  ASSUME ChainWhole, NEW q \in Queues
  PROVE  wq[q] # NoTask => wq[q] \in SleepersOn(q)
  <1>1. PICK s \in [1 .. Size(q) -> SleepersOn(q)] : IsChain(s, Size(q), q)
    BY ChainOf
  <1> QED
    BY <1>1, Sleepers DEF IsChain, ChainLink

(* The same sleepers before and after. *)
LEMMA SameSleepersOn == SameSleepers => \A q : SleepersOn(q)' = SleepersOn(q)
  <1> SUFFICES ASSUME SameSleepers, NEW q PROVE SleepersOn(q)' = SleepersOn(q)
    OBVIOUS
  <1> QED
    BY DEF SameSleepers, SleepersOn, SleepsOn

(* A quiet step keeps the chains. *)
LEMMA QuietKeeps ==
  ASSUME IInv, Chains, Quiet, Wakes
  PROVE  Chains'
  <1>1. \A q : SleepersOn(q)' = SleepersOn(q)
    BY SameSleepersOn DEF Quiet
  <1>2. ChainWhole'
    <2> SUFFICES ASSUME NEW q \in Queues
                 PROVE  \E s \in [1 .. Size(q)' -> SleepersOn(q)'] : IsChain(s, Size(q), q)'
      BY DEF ChainWhole, Size
    <2>1. PICK s \in [1 .. Size(q) -> SleepersOn(q)] : IsChain(s, Size(q), q)
      BY ChainOf DEF Chains
    <2>2. Size(q) \in Nat /\ wq'[q] = wq[q] /\ tmp' = tmp
      BY Sleepers DEF Quiet
    <2>3. Size(q)' = Size(q) /\ IsChain(s, Size(q), q)'
      BY <1>1, <2>1, <2>2, SameKeeps
    <2> QED
      BY <1>1, <2>1, <2>3
  <1>3. NoLostWakeup'
    <2> SUFFICES ASSUME NEW b \in Buffers, ~buf'[b].lock, wq[b] # NoTask
                 PROVE  state'[wq[b]] = RUNNING
      BY DEF NoLostWakeup, Quiet
    <2>1. wq[b] \in Tasks /\ task[wq[b]].pc \in Asleep
      BY HeadSleeps, Sleepers, OneQueue, Constants DEF Chains
    <2>2. CASE buf[b].lock
      BY <2>1, <2>2 DEF Wakes
    <2>3. CASE ~buf[b].lock
      BY <2>1, <2>3 DEF Wakes, Chains, NoLostWakeup
    <2> QED
      BY <2>2, <2>3
  <1> QED
    BY <1>2, <1>3 DEF Chains
-----------------------------------------------------------------------------
(* The steps of a task that leave the chains alone. *)

(* A task that is not asleep goes to another label. *)
LEMMA GotoQuiet ==
  ASSUME TypeOK, NEW t \in Tasks, NEW l \in Labels \ Asleep, Goto(t, l), task[t].pc \notin Asleep
  PROVE  SameSleepers
  BY DEF TypeOK, Goto, SameSleepers, Calls

(* A task that is not asleep returns to its caller. *)
LEMMA ReturnQuiet ==
  ASSUME TypeOK, NEW t \in Tasks, Return(t), task[t].pc \notin Asleep
  PROVE  SameSleepers
  <1>1. task'[t].pc \in {"page", "user"} /\ \A u \in Tasks \ {t} : task'[u] = task[u]
    BY DEF TypeOK, Return, User
  <1> QED
    BY <1>1 DEF SameSleepers, Asleep

(* No task state and no lock changes. *)
LEMMA SameStates ==
  state' = state /\ (\A b \in Buffers : buf'[b].lock = buf[b].lock) => Wakes
  BY DEF Wakes

(* unlock_buffer wakes the head of the sleepers. *)
LEMMA UnlockWakes ==
  ASSUME TypeOK, NEW b \in Buffers \union {NoBuf}, Unlock(b)
  PROVE  Wakes /\ wq' = wq /\ tmp' = tmp
  <1>1. \A a \in Buffers \ {b} : buf'[a] = buf[a]
    BY DEF Unlock, TypeOK
  <1>2. \A u \in Tasks : state'[u] = IF u = wq[b] /\ u # NoTask THEN RUNNING ELSE state[u]
    BY DEF Unlock, WakeUp, TypeOK, SchedTypeOK
  <1> QED
    BY <1>1, <1>2, Constants DEF Unlock, Wakes

(* A task calls the block layer. *)
LEMMA CallQuiet == ASSUME TypeOK, NEW t \in Tasks, Call(t) PROVE Quiet /\ Wakes
  <1>1. task'[t].pc \in {"lock", "wait", "scan"} /\ \A u \in Tasks \ {t} : task'[u] = task[u]
    BY DEF Call, User, TypeOK
  <1>2. task[t].pc \notin Asleep
    BY DEF Call, At, Asleep
  <1>3. SameSleepers
    BY <1>1, <1>2 DEF SameSleepers, Asleep
  <1> QED
    BY <1>3, SameStates DEF Call, Quiet, schedVars

(* What the callers do with their buffers, and a change of task. *)
LEMMA CallerQuiet ==
  ASSUME TypeOK, NEW t \in Tasks, Modify(t) \/ Forget(t) \/ Reuse(t) \/ SwitchTask
  PROVE  Quiet /\ Wakes
  <1>1. task' = task /\ state' = state /\ wq' = wq /\ tmp' = tmp
    BY DEF Modify, Forget, Reuse, SwitchTask, schedVars
  <1>2. \A b \in Buffers : buf'[b].lock = buf[b].lock
    BY CallerLocks DEF SwitchTask
  <1> QED
    BY <1>1, <1>2, SameStates DEF Quiet, SameSleepers

(* A task goes on, with nothing to lock. *)
LEMMA GoOnQuiet ==
  ASSUME TypeOK, NEW t \in Tasks,
         WaitDone(t) \/ FindFull(t) \/ StartDrive(t) \/ SleepOnPage(t) \/ PageDone(t)
  PROVE  Quiet /\ Wakes
  <1>1. state' = state /\ wq' = wq /\ tmp' = tmp /\ buf' = buf /\ task[t].pc \notin Asleep
    BY DEF WaitDone, FindFull, StartDrive, SleepOnPage, PageDone, At, Asleep, schedVars
  <1>2. Return(t) \/ \E l \in {"full", "page_sleep", "user"} : Goto(t, l)
    BY DEF WaitDone, FindFull, StartDrive, SleepOnPage, PageDone
  <1>3. SameSleepers
    <2>1. {"full", "page_sleep", "user"} \subseteq Labels \ Asleep
      BY DEF Labels, Asleep
    <2> QED
      BY <1>1, <1>2, <2>1, GotoQuiet, ReturnQuiet
  <1> QED
    BY <1>1, <1>3, SameStates DEF Quiet

(* A task links its request. *)
LEMMA AddRequestQuiet == ASSUME TypeOK, NEW t \in Tasks, AddRequest(t) PROVE Quiet /\ Wakes
  <1>1. /\ state' = state /\ wq' = wq /\ tmp' = tmp /\ task[t].pc \notin Asleep
        /\ Return(t) \/ Goto(t, "start")
    BY DEF AddRequest, At, Asleep, schedVars
  <1>2. \A b \in Buffers : buf'[b].lock = buf[b].lock
    BY DEF AddRequest, TypeOK, Heads
  <1>3. SameSleepers
    <2>1. "start" \in Labels \ Asleep
      BY DEF Labels, Asleep
    <2> QED
      BY <1>1, <2>1, GotoQuiet, ReturnQuiet
  <1> QED
    BY <1>1, <1>2, <1>3, SameStates DEF Quiet

(* A task that fills a slot for a page is marked as asleep, in no chain. *)
LEMMA FillRequestQuiet == ASSUME TypeOK, NEW t \in Tasks, FillRequest(t) PROVE Quiet /\ Wakes
  <1>1. wq' = wq /\ tmp' = tmp /\ buf' = buf /\ task[t].pc = "scan"
    BY DEF FillRequest, At
  <1>2. \A u \in Tasks \ {t} : state'[u] = state[u]
    BY DEF FillRequest, TypeOK, SchedTypeOK
  <1>3. task'[t].pc = "add" /\ \A u \in Tasks \ {t} : task'[u] = task[u]
    BY DEF FillRequest, TypeOK, Calls
  <1> QED
    BY <1>1, <1>2, <1>3 DEF Quiet, SameSleepers, Wakes, Asleep

(* A task takes the lock of a buffer, or drops it again. *)
LEMMA LockQuiet ==
  ASSUME IInv, NEW t \in Tasks, LockBuffer(t) \/ GiveUpAhead(t)
  PROVE  Quiet /\ Wakes
  <1>1. TypeOK /\ task[t].pc \notin Asleep
    BY DEF LockBuffer, GiveUpAhead, At, Asleep, IInv
  <1>2. CASE Unlock(task[t].bh) /\ Return(t)
    <2>1. task[t].bh \in Buffers \union {NoBuf}
      BY <1>1 DEF TypeOK, Calls
    <2> QED
      BY <1>1, <1>2, <2>1, UnlockWakes, ReturnQuiet DEF Quiet
  <1>3. CASE /\ buf' = [buf EXCEPT ![task[t].bh].lock = TRUE]
             /\ Goto(t, "scan") /\ UNCHANGED schedVars
    <2>1. \A b \in Buffers : buf[b].lock => buf'[b].lock
      BY <1>1, <1>3 DEF TypeOK, Heads
    <2>2. SameSleepers
      <3>1. "scan" \in Labels \ Asleep
        BY DEF Labels, Asleep
      <3> QED
        BY <3>1, <1>1, <1>3, GotoQuiet
    <2> QED
      BY <1>3, <2>1, <2>2 DEF Quiet, Wakes, schedVars
  <1> QED
    BY <1>2, <1>3 DEF LockBuffer, GiveUpAhead
-----------------------------------------------------------------------------
(* The drive. *)

(* The end of a request wakes the head of the sleepers on its buffer. *)
LEMMA EndQuiet ==
  ASSUME TypeOK, NEW rs, NEW bs \in [Buffers -> Heads], NEW uptodate \in BOOLEAN,
         \A b \in Buffers : bs[b].lock = buf[b].lock,
         EndRequest(rs, bs, uptodate), task' = task
  PROVE  Quiet /\ Wakes
  <1> DEFINE r == Current
             first == IF r.bh = NoBuf THEN state ELSE WakeUp(state, wq[r.bh])
             second == WakeUp(first, r.waiting)
  <1>1. wq' = wq /\ tmp' = tmp /\ state' = WakeUp(second, wq[WaitForRequest])
    BY DEF EndRequest
  <1>2. state \in [Tasks -> {RUNNING, UNINTERRUPTIBLE}]
    BY DEF TypeOK, SchedTypeOK
  <1>3. /\ first \in [Tasks -> {RUNNING, UNINTERRUPTIBLE}]
        /\ \A u \in Tasks : state[u] = RUNNING => first[u] = RUNNING
        /\ r.bh # NoBuf /\ wq[r.bh] \in Tasks => first[wq[r.bh]] = RUNNING
    BY <1>2, Constants DEF WakeUp
  <1> HIDE DEF first
  <1>4. /\ second \in [Tasks -> {RUNNING, UNINTERRUPTIBLE}]
        /\ \A u \in Tasks : first[u] = RUNNING => second[u] = RUNNING
    BY <1>3 DEF WakeUp
  <1> HIDE DEF second
  <1>5. \A u \in Tasks : second[u] = RUNNING => state'[u] = RUNNING
    BY <1>1, <1>4 DEF WakeUp
  <1>6. \A b \in Buffers : b # r.bh => buf'[b].lock = buf[b].lock
    BY DEF EndRequest
  <1>7. \A b \in Buffers : b # NoBuf
    BY Constants
  <1>8. Wakes
    BY <1>3, <1>4, <1>5, <1>6, <1>7 DEF Wakes
  <1> QED
    BY <1>1, <1>8 DEF Quiet, SameSleepers

(* An error does, too, when it is the last one. *)
LEMMA BadRwQuiet ==
  ASSUME TypeOK, NEW bs \in [Buffers -> Heads], \A b \in Buffers : bs[b].lock = buf[b].lock,
         BadRwIntr(bs), task' = task
  PROVE  Quiet /\ Wakes
  <1> DEFINE rs == [request EXCEPT ![Head(queue)].errors = @ + 1]
  <1>1. CASE EndRequest(rs, bs, FALSE)
    BY <1>1, EndQuiet
  <1>2. CASE buf' = bs /\ UNCHANGED schedVars
    BY <1>2, SameStates DEF schedVars, Quiet, SameSleepers
  <1> QED
    BY <1>1, <1>2 DEF BadRwIntr

(* The interrupt that tells of an error. *)
LEMMA TransferErrorQuiet == ASSUME IInv, TransferError PROVE Quiet /\ Wakes
  <1>1. TypeOK /\ queue # <<>> /\ task' = task /\ buf \in [Buffers -> Heads]
    BY DEF IInv, TypeOK, TransferError
  <1>2. BadRwIntr(buf) \/ BadRwIntr(NotCopied(Current.nr))
    BY DEF TransferError
  <1> QED
    BY <1>1, <1>2, NotCopiedTypes, BadRwQuiet

(* A request ends with its last sector. *)
LEMMA DoneQuiet == ASSUME IInv, ReadDone \/ WriteDone PROVE Quiet /\ Wakes
  <1>1. TypeOK /\ queue # <<>> /\ task' = task /\ buf \in [Buffers -> Heads]
    BY DEF IInv, TypeOK, ReadDone, WriteDone
  <1>2. CASE ReadDone
    <2>1. PICK rs : EndRequest(rs, Copied(1), TRUE)
      BY <1>2 DEF ReadDone
    <2> QED
      BY <2>1, <1>1, CopiedTypes, EndQuiet
  <1>3. CASE WriteDone
    <2>1. PICK rs : EndRequest(rs, buf, TRUE)
      BY <1>3 DEF WriteDone
    <2> QED
      BY <2>1, <1>1, EndQuiet
  <1> QED
    BY <1>2, <1>3

(* The steps of the drive that end no request. *)
LEMMA DriveQuiet ==
  ASSUME IInv, \/ NoRequest \/ ResetDrives \/ Recalibrate \/ StartRead \/ StartWrite
               \/ ReadSector \/ WriteSector \/ Recalibrated \/ DriveReset \/ ResetErrorNoRequest
  PROVE  Quiet /\ Wakes
  <1>1. task' = task /\ UNCHANGED schedVars
    BY DEF NoRequest, ResetDrives, Recalibrate, StartRead, StartWrite, ReadSector, WriteSector,
           Recalibrated, DriveReset, ResetErrorNoRequest
  <1>2. \/ buf' = buf
        \/ queue # <<>> /\ \E n : buf' = Copied(n)
    BY DEF NoRequest, ResetDrives, Recalibrate, StartRead, StartWrite, ReadSector, WriteSector,
           Recalibrated, DriveReset, ResetErrorNoRequest, Transferring, Fit
  <1>3. \A b \in Buffers : buf'[b].lock = buf[b].lock
    BY <1>2, CopiedTypes
  <1> QED
    BY <1>1, <1>3, SameStates DEF Quiet, SameSleepers, schedVars

(* Every step of the drive is quiet. *)
LEMMA DiskQuiet == ASSUME IInv, DoHdRequest \/ HdInterrupt PROVE Quiet /\ Wakes
  <1>1. TypeOK /\ buf \in [Buffers -> Heads]
    BY DEF IInv, TypeOK
  <1>2. CASE OutOfRange
    BY <1>1, <1>2, EndQuiet DEF OutOfRange
  <1>3. CASE NoDataRequest \/ ResetError
    <2>1. BadRwIntr(buf) /\ task' = task
      BY <1>3 DEF NoDataRequest, ResetError
    <2> QED
      BY <1>1, <2>1, BadRwQuiet
  <1> QED
    BY <1>2, <1>3, TransferErrorQuiet, DoneQuiet, DriveQuiet DEF DoHdRequest, HdInterrupt
-----------------------------------------------------------------------------
(* The steps that change a chain. *)

(* A task goes to sleep on a queue. *)
LEMMA SleepKeeps ==
  ASSUME IInv, Chains, NEW t \in Tasks, NEW q \in Queues, NEW l \in Asleep,
         task[t].pc \notin Asleep, SleepOn(t, q), Goto(t, l),
         q = IF l = "req_sleep" THEN WaitForRequest ELSE task[t].bh,
         buf' = buf, q \in Buffers => buf[q].lock
  PROVE  Chains'
  <1>1. TypeOK
    BY DEF IInv
  <1>2. /\ task'[t].pc = l /\ task'[t].bh = task[t].bh
        /\ \A u \in Tasks \ {t} : task'[u] = task[u]
    BY <1>1 DEF Goto, TypeOK, Calls
  <1>3. /\ SleepersOn(q)' = SleepersOn(q) \union {t}
        /\ \A p : p # q => SleepersOn(p)' = SleepersOn(p)
        /\ \A p : t \notin SleepersOn(p)
    BY <1>2 DEF SleepersOn, SleepsOn
  <1>4. /\ wq'[q] = t /\ tmp'[t] = wq[q]
        /\ \A p \in Queues \ {q} : wq'[p] = wq[p]
        /\ \A u \in Tasks \ {t} : tmp'[u] = tmp[u] /\ state'[u] = state[u]
    BY <1>1 DEF SleepOn, TypeOK, SchedTypeOK
  <1>5. ChainWhole'
    <2> SUFFICES ASSUME NEW p \in Queues
                 PROVE  \E s \in [1 .. Size(p)' -> SleepersOn(p)'] : IsChain(s, Size(p), p)'
      BY DEF ChainWhole, Size
    <2>1. PICK s \in [1 .. Size(p) -> SleepersOn(p)] : IsChain(s, Size(p), p)
      BY ChainOf DEF Chains
    <2>2. Size(p) \in Nat /\ \A u \in SleepersOn(p) : tmp'[u] = tmp[u]
      BY <1>3, <1>4, Sleepers
    <2>3. CASE p = q
      BY <2>1, <2>2, <2>3, <1>3, <1>4, PushKeeps
    <2>4. CASE p # q
      BY <2>1, <2>2, <2>4, <1>3, <1>4, SameKeeps
    <2> QED
      BY <2>3, <2>4
  <1>6. NoLostWakeup'
    <2> SUFFICES ASSUME NEW b \in Buffers, ~buf[b].lock, wq'[b] # NoTask
                 PROVE  state'[wq'[b]] = RUNNING
      BY DEF NoLostWakeup
    <2>1. b # q /\ wq'[b] = wq[b]
      BY <1>4, Constants
    <2>2. wq[b] \in SleepersOn(b)
      BY <2>1, HeadSleeps, Constants DEF Chains
    <2>3. wq[b] \in Tasks \ {t}
      BY <2>2, <1>3, Sleepers
    <2> QED
      BY <2>1, <2>3, <1>4 DEF Chains, NoLostWakeup
  <1> QED
    BY <1>5, <1>6 DEF Chains

(* The task on top of the chain is unlinked. *)
LEMMA UnlinkKeeps ==
  ASSUME IInv, Chains, NEW t \in Tasks, NEW l \in Labels \ Asleep, task[t].pc \in Asleep,
         NEW q \in Queues, q = SleepsOn(t),
         ~Overtaken(t, q), Unlink(t, q), Goto(t, l), buf' = buf
  PROVE  Chains'
  <1>1. TypeOK
    BY DEF IInv
  <1>2. t \in SleepersOn(q) /\ wq[q] \in {NoTask, t}
    BY DEF SleepersOn, Overtaken
  <1>3. /\ task'[t].pc \notin Asleep
        /\ \A u \in Tasks \ {t} : task'[u] = task[u]
    BY <1>1 DEF Goto, TypeOK, Calls
  <1>4. /\ SleepersOn(q)' = SleepersOn(q) \ {t}
        /\ \A p : p # q => SleepersOn(p)' = SleepersOn(p)
    BY <1>3 DEF SleepersOn, SleepsOn
  <1>5. /\ wq'[q] = tmp[t] /\ tmp' = tmp
        /\ \A p \in Queues \ {q} : wq'[p] = wq[p]
        /\ \A u \in Tasks : state[u] = RUNNING => state'[u] = RUNNING
        /\ tmp[t] \in Tasks => state'[tmp[t]] = RUNNING
    BY <1>1, Constants DEF Unlink, WakeUp, TypeOK, SchedTypeOK
  <1>6. ChainWhole'
    <2> SUFFICES ASSUME NEW p \in Queues
                 PROVE  \E s \in [1 .. Size(p)' -> SleepersOn(p)'] : IsChain(s, Size(p), p)'
      BY DEF ChainWhole, Size
    <2>1. PICK s \in [1 .. Size(p) -> SleepersOn(p)] : IsChain(s, Size(p), p)
      BY ChainOf DEF Chains
    <2>2. Size(p) \in Nat /\ \A u \in SleepersOn(p) : tmp'[u] = tmp[u]
      BY <1>5, Sleepers
    <2>3. CASE p = q
      BY <2>1, <2>2, <2>3, <1>2, <1>4, <1>5, PopKeeps
    <2>4. CASE p # q
      BY <2>1, <2>2, <2>4, <1>4, <1>5, SameKeeps
    <2> QED
      BY <2>3, <2>4
  <1>7. NoLostWakeup'
    <2> SUFFICES ASSUME NEW b \in Buffers, ~buf[b].lock, wq'[b] # NoTask
                 PROVE  state'[wq'[b]] = RUNNING
      BY DEF NoLostWakeup
    <2>1. CASE b = q
      <3>1. wq'[b] \in SleepersOn(b)'
        <4>1. PICK s \in [1 .. Size(b)' -> SleepersOn(b)'] : IsChain(s, Size(b), b)'
          BY <1>6, Constants DEF ChainWhole, Size
        <4>2. Size(b)' \in Nat
          <5>1. Size(b) \in Nat /\ IsFiniteSet(SleepersOn(b) \ {t})
            BY Sleepers, FS_RemoveElement
          <5> QED
            BY <5>1, <2>1, <1>4, FS_CardinalityType DEF Size
        <4> QED
          BY <4>1, <4>2 DEF IsChain, ChainLink
      <3>2. wq'[b] \in Tasks
        BY <3>1, <2>1, <1>4, Sleepers
      <3> QED
        BY <3>2, <2>1, <1>5
    <2>2. CASE b # q
      <3>1. wq'[b] = wq[b] /\ wq[b] \in Tasks
        BY <2>2, <1>5, HeadSleeps, Sleepers, Constants DEF Chains
      <3> QED
        BY <3>1, <1>5 DEF Chains, NoLostWakeup
    <2> QED
      BY <2>1, <2>2
  <1> QED
    BY <1>6, <1>7 DEF Chains

(* A task that was overtaken wakes the top of the chain, and sleeps again. *)
LEMMA SleepAgainKeeps ==
  ASSUME IInv, Chains, NEW t \in Tasks, task[t].pc \in Asleep,
         NEW q \in Queues, q = SleepsOn(t),
         Overtaken(t, q), SleepAgain(t, q), task' = task, buf' = buf
  PROVE  Chains'
  <1>1. SchedTypeOK /\ wq' = wq /\ tmp' = tmp
    BY DEF SleepAgain, IInv, TypeOK
  <1>2. wq[q] \notin {NoTask, t} /\ state' = [state EXCEPT ![wq[q]] = RUNNING, ![t] = UNINTERRUPTIBLE]
    BY DEF Overtaken, SleepAgain
  <1>3. \A u \in Tasks \ {t} : state[u] = RUNNING => state'[u] = RUNNING
    BY <1>1, <1>2 DEF SchedTypeOK
  <1>4. t \in SleepersOn(q) /\ \A p : t \in SleepersOn(p) => p = q
    BY DEF SleepersOn
  <1>5. \A p : SleepersOn(p)' = SleepersOn(p)
    BY DEF SleepersOn, SleepsOn
  <1>6. ChainWhole'
    BY <1>1, <1>5 DEF Chains, ChainWhole, IsChain, ChainLink
  <1>7. NoLostWakeup'
    <2> SUFFICES ASSUME NEW b \in Buffers, ~buf[b].lock, wq[b] # NoTask
                 PROVE  state'[wq[b]] = RUNNING
      BY <1>1 DEF NoLostWakeup
    <2>1. wq[b] \in SleepersOn(b) /\ wq[b] \in Tasks
      BY HeadSleeps, Sleepers, Constants DEF Chains
    <2>2. wq[b] # t
      BY <2>1, <1>2, <1>4
    <2> QED
      BY <2>1, <2>2, <1>3 DEF Chains, NoLostWakeup
  <1> QED
    BY <1>6, <1>7 DEF Chains

(* Every step keeps the chains. *)
LEMMA NextChains == IInv /\ Chains /\ [Next]_vars => Chains'
  <1> SUFFICES ASSUME IInv, Chains, [Next]_vars PROVE Chains'
    OBVIOUS
  <1>1. TypeOK
    BY DEF IInv
  <1>2. ASSUME NEW t \in Tasks, SleepOnBuffer(t) PROVE Chains'
    <2>1. task[t].pc \in Masked /\ task[t].bh \in Buffers \union {NoBuf} /\ task[t].pc \notin Asleep
      BY <1>1, <1>2 DEF SleepOnBuffer, At, Masked, Asleep, TypeOK, Calls
    <2>2. task[t].bh \in Buffers /\ task[t].bh \in Queues
      BY <2>1, Constants DEF IInv, HasBuffer
    <2>3. PICK l \in {"lock_sleep", "wait_sleep"} : Goto(t, l)
      BY <1>2 DEF SleepOnBuffer
    <2>4. l \in Asleep /\ l # "req_sleep" /\ buf' = buf /\ buf[task[t].bh].lock
      BY <1>2 DEF SleepOnBuffer, Asleep
    <2>5. SleepOn(t, task[t].bh)
      BY <1>2 DEF SleepOnBuffer
    <2> QED
      BY <2>1, <2>2, <2>3, <2>4, <2>5, SleepKeeps
  <1>3. ASSUME NEW t \in Tasks, SleepOnRequest(t) PROVE Chains'
    <2>1. /\ task[t].pc \notin Asleep /\ SleepOn(t, WaitForRequest) /\ Goto(t, "req_sleep")
          /\ buf' = buf /\ "req_sleep" \in Asleep /\ WaitForRequest \notin Buffers
      BY <1>3, BlockIOAssumption DEF SleepOnRequest, At, Asleep
    <2> QED
      BY <2>1, Constants, SleepKeeps
  <1>4. ASSUME NEW t \in Tasks, Resume(t) PROVE Chains'
    <2>1. task[t].pc \in Asleep /\ buf' = buf
      BY <1>4 DEF Resume
    <2>2. Next_pc[task[t].pc] \in Labels \ Asleep
      BY <2>1 DEF Next_pc, Asleep, Labels
    <2>3. PICK q \in Queues : q = SleepsOn(t)
      <3>1. task[t].pc = "req_sleep" \/ (task[t].pc \in Masked /\ task[t].bh # NoBuf)
        BY <2>1 DEF Asleep, Masked, IInv, HasBuffer
      <3>2. task[t].bh \in Buffers \union {NoBuf}
        BY <1>1 DEF TypeOK, Calls
      <3> QED
        BY <3>1, <3>2, Constants DEF SleepsOn
    <2>4. CASE Overtaken(t, q) /\ SleepAgain(t, q) /\ task' = task
      BY <2>1, <2>3, <2>4, SleepAgainKeeps
    <2>5. CASE ~Overtaken(t, q) /\ Unlink(t, q) /\ Goto(t, Next_pc[task[t].pc])
      <3>1. PICK l \in Labels \ Asleep : l = Next_pc[task[t].pc]
        BY <2>2
      <3> QED
        BY <2>1, <2>3, <2>5, <3>1, UnlinkKeeps
    <2> QED
      BY <1>4, <2>3, <2>4, <2>5 DEF Resume
  <1>5. ASSUME NEW t \in Tasks, Kernel(t) PROVE Chains'
    BY <1>1, <1>2, <1>3, <1>4, <1>5, GoOnQuiet, LockQuiet, FillRequestQuiet, AddRequestQuiet,
       QuietKeeps DEF Kernel
  <1>6. ASSUME NEW t \in Tasks, Call(t) \/ Modify(t) \/ Forget(t) \/ Reuse(t) PROVE Chains'
    BY <1>1, <1>6, CallQuiet, CallerQuiet, QuietKeeps
  <1>7. CASE SwitchTask
    <2>1. state' = state /\ wq' = wq /\ tmp' = tmp /\ buf' = buf /\ task' = task
      BY <1>7 DEF SwitchTask
    <2> QED
      BY <2>1, SameStates, QuietKeeps DEF Quiet, SameSleepers
  <1>8. CASE DoHdRequest \/ HdInterrupt
    BY <1>8, DiskQuiet, QuietKeeps
  <1>9. CASE UNCHANGED vars
    <2>1. state' = state /\ wq' = wq /\ tmp' = tmp /\ buf' = buf /\ task' = task
      BY <1>9 DEF vars, schedVars
    <2> QED
      BY <2>1, SameStates, QuietKeeps DEF Quiet, SameSleepers
  <1> QED
    BY <1>5, <1>6, <1>7, <1>8, <1>9 DEF Next

(* At first nobody sleeps. *)
LEMMA InitChains == Init => Chains
  <1> SUFFICES ASSUME Init PROVE Chains
    OBVIOUS
  <1>1. \A t \in Tasks : task[t].pc = "user"
    BY DEF Init, User
  <1>2. \A q \in Queues : wq[q] = NoTask
    BY DEF Init, SchedInit
  <1>3. \A q : SleepersOn(q) = {}
    BY <1>1 DEF SleepersOn, Asleep
  <1>4. ChainWhole
    <2> SUFFICES ASSUME NEW q \in Queues
                 PROVE  \E s \in [1 .. Size(q) -> SleepersOn(q)] : IsChain(s, Size(q), q)
      BY DEF ChainWhole, Size
    <2>1. Size(q) = 0
      BY <1>3, FS_EmptySet DEF Size
    <2> DEFINE s == [i \in 1 .. 0 |-> NoTask]
    <2>2. s \in [1 .. Size(q) -> SleepersOn(q)]
      BY <2>1
    <2>3. IsChain(s, 0, q)
      BY <1>2, <1>3 DEF IsChain, ChainLink
    <2> QED
      BY <2>1, <2>2, <2>3
  <1>5. NoLostWakeup
    BY <1>2, Constants DEF NoLostWakeup
  <1> QED
    BY <1>4, <1>5 DEF Chains
-----------------------------------------------------------------------------
(* The chains are as they should be in every reachable state. *)
LEMMA SpecChains == Spec => []Chains
  <1>1. Init => IInv /\ Chains
    BY InitIInv, InitChains
  <1>2. (IInv /\ Chains) /\ [Next]_vars => (IInv /\ Chains)'
    BY NextIInv, NextChains
  <1>3. IInv /\ Chains => Chains
    OBVIOUS
  <1> QED
    BY <1>1, <1>2, <1>3, PTL DEF Spec

(* The sleepers of a queue, chained through the local variables of        *)
(* __sleep_on, are all in the chain that begins at *p, each once, whatever *)
(* the order in which they came, were woken and slept again.               *)
THEOREM SpecChainWhole == Spec => []ChainWhole
  <1>1. Chains => ChainWhole
    BY DEF Chains
  <1> QED
    BY <1>1, SpecChains, PTL

(* The top of the sleepers on an unlocked buffer is awake, so that the    *)
(* others will be woken in their turn.                                    *)
THEOREM SpecNoLostWakeup == Spec => []NoLostWakeup
  <1>1. Chains => NoLostWakeup
    BY DEF Chains
  <1> QED
    BY <1>1, SpecChains, PTL
=============================================================================
