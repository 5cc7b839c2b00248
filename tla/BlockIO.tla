------------------------------ MODULE BlockIO ------------------------------
(***************************************************************************)
(* The block layer: kernel/blk_drv/ll_rw_blk.c and kernel/blk_drv/hd.c,    *)
(* with the sleeping of kernel/sched.c under it.                           *)
(*                                                                         *)
(* A task asks for the transfer of a buffer: it locks the buffer, fills a  *)
(* slot of the request array, and links the slot into the drive's queue.   *)
(* The drive works on the head of the queue; its interrupt handlers count  *)
(* the sectors, retry after an error and end the request, which unlocks    *)
(* the buffer and wakes the tasks.                                         *)
(*                                                                         *)
(* A step is a stretch of code that nothing can come between: tasks lose   *)
(* the CPU only in schedule(), and the drive's interrupt comes between two *)
(* steps, never while the running task has interrupts disabled.            *)
(***************************************************************************)
EXTENDS Sched, Sequences, SequencesExt

CONSTANTS
  Buffers,      \* the buffer heads
  Devices,      \* the minor numbers of the partitions
  BlockIds,     \* <<device, block number>> pairs the buffers can stand for
  Assigned,     \* which of them they stand for at first: one-to-one functions
  Pages,        \* <<device, page number>> pairs swapping can ask for
  Uses,         \* what the callers do besides reading, changing and writing blocks
  NrRequest,    \* NR_REQUEST
  MaxErrors,    \* MAX_ERRORS
  BlockSectors, \* nr_sectors of a block, 2
  PageSectors,  \* nr_sectors of a page, 8
  NrHd,         \* NR_HD
  NrSects,      \* NrSects[d]: hd[d].nr_sects
  NoBuf,        \* bh = NULL
  WaitForRequest \* the wait queue wait_for_request

ASSUME BlockIOAssumption ==
  /\ Queues = Buffers \union {WaitForRequest}
  /\ WaitForRequest \notin Buffers /\ NoBuf \notin Buffers
  /\ Uses \subseteq {"read ahead", "wait", "fill", "forget"}
  /\ {NrRequest, MaxErrors, BlockSectors, PageSectors, NrHd} \subseteq Nat \ {0}
  /\ Devices \subseteq Nat
  /\ BlockIds \subseteq Devices \X Nat
  /\ Pages \subseteq Devices \X Nat
  /\ Assigned \subseteq [Buffers -> BlockIds]
  /\ NrSects \in [Devices -> Nat]

READ == 0
WRITE == 1
Sectors == 0 .. BlockSectors - 1
Slots == 0 .. NrRequest - 1
NoSlot == NrRequest
WriteSlots == 0 .. ((NrRequest * 2) \div 3) - 1

VARIABLES
  buf,      \* the buffer heads; stale: the sectors whose disk copy differs
  request,  \* the slots; busy stands for dev >= 0
  queue,    \* CURRENT, CURRENT->next, ... as a sequence of slots
  hd,       \* the drive: intr is do_hd, i the static variable of reset_hd;
            \* driving while do_hd_request() has not returned
  task,     \* where each task is in the block layer, with which arguments
  wild      \* the kernel has written through a NULL pointer

vars == <<schedVars, buf, request, queue, hd, task, wild>>

Handlers == {"none", "read_intr", "write_intr", "recal_intr", "reset_hd"}
Labels == {"user", "lock", "lock_sleep", "wait", "wait_sleep", "scan", "full",
           "req_sleep", "add", "start", "page", "page_sleep"}
Asleep == {"lock_sleep", "wait_sleep", "req_sleep"}
Masked == {"lock", "lock_sleep", "wait", "wait_sleep"}

Heads == [lock : BOOLEAN, dirt : BOOLEAN, uptodate : BOOLEAN, id : BlockIds,
          stale : SUBSET Sectors]
Requests == [busy : BOOLEAN, cmd : {READ, WRITE}, errors : Nat, dev : Nat,
             sector : Nat, nr : Nat, waiting : Tasks \union {NoTask},
             bh : Buffers \union {NoBuf}]
Drives == [intr : Handlers, reset : BOOLEAN, recalibrate : BOOLEAN,
           i : 0 .. NrHd - 1, driving : BOOLEAN]
Calls == [pc : Labels, rw : {READ, WRITE}, ahead : BOOLEAN,
          bh : Buffers \union {NoBuf}, at : Nat \X Nat, slot : Slots \union {NoSlot}]

TypeOK ==
  /\ SchedTypeOK
  /\ buf \in [Buffers -> Heads]
  /\ request \in [Slots -> Requests]
  /\ queue \in Seq(Slots)
  /\ hd \in Drives
  /\ task \in [Tasks -> Calls]
  /\ wild \in BOOLEAN

FreeRequest == [busy |-> FALSE, cmd |-> READ, errors |-> 0, dev |-> 0, sector |-> 0,
                nr |-> 0, waiting |-> NoTask, bh |-> NoBuf]
User == [pc |-> "user", rw |-> READ, ahead |-> FALSE, bh |-> NoBuf,
         at |-> <<0, 0>>, slot |-> NoSlot]

Init ==
  /\ SchedInit
  /\ \E f \in Assigned :
       buf = [b \in Buffers |-> [lock |-> FALSE, dirt |-> FALSE, uptodate |-> FALSE,
                                 id |-> f[b], stale |-> Sectors]]
  /\ request = [s \in Slots |-> FreeRequest]
  /\ queue = <<>>
  /\ hd = [intr |-> "none", reset |-> FALSE, recalibrate |-> FALSE, i |-> 0,
           driving |-> FALSE]
  /\ task = [t \in Tasks |-> User]
  /\ wild = FALSE
-----------------------------------------------------------------------------
(* The tasks. *)

(* Nothing is known after a wild write, and do_hd_request() runs to its end. *)
Live == ~wild /\ ~hd.driving

At(t, label) == Live /\ current = t /\ task[t].pc = label
Goto(t, label) == task' = [task EXCEPT ![t].pc = label]
(* Back to the caller: ll_rw_page goes on to wait for its page. *)
Return(t) == task' = [task EXCEPT ![t] =
                        [User EXCEPT !.pc = IF task[t].bh = NoBuf THEN "page" ELSE "user"]]

(* ll_rw_block(rw, bh), where a read-ahead of a locked buffer is forgotten; *)
(* wait_on_buffer(bh), after a read or in a sync, before the write;         *)
(* ll_rw_page(rw, dev, page), which has no buffer head.                     *)
Call(t) ==
  /\ At(t, "user")
  /\ \/ \E rw \in {READ, WRITE}, ahead \in BOOLEAN, b \in Buffers :
          /\ ahead => "read ahead" \in Uses /\ ~buf[b].lock
          /\ task' = [task EXCEPT ![t] = [User EXCEPT !.pc = "lock", !.rw = rw,
                                                      !.ahead = ahead, !.bh = b]]
     \/ \E rw \in {READ, WRITE}, b \in Buffers :
          /\ "wait" \in Uses
          /\ task' = [task EXCEPT ![t] = [User EXCEPT !.pc = "wait", !.rw = rw, !.bh = b]]
     \/ \E rw \in {READ, WRITE}, p \in Pages :
          task' = [task EXCEPT ![t] = [User EXCEPT !.pc = "scan", !.rw = rw, !.at = p]]
  /\ UNCHANGED <<schedVars, buf, request, queue, hd, wild>>

(* lock_buffer and wait_on_buffer find the buffer locked. *)
SleepOnBuffer(t) ==
  /\ \/ At(t, "lock") /\ Goto(t, "lock_sleep")
     \/ At(t, "wait") /\ Goto(t, "wait_sleep")
  /\ buf[task[t].bh].lock
  /\ SleepOn(t, task[t].bh)
  /\ UNCHANGED <<buf, request, queue, hd, wild>>

WaitDone(t) ==
  /\ At(t, "wait")
  /\ ~buf[task[t].bh].lock
  /\ Return(t)
  /\ UNCHANGED <<schedVars, buf, request, queue, hd, wild>>

(* unlock_buffer(bh). *)
Unlock(b) ==
  /\ buf' = [buf EXCEPT ![b].lock = FALSE]
  /\ state' = WakeUp(state, wq[b])
  /\ UNCHANGED <<current, wq, tmp>>

NothingToDo(c) == \/ c.rw = WRITE /\ ~buf[c.bh].dirt
                  \/ c.rw = READ /\ buf[c.bh].uptodate

(* lock_buffer succeeds.  make_request then looks whether there is anything *)
(* to transfer, and drops the lock again when there is not.                 *)
LockBuffer(t) ==
  LET b == task[t].bh IN
  /\ At(t, "lock")
  /\ ~buf[b].lock
  /\ \/ /\ NothingToDo(task[t])
        /\ Unlock(b)
        /\ Return(t)
     \/ /\ ~NothingToDo(task[t])
        /\ buf' = [buf EXCEPT ![b].lock = TRUE]
        /\ Goto(t, "scan")
        /\ UNCHANGED schedVars
  /\ UNCHANGED <<request, queue, hd, wild>>

(* The free slots make_request and ll_rw_page look at: writes of buffers *)
(* leave the last third to the reads.                                    *)
Free(c) == {s \in IF c.rw = WRITE /\ c.bh # NoBuf THEN WriteSlots ELSE Slots :
              ~request[s].busy}

GiveUpAhead(t) ==
  /\ At(t, "scan")
  /\ Free(task[t]) = {} /\ task[t].ahead
  /\ Unlock(task[t].bh)
  /\ Return(t)
  /\ UNCHANGED <<request, queue, hd, wild>>

(* No slot: the task is about to call sleep_on(&wait_for_request), with *)
(* interrupts enabled.                                                  *)
FindFull(t) ==
  /\ At(t, "scan")
  /\ Free(task[t]) = {} /\ ~task[t].ahead
  /\ Goto(t, "full")
  /\ UNCHANGED <<schedVars, buf, request, queue, hd, wild>>

SleepOnRequest(t) ==
  /\ At(t, "full")
  /\ SleepOn(t, WaitForRequest)
  /\ Goto(t, "req_sleep")
  /\ UNCHANGED <<buf, request, queue, hd, wild>>

(* The highest free slot is filled.  ll_rw_page marks the task as sleeping *)
(* now, before the request can complete, and goes on.                      *)
FillRequest(t) ==
  LET c == task[t]
      page == c.bh = NoBuf
      id == IF page THEN c.at ELSE buf[c.bh].id
      nr == IF page THEN PageSectors ELSE BlockSectors
  IN
  /\ At(t, "scan")
  /\ \E s \in Free(c) :
       /\ \A other \in Free(c) : other <= s
       /\ request' = [request EXCEPT ![s] =
                        [busy |-> TRUE, cmd |-> c.rw, errors |-> 0, dev |-> id[1],
                         sector |-> id[2] * nr, nr |-> nr,
                         waiting |-> IF page THEN t ELSE NoTask, bh |-> c.bh]]
       /\ task' = [task EXCEPT ![t].slot = s, ![t].pc = "add"]
  /\ state' = IF page THEN [state EXCEPT ![t] = UNINTERRUPTIBLE] ELSE state
  /\ UNCHANGED <<current, wq, tmp, buf, queue, hd, wild>>

IN_ORDER(s1, s2) ==
  \/ s1.cmd < s2.cmd
  \/ s1.cmd = s2.cmd /\ s1.dev < s2.dev
  \/ s1.dev = s2.dev /\ s1.sector < s2.sector

(* add_request stops behind the i-th request of the queue: swapping goes *)
(* before everything else, the rest is in elevator order.                *)
StopsBehind(i, r) ==
  LET before == request[queue[i]]
      after == request[queue[i + 1]]
  IN IF r.bh = NoBuf
     THEN after.bh # NoBuf
     ELSE /\ IN_ORDER(before, r) \/ ~IN_ORDER(before, after)
          /\ IN_ORDER(r, after)

Stops(r) == {i \in 1 .. Len(queue) - 1 : StopsBehind(i, r)} \union {Len(queue)}

Link(s) ==
  \E i \in Stops(request[s]) :
    /\ \A j \in Stops(request[s]) : i <= j
    /\ queue' = InsertAt(queue, i + 1, s)

(* Mutant: request_fn is not called. *)
AddRequestOnly(t) ==
  /\ At(t, "add")
  /\ buf' = IF task[t].bh = NoBuf THEN buf ELSE [buf EXCEPT ![task[t].bh].dirt = FALSE]
  /\ \/ queue = <<>> /\ queue' = <<task[t].slot>>
     \/ queue # <<>> /\ Link(task[t].slot)
  /\ Return(t)
  /\ UNCHANGED <<schedVars, request, hd, wild>>

(* add_request: the buffer counts as clean from here on; an idle drive is *)
(* then started by the caller.                                            *)
AddRequest(t) ==
  LET s == task[t].slot
      b == task[t].bh
  IN
  /\ At(t, "add")
  /\ buf' = IF b = NoBuf THEN buf ELSE [buf EXCEPT ![b].dirt = FALSE]
  /\ \/ queue = <<>> /\ queue' = <<s>> /\ Goto(t, "start")
     \/ queue # <<>> /\ Link(s) /\ Return(t)
  /\ UNCHANGED <<schedVars, request, hd, wild>>

(* add_request calls do_hd_request, interrupts enabled. *)
StartDrive(t) ==
  /\ At(t, "start")
  /\ hd' = [hd EXCEPT !.driving = TRUE]
  /\ Return(t)
  /\ UNCHANGED <<schedVars, buf, request, queue, wild>>

(* Mutant: the task is marked as asleep only now. *)
SleepOnPageLate(t) ==
  /\ At(t, "page")
  /\ state' = [state EXCEPT ![t] = UNINTERRUPTIBLE]
  /\ Schedule(state')
  /\ Goto(t, "page_sleep")
  /\ UNCHANGED <<wq, tmp, buf, request, queue, hd, wild>>

(* The schedule() at the end of ll_rw_page, and its return. *)
SleepOnPage(t) ==
  /\ At(t, "page")
  /\ Schedule(state)
  /\ Goto(t, "page_sleep")
  /\ UNCHANGED <<state, wq, tmp, buf, request, queue, hd, wild>>

PageDone(t) ==
  /\ At(t, "page_sleep")
  /\ Goto(t, "user")
  /\ UNCHANGED <<schedVars, buf, request, queue, hd, wild>>

(* The task is on the CPU again, in __sleep_on. *)
SleepsOn(t) == IF task[t].pc = "req_sleep" THEN WaitForRequest ELSE task[t].bh
(* Mutant: lock_buffer says if, not while. *)
Next_pcOnce == [lock_sleep |-> "scan", wait_sleep |-> "wait", req_sleep |-> "scan"]
Next_pc == [lock_sleep |-> "lock", wait_sleep |-> "wait", req_sleep |-> "scan"]

Resume(t) ==
  /\ Live /\ current = t /\ task[t].pc \in Asleep
  /\ \/ /\ Overtaken(t, SleepsOn(t))
        /\ SleepAgain(t, SleepsOn(t))
        /\ UNCHANGED task
     \/ /\ ~Overtaken(t, SleepsOn(t))
        /\ Unlink(t, SleepsOn(t))
        /\ Goto(t, Next_pc[task[t].pc])
  /\ UNCHANGED <<buf, request, queue, hd, wild>>
-----------------------------------------------------------------------------
(* What the callers of the block layer do between two calls. *)

(* A task changes a buffer it holds: part of one that is up to date, or the *)
(* whole of any, which new_block() marks as up to date and block_write()    *)
(* does not.  The first is done before anyone can lock the buffer.          *)
Modify(t) ==
  /\ At(t, "user")
  /\ \E b \in Buffers, whole \in BOOLEAN :
       /\ whole => ~buf[b].lock
       /\ buf[b].uptodate \/ "fill" \in Uses
       /\ buf' = [buf EXCEPT ![b] = [@ EXCEPT !.uptodate = whole \/ buf[b].uptodate,
                                              !.dirt = TRUE, !.stale = Sectors]]
  /\ UNCHANGED <<schedVars, request, queue, hd, task, wild>>

(* free_block() has no more use for what is in a buffer. *)
Forget(t) ==
  /\ At(t, "user") /\ "forget" \in Uses
  /\ \E b \in Buffers :
       /\ ~buf[b].lock
       /\ buf' = [buf EXCEPT ![b] = [@ EXCEPT !.uptodate = FALSE, !.dirt = FALSE]]
  /\ UNCHANGED <<schedVars, request, queue, hd, task, wild>>

(* getblk() takes an unused buffer for another block.  Only a sync sleeps on *)
(* a buffer it holds no count of.                                            *)
Reuse(t) ==
  /\ At(t, "user")
  /\ \E b \in Buffers, id \in BlockIds :
       /\ ~buf[b].lock /\ ~buf[b].dirt
       /\ \A u \in Tasks : task[u].bh = b => task[u].pc \in Asleep /\ task[u].rw = WRITE
       /\ \A a \in Buffers : buf[a].id # id
       /\ buf' = [buf EXCEPT ![b] = [@ EXCEPT !.id = id, !.uptodate = FALSE,
                                              !.stale = Sectors]]
  /\ UNCHANGED <<schedVars, request, queue, hd, task, wild>>

(* The timer takes the CPU from a task in user mode; task 0 calls pause() *)
(* over and over and so gives the CPU to any task that can run.           *)
SwitchTask ==
  /\ Live
  /\ IF current = Idle THEN Runnable(state) # {} ELSE task[current].pc = "user"
  /\ Schedule(state)
  /\ UNCHANGED <<state, wq, tmp, buf, request, queue, hd, task, wild>>
-----------------------------------------------------------------------------
(* The drive. *)

Current == request[Head(queue)]

(* Mutants: b_dirt is cleared when the write is through; nobody waiting for *)
(* the buffer is woken.                                                     *)
EndRequestClean(rs, bs, uptodate) ==
  /\ buf' = IF Current.bh = NoBuf THEN bs
            ELSE [bs EXCEPT ![Current.bh].uptodate = uptodate, ![Current.bh].lock = FALSE,
                            ![Current.bh].dirt = FALSE]
  /\ state' = WakeUp(WakeUp(IF Current.bh = NoBuf THEN state ELSE WakeUp(state, wq[Current.bh]),
                            Current.waiting), wq[WaitForRequest])
  /\ request' = [rs EXCEPT ![Head(queue)] = FreeRequest]
  /\ queue' = Tail(queue)
  /\ UNCHANGED <<current, wq, tmp>>
EndRequestQuiet(rs, bs, uptodate) ==
  /\ buf' = IF Current.bh = NoBuf THEN bs
            ELSE [bs EXCEPT ![Current.bh].uptodate = uptodate, ![Current.bh].lock = FALSE]
  /\ state' = WakeUp(WakeUp(state, Current.waiting), wq[WaitForRequest])
  /\ request' = [rs EXCEPT ![Head(queue)] = FreeRequest]
  /\ queue' = Tail(queue)
  /\ UNCHANGED <<current, wq, tmp>>
EndRequestLeaks(rs, bs, uptodate) ==  \* mutant: CURRENT->dev = -1 is missing
  /\ buf' = IF Current.bh = NoBuf THEN bs
            ELSE [bs EXCEPT ![Current.bh].uptodate = uptodate, ![Current.bh].lock = FALSE]
  /\ state' = WakeUp(WakeUp(IF Current.bh = NoBuf THEN state ELSE WakeUp(state, wq[Current.bh]),
                            Current.waiting), wq[WaitForRequest])
  /\ request' = rs
  /\ queue' = Tail(queue)
  /\ UNCHANGED <<current, wq, tmp>>

(* end_request(uptodate), when the slots hold rs and the buffers bs.  What *)
(* is left in a free slot is never read, and forgotten here.               *)
EndRequest(rs, bs, uptodate) ==
  LET r == Current
      unlocked == IF r.bh = NoBuf THEN state ELSE WakeUp(state, wq[r.bh])
  IN
  /\ buf' = IF r.bh = NoBuf THEN bs
            ELSE [bs EXCEPT ![r.bh].uptodate = uptodate, ![r.bh].lock = FALSE]
  /\ state' = WakeUp(WakeUp(unlocked, r.waiting), wq[WaitForRequest])
  /\ request' = [rs EXCEPT ![Head(queue)] = FreeRequest]
  /\ queue' = Tail(queue)
  /\ UNCHANGED <<current, wq, tmp>>

(* bad_rw_intr, but for what it does to reset. *)
LastTry == Current.errors + 1 >= MaxErrors

(* Mutant: the last error leaves the buffer up to date. *)
BadRwIntrUptodate(bs) ==
  LET rs == [request EXCEPT ![Head(queue)].errors = @ + 1] IN
  \/ LastTry /\ EndRequest(rs, bs, TRUE)
  \/ ~LastTry /\ request' = rs /\ buf' = bs /\ UNCHANGED <<schedVars, queue>>

BadRwIntr(bs) ==
  LET rs == [request EXCEPT ![Head(queue)].errors = @ + 1] IN
  \/ LastTry /\ EndRequest(rs, bs, FALSE)
  \/ ~LastTry /\ request' = rs /\ buf' = bs /\ UNCHANGED <<schedVars, queue>>

(* bad_rw_intr reads CURRENT->errors after the request may have ended: of *)
(* the next request then, or through a NULL pointer.                      *)
ResetAfterError ==
  LET many(n) == n > MaxErrors \div 2 IN
  {again \in BOOLEAN :
     \/ ~LastTry /\ again = (hd.reset \/ many(Current.errors + 1))
     \/ LastTry /\ Len(queue) > 1 /\ again = (hd.reset \/ many(request[queue[2]].errors))
     \/ LastTry /\ Len(queue) = 1 /\ again \in {hd.reset, TRUE}}

(* reset_hd gives drive i its parameters, or is through with the drives and *)
(* with its i.                                                              *)
Specify(i) ==
  IF i < NrHd
  THEN [hd EXCEPT !.reset = FALSE, !.i = i, !.intr = "reset_hd", !.driving = FALSE]
  ELSE [hd EXCEPT !.reset = FALSE, !.i = 0, !.intr = "none", !.driving = TRUE]

Issued(handler) == [hd EXCEPT !.intr = handler, !.driving = FALSE]

InRange(r) == r.dev < 5 * NrHd /\ r.sector + 2 < NrSects[r.dev]

(* The sector that n sectors from the end of the current request, and the *)
(* buffers when it is on the disk, and when it is not.                    *)
Sector(n) == BlockSectors - n
WithStale(S) == IF Current.bh = NoBuf THEN buf ELSE [buf EXCEPT ![Current.bh].stale = S]
Copied(n) == WithStale(buf[Current.bh].stale \ {Sector(n)})
NotCopied(n) == WithStale(buf[Current.bh].stale \union {Sector(n)})

Driving == hd.driving /\ ~wild
Locked == Current.bh # NoBuf => buf[Current.bh].lock
Fit == Driving /\ queue # <<>> /\ Locked /\ InRange(Current)
Transferring == Fit /\ ~hd.reset /\ ~hd.recalibrate

(* Mutant: the handler of a write that failed stays. *)
NoRequestKeepIntr ==
  /\ Driving /\ queue = <<>>
  /\ hd' = [hd EXCEPT !.driving = FALSE]
  /\ UNCHANGED <<schedVars, buf, request, queue, task, wild>>

(* do_hd_request, one disjunct for each way through it.  It stops the *)
(* machine, panic("harddisk: block not locked"), when not Locked.      *)
NoRequest ==
  /\ Driving /\ queue = <<>>
  /\ hd' = Issued("none")
  /\ UNCHANGED <<schedVars, buf, request, queue, task, wild>>

OutOfRange ==
  /\ Driving /\ queue # <<>> /\ Locked /\ ~InRange(Current)
  /\ EndRequest(request, buf, FALSE)
  /\ UNCHANGED <<hd, task, wild>>

ResetDrives ==
  /\ Fit /\ hd.reset
  /\ hd' = [Specify(0) EXCEPT !.recalibrate = TRUE]
  /\ UNCHANGED <<schedVars, buf, request, queue, task, wild>>

Recalibrate ==
  /\ Fit /\ ~hd.reset /\ hd.recalibrate
  /\ hd' = [Issued("recal_intr") EXCEPT !.recalibrate = FALSE]
  /\ UNCHANGED <<schedVars, buf, request, queue, task, wild>>

StartRead ==
  /\ Transferring /\ Current.cmd = READ
  /\ hd' = Issued("read_intr")
  /\ UNCHANGED <<schedVars, buf, request, queue, task, wild>>

StartWrite ==
  /\ Transferring /\ Current.cmd = WRITE
  /\ hd' = Issued("write_intr")
  /\ buf' = Copied(Current.nr)
  /\ UNCHANGED <<schedVars, request, queue, task, wild>>

(* The drive does not ask for the data (DRQ): an error, and once more. *)
NoDataRequest ==
  /\ Transferring /\ Current.cmd = WRITE
  /\ BadRwIntr(buf)
  /\ \E again \in ResetAfterError : hd' = [hd EXCEPT !.intr = "write_intr", !.reset = again]
  /\ UNCHANGED <<task, wild>>

DoHdRequest ==
  \/ NoRequest \/ OutOfRange \/ ResetDrives \/ Recalibrate
  \/ StartRead \/ StartWrite \/ NoDataRequest
-----------------------------------------------------------------------------
(* The interrupt of the drive.  hd_interrupt takes do_hd and clears it. *)

(* From the cli() of lock_buffer and wait_on_buffer to their sti(); a task *)
(* that sleeps there has its own flag back whenever it runs.               *)
IntrEnabled == current # Idle => task[current].pc \notin Masked
Interrupt(handler) == Live /\ IntrEnabled /\ hd.intr = handler
Handled == [hd EXCEPT !.intr = "none", !.driving = TRUE]

(* win_result() reports an error.  The sector of a write is not written. *)
TransferError ==
  /\ \/ Interrupt("write_intr") /\ queue # <<>> /\ BadRwIntr(NotCopied(Current.nr))
     \/ \E h \in {"read_intr", "recal_intr"} :
          Interrupt(h) /\ queue # <<>> /\ BadRwIntr(buf)
  /\ \E again \in ResetAfterError : hd' = [Handled EXCEPT !.reset = again]
  /\ UNCHANGED <<task, wild>>

SectorGone(r) == [r EXCEPT !.sector = @ + 1, !.nr = @ - 1]

(* Mutant: read_intr does not set itself again. *)
ReadSectorOnce ==
  /\ Interrupt("read_intr") /\ queue # <<>> /\ Current.nr > 1
  /\ request' = [request EXCEPT ![Head(queue)] = SectorGone([Current EXCEPT !.errors = 0])]
  /\ buf' = Copied(Current.nr)
  /\ hd' = Issued("none")
  /\ UNCHANGED <<schedVars, queue, task, wild>>

(* One sector of several is through: the handler stays for the next. *)
ReadSector ==
  /\ Interrupt("read_intr") /\ queue # <<>> /\ Current.nr > 1
  /\ request' = [request EXCEPT ![Head(queue)] = SectorGone([Current EXCEPT !.errors = 0])]
  /\ buf' = Copied(Current.nr)
  /\ UNCHANGED <<schedVars, queue, hd, task, wild>>

(* Mutant: write_intr goes on after the last sector. *)
WriteSectorPastEnd ==
  /\ Interrupt("write_intr") /\ queue # <<>> /\ Current.nr >= 1
  /\ request' = [request EXCEPT ![Head(queue)] = SectorGone(Current)]
  /\ buf' = Copied(Current.nr - 1)
  /\ UNCHANGED <<schedVars, queue, hd, task, wild>>

WriteSector ==
  /\ Interrupt("write_intr") /\ queue # <<>> /\ Current.nr > 1
  /\ request' = [request EXCEPT ![Head(queue)] = SectorGone(Current)]
  /\ buf' = Copied(Current.nr - 1)
  /\ UNCHANGED <<schedVars, queue, hd, task, wild>>

(* The last sector. *)
ReadDone ==
  /\ Interrupt("read_intr") /\ queue # <<>> /\ Current.nr = 1
  /\ EndRequest([request EXCEPT ![Head(queue)] = SectorGone([Current EXCEPT !.errors = 0])],
                Copied(1), TRUE)
  /\ hd' = Handled
  /\ UNCHANGED <<task, wild>>

WriteDone ==
  /\ Interrupt("write_intr") /\ queue # <<>> /\ Current.nr = 1
  /\ EndRequest([request EXCEPT ![Head(queue)].nr = 0], buf, TRUE)
  /\ hd' = Handled
  /\ UNCHANGED <<task, wild>>

Recalibrated ==
  /\ Interrupt("recal_intr")
  /\ hd' = Handled
  /\ UNCHANGED <<schedVars, buf, request, queue, task, wild>>

(* reset_hd: on to the next drive; or, after an error that asks for it, *)
(* from the first again.  The error is counted for the current request, *)
(* which may have ended by an earlier one: a write through NULL.        *)
DriveReset ==
  /\ Interrupt("reset_hd")
  /\ hd' = Specify(hd.i + 1)
  /\ UNCHANGED <<schedVars, buf, request, queue, task, wild>>

ResetError ==
  /\ Interrupt("reset_hd") /\ queue # <<>>
  /\ BadRwIntr(buf)
  /\ \E again \in ResetAfterError : hd' = Specify(IF again THEN 0 ELSE hd.i + 1)
  /\ UNCHANGED <<task, wild>>

ResetErrorNoRequest ==
  /\ Interrupt("reset_hd") /\ queue = <<>>
  /\ wild' = TRUE
  /\ UNCHANGED <<schedVars, buf, request, queue, hd, task>>

HdInterrupt ==
  \/ TransferError \/ ReadSector \/ WriteSector \/ ReadDone \/ WriteDone
  \/ Recalibrated \/ DriveReset \/ ResetError \/ ResetErrorNoRequest
-----------------------------------------------------------------------------
(* A step of task t inside the block layer. *)
Kernel(t) ==
  \/ SleepOnBuffer(t) \/ WaitDone(t) \/ LockBuffer(t) \/ GiveUpAhead(t)
  \/ FindFull(t) \/ SleepOnRequest(t) \/ FillRequest(t) \/ AddRequest(t)
  \/ StartDrive(t) \/ SleepOnPage(t) \/ PageDone(t) \/ Resume(t)

Next ==
  \/ \E t \in Tasks : Call(t) \/ Modify(t) \/ Forget(t) \/ Reuse(t) \/ Kernel(t)
  \/ SwitchTask \/ DoHdRequest \/ HdInterrupt

Spec == Init /\ [][Next]_vars
=============================================================================
