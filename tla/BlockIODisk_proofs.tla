------------------------ MODULE BlockIODisk_proofs ------------------------
(***************************************************************************)
(* The drive and what is on the disk, for any number of tasks, buffers,    *)
(* slots, sectors, drives and errors.                                      *)
(*                                                                         *)
(* First, the drive and the queue of requests fit each other: a handler    *)
(* finds a request, the drive does not rest while requests are queued, and *)
(* a task that waits for a page has a request in the queue.  Requests      *)
(* enter the queue in AddRequest and leave it in EndRequest; the other     *)
(* steps are Quiet for the drive, or leave the queue alone.                *)
(*                                                                         *)
(* Then the block layer keeps its promise to the buffer cache: an unlocked *)
(* buffer that is clean and up to date equals its block, and every step is *)
(* a step of DiskIO on one buffer or leaves the buffers alone.  What makes *)
(* it inductive: a clean buffer whose request is queued differs from its   *)
(* block in sectors still to come only, and not in the sector that is on   *)
(* its way to the drive.                                                   *)
(***************************************************************************)
EXTENDS BlockIO_proofs

DriveInv == HandlerHasRequest /\ DriveBusyWithWork
Starting == \E t \in Tasks : task[t].pc = "start"

(* A step that leaves the drive and the queue alone and starts nothing less. *)
Quiet == hd' = hd /\ queue' = queue /\ (Starting => Starting')

(* What a quiet step finds, it leaves. *)
LEMMA QuietKeeps == DriveInv /\ Quiet => DriveInv'
  BY DEF DriveInv, Quiet, HandlerHasRequest, DriveBusyWithWork, Starting

(* A step of a task that is not about to start the drive leaves those that are. *)
LEMMA StartingKeeps ==
  ASSUME TypeOK, NEW t \in Tasks, task[t].pc # "start",
         \A u \in Tasks : u # t => task'[u] = task[u]
  PROVE  Starting => Starting'
  BY DEF Starting

(* What Goto and Return do, and do not do. *)
LEMMA Others ==
  ASSUME TypeOK, NEW t \in Tasks,
         \/ \E l : Goto(t, l)
         \/ Return(t)
         \/ \E c : task' = [task EXCEPT ![t] = c]
  PROVE  \A u \in Tasks : u # t => task'[u] = task[u]
  BY DEF TypeOK, Goto, Return

(* The steps of the tasks, and of their callers, but for two. *)
LEMMA TaskQuiet ==
  ASSUME IInv, NEW t \in Tasks,
         \/ Call(t) \/ Modify(t) \/ Forget(t) \/ Reuse(t)
         \/ SleepOnBuffer(t) \/ WaitDone(t) \/ LockBuffer(t) \/ GiveUpAhead(t)
         \/ FindFull(t) \/ SleepOnRequest(t) \/ FillRequest(t)
         \/ SleepOnPage(t) \/ PageDone(t) \/ Resume(t)
  PROVE  Quiet
  <1>1. TypeOK
    BY DEF IInv
  <1>2. hd' = hd /\ queue' = queue /\ task[t].pc # "start"
    BY DEF Call, Modify, Forget, Reuse, SleepOnBuffer, WaitDone, LockBuffer, GiveUpAhead,
           FindFull, SleepOnRequest, FillRequest, SleepOnPage, PageDone, Resume, At, Asleep
  <1>3. \A u \in Tasks : u # t => task'[u] = task[u]
    <2>1. CASE Call(t)
      BY <2>1, <1>1, Others DEF Call
    <2>2. CASE Modify(t) \/ Forget(t) \/ Reuse(t)
      BY <2>2 DEF Modify, Forget, Reuse
    <2>3. CASE SleepOnBuffer(t) \/ WaitDone(t) \/ LockBuffer(t) \/ GiveUpAhead(t)
      BY <2>3, <1>1, Others DEF SleepOnBuffer, WaitDone, LockBuffer, GiveUpAhead
    <2>4. CASE FindFull(t) \/ SleepOnRequest(t) \/ SleepOnPage(t) \/ PageDone(t)
      BY <2>4, <1>1, Others DEF FindFull, SleepOnRequest, SleepOnPage, PageDone
    <2>5. CASE FillRequest(t)
      BY <2>5, <1>1 DEF FillRequest, TypeOK
    <2>6. CASE Resume(t)
      BY <2>6, <1>1, Others DEF Resume
    <2> QED
      BY <2>1, <2>2, <2>3, <2>4, <2>5, <2>6
  <1> QED
    BY <1>1, <1>2, <1>3, StartingKeeps DEF Quiet

(* add_request: the queue has the new slot, wherever it is linked. *)
LEMMA QueueAfter ==
  ASSUME IInv, NEW t \in Tasks, AddRequest(t)
  PROVE  /\ queue' \in Seq(Slots) /\ Once(queue')
         /\ ToSet(queue') = ToSet(queue) \union {task[t].slot}
  <1> DEFINE s == task[t].slot
  <1>1. /\ queue \in Seq(Slots) /\ Once(queue) /\ s \in Slots /\ s \notin ToSet(queue)
    BY DEF AddRequest, At, IInv, TypeOK, FilledSlot, SlotsAccounted, Adding, Once
  <1>2. CASE queue = <<>> /\ queue' = <<s>>
    <2> HIDE DEF s
    <2>1. DOMAIN queue = {} /\ DOMAIN queue' = {1} /\ queue'[1] = s /\ queue' \in Seq(Slots)
      BY <1>1, <1>2
    <2>2. ToSet(queue) = {} /\ ToSet(queue') = {s} /\ Once(queue')
      BY <2>1 DEF ToSet, Once
    <2> QED
      BY <2>1, <2>2 DEF s
  <1>3. CASE queue # <<>> /\ Link(s)
    <2>1. PICK i \in Stops(request[s]) : queue' = InsertAt(queue, i + 1, s)
      BY <1>3 DEF Link
    <2>2. i + 1 \in 1 .. Len(queue) + 1
      BY <1>3, <1>1 DEF Stops
    <2> QED
      BY <2>1, <2>2, <1>1, InsertOnce
  <1> QED
    BY <1>2, <1>3 DEF AddRequest

(* A request enters the queue; the drive, when it was idle, is about to be started. *)
LEMMA AddRequestDrive == ASSUME IInv, DriveInv, NEW t \in Tasks, AddRequest(t) PROVE DriveInv'
  <1>1. TypeOK /\ hd' = hd /\ task[t].pc = "add"
    BY DEF AddRequest, At, IInv
  <1>2. CASE queue = <<>> /\ queue' = <<task[t].slot>> /\ Goto(t, "start")
    <2>1. task'[t].pc = "start" /\ queue' # <<>>
      BY <1>1, <1>2 DEF Goto, TypeOK, Calls
    <2> QED
      BY <2>1, <1>1 DEF DriveInv, HandlerHasRequest, DriveBusyWithWork
  <1>3. CASE queue # <<>> /\ Link(task[t].slot) /\ Return(t)
    <2>1. queue' # <<>>
      <3>1. task[t].slot \in ToSet(queue')
        BY QueueAfter
      <3> QED
        BY <3>1 DEF ToSet
    <2>2. Starting => Starting'
      BY <1>1, <1>3, Others, StartingKeeps
    <2> QED
      BY <2>1, <2>2, <1>1, <1>3 DEF DriveInv, HandlerHasRequest, DriveBusyWithWork, Starting
  <1> QED
    BY <1>2, <1>3 DEF AddRequest

(* The drive is put to work. *)
LEMMA StartDriveDrive == ASSUME IInv, DriveInv, NEW t \in Tasks, StartDrive(t) PROVE DriveInv'
  <1>1. hd'.driving
    BY DEF StartDrive, IInv, TypeOK, Drives
  <1> QED
    BY <1>1 DEF DriveInv, HandlerHasRequest, DriveBusyWithWork

(* Where do_hd_request and the interrupts leave the drive. *)
LEMMA DriveAfter ==
  ASSUME TypeOK
  PROVE  /\ \A i : \/ Specify(i).intr = "reset_hd"
                   \/ Specify(i).driving
         /\ Specify(0).intr = "reset_hd"
         /\ \A h : Issued(h).intr = h
         /\ Handled.driving
         /\ \A again : [Handled EXCEPT !.reset = again].driving
  BY Constants DEF TypeOK, Drives, Specify, Issued, Handled

(* do_hd_request ends with a command to the drive, or with nothing to do. *)
LEMMA DoHdRequestDrive == ASSUME IInv, DriveInv, DoHdRequest PROVE DriveInv'
  <1>1. TypeOK /\ hd.driving /\ hd \in Drives
    BY DEF IInv, TypeOK, DoHdRequest, NoRequest, OutOfRange, ResetDrives, Recalibrate, StartRead,
           StartWrite, NoDataRequest, Transferring, Fit, Driving
  <1>2. CASE NoRequest
    BY <1>2, <1>1, DriveAfter DEF NoRequest, DriveInv, HandlerHasRequest, DriveBusyWithWork
  <1>3. CASE OutOfRange
    <2>1. hd' = hd
      BY <1>3 DEF OutOfRange
    <2> QED
      BY <2>1, <1>1 DEF DriveInv, HandlerHasRequest, DriveBusyWithWork
  <1>4. CASE ResetDrives
    <2>1. hd'.intr = "reset_hd"
      BY <1>4, <1>1, DriveAfter DEF ResetDrives, Specify
    <2> QED
      BY <2>1 DEF DriveInv, HandlerHasRequest, DriveBusyWithWork
  <1>5. CASE Recalibrate \/ StartRead \/ StartWrite
    <2>1. queue' # <<>>
      BY <1>5 DEF Recalibrate, StartRead, StartWrite, Transferring, Fit
    <2>2. hd'.intr # "none"
      <3>1. \A h \in Handlers : /\ Issued(h).intr = h
                               /\ [Issued(h) EXCEPT !.recalibrate = FALSE].intr = h
        BY <1>1 DEF Issued, Drives
      <3>2. "recal_intr" \in Handlers /\ "read_intr" \in Handlers /\ "write_intr" \in Handlers
        BY DEF Handlers
      <3>3. CASE Recalibrate
        BY <3>1, <3>2, <3>3 DEF Recalibrate
      <3>4. CASE StartRead
        BY <3>1, <3>2, <3>4 DEF StartRead
      <3>5. CASE StartWrite
        BY <3>1, <3>2, <3>5 DEF StartWrite
      <3> QED
        BY <1>5, <3>3, <3>4, <3>5
    <2> QED
      BY <2>1, <2>2 DEF DriveInv, HandlerHasRequest, DriveBusyWithWork
  <1>6. CASE NoDataRequest
    <2>1. hd'.driving
      BY <1>6, <1>1 DEF NoDataRequest, Drives
    <2> QED
      BY <2>1 DEF DriveInv, HandlerHasRequest, DriveBusyWithWork
  <1> QED
    BY <1>2, <1>3, <1>4, <1>5, <1>6 DEF DoHdRequest

(* An interrupt calls do_hd_request, or waits for the next one. *)
LEMMA HdInterruptDrive == ASSUME IInv, DriveInv, HdInterrupt PROVE DriveInv'
  <1>1. TypeOK /\ hd \in Drives
    BY DEF IInv, TypeOK
  <1>2. CASE TransferError \/ ReadDone \/ WriteDone \/ Recalibrated
    <2>1. hd'.driving
      BY <1>2, <1>1, DriveAfter DEF TransferError, ReadDone, WriteDone, Recalibrated
    <2> QED
      BY <2>1 DEF DriveInv, HandlerHasRequest, DriveBusyWithWork
  <1>3. CASE ReadSector \/ WriteSector \/ ResetErrorNoRequest
    <2>1. hd' = hd /\ queue' = queue /\ task' = task
      BY <1>3 DEF ReadSector, WriteSector, ResetErrorNoRequest
    <2> QED
      BY <2>1, QuietKeeps DEF Quiet, Starting
  <1>4. CASE DriveReset \/ ResetError
    <2>1. hd'.intr = "reset_hd" \/ hd'.driving
      BY <1>4, <1>1, DriveAfter DEF DriveReset, ResetError
    <2> QED
      BY <2>1 DEF DriveInv, HandlerHasRequest, DriveBusyWithWork
  <1> QED
    BY <1>2, <1>3, <1>4 DEF HdInterrupt

(* No step leaves the drive idle with work, or a handler without a request. *)
LEMMA NextDriveInv == IInv /\ DriveInv /\ [Next]_vars => DriveInv'
  <1> SUFFICES ASSUME IInv, DriveInv, [Next]_vars PROVE DriveInv'
    OBVIOUS
  <1>1. ASSUME NEW t \in Tasks, Call(t) \/ Modify(t) \/ Forget(t) \/ Reuse(t) \/ Kernel(t)
        PROVE  DriveInv'
    BY <1>1, TaskQuiet, QuietKeeps, AddRequestDrive, StartDriveDrive DEF Kernel
  <1>2. CASE SwitchTask \/ UNCHANGED vars
    <2>1. hd' = hd /\ queue' = queue /\ task' = task
      BY <1>2 DEF SwitchTask, vars
    <2> QED
      BY <2>1, QuietKeeps DEF Quiet, Starting
  <1> QED
    BY <1>1, <1>2, DoHdRequestDrive, HdInterruptDrive DEF Next

(* In every reachable state the drive and the queue fit each other. *)
LEMMA SpecDriveInv == Spec => []DriveInv
  <1>1. Init => DriveInv
    BY DEF Init, DriveInv, HandlerHasRequest, DriveBusyWithWork
  <1> QED
    BY <1>1, NextDriveInv, SpecIInv, PTL DEF Spec
-----------------------------------------------------------------------------
(* Page requests.  A task that has been marked as asleep, from the link of  *)
(* its request on, has a request in the queue; before, the slot it adds is  *)
(* for it.                                                                  *)
PageFor(t) == \E s \in ToSet(queue) : request[s].waiting = t
Waits(t) == /\ state[t] = UNINTERRUPTIBLE
            /\ task[t].pc \in {"page", "page_sleep"} \/ (task[t].pc = "start" /\ task[t].bh = NoBuf)
AddsPage(t) == Adding(t) /\ task[t].bh = NoBuf
PageInv ==
  /\ \A t \in Tasks : Waits(t) => PageFor(t)
  /\ \A t \in Tasks : AddsPage(t) => request[task[t].slot].waiting = t
  /\ \A t \in Tasks : task[t].ahead => task[t].bh # NoBuf

(* Nobody but t goes to sleep. *)
OnlyMaySleep(t) == \A u \in Tasks : u # t /\ state'[u] = UNINTERRUPTIBLE => state[u] = UNINTERRUPTIBLE

(* wake_up puts nobody to sleep. *)
LEMMA WakeUpWakes ==
  ASSUME NEW st \in [Tasks -> {RUNNING, UNINTERRUPTIBLE}], NEW x, NEW u \in Tasks,
         WakeUp(st, x)[u] = UNINTERRUPTIBLE
  PROVE  st[u] = UNINTERRUPTIBLE /\ x # u
  <1>1. RUNNING # UNINTERRUPTIBLE
    BY DEF RUNNING, UNINTERRUPTIBLE
  <1>2. x # NoTask => WakeUp(st, x) = [st EXCEPT ![x] = RUNNING]
    BY DEF WakeUp
  <1>3. u # NoTask
    BY Constants
  <1> QED
    BY <1>1, <1>2, <1>3 DEF WakeUp

(* A step of a task that neither fills a slot nor links one. *)
LEMMA PageMove ==
  ASSUME IInv, PageInv, NEW t \in Tasks, OnlyMaySleep(t),
         queue' = queue, request' = request, \A u \in Tasks : u # t => task'[u] = task[u],
         Waits(t)' => Waits(t), ~Adding(t)', task'[t].ahead => task'[t].bh # NoBuf
  PROVE  PageInv'
  <1>1. \A u \in Tasks : PageFor(u)' <=> PageFor(u)
    BY DEF PageFor
  <1>2. \A u \in Tasks : Waits(u)' => Waits(u)
    BY DEF Waits, OnlyMaySleep
  <1>3. \A u \in Tasks : AddsPage(u)' => AddsPage(u) /\ task'[u] = task[u]
    BY DEF AddsPage, Adding
  <1> QED
    BY <1>1, <1>2, <1>3 DEF PageInv

(* What the callers ask for; a read ahead is one of a buffer. *)
LEMMA CallIs ==
  ASSUME NEW t \in Tasks, Call(t)
  PROVE  \E c : /\ task' = [task EXCEPT ![t] = c] /\ c.pc \in {"lock", "wait", "scan"}
                /\ c.ahead => c.bh # NoBuf
  <1> DEFINE Good(c) == /\ task' = [task EXCEPT ![t] = c] /\ c.pc \in {"lock", "wait", "scan"}
                        /\ c.ahead => c.bh # NoBuf
  <1>1. ASSUME NEW rw, NEW ahead, NEW b \in Buffers,
               task' = [task EXCEPT ![t] = [User EXCEPT !.pc = "lock", !.rw = rw,
                                                        !.ahead = ahead, !.bh = b]]
        PROVE  \E c : Good(c)
    <2> DEFINE c == [User EXCEPT !.pc = "lock", !.rw = rw, !.ahead = ahead, !.bh = b]
    <2>1. c.pc = "lock" /\ c.bh = b /\ b # NoBuf
      BY NoBufIsNone DEF User
    <2>2. task' = [task EXCEPT ![t] = c]
      BY <1>1
    <2> HIDE DEF c
    <2> QED
      BY <2>1, <2>2
  <1>2. ASSUME NEW rw, NEW b, task' = [task EXCEPT ![t] = [User EXCEPT !.pc = "wait", !.rw = rw, !.bh = b]]
        PROVE  \E c : Good(c)
    <2> DEFINE c == [User EXCEPT !.pc = "wait", !.rw = rw, !.bh = b]
    <2>1. c.pc = "wait" /\ ~c.ahead
      BY DEF User
    <2>2. task' = [task EXCEPT ![t] = c]
      BY <1>2
    <2> HIDE DEF c
    <2> QED
      BY <2>1, <2>2
  <1>3. ASSUME NEW rw, NEW p, task' = [task EXCEPT ![t] = [User EXCEPT !.pc = "scan", !.rw = rw, !.at = p]]
        PROVE  \E c : Good(c)
    <2> DEFINE c == [User EXCEPT !.pc = "scan", !.rw = rw, !.at = p]
    <2>1. c.pc = "scan" /\ ~c.ahead
      BY DEF User
    <2>2. task' = [task EXCEPT ![t] = c]
      BY <1>3
    <2> HIDE DEF c
    <2> QED
      BY <2>1, <2>2
  <1> QED
    BY <1>1, <1>2, <1>3 DEF Call

(* The task calls, sleeps, goes on or returns. *)
LEMMA TaskPage ==
  ASSUME IInv, PageInv, NEW t \in Tasks,
         \/ Call(t) \/ SleepOnBuffer(t) \/ WaitDone(t) \/ LockBuffer(t) \/ GiveUpAhead(t)
         \/ FindFull(t) \/ SleepOnRequest(t) \/ StartDrive(t)
         \/ SleepOnPage(t) \/ PageDone(t) \/ Resume(t)
  PROVE  PageInv'
  <1>1. /\ TypeOK /\ SchedTypeOK /\ task[t] \in Calls /\ queue' = queue /\ request' = request
        /\ task[t].pc \in Masked => task[t].bh # NoBuf
        /\ task[t].ahead => task[t].bh # NoBuf
    BY DEF IInv, TypeOK, HasBuffer, PageInv, Call, SleepOnBuffer, WaitDone, LockBuffer, GiveUpAhead,
           FindFull, SleepOnRequest, StartDrive, SleepOnPage, PageDone, Resume
  <1>2. state \in [Tasks -> {RUNNING, UNINTERRUPTIBLE}]
    BY <1>1 DEF SchedTypeOK
  <1>3. \A u \in Tasks : u # t => task'[u] = task[u]
    <2>1. CASE Call(t)
      BY <2>1, <1>1, Others DEF Call
    <2>2. CASE SleepOnBuffer(t) \/ WaitDone(t) \/ LockBuffer(t) \/ GiveUpAhead(t)
      BY <2>2, <1>1, Others DEF SleepOnBuffer, WaitDone, LockBuffer, GiveUpAhead
    <2>3. CASE FindFull(t) \/ SleepOnRequest(t) \/ StartDrive(t) \/ SleepOnPage(t) \/ PageDone(t)
      BY <2>3, <1>1, Others DEF FindFull, SleepOnRequest, StartDrive, SleepOnPage, PageDone
    <2>4. CASE Resume(t)
      BY <2>4, <1>1, Others DEF Resume
    <2> QED
      BY <2>1, <2>2, <2>3, <2>4
  <1>4. OnlyMaySleep(t)
    <2>1. CASE UNCHANGED state
      BY <2>1 DEF OnlyMaySleep
    <2>2. CASE \E q : SleepOn(t, q)
      BY <2>2, <1>2 DEF SleepOn, OnlyMaySleep
    <2>3. CASE \E q : SleepAgain(t, q)
      BY <2>3, <1>2 DEF SleepAgain, OnlyMaySleep, RUNNING, UNINTERRUPTIBLE
    <2>4. CASE \E x : state' = WakeUp(state, x)
      BY <2>4, <1>2, WakeUpWakes DEF OnlyMaySleep
    <2>5. \/ UNCHANGED state
          \/ \E q : SleepOn(t, q) \/ SleepAgain(t, q)
          \/ \E x : state' = WakeUp(state, x)
      BY DEF Call, SleepOnBuffer, WaitDone, LockBuffer, GiveUpAhead, FindFull, SleepOnRequest,
             StartDrive, SleepOnPage, PageDone, Resume, schedVars, Unlock, Unlink
    <2> QED
      BY <2>1, <2>2, <2>3, <2>4, <2>5
  <1>5. /\ Waits(t)' => Waits(t)
        /\ ~Adding(t)'
        /\ task'[t].ahead => task'[t].bh # NoBuf
    <2>1. ASSUME NEW l \in Labels, Goto(t, l), l \notin {"add", "start", "page", "page_sleep"}
          PROVE  ~Waits(t)' /\ ~Adding(t)' /\ (task'[t].ahead => task'[t].bh # NoBuf)
      <3>1. task'[t] = [task[t] EXCEPT !.pc = l]
        BY <2>1, <1>1 DEF Goto, TypeOK
      <3> QED
        BY <3>1, <2>1, <1>1 DEF Calls, Waits, Adding
    <2>2. ASSUME Return(t), task[t].bh # NoBuf
          PROVE  ~Waits(t)' /\ ~Adding(t)' /\ ~task'[t].ahead
      BY <2>2, <1>1 DEF Return, User, TypeOK, Waits, Adding
    <2>3. CASE Call(t)
      <3>1. PICK c : /\ task' = [task EXCEPT ![t] = c] /\ c.pc \in {"lock", "wait", "scan"}
                     /\ c.ahead => c.bh # NoBuf
        BY <2>3, CallIs
      <3>2. task'[t] = c
        BY <3>1, <1>1 DEF TypeOK
      <3> QED
        BY <3>1, <3>2 DEF Waits, Adding
    <2>4. CASE SleepOnBuffer(t)
      BY <2>4, <2>1 DEF SleepOnBuffer, Labels
    <2>5. CASE WaitDone(t)
      BY <2>5, <2>2, <1>1 DEF WaitDone, At, Masked
    <2>6. CASE LockBuffer(t)
      BY <2>6, <2>1, <2>2, <1>1 DEF LockBuffer, At, Masked, Labels
    <2>7. CASE GiveUpAhead(t)
      BY <2>7, <2>2, <1>1 DEF GiveUpAhead
    <2>8. CASE FindFull(t) \/ SleepOnRequest(t) \/ PageDone(t)
      BY <2>8, <2>1 DEF FindFull, SleepOnRequest, PageDone, Labels
    <2>9. CASE StartDrive(t)
      <3>1. task[t].pc = "start" /\ state' = state /\ Return(t)
        BY <2>9 DEF StartDrive, At, schedVars
      <3>2. CASE task[t].bh = NoBuf
        BY <3>1, <3>2, <1>1 DEF Return, User, TypeOK, Waits, Adding
      <3> QED
        BY <3>1, <3>2, <2>2
    <2>10. CASE SleepOnPage(t)
      <3>1. task[t].pc = "page" /\ state' = state /\ Goto(t, "page_sleep")
        BY <2>10 DEF SleepOnPage, At
      <3>2. task'[t] = [task[t] EXCEPT !.pc = "page_sleep"]
        BY <3>1, <1>1 DEF Goto, TypeOK
      <3> QED
        BY <3>1, <3>2, <1>1 DEF Calls, Waits, Adding
    <2>11. CASE Resume(t)
      <3>1. task[t].pc \in {"lock_sleep", "wait_sleep", "req_sleep"}
        BY <2>11 DEF Resume, Asleep
      <3>2. CASE UNCHANGED task
        BY <3>1, <3>2, <1>1 DEF Waits, Adding
      <3>3. CASE Goto(t, Next_pc[task[t].pc])
        <4>1. Next_pc[task[t].pc] \in {"lock", "wait", "scan"}
          BY <3>1 DEF Next_pc
        <4> QED
          BY <4>1, <3>3, <2>1 DEF Labels
      <3> QED
        BY <2>11, <3>2, <3>3 DEF Resume
    <2> QED
      BY <2>3, <2>4, <2>5, <2>6, <2>7, <2>8, <2>9, <2>10, <2>11
  <1> QED
    BY <1>1, <1>3, <1>4, <1>5, PageMove

(* The slot that is filled is in no queue yet; a page's is for its task. *)
LEMMA FillRequestPage == ASSUME IInv, PageInv, NEW t \in Tasks, FillRequest(t) PROVE PageInv'
  <1>1. /\ TypeOK /\ SchedTypeOK /\ task[t].pc = "scan" /\ task[t] \in Calls /\ queue' = queue
        /\ queue \in Seq(Slots)
        /\ state' = IF task[t].bh = NoBuf THEN [state EXCEPT ![t] = UNINTERRUPTIBLE] ELSE state
    BY DEF FillRequest, At, IInv, TypeOK
  <1> DEFINE Fills(s, r) ==
          /\ request' = [request EXCEPT ![s] = r]
          /\ r.waiting = IF task[t].bh = NoBuf THEN t ELSE NoTask
          /\ task' = [task EXCEPT ![t].slot = s, ![t].pc = "add"]
  <1>a. PICK s \in Free(task[t]) : \E r : Fills(s, r)
    BY DEF FillRequest
  <1>2. PICK r : Fills(s, r)
    BY <1>a
  <1>3. s \in Slots /\ ~request[s].busy
    BY <1>a, WriteSlotsAreSlots DEF Free
  <1>4. s \notin ToSet(queue) /\ \A u \in Tasks : Adding(u) => task[u].slot # s
    BY <1>3 DEF IInv, SlotsAccounted
  <1>5. /\ \A x \in Slots : request'[x] = IF x = s THEN r ELSE request[x]
        /\ \A u \in Tasks : u # t => task'[u] = task[u]
        /\ task'[t] = [task[t] EXCEPT !.slot = s, !.pc = "add"]
    BY <1>1, <1>2, <1>3 DEF TypeOK
  <1>6. \A u \in Tasks : PageFor(u) => PageFor(u)'
    BY <1>1, <1>4, <1>5 DEF PageFor, ToSet
  <1>7. \A u \in Tasks : Waits(u)' => Waits(u)
    <2>1. OnlyMaySleep(t)
      BY <1>1 DEF OnlyMaySleep, SchedTypeOK
    <2>2. ~Waits(t)'
      BY <1>1, <1>5 DEF Waits, Calls
    <2> QED
      BY <2>1, <2>2, <1>5 DEF Waits, OnlyMaySleep
  <1>8. ASSUME NEW u \in Tasks, AddsPage(u)' PROVE request'[task'[u].slot].waiting = u
    <2>1. CASE u = t
      <3>1. task'[t].slot = s /\ task'[t].bh = task[t].bh
        BY <1>1, <1>5 DEF Calls
      <3>2. task[t].bh = NoBuf
        BY <2>1, <1>8, <3>1 DEF AddsPage
      <3> QED
        BY <2>1, <3>1, <3>2, <1>2, <1>3, <1>5
    <2>2. CASE u # t
      <3>1. AddsPage(u) /\ task'[u] = task[u] /\ task[u].slot \in Slots
        BY <2>2, <1>5, <1>8 DEF AddsPage, Adding, IInv, FilledSlot
      <3> QED
        BY <3>1, <1>4, <1>5 DEF PageInv, AddsPage
    <2> QED
      BY <2>1, <2>2
  <1>9. \A u \in Tasks : task'[u].ahead => task'[u].bh # NoBuf
    <2>1. task'[t].ahead = task[t].ahead /\ task'[t].bh = task[t].bh
      BY <1>1, <1>5 DEF Calls
    <2> QED
      BY <2>1, <1>5 DEF PageInv
  <1> QED
    BY <1>6, <1>7, <1>8, <1>9 DEF PageInv

(* The request enters the queue, and with it the one the task waits for. *)
LEMMA AddRequestPage == ASSUME IInv, PageInv, NEW t \in Tasks, AddRequest(t) PROVE PageInv'
  <1> DEFINE s == task[t].slot
  <1>1. /\ TypeOK /\ task[t].pc = "add" /\ task[t] \in Calls
        /\ UNCHANGED <<schedVars, request, hd, wild>> /\ state' = state /\ request' = request
    BY DEF AddRequest, At, IInv, TypeOK, schedVars
  <1>2. ToSet(queue') = ToSet(queue) \union {s}
    BY QueueAfter
  <1>3. \A u \in Tasks : u # t => task'[u] = task[u]
    BY <1>1, Others DEF AddRequest
  <1>4. task'[t].pc \in {"start", "page", "user"} /\ (task'[t].pc = "page" => task[t].bh = NoBuf)
        /\ (task'[t].pc = "start" => task'[t].bh = task[t].bh)
        /\ (task'[t].ahead => task'[t].bh # NoBuf)
    <2>1. CASE Goto(t, "start")
      <3>1. task'[t] = [task[t] EXCEPT !.pc = "start"]
        BY <2>1, <1>1 DEF Goto, TypeOK
      <3> QED
        BY <3>1, <1>1 DEF Calls, PageInv
    <2>2. CASE Return(t)
      BY <2>2, <1>1 DEF Return, TypeOK, User
    <2> QED
      BY <2>1, <2>2 DEF AddRequest
  <1>5. \A u \in Tasks : PageFor(u) => PageFor(u)'
    BY <1>1, <1>2 DEF PageFor
  <1>6. Waits(t)' => PageFor(t)'
    <2> SUFFICES ASSUME Waits(t)' PROVE PageFor(t)'
      OBVIOUS
    <2>1. AddsPage(t)
      BY <1>1, <1>4 DEF Waits, AddsPage, Adding
    <2>2. request'[s].waiting = t /\ s \in ToSet(queue')
      BY <2>1, <1>1, <1>2 DEF PageInv
    <2> QED
      BY <2>2 DEF PageFor
  <1>7. \A u \in Tasks : u # t => (Waits(u)' => Waits(u)) /\ (AddsPage(u)' => AddsPage(u))
    BY <1>1, <1>3 DEF Waits, AddsPage, Adding
  <1>8. ~AddsPage(t)'
    BY <1>4 DEF AddsPage, Adding
  <1> QED
    BY <1>1, <1>3, <1>4, <1>5, <1>6, <1>7, <1>8 DEF PageInv

(* end_request wakes the task that waits for the page. *)
LEMMA EndRequestPage ==
  ASSUME IInv, PageInv, queue # <<>>, NEW r, NEW rs, NEW bs, NEW up,
         rs = request \/ rs = [request EXCEPT ![Head(queue)] = r],
         EndRequest(rs, bs, up), task' = task
  PROVE  PageInv'
  <1> DEFINE h == Head(queue)
  <1>1. /\ TypeOK /\ queue \in Seq(Slots) /\ Once(queue) /\ request \in [Slots -> Requests]
        /\ state \in [Tasks -> {RUNNING, UNINTERRUPTIBLE}]
    BY DEF IInv, TypeOK, SlotsAccounted, Once, SchedTypeOK
  <1>2. ToSet(queue') = ToSet(queue) \ {h} /\ h \in Slots /\ h \in ToSet(queue)
    BY <1>1, TailOnce DEF EndRequest
  <1>3. \A x \in Slots : x # h => request'[x] = request[x]
    BY <1>1 DEF EndRequest
  <1>4. \A u \in Tasks : state'[u] = UNINTERRUPTIBLE
                           => state[u] = UNINTERRUPTIBLE /\ Current.waiting # u
    <2> DEFINE s1 == IF Current.bh = NoBuf THEN state ELSE WakeUp(state, wq[Current.bh])
               s2 == WakeUp(s1, Current.waiting)
    <2>1. state' = WakeUp(s2, wq[WaitForRequest])
      BY DEF EndRequest
    <2>2. s1 \in [Tasks -> {RUNNING, UNINTERRUPTIBLE}]
      BY <1>1, WakeUpTypes
    <2>3. \A u \in Tasks : s1[u] = UNINTERRUPTIBLE => state[u] = UNINTERRUPTIBLE
      BY <1>1, WakeUpWakes
    <2> HIDE DEF s1
    <2>4. s2 \in [Tasks -> {RUNNING, UNINTERRUPTIBLE}]
      BY <2>2, WakeUpTypes
    <2>5. \A u \in Tasks : s2[u] = UNINTERRUPTIBLE => s1[u] = UNINTERRUPTIBLE /\ Current.waiting # u
      BY <2>2, WakeUpWakes
    <2> HIDE DEF s2
    <2> QED
      BY <2>1, <2>3, <2>4, <2>5, WakeUpWakes
  <1>5. ASSUME NEW u \in Tasks, Waits(u)' PROVE PageFor(u)'
    <2>1. Waits(u) /\ Current.waiting # u
      BY <1>4, <1>5 DEF Waits
    <2>2. PICK x \in ToSet(queue) : request[x].waiting = u
      BY <2>1 DEF PageInv, PageFor
    <2>3. x # h /\ x \in Slots
      BY <2>1, <2>2, <1>1 DEF Current, ToSet
    <2> QED
      BY <2>2, <2>3, <1>2, <1>3 DEF PageFor
  <1>6. ASSUME NEW u \in Tasks, AddsPage(u)' PROVE request'[task'[u].slot].waiting = u
    <2>1. AddsPage(u) /\ task[u].slot \in Slots /\ task[u].slot # h
      BY <1>2, <1>6 DEF AddsPage, Adding, IInv, FilledSlot, SlotsAccounted
    <2> QED
      BY <2>1, <1>3 DEF PageInv
  <1> QED
    BY <1>5, <1>6 DEF PageInv

(* A step of the drive that ends no request leaves who waits for which. *)
LEMMA DrivePage ==
  ASSUME IInv, PageInv, queue' = queue, task' = task, state' = state,
         \A s \in Slots : request'[s].waiting = request[s].waiting
  PROVE  PageInv'
  <1>1. \A s \in ToSet(queue) : s \in Slots
    BY DEF IInv, TypeOK, ToSet
  <1>2. \A u \in Tasks : Adding(u) => task[u].slot \in Slots
    BY DEF IInv, FilledSlot
  <1> QED
    BY <1>1, <1>2 DEF PageInv, Waits, PageFor, AddsPage, Adding

(* bad_rw_intr counts the error or ends the request. *)
LEMMA BadRwIntrPage ==
  ASSUME IInv, PageInv, queue # <<>>, NEW bs, BadRwIntr(bs), task' = task
  PROVE  PageInv'
  <1> DEFINE h == Head(queue)
             r == [request[h] EXCEPT !.errors = @ + 1]
             rs == [request EXCEPT ![h] = r]
  <1>1. TypeOK /\ h \in Slots /\ request \in [Slots -> Requests]
    BY DEF IInv, TypeOK
  <1>2. [request EXCEPT ![h].errors = @ + 1] = rs
    BY <1>1
  <1>3. CASE EndRequest(rs, bs, FALSE)
    <2>1. rs = [request EXCEPT ![Head(queue)] = r]
      OBVIOUS
    <2> HIDE DEF r, rs
    <2> QED
      BY <1>3, <2>1, EndRequestPage, Zenon
  <1>4. CASE request' = rs /\ UNCHANGED <<schedVars, queue>>
    <2>1. \A s \in Slots : request'[s].waiting = request[s].waiting
      BY <1>1, <1>4 DEF Requests
    <2> QED
      BY <2>1, <1>4, DrivePage DEF schedVars
  <1> QED
    BY <1>2, <1>3, <1>4 DEF BadRwIntr

(* do_hd_request and the interrupts. *)
LEMMA HdPage == ASSUME IInv, PageInv, DoHdRequest \/ HdInterrupt PROVE PageInv'
  <1>1. CASE NoRequest \/ ResetDrives \/ Recalibrate \/ StartRead \/ StartWrite \/ Recalibrated
             \/ DriveReset \/ ResetErrorNoRequest
    <2>1. queue' = queue /\ task' = task /\ state' = state /\ request' = request
      BY <1>1 DEF NoRequest, ResetDrives, Recalibrate, StartRead, StartWrite, Recalibrated,
                  DriveReset, ResetErrorNoRequest, schedVars
    <2> QED
      BY <2>1, DrivePage
  <1>2. CASE OutOfRange
    BY <1>2, EndRequestPage DEF OutOfRange
  <1>3. CASE NoDataRequest \/ TransferError \/ ResetError
    BY <1>3, BadRwIntrPage
       DEF NoDataRequest, Transferring, Fit, TransferError, ResetError
  <1>4. CASE ReadSector \/ WriteSector
    <2>1. queue' = queue /\ task' = task /\ state' = state
      BY <1>4 DEF ReadSector, WriteSector, schedVars
    <2>2. Head(queue) \in Slots /\ request \in [Slots -> Requests] /\ Current = request[Head(queue)]
      BY <1>4 DEF ReadSector, WriteSector, IInv, TypeOK, Current
    <2>3. PICK r : request' = [request EXCEPT ![Head(queue)] = SectorGone(r)]
                   /\ r.waiting = Current.waiting /\ r \in Requests
      <3>1. [Current EXCEPT !.errors = 0] \in Requests
            /\ [Current EXCEPT !.errors = 0].waiting = Current.waiting /\ Current \in Requests
        BY <2>2 DEF Requests
      <3> QED
        BY <1>4, <3>1 DEF ReadSector, WriteSector
    <2>4. SectorGone(r).waiting = r.waiting
      BY <2>3 DEF SectorGone, Requests
    <2>5. \A s \in Slots : request'[s].waiting = request[s].waiting
      BY <2>2, <2>3, <2>4
    <2> QED
      BY <2>1, <2>5, DrivePage
  <1>5. CASE ReadDone
    <2> DEFINE r == SectorGone([Current EXCEPT !.errors = 0])
    <2>1. EndRequest([request EXCEPT ![Head(queue)] = r], Copied(1), TRUE)
          /\ queue # <<>> /\ task' = task
      BY <1>5 DEF ReadDone
    <2> HIDE DEF r
    <2> QED
      BY <2>1, EndRequestPage
  <1>6. CASE WriteDone
    <2> DEFINE r == [request[Head(queue)] EXCEPT !.nr = 0]
    <2>1. Head(queue) \in Slots /\ request \in [Slots -> Requests]
      BY <1>6 DEF WriteDone, IInv, TypeOK
    <2>2. EndRequest([request EXCEPT ![Head(queue)] = r], buf, TRUE) /\ queue # <<>> /\ task' = task
      BY <1>6, <2>1 DEF WriteDone
    <2> HIDE DEF r
    <2> QED
      BY <2>2, EndRequestPage
  <1> QED
    BY <1>1, <1>2, <1>3, <1>4, <1>5, <1>6 DEF DoHdRequest, HdInterrupt

(* No step leaves a task asleep for a page without a request. *)
LEMMA NextPageInv == IInv /\ PageInv /\ [Next]_vars => PageInv'
  <1> SUFFICES ASSUME IInv, PageInv, [Next]_vars PROVE PageInv'
    OBVIOUS
  <1>1. ASSUME NEW t \in Tasks, Kernel(t) \/ Call(t) PROVE PageInv'
    BY <1>1, TaskPage, FillRequestPage, AddRequestPage DEF Kernel
  <1>2. ASSUME NEW t \in Tasks, Modify(t) \/ Forget(t) \/ Reuse(t) PROVE PageInv'
    <2>1. queue' = queue /\ task' = task /\ state' = state /\ request' = request
      BY <1>2 DEF Modify, Forget, Reuse, schedVars
    <2> QED
      BY <2>1, DrivePage
  <1>3. CASE SwitchTask \/ UNCHANGED vars
    <2>1. queue' = queue /\ task' = task /\ state' = state /\ request' = request
      BY <1>3 DEF SwitchTask, vars, schedVars
    <2> QED
      BY <2>1, DrivePage
  <1> QED
    BY <1>1, <1>2, <1>3, HdPage DEF Next
-----------------------------------------------------------------------------
(* read_intr, write_intr and recal_intr find a current request, however     *)
(* requests come, fail and are retried.                                     *)
THEOREM SpecHandlerHasRequest == Spec => []HandlerHasRequest
  <1>1. DriveInv => HandlerHasRequest
    BY DEF DriveInv
  <1> QED
    BY <1>1, SpecDriveInv, PTL

(* The drive never rests while requests are queued: add_request, which      *)
(* links first and looks whether the drive is idle, misses no moment.       *)
THEOREM SpecDriveBusyWithWork == Spec => []DriveBusyWithWork
  <1>1. DriveInv => DriveBusyWithWork
    BY DEF DriveInv
  <1> QED
    BY <1>1, SpecDriveInv, PTL

(* A task that ll_rw_page has put to sleep has a request to be woken by.    *)
THEOREM SpecPageWaiterHasRequest == Spec => []PageWaiterHasRequest
  <1>1. Init => PageInv
    BY DEF Init, User, PageInv, Waits, AddsPage, Adding
  <1>2. PageInv => PageWaiterHasRequest
    BY DEF PageInv, PageWaiterHasRequest, Waits, PageFor
  <1> QED
    BY <1>1, <1>2, NextPageInv, SpecIInv, PTL DEF Spec
-----------------------------------------------------------------------------
Faithful(b) ==
  /\ QueuedFor(b) = {} /\ ~buf[b].dirt /\ buf[b].uptodate => buf[b].stale = {}
  /\ \A s \in QueuedFor(b) :
       ~buf[b].dirt => \A x \in buf[b].stale : Sector(request[s].nr) <= x
WrittenOut ==
  hd.intr = "write_intr" /\ ~hd.driving /\ queue # <<>> =>
    \A b \in Buffers :
      Current.bh = b /\ ~buf[b].dirt => Sector(Current.nr) \notin buf[b].stale
WholeBlocks ==
  \A t \in Tasks : Adding(t) /\ task[t].bh # NoBuf => request[task[t].slot].nr = BlockSectors
DiskInv == (\A b \in Buffers : Faithful(b)) /\ WrittenOut /\ WholeBlocks

(* What DiskIO sees of a buffer. *)
Seen == [use : {"free", "held", "queued"}, dirt : BOOLEAN, uptodate : BOOLEAN,
         id : BlockIds, same : BOOLEAN]

BufferShown ==
  /\ Buffer \in [Buffers -> Seen]
  /\ \A b \in Buffers :
       /\ Buffer[b].use = IF ~buf[b].lock THEN "free"
                          ELSE IF QueuedFor(b) = {} THEN "held" ELSE "queued"
       /\ Buffer[b].dirt = buf[b].dirt /\ Buffer[b].uptodate = buf[b].uptodate
       /\ Buffer[b].id = buf[b].id /\ Buffer[b].same = (buf[b].stale = {})

(* A buffer as DiskIO sees it. *)
LEMMA BufferIs == TypeOK => BufferShown
  <1> SUFFICES ASSUME TypeOK PROVE BufferShown
    OBVIOUS
  <1>1. \A b \in Buffers : buf[b] \in Heads
    BY DEF TypeOK
  <1>2. \A b \in Buffers : Use(b) = IF ~buf[b].lock THEN "free"
                                    ELSE IF QueuedFor(b) = {} THEN "held" ELSE "queued"
    BY <1>1 DEF Use, Heads
  <1>3. \A b \in Buffers : Use(b) \in {"free", "held", "queued"} /\ (buf[b].stale = {}) \in BOOLEAN
    BY <1>2
  <1> QED
    BY <1>1, <1>2, <1>3 DEF BufferShown, Buffer, Seen, Heads

(* And after the step. *)
LEMMA BufferIsNext == TypeOK' => BufferShown'
  BY BufferIs, PTL

(* A step that leaves a buffer and its request alone. *)
Kept(b) == /\ buf'[b] = buf[b] /\ QueuedFor(b)' = QueuedFor(b)
           /\ \A s \in QueuedFor(b) : request'[s].nr = request[s].nr

(* It leaves the buffer as faithful as it was, and shows DiskIO nothing. *)
LEMMA KeptIs ==
  ASSUME TypeOK, TypeOK', NEW b \in Buffers, Kept(b)
  PROVE  (Faithful(b) => Faithful(b)') /\ Buffer'[b] = Buffer[b]
  <1>1. Faithful(b) => Faithful(b)'
    BY DEF Kept, Faithful, Sector
  <1>2. Buffer[b] \in Seen /\ Buffer'[b] \in Seen
    BY BufferIs, BufferIsNext DEF BufferShown
  <1>3. /\ Buffer'[b].use = Buffer[b].use /\ Buffer'[b].dirt = Buffer[b].dirt
        /\ Buffer'[b].uptodate = Buffer[b].uptodate
        /\ Buffer'[b].id = Buffer[b].id /\ Buffer'[b].same = Buffer[b].same
    BY BufferIs, BufferIsNext DEF Kept, BufferShown
  <1> QED
    BY <1>1, <1>2, <1>3 DEF Seen

(* A step on one buffer at most is one on DiskIO's buffer. *)
LEMMA OneBuffer ==
  ASSUME TypeOK, TypeOK', NEW b \in Buffers, \A a \in Buffers : a # b => Kept(a)
  PROVE  Buffer' = [Buffer EXCEPT ![b] = Buffer'[b]]
  <1>1. Buffer \in [Buffers -> Seen] /\ Buffer' \in [Buffers -> Seen]
    BY BufferIs, BufferIsNext DEF BufferShown
  <1>2. \A a \in Buffers : a # b => Buffer'[a] = Buffer[a]
    BY KeptIs
  <1> QED
    BY <1>1, <1>2
-----------------------------------------------------------------------------
(* Which step of DiskIO it is, from what becomes of the one buffer. *)
Turns(b, use, dirt, uptodate, id) ==
  /\ \A a \in Buffers : a # b => Kept(a)
  /\ Buffer'[b].use = use /\ Buffer'[b].dirt = dirt
  /\ Buffer'[b].uptodate = uptodate /\ Buffer'[b].id = id

(* The buffer is locked. *)
LEMMA TakeStep ==
  ASSUME TypeOK, TypeOK', NEW b \in Buffers,
         Buffer[b].use = "free", Buffer[b].dirt \/ ~Buffer[b].uptodate,
         Turns(b, "held", Buffer[b].dirt, Buffer[b].uptodate, Buffer[b].id),
         Buffer'[b].same = Buffer[b].same
  PROVE  Disk!Take(b)
  <1> DEFINE F == Buffer  G == Buffer'
  <1>1. F \in [Buffers -> Seen] /\ G \in [Buffers -> Seen] /\ G[b] \in Seen /\ F[b] \in Seen
    BY BufferIs, BufferIsNext DEF BufferShown
  <1>2. G = [F EXCEPT ![b] = G[b]]
    BY OneBuffer DEF Turns
  <1>3. G[b] = [F[b] EXCEPT !.use = "held"]
    BY <1>1 DEF Turns, Seen
  <1> HIDE DEF F, G
  <1>4. G = [F EXCEPT ![b].use = "held"]
    BY <1>1, <1>2, <1>3
  <1> QED
    BY <1>4, <1>1 DEF Disk!Take, F, G, Seen

(* A read-ahead is given up. *)
LEMMA GiveUpStep ==
  ASSUME TypeOK, TypeOK', NEW b \in Buffers,
         Buffer[b].use = "held",
         Turns(b, "free", Buffer[b].dirt, Buffer[b].uptodate, Buffer[b].id),
         Buffer'[b].same = Buffer[b].same
  PROVE  Disk!GiveUp(b)
  <1> DEFINE F == Buffer  G == Buffer'
  <1>1. F \in [Buffers -> Seen] /\ G \in [Buffers -> Seen] /\ G[b] \in Seen /\ F[b] \in Seen
    BY BufferIs, BufferIsNext DEF BufferShown
  <1>2. G = [F EXCEPT ![b] = G[b]]
    BY OneBuffer DEF Turns
  <1>3. G[b] = [F[b] EXCEPT !.use = "free"]
    BY <1>1 DEF Turns, Seen
  <1> HIDE DEF F, G
  <1>4. G = [F EXCEPT ![b].use = "free"]
    BY <1>1, <1>2, <1>3
  <1> QED
    BY <1>4, <1>1 DEF Disk!GiveUp, F, G, Seen

(* The transfer is queued. *)
LEMMA QueueStep ==
  ASSUME TypeOK, TypeOK', NEW b \in Buffers,
         Buffer[b].use = "held",
         Turns(b, "queued", FALSE, Buffer[b].uptodate, Buffer[b].id),
         Buffer'[b].same = Buffer[b].same
  PROVE  Disk!Queue(b)
  <1> DEFINE F == Buffer  G == Buffer'
  <1>1. F \in [Buffers -> Seen] /\ G \in [Buffers -> Seen] /\ G[b] \in Seen /\ F[b] \in Seen
    BY BufferIs, BufferIsNext DEF BufferShown
  <1>2. G = [F EXCEPT ![b] = G[b]]
    BY OneBuffer DEF Turns
  <1>3. G[b] = [F[b] EXCEPT !.use = "queued", !.dirt = FALSE]
    BY <1>1 DEF Turns, Seen
  <1> HIDE DEF F, G
  <1>4. G = [F EXCEPT ![b].use = "queued", ![b].dirt = FALSE]
    BY <1>1, <1>2, <1>3
  <1> QED
    BY <1>4, <1>1 DEF Disk!Queue, F, G, Seen

(* Sectors are transferred. *)
LEMMA TransferStep ==
  ASSUME TypeOK, TypeOK', NEW b \in Buffers,
         Buffer[b].use = "queued",
         Turns(b, "queued", Buffer[b].dirt, Buffer[b].uptodate, Buffer[b].id)
  PROVE  Disk!Transfer(b)
  <1> DEFINE F == Buffer  G == Buffer'
  <1>1. F \in [Buffers -> Seen] /\ G \in [Buffers -> Seen] /\ G[b] \in Seen /\ F[b] \in Seen
    BY BufferIs, BufferIsNext DEF BufferShown
  <1>2. G = [F EXCEPT ![b] = G[b]]
    BY OneBuffer DEF Turns
  <1>3. G[b] = [F[b] EXCEPT !.same = G[b].same]
    BY <1>1 DEF Turns, Seen
  <1> HIDE DEF F, G
  <1>4. G = [F EXCEPT ![b].same = G[b].same]
    BY <1>1, <1>2, <1>3
  <1> QED
    BY <1>4, <1>1 DEF Disk!Transfer, F, G, Seen

(* The transfer ends, well or badly. *)
LEMMA EndStep ==
  ASSUME TypeOK, TypeOK', NEW b \in Buffers, NEW ok \in BOOLEAN,
         Buffer[b].use = "queued",
         Turns(b, "free", Buffer[b].dirt, ok, Buffer[b].id),
         ok /\ ~Buffer[b].dirt => Buffer'[b].same
  PROVE  Disk!End(b)
  <1> DEFINE F == Buffer  G == Buffer'
  <1>1. F \in [Buffers -> Seen] /\ G \in [Buffers -> Seen] /\ G[b] \in Seen /\ F[b] \in Seen
    BY BufferIs, BufferIsNext DEF BufferShown
  <1>2. G = [F EXCEPT ![b] = G[b]]
    BY OneBuffer DEF Turns
  <1>3. G[b] = [F[b] EXCEPT !.use = "free", !.uptodate = ok, !.same = G[b].same]
    BY <1>1 DEF Turns, Seen
  <1> HIDE DEF F, G
  <1>4. G = [F EXCEPT ![b].use = "free", ![b].uptodate = ok, ![b].same = G[b].same]
    BY <1>1, <1>2, <1>3
  <1> QED
    BY <1>4, <1>1 DEF Disk!End, F, G, Seen

(* The holder changes the buffer. *)
LEMMA ModifyStep ==
  ASSUME TypeOK, TypeOK', NEW b \in Buffers, NEW whole \in BOOLEAN,
         whole => Buffer[b].use = "free",
         Turns(b, Buffer[b].use, TRUE, whole \/ Buffer[b].uptodate, Buffer[b].id),
         Buffer'[b].same = FALSE
  PROVE  Disk!Modify(b, whole)
  <1> DEFINE F == Buffer  G == Buffer'
  <1>1. F \in [Buffers -> Seen] /\ G \in [Buffers -> Seen] /\ G[b] \in Seen /\ F[b] \in Seen
    BY BufferIs, BufferIsNext DEF BufferShown
  <1>2. G = [F EXCEPT ![b] = G[b]]
    BY OneBuffer DEF Turns
  <1>3. G[b] = [F[b] EXCEPT !.uptodate = whole \/ F[b].uptodate, !.dirt = TRUE, !.same = FALSE]
    BY <1>1 DEF Turns, Seen
  <1> HIDE DEF F, G
  <1>4. G = [F EXCEPT ![b].uptodate = whole \/ F[b].uptodate, ![b].dirt = TRUE, ![b].same = FALSE]
    BY <1>1, <1>2, <1>3
  <1> QED
    BY <1>4, <1>1 DEF Disk!Modify, F, G, Seen

(* Nobody wants what is in the buffer. *)
LEMMA ForgetStep ==
  ASSUME TypeOK, TypeOK', NEW b \in Buffers,
         Buffer[b].use = "free",
         Turns(b, "free", FALSE, FALSE, Buffer[b].id),
         Buffer'[b].same = Buffer[b].same
  PROVE  Disk!Forget(b)
  <1> DEFINE F == Buffer  G == Buffer'
  <1>1. F \in [Buffers -> Seen] /\ G \in [Buffers -> Seen] /\ G[b] \in Seen /\ F[b] \in Seen
    BY BufferIs, BufferIsNext DEF BufferShown
  <1>2. G = [F EXCEPT ![b] = G[b]]
    BY OneBuffer DEF Turns
  <1>3. G[b] = [F[b] EXCEPT !.uptodate = FALSE, !.dirt = FALSE]
    BY <1>1 DEF Turns, Seen
  <1> HIDE DEF F, G
  <1>4. G = [F EXCEPT ![b].uptodate = FALSE, ![b].dirt = FALSE]
    BY <1>1, <1>2, <1>3
  <1> QED
    BY <1>4, <1>1 DEF Disk!Forget, F, G, Seen

(* The buffer is taken for another block. *)
LEMMA ReuseStep ==
  ASSUME TypeOK, TypeOK', NEW b \in Buffers, NEW id \in BlockIds,
         Buffer[b].use = "free", ~Buffer[b].dirt,
         Turns(b, "free", Buffer[b].dirt, FALSE, id),
         Buffer'[b].same = FALSE
  PROVE  Disk!Reuse(b, id)
  <1> DEFINE F == Buffer  G == Buffer'
  <1>1. F \in [Buffers -> Seen] /\ G \in [Buffers -> Seen] /\ G[b] \in Seen /\ F[b] \in Seen
    BY BufferIs, BufferIsNext DEF BufferShown
  <1>2. G = [F EXCEPT ![b] = G[b]]
    BY OneBuffer DEF Turns
  <1>3. G[b] = [F[b] EXCEPT !.id = id, !.uptodate = FALSE, !.same = FALSE]
    BY <1>1 DEF Turns, Seen
  <1> HIDE DEF F, G
  <1>4. G = [F EXCEPT ![b].id = id, ![b].uptodate = FALSE, ![b].same = FALSE]
    BY <1>1, <1>2, <1>3
  <1> QED
    BY <1>4, <1>1 DEF Disk!Reuse, F, G, Seen

-----------------------------------------------------------------------------
(* What a step has to show. *)
Keeps == DiskInv' /\ [Disk!Next]_Buffer

(* A step that no buffer notices. *)
LEMMA Still ==
  ASSUME TypeOK, TypeOK', DiskInv, \A a \in Buffers : Kept(a), WrittenOut', WholeBlocks'
  PROVE  Keeps
  <1>1. \A a \in Buffers : Faithful(a)' /\ Buffer'[a] = Buffer[a]
    BY KeptIs DEF DiskInv
  <1>2. Buffer' = Buffer
    BY <1>1, BufferIs, BufferIsNext DEF BufferShown
  <1> QED
    BY <1>1, <1>2 DEF Keeps, DiskInv

(* A step on one buffer. *)
LEMMA One ==
  ASSUME TypeOK, TypeOK', DiskInv, NEW b \in Buffers, \A a \in Buffers : a # b => Kept(a),
         Faithful(b)', WrittenOut', WholeBlocks', Disk!Next
  PROVE  Keeps
  BY KeptIs DEF Keeps, DiskInv

(* The sector on its way to the drive, when the head of the queue stays. *)
LEMMA WrittenSame ==
  ASSUME WrittenOut, hd' = hd, queue = <<>> => queue' = <<>>,
         queue # <<>> =>
           /\ Head(queue') = Head(queue) /\ request'[Head(queue)] = request[Head(queue)]
           /\ \A b \in Buffers :
                Current.bh = b => buf'[b].dirt \/ (buf'[b].dirt = buf[b].dirt /\ buf'[b].stale = buf[b].stale)
  PROVE  WrittenOut'
  BY DEF WrittenOut, Current, Sector

(* A drive that is not writing. *)
LEMMA WrittenNot == hd'.intr # "write_intr" \/ hd'.driving => WrittenOut'
  BY DEF WrittenOut

(* Nobody new is about to add a request. *)
LEMMA WholeSame ==
  ASSUME WholeBlocks,
         \A t \in Tasks : Adding(t)' => /\ task'[t] = task[t]
                                        /\ request'[task[t].slot].nr = request[task[t].slot].nr
  PROVE  WholeBlocks'
  BY DEF WholeBlocks, Adding

(* A step of a task that neither fills a slot nor adds a request. *)
LEMMA TaskMoves ==
  ASSUME TypeOK, NEW t \in Tasks,
         \/ Call(t) \/ SleepOnBuffer(t) \/ WaitDone(t) \/ LockBuffer(t) \/ GiveUpAhead(t)
         \/ FindFull(t) \/ SleepOnRequest(t) \/ StartDrive(t)
         \/ SleepOnPage(t) \/ PageDone(t) \/ Resume(t)
  PROVE  \A u \in Tasks : Adding(u)' => task'[u] = task[u]
  <1>1. ASSUME NEW l \in Labels \ {"add"}, Goto(t, l) PROVE task'[t].pc # "add"
    BY <1>1 DEF Goto, TypeOK, Calls
  <1>2. ASSUME Return(t) PROVE task'[t].pc # "add"
    BY <1>2 DEF Return, User, TypeOK
  <1>3. CASE Call(t)
    <2>1. ASSUME NEW c, c.pc # "add", task' = [task EXCEPT ![t] = c]
          PROVE  task'[t].pc # "add" /\ \A u \in Tasks : u # t => task'[u] = task[u]
      BY <2>1 DEF TypeOK
    <2>2. PICK c : task' = [task EXCEPT ![t] = c] /\ c.pc # "add"
      BY <1>3, CallIs
    <2> QED
      BY <2>1, <2>2 DEF Adding
  <1>4. CASE SleepOnBuffer(t) \/ WaitDone(t) \/ LockBuffer(t) \/ GiveUpAhead(t)
    BY <1>1, <1>2, <1>4, Others DEF SleepOnBuffer, WaitDone, LockBuffer, GiveUpAhead, Adding, Labels
  <1>5. CASE FindFull(t) \/ SleepOnRequest(t) \/ StartDrive(t) \/ SleepOnPage(t) \/ PageDone(t)
    BY <1>1, <1>2, <1>5, Others DEF FindFull, SleepOnRequest, StartDrive, SleepOnPage, PageDone, Adding, Labels
  <1>6. CASE Resume(t)
    <2>1. Next_pc[task[t].pc] \in Labels \ {"add"}
      BY <1>6 DEF Resume, Asleep, Next_pc, Labels
    <2> QED
      BY <1>1, <1>6, <2>1, Others DEF Resume, Adding
  <1> QED
    BY <1>3, <1>4, <1>5, <1>6

(* The steps that leave buffers, requests and queue alone. *)
LEMMA TaskStill ==
  ASSUME IInv, IInv', DiskInv,
         \/ \E t \in Tasks : \/ Call(t) \/ SleepOnBuffer(t) \/ WaitDone(t) \/ FindFull(t)
                             \/ SleepOnRequest(t) \/ StartDrive(t) \/ SleepOnPage(t)
                             \/ PageDone(t) \/ Resume(t)
         \/ SwitchTask \/ UNCHANGED vars
  PROVE  Keeps
  <1>1. /\ buf' = buf /\ request' = request /\ queue' = queue
        /\ hd' = hd \/ hd' = [hd EXCEPT !.driving = TRUE]
    BY DEF Call, SleepOnBuffer, WaitDone, FindFull, SleepOnRequest, StartDrive, SleepOnPage,
           PageDone, Resume, SwitchTask, vars
  <1>2. \A u \in Tasks : Adding(u)' => task'[u] = task[u]
    <2>1. CASE SwitchTask \/ UNCHANGED vars
      BY <2>1 DEF SwitchTask, vars
    <2> QED
      BY <2>1, TaskMoves DEF IInv
  <1>3. \A a \in Buffers : Kept(a)
    BY <1>1 DEF Kept, QueuedFor
  <1>4. WrittenOut'
    <2>1. CASE hd' = hd
      BY <2>1, <1>1, WrittenSame DEF DiskInv
    <2>2. CASE hd' = [hd EXCEPT !.driving = TRUE]
      <3>1. hd'.driving
        BY <2>2 DEF IInv, TypeOK, Drives
      <3> QED
        BY <3>1, WrittenNot
    <2> QED
      BY <2>1, <2>2, <1>1
  <1>5. WholeBlocks'
    BY <1>1, <1>2, WholeSame DEF DiskInv
  <1> QED
    BY <1>3, <1>4, <1>5, Still DEF IInv

(* A lock taken or dropped. *)
LEMMA OnlyLock ==
  ASSUME TypeOK, TypeOK', DiskInv, NEW b \in Buffers, NEW v \in BOOLEAN,
         buf' = [buf EXCEPT ![b].lock = v], queue' = queue, request' = request, hd' = hd
  PROVE  /\ \A a \in Buffers : a # b => Kept(a)
         /\ Faithful(b)' /\ WrittenOut' /\ QueuedFor(b)' = QueuedFor(b)
         /\ Turns(b, Buffer'[b].use, Buffer[b].dirt, Buffer[b].uptodate, Buffer[b].id)
         /\ Buffer'[b].same = Buffer[b].same
  <1>1. /\ \A a \in Buffers : a # b => buf'[a] = buf[a]
        /\ buf'[b].dirt = buf[b].dirt /\ buf'[b].uptodate = buf[b].uptodate
        /\ buf'[b].id = buf[b].id /\ buf'[b].stale = buf[b].stale
    BY DEF TypeOK, Heads
  <1>2. \A a \in Buffers : QueuedFor(a)' = QueuedFor(a)
    BY DEF QueuedFor
  <1>3. \A a \in Buffers : a # b => Kept(a)
    BY <1>1, <1>2 DEF Kept
  <1>4. Faithful(b)'
    BY <1>1, <1>2 DEF DiskInv, Faithful, Sector
  <1>5. WrittenOut'
    BY <1>1, WrittenSame DEF DiskInv
  <1>6. Turns(b, Buffer'[b].use, Buffer[b].dirt, Buffer[b].uptodate, Buffer[b].id)
        /\ Buffer'[b].same = Buffer[b].same
    BY <1>1, <1>3, BufferIs, BufferIsNext DEF Turns, BufferShown
  <1> QED
    BY <1>2, <1>3, <1>4, <1>5, <1>6

(* lock_buffer succeeds, and drops the lock at once or goes on. *)
LEMMA LockBufferDisk == ASSUME IInv, IInv', DiskInv, NEW t \in Tasks, LockBuffer(t) PROVE Keeps
  <1>1. /\ TypeOK /\ TypeOK' /\ task[t].pc = "lock" /\ ~buf[task[t].bh].lock
        /\ UNCHANGED <<request, queue, hd, wild>> /\ task[t] \in Calls
    BY DEF LockBuffer, At, IInv, TypeOK
  <1>2. PICK b \in Buffers : task[t].bh = b /\ task[t].rw \in {READ, WRITE}
    BY <1>1 DEF IInv, HasBuffer, Masked, Calls
  <1>3. WholeBlocks'
    BY <1>1, TaskMoves, WholeSame DEF DiskInv
  <1>4. CASE buf' = [buf EXCEPT ![b].lock = FALSE]
    <2>1. buf' = buf
      BY <1>1, <1>2, <1>4 DEF TypeOK, Heads
    <2>2. (\A a \in Buffers : Kept(a)) /\ WrittenOut'
      BY <2>1, <1>1, WrittenSame DEF Kept, QueuedFor, DiskInv
    <2> QED
      BY <2>2, <1>1, <1>3, Still
  <1>5. CASE ~NothingToDo(task[t]) /\ buf' = [buf EXCEPT ![b].lock = TRUE]
    <2>1. /\ \A a \in Buffers : a # b => Kept(a)
          /\ Faithful(b)' /\ WrittenOut' /\ QueuedFor(b)' = QueuedFor(b)
          /\ Turns(b, Buffer'[b].use, Buffer[b].dirt, Buffer[b].uptodate, Buffer[b].id)
          /\ Buffer'[b].same = Buffer[b].same
      BY <1>1, <1>2, <1>5, OnlyLock
    <2>2. QueuedFor(b) = {} /\ buf'[b].lock
      BY <1>1, <1>2, <1>5 DEF IInv, LockOwned, TypeOK, Heads
    <2>3. Buffer[b].use = "free" /\ Buffer'[b].use = "held"
      BY <1>1, <1>2, <2>1, <2>2, BufferIs, BufferIsNext DEF BufferShown
    <2>4. Buffer[b].dirt \/ ~Buffer[b].uptodate
      BY <1>1, <1>2, <1>5, BufferIs DEF BufferShown, NothingToDo
    <2>5. Disk!Take(b)
      BY <1>1, <1>2, <2>1, <2>3, <2>4, TakeStep
    <2> QED
      BY <1>1, <1>2, <1>3, <2>1, <2>5, One DEF Disk!Next
  <1> QED
    BY <1>2, <1>4, <1>5 DEF LockBuffer, Unlock

(* A read-ahead that finds no slot. *)
LEMMA GiveUpAheadDisk == ASSUME IInv, IInv', DiskInv, NEW t \in Tasks, GiveUpAhead(t) PROVE Keeps
  <1>1. /\ TypeOK /\ TypeOK' /\ task[t].pc = "scan" /\ buf' = [buf EXCEPT ![task[t].bh].lock = FALSE]
        /\ UNCHANGED <<request, queue, hd, wild>> /\ task[t] \in Calls
    BY DEF GiveUpAhead, At, Unlock, IInv, TypeOK
  <1>2. WholeBlocks'
    BY <1>1, TaskMoves, WholeSame DEF DiskInv
  <1>3. CASE task[t].bh = NoBuf
    <2>1. buf' = buf
      BY <1>1, <1>3, NoBufIsNone DEF TypeOK
    <2>2. (\A a \in Buffers : Kept(a)) /\ WrittenOut'
      BY <2>1, <1>1, WrittenSame DEF Kept, QueuedFor, DiskInv
    <2> QED
      BY <2>2, <1>1, <1>2, Still
  <1>4. ASSUME NEW b \in Buffers, b = task[t].bh PROVE Keeps
    <2>1. /\ \A a \in Buffers : a # b => Kept(a)
          /\ Faithful(b)' /\ WrittenOut' /\ QueuedFor(b)' = QueuedFor(b)
          /\ Turns(b, Buffer'[b].use, Buffer[b].dirt, Buffer[b].uptodate, Buffer[b].id)
          /\ Buffer'[b].same = Buffer[b].same
      BY <1>1, <1>4, OnlyLock
    <2>2. t \in Preparing(b)
      BY <1>1, <1>4 DEF Preparing
    <2>3. QueuedFor(b) = {} /\ buf[b].lock /\ ~buf'[b].lock
      BY <1>1, <1>4, <2>2 DEF IInv, LockOwned, TypeOK, Heads
    <2>4. Buffer[b].use = "held" /\ Buffer'[b].use = "free"
      BY <1>1, <1>4, <2>1, <2>3, BufferIs, BufferIsNext DEF BufferShown
    <2>5. Disk!GiveUp(b)
      BY <1>1, <1>4, <2>1, <2>4, GiveUpStep
    <2> QED
      BY <1>1, <1>2, <1>4, <2>1, <2>5, One DEF Disk!Next
  <1> QED
    BY <1>1, <1>3, <1>4 DEF Calls

(* The slot that is filled is in no queue yet; for a buffer, it is for a whole block. *)
LEMMA FillRequestDisk == ASSUME IInv, IInv', DiskInv, NEW t \in Tasks, FillRequest(t) PROVE Keeps
  <1>1. /\ TypeOK /\ TypeOK' /\ task[t].pc = "scan" /\ queue \in Seq(Slots)
        /\ UNCHANGED <<current, wq, tmp, buf, queue, hd, wild>> /\ task[t] \in Calls
    BY DEF FillRequest, At, IInv, TypeOK
  <1> DEFINE Fills(s, r) ==
          /\ request' = [request EXCEPT ![s] = r]
          /\ r.nr = IF task[t].bh = NoBuf THEN PageSectors ELSE BlockSectors
          /\ task' = [task EXCEPT ![t].slot = s, ![t].pc = "add"]
  <1>a. PICK s \in Free(task[t]) : \E r : Fills(s, r)
    BY DEF FillRequest
  <1>2. PICK r : Fills(s, r)
    BY <1>a
  <1>3. s \in Slots /\ ~request[s].busy
    BY <1>a, WriteSlotsAreSlots DEF Free
  <1>4. s \notin ToSet(queue) /\ \A u \in Tasks : Adding(u) => task[u].slot # s
    BY <1>3 DEF IInv, SlotsAccounted
  <1>5. /\ \A x \in Slots : request'[x] = IF x = s THEN r ELSE request[x]
        /\ \A u \in Tasks : u # t => task'[u] = task[u]
        /\ task'[t].slot = s /\ task'[t].bh = task[t].bh
    BY <1>1, <1>2, <1>3 DEF TypeOK, Calls
  <1>6. ToSet(queue) \subseteq Slots
    BY <1>1 DEF ToSet
  <1>7. \A a \in Buffers : Kept(a)
    BY <1>1, <1>4, <1>5, <1>6 DEF Kept, QueuedFor
  <1>8. WrittenOut'
    <2>1. queue # <<>> => Head(queue) \in ToSet(queue)
      BY <1>1 DEF ToSet
    <2> QED
      BY <1>1, <1>4, <1>5, <1>6, <2>1, WrittenSame DEF DiskInv
  <1>9. WholeBlocks'
    <2> SUFFICES ASSUME NEW u \in Tasks, Adding(u)', task'[u].bh # NoBuf
                 PROVE  request'[task'[u].slot].nr = BlockSectors
      BY DEF WholeBlocks
    <2>1. CASE u = t
      BY <2>1, <1>2, <1>3, <1>5
    <2>2. CASE u # t
      <3>1. Adding(u) /\ task'[u] = task[u] /\ task[u].slot \in Slots
        BY <2>2, <1>5 DEF Adding, IInv, FilledSlot
      <3> QED
        BY <3>1, <1>4, <1>5 DEF DiskInv, WholeBlocks
    <2> QED
      BY <2>1, <2>2
  <1> QED
    BY <1>1, <1>7, <1>8, <1>9, Still

(* The buffer is clean now, and differs in sectors still to come. *)
LEMMA AddRequestDisk ==
  ASSUME IInv, IInv', DiskInv, HandlerHasRequest, NEW t \in Tasks, AddRequest(t)
  PROVE  Keeps
  <1>1. PICK s : s = task[t].slot
    OBVIOUS
  <1>2. /\ TypeOK /\ TypeOK' /\ task[t].pc = "add" /\ ~hd.driving /\ task[t] \in Calls
        /\ UNCHANGED <<schedVars, request, hd, wild>> /\ queue \in Seq(Slots)
        /\ buf' = IF task[t].bh = NoBuf THEN buf ELSE [buf EXCEPT ![task[t].bh].dirt = FALSE]
    BY DEF AddRequest, At, Live, IInv, TypeOK
  <1>3. s \in Slots /\ request[s].bh = task[t].bh /\ ToSet(queue') = ToSet(queue) \union {s}
    BY <1>1, <1>2, QueueAfter DEF IInv, FilledSlot, Adding
  <1>4. ToSet(queue) \subseteq Slots
    BY <1>2 DEF ToSet
  <1>5. \A u \in Tasks : Adding(u)' => task'[u] = task[u]
    <2>1. task'[t].pc # "add" /\ \A u \in Tasks : u # t => task'[u] = task[u]
      BY <1>2, Others DEF AddRequest, Goto, Return, User, TypeOK, Calls
    <2> QED
      BY <2>1 DEF Adding
  <1>6. WholeBlocks'
    BY <1>2, <1>5, WholeSame DEF DiskInv
  <1>7. \A a \in Buffers : a # task[t].bh => Kept(a)
    BY <1>2, <1>3 DEF Kept, QueuedFor, TypeOK
  <1>8. WrittenOut'
    <2>1. CASE queue = <<>>
      BY <2>1, <1>2 DEF HandlerHasRequest, WrittenOut
    <2>2. CASE queue # <<>>
      <3>1. PICK i \in Stops(request[s]) : queue' = InsertAt(queue, i + 1, s)
        BY <2>2, <1>1 DEF AddRequest, Link
      <3>2. i + 1 \in 2 .. Len(queue) + 1
        BY <2>2, <1>2, <3>1 DEF Stops
      <3>3. Head(queue') = Head(queue) /\ Head(queue) \in ToSet(queue)
        BY <2>2, <1>2, <1>3, <3>1, <3>2, InsertHead DEF ToSet
      <3>4. ASSUME NEW b \in Buffers, Current.bh = b PROVE buf'[b] = buf[b]
        <4>1. Head(queue) \in QueuedFor(b)
          BY <3>3, <3>4 DEF QueuedFor, Current
        <4>2. Preparing(b) = {}
          BY <4>1 DEF IInv, LockOwned
        <4>3. task[t].bh # b
          BY <4>2, <1>2 DEF Preparing
        <4> QED
          BY <4>3, <1>7 DEF Kept
      <3> QED
        BY <2>2, <1>2, <3>3, <3>4, WrittenSame DEF DiskInv
    <2> QED
      BY <2>1, <2>2
  <1>9. CASE task[t].bh = NoBuf
    <2>1. \A a \in Buffers : Kept(a)
      BY <1>9, <1>7, NoBufIsNone
    <2> QED
      BY <2>1, <1>2, <1>6, <1>8, Still
  <1>10. ASSUME NEW b \in Buffers, b = task[t].bh PROVE Keeps
    <2>1. /\ buf'[b].lock = buf[b].lock /\ buf'[b].dirt = FALSE /\ buf'[b].uptodate = buf[b].uptodate
          /\ buf'[b].id = buf[b].id /\ buf'[b].stale = buf[b].stale /\ buf[b].stale \subseteq Sectors
      BY <1>2, <1>10, NoBufIsNone DEF TypeOK, Heads
    <2>2. QueuedFor(b) = {} /\ QueuedFor(b)' = {s} /\ buf[b].lock
      <3>1. t \in Preparing(b)
        BY <1>2, <1>10 DEF Preparing
      <3>2. QueuedFor(b) = {} /\ buf[b].lock
        BY <3>1 DEF IInv, LockOwned
      <3> QED
        BY <3>2, <1>2, <1>3, <1>10 DEF QueuedFor
    <2>3. request[s].nr = BlockSectors
      BY <1>1, <1>2, <1>10, NoBufIsNone DEF DiskInv, WholeBlocks, Adding
    <2>4. Faithful(b)'
      <3>1. \A x \in Sectors : Sector(BlockSectors) <= x
        BY Constants DEF Sectors, Sector
      <3> QED
        BY <3>1, <1>2, <2>1, <2>2, <2>3 DEF Faithful
    <2>5. /\ Buffer[b].use = "held"
          /\ Turns(b, "queued", FALSE, Buffer[b].uptodate, Buffer[b].id)
          /\ Buffer'[b].same = Buffer[b].same
      <3>1. BufferShown /\ BufferShown'
        BY <1>2, BufferIs, BufferIsNext
      <3>2. Buffer[b].use = "held"
        BY <2>2, <3>1 DEF BufferShown
      <3>3. Buffer'[b].use = "queued"
        BY <2>1, <2>2, <3>1 DEF BufferShown
      <3>4. /\ Buffer'[b].dirt = FALSE /\ Buffer'[b].uptodate = Buffer[b].uptodate
            /\ Buffer'[b].id = Buffer[b].id /\ Buffer'[b].same = Buffer[b].same
        BY <2>1, <3>1 DEF BufferShown
      <3>5. \A a \in Buffers : a # b => Kept(a)
        BY <1>7, <1>10
      <3> QED
        BY <3>2, <3>3, <3>4, <3>5, Zenon DEF Turns
    <2>6. Disk!Queue(b)
      BY <1>2, <2>5, QueueStep
    <2> QED
      BY <1>2, <1>6, <1>7, <1>8, <1>10, <2>4, <2>6, One DEF Disk!Next
  <1> QED
    BY <1>2, <1>9, <1>10 DEF Calls

(* A buffer the callers change, while the queue stands still. *)
LEMMA CallerOn ==
  ASSUME TypeOK, DiskInv, NEW b \in Buffers, NEW h, buf' = [buf EXCEPT ![b] = h],
         UNCHANGED <<request, queue, hd, task>>,
         h.dirt \/ QueuedFor(b) = {}
  PROVE  /\ \A a \in Buffers : a # b => Kept(a)
         /\ buf'[b] = h /\ QueuedFor(b)' = QueuedFor(b) /\ WrittenOut' /\ WholeBlocks'
  <1>1. /\ \A a \in Buffers : a # b => buf'[a] = buf[a]
        /\ buf'[b] = h
    BY DEF TypeOK
  <1>2. \A a \in Buffers : QueuedFor(a)' = QueuedFor(a)
    BY DEF QueuedFor
  <1>3. WrittenOut'
    <2>1. queue # <<>> /\ Current.bh = b => Head(queue) \in QueuedFor(b)
      BY DEF QueuedFor, ToSet, Current, TypeOK
    <2>2. ASSUME NEW a \in Buffers, queue # <<>>, Current.bh = a
          PROVE  buf'[a].dirt \/ (buf'[a].dirt = buf[a].dirt /\ buf'[a].stale = buf[a].stale)
      BY <1>1, <2>1, <2>2
    <2>3. hd' = hd /\ queue' = queue /\ request' = request /\ WrittenOut
      BY DEF DiskInv
    <2> QED
      BY <2>2, <2>3 DEF WrittenOut, Current, Sector
  <1>4. WholeBlocks'
    BY DEF DiskInv, WholeBlocks, Adding
  <1> QED
    BY <1>1, <1>2, <1>3, <1>4 DEF Kept

(* A buffer that is not locked has no request. *)
LEMMA FreeBuffer ==
  ASSUME IInv, NEW b \in Buffers, ~buf[b].lock
  PROVE  QueuedFor(b) = {}
  BY DEF IInv, LockOwned

(* A block has a sector. *)
LEMMA SectorsAre == Sectors # {}
  <1>1. 0 \in Sectors
    BY Constants DEF Sectors
  <1> QED
    BY <1>1

(* The callers change a buffer. *)
LEMMA ModifyDisk == ASSUME IInv, IInv', DiskInv, NEW t \in Tasks, Modify(t) PROVE Keeps
  <1>1. TypeOK /\ TypeOK' /\ UNCHANGED <<request, queue, hd, task>>
    BY DEF Modify, IInv
  <1>2. PICK b \in Buffers, whole \in BOOLEAN :
          /\ whole => ~buf[b].lock
          /\ buf' = [buf EXCEPT ![b] = [@ EXCEPT !.uptodate = whole \/ buf[b].uptodate,
                                                 !.dirt = TRUE, !.stale = Sectors]]
    BY DEF Modify
  <1> DEFINE u == whole \/ buf[b].uptodate
             h == [buf[b] EXCEPT !.uptodate = u, !.dirt = TRUE, !.stale = Sectors]
  <1>3. buf' = [buf EXCEPT ![b] = h]
    BY <1>1, <1>2 DEF TypeOK
  <1> HIDE DEF u
  <1>4. /\ h.lock = buf[b].lock /\ h.id = buf[b].id /\ h.uptodate = u /\ h.dirt = TRUE
        /\ h.stale = Sectors
    BY <1>1 DEF TypeOK, Heads
  <1> HIDE DEF h
  <1>5. /\ \A a \in Buffers : a # b => Kept(a)
        /\ buf'[b] = h /\ QueuedFor(b)' = QueuedFor(b) /\ WrittenOut' /\ WholeBlocks'
    BY <1>1, <1>3, <1>4, CallerOn
  <1>6. Faithful(b)'
    BY <1>4, <1>5 DEF Faithful
  <1>7. /\ Turns(b, Buffer[b].use, TRUE, whole \/ Buffer[b].uptodate, Buffer[b].id)
        /\ Buffer'[b].same = FALSE /\ (whole => Buffer[b].use = "free")
    <2>1. buf'[b].stale # {}
      BY <1>4, <1>5, SectorsAre
    <2>2. Buffer'[b].same = FALSE /\ (whole => Buffer[b].use = "free") /\ Buffer'[b].use = Buffer[b].use
      BY <2>1, <1>1, <1>2, <1>4, <1>5, BufferIs, BufferIsNext DEF BufferShown
    <2>3. Buffer'[b].uptodate = (whole \/ Buffer[b].uptodate)
      BY <1>1, <1>4, <1>5, BufferIs, BufferIsNext DEF BufferShown, u
    <2> QED
      BY <2>2, <2>3, <1>1, <1>4, <1>5, BufferIs, BufferIsNext DEF Turns, BufferShown
  <1>8. Disk!Modify(b, whole)
    BY <1>1, <1>7, ModifyStep
  <1> QED
    BY <1>1, <1>5, <1>6, <1>8, One DEF Disk!Next

(* They have no more use for what is in it. *)
LEMMA ForgetDisk == ASSUME IInv, IInv', DiskInv, NEW t \in Tasks, Forget(t) PROVE Keeps
  <1>1. TypeOK /\ TypeOK' /\ UNCHANGED <<request, queue, hd, task>>
    BY DEF Forget, IInv
  <1>2. PICK b \in Buffers :
          /\ ~buf[b].lock
          /\ buf' = [buf EXCEPT ![b] = [@ EXCEPT !.uptodate = FALSE, !.dirt = FALSE]]
    BY DEF Forget
  <1> DEFINE h == [buf[b] EXCEPT !.uptodate = FALSE, !.dirt = FALSE]
  <1>3. buf' = [buf EXCEPT ![b] = h]
    BY <1>1, <1>2 DEF TypeOK
  <1>4. /\ h.lock = buf[b].lock /\ h.id = buf[b].id /\ h.uptodate = FALSE /\ h.dirt = FALSE
        /\ h.stale = buf[b].stale /\ QueuedFor(b) = {}
    BY <1>1, <1>2, FreeBuffer DEF TypeOK, Heads
  <1> HIDE DEF h
  <1>5. /\ \A a \in Buffers : a # b => Kept(a)
        /\ buf'[b] = h /\ QueuedFor(b)' = QueuedFor(b) /\ WrittenOut' /\ WholeBlocks'
    BY <1>1, <1>3, <1>4, CallerOn
  <1>6. Faithful(b)'
    BY <1>4, <1>5 DEF Faithful
  <1>7. /\ Turns(b, "free", FALSE, FALSE, Buffer[b].id)
        /\ Buffer'[b].same = Buffer[b].same /\ Buffer[b].use = "free"
    BY <1>1, <1>2, <1>4, <1>5, BufferIs, BufferIsNext DEF Turns, BufferShown
  <1>8. Disk!Forget(b)
    BY <1>1, <1>7, ForgetStep
  <1> QED
    BY <1>1, <1>5, <1>6, <1>8, One DEF Disk!Next

(* They take it for another block. *)
LEMMA ReuseDisk == ASSUME IInv, IInv', DiskInv, NEW t \in Tasks, Reuse(t) PROVE Keeps
  <1>1. TypeOK /\ TypeOK' /\ UNCHANGED <<request, queue, hd, task>>
    BY DEF Reuse, IInv
  <1>2. PICK b \in Buffers, id \in BlockIds :
          /\ ~buf[b].lock /\ ~buf[b].dirt
          /\ buf' = [buf EXCEPT ![b] = [@ EXCEPT !.id = id, !.uptodate = FALSE, !.stale = Sectors]]
    BY DEF Reuse
  <1> DEFINE h == [buf[b] EXCEPT !.id = id, !.uptodate = FALSE, !.stale = Sectors]
  <1>3. buf' = [buf EXCEPT ![b] = h]
    BY <1>1, <1>2 DEF TypeOK
  <1>4. /\ h.lock = buf[b].lock /\ h.id = id /\ h.uptodate = FALSE /\ h.dirt = buf[b].dirt
        /\ h.stale = Sectors /\ QueuedFor(b) = {}
    BY <1>1, <1>2, FreeBuffer DEF TypeOK, Heads
  <1> HIDE DEF h
  <1>5. /\ \A a \in Buffers : a # b => Kept(a)
        /\ buf'[b] = h /\ QueuedFor(b)' = QueuedFor(b) /\ WrittenOut' /\ WholeBlocks'
    BY <1>1, <1>3, <1>4, CallerOn
  <1>6. Faithful(b)'
    BY <1>4, <1>5 DEF Faithful
  <1>7. /\ Turns(b, "free", Buffer[b].dirt, FALSE, id)
        /\ Buffer'[b].same = FALSE /\ Buffer[b].use = "free" /\ ~Buffer[b].dirt
    <2>1. buf'[b].stale # {}
      BY <1>4, <1>5, SectorsAre
    <2>2. Buffer'[b].same = FALSE
      BY <2>1, <1>1, BufferIsNext DEF BufferShown
    <2> QED
      BY <2>2, <1>1, <1>2, <1>4, <1>5, BufferIs, BufferIsNext DEF Turns, BufferShown
  <1>8. Disk!Reuse(b, id)
    BY <1>1, <1>7, ReuseStep
  <1> QED
    BY <1>1, <1>5, <1>6, <1>8, One DEF Disk!Next
-----------------------------------------------------------------------------
(* The drive.  The buffers bs are buf but for what the transfer did. *)
OnCurrent(bs) ==
  /\ bs \in [Buffers -> Heads]
  /\ \A a \in Buffers : /\ a # Current.bh => bs[a] = buf[a]
                        /\ bs[a].dirt = buf[a].dirt /\ bs[a].id = buf[a].id
                        /\ bs[a].lock = buf[a].lock /\ bs[a].uptodate = buf[a].uptodate

(* Sectors copied, or not. *)
LEMMA StaleOn ==
  ASSUME IInv, queue # <<>>, NEW S \in SUBSET Sectors
  PROVE  /\ OnCurrent(WithStale(S)) /\ OnCurrent(buf)
         /\ \A b \in Buffers : Current.bh = b => WithStale(S)[b].stale = S
  <1>1. buf \in [Buffers -> Heads] /\ (Current.bh # NoBuf => Current.bh \in Buffers)
    BY CurrentLeft DEF IInv, TypeOK
  <1>2. OnCurrent(buf)
    BY <1>1 DEF OnCurrent
  <1>3. CASE Current.bh = NoBuf
    BY <1>2, <1>3, NoBufIsNone DEF WithStale
  <1>4. ASSUME NEW b \in Buffers, b = Current.bh
        PROVE  OnCurrent(WithStale(S)) /\ WithStale(S)[b].stale = S
    <2> DEFINE h == [buf[b] EXCEPT !.stale = S]
    <2>1. /\ h \in Heads /\ h.dirt = buf[b].dirt /\ h.id = buf[b].id /\ h.lock = buf[b].lock
          /\ h.uptodate = buf[b].uptodate /\ h.stale = S
      BY <1>1 DEF Heads
    <2>2. WithStale(S) = [buf EXCEPT ![b] = h]
      BY <1>1, <1>4, NoBufIsNone DEF WithStale
    <2> HIDE DEF h
    <2>3. WithStale(S) \in [Buffers -> Heads] /\ WithStale(S)[b] = h
          /\ \A a \in Buffers : a # b => WithStale(S)[a] = buf[a]
      BY <2>1, <2>2, <1>1
    <2> QED
      BY <2>1, <2>3, <1>4 DEF OnCurrent
  <1> QED
    BY <1>1, <1>2, <1>3, <1>4

(* The buffer of the current request, and no other, is queued for it. *)
LEMMA HeadQueued ==
  ASSUME IInv, queue # <<>>, NEW b \in Buffers, Current.bh = b
  PROVE  QueuedFor(b) = {Head(queue)} /\ buf[b].lock
  <1>1. Head(queue) \in ToSet(queue)
    BY DEF IInv, TypeOK, ToSet
  <1>2. Head(queue) \in QueuedFor(b)
    BY <1>1 DEF QueuedFor, Current
  <1> QED
    BY <1>2 DEF IInv, LockOwned

(* Sectors of the current request are transferred. *)
LEMMA TransferDisk ==
  ASSUME IInv, IInv', DiskInv, queue # <<>>, NEW r, NEW bs, OnCurrent(bs),
         request' = [request EXCEPT ![Head(queue)] = r], r.bh = Current.bh,
         \A b \in Buffers :
           Current.bh = b /\ ~buf[b].dirt => \A x \in bs[b].stale : Sector(r.nr) <= x,
         buf' = bs, queue' = queue, task' = task, WrittenOut'
  PROVE  Keeps
  <1>1. PICK h \in Slots : h = Head(queue) /\ Current = request[h]
    BY CurrentLeft
  <1>2. TypeOK /\ TypeOK' /\ queue \in Seq(Slots) /\ h \in ToSet(queue) /\ ToSet(queue) \subseteq Slots
    BY <1>1 DEF IInv, TypeOK, ToSet
  <1>3. \A s \in Slots : request'[s] = IF s = h THEN r ELSE request[s]
    BY <1>1, <1>2 DEF TypeOK
  <1>4. \A a \in Buffers : QueuedFor(a)' = QueuedFor(a)
    BY <1>1, <1>2, <1>3 DEF QueuedFor
  <1>5. \A a \in Buffers : a # Current.bh => Kept(a)
    BY <1>1, <1>2, <1>3, <1>4 DEF OnCurrent, Kept, QueuedFor
  <1>6. WholeBlocks'
    <2>1. \A t \in Tasks : Adding(t) => task[t].slot \in Slots /\ task[t].slot # h
      BY <1>1, <1>2 DEF IInv, FilledSlot, SlotsAccounted
    <2> QED
      BY <2>1, <1>3, WholeSame DEF DiskInv, Adding
  <1>7. CASE Current.bh = NoBuf
    <2>1. \A a \in Buffers : Kept(a)
      BY <1>5, <1>7, NoBufIsNone
    <2> QED
      BY <2>1, <1>2, <1>6, Still
  <1>8. ASSUME NEW b \in Buffers, Current.bh = b PROVE Keeps
    <2>1. QueuedFor(b) = {h} /\ QueuedFor(b)' = {h} /\ buf[b].lock /\ buf'[b].lock
      BY <1>1, <1>4, <1>8, HeadQueued DEF OnCurrent
    <2>2. /\ buf'[b].dirt = buf[b].dirt /\ buf'[b].uptodate = buf[b].uptodate
          /\ buf'[b].id = buf[b].id /\ buf'[b].stale = bs[b].stale
      BY DEF OnCurrent
    <2>3. Faithful(b)'
      <3>1. ~buf'[b].dirt => \A x \in buf'[b].stale : Sector(request'[h].nr) <= x
        BY <1>1, <1>3, <1>8, <2>2
      <3> QED
        BY <3>1, <2>1 DEF Faithful, Sector
    <2>4. /\ Buffer[b].use = "queued"
          /\ Turns(b, "queued", Buffer[b].dirt, Buffer[b].uptodate, Buffer[b].id)
      <3>1. Buffer[b].use = "queued" /\ Buffer'[b].use = "queued"
        BY <1>2, <2>1, BufferIs, BufferIsNext DEF BufferShown
      <3> QED
        BY <3>1, <1>2, <1>5, <1>8, <2>2, BufferIs, BufferIsNext DEF Turns, BufferShown
    <2>5. Disk!Transfer(b)
      BY <1>2, <2>4, TransferStep
    <2> QED
      BY <1>2, <1>5, <1>6, <1>8, <2>3, <2>5, One DEF Disk!Next
  <1> QED
    BY <1>7, <1>8, CurrentLeft

(* end_request: what was changed meanwhile is dirty; the rest is on the disk. *)
LEMMA EndRequestDisk ==
  ASSUME IInv, IInv', DiskInv, queue # <<>>, NEW r, NEW rs, NEW bs, OnCurrent(bs),
         NEW up \in BOOLEAN,
         rs = request \/ rs = [request EXCEPT ![Head(queue)] = r], EndRequest(rs, bs, up),
         \A b \in Buffers : Current.bh = b /\ up /\ ~buf[b].dirt => bs[b].stale = {},
         task' = task, WrittenOut'
  PROVE  Keeps
  <1>1. PICK h \in Slots : h = Head(queue) /\ Current = request[h]
    BY CurrentLeft
  <1>2. TypeOK /\ TypeOK' /\ queue \in Seq(Slots) /\ Once(queue) /\ ToSet(queue) \subseteq Slots
    BY DEF IInv, TypeOK, SlotsAccounted, Once, ToSet
  <1>3. ToSet(queue') = ToSet(queue) \ {h} /\ h \in ToSet(queue)
    BY <1>1, <1>2, TailOnce DEF EndRequest
  <1>4. \A s \in Slots : s # h => request'[s] = request[s]
    BY <1>1, <1>2 DEF EndRequest, TypeOK
  <1>5. \A a \in Buffers : QueuedFor(a)' = QueuedFor(a) \ {h}
    BY <1>2, <1>3, <1>4 DEF QueuedFor
  <1>6. \A a \in Buffers : a # Current.bh => h \notin QueuedFor(a)
    BY <1>1 DEF QueuedFor
  <1>7. \A a \in Buffers : a # Current.bh => buf'[a] = buf[a]
    BY DEF OnCurrent, EndRequest
  <1>8. \A a \in Buffers : a # Current.bh => Kept(a)
    <2>1. \A a \in Buffers : QueuedFor(a) \subseteq Slots
      BY <1>2 DEF QueuedFor
    <2> QED
      BY <2>1, <1>4, <1>5, <1>6, <1>7 DEF Kept
  <1>9. WholeBlocks'
    <2>1. \A t \in Tasks : Adding(t) => task[t].slot \in Slots /\ task[t].slot # h
      BY <1>3 DEF IInv, FilledSlot, SlotsAccounted
    <2> QED
      BY <2>1, <1>4, WholeSame DEF DiskInv, Adding
  <1>10. CASE Current.bh = NoBuf
    <2>1. \A a \in Buffers : Kept(a)
      BY <1>8, <1>10, NoBufIsNone
    <2> QED
      BY <2>1, <1>2, <1>9, Still
  <1>11. ASSUME NEW b \in Buffers, Current.bh = b PROVE Keeps
    <2>1. QueuedFor(b) = {h} /\ QueuedFor(b)' = {} /\ buf[b].lock
      BY <1>1, <1>5, <1>11, HeadQueued
    <2>2. PICK v \in Heads : /\ buf' = [bs EXCEPT ![b] = v] /\ ~v.lock /\ v.uptodate = up
                             /\ v.dirt = bs[b].dirt /\ v.id = bs[b].id /\ v.stale = bs[b].stale
      <3> DEFINE v == [bs[b] EXCEPT !.uptodate = up, !.lock = FALSE]
      <3>1. bs[b] \in Heads /\ bs \in [Buffers -> Heads]
        BY DEF OnCurrent
      <3>2. /\ v \in Heads /\ ~v.lock /\ v.uptodate = up
            /\ v.dirt = bs[b].dirt /\ v.id = bs[b].id /\ v.stale = bs[b].stale
        BY <3>1 DEF Heads
      <3>3. buf' = [bs EXCEPT ![b] = v]
        BY <3>1, <1>11, NoBufIsNone DEF EndRequest
      <3> HIDE DEF v
      <3> QED
        BY <3>2, <3>3
    <2>3. /\ ~buf'[b].lock /\ buf'[b].uptodate = up /\ buf'[b].dirt = buf[b].dirt
          /\ buf'[b].id = buf[b].id /\ buf'[b].stale = bs[b].stale
      BY <2>2 DEF OnCurrent
    <2>4. Faithful(b)'
      <3>1. up /\ ~buf'[b].dirt => buf'[b].stale = {}
        BY <2>3, <1>11
      <3> QED
        BY <3>1, <2>1, <2>3 DEF Faithful
    <2>5. Buffer[b].use = "queued" /\ Buffer'[b].use = "free"
      BY <1>2, <2>1, <2>3, BufferIs, BufferIsNext DEF BufferShown
    <2>6. Turns(b, "free", Buffer[b].dirt, up, Buffer[b].id)
      BY <2>5, <1>2, <1>8, <1>11, <2>3, BufferIs, BufferIsNext DEF Turns, BufferShown
    <2>7. up /\ ~Buffer[b].dirt => Buffer'[b].same
      BY <1>2, <2>3, <1>11, BufferIs, BufferIsNext DEF BufferShown
    <2>8. Disk!End(b)
      BY <1>2, <2>5, <2>6, <2>7, EndStep
    <2> QED
      BY <1>2, <1>8, <1>9, <1>11, <2>4, <2>8, One DEF Disk!Next
  <1> QED
    BY <1>10, <1>11, CurrentLeft

(* An error: the same sectors are still to come, or the buffer is not up to date. *)
LEMMA BadRwIntrDisk ==
  ASSUME IInv, IInv', DiskInv, queue # <<>>, NEW bs, OnCurrent(bs), BadRwIntr(bs),
         \A b \in Buffers : Current.bh = b =>
           \A x \in bs[b].stale : x \in buf[b].stale \/ x = Sector(Current.nr),
         task' = task, WrittenOut'
  PROVE  Keeps
  <1>1. PICK h \in Slots : h = Head(queue) /\ Current = request[h]
    BY CurrentLeft
  <1>2. PICK r : /\ [request EXCEPT ![Head(queue)].errors = @ + 1] = [request EXCEPT ![Head(queue)] = r]
                 /\ r.bh = Current.bh /\ r.nr = Current.nr
    <2> DEFINE r == [request[h] EXCEPT !.errors = @ + 1]
    <2>1. request \in [Slots -> Requests] /\ request[h] \in Requests
      BY DEF IInv, TypeOK
    <2>2. [request EXCEPT ![Head(queue)].errors = @ + 1] = [request EXCEPT ![Head(queue)] = r]
      BY <1>1, <2>1
    <2>3. r.bh = Current.bh /\ r.nr = Current.nr
      BY <1>1, <2>1 DEF Requests
    <2> QED
      BY <2>2, <2>3
  <1> DEFINE rs == [request EXCEPT ![Head(queue)] = r]
  <1>3. CASE EndRequest(rs, bs, FALSE)
    BY <1>3, EndRequestDisk
  <1>4. CASE request' = rs /\ buf' = bs /\ queue' = queue
    <2>1. ASSUME NEW b \in Buffers, Current.bh = b, ~buf[b].dirt, NEW x \in bs[b].stale
          PROVE  Sector(r.nr) <= x
      <3>1. h \in QueuedFor(b)
        BY <1>1, <2>1, HeadQueued
      <3>2. \A y \in buf[b].stale : Sector(Current.nr) <= y
        BY <1>1, <2>1, <3>1 DEF DiskInv, Faithful
      <3>3. Sector(Current.nr) <= Sector(Current.nr)
        BY CurrentLeft, Constants DEF Sector
      <3> QED
        BY <2>1, <3>2, <3>3, <1>2
    <2> QED
      BY <1>2, <1>4, <2>1, TransferDisk
  <1> QED
    BY <1>2, <1>3, <1>4 DEF BadRwIntr

(* What the buffer of the current request differs in. *)
LEMMA CurrentStale ==
  ASSUME IInv, DiskInv, queue # <<>>, NEW b \in Buffers, Current.bh = b, ~buf[b].dirt,
         NEW x \in buf[b].stale
  PROVE  Sector(Current.nr) <= x /\ x \in 0 .. BlockSectors - 1
  <1>1. Head(queue) \in QueuedFor(b) /\ Current = request[Head(queue)]
    BY HeadQueued, CurrentLeft
  <1>2. x \in 0 .. BlockSectors - 1
    BY DEF IInv, TypeOK, Heads, Sectors
  <1> QED
    BY <1>1, <1>2 DEF DiskInv, Faithful

(* What is copied or not is of the block. *)
LEMMA CopiedOn ==
  ASSUME IInv, queue # <<>>, NEW n
  PROVE  /\ OnCurrent(Copied(n))
         /\ \A b \in Buffers : Current.bh = b => Copied(n)[b].stale = buf[b].stale \ {Sector(n)}
  <1>1. CASE Current.bh = NoBuf
    <2>1. Copied(n) = buf /\ OnCurrent(buf)
      BY <1>1, StaleOn DEF Copied, WithStale
    <2> QED
      BY <2>1, <1>1, NoBufIsNone
  <1>2. CASE Current.bh \in Buffers
    <2>1. buf[Current.bh].stale \ {Sector(n)} \in SUBSET Sectors
      BY <1>2 DEF IInv, TypeOK, Heads
    <2> QED
      BY <2>1, StaleOn DEF Copied
  <1> QED
    BY <1>1, <1>2, CurrentLeft

(* So is the sector of a write that failed. *)
LEMMA NotCopiedOn ==
  ASSUME IInv, queue # <<>>
  PROVE  /\ OnCurrent(NotCopied(Current.nr))
         /\ \A b \in Buffers : Current.bh = b =>
              NotCopied(Current.nr)[b].stale = buf[b].stale \union {Sector(Current.nr)}
  <1>1. CASE Current.bh = NoBuf
    <2>1. NotCopied(Current.nr) = buf /\ OnCurrent(buf)
      BY <1>1, StaleOn DEF NotCopied, WithStale
    <2> QED
      BY <2>1, <1>1, NoBufIsNone
  <1>2. CASE Current.bh \in Buffers
    <2>1. buf[Current.bh].stale \union {Sector(Current.nr)} \in SUBSET Sectors
      BY <1>2, CurrentLeft, NoBufIsNone DEF IInv, TypeOK, Heads
    <2> QED
      BY <2>1, StaleOn DEF NotCopied
  <1> QED
    BY <1>1, <1>2, CurrentLeft

(* The commands and answers of the drive that transfer nothing. *)
LEMMA DriveStill ==
  ASSUME IInv, IInv', DiskInv,
         \/ NoRequest \/ ResetDrives \/ Recalibrate \/ StartRead
         \/ Recalibrated \/ DriveReset \/ ResetErrorNoRequest
  PROVE  Keeps
  <1>1. TypeOK /\ TypeOK' /\ buf' = buf /\ request' = request /\ queue' = queue /\ task' = task
    BY DEF IInv, NoRequest, ResetDrives, Recalibrate, StartRead, Recalibrated, DriveReset,
           ResetErrorNoRequest
  <1>2. \A a \in Buffers : Kept(a)
    BY <1>1 DEF Kept, QueuedFor
  <1>3. hd'.intr # "write_intr" \/ hd'.driving
    <2>1. hd \in Drives /\ \A h : [Issued(h) EXCEPT !.recalibrate = FALSE].intr = h
      BY <1>1 DEF TypeOK, Drives, Issued
    <2>2. [Specify(0) EXCEPT !.recalibrate = TRUE].intr = "reset_hd"
      BY <1>1, <2>1, Constants DEF Specify, Drives
    <2>3. CASE NoRequest \/ StartRead
      BY <2>3, <1>1, DriveAfter DEF NoRequest, StartRead
    <2>4. CASE ResetDrives \/ Recalibrate
      BY <2>4, <2>1, <2>2 DEF ResetDrives, Recalibrate
    <2>5. CASE Recalibrated \/ DriveReset
      BY <2>5, <1>1, DriveAfter DEF Recalibrated, DriveReset
    <2>6. CASE ResetErrorNoRequest
      BY <2>6 DEF ResetErrorNoRequest, Interrupt
    <2> QED
      BY <2>3, <2>4, <2>5, <2>6
  <1>4. WholeBlocks'
    BY <1>1, WholeSame DEF DiskInv, Adding
  <1> QED
    BY <1>1, <1>2, <1>3, <1>4, WrittenNot, Still

(* A request that is out of range, or fails. *)
LEMMA ErrorDisk ==
  ASSUME IInv, IInv', DiskInv, OutOfRange \/ NoDataRequest \/ TransferError \/ ResetError
  PROVE  Keeps
  <1>1. TypeOK /\ queue # <<>> /\ task' = task /\ hd \in Drives
    BY DEF IInv, TypeOK, OutOfRange, NoDataRequest, Transferring, Fit, TransferError, ResetError
  <1>2. hd'.intr # "write_intr" \/ hd'.driving
    <2>1. CASE OutOfRange \/ NoDataRequest
      BY <2>1, <1>1 DEF OutOfRange, NoDataRequest, Transferring, Fit, Driving, Drives
    <2>2. CASE TransferError \/ ResetError
      BY <2>2, <1>1, DriveAfter DEF TransferError, ResetError
    <2> QED
      BY <2>1, <2>2
  <1>3. WrittenOut'
    BY <1>2, WrittenNot
  <1>4. OnCurrent(buf)
    BY <1>1, StaleOn
  <1>5. CASE OutOfRange
    BY <1>1, <1>3, <1>4, <1>5, EndRequestDisk DEF OutOfRange
  <1>6. CASE BadRwIntr(buf)
    BY <1>1, <1>3, <1>4, <1>6, BadRwIntrDisk
  <1>7. CASE BadRwIntr(NotCopied(Current.nr))
    BY <1>1, <1>3, <1>7, NotCopiedOn, BadRwIntrDisk
  <1> QED
    BY <1>5, <1>6, <1>7 DEF NoDataRequest, TransferError, ResetError

(* One sector less is still to come. *)
LEMMA SectorsCount ==
  ASSUME NEW n \in Nat, NEW x \in 0 .. BlockSectors - 1
  PROVE  /\ x # Sector(n) /\ Sector(n) <= x => Sector(n - 1) <= x
         /\ Sector(1) <= x => x = Sector(1)
  BY Constants DEF Sector

(* The first sector of a write. *)
LEMMA StartWriteDisk == ASSUME IInv, IInv', DiskInv, StartWrite PROVE Keeps
  <1>1. /\ queue # <<>> /\ buf' = Copied(Current.nr) /\ hd' = Issued("write_intr")
        /\ request' = request /\ queue' = queue /\ task' = task
    BY DEF StartWrite, Transferring, Fit
  <1>2. /\ OnCurrent(Copied(Current.nr))
        /\ \A b \in Buffers : Current.bh = b =>
             Copied(Current.nr)[b].stale = buf[b].stale \ {Sector(Current.nr)}
    BY <1>1, CopiedOn
  <1>3. WrittenOut'
    BY <1>1, <1>2 DEF WrittenOut, Current, Sector
  <1>4. request' = [request EXCEPT ![Head(queue)] = Current]
    BY <1>1, CurrentLeft DEF IInv, TypeOK
  <1>5. \A b \in Buffers : Current.bh = b /\ ~buf[b].dirt =>
          \A x \in Copied(Current.nr)[b].stale : Sector(Current.nr) <= x
    BY <1>1, <1>2, CurrentStale
  <1> QED
    BY <1>1, <1>2, <1>3, <1>4, <1>5, TransferDisk

(* One sector of several. *)
LEMMA SectorDisk == ASSUME IInv, IInv', DiskInv, ReadSector \/ WriteSector PROVE Keeps
  <1>1. /\ queue # <<>> /\ Current.nr > 1 /\ queue' = queue /\ task' = task /\ hd' = hd
        /\ hd.intr \in {"read_intr", "write_intr"} /\ ~hd.driving
    BY DEF ReadSector, WriteSector, Interrupt, Live
  <1>2. Current \in Requests /\ Current.nr \in Nat /\ Current.nr - 1 \in Nat
    BY <1>1, CurrentLeft
  <1>3. PICK r : /\ request' = [request EXCEPT ![Head(queue)] = r]
                 /\ r.bh = Current.bh /\ r.nr = Current.nr - 1
    <2>1. [Current EXCEPT !.errors = 0] \in Requests
          /\ [Current EXCEPT !.errors = 0].bh = Current.bh
          /\ [Current EXCEPT !.errors = 0].nr = Current.nr
      BY <1>2 DEF Requests
    <2>2. CASE ReadSector
      BY <2>1, <2>2, <1>2, GoneTypes DEF ReadSector
    <2>3. CASE WriteSector
      BY <2>3, <1>2, GoneTypes DEF WriteSector
    <2> QED
      BY <2>2, <2>3
  <1>4. CASE ReadSector
    <2>1. buf' = Copied(Current.nr) /\ hd.intr = "read_intr"
      BY <1>4 DEF ReadSector, Interrupt
    <2>2. /\ OnCurrent(Copied(Current.nr))
          /\ \A b \in Buffers : Current.bh = b =>
               Copied(Current.nr)[b].stale = buf[b].stale \ {Sector(Current.nr)}
      BY <1>1, CopiedOn
    <2>3. \A b \in Buffers : Current.bh = b /\ ~buf[b].dirt =>
            \A x \in Copied(Current.nr)[b].stale : Sector(r.nr) <= x
      BY <1>1, <1>2, <1>3, <2>2, CurrentStale, SectorsCount
    <2>4. WrittenOut'
      BY <1>1, <2>1, WrittenNot
    <2> QED
      BY <1>1, <1>3, <2>1, <2>2, <2>3, <2>4, TransferDisk
  <1>5. CASE WriteSector
    <2>1. buf' = Copied(Current.nr - 1) /\ hd.intr = "write_intr" /\ ~hd.driving
      BY <1>5 DEF WriteSector, Interrupt, Live
    <2>2. /\ OnCurrent(Copied(Current.nr - 1))
          /\ \A b \in Buffers : Current.bh = b =>
               Copied(Current.nr - 1)[b].stale = buf[b].stale \ {Sector(Current.nr - 1)}
      BY <1>1, CopiedOn
    <2>3. \A b \in Buffers : Current.bh = b /\ ~buf[b].dirt => Sector(Current.nr) \notin buf[b].stale
      BY <1>1, <2>1 DEF DiskInv, WrittenOut
    <2>4. \A b \in Buffers : Current.bh = b /\ ~buf[b].dirt =>
            \A x \in Copied(Current.nr - 1)[b].stale : Sector(r.nr) <= x
      BY <1>1, <1>2, <1>3, <2>2, <2>3, CurrentStale, SectorsCount
    <2>5. request'[Head(queue')] = r
      BY <1>1, <1>3, CurrentLeft DEF IInv, TypeOK
    <2>6. WrittenOut'
      BY <1>1, <1>3, <2>1, <2>2, <2>5 DEF WrittenOut, Current, Sector
    <2> QED
      BY <1>1, <1>3, <2>1, <2>2, <2>4, <2>6, TransferDisk
  <1> QED
    BY <1>4, <1>5

(* The last sector: nothing is left that differs. *)
LEMMA DoneDisk == ASSUME IInv, IInv', DiskInv, ReadDone \/ WriteDone PROVE Keeps
  <1>1. /\ TypeOK /\ queue # <<>> /\ Current.nr = 1 /\ task' = task /\ hd' = Handled
    BY DEF ReadDone, WriteDone, IInv
  <1>2. WrittenOut'
    BY <1>1, DriveAfter, WrittenNot
  <1>3. ASSUME NEW b \in Buffers, Current.bh = b, ~buf[b].dirt, NEW x \in buf[b].stale
        PROVE  x = Sector(1)
    BY <1>1, <1>3, CurrentStale, SectorsCount
  <1>4. CASE ReadDone
    <2> DEFINE r == SectorGone([Current EXCEPT !.errors = 0])
    <2>1. EndRequest([request EXCEPT ![Head(queue)] = r], Copied(1), TRUE)
      BY <1>4 DEF ReadDone
    <2>2. /\ OnCurrent(Copied(1))
          /\ \A b \in Buffers : Current.bh = b => Copied(1)[b].stale = buf[b].stale \ {Sector(1)}
      BY <1>1, CopiedOn
    <2>3. \A b \in Buffers : Current.bh = b /\ ~buf[b].dirt => Copied(1)[b].stale = {}
      BY <1>3, <2>2
    <2> HIDE DEF r
    <2> QED
      BY <1>1, <1>2, <2>1, <2>2, <2>3, EndRequestDisk
  <1>5. CASE WriteDone
    <2> DEFINE r == [request[Head(queue)] EXCEPT !.nr = 0]
    <2>1. EndRequest([request EXCEPT ![Head(queue)] = r], buf, TRUE)
      <3>1. Head(queue) \in Slots /\ request \in [Slots -> Requests]
        BY <1>1, CurrentLeft DEF TypeOK
      <3> QED
        BY <1>5, <3>1 DEF WriteDone
    <2>2. OnCurrent(buf)
      BY <1>1, StaleOn
    <2>3. hd.intr = "write_intr" /\ ~hd.driving
      BY <1>5 DEF WriteDone, Interrupt, Live
    <2>4. \A b \in Buffers : Current.bh = b /\ ~buf[b].dirt => buf[b].stale = {}
      <3> SUFFICES ASSUME NEW b \in Buffers, Current.bh = b, ~buf[b].dirt, NEW x \in buf[b].stale
                   PROVE  FALSE
        OBVIOUS
      <3>1. x = Sector(1)
        BY <1>3
      <3>2. Sector(1) \notin buf[b].stale
        BY <1>1, <2>3 DEF DiskInv, WrittenOut
      <3> QED
        BY <3>1, <3>2
    <2> HIDE DEF r
    <2> QED
      BY <1>1, <1>2, <2>1, <2>2, <2>4, EndRequestDisk
  <1> QED
    BY <1>4, <1>5
-----------------------------------------------------------------------------
(* Every step shows DiskIO a step of its own, or nothing. *)
LEMMA NextDisk == IInv /\ IInv' /\ HandlerHasRequest /\ DiskInv /\ [Next]_vars => Keeps
  <1> SUFFICES ASSUME IInv, IInv', HandlerHasRequest, DiskInv, [Next]_vars PROVE Keeps
    OBVIOUS
  <1>1. ASSUME NEW t \in Tasks, Call(t) \/ Kernel(t) PROVE Keeps
    BY <1>1, TaskStill, LockBufferDisk, GiveUpAheadDisk, FillRequestDisk, AddRequestDisk DEF Kernel
  <1>2. ASSUME NEW t \in Tasks, Modify(t) \/ Forget(t) \/ Reuse(t) PROVE Keeps
    BY <1>2, ModifyDisk, ForgetDisk, ReuseDisk
  <1>3. CASE SwitchTask \/ UNCHANGED vars
    BY <1>3, TaskStill
  <1>4. CASE DoHdRequest
    BY <1>4, DriveStill, ErrorDisk, StartWriteDisk DEF DoHdRequest
  <1>5. CASE HdInterrupt
    BY <1>5, DriveStill, ErrorDisk, SectorDisk, DoneDisk DEF HdInterrupt
  <1> QED
    BY <1>1, <1>2, <1>3, <1>4, <1>5 DEF Next

(* At first nothing is read, and no buffer equals its block. *)
LEMMA InitDisk == Init => DiskInv /\ Disk!Init
  <1> SUFFICES ASSUME Init PROVE DiskInv /\ Disk!Init
    OBVIOUS
  <1>1. PICK f \in [Buffers -> BlockIds] :
          buf = [b \in Buffers |-> [lock |-> FALSE, dirt |-> FALSE, uptodate |-> FALSE,
                                    id |-> f[b], stale |-> Sectors]]
    BY AssignedIds DEF Init
  <1>2. queue = <<>> /\ hd.intr = "none" /\ \A t \in Tasks : task[t].pc = "user"
    BY DEF Init, User
  <1>3. \A b \in Buffers : QueuedFor(b) = {}
    BY <1>2 DEF QueuedFor, ToSet
  <1>4. DiskInv
    BY <1>1, <1>2, <1>3 DEF DiskInv, Faithful, WrittenOut, WholeBlocks, Adding
  <1>5. Buffer = [b \in Buffers |-> [use |-> "free", dirt |-> FALSE, uptodate |-> FALSE,
                                     id |-> f[b], same |-> FALSE]]
    BY <1>1, SectorsAre DEF Buffer, Use
  <1> QED
    BY <1>4, <1>5 DEF Disk!Init

(* Every behaviour of the block layer, with its tasks, slots, queue, drive,  *)
(* retries and resets, is one of DiskIO: a transfer that is asked for is     *)
(* queued or given up, and one that is queued ends.                          *)
THEOREM SpecImplementsDiskIO == Spec => ImplementsDiskIO
  <1>1. DiskInv /\ [Next]_vars /\ IInv /\ IInv' /\ HandlerHasRequest => DiskInv' /\ [Disk!Next]_Buffer
    BY NextDisk DEF Keeps
  <1> QED
    BY <1>1, InitDisk, SpecIInv, SpecHandlerHasRequest, PTL DEF Spec, ImplementsDiskIO, Disk!Spec

(* An unlocked buffer that is clean and up to date equals its block on the   *)
(* disk, although add_request marks it clean before anything is written and  *)
(* its holder may change it during the transfer.                             *)
THEOREM SpecCleanMeansOnDisk == Spec => []CleanMeansOnDisk
  <1>1. DiskInv /\ [Next]_vars /\ IInv /\ IInv' /\ HandlerHasRequest => DiskInv'
    BY NextDisk DEF Keeps
  <1>2. IInv /\ DiskInv => CleanMeansOnDisk
    BY FreeBuffer DEF DiskInv, Faithful, CleanMeansOnDisk
  <1> QED
    BY <1>1, <1>2, InitDisk, SpecIInv, SpecHandlerHasRequest, PTL DEF Spec
=============================================================================
