---------------------------- MODULE BlockIOProps ----------------------------
(* What the block layer is relied on for, and what its comments say of it. *)
EXTENDS BlockIO

(* A locked buffer has one owner, the task that prepares a request for it *)
(* or a queued request, and an unlocked buffer has none: lock_buffer,     *)
(* make_request and end_request pass the lock on between them.            *)
Preparing(b) ==
  {t \in Tasks : task[t].bh = b /\ task[t].pc \in {"scan", "full", "req_sleep", "add"}}
QueuedFor(b) == {s \in ToSet(queue) : request[s].bh = b}
LockOwned ==
  \A b \in Buffers :
    /\ buf[b].lock <=> Preparing(b) # {} \/ QueuedFor(b) # {}
    /\ Preparing(b) = {} \/ QueuedFor(b) = {}
    /\ \A t, u \in Preparing(b) : t = u
    /\ \A r, s \in QueuedFor(b) : r = s

(* do_hd_request never stops the machine: "harddisk: block not locked". *)
NoUnlockedBlock == hd.driving /\ queue # <<>> => Locked

(* An unlocked buffer that is clean and up to date equals its block on the *)
(* disk, although b_dirt is cleared when the write is queued and the task  *)
(* that holds the buffer may change it during the transfer.                *)
CleanMeansOnDisk ==
  \A b \in Buffers :
    ~buf[b].lock /\ ~buf[b].dirt /\ buf[b].uptodate => buf[b].stale = {}

(* The drive never rests while requests are queued: a handler is set, or  *)
(* do_hd_request is at work or about to be called by the task that found  *)
(* the queue empty.                                                       *)
DriveBusyWithWork ==
  queue # <<>> =>
    hd.driving \/ hd.intr # "none" \/ \E t \in Tasks : task[t].pc = "start"

(* The chain of a wait queue, *p and then the tmp of one sleeper after the  *)
(* other, holds every sleeper, once.  So "*P = NULL" is never printed and   *)
(* nobody is left asleep by the unwinding.                                  *)
SleepersOn(q) == {t \in Tasks : task[t].pc \in Asleep /\ SleepsOn(t) = q}
ChainLink(s, n, i) == IF i < n THEN s[i + 1] ELSE NoTask
IsChain(s, n, q) ==
  /\ wq[q] = ChainLink(s, n, 0)
  /\ \A i \in 1 .. n : tmp[s[i]] = ChainLink(s, n, i)
  /\ \A i, j \in 1 .. n : s[i] = s[j] => i = j
  /\ \A t \in SleepersOn(q) : \E i \in 1 .. n : s[i] = t
ChainWhole ==
  \A q \in Queues :
    LET n == Cardinality(SleepersOn(q)) IN \E s \in [1 .. n -> SleepersOn(q)] : IsChain(s, n, q)

(* The head of the sleepers on an unlocked buffer is awake, so that the    *)
(* check of b_lock and the sleep on b_wait are one step for the interrupt. *)
NoLostWakeup ==
  \A b \in Buffers : ~buf[b].lock /\ wq[b] # NoTask => state[wq[b]] = RUNNING

(* read_intr, write_intr and recal_intr find a current request. *)
HandlerHasRequest ==
  hd.intr \in {"read_intr", "write_intr", "recal_intr"} /\ ~hd.driving => queue # <<>>
(* A slot is in use exactly while its request is queued, once, or is about *)
(* to be: linking behind any place of the queue loses and doubles nothing. *)
Adding(t) == task[t].pc = "add"
SlotsAccounted ==
  /\ {s \in Slots : request[s].busy} = ToSet(queue) \union {task[t].slot : t \in {u \in Tasks : Adding(u)}}
  /\ \A i, j \in DOMAIN queue : queue[i] = queue[j] => i = j
  /\ \A t \in Tasks : Adding(t) => task[t].slot \notin ToSet(queue)
  /\ \A t, u \in Tasks : Adding(t) /\ Adding(u) /\ task[t].slot = task[u].slot => t = u

(* What makes the types, the slots and the locks inductive: a task that     *)
(* sleeps on a buffer has one, a filled slot is for the buffer, or the page, *)
(* of the task that fills it, and a request ends with its last sector.       *)
HasBuffer == \A t \in Tasks : task[t].pc \in Masked => task[t].bh # NoBuf
FilledSlot ==
  \A t \in Tasks : Adding(t) => /\ task[t].slot \in Slots
                               /\ request[task[t].slot].bh = task[t].bh
SectorsLeft ==
  \A s \in Slots : request[s].busy =>
    request[s].nr \in 1 .. IF request[s].bh = NoBuf THEN PageSectors ELSE BlockSectors
IInv == TypeOK /\ SlotsAccounted /\ LockOwned /\ HasBuffer /\ FilledSlot /\ SectorsLeft

(* A task that ll_rw_page has marked as asleep has a request to be woken by, *)
(* although it is marked before it gives the CPU up.                         *)
PageWaiterHasRequest ==
  \A t \in Tasks :
    task[t].pc \in {"page", "page_sleep"} /\ state[t] = UNINTERRUPTIBLE
      => \E s \in ToSet(queue) : request[s].waiting = t
-----------------------------------------------------------------------------
(* The block layer as the buffer cache sees it. *)
Use(b) == CASE ~buf[b].lock -> "free"
            [] buf[b].lock /\ QueuedFor(b) = {} -> "held"
            [] buf[b].lock /\ QueuedFor(b) # {} -> "queued"
Buffer == [b \in Buffers |-> [use |-> Use(b), dirt |-> buf[b].dirt,
                              uptodate |-> buf[b].uptodate, id |-> buf[b].id,
                              same |-> buf[b].stale = {}]]
Disk == INSTANCE DiskIO WITH buffer <- Buffer

(* Every step of the code is a step of DiskIO or leaves the buffers alone. *)
ImplementsDiskIO == Disk!Spec
-----------------------------------------------------------------------------
(* A task is put back on the CPU from time to time as long as it can run;   *)
(* the drive answers every command, and the interrupt controller keeps the  *)
(* request until interrupts are enabled.                                    *)
Dispatch(t) == Next /\ current # t /\ current' = t
Fairness ==
  /\ \A t \in Tasks : WF_vars(Kernel(t)) /\ SF_vars(Dispatch(t))
  /\ WF_vars(SwitchTask) /\ WF_vars(DoHdRequest) /\ SF_vars(HdInterrupt)
FairSpec == Spec /\ Fairness

(* Every queued transfer ends, after any errors, retries and resets, as long *)
(* as the drive is heard and requests do not come for ever: add_request may  *)
(* link newcomers before one that waits again and again (include/linux/blk.h:46).          *)
NoNewRequests == <>[][\A t \in Tasks : ~AddRequest(t)]_vars
RequestsEnd ==
  []~wild /\ []<>IntrEnabled /\ NoNewRequests
    => \A b \in Buffers : Use(b) = "queued" ~> Use(b) # "queued"

(* buffer.c:10-12: interrupts are disabled for short sequences only, so that *)
(* the drive can always be heard again.                                      *)
InterruptsEnabledAgain == []<>(IntrEnabled \/ wild)

(* ll_rw_blk.c:14: wait_for_request is "used to wait on when there are no   *)
(* free requests"; nobody sleeps on it when no request is left to wake him. *)
WaitsForARequest ==
  (\E t \in Tasks : task[t].pc = "req_sleep")
    => \/ \E s \in Slots : request[s].busy
       \/ \E t \in Tasks : task[t].pc = "req_sleep" /\ state[t] = RUNNING
=============================================================================
