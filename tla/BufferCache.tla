---------------------------- MODULE BufferCache ----------------------------
(***************************************************************************)
(* The buffer cache, fs/buffer.c, above the block layer, of which it knows *)
(* what DiskIO says, and below its callers: bread(), breada(), bread_page, *)
(* getblk() alone, sync(), sync_dev() and free_block().                    *)
(*                                                                         *)
(* A task keeps the CPU until it has to wait: for a locked buffer, for a   *)
(* slot of the request array, or on buffer_wait.  Only the end of a        *)
(* transfer, in the drive's interrupt, comes between two of its steps.     *)
(***************************************************************************)
EXTENDS Naturals, Sequences, FiniteSets, SequencesExt

CONSTANTS
  Tasks,     \* the tasks that use the cache
  NrBuffers, \* NR_BUFFERS
  Blocks,    \* the blocks in use, <b_dev, b_blocknr>
  Dev,       \* Dev[id]: the b_dev of a block
  NoBlock,   \* b_dev = 0
  Ahead,     \* Ahead[t]: the sequences of blocks t calls breada and bread_page with
  MaxHeld,   \* the most buffers a task holds before it gets more (a bound)
  Uses       \* Uses[t]: what t calls

ASSUME BufferCacheAssumption ==
  /\ NrBuffers \in Nat \ {0}
  /\ MaxHeld \in Nat
  /\ NoBlock \notin Blocks
  /\ Dev \in [Blocks -> Nat \ {0}]
  /\ \A t \in Tasks : Ahead[t] \subseteq Seq(Blocks) \ {<<>>}

Operations == {"bread", "getblk", "breada", "bread_page", "free_block", "sync", "sync_dev"}
ASSUME UsesAssumption == \A t \in Tasks : Uses[t] \subseteq Operations

Buffers == 1 .. NrBuffers
Ids == Blocks \union {NoBlock}
Devices == {Dev[id] : id \in Blocks}
EveryDevice == 0
DeviceOf(id) == IF id = NoBlock THEN 0 ELSE Dev[id]

(* A task that is not in a call. *)
Caller(held) == [pc |-> "user", op |-> "none", todo |-> <<>>, mine |-> <<>>, bh |-> 1,
                 i |-> 1, dev |-> EveryDevice, twice |-> FALSE, held |-> held]

VARIABLES
  buffer, \* what DiskIO says of the buffers
  count,  \* b_count
  free,   \* the free list, from free_list on
  cpu,    \* the task that runs
  call    \* call[t]: what t calls, how far it is, and the buffers it holds

vars == <<buffer, count, free, cpu, call>>

Disk == INSTANCE DiskIO WITH BlockIds <- Ids

Labels == {"user", "getblk", "buffer_wait", "found", "chosen", "sync",
           "write", "got", "read", "read_ahead", "check", "brelse"}
Calls == [pc : Labels, op : Operations \union {"none"},
          todo : Seq(Blocks),       \* the blocks to get, the next one first
          mine : Seq(Buffers),      \* the buffers the call has got
          bh : Buffers,             \* the buffer at hand
          i : 1 .. NrBuffers + 1,   \* the loop over the buffers of a sync
          dev : Devices \union {EveryDevice}, \* whose buffers it writes
          twice : BOOLEAN,          \* sync_dev's second time round
          held : Seq(Buffers)]      \* what the task holds between calls

TypeOK ==
  /\ buffer \in [Buffers -> [use : {"free", "held", "queued"}, dirt : BOOLEAN,
                             uptodate : BOOLEAN, id : Ids, same : BOOLEAN]]
  /\ count \in [Buffers -> Nat]
  /\ free \in Seq(Buffers)
  /\ cpu \in Tasks
  /\ call \in [Tasks -> Calls]

(* buffer_init. *)
Init ==
  /\ buffer = [b \in Buffers |-> [use |-> "free", dirt |-> FALSE, uptodate |-> FALSE,
                                  id |-> NoBlock, same |-> FALSE]]
  /\ count = [b \in Buffers |-> 0]
  /\ free = [b \in Buffers |-> b]
  /\ cpu \in Tasks
  /\ call = [t \in Tasks |-> Caller(<<>>)]
-----------------------------------------------------------------------------
At(t, label) == cpu = t /\ call[t].pc = label
Locked(b) == buffer[b].use # "free"
Goto(t, label) == call' = [call EXCEPT ![t].pc = label]
Returned(t, held) == [call EXCEPT ![t] = Caller(held)]

(* The calls. *)
Ones == {<<id>> : id \in Blocks}

Get(t) ==
  /\ At(t, "user") /\ Len(call[t].held) <= MaxHeld
  /\ \E op \in Uses[t] \ {"sync", "sync_dev"} :
       \E ids \in IF op \in {"breada", "bread_page"} THEN Ahead[t] ELSE Ones :
         call' = [call EXCEPT ![t].pc = "getblk", ![t].op = op, ![t].todo = ids]
  /\ UNCHANGED <<buffer, count, free, cpu>>

Sync(t) ==
  /\ At(t, "user")
  /\ \/ "sync" \in Uses[t] /\ call' = [call EXCEPT ![t].pc = "sync", ![t].op = "sync"]
     \/ /\ "sync_dev" \in Uses[t]
        /\ \E dev \in Devices :
             call' = [call EXCEPT ![t].pc = "sync", ![t].op = "sync_dev", ![t].dev = dev]
  /\ UNCHANGED <<buffer, count, free, cpu>>

(* The holder of a buffer changes it: part of one that is up to date, or all *)
(* of one from getblk, as new_block() does, which sets b_uptodate, or        *)
(* block_write(), which does not.                                            *)
Change(t) ==
  /\ At(t, "user")
  /\ \E n \in DOMAIN call[t].held, whole \in BOOLEAN : Disk!Modify(call[t].held[n], whole)
  /\ UNCHANGED <<count, free, cpu, call>>

(* brelse(bh), where it does not wait: only the last one held, to have *)
(* fewer orders.                                                       *)
Brelse(t) ==
  /\ At(t, "user") /\ call[t].held # <<>>
  /\ call' = [call EXCEPT ![t].pc = "brelse", ![t].bh = call[t].held[Len(call[t].held)],
                          ![t].held = SubSeq(@, 1, Len(@) - 1)]
  /\ UNCHANGED <<buffer, count, free, cpu>>
-----------------------------------------------------------------------------
(* getblk. *)

Want(t) == Head(call[t].todo)
Cached(id) == {b \in Buffers : buffer[b].id = id}

(* get_hash_table: count the buffer, then wait for it. *)
Find(t) ==
  /\ At(t, "getblk")
  /\ \E b \in Cached(Want(t)) :
       /\ count' = [count EXCEPT ![b] = @ + 1]
       /\ call' = [call EXCEPT ![t].pc = "found", ![t].bh = b]
  /\ UNCHANGED <<buffer, free, cpu>>

Found(t) ==
  LET b == call[t].bh IN
  /\ At(t, "found") /\ ~Locked(b)
  /\ \/ buffer[b].id = Want(t) /\ Goto(t, "got") /\ UNCHANGED count
     \/ /\ buffer[b].id # Want(t) /\ Goto(t, "getblk")
        /\ count' = [count EXCEPT ![b] = @ - 1]
  /\ UNCHANGED <<buffer, free, cpu>>

(* The first buffer of the free list that nobody counts, of those with the *)
(* least BADNESS.                                                          *)
BADNESS(b) == (IF buffer[b].dirt THEN 2 ELSE 0) + (IF Locked(b) THEN 1 ELSE 0)
Unused == {n \in DOMAIN free : count[free[n]] = 0}
Best == {n \in Unused : /\ \A m \in Unused : BADNESS(free[n]) <= BADNESS(free[m])
                        /\ \A m \in Unused : BADNESS(free[n]) = BADNESS(free[m]) => n <= m}

NotCached(t) == At(t, "getblk") /\ Cached(Want(t)) = {}

(* free_block stops here: the block has no buffer. *)
NoBuffer(t) ==
  /\ NotCached(t) /\ call[t].op = "free_block"
  /\ call' = Returned(t, call[t].held)
  /\ UNCHANGED <<buffer, count, free, cpu>>

Choose(t) ==
  /\ NotCached(t) /\ call[t].op # "free_block"
  /\ \E n \in Best : call' = [call EXCEPT ![t].pc = "chosen", ![t].bh = free[n]]
  /\ UNCHANGED <<buffer, count, free, cpu>>

SleepOnBufferWait(t) ==
  /\ NotCached(t) /\ call[t].op # "free_block"
  /\ Unused = {}
  /\ Goto(t, "buffer_wait")
  /\ UNCHANGED <<buffer, count, free, cpu>>

(* wait_on_buffer has returned.  A dirty buffer has its whole device written *)
(* first, which waits, so that everything is looked at again.                *)
Chosen(t) ==
  LET b == call[t].bh IN
  /\ At(t, "chosen") /\ ~Locked(b)
  /\ \/ count[b] > 0 /\ Goto(t, "getblk")
     \/ /\ count[b] = 0 /\ buffer[b].dirt
        /\ call' = [call EXCEPT ![t].pc = "sync", ![t].i = 1, ![t].dev = DeviceOf(buffer[b].id),
                                ![t].twice = FALSE]
     \/ count[b] = 0 /\ ~buffer[b].dirt /\ Cached(Want(t)) # {} /\ Goto(t, "getblk")
  /\ UNCHANGED <<buffer, count, free, cpu>>

(* remove_from_queues and insert_into_queues: to the end of the free list. *)
ToEnd(b) == \E n \in DOMAIN free : free[n] = b /\ free' = Append(RemoveAt(free, n), b)

(* Mutants: nobody looks whether the block has a buffer by now; whether the *)
(* buffer is in use by now; whether it is dirty.                            *)
TakeBlind(t) ==
  LET b == call[t].bh IN
  /\ At(t, "chosen") /\ ~Locked(b) /\ count[b] = 0 /\ ~buffer[b].dirt
  /\ Disk!Reuse(b, Want(t))
  /\ count' = [count EXCEPT ![b] = 1]
  /\ ToEnd(b)
  /\ Goto(t, "got")
  /\ UNCHANGED cpu
TakeUsed(t) ==
  LET b == call[t].bh IN
  /\ At(t, "chosen") /\ ~Locked(b) /\ ~buffer[b].dirt
  /\ Cached(Want(t)) = {}
  /\ Disk!Reuse(b, Want(t))
  /\ count' = [count EXCEPT ![b] = 1]
  /\ ToEnd(b)
  /\ Goto(t, "got")
  /\ UNCHANGED cpu
TakeDirty(t) ==
  LET b == call[t].bh IN
  /\ At(t, "chosen") /\ ~Locked(b) /\ count[b] = 0
  /\ Cached(Want(t)) = {}
  /\ buffer' = [buffer EXCEPT ![b].id = Want(t), ![b].uptodate = FALSE, ![b].dirt = FALSE]
  /\ count' = [count EXCEPT ![b] = 1]
  /\ ToEnd(b)
  /\ Goto(t, "got")
  /\ UNCHANGED cpu

(* The buffer is this block's from now on. *)
Take(t) ==
  LET b == call[t].bh IN
  /\ At(t, "chosen") /\ ~Locked(b) /\ count[b] = 0 /\ ~buffer[b].dirt
  /\ Cached(Want(t)) = {}
  /\ Disk!Reuse(b, Want(t))
  /\ count' = [count EXCEPT ![b] = 1]
  /\ ToEnd(b)
  /\ Goto(t, "got")
  /\ UNCHANGED cpu
-----------------------------------------------------------------------------
(* What the callers of getblk do with the buffer. *)

(* Mutant: brelse wakes nobody. *)
WakeNone(c) == c

(* wake_up(&buffer_wait): one sleeper wakes the next. *)
WakeAll(c) == [t \in Tasks |-> IF c[t].pc = "buffer_wait" THEN [c[t] EXCEPT !.pc = "getblk"] ELSE c[t]]

After(t) == IF call[t].op \in {"breada", "bread_page"} /\ Len(call[t].todo) > 1
            THEN "getblk" ELSE "check"
ToCheck(t, label) ==
  call' = [call EXCEPT ![t].pc = label, ![t].todo = Tail(@), ![t].mine = Append(@, call[t].bh)]

GotHeld(t) ==
  /\ At(t, "got") /\ call[t].op = "getblk"
  /\ call' = Returned(t, Append(call[t].held, call[t].bh))
  /\ UNCHANGED <<buffer, count, free, cpu>>

(* Mutant: one brelse() for each way out of the if. *)
GotFreedTwice(t) ==
  LET b == call[t].bh IN
  /\ At(t, "got") /\ call[t].op = "free_block"
  /\ Disk!Forget(b)
  /\ count' = [count EXCEPT ![b] = IF @ > 1 THEN @ - 2 ELSE @ - 1]
  /\ call' = WakeAll(Returned(t, call[t].held))
  /\ UNCHANGED <<free, cpu>>

(* free_block: a block that nobody else uses is forgotten.  brelse(). *)
GotFreed(t) ==
  LET b == call[t].bh IN
  /\ At(t, "got") /\ call[t].op = "free_block"
  /\ IF count[b] > 1 THEN UNCHANGED buffer ELSE Disk!Forget(b)
  /\ count' = [count EXCEPT ![b] = @ - 1]
  /\ call' = WakeAll(Returned(t, call[t].held))
  /\ UNCHANGED <<free, cpu>>

Further(t) == call[t].op = "breada" /\ call[t].mine # <<>>

(* bread, breada's first block, bread_page: read it, when it has to be read. *)
GotRead(t) ==
  LET b == call[t].bh IN
  /\ At(t, "got") /\ call[t].op \in {"bread", "breada", "bread_page"} /\ ~Further(t)
  /\ \/ buffer[b].uptodate /\ ToCheck(t, After(t)) /\ UNCHANGED buffer
     \/ ~buffer[b].uptodate /\ Disk!Take(b) /\ Goto(t, "read")
  /\ UNCHANGED <<count, free, cpu>>

Read(t) ==
  /\ At(t, "read")
  /\ Disk!Queue(call[t].bh)
  /\ ToCheck(t, After(t))
  /\ UNCHANGED <<count, free, cpu>>

(* breada's other blocks: ll_rw_block(READA, bh) for the first block, and *)
(* the count is dropped without a word to buffer_wait.                    *)
NextAhead(t) ==
  LET b == call[t].bh first == call[t].mine[1] IN
  /\ count' = [count EXCEPT ![b] = @ - 1]
  /\ call' = [call EXCEPT ![t].pc = After(t), ![t].todo = Tail(@)]
  /\ UNCHANGED <<free, cpu>>

GotFurther(t) ==
  LET first == call[t].mine[1] IN
  /\ At(t, "got") /\ Further(t)
  /\ \/ /\ ~buffer[call[t].bh].uptodate /\ ~Locked(first) /\ ~buffer[first].uptodate
        /\ Disk!Take(first) /\ Goto(t, "read_ahead")
        /\ UNCHANGED <<count, free, cpu>>
     \/ /\ buffer[call[t].bh].uptodate \/ Locked(first) \/ buffer[first].uptodate
        /\ NextAhead(t) /\ UNCHANGED buffer

ReadAhead(t) ==
  LET first == call[t].mine[1] IN
  /\ At(t, "read_ahead")
  /\ Disk!Queue(first) \/ Disk!GiveUp(first)
  /\ NextAhead(t)

(* Mutant: the buffer of a block that cannot be read stays counted. *)
CheckReadLeaks(t) ==
  LET b == call[t].mine[1] IN
  /\ At(t, "check") /\ call[t].op \in {"bread", "breada"} /\ ~Locked(b)
  /\ call' = Returned(t, IF buffer[b].uptodate THEN Append(call[t].held, b) ELSE call[t].held)
  /\ UNCHANGED <<buffer, count, free, cpu>>

(* wait_on_buffer has returned: the block is there, or it cannot be read. *)
CheckRead(t) ==
  LET b == call[t].mine[1] IN
  /\ At(t, "check") /\ call[t].op \in {"bread", "breada"} /\ ~Locked(b)
  /\ \/ buffer[b].uptodate /\ call' = Returned(t, Append(call[t].held, b)) /\ UNCHANGED count
     \/ /\ ~buffer[b].uptodate
        /\ count' = [count EXCEPT ![b] = @ - 1]
        /\ call' = WakeAll(Returned(t, call[t].held))
  /\ UNCHANGED <<buffer, free, cpu>>

(* Mutant: bread_page releases what it copies, and nothing else. *)
CheckPageLeaks(t) ==
  LET b == Head(call[t].mine) IN
  /\ At(t, "check") /\ call[t].op = "bread_page" /\ ~Locked(b)
  /\ count' = [count EXCEPT ![b] = IF buffer[b].uptodate THEN @ - 1 ELSE @]
  /\ call' = WakeAll(IF Len(call[t].mine) > 1 THEN [call EXCEPT ![t].mine = Tail(@)]
                                               ELSE Returned(t, call[t].held))
  /\ UNCHANGED <<buffer, free, cpu>>

(* bread_page copies what is up to date and releases every buffer. *)
CheckPage(t) ==
  LET b == Head(call[t].mine) IN
  /\ At(t, "check") /\ call[t].op = "bread_page" /\ ~Locked(b)
  /\ count' = [count EXCEPT ![b] = @ - 1]
  /\ call' = WakeAll(IF Len(call[t].mine) > 1 THEN [call EXCEPT ![t].mine = Tail(@)]
                                               ELSE Returned(t, call[t].held))
  /\ UNCHANGED <<buffer, free, cpu>>

Released(t) ==
  LET b == call[t].bh IN
  /\ At(t, "brelse") /\ ~Locked(b)
  /\ count' = [count EXCEPT ![b] = @ - 1]
  /\ call' = WakeAll(Returned(t, call[t].held))
  /\ UNCHANGED <<buffer, free, cpu>>
-----------------------------------------------------------------------------
(* sys_sync and sync_dev, by themselves or from getblk.  Nothing keeps the *)
(* buffer what it was while they wait for it.                              *)
Concerns(t, b) == call[t].dev \in {EveryDevice, DeviceOf(buffer[b].id)}
Nth(t) == call[t].i
MoreToSync(t) == At(t, "sync") /\ Nth(t) \in Buffers

(* Mutant: a locked buffer is being written by somebody else. *)
SkipsLocked(t, b) == Concerns(t, b) => Locked(b) \/ ~buffer[b].dirt

(* On to the next buffer that is locked or dirty; what is neither stays so *)
(* as long as the task runs.                                               *)
Skips(t, b) == Concerns(t, b) => ~Locked(b) /\ ~buffer[b].dirt
SyncNext(t) ==
  /\ MoreToSync(t) /\ Skips(t, Nth(t))
  /\ \E j \in Nth(t) + 1 .. NrBuffers + 1 :
       /\ \A b \in Nth(t) .. j - 1 : Skips(t, b)
       /\ j \in Buffers => ~Skips(t, j)
       /\ call' = [call EXCEPT ![t].i = j]
  /\ UNCHANGED <<buffer, count, free, cpu>>

SyncWrite(t) ==
  /\ MoreToSync(t) /\ Concerns(t, Nth(t))
  /\ buffer[Nth(t)].dirt
  /\ Disk!Take(Nth(t))
  /\ Goto(t, "write")
  /\ UNCHANGED <<count, free, cpu>>

Write(t) ==
  /\ At(t, "write")
  /\ Disk!Queue(Nth(t))
  /\ call' = [call EXCEPT ![t].pc = "sync", ![t].i = @ + 1]
  /\ UNCHANGED <<count, free, cpu>>

(* sync_dev goes round twice, the second time for what sync_inodes wrote *)
(* into the buffers.                                                     *)
SyncAgain(t) ==
  /\ At(t, "sync") /\ Nth(t) > NrBuffers
  /\ call[t].op # "sync" /\ ~call[t].twice
  /\ call' = [call EXCEPT ![t].i = 1, ![t].twice = TRUE]
  /\ UNCHANGED <<buffer, count, free, cpu>>

Synced(t) ==
  /\ At(t, "sync") /\ Nth(t) > NrBuffers
  /\ call[t].op = "sync" \/ call[t].twice
  /\ IF call[t].op \in {"sync", "sync_dev"} THEN call' = Returned(t, call[t].held)
     ELSE call' = [call EXCEPT ![t].pc = "chosen", ![t].i = 1, ![t].dev = EveryDevice,
                               ![t].twice = FALSE]
  /\ UNCHANGED <<buffer, count, free, cpu>>
-----------------------------------------------------------------------------
(* Where a task gives the CPU up: in user mode, asleep, where make_request  *)
(* may find no slot, in wait_on_buffer, and in sync_inodes.                 *)
MaySleep(t) ==
  \/ call[t].pc \in {"user", "buffer_wait", "read", "write"}
  \/ call[t].pc \in {"found", "chosen", "brelse"} /\ Locked(call[t].bh)
  \/ call[t].pc = "check" /\ Locked(Head(call[t].mine))
  \/ /\ call[t].pc = "sync" /\ Nth(t) \in Buffers
     /\ (Concerns(t, Nth(t)) /\ Locked(Nth(t))) \/ (call[t].twice /\ Nth(t) = 1)

SwitchTo(t) ==
  /\ MaySleep(cpu) /\ t # cpu /\ call[t].pc # "buffer_wait"
  /\ cpu' = t
  /\ UNCHANGED <<buffer, count, free, call>>

(* The drive's interrupt ends a transfer.  A buffer that need not equal its *)
(* block afterwards does not.                                               *)
EndTransfer(b) ==
  /\ Disk!End(b)
  /\ buffer'[b].same <=> buffer'[b].uptodate /\ ~buffer'[b].dirt
  /\ UNCHANGED <<count, free, cpu, call>>

Step(t) ==
  \/ Find(t) \/ Found(t) \/ NoBuffer(t) \/ Choose(t) \/ SleepOnBufferWait(t)
  \/ Chosen(t) \/ Take(t) \/ GotHeld(t) \/ GotFreed(t) \/ GotRead(t) \/ Read(t)
  \/ GotFurther(t) \/ ReadAhead(t) \/ CheckRead(t) \/ CheckPage(t) \/ Released(t)
  \/ SyncNext(t) \/ SyncWrite(t) \/ Write(t) \/ SyncAgain(t) \/ Synced(t)

Next ==
  \/ \E t \in Tasks : Get(t) \/ Sync(t) \/ Change(t) \/ Brelse(t) \/ Step(t) \/ SwitchTo(t)
  \/ \E b \in Buffers : EndTransfer(b)

Spec == Init /\ [][Next]_vars
=============================================================================
