------------------------- MODULE BufferCache_proofs -------------------------
(***************************************************************************)
(* The buffer cache has one buffer for a block, and what is taken out of   *)
(* it is on the disk: for any number of tasks, buffers, blocks, devices.   *)
(*                                                                         *)
(* Every step sets the call of one task (SetCall), possibly wakes those    *)
(* who wait (WakesAll), and does at most one thing to one buffer, which    *)
(* DiskIO names.                                                           *)
(***************************************************************************)
EXTENDS BufferCacheSync, SequenceTheorems, FiniteSetTheorems, FunctionTheorems, TLAPS

BufferType == [Buffers -> [use : {"free", "held", "queued"}, dirt : BOOLEAN,
                           uptodate : BOOLEAN, id : Ids, same : BOOLEAN]]

(* A buffer that is clean, up to date and not with the drive equals its block. *)
CleanIsSame == \A b \in Buffers :
  buffer[b].use # "queued" /\ ~buffer[b].dirt /\ buffer[b].uptodate => buffer[b].same

(* Inside getblk there is a block to get; after it there are buffers to look at. *)
Getting(c) == \/ c.pc \in {"getblk", "buffer_wait", "found", "chosen", "got", "read", "read_ahead"}
              \/ c.pc \in {"sync", "write"} /\ c.op \notin {"sync", "sync_dev"}
GoodCall(c) ==
  /\ c \in Calls
  /\ Getting(c) => c.todo # <<>>
  /\ c.pc \in {"check", "read_ahead"} => c.mine # <<>>
  /\ c.pc = "write" => c.i \in Buffers

GoodBuffers == buffer \in BufferType /\ OneBufferPerBlock /\ CleanIsSame
GoodCalls == call \in [Tasks -> Calls] /\ \A t \in Tasks : GoodCall(call[t])
IInv == GoodBuffers /\ GoodCalls /\ free \in Seq(Buffers) /\ cpu \in Tasks
-----------------------------------------------------------------------------
(* NULL is no block; buffers and devices are numbers. *)
LEMMA Constants == /\ NrBuffers \in Nat \ {0} /\ NoBlock \notin Blocks
                   /\ Devices \subseteq Nat
                   /\ \A t \in Tasks : \A ids \in Ahead[t] : ids \in Seq(Blocks) /\ ids # <<>>
  BY BufferCacheAssumption DEF Devices

(* A step changes one buffer, and what is in it equals its block if it must. *)
LEMMA OneBufferKeeps ==
  ASSUME GoodBuffers, NEW b \in Buffers,
         NEW r \in [use : {"free", "held", "queued"}, dirt : BOOLEAN, uptodate : BOOLEAN,
                    id : Ids, same : BOOLEAN],
         buffer' = [buffer EXCEPT ![b] = r],
         r.use # "queued" /\ ~r.dirt /\ r.uptodate => r.same,
         r.id = buffer[b].id \/ Cached(r.id) = {}
  PROVE GoodBuffers'
  <1>1. buffer' \in BufferType
    BY DEF GoodBuffers, BufferType
  <1>2. \A a \in Buffers : buffer'[a] = IF a = b THEN r ELSE buffer[a]
    BY DEF GoodBuffers, BufferType
  <1>3. OneBufferPerBlock'
    BY <1>2 DEF GoodBuffers, OneBufferPerBlock, Cached
  <1>4. CleanIsSame'
    BY <1>2 DEF GoodBuffers, CleanIsSame
  <1> QED
    BY <1>1, <1>3, <1>4 DEF GoodBuffers

(* What DiskIO does to a buffer keeps the buffers good, as long as the buffer *)
(* stays the same block's.                                                    *)
LEMMA DiskKeeps ==
  ASSUME GoodBuffers, NEW b \in Buffers, NEW whole \in BOOLEAN,
         \/ Disk!Forget(b) \/ Disk!Take(b) \/ Disk!GiveUp(b) \/ Disk!Queue(b)
         \/ Disk!End(b) \/ Disk!Modify(b, whole)
  PROVE GoodBuffers'
  <1>1. /\ buffer[b] \in [use : {"free", "held", "queued"}, dirt : BOOLEAN, uptodate : BOOLEAN,
                          id : Ids, same : BOOLEAN]
        /\ buffer[b].use # "queued" /\ ~buffer[b].dirt /\ buffer[b].uptodate => buffer[b].same
    BY DEF GoodBuffers, BufferType, CleanIsSame
  <1>2. CASE Disk!Forget(b)
    <2> DEFINE r == [buffer[b] EXCEPT !.uptodate = FALSE, !.dirt = FALSE]
    <2>1. buffer' = [buffer EXCEPT ![b] = r]
      BY <1>2 DEF Disk!Forget
    <2> QED
      BY <1>1, <2>1, OneBufferKeeps
  <1>3. CASE Disk!Take(b)
    <2> DEFINE r == [buffer[b] EXCEPT !.use = "held"]
    <2>1. buffer' = [buffer EXCEPT ![b] = r] /\ buffer[b].use = "free"
      BY <1>3 DEF Disk!Take
    <2> QED
      BY <1>1, <2>1, OneBufferKeeps
  <1>4. CASE Disk!GiveUp(b)
    <2> DEFINE r == [buffer[b] EXCEPT !.use = "free"]
    <2>1. buffer' = [buffer EXCEPT ![b] = r] /\ buffer[b].use = "held"
      BY <1>4 DEF Disk!GiveUp
    <2> QED
      BY <1>1, <2>1, OneBufferKeeps
  <1>5. CASE Disk!Queue(b)
    <2> DEFINE r == [buffer[b] EXCEPT !.use = "queued", !.dirt = FALSE]
    <2>1. buffer' = [buffer EXCEPT ![b] = r]
      BY <1>5 DEF Disk!Queue
    <2> QED
      BY <1>1, <2>1, OneBufferKeeps
  <1>6. CASE Disk!End(b)
    <2>1. PICK ok \in BOOLEAN, same \in BOOLEAN :
            /\ ok /\ ~buffer[b].dirt => same
            /\ buffer' = [buffer EXCEPT ![b].use = "free", ![b].uptodate = ok, ![b].same = same]
      BY <1>6 DEF Disk!End
    <2> DEFINE r == [buffer[b] EXCEPT !.use = "free", !.uptodate = ok, !.same = same]
    <2>2. buffer' = [buffer EXCEPT ![b] = r]
      BY <2>1
    <2>3. r.use # "queued" /\ ~r.dirt /\ r.uptodate => r.same
      BY <1>1, <2>1
    <2> QED
      BY <1>1, <2>2, <2>3, OneBufferKeeps
  <1>7. CASE Disk!Modify(b, whole)
    <2> DEFINE up == whole \/ buffer[b].uptodate
               r == [buffer[b] EXCEPT !.uptodate = up, !.dirt = TRUE, !.same = FALSE]
    <2>1. up \in BOOLEAN
      OBVIOUS
    <2>2. buffer' = [buffer EXCEPT ![b].uptodate = up, ![b].dirt = TRUE, ![b].same = FALSE]
      BY <1>7, Zenon DEF Disk!Modify
    <2> HIDE DEF up
    <2>3. buffer' = [buffer EXCEPT ![b] = r]
      BY <2>2
    <2> QED
      BY <1>1, <2>1, <2>3, OneBufferKeeps
  <1> QED
    BY <1>2, <1>3, <1>4, <1>5, <1>6, <1>7

(* A buffer may be given to a block that has none. *)
LEMMA ReuseKeeps ==
  ASSUME GoodBuffers, NEW b \in Buffers, NEW id \in Ids, Cached(id) = {}, Disk!Reuse(b, id)
  PROVE GoodBuffers'
  <1> DEFINE r == [buffer[b] EXCEPT !.id = id, !.uptodate = FALSE, !.same = FALSE]
  <1>1. buffer' = [buffer EXCEPT ![b] = r]
    BY DEF Disk!Reuse
  <1>2. r \in [use : {"free", "held", "queued"}, dirt : BOOLEAN, uptodate : BOOLEAN,
               id : Ids, same : BOOLEAN] /\ r.id = id /\ ~r.uptodate
    BY DEF GoodBuffers, BufferType
  <1> HIDE DEF r
  <1> QED
    BY <1>1, <1>2, OneBufferKeeps

(* Buffers that are left alone stay good. *)
LEMMA SameBuffers == GoodBuffers /\ buffer' = buffer => GoodBuffers'
  BY DEF GoodBuffers, BufferType, OneBufferPerBlock, CleanIsSame

(* One task's call goes on. *)
LEMMA SetCall ==
  ASSUME GoodCalls, NEW t \in Tasks, NEW c, GoodCall(c), call' = [call EXCEPT ![t] = c]
  PROVE GoodCalls'
  <1>1. c \in Calls
    BY DEF GoodCall
  <1>2. call' \in [Tasks -> Calls]
    BY <1>1 DEF GoodCalls
  <1>3. \A u \in Tasks : GoodCall(call'[u])
    BY DEF GoodCalls
  <1> QED
    BY <1>2, <1>3 DEF GoodCalls

(* Who is woken looks for his block again. *)
LEMMA WokenIsGood ==
  ASSUME NEW c, GoodCall(c), c.pc = "buffer_wait"
  PROVE GoodCall([c EXCEPT !.pc = "getblk"])
  BY DEF GoodCall, Getting, Calls, Labels

(* One task's call goes on, and all those who wait for a buffer wake up. *)
LEMMA SetCallAndWake ==
  ASSUME GoodCalls, NEW t \in Tasks, NEW c, GoodCall(c), call' = WakeAll([call EXCEPT ![t] = c])
  PROVE GoodCalls'
  <1> DEFINE f == [call EXCEPT ![t] = c]
  <1>1. \A u \in Tasks : GoodCall(f[u])
    BY DEF GoodCalls
  <1>2. \A u \in Tasks : call'[u] = IF f[u].pc = "buffer_wait" THEN [f[u] EXCEPT !.pc = "getblk"] ELSE f[u]
    BY DEF WakeAll
  <1>3. \A u \in Tasks : GoodCall(call'[u])
    <2> SUFFICES ASSUME NEW u \in Tasks PROVE GoodCall(call'[u])
      OBVIOUS
    <2> QED
      BY <1>1, <1>2, WokenIsGood
  <1>4. call' \in [Tasks -> Calls]
    <2>1. call' = [u \in Tasks |-> call'[u]]
      BY DEF WakeAll
    <2>2. \A u \in Tasks : call'[u] \in Calls
      BY <1>3 DEF GoodCall
    <2> QED
      BY <2>1, <2>2
  <1> QED
    BY <1>3, <1>4 DEF GoodCalls

(* A task that is not in a call has a good one. *)
LEMMA CallerIsGood == \A held \in Seq(Buffers) : GoodCall(Caller(held))
  <1> SUFFICES ASSUME NEW held \in Seq(Buffers) PROVE GoodCall(Caller(held))
    OBVIOUS
  <1>1. 1 \in Buffers /\ 1 \in 1 .. NrBuffers + 1
    BY Constants DEF Buffers
  <1>2. <<>> \in Seq(Blocks) /\ <<>> \in Seq(Buffers)
    OBVIOUS
  <1> QED
    BY <1>1, <1>2 DEF Caller, GoodCall, Getting, Calls, Labels
-----------------------------------------------------------------------------
(* What is known of the call of a task. *)
LEMMA CallFacts ==
  ASSUME IInv, NEW t \in Tasks
  PROVE  /\ GoodCall(call[t]) /\ call[t] \in Calls
         /\ call[t].todo \in Seq(Blocks) /\ call[t].mine \in Seq(Buffers)
         /\ call[t].held \in Seq(Buffers) /\ call[t].bh \in Buffers
  BY DEF IInv, GoodCalls, GoodCall, Calls

(* Only one task's call changes. *)
LEMMA OnlyCall ==
  ASSUME IInv, NEW t \in Tasks, NEW c, GoodCall(c), call' = [call EXCEPT ![t] = c],
         GoodBuffers', free' = free, cpu' = cpu
  PROVE IInv'
  BY SetCall DEF IInv

(* A call that ends, with a brelse() or without. *)
LEMMA ReturnedKeeps ==
  ASSUME IInv, NEW t \in Tasks, NEW held \in Seq(Buffers),
         call' = Returned(t, held) \/ call' = WakeAll(Returned(t, held)),
         GoodBuffers', free' = free, cpu' = cpu
  PROVE IInv'
  <1>1. GoodCall(Caller(held))
    BY CallerIsGood
  <1>2. GoodCalls'
    BY <1>1, SetCall, SetCallAndWake DEF IInv, Returned
  <1> QED
    BY <1>2 DEF IInv

(* A step within a call to another label. *)
LEMMA GotoKeeps ==
  ASSUME IInv, NEW t \in Tasks, NEW label \in Labels, Goto(t, label),
         GoodCall([call[t] EXCEPT !.pc = label]),
         GoodBuffers', free' = free, cpu' = cpu
  PROVE IInv'
  BY OnlyCall DEF Goto, IInv, GoodCalls

(* A call for blocks begins. *)
LEMMA GetStep == ASSUME IInv, NEW t \in Tasks, Get(t) PROVE IInv'
  <1>1. PICK op \in Uses[t] \ {"sync", "sync_dev"} :
          \E ids \in IF op \in {"breada", "bread_page"} THEN Ahead[t] ELSE Ones :
            call' = [call EXCEPT ![t].pc = "getblk", ![t].op = op, ![t].todo = ids]
    BY DEF Get
  <1>2. PICK ids \in Ahead[t] \union Ones :
          call' = [call EXCEPT ![t].pc = "getblk", ![t].op = op, ![t].todo = ids]
    BY <1>1
  <1>3. ids \in Seq(Blocks) /\ ids # <<>>
    <2>1. ASSUME NEW id \in Blocks PROVE <<id>> \in Seq(Blocks) /\ <<id>> # <<>>
      OBVIOUS
    <2> QED
      BY <2>1, Constants DEF Ones
  <1>4. op \in Operations
    BY UsesAssumption
  <1> DEFINE c == [call[t] EXCEPT !.pc = "getblk", !.op = op, !.todo = ids]
  <1>5. GoodCall(c)
    BY <1>3, <1>4, CallFacts DEF GoodCall, Calls, Labels
  <1>6. call' = [call EXCEPT ![t] = c]
    BY <1>2
  <1> HIDE DEF c
  <1> QED
    BY <1>5, <1>6, OnlyCall, SameBuffers DEF Get, IInv

(* A sync begins. *)
LEMMA SyncStep == ASSUME IInv, NEW t \in Tasks, Sync(t) PROVE IInv'
  <1>1. CASE call' = [call EXCEPT ![t].pc = "sync", ![t].op = "sync"]
    <2> DEFINE c == [call[t] EXCEPT !.pc = "sync", !.op = "sync"]
    <2>1. GoodCall(c)
      BY CallFacts DEF GoodCall, Calls, Labels, Getting, Operations
    <2>2. call' = [call EXCEPT ![t] = c]
      BY <1>1
    <2> HIDE DEF c
    <2> QED
      BY <2>1, <2>2, OnlyCall, SameBuffers DEF Sync, IInv
  <1>2. ASSUME NEW dev \in Devices,
               call' = [call EXCEPT ![t].pc = "sync", ![t].op = "sync_dev", ![t].dev = dev]
        PROVE IInv'
    <2> DEFINE c == [call[t] EXCEPT !.pc = "sync", !.op = "sync_dev", !.dev = dev]
    <2>1. GoodCall(c)
      BY CallFacts DEF GoodCall, Calls, Labels, Getting, Operations
    <2>2. call' = [call EXCEPT ![t] = c]
      BY <1>2
    <2> HIDE DEF c
    <2> QED
      BY <2>1, <2>2, OnlyCall, SameBuffers DEF Sync, IInv
  <1> QED
    BY <1>1, <1>2 DEF Sync

(* The holder of a buffer changes it. *)
LEMMA ChangeStep == ASSUME IInv, NEW t \in Tasks, Change(t) PROVE IInv'
  <1>1. PICK n \in DOMAIN call[t].held, whole \in BOOLEAN : Disk!Modify(call[t].held[n], whole)
    BY DEF Change
  <1>2. call[t].held[n] \in Buffers
    BY CallFacts
  <1>3. GoodBuffers'
    BY <1>1, <1>2, DiskKeeps DEF IInv
  <1>4. GoodCalls'
    BY DEF Change, IInv, GoodCalls
  <1> QED
    BY <1>3, <1>4 DEF Change, IInv

(* A holder lets go of a buffer. *)
LEMMA BrelseStep == ASSUME IInv, NEW t \in Tasks, Brelse(t) PROVE IInv'
  <1> DEFINE held == call[t].held
             rest == SubSeq(held, 1, Len(held) - 1)
             c == [call[t] EXCEPT !.pc = "brelse", !.bh = held[Len(held)], !.held = rest]
  <1>1. held \in Seq(Buffers) /\ held # <<>>
    BY CallFacts DEF Brelse
  <1>2. rest \in Seq(Buffers) /\ held[Len(held)] \in Buffers
    BY <1>1
  <1>3. call' = [call EXCEPT ![t] = c]
    BY DEF Brelse
  <1>4. GoodCall(c)
    BY <1>2, CallFacts DEF GoodCall, Calls, Labels, Getting
  <1> HIDE DEF c
  <1> QED
    BY <1>3, <1>4, OnlyCall, SameBuffers DEF Brelse, IInv
-----------------------------------------------------------------------------
(* get_hash_table: the buffer of the block is counted. *)
LEMMA FindStep == ASSUME IInv, NEW t \in Tasks, Find(t) PROVE IInv'
  <1>1. PICK b \in Buffers : call' = [call EXCEPT ![t].pc = "found", ![t].bh = b]
    BY DEF Find, Cached
  <1> DEFINE c == [call[t] EXCEPT !.pc = "found", !.bh = b]
  <1>2. call' = [call EXCEPT ![t] = c]
    BY <1>1
  <1>3. GoodCall(c)
    BY CallFacts DEF Find, At, GoodCall, Calls, Labels, Getting
  <1> HIDE DEF c
  <1> QED
    BY <1>2, <1>3, OnlyCall, SameBuffers DEF Find, IInv

(* get_hash_table: the wait for the buffer is over. *)
LEMMA FoundStep == ASSUME IInv, NEW t \in Tasks, Found(t) PROVE IInv'
  <1>1. \A label \in {"got", "getblk"} : GoodCall([call[t] EXCEPT !.pc = label])
    BY CallFacts DEF Found, At, GoodCall, Calls, Labels, Getting
  <1> QED
    BY <1>1, GotoKeeps, SameBuffers DEF Found, IInv, Labels

(* free_block of a block that has no buffer. *)
LEMMA NoBufferStep == ASSUME IInv, NEW t \in Tasks, NoBuffer(t) PROVE IInv'
  BY CallFacts, ReturnedKeeps, SameBuffers DEF NoBuffer, IInv

(* getblk chooses a buffer from the free list. *)
LEMMA ChooseStep == ASSUME IInv, NEW t \in Tasks, Choose(t) PROVE IInv'
  <1>1. PICK n \in DOMAIN free : call' = [call EXCEPT ![t].pc = "chosen", ![t].bh = free[n]]
    BY DEF Choose, Best, Unused
  <1>2. free[n] \in Buffers
    BY DEF IInv
  <1> DEFINE c == [call[t] EXCEPT !.pc = "chosen", !.bh = free[n]]
  <1>3. call' = [call EXCEPT ![t] = c]
    BY <1>1
  <1>4. GoodCall(c)
    BY <1>2, CallFacts DEF Choose, NotCached, At, GoodCall, Calls, Labels, Getting
  <1> HIDE DEF c
  <1> QED
    BY <1>3, <1>4, OnlyCall, SameBuffers DEF Choose, IInv

(* getblk finds no buffer unused. *)
LEMMA SleepStep == ASSUME IInv, NEW t \in Tasks, SleepOnBufferWait(t) PROVE IInv'
  <1>1. GoodCall([call[t] EXCEPT !.pc = "buffer_wait"])
    BY CallFacts DEF SleepOnBufferWait, NotCached, At, GoodCall, Calls, Labels, Getting
  <1> QED
    BY <1>1, GotoKeeps, SameBuffers DEF SleepOnBufferWait, IInv, Labels

(* getblk looks at everything again, or has a device synced first. *)
LEMMA ChosenStep == ASSUME IInv, NEW t \in Tasks, Chosen(t) PROVE IInv'
  <1>1. CASE Goto(t, "getblk")
    <2>1. GoodCall([call[t] EXCEPT !.pc = "getblk"])
      BY CallFacts DEF Chosen, At, GoodCall, Calls, Labels, Getting
    <2> QED
      BY <1>1, <2>1, GotoKeeps, SameBuffers DEF Chosen, IInv, Labels
  <1>2. CASE call' = [call EXCEPT ![t].pc = "sync", ![t].i = 1,
                                  ![t].dev = DeviceOf(buffer[call[t].bh].id), ![t].twice = FALSE]
    <2> DEFINE dev == DeviceOf(buffer[call[t].bh].id)
               c == [call[t] EXCEPT !.pc = "sync", !.i = 1, !.dev = dev, !.twice = FALSE]
    <2>1. dev \in Devices \union {EveryDevice}
      <3>1. buffer[call[t].bh].id \in Ids
        BY CallFacts DEF IInv, GoodBuffers, BufferType
      <3> QED
        BY <3>1 DEF DeviceOf, Devices, Ids, EveryDevice
    <2>2. call' = [call EXCEPT ![t] = c]
      BY <1>2
    <2>3. 1 \in 1 .. NrBuffers + 1
      BY Constants
    <2> HIDE DEF dev
    <2>4. GoodCall(c)
      BY <2>1, <2>3, CallFacts DEF Chosen, At, GoodCall, Calls, Labels, Getting
    <2> HIDE DEF c
    <2> QED
      BY <2>2, <2>4, OnlyCall, SameBuffers DEF Chosen, IInv
  <1> QED
    BY <1>1, <1>2 DEF Chosen

(* getblk gives the buffer to the block. *)
LEMMA TakeStep == ASSUME IInv, NEW t \in Tasks, Take(t) PROVE IInv'
  <1> DEFINE b == call[t].bh
  <1>1. Want(t) \in Ids
    <2>1. call[t].todo \in Seq(Blocks) /\ call[t].todo # <<>>
      BY CallFacts DEF Take, At, GoodCall, Getting
    <2> QED
      BY <2>1 DEF Want, Ids
  <1>2. GoodBuffers'
    BY <1>1, CallFacts, ReuseKeeps DEF Take, IInv
  <1>3. free' \in Seq(Buffers)
    <2>1. PICK n \in DOMAIN free : free' = Append(RemoveAt(free, n), b)
      BY DEF Take, ToEnd
    <2>2. free \in Seq(Buffers) /\ n \in 1 .. Len(free) /\ b \in Buffers
      BY CallFacts DEF IInv
    <2>3. SubSeq(free, 1, n - 1) \in Seq(Buffers) /\ SubSeq(free, n + 1, Len(free)) \in Seq(Buffers)
      BY <2>2
    <2> QED
      BY <2>1, <2>2, <2>3 DEF RemoveAt
  <1>4. GoodCall([call[t] EXCEPT !.pc = "got"])
    BY CallFacts DEF Take, At, GoodCall, Calls, Labels, Getting
  <1>5. GoodCalls'
    BY <1>4, SetCall DEF Take, Goto, IInv, GoodCalls
  <1> QED
    BY <1>2, <1>3, <1>5 DEF Take, IInv
-----------------------------------------------------------------------------
(* getblk by itself returns. *)
LEMMA GotHeldStep == ASSUME IInv, NEW t \in Tasks, GotHeld(t) PROVE IInv'
  <1>1. Append(call[t].held, call[t].bh) \in Seq(Buffers)
    BY CallFacts
  <1> QED
    BY <1>1, ReturnedKeeps, SameBuffers DEF GotHeld, IInv

(* free_block forgets a buffer. *)
LEMMA GotFreedStep == ASSUME IInv, NEW t \in Tasks, GotFreed(t) PROVE IInv'
  <1>1. GoodBuffers'
    BY CallFacts, DiskKeeps, SameBuffers DEF GotFreed, IInv
  <1> QED
    BY <1>1, CallFacts, ReturnedKeeps DEF GotFreed

(* After a block comes the next one, if there is one. *)
LEMMA AfterIsGood ==
  ASSUME NEW t \in Tasks, call[t].todo \in Seq(Blocks), call[t].todo # <<>>
  PROVE  /\ Tail(call[t].todo) \in Seq(Blocks)
         /\ After(t) \in {"getblk", "check"}
         /\ After(t) = "getblk" => Tail(call[t].todo) # <<>>
  <1> DEFINE todo == call[t].todo
  <1>1. Tail(todo) \in Seq(Blocks) /\ Len(Tail(todo)) = Len(todo) - 1 /\ Len(todo) \in Nat
    OBVIOUS
  <1>2. After(t) \in {"getblk", "check"} /\ (After(t) = "getblk" => Len(todo) > 1)
    BY DEF After
  <1>3. Len(todo) > 1 => Tail(todo) # <<>>
    BY <1>1
  <1> QED
    BY <1>1, <1>2, <1>3

(* The buffer at hand is put with those to look at. *)
LEMMA ToCheckKeeps ==
  ASSUME IInv, NEW t \in Tasks, At(t, "got") \/ At(t, "read"), ToCheck(t, After(t)),
         GoodBuffers', free' = free, cpu' = cpu
  PROVE IInv'
  <1> DEFINE label == After(t)
             todo == Tail(call[t].todo)
             mine == Append(call[t].mine, call[t].bh)
             c == [call[t] EXCEPT !.pc = label, !.todo = todo, !.mine = mine]
  <1>1. call[t].todo \in Seq(Blocks) /\ call[t].todo # <<>>
    BY CallFacts DEF GoodCall, Getting, At
  <1>2. /\ todo \in Seq(Blocks)
        /\ label \in {"getblk", "check"}
        /\ label = "getblk" => todo # <<>>
    BY <1>1, AfterIsGood
  <1>3. mine \in Seq(Buffers) /\ mine # <<>>
    BY CallFacts
  <1>4. call' = [call EXCEPT ![t] = c]
    BY DEF ToCheck
  <1> HIDE DEF label, todo, mine
  <1>5. GoodCall(c)
    BY <1>2, <1>3, CallFacts DEF GoodCall, Calls, Labels, Getting
  <1> HIDE DEF c
  <1> QED
    BY <1>4, <1>5, OnlyCall

(* A block that is there, or has to be read. *)
LEMMA GotReadStep == ASSUME IInv, NEW t \in Tasks, GotRead(t) PROVE IInv'
  <1>1. CASE ToCheck(t, After(t)) /\ UNCHANGED buffer
    BY <1>1, ToCheckKeeps, SameBuffers DEF GotRead, IInv
  <1>2. CASE Disk!Take(call[t].bh) /\ Goto(t, "read")
    <2>1. GoodBuffers'
      BY <1>2, CallFacts, DiskKeeps DEF IInv
    <2>2. GoodCall([call[t] EXCEPT !.pc = "read"])
      BY CallFacts DEF GotRead, At, GoodCall, Calls, Labels, Getting
    <2> QED
      BY <1>2, <2>1, <2>2, GotoKeeps DEF GotRead, Labels
  <1> QED
    BY <1>1, <1>2 DEF GotRead

(* The read is queued. *)
LEMMA ReadStep == ASSUME IInv, NEW t \in Tasks, Read(t) PROVE IInv'
  <1>1. GoodBuffers'
    BY CallFacts, DiskKeeps DEF Read, IInv
  <1> QED
    BY <1>1, ToCheckKeeps DEF Read

(* breada is done with one of the other blocks. *)
LEMMA NextAheadKeeps ==
  ASSUME IInv, NEW t \in Tasks, At(t, "got") \/ At(t, "read_ahead"), call[t].mine # <<>>,
         NextAhead(t), GoodBuffers'
  PROVE IInv'
  <1> DEFINE label == After(t)
             todo == Tail(call[t].todo)
             c == [call[t] EXCEPT !.pc = label, !.todo = todo]
  <1>1. call[t].todo \in Seq(Blocks) /\ call[t].todo # <<>>
    BY CallFacts DEF GoodCall, Getting, At
  <1>2. /\ todo \in Seq(Blocks)
        /\ label \in {"getblk", "check"}
        /\ label = "getblk" => todo # <<>>
    BY <1>1, AfterIsGood
  <1>3. call' = [call EXCEPT ![t] = c]
    BY DEF NextAhead
  <1> HIDE DEF label, todo
  <1>4. GoodCall(c)
    BY <1>2, CallFacts DEF GoodCall, Calls, Labels, Getting
  <1> HIDE DEF c
  <1> QED
    BY <1>3, <1>4, OnlyCall DEF NextAhead

(* breada looks at one of the other blocks. *)
LEMMA GotFurtherStep == ASSUME IInv, NEW t \in Tasks, GotFurther(t) PROVE IInv'
  <1> DEFINE first == call[t].mine[1]
  <1>1. first \in Buffers /\ call[t].mine # <<>>
    BY CallFacts DEF GotFurther, Further
  <1>2. CASE Disk!Take(first) /\ Goto(t, "read_ahead") /\ UNCHANGED <<count, free, cpu>>
    <2>1. GoodBuffers'
      BY <1>1, <1>2, DiskKeeps DEF IInv
    <2>2. GoodCall([call[t] EXCEPT !.pc = "read_ahead"])
      BY <1>1, CallFacts DEF GotFurther, At, GoodCall, Calls, Labels, Getting
    <2> QED
      BY <1>2, <2>1, <2>2, GotoKeeps DEF Labels
  <1>3. CASE NextAhead(t) /\ UNCHANGED buffer
    BY <1>1, <1>3, NextAheadKeeps, SameBuffers DEF GotFurther, IInv
  <1> QED
    BY <1>2, <1>3 DEF GotFurther

(* breada's second request for its first block is queued, or given up. *)
LEMMA ReadAheadStep == ASSUME IInv, NEW t \in Tasks, ReadAhead(t) PROVE IInv'
  <1>1. call[t].mine # <<>> /\ call[t].mine[1] \in Buffers
    BY CallFacts DEF ReadAhead, At, GoodCall
  <1>2. GoodBuffers'
    BY <1>1, DiskKeeps DEF ReadAhead, IInv
  <1> QED
    BY <1>1, <1>2, NextAheadKeeps DEF ReadAhead

(* bread and breada return. *)
LEMMA CheckReadStep == ASSUME IInv, NEW t \in Tasks, CheckRead(t) PROVE IInv'
  <1>1. call[t].mine # <<>> /\ call[t].mine[1] \in Buffers
    BY CallFacts DEF CheckRead, At, GoodCall
  <1>2. call[t].held \in Seq(Buffers) /\ Append(call[t].held, call[t].mine[1]) \in Seq(Buffers)
    BY <1>1, CallFacts
  <1> QED
    BY <1>2, ReturnedKeeps, SameBuffers DEF CheckRead, IInv

(* bread_page lets go of one buffer. *)
LEMMA CheckPageStep == ASSUME IInv, NEW t \in Tasks, CheckPage(t) PROVE IInv'
  <1>1. CASE call' = WakeAll(Returned(t, call[t].held))
    BY <1>1, CallFacts, ReturnedKeeps, SameBuffers DEF CheckPage, IInv
  <1>2. CASE Len(call[t].mine) > 1 /\ call' = WakeAll([call EXCEPT ![t].mine = Tail(@)])
    <2> DEFINE mine == Tail(call[t].mine)
               c == [call[t] EXCEPT !.mine = mine]
    <2>1. mine \in Seq(Buffers) /\ mine # <<>>
      BY <1>2, CallFacts
    <2>2. call' = WakeAll([call EXCEPT ![t] = c])
      BY <1>2
    <2> HIDE DEF mine
    <2>3. GoodCall(c)
      BY <2>1, CallFacts DEF CheckPage, At, GoodCall, Calls, Labels, Getting
    <2> HIDE DEF c
    <2>4. GoodCalls'
      BY <2>2, <2>3, SetCallAndWake DEF IInv
    <2> QED
      BY <2>4, SameBuffers DEF CheckPage, IInv
  <1> QED
    BY <1>1, <1>2 DEF CheckPage

(* brelse is through. *)
LEMMA ReleasedStep == ASSUME IInv, NEW t \in Tasks, Released(t) PROVE IInv'
  BY CallFacts, ReturnedKeeps, SameBuffers DEF Released, IInv
-----------------------------------------------------------------------------
(* A sync goes on to another buffer. *)
LEMMA SyncNextStep == ASSUME IInv, NEW t \in Tasks, SyncNext(t) PROVE IInv'
  <1>1. PICK j \in 1 .. NrBuffers + 1 : call' = [call EXCEPT ![t].i = j]
    <2>1. Nth(t) \in 1 .. NrBuffers
      BY DEF SyncNext, MoreToSync, Buffers
    <2>2. PICK j \in Nth(t) + 1 .. NrBuffers + 1 : call' = [call EXCEPT ![t].i = j]
      BY DEF SyncNext
    <2>3. j \in 1 .. NrBuffers + 1
      BY <2>1, Constants
    <2> QED
      BY <2>2, <2>3
  <1> DEFINE c == [call[t] EXCEPT !.i = j]
  <1>2. call' = [call EXCEPT ![t] = c]
    BY <1>1
  <1>3. GoodCall(c)
    BY CallFacts DEF SyncNext, MoreToSync, At, GoodCall, Calls, Getting
  <1> HIDE DEF c
  <1> QED
    BY <1>2, <1>3, OnlyCall, SameBuffers DEF SyncNext, IInv

(* A sync takes a buffer that is dirty. *)
LEMMA SyncWriteStep == ASSUME IInv, NEW t \in Tasks, SyncWrite(t) PROVE IInv'
  <1>1. Nth(t) \in Buffers /\ call[t].i \in Buffers
    BY DEF SyncWrite, MoreToSync, Nth
  <1>2. GoodBuffers'
    BY <1>1, DiskKeeps DEF SyncWrite, IInv
  <1>3. GoodCall([call[t] EXCEPT !.pc = "write"])
    BY <1>1, CallFacts DEF SyncWrite, MoreToSync, At, GoodCall, Calls, Labels, Getting
  <1> QED
    BY <1>2, <1>3, GotoKeeps DEF SyncWrite, Labels

(* The write is queued. *)
LEMMA WriteStep == ASSUME IInv, NEW t \in Tasks, Write(t) PROVE IInv'
  <1> DEFINE j == call[t].i + 1
             c == [call[t] EXCEPT !.pc = "sync", !.i = j]
  <1>1. call[t].i \in Buffers
    BY CallFacts DEF Write, At, GoodCall
  <1>2. j \in 1 .. NrBuffers + 1
    BY <1>1, Constants DEF Buffers
  <1>3. GoodBuffers'
    BY <1>1, DiskKeeps DEF Write, Nth, IInv
  <1>4. call' = [call EXCEPT ![t] = c]
    BY DEF Write
  <1> HIDE DEF j
  <1>5. GoodCall(c)
    BY <1>2, CallFacts DEF Write, At, GoodCall, Calls, Labels, Getting
  <1> HIDE DEF c
  <1> QED
    BY <1>3, <1>4, <1>5, OnlyCall DEF Write

(* sync_dev goes round once more. *)
LEMMA SyncAgainStep == ASSUME IInv, NEW t \in Tasks, SyncAgain(t) PROVE IInv'
  <1> DEFINE c == [call[t] EXCEPT !.i = 1, !.twice = TRUE]
  <1>1. call' = [call EXCEPT ![t] = c]
    BY DEF SyncAgain
  <1>2. 1 \in 1 .. NrBuffers + 1
    BY Constants
  <1>3. GoodCall(c)
    BY <1>2, CallFacts DEF SyncAgain, At, GoodCall, Calls, Getting
  <1> HIDE DEF c
  <1> QED
    BY <1>1, <1>3, OnlyCall, SameBuffers DEF SyncAgain, IInv

(* A sync is through, and getblk that asked for it goes on. *)
LEMMA SyncedStep == ASSUME IInv, NEW t \in Tasks, Synced(t) PROVE IInv'
  <1>1. CASE call[t].op \in {"sync", "sync_dev"}
    BY <1>1, CallFacts, ReturnedKeeps, SameBuffers DEF Synced, IInv
  <1>2. CASE call[t].op \notin {"sync", "sync_dev"}
    <2> DEFINE c == [call[t] EXCEPT !.pc = "chosen", !.i = 1, !.dev = EveryDevice, !.twice = FALSE]
    <2>1. call' = [call EXCEPT ![t] = c]
      BY <1>2 DEF Synced
    <2>2. 1 \in 1 .. NrBuffers + 1
      BY Constants
    <2>3. GoodCall(c)
      BY <1>2, <2>2, CallFacts DEF Synced, At, GoodCall, Calls, Labels, Getting
    <2> HIDE DEF c
    <2> QED
      BY <2>1, <2>3, OnlyCall, SameBuffers DEF Synced, IInv
  <1> QED
    BY <1>1, <1>2

(* The CPU is given to another task. *)
LEMMA SwitchToStep == ASSUME IInv, NEW t \in Tasks, SwitchTo(t) PROVE IInv'
  BY SameBuffers DEF SwitchTo, IInv, GoodCalls

(* The drive is done with a buffer. *)
LEMMA EndTransferStep == ASSUME IInv, NEW b \in Buffers, EndTransfer(b) PROVE IInv'
  BY DiskKeeps DEF EndTransfer, IInv, GoodCalls
-----------------------------------------------------------------------------
(* buffer_init leaves one buffer per block, since it leaves none. *)
LEMMA InitIInv == Init => IInv
  <1> SUFFICES ASSUME Init PROVE IInv
    OBVIOUS
  <1>1. GoodBuffers
    <2>1. \A b \in Buffers : buffer[b] = [use |-> "free", dirt |-> FALSE, uptodate |-> FALSE,
                                        id |-> NoBlock, same |-> FALSE]
      BY DEF Init
    <2>2. buffer \in BufferType
      BY DEF Init, BufferType, Ids
    <2> QED
      BY <2>1, <2>2 DEF GoodBuffers, OneBufferPerBlock, CleanIsSame
  <1>2. GoodCalls
    <2>1. <<>> \in Seq(Buffers)
      OBVIOUS
    <2>2. GoodCall(Caller(<<>>)) /\ Caller(<<>>) \in Calls
      BY <2>1, CallerIsGood DEF GoodCall
    <2> QED
      BY <2>2 DEF Init, GoodCalls
  <1>3. free \in Seq(Buffers)
    <2>1. free = [b \in 1 .. NrBuffers |-> b] /\ NrBuffers \in Nat
      BY Constants DEF Init, Buffers
    <2>2. \A b \in 1 .. NrBuffers : free[b] \in Buffers
      BY <2>1 DEF Buffers
    <2> QED
      BY <2>1, <2>2, IsASeq
  <1> QED
    BY <1>1, <1>2, <1>3 DEF Init, IInv

(* Every step of a call keeps it. *)
LEMMA StepIInv == ASSUME IInv, NEW t \in Tasks, Step(t) PROVE IInv'
  BY FindStep, FoundStep, NoBufferStep, ChooseStep, SleepStep, ChosenStep, TakeStep,
     GotHeldStep, GotFreedStep, GotReadStep, ReadStep, GotFurtherStep, ReadAheadStep,
     CheckReadStep, CheckPageStep, ReleasedStep, SyncNextStep, SyncWriteStep, WriteStep,
     SyncAgainStep, SyncedStep, Zenon
  DEF Step

(* Every step keeps it. *)
LEMMA NextIInv == IInv /\ [Next]_vars => IInv'
  <1> SUFFICES ASSUME IInv, [Next]_vars PROVE IInv'
    OBVIOUS
  <1>1. CASE UNCHANGED vars
    BY <1>1, SameBuffers DEF vars, IInv, GoodCalls
  <1>2. ASSUME NEW t \in Tasks,
               Get(t) \/ Sync(t) \/ Change(t) \/ Brelse(t) \/ Step(t) \/ SwitchTo(t)
        PROVE IInv'
    BY <1>2, GetStep, SyncStep, ChangeStep, BrelseStep, StepIInv, SwitchToStep, Zenon
  <1>3. ASSUME NEW b \in Buffers, EndTransfer(b) PROVE IInv'
    BY <1>3, EndTransferStep
  <1> QED
    BY <1>1, <1>2, <1>3, Zenon DEF Next

(* What the steps above have in common, and what Init begins with. *)
THEOREM SpecIInv == Spec => []IInv
  BY InitIInv, NextIInv, PTL DEF Spec

(* getblk: "this buffer is the only one of it's kind" (fs/buffer.c:220),     *)
(* although it slept between looking for the block and taking a buffer.      *)
THEOREM SpecOneBufferPerBlock == Spec => []OneBufferPerBlock
  <1>1. IInv => OneBufferPerBlock
    BY DEF IInv, GoodBuffers
  <1> QED
    BY <1>1, SpecIInv, PTL
-----------------------------------------------------------------------------
(* Which block a buffer is for, DiskIO changes in Reuse alone. *)
SameIds == \A b \in Buffers : buffer'[b].id = buffer[b].id

(* Buffers that are left alone are for the same blocks. *)
LEMMA SameBuffersIds == buffer' = buffer => SameIds
  BY DEF SameIds

(* A transfer, a change, a block forgotten: the buffer remains the block's. *)
LEMMA DiskIds ==
  ASSUME GoodBuffers, NEW b \in Buffers, NEW whole \in BOOLEAN,
         \/ Disk!Forget(b) \/ Disk!Take(b) \/ Disk!GiveUp(b) \/ Disk!Queue(b)
         \/ Disk!End(b) \/ Disk!Modify(b, whole)
  PROVE SameIds
  <1> USE DEF GoodBuffers, BufferType, SameIds
  <1>1. CASE Disk!Forget(b)
    BY <1>1 DEF Disk!Forget
  <1>2. CASE Disk!Take(b)
    BY <1>2 DEF Disk!Take
  <1>3. CASE Disk!GiveUp(b)
    BY <1>3 DEF Disk!GiveUp
  <1>4. CASE Disk!Queue(b)
    BY <1>4 DEF Disk!Queue
  <1>5. CASE Disk!End(b)
    <2>1. PICK ok \in BOOLEAN, same \in BOOLEAN :
            buffer' = [buffer EXCEPT ![b].use = "free", ![b].uptodate = ok, ![b].same = same]
      BY <1>5 DEF Disk!End
    <2> QED
      BY <2>1
  <1>6. CASE Disk!Modify(b, whole)
    <2> DEFINE up == whole \/ buffer[b].uptodate
    <2>1. buffer' = [buffer EXCEPT ![b].uptodate = up, ![b].dirt = TRUE, ![b].same = FALSE]
      BY <1>6, Zenon DEF Disk!Modify
    <2> HIDE DEF up
    <2> QED
      BY <2>1
  <1> QED
    BY <1>1, <1>2, <1>3, <1>4, <1>5, <1>6

(* Taking a buffer for another block is the only step that changes this. *)
LEMMA StepIds == ASSUME IInv, NEW t \in Tasks, Step(t), ~Take(t) PROVE SameIds
  <1>1. CASE \/ Find(t) \/ Found(t) \/ NoBuffer(t) \/ Choose(t) \/ SleepOnBufferWait(t)
             \/ Chosen(t) \/ GotHeld(t) \/ CheckRead(t) \/ CheckPage(t) \/ Released(t)
             \/ SyncNext(t) \/ SyncAgain(t) \/ Synced(t)
    BY <1>1, SameBuffersIds
    DEF Find, Found, NoBuffer, Choose, SleepOnBufferWait, Chosen, GotHeld, CheckRead, CheckPage,
        Released, SyncNext, SyncAgain, Synced
  <1>2. CASE GotFreed(t)
    BY <1>2, CallFacts, DiskIds, SameBuffersIds DEF GotFreed, IInv
  <1>3. CASE GotRead(t)
    BY <1>3, CallFacts, DiskIds, SameBuffersIds DEF GotRead, IInv
  <1>4. CASE Read(t)
    BY <1>4, CallFacts, DiskIds DEF Read, IInv
  <1>5. CASE GotFurther(t)
    <2>1. call[t].mine[1] \in Buffers
      BY <1>5, CallFacts DEF GotFurther, Further
    <2> QED
      BY <1>5, <2>1, DiskIds, SameBuffersIds DEF GotFurther, IInv
  <1>6. CASE ReadAhead(t)
    <2>1. call[t].mine[1] \in Buffers
      BY <1>6, CallFacts DEF ReadAhead, At, GoodCall
    <2> QED
      BY <1>6, <2>1, DiskIds DEF ReadAhead, IInv
  <1>7. CASE SyncWrite(t)
    BY <1>7, DiskIds DEF SyncWrite, MoreToSync, IInv
  <1>8. CASE Write(t)
    <2>1. Nth(t) \in Buffers
      BY <1>8, CallFacts DEF Write, At, GoodCall, Nth
    <2> QED
      BY <1>8, <2>1, DiskIds DEF Write, IInv
  <1> QED
    BY <1>1, <1>2, <1>3, <1>4, <1>5, <1>6, <1>7, <1>8, Zenon DEF Step

(* A buffer that is given to another block is unused, unlocked and clean, and *)
(* what was in it is on the disk (fs/buffer.c:221).                           *)
THEOREM SpecTakenIsClean == Spec => TakenIsClean
  <1> DEFINE Clean == \A b \in Buffers : buffer'[b].id # buffer[b].id =>
                        /\ count[b] = 0 /\ ~Locked(b) /\ ~buffer[b].dirt
                        /\ buffer[b].uptodate => buffer[b].same
  <1>1. SameIds => Clean
    BY DEF SameIds
  <1>2. ASSUME IInv, NEW t \in Tasks, Take(t) PROVE Clean
    <2> DEFINE b == call[t].bh
    <2>1. b \in Buffers
      BY <1>2, CallFacts
    <2>2. count[b] = 0 /\ ~Locked(b) /\ ~buffer[b].dirt
      BY <1>2 DEF Take
    <2>3. buffer[b].uptodate => buffer[b].same
      BY <1>2, <2>1, <2>2 DEF IInv, GoodBuffers, CleanIsSame, Locked
    <2>4. \A a \in Buffers : a # b => buffer'[a] = buffer[a]
      BY <1>2 DEF Take, Disk!Reuse, IInv, GoodBuffers, BufferType
    <2> HIDE DEF b
    <2> QED
      BY <2>2, <2>3, <2>4
  <1>3. IInv /\ [Next]_vars => [Clean]_vars
    <2> SUFFICES ASSUME IInv, Next PROVE Clean
      OBVIOUS
    <2>1. ASSUME NEW t \in Tasks, Get(t) \/ Sync(t) \/ Brelse(t) \/ SwitchTo(t) PROVE Clean
      BY <1>1, <2>1, SameBuffersIds DEF Get, Sync, Brelse, SwitchTo
    <2>2. ASSUME NEW t \in Tasks, Change(t) PROVE Clean
      BY <1>1, <2>2, CallFacts, DiskIds DEF Change, IInv
    <2>3. ASSUME NEW t \in Tasks, Step(t) PROVE Clean
      BY <1>1, <1>2, <2>3, StepIds
    <2>4. ASSUME NEW b \in Buffers, EndTransfer(b) PROVE Clean
      BY <1>1, <2>4, DiskIds DEF EndTransfer, IInv
    <2> QED
      BY <2>1, <2>2, <2>3, <2>4, Zenon DEF Next
  <1>4. Spec => [][Clean]_vars
    BY <1>3, SpecIInv, PTL DEF Spec
  <1> QED
    BY <1>4 DEF TakenIsClean
-----------------------------------------------------------------------------
(* The pairs of a function that counts: one for each use of each task. *)
Pairs(f) == UNION {{t} \X (1 .. f[t]) : t \in Tasks}

(* One more use is one more pair. *)
LEMMA OneMorePair ==
  ASSUME NEW f \in [Tasks -> Nat], NEW g \in [Tasks -> Nat], NEW t \in Tasks,
         g = [f EXCEPT ![t] = f[t] + 1], IsFiniteSet(Pairs(f))
  PROVE  IsFiniteSet(Pairs(g)) /\ Cardinality(Pairs(g)) = Cardinality(Pairs(f)) + 1
  <1> DEFINE new == <<t, f[t] + 1>>
  <1>1. \A u \in Tasks : g[u] = IF u = t THEN f[u] + 1 ELSE f[u]
    OBVIOUS
  <1>2. ASSUME NEW p PROVE p \in Pairs(g) <=> p \in Pairs(f) \union {new}
    <2>1. p \in Pairs(g) <=> \E u \in Tasks : \E n \in 1 .. g[u] : p = <<u, n>>
      BY DEF Pairs
    <2>2. p \in Pairs(f) <=> \E u \in Tasks : \E n \in 1 .. f[u] : p = <<u, n>>
      BY DEF Pairs
    <2>3. ASSUME NEW u \in Tasks
          PROVE (\E n \in 1 .. g[u] : p = <<u, n>>)
                  <=> (\E n \in 1 .. f[u] : p = <<u, n>>) \/ (u = t /\ p = new)
      <3>1. f[u] \in Nat
        OBVIOUS
      <3> QED
        BY <1>1, <3>1
    <2> QED
      BY <2>1, <2>2, <2>3
  <1>3. Pairs(g) = Pairs(f) \union {new}
    BY <1>2
  <1>4. new \notin Pairs(f)
    BY DEF Pairs
  <1> HIDE DEF new
  <1>5. /\ IsFiniteSet(Pairs(f) \union {new})
        /\ Cardinality(Pairs(f) \union {new})
             = IF new \in Pairs(f) THEN Cardinality(Pairs(f)) ELSE Cardinality(Pairs(f)) + 1
    BY FS_AddElement
  <1> QED
    BY <1>3, <1>4, <1>5

(* One use less is one pair less. *)
LEMMA OnePairLess ==
  ASSUME NEW f \in [Tasks -> Nat], NEW g \in [Tasks -> Nat], NEW t \in Tasks,
         f = [g EXCEPT ![t] = g[t] + 1], IsFiniteSet(Pairs(f))
  PROVE  /\ IsFiniteSet(Pairs(g)) /\ Cardinality(Pairs(f)) \in Nat
         /\ Cardinality(Pairs(g)) = Cardinality(Pairs(f)) - 1
  <1>1. Pairs(g) \subseteq Pairs(f)
    <2>1. \A u \in Tasks : 1 .. g[u] \subseteq 1 .. f[u]
      OBVIOUS
    <2> QED
      BY <2>1 DEF Pairs
  <1>2. IsFiniteSet(Pairs(g))
    BY <1>1, FS_Subset
  <1>3. Cardinality(Pairs(f)) = Cardinality(Pairs(g)) + 1
    BY <1>2, OneMorePair
  <1>4. Cardinality(Pairs(g)) \in Nat
    BY <1>2, FS_CardinalityType
  <1> QED
    BY <1>2, <1>3, <1>4

(* A task that uses something has a pair. *)
LEMMA SomePair ==
  ASSUME NEW f \in [Tasks -> Nat], NEW t \in Tasks, f[t] > 0, IsFiniteSet(Pairs(f))
  PROVE  Cardinality(Pairs(f)) > 0
  <1>1. <<t, 1>> \in Pairs(f)
    BY DEF Pairs
  <1>2. Cardinality(Pairs(f)) # 0 /\ Cardinality(Pairs(f)) \in Nat
    BY <1>1, FS_EmptySet, FS_CardinalityType
  <1> QED
    BY <1>2

(* Where a sequence has a value. *)
Places(s, b) == {n \in DOMAIN s : s[n] = b}

(* The places are finitely many. *)
LEMMA TimesIsNat ==
  ASSUME NEW s \in Seq(Buffers), NEW b
  PROVE  IsFiniteSet(Places(s, b)) /\ Times(s, b) = Cardinality(Places(s, b)) /\ Times(s, b) \in Nat
  <1>1. IsFiniteSet(1 .. Len(s)) /\ Places(s, b) \subseteq 1 .. Len(s)
    BY FS_Interval DEF Places
  <1> QED
    BY <1>1, FS_Subset, FS_CardinalityType DEF Times, Places

(* Nothing is in the empty sequence. *)
LEMMA TimesEmpty == \A b : Times(<<>>, b) = 0
  <1> SUFFICES ASSUME NEW b PROVE Times(<<>>, b) = 0
    OBVIOUS
  <1>1. {n \in DOMAIN <<>> : <<>>[n] = b} = {}
    OBVIOUS
  <1> QED
    BY <1>1, FS_EmptySet DEF Times

(* A value that is appended is there once more. *)
LEMMA TimesAppend ==
  ASSUME NEW s \in Seq(Buffers), NEW x \in Buffers, NEW b
  PROVE  Times(Append(s, x), b) = Times(s, b) + IF x = b THEN 1 ELSE 0
  <1> DEFINE a == Append(s, x)
  <1>1. /\ DOMAIN a = 1 .. Len(s) + 1 /\ DOMAIN s = 1 .. Len(s) /\ Len(s) \in Nat
        /\ a[Len(s) + 1] = x /\ \A n \in 1 .. Len(s) : a[n] = s[n]
    OBVIOUS
  <1>5. Times(a, b) = Times(Append(s, x), b)
    OBVIOUS
  <1> HIDE DEF a
  <1>2. Places(a, b) = IF x = b THEN Places(s, b) \union {Len(s) + 1} ELSE Places(s, b)
    BY <1>1 DEF Places
  <1>3. Len(s) + 1 \notin Places(s, b)
    BY <1>1 DEF Places
  <1>4. Times(a, b) = Cardinality(Places(a, b))
    BY DEF Times, Places
  <1>6. Cardinality(Places(s, b) \union {Len(s) + 1}) = Cardinality(Places(s, b)) + 1
    BY <1>3, TimesIsNat, FS_AddElement
  <1>7. Times(s, b) = Cardinality(Places(s, b)) /\ Times(s, b) \in Nat
    BY TimesIsNat
  <1> QED
    BY <1>2, <1>4, <1>5, <1>6, <1>7

(* The last one taken away. *)
LEMMA TimesFront ==
  ASSUME NEW s \in Seq(Buffers), s # <<>>, NEW b
  PROVE  Times(s, b) = Times(SubSeq(s, 1, Len(s) - 1), b) + IF s[Len(s)] = b THEN 1 ELSE 0
  <1> DEFINE front == SubSeq(s, 1, Len(s) - 1)
  <1>1. front \in Seq(Buffers) /\ s[Len(s)] \in Buffers /\ s = Append(front, s[Len(s)])
    <2>1. Len(s) \in Nat /\ Len(s) >= 1 /\ s \in [1 .. Len(s) -> Buffers]
      OBVIOUS
    <2>2. /\ front \in Seq(Buffers) /\ Len(front) = Len(s) - 1
          /\ \A n \in 1 .. Len(s) - 1 : front[n] = s[n]
      <3>1. 1 \in 1 .. Len(s) + 1 /\ Len(s) - 1 \in 0 .. Len(s)
        BY <2>1
      <3> HIDE DEF front
      <3>2. /\ SubSeq(s, 1, Len(s) - 1) \in Seq(Buffers)
            /\ Len(SubSeq(s, 1, Len(s) - 1)) = IF 1 <= Len(s) - 1 THEN (Len(s) - 1) - 1 + 1 ELSE 0
            /\ \A i \in 1 .. (Len(s) - 1) - 1 + 1 : SubSeq(s, 1, Len(s) - 1)[i] = s[1 + i - 1]
        BY <3>1, SubSeqProperties
      <3> QED
        BY <2>1, <3>2 DEF front
    <2> HIDE DEF front
    <2>3. s[Len(s)] \in Buffers
      BY <2>1
    <2>4. s = Append(front, s[Len(s)])
      <3> DEFINE a == Append(front, s[Len(s)])
      <3>1. /\ a \in Seq(Buffers) /\ Len(a) = Len(s) /\ a[Len(s)] = s[Len(s)]
            /\ \A n \in 1 .. Len(s) - 1 : a[n] = front[n]
        <4>1. Len(front) + 1 = Len(s) /\ 1 .. Len(front) = 1 .. Len(s) - 1
          BY <2>1, <2>2
        <4>2. /\ a \in Seq(Buffers) /\ Len(a) = Len(front) + 1 /\ a[Len(front) + 1] = s[Len(s)]
              /\ \A n \in 1 .. Len(front) : a[n] = front[n]
          BY <2>2, <2>3, AppendProperties
        <4> HIDE DEF a
        <4> QED
          BY <4>1, <4>2
      <3>2. \A n \in 1 .. Len(s) : a[n] = s[n]
        BY <2>1, <2>2, <3>1
      <3> HIDE DEF a
      <3>3. s = a
        BY <3>1, <3>2, SeqEqual
      <3> QED
        BY <3>3 DEF a
    <2> QED
      BY <2>2, <2>3, <2>4
  <1>2. Times(s, b) = Times(Append(front, s[Len(s)]), b)
    BY <1>1, Zenon
  <1> HIDE DEF front
  <1>3. Times(Append(front, s[Len(s)]), b) = Times(front, b) + IF s[Len(s)] = b THEN 1 ELSE 0
    BY <1>1, TimesAppend
  <1> QED
    BY <1>2, <1>3 DEF front

(* The first one taken away. *)
LEMMA TimesTail ==
  ASSUME NEW s \in Seq(Buffers), s # <<>>, NEW b
  PROVE  Times(s, b) = Times(Tail(s), b) + IF Head(s) = b THEN 1 ELSE 0
  <1> DEFINE r == Tail(s)
             S == Places(s, b) \ {1}
             f == [n \in Places(r, b) |-> n + 1]
  <1>1. /\ Len(s) \in Nat \ {0} /\ DOMAIN s = 1 .. Len(s) /\ DOMAIN r = 1 .. Len(s) - 1
        /\ r \in Seq(Buffers)
        /\ \A n \in 1 .. Len(s) - 1 : r[n] = s[n + 1]
    OBVIOUS
  <1>2. f \in Bijection(Places(r, b), S)
    <2>1. \A n \in Places(r, b) : n \in Nat /\ n + 1 \in S
      BY <1>1 DEF Places
    <2>2. \A m \in S : m \in Nat /\ m - 1 \in Places(r, b) /\ m = (m - 1) + 1
      BY <1>1 DEF Places
    <2>3. f \in [Places(r, b) -> S]
      BY <2>1
    <2>4. \A m, n \in Places(r, b) : f[m] = f[n] => m = n
      BY <2>1
    <2>5. \A m \in S : \E n \in Places(r, b) : f[n] = m
      BY <2>2
    <2> QED
      BY <2>3, <2>4, <2>5, Zenon DEF Bijection, Injection, IsInjective, Surjection
  <1>3. Cardinality(S) = Times(r, b)
    <2>1. ExistsBijection(Places(r, b), S)
      BY <1>2 DEF ExistsBijection
    <2> QED
      <3>1. IsFiniteSet(Places(r, b)) /\ Times(r, b) = Cardinality(Places(r, b))
        BY <1>1, TimesIsNat
      <3> HIDE DEF r, S
      <3> QED
        BY <2>1, <3>1, FS_Bijection
  <1>4. 1 \in Places(s, b) <=> Head(s) = b
    BY <1>1 DEF Places
  <1>5. Cardinality(S) = IF 1 \in Places(s, b) THEN Times(s, b) - 1 ELSE Times(s, b)
    BY TimesIsNat, FS_RemoveElement
  <1> QED
    BY <1>1, <1>3, <1>4, <1>5, TimesIsNat
-----------------------------------------------------------------------------
(* What a call uses of a buffer. *)
AtHand == {"found", "got", "read", "read_ahead", "brelse"}
UsesIn(c, b) == Times(c.held, b) + Times(c.mine, b) + IF c.bh = b /\ c.pc \in AtHand THEN 1 ELSE 0

(* Outside a call a task has only what it holds; only bread_page collects *)
(* several buffers, and only reads collect any.                           *)
Progress(c) ==
  /\ c.pc = "user" => c = Caller(c.held)
  /\ c.pc = "brelse" => c.op = "none"
  /\ c.op \in {"none", "sync", "sync_dev", "getblk", "free_block"} => c.mine = <<>>
  /\ c.op \in {"bread", "breada"} => Len(c.mine) <= 1
  /\ c.op = "bread" /\ c.pc # "check" => c.mine = <<>>
  /\ c.pc = "read" => /\ c.op \in {"bread", "breada", "bread_page"}
                      /\ c.op # "bread_page" => c.mine = <<>>

(* b_count is the number of uses, of which there are finitely many. *)
Counts ==
  /\ count \in [Buffers -> Nat]
  /\ \A b \in Buffers : IsFiniteSet(AllUses(b)) /\ count[b] = Cardinality(AllUses(b))
Counted == Counts /\ \A t \in Tasks : Progress(call[t])

(* The uses are a function that counts. *)
LEMMA UsesAreNat ==
  ASSUME IInv
  PROVE  /\ \A t \in Tasks, b \in Buffers : UsesOf(t, b) = UsesIn(call[t], b) /\ UsesOf(t, b) \in Nat
         /\ \A b \in Buffers : AllUses(b) = Pairs([t \in Tasks |-> UsesOf(t, b)])
  <1>1. ASSUME NEW t \in Tasks, NEW b \in Buffers
        PROVE UsesOf(t, b) = UsesIn(call[t], b) /\ UsesOf(t, b) \in Nat
    <2>1. Times(call[t].held, b) \in Nat /\ Times(call[t].mine, b) \in Nat
      BY CallFacts, TimesIsNat
    <2> QED
      BY <2>1 DEF UsesOf, UsesIn, HasAtHand, AtHand
  <1> QED
    BY <1>1 DEF AllUses, Pairs

(* A step is one task's; those it wakes use what they used. *)
LEMMA UsesAfter ==
  ASSUME IInv, NEW t \in Tasks, NEW c,
         call' = [call EXCEPT ![t] = c] \/ call' = WakeAll([call EXCEPT ![t] = c])
  PROVE  \A u \in Tasks, b \in Buffers :
           UsesIn(call'[u], b) = IF u = t THEN UsesIn(c, b) ELSE UsesIn(call[u], b)
  <1> DEFINE f == [call EXCEPT ![t] = c]
  <1>1. \A u \in Tasks : f[u] = IF u = t THEN c ELSE call[u]
    BY DEF IInv, GoodCalls
  <1> HIDE DEF f
  <1>2. ASSUME NEW d, NEW b, d.pc = "buffer_wait"
        PROVE UsesIn([d EXCEPT !.pc = "getblk"], b) = UsesIn(d, b)
    BY <1>2 DEF UsesIn, AtHand
  <1>3. CASE call' = f
    BY <1>1, <1>3
  <1>4. CASE call' = WakeAll(f)
    <2>1. \A u \in Tasks :
            call'[u] = IF f[u].pc = "buffer_wait" THEN [f[u] EXCEPT !.pc = "getblk"] ELSE f[u]
      BY <1>4 DEF WakeAll
    <2>2. \A u \in Tasks, b \in Buffers : UsesIn(call'[u], b) = UsesIn(f[u], b)
      BY <1>2, <2>1
    <2> QED
      BY <1>1, <2>2
  <1> QED
    BY <1>3, <1>4 DEF f

(* How far the calls are, after one task's step. *)
LEMMA ProgressAfter ==
  ASSUME IInv, NEW t \in Tasks, NEW c, Progress(c), \A u \in Tasks : Progress(call[u]),
         call' = [call EXCEPT ![t] = c] \/ call' = WakeAll([call EXCEPT ![t] = c])
  PROVE  \A u \in Tasks : Progress(call'[u])
  <1> DEFINE f == [call EXCEPT ![t] = c]
  <1>1. \A u \in Tasks : Progress(f[u])
    BY DEF IInv, GoodCalls
  <1> HIDE DEF f
  <1>2. ASSUME NEW d, Progress(d), d.pc = "buffer_wait" PROVE Progress([d EXCEPT !.pc = "getblk"])
    BY <1>2 DEF Progress
  <1>3. CASE call' = f
    BY <1>1, <1>3
  <1>4. CASE call' = WakeAll(f)
    <2>1. \A u \in Tasks :
            call'[u] = IF f[u].pc = "buffer_wait" THEN [f[u] EXCEPT !.pc = "getblk"] ELSE f[u]
      BY <1>4 DEF WakeAll
    <2> QED
      BY <1>1, <1>2, <2>1
  <1> QED
    BY <1>3, <1>4 DEF f

(* A step that uses what was used before. *)
LEMMA SameCounts ==
  ASSUME IInv, Counted, IInv', NEW t \in Tasks, NEW c, Progress(c),
         call' = [call EXCEPT ![t] = c] \/ call' = WakeAll([call EXCEPT ![t] = c]),
         \A b \in Buffers : UsesIn(c, b) = UsesIn(call[t], b),
         count' = count
  PROVE  Counted'
  <1>1. \A u \in Tasks : Progress(call'[u])
    BY ProgressAfter DEF Counted
  <1>2. \A u \in Tasks, b \in Buffers : UsesOf(u, b)' = UsesOf(u, b)
    <2>1. \A u \in Tasks, b \in Buffers : UsesOf(u, b)' = UsesIn(call'[u], b)
      BY DEF UsesOf, UsesIn, HasAtHand, AtHand
    <2>2. \A u \in Tasks, b \in Buffers : UsesOf(u, b) = UsesIn(call[u], b)
      BY UsesAreNat
    <2>3. \A u \in Tasks, b \in Buffers : UsesIn(call'[u], b) = UsesIn(call[u], b)
      BY UsesAfter
    <2> QED
      BY <2>1, <2>2, <2>3
  <1>3. \A b \in Buffers : AllUses(b)' = AllUses(b)
    BY <1>2 DEF AllUses
  <1> QED
    BY <1>1, <1>3 DEF Counted, Counts

(* A step that uses a buffer once more, and counts it. *)
LEMMA OneMoreUse ==
  ASSUME IInv, Counted, IInv', NEW t \in Tasks, NEW c, Progress(c), NEW a \in Buffers,
         call' = [call EXCEPT ![t] = c] \/ call' = WakeAll([call EXCEPT ![t] = c]),
         \A b \in Buffers : UsesIn(c, b) = UsesIn(call[t], b) + IF b = a THEN 1 ELSE 0,
         count' = [count EXCEPT ![a] = count[a] + 1]
  PROVE  Counted'
  <1>1. \A u \in Tasks : Progress(call'[u])
    BY ProgressAfter DEF Counted
  <1> DEFINE f(b) == [u \in Tasks |-> UsesIn(call[u], b)]
             g(b) == [u \in Tasks |-> UsesIn(call'[u], b)]
  <1>2. \A b \in Buffers : f(b) \in [Tasks -> Nat] /\ AllUses(b) = Pairs(f(b))
    BY UsesAreNat
  <1>3. \A b \in Buffers : AllUses(b)' = Pairs(g(b))
    BY DEF AllUses, Pairs, UsesOf, UsesIn, HasAtHand, AtHand
  <1>4. \A u \in Tasks, b \in Buffers :
          UsesIn(call'[u], b) = UsesIn(call[u], b) + IF u = t /\ b = a THEN 1 ELSE 0
    <2>1. \A u \in Tasks, b \in Buffers : UsesIn(call[u], b) \in Nat
      BY <1>2
    <2> QED
      BY <2>1, UsesAfter
  <1>5. \A b \in Buffers : b # a => g(b) = f(b)
    <2>1. \A u \in Tasks, b \in Buffers : UsesIn(call[u], b) \in Nat
      BY <1>2
    <2> QED
      BY <1>4, <2>1
  <1>6. g(a) \in [Tasks -> Nat] /\ g(a) = [f(a) EXCEPT ![t] = f(a)[t] + 1]
    <2>1. \A u \in Tasks : UsesIn(call[u], a) \in Nat
      BY <1>2
    <2>2. \A u \in Tasks :
            /\ UsesIn(call'[u], a) \in Nat
            /\ UsesIn(call'[u], a) = IF u = t THEN UsesIn(call[u], a) + 1 ELSE UsesIn(call[u], a)
      BY <1>4, <2>1
    <2> QED
      BY <2>1, <2>2
  <1> HIDE DEF f, g
  <1>7. IsFiniteSet(Pairs(f(a))) /\ count[a] = Cardinality(Pairs(f(a)))
    BY <1>2 DEF Counted, Counts
  <1>8. IsFiniteSet(Pairs(g(a))) /\ Cardinality(Pairs(g(a))) = Cardinality(Pairs(f(a))) + 1
    BY <1>2, <1>6, <1>7, OneMorePair
  <1>9. /\ count' \in [Buffers -> Nat] /\ count'[a] = count[a] + 1
        /\ \A b \in Buffers : b # a => count'[b] = count[b]
    BY DEF Counted, Counts
  <1>10. Counts'
    <2> SUFFICES ASSUME NEW b \in Buffers
                 PROVE IsFiniteSet(AllUses(b)') /\ count'[b] = Cardinality(AllUses(b)')
      BY <1>9 DEF Counts
    <2>1. CASE b = a
      <3>1. AllUses(b)' = Pairs(g(b))
        BY <1>3
      <3> QED
        BY <1>7, <1>8, <1>9, <2>1, <3>1
    <2>2. CASE b # a
      <3>1. AllUses(b)' = AllUses(b)
        BY <1>2, <1>3, <1>5, <2>2
      <3> QED
        BY <1>9, <2>2, <3>1 DEF Counted, Counts
    <2> QED
      BY <2>1, <2>2
  <1> QED
    BY <1>1, <1>10 DEF Counted

(* A step that uses a buffer once less, and says so. *)
LEMMA OneUseLess ==
  ASSUME IInv, Counted, IInv', NEW t \in Tasks, NEW c, Progress(c), NEW a \in Buffers,
         call' = [call EXCEPT ![t] = c] \/ call' = WakeAll([call EXCEPT ![t] = c]),
         \A b \in Buffers : UsesIn(call[t], b) = UsesIn(c, b) + IF b = a THEN 1 ELSE 0,
         \A b \in Buffers : UsesIn(c, b) \in Nat,
         count' = [count EXCEPT ![a] = count[a] - 1]
  PROVE  Counted'
  <1>1. \A u \in Tasks : Progress(call'[u])
    BY ProgressAfter DEF Counted
  <1> DEFINE f(b) == [u \in Tasks |-> UsesIn(call[u], b)]
             g(b) == [u \in Tasks |-> UsesIn(call'[u], b)]
  <1>2. \A b \in Buffers : f(b) \in [Tasks -> Nat] /\ AllUses(b) = Pairs(f(b))
    BY UsesAreNat
  <1>3. \A b \in Buffers : AllUses(b)' = Pairs(g(b))
    BY DEF AllUses, Pairs, UsesOf, UsesIn, HasAtHand, AtHand
  <1>4. \A u \in Tasks, b \in Buffers :
          UsesIn(call'[u], b) \in Nat /\ UsesIn(call[u], b) = UsesIn(call'[u], b) + IF u = t /\ b = a THEN 1 ELSE 0
    <2>1. \A u \in Tasks, b \in Buffers : UsesIn(call[u], b) \in Nat
      BY <1>2
    <2> QED
      BY <2>1, UsesAfter
  <1>5. \A b \in Buffers : b # a => g(b) = f(b)
    <2>1. \A u \in Tasks, b \in Buffers : UsesIn(call[u], b) \in Nat
      BY <1>2
    <2> QED
      BY <1>4, <2>1
  <1>6. g(a) \in [Tasks -> Nat] /\ f(a) = [g(a) EXCEPT ![t] = g(a)[t] + 1]
    <2>1. \A u \in Tasks : UsesIn(call[u], a) \in Nat
      BY <1>2
    <2>2. \A u \in Tasks :
            /\ UsesIn(call'[u], a) \in Nat
            /\ UsesIn(call[u], a) = IF u = t THEN UsesIn(call'[u], a) + 1 ELSE UsesIn(call'[u], a)
      BY <1>4, <2>1
    <2> QED
      BY <2>1, <2>2
  <1> HIDE DEF f, g
  <1>7. IsFiniteSet(Pairs(f(a))) /\ count[a] = Cardinality(Pairs(f(a)))
    BY <1>2 DEF Counted, Counts
  <1>8. IsFiniteSet(Pairs(g(a))) /\ Cardinality(Pairs(g(a))) = Cardinality(Pairs(f(a))) - 1
    BY <1>2, <1>6, <1>7, OnePairLess
  <1>11. Cardinality(Pairs(g(a))) \in Nat
    BY <1>8, FS_CardinalityType
  <1>9. /\ count' \in [Buffers -> Nat] /\ count'[a] = count[a] - 1
        /\ \A b \in Buffers : b # a => count'[b] = count[b]
    BY <1>7, <1>8, <1>11 DEF Counted, Counts
  <1>10. Counts'
    <2> SUFFICES ASSUME NEW b \in Buffers
                 PROVE IsFiniteSet(AllUses(b)') /\ count'[b] = Cardinality(AllUses(b)')
      BY <1>9 DEF Counts
    <2>1. CASE b = a
      <3>1. AllUses(b)' = Pairs(g(b))
        BY <1>3
      <3> QED
        BY <1>7, <1>8, <1>9, <2>1, <3>1
    <2>2. CASE b # a
      <3>1. AllUses(b)' = AllUses(b)
        BY <1>2, <1>3, <1>5, <2>2
      <3> QED
        BY <1>9, <2>2, <3>1 DEF Counted, Counts
    <2> QED
      BY <2>1, <2>2
  <1> QED
    BY <1>1, <1>10 DEF Counted
-----------------------------------------------------------------------------
(* A task outside a call has counted what it holds, and nothing else. *)
LEMMA CallerCounts ==
  ASSUME NEW held \in Seq(Buffers), NEW b \in Buffers
  PROVE  Progress(Caller(held)) /\ UsesIn(Caller(held), b) = Times(held, b) /\ Times(held, b) \in Nat
  <1>1. Times(<<>>, b) = 0 /\ Times(held, b) \in Nat
    BY TimesEmpty, TimesIsNat
  <1>2. UsesIn(Caller(held), b) = Times(held, b) + Times(<<>>, b) + 0
    BY DEF UsesIn, AtHand, Caller
  <1>3. Len(<<>>) = 0
    OBVIOUS
  <1> QED
    BY <1>1, <1>2, <1>3 DEF Progress, Caller

(* Within a call, a step that keeps the buffers and only goes on. *)
LEMMA GoesOn ==
  ASSUME IInv, Counted, IInv', NEW t \in Tasks, NEW c,
         call' = [call EXCEPT ![t] = c] \/ call' = WakeAll([call EXCEPT ![t] = c]),
         c.held = call[t].held, c.mine = call[t].mine, c.bh = call[t].bh,
         c.pc \in AtHand <=> call[t].pc \in AtHand,
         Progress(c), count' = count
  PROVE  Counted'
  <1>1. \A b \in Buffers : UsesIn(c, b) = UsesIn(call[t], b)
    BY DEF UsesIn
  <1> QED
    BY <1>1, SameCounts

(* A call that ends and keeps what it has at hand, or had nothing. *)
LEMMA EndsAlike ==
  ASSUME IInv, Counted, IInv', NEW t \in Tasks, NEW held \in Seq(Buffers),
         call' = Returned(t, held) \/ call' = WakeAll(Returned(t, held)),
         \A b \in Buffers : Times(held, b) = UsesIn(call[t], b), count' = count
  PROVE  Counted'
  <1>1. \A b \in Buffers : UsesIn(Caller(held), b) = UsesIn(call[t], b)
    BY CallerCounts
  <1>2. Progress(Caller(held))
    BY CallerCounts, Constants DEF Buffers
  <1> QED
    BY <1>1, <1>2, SameCounts DEF Returned

(* A call that ends and lets go of one buffer. *)
LEMMA EndsWithout ==
  ASSUME IInv, Counted, IInv', NEW t \in Tasks, NEW held \in Seq(Buffers), NEW a \in Buffers,
         call' = Returned(t, held) \/ call' = WakeAll(Returned(t, held)),
         \A b \in Buffers : UsesIn(call[t], b) = Times(held, b) + IF b = a THEN 1 ELSE 0,
         count' = [count EXCEPT ![a] = count[a] - 1]
  PROVE  Counted'
  <1>1. \A b \in Buffers : /\ UsesIn(call[t], b) = UsesIn(Caller(held), b) + IF b = a THEN 1 ELSE 0
                           /\ UsesIn(Caller(held), b) \in Nat
    BY CallerCounts
  <1>2. Progress(Caller(held))
    BY CallerCounts
  <1> QED
    BY <1>1, <1>2, OneUseLess DEF Returned

(* A call begins. *)
LEMMA GetCounts == ASSUME IInv, Counted, IInv', NEW t \in Tasks, Get(t) PROVE Counted'
  <1>1. PICK op \in Uses[t] \ {"sync", "sync_dev"} :
          \E ids \in IF op \in {"breada", "bread_page"} THEN Ahead[t] ELSE Ones :
            call' = [call EXCEPT ![t].pc = "getblk", ![t].op = op, ![t].todo = ids]
    BY DEF Get
  <1>2. PICK ids : call' = [call EXCEPT ![t].pc = "getblk", ![t].op = op, ![t].todo = ids]
    BY <1>1
  <1> DEFINE c == [call[t] EXCEPT !.pc = "getblk", !.op = op, !.todo = ids]
  <1>3. call' = [call EXCEPT ![t] = c]
    BY <1>2
  <1>4. call[t] = Caller(call[t].held)
    BY DEF Get, At, Counted, Progress
  <1>5. /\ c.held = call[t].held /\ c.mine = <<>> /\ call[t].mine = <<>> /\ c.bh = call[t].bh
        /\ c.pc = "getblk"
    BY <1>4 DEF Caller
  <1> HIDE DEF c
  <1>6. Len(c.mine) <= 1
    BY <1>5
  <1>7. Progress(c)
    BY <1>5, <1>6 DEF Progress
  <1> QED
    BY <1>3, <1>5, <1>7, GoesOn DEF Get, At, AtHand

(* A sync begins. *)
LEMMA SyncCounts == ASSUME IInv, Counted, IInv', NEW t \in Tasks, Sync(t) PROVE Counted'
  <1>0. call[t].pc = "user" /\ call[t] = Caller(call[t].held)
    BY DEF Sync, At, Counted, Progress
  <1>1. call[t] \in Calls /\ call[t].mine = <<>> /\ call[t].pc = "user"
    <2>1. \A held : Caller(held).mine = <<>>
      BY DEF Caller
    <2> QED
      BY <1>0, <2>1, CallFacts
  <1>2. ASSUME NEW c, call' = [call EXCEPT ![t] = c],
               c.held = call[t].held, c.mine = call[t].mine, c.bh = call[t].bh,
               c.pc = "sync", c.op \in {"sync", "sync_dev"}
        PROVE  Counted'
    <2>1. Progress(c)
      BY <1>1, <1>2 DEF Progress
    <2> QED
      BY <1>1, <1>2, <2>1, GoesOn DEF Sync, AtHand
  <1>3. CASE call' = [call EXCEPT ![t].pc = "sync", ![t].op = "sync"]
    <2> DEFINE c == [call[t] EXCEPT !.pc = "sync", !.op = "sync"]
    <2>1. call' = [call EXCEPT ![t] = c]
      BY <1>3
    <2>2. /\ c.held = call[t].held /\ c.mine = call[t].mine /\ c.bh = call[t].bh
          /\ c.pc = "sync" /\ c.op \in {"sync", "sync_dev"}
      BY <1>1 DEF Calls
    <2> HIDE DEF c
    <2> QED
      BY <1>2, <2>1, <2>2
  <1>4. ASSUME NEW dev \in Devices,
               call' = [call EXCEPT ![t].pc = "sync", ![t].op = "sync_dev", ![t].dev = dev]
        PROVE  Counted'
    <2> DEFINE c == [call[t] EXCEPT !.pc = "sync", !.op = "sync_dev", !.dev = dev]
    <2>1. call' = [call EXCEPT ![t] = c]
      BY <1>4
    <2>2. /\ c.held = call[t].held /\ c.mine = call[t].mine /\ c.bh = call[t].bh
          /\ c.pc = "sync" /\ c.op \in {"sync", "sync_dev"}
      BY <1>1 DEF Calls
    <2> HIDE DEF c
    <2> QED
      BY <1>2, <2>1, <2>2
  <1> QED
    BY <1>3, <1>4 DEF Sync

(* A holder lets go: the buffer goes from what it holds to its hand. *)
LEMMA BrelseCounts == ASSUME IInv, Counted, IInv', NEW t \in Tasks, Brelse(t) PROVE Counted'
  <1> DEFINE held == call[t].held
             rest == SubSeq(held, 1, Len(held) - 1)
             c == [call[t] EXCEPT !.pc = "brelse", !.bh = held[Len(held)], !.held = rest]
  <1>1. held \in Seq(Buffers) /\ held # <<>>
    BY CallFacts DEF Brelse
  <1>2. call' = [call EXCEPT ![t] = c]
    BY DEF Brelse
  <1>3. call[t] = Caller(held)
    BY DEF Brelse, At, Counted, Progress
  <1>4. /\ c.held = rest /\ c.mine = <<>> /\ call[t].mine = <<>> /\ c.bh = held[Len(held)]
        /\ c.pc = "brelse" /\ c.op = "none"
    BY <1>3 DEF Caller
  <1>5. \A b \in Buffers : Times(held, b) = Times(rest, b) + IF held[Len(held)] = b THEN 1 ELSE 0
    BY <1>1, TimesFront
  <1>6. \A b \in Buffers : Times(held, b) \in Nat /\ Times(<<>>, b) = 0
    BY <1>1, TimesIsNat, TimesEmpty
  <1>7. \A b \in Buffers : Times(rest, b) \in Nat
    <2>1. rest \in Seq(Buffers)
      BY <1>1
    <2> QED
      BY <2>1, TimesIsNat
  <1>8. call[t].held = held /\ call[t].pc = "user"
    BY DEF Brelse, At
  <1> HIDE DEF c, held, rest
  <1>9. \A b \in Buffers : UsesIn(c, b) = UsesIn(call[t], b)
    BY <1>4, <1>5, <1>6, <1>7, <1>8 DEF UsesIn, AtHand
  <1>10. Progress(c)
    BY <1>4 DEF Progress
  <1> QED
    BY <1>2, <1>9, <1>10, SameCounts DEF Brelse

(* get_hash_table counts the buffer that is at hand from then on. *)
LEMMA FindCounts == ASSUME IInv, Counted, IInv', NEW t \in Tasks, Find(t) PROVE Counted'
  <1>1. PICK a \in Buffers : /\ call' = [call EXCEPT ![t].pc = "found", ![t].bh = a]
                             /\ count' = [count EXCEPT ![a] = count[a] + 1]
    BY DEF Find, Cached
  <1> DEFINE c == [call[t] EXCEPT !.pc = "found", !.bh = a]
  <1>2. call' = [call EXCEPT ![t] = c]
    BY <1>1
  <1>3. /\ c.held = call[t].held /\ c.mine = call[t].mine /\ c.bh = a /\ c.pc = "found"
        /\ c.op = call[t].op /\ call[t].pc = "getblk"
    BY CallFacts DEF Calls, Find, At
  <1> HIDE DEF c
  <1>4. Progress(c)
    BY <1>3 DEF Progress, Counted
  <1>5. \A b \in Buffers : Times(c.held, b) \in Nat /\ Times(c.mine, b) \in Nat
    BY <1>3, CallFacts, TimesIsNat
  <1>6. \A b \in Buffers : UsesIn(c, b) = UsesIn(call[t], b) + IF b = a THEN 1 ELSE 0
    BY <1>3, <1>5 DEF UsesIn, AtHand
  <1> QED
    BY <1>1, <1>2, <1>4, <1>6, OneMoreUse

(* getblk counts the buffer that it takes. *)
LEMMA TakeCounts == ASSUME IInv, Counted, IInv', NEW t \in Tasks, Take(t) PROVE Counted'
  <1> DEFINE a == call[t].bh
             c == [call[t] EXCEPT !.pc = "got"]
  <1>1. a \in Buffers /\ count' = [count EXCEPT ![a] = count[a] + 1]
    BY CallFacts DEF Take, Counted, Counts
  <1>2. call' = [call EXCEPT ![t] = c]
    BY DEF Take, Goto
  <1>3. /\ c.held = call[t].held /\ c.mine = call[t].mine /\ c.bh = a /\ c.pc = "got"
        /\ c.op = call[t].op /\ call[t].pc = "chosen" /\ call[t].bh = a
    BY CallFacts DEF Calls, Take, At
  <1> HIDE DEF c, a
  <1>4. Progress(c)
    BY <1>3 DEF Progress, Counted
  <1>5. \A b \in Buffers : Times(c.held, b) \in Nat /\ Times(c.mine, b) \in Nat
    BY <1>3, CallFacts, TimesIsNat
  <1>6. \A b \in Buffers : UsesIn(c, b) = UsesIn(call[t], b) + IF b = a THEN 1 ELSE 0
    BY <1>3, <1>5 DEF UsesIn, AtHand
  <1> QED
    BY <1>1, <1>2, <1>4, <1>6, OneMoreUse

(* A step to another label, on the same side of the count. *)
LEMMA GotoCounts ==
  ASSUME IInv, Counted, IInv', NEW t \in Tasks, NEW label, Goto(t, label),
         Progress([call[t] EXCEPT !.pc = label]),
         label \in AtHand <=> call[t].pc \in AtHand, count' = count
  PROVE  Counted'
  <1> DEFINE c == [call[t] EXCEPT !.pc = label]
  <1>1. call' = [call EXCEPT ![t] = c]
    BY DEF Goto
  <1>2. c.held = call[t].held /\ c.mine = call[t].mine /\ c.bh = call[t].bh /\ c.pc = label
    BY CallFacts DEF Calls
  <1> HIDE DEF c
  <1> QED
    BY <1>1, <1>2, GoesOn DEF c

(* get_hash_table keeps what it wanted, or lets go of it. *)
LEMMA FoundCounts == ASSUME IInv, Counted, IInv', NEW t \in Tasks, Found(t) PROVE Counted'
  <1>1. call[t].pc = "found" /\ call[t] \in Calls /\ Progress(call[t])
    BY CallFacts DEF Found, At, Counted
  <1>2. \A label \in {"got", "getblk"} : Progress([call[t] EXCEPT !.pc = label])
    BY <1>1 DEF Progress, Calls
  <1>3. CASE Goto(t, "got") /\ UNCHANGED count
    BY <1>1, <1>2, <1>3, GotoCounts DEF AtHand
  <1>4. CASE Goto(t, "getblk") /\ count' = [count EXCEPT ![call[t].bh] = @ - 1]
    <2> DEFINE a == call[t].bh
               c == [call[t] EXCEPT !.pc = "getblk"]
    <2>1. call' = [call EXCEPT ![t] = c] /\ count' = [count EXCEPT ![a] = count[a] - 1]
      BY <1>4 DEF Goto
    <2>2. /\ c.held = call[t].held /\ c.mine = call[t].mine /\ c.bh = a /\ c.pc = "getblk"
          /\ a \in Buffers /\ call[t].bh = a
      BY <1>1, CallFacts DEF Calls
    <2>3. Progress(c)
      BY <1>2
    <2> HIDE DEF c, a
    <2>4. \A b \in Buffers : Times(c.held, b) \in Nat /\ Times(c.mine, b) \in Nat
      BY <2>2, CallFacts, TimesIsNat
    <2>5. \A b \in Buffers : /\ UsesIn(call[t], b) = UsesIn(c, b) + IF b = a THEN 1 ELSE 0
                             /\ UsesIn(c, b) \in Nat
      BY <1>1, <2>2, <2>4 DEF UsesIn, AtHand
    <2> QED
      BY <2>1, <2>2, <2>3, <2>5, OneUseLess
  <1> QED
    BY <1>3, <1>4 DEF Found

(* free_block of a block that has no buffer. *)
LEMMA NoBufferCounts == ASSUME IInv, Counted, IInv', NEW t \in Tasks, NoBuffer(t) PROVE Counted'
  <1>1. call[t].mine = <<>> /\ call[t].pc = "getblk" /\ call[t].held \in Seq(Buffers)
    BY CallFacts DEF NoBuffer, NotCached, At, Counted, Progress
  <1>2. \A b \in Buffers : Times(call[t].held, b) = UsesIn(call[t], b)
    BY <1>1, TimesEmpty, TimesIsNat DEF UsesIn, AtHand
  <1> QED
    BY <1>1, <1>2, EndsAlike DEF NoBuffer

(* getblk chooses a buffer, which it does not count yet. *)
LEMMA ChooseCounts == ASSUME IInv, Counted, IInv', NEW t \in Tasks, Choose(t) PROVE Counted'
  <1>1. PICK n : call' = [call EXCEPT ![t].pc = "chosen", ![t].bh = free[n]]
    BY DEF Choose
  <1> DEFINE c == [call[t] EXCEPT !.pc = "chosen", !.bh = free[n]]
  <1>2. call' = [call EXCEPT ![t] = c]
    BY <1>1
  <1>3. /\ c.held = call[t].held /\ c.mine = call[t].mine /\ c.pc = "chosen"
        /\ c.op = call[t].op /\ call[t].pc = "getblk"
    BY CallFacts DEF Calls, Choose, NotCached, At
  <1> HIDE DEF c
  <1>4. Progress(c)
    BY <1>3 DEF Progress, Counted
  <1>5. \A b \in Buffers : UsesIn(c, b) = UsesIn(call[t], b)
    BY <1>3 DEF UsesIn, AtHand
  <1> QED
    BY <1>2, <1>4, <1>5, SameCounts DEF Choose

(* getblk sleeps for a buffer. *)
LEMMA SleepCounts ==
  ASSUME IInv, Counted, IInv', NEW t \in Tasks, SleepOnBufferWait(t) PROVE Counted'
  <1>1. call[t].pc = "getblk" /\ call[t] \in Calls /\ Progress(call[t])
    BY CallFacts DEF SleepOnBufferWait, NotCached, At, Counted
  <1>2. Progress([call[t] EXCEPT !.pc = "buffer_wait"])
    BY <1>1 DEF Progress, Calls
  <1> QED
    BY <1>1, <1>2, GotoCounts DEF SleepOnBufferWait, AtHand

(* getblk looks at everything again, or syncs a device. *)
LEMMA ChosenCounts == ASSUME IInv, Counted, IInv', NEW t \in Tasks, Chosen(t) PROVE Counted'
  <1>1. call[t].pc = "chosen" /\ call[t] \in Calls /\ Progress(call[t])
    BY CallFacts DEF Chosen, At, Counted
  <1>2. CASE Goto(t, "getblk")
    <2>1. Progress([call[t] EXCEPT !.pc = "getblk"])
      BY <1>1 DEF Progress, Calls
    <2> QED
      BY <1>1, <1>2, <2>1, GotoCounts DEF Chosen, AtHand
  <1>3. CASE call' = [call EXCEPT ![t].pc = "sync", ![t].i = 1,
                                  ![t].dev = DeviceOf(buffer[call[t].bh].id), ![t].twice = FALSE]
    <2> DEFINE dev == DeviceOf(buffer[call[t].bh].id)
               c == [call[t] EXCEPT !.pc = "sync", !.i = 1, !.dev = dev, !.twice = FALSE]
    <2>1. call' = [call EXCEPT ![t] = c]
      BY <1>3
    <2> HIDE DEF dev
    <2>2. /\ c.held = call[t].held /\ c.mine = call[t].mine /\ c.bh = call[t].bh
          /\ c.pc = "sync" /\ c.op = call[t].op
      BY <1>1 DEF Calls
    <2> HIDE DEF c
    <2>3. Progress(c)
      BY <1>1, <2>2 DEF Progress
    <2> QED
      BY <1>1, <2>1, <2>2, <2>3, GoesOn DEF Chosen, AtHand
  <1> QED
    BY <1>2, <1>3 DEF Chosen
-----------------------------------------------------------------------------
(* getblk alone: the buffer at hand is what the task holds from then on. *)
LEMMA GotHeldCounts == ASSUME IInv, Counted, IInv', NEW t \in Tasks, GotHeld(t) PROVE Counted'
  <1>1. /\ call[t].mine = <<>> /\ call[t].pc = "got" /\ call[t].held \in Seq(Buffers)
        /\ call[t].bh \in Buffers
    BY CallFacts DEF GotHeld, At, Counted, Progress
  <1>2. \A b \in Buffers : Times(call[t].held, b) \in Nat /\ Times(<<>>, b) = 0
    BY <1>1, TimesEmpty, TimesIsNat
  <1>3. \A b \in Buffers : Times(Append(call[t].held, call[t].bh), b)
                            = Times(call[t].held, b) + IF call[t].bh = b THEN 1 ELSE 0
    BY <1>1, TimesAppend
  <1>4. \A b \in Buffers : UsesIn(call[t], b) = Times(call[t].held, b) + Times(call[t].mine, b)
                                               + IF call[t].bh = b THEN 1 ELSE 0
    BY <1>1 DEF UsesIn, AtHand
  <1>5. \A b \in Buffers : Times(Append(call[t].held, call[t].bh), b) = UsesIn(call[t], b)
    BY <1>1, <1>2, <1>3, <1>4
  <1>6. Append(call[t].held, call[t].bh) \in Seq(Buffers)
    BY <1>1
  <1> QED
    BY <1>5, <1>6, EndsAlike DEF GotHeld

(* free_block lets go of the buffer. *)
LEMMA GotFreedCounts == ASSUME IInv, Counted, IInv', NEW t \in Tasks, GotFreed(t) PROVE Counted'
  <1>1. /\ call[t].mine = <<>> /\ call[t].pc = "got" /\ call[t].held \in Seq(Buffers)
        /\ call[t].bh \in Buffers
    BY CallFacts DEF GotFreed, At, Counted, Progress
  <1>2. \A b \in Buffers : Times(call[t].held, b) \in Nat /\ Times(<<>>, b) = 0
    BY <1>1, TimesEmpty, TimesIsNat
  <1>3. \A b \in Buffers : UsesIn(call[t], b) = Times(call[t].held, b) + Times(call[t].mine, b)
                                               + IF call[t].bh = b THEN 1 ELSE 0
    BY <1>1 DEF UsesIn, AtHand
  <1>4. \A b \in Buffers : UsesIn(call[t], b) = Times(call[t].held, b) + IF b = call[t].bh THEN 1 ELSE 0
    BY <1>1, <1>2, <1>3
  <1>5. count' = [count EXCEPT ![call[t].bh] = count[call[t].bh] - 1]
    BY DEF GotFreed
  <1> QED
    BY <1>1, <1>4, <1>5, EndsWithout DEF GotFreed

(* brelse lets go of the buffer. *)
LEMMA ReleasedCounts == ASSUME IInv, Counted, IInv', NEW t \in Tasks, Released(t) PROVE Counted'
  <1>1. /\ call[t].mine = <<>> /\ call[t].pc = "brelse" /\ call[t].held \in Seq(Buffers)
        /\ call[t].bh \in Buffers
    BY CallFacts DEF Released, At, Counted, Progress
  <1>2. \A b \in Buffers : Times(call[t].held, b) \in Nat /\ Times(<<>>, b) = 0
    BY <1>1, TimesEmpty, TimesIsNat
  <1>3. \A b \in Buffers : UsesIn(call[t], b) = Times(call[t].held, b) + Times(call[t].mine, b)
                                               + IF call[t].bh = b THEN 1 ELSE 0
    BY <1>1 DEF UsesIn, AtHand
  <1>4. \A b \in Buffers : UsesIn(call[t], b) = Times(call[t].held, b) + IF b = call[t].bh THEN 1 ELSE 0
    BY <1>1, <1>2, <1>3
  <1>5. count' = [count EXCEPT ![call[t].bh] = count[call[t].bh] - 1]
    BY DEF Released
  <1> QED
    BY <1>1, <1>4, <1>5, EndsWithout DEF Released

(* The buffer at hand is put with those to look at. *)
LEMMA ToCheckCounts ==
  ASSUME IInv, Counted, IInv', NEW t \in Tasks, call[t].pc \in {"got", "read"}, ToCheck(t, After(t)),
         call[t].op \in {"bread", "breada", "bread_page"},
         call[t].op # "bread_page" => call[t].mine = <<>>, count' = count
  PROVE  Counted'
  <1> DEFINE label == After(t)
             todo == Tail(call[t].todo)
             mine == Append(call[t].mine, call[t].bh)
             c == [call[t] EXCEPT !.pc = label, !.todo = todo, !.mine = mine]
  <1>1. label \in {"getblk", "check"} /\ (call[t].op = "bread" => label = "check")
    BY DEF After
  <1>2. call[t].mine \in Seq(Buffers) /\ call[t].bh \in Buffers /\ call[t].held \in Seq(Buffers)
    BY CallFacts
  <1>3. call' = [call EXCEPT ![t] = c]
    BY DEF ToCheck
  <1>4. Len(mine) = Len(call[t].mine) + 1 /\ (call[t].mine = <<>> => Len(call[t].mine) = 0)
    BY <1>2
  <1>5. \A b \in Buffers : Times(mine, b) = Times(call[t].mine, b) + IF call[t].bh = b THEN 1 ELSE 0
    BY <1>2, TimesAppend
  <1>6. \A b \in Buffers : Times(call[t].mine, b) \in Nat /\ Times(call[t].held, b) \in Nat
    BY <1>2, TimesIsNat
  <1> HIDE DEF label, todo, mine
  <1>7. c.pc = label /\ c.mine = mine /\ c.op = call[t].op /\ c.held = call[t].held
    BY CallFacts DEF Calls
  <1> HIDE DEF c
  <1>8. Progress(c)
    BY <1>1, <1>4, <1>7 DEF Progress
  <1>9. \A b \in Buffers : UsesIn(c, b) = UsesIn(call[t], b)
    <2>1. \A b \in Buffers : UsesIn(c, b) = Times(call[t].held, b) + Times(mine, b)
      BY <1>1, <1>6, <1>5, <1>7 DEF UsesIn, AtHand
    <2>2. \A b \in Buffers : UsesIn(call[t], b) = Times(call[t].held, b) + Times(call[t].mine, b)
                                                 + IF call[t].bh = b THEN 1 ELSE 0
      BY DEF UsesIn, AtHand
    <2> QED
      BY <1>5, <1>6, <2>1, <2>2
  <1> QED
    BY <1>3, <1>8, <1>9, SameCounts

(* A block that is there, or has to be read. *)
LEMMA GotReadCounts == ASSUME IInv, Counted, IInv', NEW t \in Tasks, GotRead(t) PROVE Counted'
  <1>1. /\ call[t].pc = "got" /\ call[t].op \in {"bread", "breada", "bread_page"}
        /\ call[t] \in Calls /\ Progress(call[t])
    BY CallFacts DEF GotRead, At, Counted
  <1>2. call[t].op # "bread_page" => call[t].mine = <<>>
    BY <1>1 DEF GotRead, Further, Progress
  <1>3. CASE ToCheck(t, After(t))
    BY <1>1, <1>2, <1>3, ToCheckCounts DEF GotRead
  <1>4. CASE Goto(t, "read")
    <2>1. Progress([call[t] EXCEPT !.pc = "read"])
      BY <1>1, <1>2 DEF Progress, Calls
    <2> QED
      BY <1>1, <1>4, <2>1, GotoCounts DEF GotRead, AtHand
  <1> QED
    BY <1>3, <1>4 DEF GotRead

(* The read is queued. *)
LEMMA ReadCounts == ASSUME IInv, Counted, IInv', NEW t \in Tasks, Read(t) PROVE Counted'
  <1>1. /\ call[t].pc = "read" /\ call[t].op \in {"bread", "breada", "bread_page"}
        /\ call[t].op # "bread_page" => call[t].mine = <<>>
    BY DEF Read, At, Counted, Progress
  <1> QED
    BY <1>1, ToCheckCounts DEF Read

(* breada drops one of the other blocks, without a word. *)
LEMMA NextAheadCounts ==
  ASSUME IInv, Counted, IInv', NEW t \in Tasks, call[t].pc \in {"got", "read_ahead"}, NextAhead(t),
         call[t].mine # <<>>
  PROVE  Counted'
  <1> DEFINE label == After(t)
             todo == Tail(call[t].todo)
             a == call[t].bh
             c == [call[t] EXCEPT !.pc = label, !.todo = todo]
  <1>1. label \in {"getblk", "check"} /\ a \in Buffers /\ call[t].bh = a
    BY CallFacts DEF After
  <1>2. call' = [call EXCEPT ![t] = c] /\ count' = [count EXCEPT ![a] = count[a] - 1]
    BY DEF NextAhead
  <1>3. label = "getblk" => call[t].op # "bread"
    BY DEF After
  <1> HIDE DEF label, todo, a
  <1>4. /\ c.held = call[t].held /\ c.mine = call[t].mine /\ c.bh = call[t].bh /\ c.pc = label
        /\ c.op = call[t].op
    BY CallFacts DEF Calls
  <1> HIDE DEF c
  <1>5. Progress(c)
    <2>1. Progress(call[t])
      BY DEF Counted
    <2> QED
      BY <1>1, <1>3, <1>4, <2>1 DEF Progress
  <1>6. \A b \in Buffers : Times(c.held, b) \in Nat /\ Times(c.mine, b) \in Nat
    BY <1>4, CallFacts, TimesIsNat
  <1>7. \A b \in Buffers : /\ UsesIn(call[t], b) = UsesIn(c, b) + IF b = a THEN 1 ELSE 0
                           /\ UsesIn(c, b) \in Nat
    BY <1>1, <1>4, <1>6 DEF UsesIn, AtHand
  <1> QED
    BY <1>1, <1>2, <1>5, <1>7, OneUseLess

(* breada looks at one of the other blocks. *)
LEMMA GotFurtherCounts == ASSUME IInv, Counted, IInv', NEW t \in Tasks, GotFurther(t) PROVE Counted'
  <1>1. /\ call[t].pc = "got" /\ call[t].op = "breada" /\ call[t].mine # <<>>
        /\ call[t] \in Calls /\ Progress(call[t])
    BY CallFacts DEF GotFurther, At, Counted, Further
  <1>2. CASE Goto(t, "read_ahead") /\ UNCHANGED <<count, free, cpu>>
    <2>1. Progress([call[t] EXCEPT !.pc = "read_ahead"])
      BY <1>1 DEF Progress, Calls
    <2> QED
      BY <1>1, <1>2, <2>1, GotoCounts DEF AtHand
  <1>3. CASE NextAhead(t)
    BY <1>1, <1>3, NextAheadCounts
  <1> QED
    BY <1>2, <1>3 DEF GotFurther

(* breada's second request for its first block is queued, or given up. *)
LEMMA ReadAheadCounts == ASSUME IInv, Counted, IInv', NEW t \in Tasks, ReadAhead(t) PROVE Counted'
  <1>1. call[t].pc = "read_ahead" /\ call[t].mine # <<>>
    BY CallFacts DEF ReadAhead, At, GoodCall
  <1> QED
    BY <1>1, NextAheadCounts DEF ReadAhead

(* The one buffer of bread and breada is held by the task, or let go. *)
LEMMA CheckReadCounts == ASSUME IInv, Counted, IInv', NEW t \in Tasks, CheckRead(t) PROVE Counted'
  <1> DEFINE a == call[t].mine[1]
  <1>1. call[t].mine \in Seq(Buffers) /\ call[t].held \in Seq(Buffers) /\ call[t].pc = "check"
    BY CallFacts DEF CheckRead, At
  <1>2. call[t].mine # <<>> /\ Len(call[t].mine) <= 1
    BY CallFacts DEF CheckRead, At, GoodCall, Counted, Progress
  <1>3. a \in Buffers /\ call[t].mine = Append(<<>>, a)
    BY <1>1, <1>2
  <1> HIDE DEF a
  <1>4. \A b \in Buffers : /\ Times(call[t].mine, b) = IF a = b THEN 1 ELSE 0
                           /\ Times(call[t].held, b) \in Nat
    <2>1. <<>> \in Seq(Buffers)
      OBVIOUS
    <2>2. \A b \in Buffers : Times(Append(<<>>, a), b) = Times(<<>>, b) + IF a = b THEN 1 ELSE 0
      BY <1>3, <2>1, TimesAppend
    <2> QED
      BY <1>1, <1>3, <2>2, TimesEmpty, TimesIsNat
  <1>5. \A b \in Buffers : UsesIn(call[t], b) = Times(call[t].held, b) + IF b = a THEN 1 ELSE 0
    BY <1>1, <1>4 DEF UsesIn, AtHand
  <1>6. CASE call' = Returned(t, Append(call[t].held, a)) /\ UNCHANGED count
    <2>1. Append(call[t].held, a) \in Seq(Buffers)
      BY <1>1, <1>3
    <2>2. \A b \in Buffers : Times(Append(call[t].held, a), b)
                              = Times(call[t].held, b) + IF a = b THEN 1 ELSE 0
      BY <1>1, <1>3, TimesAppend
    <2>3. \A b \in Buffers : Times(Append(call[t].held, a), b) = UsesIn(call[t], b)
      BY <1>5, <2>2
    <2> QED
      BY <1>6, <2>1, <2>3, EndsAlike
  <1>7. CASE call' = WakeAll(Returned(t, call[t].held)) /\ count' = [count EXCEPT ![a] = @ - 1]
    BY <1>1, <1>3, <1>5, <1>7, EndsWithout
  <1> QED
    BY <1>6, <1>7 DEF CheckRead, a

(* bread_page lets go of its first buffer. *)
LEMMA CheckPageCounts == ASSUME IInv, Counted, IInv', NEW t \in Tasks, CheckPage(t) PROVE Counted'
  <1> DEFINE a == Head(call[t].mine)
             rest == Tail(call[t].mine)
  <1>1. /\ call[t].mine \in Seq(Buffers) /\ call[t].held \in Seq(Buffers) /\ call[t].pc = "check"
        /\ call[t].op = "bread_page" /\ call[t].mine # <<>>
    BY CallFacts DEF CheckPage, At, GoodCall
  <1>2. a \in Buffers /\ rest \in Seq(Buffers) /\ (Len(call[t].mine) <= 1 => rest = <<>>)
    BY <1>1
  <1>3. \A b \in Buffers : Times(call[t].mine, b) = Times(rest, b) + IF a = b THEN 1 ELSE 0
    BY <1>1, TimesTail
  <1>4. \A b \in Buffers : Times(rest, b) \in Nat /\ Times(call[t].held, b) \in Nat
    BY <1>1, <1>2, TimesIsNat
  <1>5. count' = [count EXCEPT ![a] = count[a] - 1]
    BY DEF CheckPage
  <1>6. CASE Len(call[t].mine) > 1 /\ call' = WakeAll([call EXCEPT ![t].mine = Tail(@)])
    <2> DEFINE c == [call[t] EXCEPT !.mine = rest]
    <2>1. call' = WakeAll([call EXCEPT ![t] = c])
      BY <1>6
    <2> HIDE DEF a, rest
    <2>2. /\ c.held = call[t].held /\ c.mine = rest /\ c.bh = call[t].bh /\ c.pc = call[t].pc
          /\ c.op = call[t].op
      BY CallFacts DEF Calls
    <2> HIDE DEF c
    <2>3. Progress(c)
      BY <1>1, <2>2 DEF Progress
    <2>4. \A b \in Buffers : /\ UsesIn(call[t], b) = UsesIn(c, b) + IF b = a THEN 1 ELSE 0
                             /\ UsesIn(c, b) \in Nat
      BY <1>1, <1>3, <1>4, <2>2 DEF UsesIn, AtHand
    <2> QED
      BY <1>2, <1>5, <2>1, <2>3, <2>4, OneUseLess
  <1>7. CASE ~(Len(call[t].mine) > 1) /\ call' = WakeAll(Returned(t, call[t].held))
    <2>1. rest = <<>>
      BY <1>1, <1>2, <1>7
    <2> HIDE DEF a, rest
    <2>2. \A b \in Buffers : UsesIn(call[t], b) = Times(call[t].held, b) + IF b = a THEN 1 ELSE 0
      BY <1>1, <1>3, <1>4, <2>1, TimesEmpty DEF UsesIn, AtHand
    <2> QED
      BY <1>1, <1>2, <1>5, <1>7, <2>2, EndsWithout
  <1> QED
    BY <1>6, <1>7 DEF CheckPage
-----------------------------------------------------------------------------
(* A sync uses no buffer; getblk's has what its caller has. *)
LEMMA SyncingCounts ==
  ASSUME IInv, Counted, IInv', NEW t \in Tasks,
         SyncNext(t) \/ SyncWrite(t) \/ Write(t) \/ SyncAgain(t)
  PROVE  Counted'
  <1>1. /\ call[t].pc \in {"sync", "write"} /\ call[t] \in Calls /\ Progress(call[t])
        /\ count' = count
    BY CallFacts DEF SyncNext, SyncWrite, Write, SyncAgain, MoreToSync, At, Counted
  <1>2. ASSUME NEW c, call' = [call EXCEPT ![t] = c], c.held = call[t].held, c.mine = call[t].mine,
               c.bh = call[t].bh, c.pc \in {"sync", "write"}, c.op = call[t].op
        PROVE  Counted'
    <2>1. Progress(c)
      BY <1>1, <1>2 DEF Progress
    <2> QED
      BY <1>1, <1>2, <2>1, GoesOn DEF AtHand
  <1>3. CASE SyncNext(t)
    <2>1. PICK j : call' = [call EXCEPT ![t].i = j]
      BY <1>3 DEF SyncNext
    <2> DEFINE c == [call[t] EXCEPT !.i = j]
    <2>2. call' = [call EXCEPT ![t] = c]
      BY <2>1
    <2>3. /\ c.held = call[t].held /\ c.mine = call[t].mine /\ c.bh = call[t].bh
          /\ c.pc = call[t].pc /\ c.op = call[t].op
      BY <1>1 DEF Calls
    <2> HIDE DEF c
    <2> QED
      BY <1>1, <1>2, <2>2, <2>3
  <1>4. CASE SyncWrite(t)
    <2> DEFINE c == [call[t] EXCEPT !.pc = "write"]
    <2>2. call' = [call EXCEPT ![t] = c]
      BY <1>4 DEF SyncWrite, Goto
    <2>3. /\ c.held = call[t].held /\ c.mine = call[t].mine /\ c.bh = call[t].bh
          /\ c.pc = "write" /\ c.op = call[t].op
      BY <1>1 DEF Calls
    <2> HIDE DEF c
    <2> QED
      BY <1>1, <1>2, <2>2, <2>3
  <1>5. CASE Write(t)
    <2> DEFINE c == [call[t] EXCEPT !.pc = "sync", !.i = call[t].i + 1]
    <2>2. call' = [call EXCEPT ![t] = c]
      BY <1>5 DEF Write
    <2>3. /\ c.held = call[t].held /\ c.mine = call[t].mine /\ c.bh = call[t].bh
          /\ c.pc = "sync" /\ c.op = call[t].op
      BY <1>1 DEF Calls
    <2> HIDE DEF c
    <2> QED
      BY <1>1, <1>2, <2>2, <2>3
  <1>6. CASE SyncAgain(t)
    <2> DEFINE c == [call[t] EXCEPT !.i = 1, !.twice = TRUE]
    <2>2. call' = [call EXCEPT ![t] = c]
      BY <1>6 DEF SyncAgain
    <2>3. /\ c.held = call[t].held /\ c.mine = call[t].mine /\ c.bh = call[t].bh
          /\ c.pc = call[t].pc /\ c.op = call[t].op
      BY <1>1 DEF Calls
    <2> HIDE DEF c
    <2> QED
      BY <1>1, <1>2, <2>2, <2>3
  <1> QED
    BY <1>3, <1>4, <1>5, <1>6

(* A sync is through. *)
LEMMA SyncedCounts == ASSUME IInv, Counted, IInv', NEW t \in Tasks, Synced(t) PROVE Counted'
  <1>1. call[t].pc = "sync" /\ call[t] \in Calls /\ Progress(call[t]) /\ call[t].held \in Seq(Buffers)
    BY CallFacts DEF Synced, At, Counted
  <1>2. CASE call[t].op \in {"sync", "sync_dev"}
    <2>1. \A b \in Buffers : Times(call[t].held, b) = UsesIn(call[t], b)
      BY <1>1, <1>2, TimesEmpty, TimesIsNat DEF UsesIn, AtHand, Progress
    <2> QED
      BY <1>1, <1>2, <2>1, EndsAlike DEF Synced
  <1>3. CASE call[t].op \notin {"sync", "sync_dev"}
    <2> DEFINE c == [call[t] EXCEPT !.pc = "chosen", !.i = 1, !.dev = EveryDevice, !.twice = FALSE]
    <2>1. call' = [call EXCEPT ![t] = c]
      BY <1>3 DEF Synced
    <2>2. /\ c.held = call[t].held /\ c.mine = call[t].mine /\ c.bh = call[t].bh
          /\ c.pc = "chosen" /\ c.op = call[t].op
      BY <1>1 DEF Calls
    <2> HIDE DEF c
    <2>3. Progress(c)
      BY <1>1, <2>2 DEF Progress
    <2> QED
      BY <1>1, <2>1, <2>2, <2>3, GoesOn DEF Synced, AtHand
  <1> QED
    BY <1>2, <1>3

(* Steps that leave the calls and the counts alone. *)
LEMMA AloneCounts == ASSUME Counted, call' = call, count' = count PROVE Counted'
  <1>1. \A b \in Buffers : AllUses(b)' = AllUses(b)
    BY DEF AllUses, UsesOf, HasAtHand
  <1> QED
    BY <1>1 DEF Counted, Counts

(* Every step of a call counts what it uses. *)
LEMMA StepCounts == ASSUME IInv, Counted, IInv', NEW t \in Tasks, Step(t) PROVE Counted'
  BY FindCounts, FoundCounts, NoBufferCounts, ChooseCounts, SleepCounts, ChosenCounts, TakeCounts,
     GotHeldCounts, GotFreedCounts, GotReadCounts, ReadCounts, GotFurtherCounts, ReadAheadCounts,
     CheckReadCounts, CheckPageCounts, ReleasedCounts, SyncingCounts, SyncedCounts, Zenon
  DEF Step

(* Every step does. *)
LEMMA NextCounted == IInv /\ IInv' /\ Counted /\ [Next]_vars => Counted'
  <1> SUFFICES ASSUME IInv, IInv', Counted, [Next]_vars PROVE Counted'
    OBVIOUS
  <1>1. CASE UNCHANGED vars
    BY <1>1, AloneCounts DEF vars
  <1>2. ASSUME NEW t \in Tasks,
               Get(t) \/ Sync(t) \/ Change(t) \/ Brelse(t) \/ Step(t) \/ SwitchTo(t)
        PROVE Counted'
    <2>1. CASE Change(t) \/ SwitchTo(t)
      BY <2>1, AloneCounts DEF Change, SwitchTo
    <2> QED
      BY <1>2, <2>1, GetCounts, SyncCounts, BrelseCounts, StepCounts, Zenon
  <1>3. ASSUME NEW b \in Buffers, EndTransfer(b) PROVE Counted'
    BY <1>3, AloneCounts DEF EndTransfer
  <1> QED
    BY <1>1, <1>2, <1>3, Zenon DEF Next

(* Nobody uses anything at first. *)
LEMMA InitCounted == Init => Counted
  <1> SUFFICES ASSUME Init PROVE Counted
    OBVIOUS
  <1>1. \A t \in Tasks : call[t] = Caller(<<>>)
    BY DEF Init
  <1>2. <<>> \in Seq(Buffers) /\ 1 \in Buffers
    BY Constants DEF Buffers
  <1>3. \A t \in Tasks, b \in Buffers : UsesOf(t, b) = 0
    <2>1. IInv
      BY InitIInv
    <2> QED
      BY <1>1, <1>2, <2>1, UsesAreNat, CallerCounts, TimesEmpty
  <1>4. \A b \in Buffers : AllUses(b) = {}
    <2>1. 1 .. 0 = {}
      OBVIOUS
    <2> QED
      BY <1>3, <2>1 DEF AllUses
  <1>5. Counts
    BY <1>4, FS_EmptySet DEF Init, Counts
  <1>6. \A t \in Tasks : Progress(call[t])
    BY <1>1, <1>2, CallerCounts
  <1> QED
    BY <1>5, <1>6 DEF Counted

(* The counts are right in every state, and the calls as far as they are. *)
THEOREM SpecCounted == Spec => []Counted
  BY SpecIInv, InitCounted, NextCounted, PTL DEF Spec

(* b_count is the users of the buffer (fs.h:81), so that brelse() never     *)
(* finds a buffer that is free already.                                     *)
THEOREM SpecCountIsUsers == Spec => []CountIsUsers
  <1>1. Counted => CountIsUsers
    BY DEF Counted, Counts, CountIsUsers
  <1> QED
    BY <1>1, SpecCounted, PTL

(* The variables stay what their types say: no count goes below zero. *)
THEOREM SpecTypeOK == Spec => []TypeOK
  <1>1. IInv /\ Counted => TypeOK
    BY DEF IInv, GoodBuffers, BufferType, GoodCalls, Counted, Counts, TypeOK
  <1> QED
    BY <1>1, SpecIInv, SpecCounted, PTL
-----------------------------------------------------------------------------
(* Who is at a buffer for his block after a step was there before. *)
NobodyNew == \A u \in Tasks : call'[u].pc \in {"found", "got"} => call'[u] = call[u]

(* Who is woken is not at a buffer. *)
LEMMA WokenElsewhere ==
  \A d : d.pc = "buffer_wait" => [d EXCEPT !.pc = "getblk"].pc \notin {"found", "got"}
  OBVIOUS

(* One task's call goes on to something else. *)
LEMMA OneElsewhere ==
  ASSUME IInv, NEW t \in Tasks, NEW c, c.pc \notin {"found", "got"},
         call' = [call EXCEPT ![t] = c] \/ call' = WakeAll([call EXCEPT ![t] = c])
  PROVE  NobodyNew
  <1> DEFINE f == [call EXCEPT ![t] = c]
  <1>1. \A u \in Tasks : f[u] = IF u = t THEN c ELSE call[u]
    BY DEF IInv, GoodCalls
  <1>2. \A u \in Tasks : \/ call'[u] = f[u]
                         \/ f[u].pc = "buffer_wait" /\ call'[u] = [f[u] EXCEPT !.pc = "getblk"]
    BY DEF WakeAll
  <1> HIDE DEF f
  <1> QED
    BY <1>1, <1>2, WokenElsewhere DEF NobodyNew

(* What a step makes of the task's call c: the operation stays or ends, only *)
(* get_hash_table and getblk's taking a buffer bring the task to one, only   *)
(* getblk puts it to sleep, and within a call what it holds stays and what   *)
(* it has got and has to get does not become more.                           *)
Outstanding(c) == Len(c.mine) + Len(c.todo)
Within(c, d) == d.op = "none" \/ (d.held = c.held /\ Outstanding(d) <= Outstanding(c))
Shape(t, c) ==
  /\ \/ call' = [call EXCEPT ![t] = c]
     \/ call' = WakeAll([call EXCEPT ![t] = c]) /\ c.pc # "buffer_wait"
  /\ c.op = call[t].op \/ (c.op = "none" /\ c.pc = "user")
  /\ c.pc \in {"found", "got"} => Find(t) \/ Found(t) \/ Take(t)
  /\ c.pc = "buffer_wait" => SleepOnBufferWait(t)
  /\ Within(call[t], c)

(* Every step of a call is of this shape. *)
LEMMA StepShape == ASSUME IInv, NEW t \in Tasks, Step(t) PROVE \E c : Shape(t, c)
  <1>1. call[t] \in Calls
    BY CallFacts
  <1>20. /\ call[t].todo \in Seq(Blocks) /\ call[t].mine \in Seq(Buffers) /\ call[t].bh \in Buffers
         /\ Len(call[t].mine) \in Nat /\ Len(call[t].todo) \in Nat /\ Outstanding(call[t]) \in Nat
    <2>1. call[t].todo \in Seq(Blocks) /\ call[t].mine \in Seq(Buffers) /\ call[t].bh \in Buffers
      BY <1>1 DEF Calls
    <2>2. Len(call[t].mine) \in Nat /\ Len(call[t].todo) \in Nat
      BY <2>1
    <2>3. Outstanding(call[t]) \in Nat
      <3>1. \A m, n \in Nat : m + n \in Nat
        OBVIOUS
      <3> QED
        BY <2>2, <3>1, Zenon DEF Outstanding
    <2> QED
      BY <2>1, <2>2, <2>3
  <1> DEFINE e == Caller(call[t].held)
             at(label) == [call[t] EXCEPT !.pc = label]
  <1>2. e.pc = "user" /\ e.op = "none"
    BY DEF Caller
  <1>3. \A label : at(label).pc = label /\ at(label).op = call[t].op /\ Within(call[t], at(label))
    <2>1. ASSUME NEW label
          PROVE  /\ at(label).pc = label /\ at(label).op = call[t].op /\ at(label).held = call[t].held
                 /\ at(label).mine = call[t].mine /\ at(label).todo = call[t].todo
      BY <1>1 DEF Calls
    <2>2. ASSUME NEW label PROVE Outstanding(at(label)) <= Outstanding(call[t])
      <3>1. Outstanding(at(label)) = Outstanding(call[t])
        BY <2>1, Zenon DEF Outstanding
      <3> HIDE DEF at
      <3> QED
        BY <1>20, <3>1
    <2> HIDE DEF at
    <2> QED
      BY <2>1, <2>2 DEF Within
  <1>21. ASSUME NEW d, d.held = call[t].held, d.mine = call[t].mine, d.todo = call[t].todo
         PROVE  Within(call[t], d)
    <2>1. Outstanding(d) = Outstanding(call[t])
      BY <1>21 DEF Outstanding
    <2> QED
      BY <1>20, <1>21, <2>1 DEF Within
  <1>4. CASE NoBuffer(t) \/ GotFreed(t) \/ Released(t)
    <2>1. Shape(t, e)
      BY <1>2, <1>4 DEF Shape, Within, NoBuffer, GotFreed, Released, Returned
    <2> QED
      BY <2>1
  <1>5. CASE GotHeld(t) \/ CheckRead(t)
    <2>1. PICK held : call' = Returned(t, held) \/ call' = WakeAll(Returned(t, held))
      BY <1>5 DEF GotHeld, CheckRead
    <2>2. Shape(t, Caller(held))
      BY <2>1 DEF Shape, Within, Returned, Caller
    <2> QED
      BY <2>2
  <1>6. CASE SleepOnBufferWait(t)
    <2>1. Shape(t, at("buffer_wait"))
      BY <1>3, <1>6 DEF Shape, SleepOnBufferWait, Goto
    <2> QED
      BY <2>1
  <1>7. CASE SyncWrite(t)
    <2>1. Shape(t, at("write"))
      BY <1>3, <1>7 DEF Shape, SyncWrite, Goto
    <2> QED
      BY <2>1
  <1>8. CASE Found(t)
    <2>1. Shape(t, at("got")) \/ Shape(t, at("getblk"))
      BY <1>3, <1>8 DEF Shape, Found, Goto
    <2> QED
      BY <2>1
  <1>9. CASE Take(t)
    <2>1. Shape(t, at("got"))
      BY <1>3, <1>9 DEF Shape, Take, Goto
    <2> QED
      BY <2>1
  <1>10. CASE Find(t)
    <2>1. PICK b : call' = [call EXCEPT ![t].pc = "found", ![t].bh = b]
      BY <1>10 DEF Find
    <2> DEFINE d == [call[t] EXCEPT !.pc = "found", !.bh = b]
    <2>2. d.op = call[t].op /\ d.pc = "found" /\ call' = [call EXCEPT ![t] = d]
      BY <1>1, <2>1 DEF Calls
    <2>4. d.held = call[t].held /\ d.mine = call[t].mine /\ d.todo = call[t].todo
      BY <1>1 DEF Calls
    <2> HIDE DEF d
    <2>3. Shape(t, d)
      BY <1>10, <1>21, <2>2, <2>4 DEF Shape
    <2> QED
      BY <2>3
  <1>11. CASE Choose(t)
    <2>1. PICK n : call' = [call EXCEPT ![t].pc = "chosen", ![t].bh = free[n]]
      BY <1>11 DEF Choose
    <2> DEFINE d == [call[t] EXCEPT !.pc = "chosen", !.bh = free[n]]
    <2>2. d.op = call[t].op /\ d.pc = "chosen" /\ call' = [call EXCEPT ![t] = d]
      BY <1>1, <2>1 DEF Calls
    <2>4. d.held = call[t].held /\ d.mine = call[t].mine /\ d.todo = call[t].todo
      BY <1>1 DEF Calls
    <2> HIDE DEF d
    <2>3. Shape(t, d)
      BY <1>21, <2>2, <2>4 DEF Shape
    <2> QED
      BY <2>3
  <1>12. CASE Chosen(t)
    <2> DEFINE d == [call[t] EXCEPT !.pc = "sync", !.i = 1,
                        !.dev = DeviceOf(buffer[call[t].bh].id), !.twice = FALSE]
    <2>1. d.pc = "sync" /\ d.op = call[t].op
      BY <1>1 DEF Calls
    <2>4. d.held = call[t].held /\ d.mine = call[t].mine /\ d.todo = call[t].todo
      BY <1>1 DEF Calls
    <2>2. call' = [call EXCEPT ![t] = at("getblk")] \/ call' = [call EXCEPT ![t] = d]
      BY <1>12 DEF Chosen, Goto
    <2> HIDE DEF d
    <2>3. Shape(t, at("getblk")) \/ Shape(t, d)
      BY <1>3, <1>21, <2>1, <2>2, <2>4 DEF Shape
    <2> QED
      BY <2>3
  <1>13. CASE GotRead(t) \/ Read(t)
    <2> DEFINE d == [call[t] EXCEPT !.pc = After(t), !.todo = Tail(@), !.mine = Append(@, call[t].bh)]
    <2>1. d.pc \in {"getblk", "check"} /\ d.op = call[t].op
      BY <1>1 DEF Calls, After
    <2>2. call' = [call EXCEPT ![t] = d] \/ call' = [call EXCEPT ![t] = at("read")]
      BY <1>13 DEF GotRead, Read, Goto, ToCheck
    <2>4. Within(call[t], d)
      <3>1. call[t].todo # <<>>
        BY <1>13, CallFacts DEF GotRead, Read, At, GoodCall, Getting
      <3>2. /\ d.held = call[t].held
            /\ Len(d.mine) = Len(call[t].mine) + 1 /\ Len(d.todo) = Len(call[t].todo) - 1
        <4>1. d.held = call[t].held /\ d.mine = Append(call[t].mine, call[t].bh)
              /\ d.todo = Tail(call[t].todo)
          BY <1>1 DEF Calls
        <4> HIDE DEF d
        <4> QED
          BY <1>20, <3>1, <4>1
      <3>3. Len(call[t].mine) \in Nat /\ Len(call[t].todo) \in Nat
        BY <1>20
      <3> HIDE DEF d
      <3>4. Outstanding(d) <= Outstanding(call[t])
        <4>1. PICK m \in Nat, n \in Nat : m = Len(call[t].mine) /\ n = Len(call[t].todo)
          BY <3>3, Zenon
        <4>2. Outstanding(call[t]) = m + n
          BY <4>1, Zenon DEF Outstanding
        <4>3. Len(d.mine) = m + 1 /\ Len(d.todo) = n - 1
          BY <3>2, <4>1, Zenon
        <4>4. Outstanding(d) = (m + 1) + (n - 1)
          BY <4>3, Zenon DEF Outstanding
        <4>5. (m + 1) + (n - 1) <= m + n
          OBVIOUS
        <4> QED
          BY <4>2, <4>4, <4>5, Zenon
      <3> QED
        BY <3>2, <3>4 DEF Within
    <2> HIDE DEF d
    <2>3. Shape(t, at("read")) \/ Shape(t, d)
      BY <1>3, <2>1, <2>2, <2>4 DEF Shape
    <2> QED
      BY <2>3
  <1>14. CASE GotFurther(t) \/ ReadAhead(t)
    <2> DEFINE d == [call[t] EXCEPT !.pc = After(t), !.todo = Tail(@)]
    <2>1. d.pc \in {"getblk", "check"} /\ d.op = call[t].op
      BY <1>1 DEF Calls, After
    <2>2. call' = [call EXCEPT ![t] = d] \/ call' = [call EXCEPT ![t] = at("read_ahead")]
      BY <1>14 DEF GotFurther, ReadAhead, Goto, NextAhead
    <2>4. Within(call[t], d)
      <3>1. call[t].todo # <<>>
        BY <1>14, CallFacts DEF GotFurther, ReadAhead, At, GoodCall, Getting
      <3>2. /\ d.held = call[t].held /\ d.mine = call[t].mine
            /\ Len(d.todo) = Len(call[t].todo) - 1
        <4>1. d.held = call[t].held /\ d.mine = call[t].mine /\ d.todo = Tail(call[t].todo)
          BY <1>1 DEF Calls
        <4> HIDE DEF d
        <4> QED
          BY <1>20, <3>1, <4>1
      <3>3. Len(call[t].mine) \in Nat /\ Len(call[t].todo) \in Nat
        BY <1>20
      <3> HIDE DEF d
      <3>4. Outstanding(d) <= Outstanding(call[t])
        <4>1. PICK m \in Nat, n \in Nat : m = Len(call[t].mine) /\ n = Len(call[t].todo)
          BY <3>3, Zenon
        <4>2. Outstanding(call[t]) = m + n
          BY <4>1, Zenon DEF Outstanding
        <4>3. Len(d.mine) = m /\ Len(d.todo) = n - 1
          BY <3>2, <4>1, Zenon
        <4>4. Outstanding(d) = (m) + (n - 1)
          BY <4>3, Zenon DEF Outstanding
        <4>5. (m) + (n - 1) <= m + n
          OBVIOUS
        <4> QED
          BY <4>2, <4>4, <4>5, Zenon
      <3> QED
        BY <3>2, <3>4 DEF Within
    <2> HIDE DEF d
    <2>3. Shape(t, at("read_ahead")) \/ Shape(t, d)
      BY <1>3, <2>1, <2>2, <2>4 DEF Shape
    <2> QED
      BY <2>3
  <1>15. CASE CheckPage(t)
    <2> DEFINE d == [call[t] EXCEPT !.mine = Tail(@)]
    <2>1. d.pc = "check" /\ d.op = call[t].op
      BY <1>1, <1>15 DEF Calls, CheckPage, At
    <2>2. call' = WakeAll([call EXCEPT ![t] = d]) \/ call' = WakeAll([call EXCEPT ![t] = e])
      BY <1>15 DEF CheckPage, Returned
    <2>4. Within(call[t], d)
      <3>1. call[t].mine # <<>>
        BY <1>15, CallFacts DEF CheckPage, At, GoodCall
      <3>2. /\ d.held = call[t].held /\ d.todo = call[t].todo
            /\ Len(d.mine) = Len(call[t].mine) - 1
        <4>1. d.held = call[t].held /\ d.todo = call[t].todo /\ d.mine = Tail(call[t].mine)
          BY <1>1 DEF Calls
        <4> HIDE DEF d
        <4> QED
          BY <1>20, <3>1, <4>1
      <3>3. Len(call[t].mine) \in Nat /\ Len(call[t].todo) \in Nat
        BY <1>20
      <3> HIDE DEF d
      <3>4. Outstanding(d) <= Outstanding(call[t])
        <4>1. PICK m \in Nat, n \in Nat : m = Len(call[t].mine) /\ n = Len(call[t].todo)
          BY <3>3, Zenon
        <4>2. Outstanding(call[t]) = m + n
          BY <4>1, Zenon DEF Outstanding
        <4>3. Len(d.mine) = m - 1 /\ Len(d.todo) = n
          BY <3>2, <4>1, Zenon
        <4>4. Outstanding(d) = (m - 1) + (n)
          BY <4>3, Zenon DEF Outstanding
        <4>5. (m - 1) + (n) <= m + n
          OBVIOUS
        <4> QED
          BY <4>2, <4>4, <4>5, Zenon
      <3> QED
        BY <3>2, <3>4 DEF Within
    <2> HIDE DEF d, e
    <2>3. Shape(t, d) \/ Shape(t, e)
      BY <1>2, <2>1, <2>2, <2>4 DEF Shape, Within
    <2> QED
      BY <2>3
  <1>16. CASE SyncNext(t)
    <2>1. PICK j : call' = [call EXCEPT ![t].i = j]
      BY <1>16 DEF SyncNext
    <2> DEFINE d == [call[t] EXCEPT !.i = j]
    <2>2. d.pc = "sync" /\ d.op = call[t].op
      BY <1>1, <1>16 DEF Calls, SyncNext, MoreToSync, At
    <2>3. call' = [call EXCEPT ![t] = d]
      BY <2>1
    <2>4. d.held = call[t].held /\ d.mine = call[t].mine /\ d.todo = call[t].todo
      BY <1>1 DEF Calls
    <2> HIDE DEF d
    <2>5. Shape(t, d)
      BY <1>21, <2>2, <2>3, <2>4 DEF Shape
    <2> QED
      BY <2>5
  <1>17. CASE Write(t)
    <2> DEFINE d == [call[t] EXCEPT !.pc = "sync", !.i = @ + 1]
    <2>1. d.pc = "sync" /\ d.op = call[t].op
      BY <1>1 DEF Calls
    <2>2. call' = [call EXCEPT ![t] = d]
      BY <1>17 DEF Write
    <2>4. d.held = call[t].held /\ d.mine = call[t].mine /\ d.todo = call[t].todo
      BY <1>1 DEF Calls
    <2> HIDE DEF d
    <2>3. Shape(t, d)
      BY <1>21, <2>1, <2>2, <2>4 DEF Shape
    <2> QED
      BY <2>3
  <1>18. CASE SyncAgain(t)
    <2> DEFINE d == [call[t] EXCEPT !.i = 1, !.twice = TRUE]
    <2>1. d.pc = "sync" /\ d.op = call[t].op
      BY <1>1, <1>18 DEF Calls, SyncAgain, At
    <2>2. call' = [call EXCEPT ![t] = d]
      BY <1>18 DEF SyncAgain
    <2>4. d.held = call[t].held /\ d.mine = call[t].mine /\ d.todo = call[t].todo
      BY <1>1 DEF Calls
    <2> HIDE DEF d
    <2>3. Shape(t, d)
      BY <1>21, <2>1, <2>2, <2>4 DEF Shape
    <2> QED
      BY <2>3
  <1>19. CASE Synced(t)
    <2> DEFINE d == [call[t] EXCEPT !.pc = "chosen", !.i = 1, !.dev = EveryDevice, !.twice = FALSE]
    <2>1. d.pc = "chosen" /\ d.op = call[t].op
      BY <1>1 DEF Calls
    <2>2. call' = [call EXCEPT ![t] = d] \/ call' = [call EXCEPT ![t] = e]
      BY <1>19 DEF Synced, Returned
    <2>4. d.held = call[t].held /\ d.mine = call[t].mine /\ d.todo = call[t].todo
      BY <1>1 DEF Calls
    <2> HIDE DEF d, e
    <2>3. Shape(t, d) \/ Shape(t, e)
      BY <1>2, <1>21, <2>1, <2>2, <2>4 DEF Shape, Within
    <2> QED
      BY <2>3
  <1> HIDE DEF e, at
  <1> QED
    BY <1>4, <1>5, <1>6, <1>7, <1>8, <1>9, <1>10, <1>11, <1>12, <1>13, <1>14, <1>15, <1>16, <1>17,
       <1>18, <1>19, Zenon
    DEF Step

(* The other steps bring nobody to a buffer. *)
LEMMA StepElsewhere ==
  ASSUME IInv, NEW t \in Tasks, Step(t), ~Find(t), ~Found(t), ~Take(t) PROVE NobodyNew
  <1>1. PICK c : Shape(t, c)
    BY StepShape
  <1> QED
    BY <1>1, OneElsewhere DEF Shape

(* Who is at a buffer counts it. *)
LEMMA AtHandIsCounted ==
  ASSUME IInv, Counted, NEW t \in Tasks, call[t].pc \in AtHand PROVE count[call[t].bh] > 0
  <1> DEFINE b == call[t].bh
             f == [u \in Tasks |-> UsesOf(u, b)]
  <1>1. b \in Buffers /\ call[t].held \in Seq(Buffers) /\ call[t].mine \in Seq(Buffers)
    BY CallFacts
  <1>2. f \in [Tasks -> Nat] /\ AllUses(b) = Pairs(f) /\ f[t] = UsesIn(call[t], b)
    BY <1>1, UsesAreNat
  <1>3. Times(call[t].held, b) \in Nat /\ Times(call[t].mine, b) \in Nat
    BY <1>1, TimesIsNat
  <1> HIDE DEF f
  <1>4. f[t] > 0
    BY <1>2, <1>3 DEF UsesIn
  <1>5. IsFiniteSet(Pairs(f)) /\ count[b] = Cardinality(Pairs(f))
    BY <1>1, <1>2 DEF Counted, Counts
  <1> QED
    BY <1>2, <1>4, <1>5, SomePair

(* A step that leaves the blocks of the buffers alone. *)
LEMMA FoundAlone ==
  ASSUME IInv, FoundIsWanted, NobodyNew, SameIds PROVE FoundIsWanted'
  <1> SUFFICES ASSUME NEW u \in Tasks, call'[u].pc \in {"found", "got"}
               PROVE buffer'[call'[u].bh].id = Head(call'[u].todo)
    BY DEF FoundIsWanted, Want
  <1>1. call'[u] = call[u] /\ call[u].bh \in Buffers
    BY CallFacts DEF NobodyNew
  <1> QED
    BY <1>1 DEF FoundIsWanted, Want, SameIds

(* Find, Found and Take: the buffer at hand is the wanted block's. *)
LEMMA FoundByOne ==
  ASSUME IInv, Counted, FoundIsWanted, NEW t \in Tasks, Find(t) \/ Found(t) \/ Take(t)
  PROVE  FoundIsWanted'
  <1> SUFFICES ASSUME NEW u \in Tasks, call'[u].pc \in {"found", "got"}
               PROVE buffer'[call'[u].bh].id = Head(call'[u].todo)
    BY DEF FoundIsWanted, Want
  <1>1. call \in [Tasks -> Calls] /\ call[u] \in Calls /\ call[u].bh \in Buffers
    BY CallFacts DEF IInv, GoodCalls
  <1>2. CASE Find(t)
    <2>1. PICK b \in Cached(Want(t)) : call' = [call EXCEPT ![t].pc = "found", ![t].bh = b]
      BY <1>2 DEF Find
    <2>2. CASE u = t
      <3>1. buffer[b].id = Head(call[t].todo) /\ buffer' = buffer
        BY <1>2, <2>1 DEF Find, Cached, Want
      <3>2. call'[t].bh = b /\ call'[t].todo = call[t].todo
        BY <1>1, <2>1, <2>2 DEF Calls
      <3> QED
        BY <2>2, <3>1, <3>2
    <2>3. CASE u # t
      <3>1. call'[u] = call[u]
        BY <1>1, <2>1, <2>3
      <3> QED
        BY <1>2, <3>1 DEF FoundIsWanted, Find, Want
    <2> QED
      BY <2>2, <2>3
  <1>3. CASE Found(t)
    <2>1. CASE u = t
      <3>1. buffer[call[t].bh].id = Want(t) /\ Goto(t, "got") /\ buffer' = buffer
        <4>1. call'[t].pc # "getblk"
          BY <2>1
        <4>2. Goto(t, "getblk") => call'[t].pc = "getblk"
          BY <1>1 DEF Goto, Calls
        <4> QED
          BY <1>3, <4>1, <4>2 DEF Found
      <3>2. call'[t].bh = call[t].bh /\ call'[t].todo = call[t].todo
        BY <1>1, <2>1, <3>1 DEF Goto, Calls
      <3> QED
        BY <2>1, <3>1, <3>2 DEF Want
    <2>2. CASE u # t
      <3>1. call'[u] = call[u]
        BY <1>1, <1>3, <2>2 DEF Found, Goto
      <3> QED
        BY <1>3, <3>1 DEF FoundIsWanted, Found, Want
    <2> QED
      BY <2>1, <2>2
  <1>4. CASE Take(t)
    <2>1. /\ call' = [call EXCEPT ![t].pc = "got"] /\ count[call[t].bh] = 0
          /\ buffer' = [buffer EXCEPT ![call[t].bh].id = Want(t), ![call[t].bh].uptodate = FALSE,
                                      ![call[t].bh].same = FALSE]
      BY <1>4 DEF Take, Goto, Disk!Reuse
    <2>2. buffer \in BufferType /\ call[t].bh \in Buffers
      BY CallFacts DEF IInv, GoodBuffers
    <2>3. CASE u = t
      <3>1. call'[u].bh = call[t].bh /\ call'[u].todo = call[t].todo
        BY <1>1, <2>1, <2>3 DEF Calls
      <3>2. buffer'[call[t].bh].id = Want(t)
        BY <2>1, <2>2 DEF BufferType
      <3> QED
        BY <3>1, <3>2 DEF Want
    <2>4. CASE u # t
      <3>1. call'[u] = call[u]
        BY <1>1, <2>1, <2>4
      <3>2. call[u].bh # call[t].bh
        <4>1. call[u].pc \in AtHand
          BY <3>1 DEF AtHand
        <4>2. count[call[u].bh] > 0
          BY <4>1, AtHandIsCounted
        <4>3. count[call[t].bh] = 0
          BY <2>1
        <4> QED
          BY <4>2, <4>3
      <3>3. buffer'[call[u].bh] = buffer[call[u].bh]
        BY <1>1, <2>1, <2>2, <3>2 DEF BufferType
      <3> QED
        BY <3>1, <3>3 DEF FoundIsWanted, Want
    <2> QED
      BY <2>3, <2>4
  <1> QED
    BY <1>2, <1>3, <1>4

(* Every step keeps it. *)
LEMMA NextFound == IInv /\ Counted /\ FoundIsWanted /\ [Next]_vars => FoundIsWanted'
  <1> SUFFICES ASSUME IInv, Counted, FoundIsWanted, [Next]_vars PROVE FoundIsWanted'
    OBVIOUS
  <1>1. CASE UNCHANGED vars
    BY <1>1 DEF vars, FoundIsWanted, Want
  <1>2. ASSUME NEW t \in Tasks, Get(t) \/ Sync(t) \/ Brelse(t) PROVE FoundIsWanted'
    <2>1. SameIds
      BY <1>2, SameBuffersIds DEF Get, Sync, Brelse
    <2>2. PICK c : call' = [call EXCEPT ![t] = c] /\ c.pc \notin {"found", "got"}
      <3>1. call[t] \in Calls
        BY CallFacts
      <3>2. CASE Get(t)
        <4>1. PICK op \in Uses[t] \ {"sync", "sync_dev"} :
                \E ids \in IF op \in {"breada", "bread_page"} THEN Ahead[t] ELSE Ones :
                  call' = [call EXCEPT ![t].pc = "getblk", ![t].op = op, ![t].todo = ids]
          BY <3>2 DEF Get
        <4>2. PICK ids : call' = [call EXCEPT ![t].pc = "getblk", ![t].op = op, ![t].todo = ids]
          BY <4>1
        <4> DEFINE d == [call[t] EXCEPT !.pc = "getblk", !.op = op, !.todo = ids]
        <4>3. call' = [call EXCEPT ![t] = d] /\ d.pc = "getblk"
          BY <3>1, <4>2 DEF Calls
        <4> QED
          BY <4>3
      <3>3. CASE Sync(t)
        <4>1. ASSUME NEW dev PROVE [call[t] EXCEPT !.pc = "sync", !.op = "sync_dev", !.dev = dev].pc = "sync"
          BY <3>1 DEF Calls
        <4>2. [call[t] EXCEPT !.pc = "sync", !.op = "sync"].pc = "sync"
          BY <3>1 DEF Calls
        <4>3. CASE call' = [call EXCEPT ![t].pc = "sync", ![t].op = "sync"]
          BY <4>2, <4>3
        <4>4. ASSUME NEW dev \in Devices,
                     call' = [call EXCEPT ![t].pc = "sync", ![t].op = "sync_dev", ![t].dev = dev]
              PROVE \E c : call' = [call EXCEPT ![t] = c] /\ c.pc \notin {"found", "got"}
          BY <4>1, <4>4
        <4> QED
          BY <3>3, <4>3, <4>4 DEF Sync
      <3>4. CASE Brelse(t)
        <4> DEFINE d == [call[t] EXCEPT !.pc = "brelse", !.bh = call[t].held[Len(call[t].held)],
                                        !.held = SubSeq(@, 1, Len(@) - 1)]
        <4>1. call' = [call EXCEPT ![t] = d] /\ d.pc = "brelse"
          BY <3>1, <3>4 DEF Brelse, Calls
        <4> QED
          BY <4>1
      <3> QED
        BY <1>2, <3>2, <3>3, <3>4
    <2> QED
      BY <2>1, <2>2, OneElsewhere, FoundAlone
  <1>3. ASSUME NEW t \in Tasks, Change(t) \/ SwitchTo(t) PROVE FoundIsWanted'
    <2>1. SameIds
      BY <1>3, CallFacts, DiskIds, SameBuffersIds DEF Change, SwitchTo, IInv
    <2>2. NobodyNew
      BY <1>3 DEF Change, SwitchTo, NobodyNew
    <2> QED
      BY <2>1, <2>2, FoundAlone
  <1>4. ASSUME NEW t \in Tasks, Step(t) PROVE FoundIsWanted'
    BY <1>4, StepElsewhere, StepIds, FoundAlone, FoundByOne
  <1>5. ASSUME NEW b \in Buffers, EndTransfer(b) PROVE FoundIsWanted'
    <2>1. SameIds
      BY <1>5, DiskIds DEF EndTransfer, IInv
    <2>2. NobodyNew
      BY <1>5 DEF EndTransfer, NobodyNew
    <2> QED
      BY <2>1, <2>2, FoundAlone
  <1> QED
    BY <1>1, <1>2, <1>3, <1>4, <1>5, Zenon DEF Next

(* Whoever counts a buffer finds the same block in it after any sleep: the *)
(* comparison in get_hash_table (buffer.c:171) never fails.                *)
THEOREM SpecFoundIsWanted == Spec => []FoundIsWanted
  <1>1. Init => FoundIsWanted
    BY DEF Init, FoundIsWanted, Caller
  <1> QED
    BY <1>1, NextFound, SpecIInv, SpecCounted, PTL DEF Spec
-----------------------------------------------------------------------------
(* A task in a sync is in its loop; of the buffers it has passed, those that *)
(* concern it and are dirty have become dirty since it began.                *)
Passed(t, b) == call[t].twice \/ b < call[t].i
SyncHistory ==
  \A t \in Tasks : Syncing(t) =>
    /\ call[t].pc \in {"sync", "write"}
    /\ \A b \in Buffers : Passed(t, b) /\ Concerns(t, b) /\ buffer[b].dirt => b \in dirtied[t]

(* What a sync that goes on does: it stays with its devices, and a buffer it *)
(* passes was clean, is being written, or does not concern it.               *)
Advances(t) ==
  /\ call'[t].pc \in {"sync", "write"} /\ call'[t].dev = call[t].dev
  /\ \A b \in Buffers : Passed(t, b)' /\ ~Passed(t, b) /\ Concerns(t, b)
                          => ~buffer[b].dirt \/ ~buffer'[b].dirt

(* A sync that goes on advances. *)
LEMMA SyncAdvances ==
  ASSUME IInv, NEW t \in Tasks, Syncing(t), call[t].pc \in {"sync", "write"}, Step(t), Syncing(t)'
  PROVE  Advances(t)
  <1>1. /\ call[t] \in Calls /\ call \in [Tasks -> Calls] /\ buffer \in BufferType
        /\ call[t].i \in 1 .. NrBuffers + 1 /\ NrBuffers \in Nat
        /\ call[t].twice \in BOOLEAN
    BY CallFacts, Constants DEF IInv, GoodCalls, GoodBuffers, Calls
  <1>2. SyncNext(t) \/ SyncWrite(t) \/ Write(t) \/ SyncAgain(t) \/ Synced(t)
    BY DEF Step, Find, Found, NoBuffer, Choose, SleepOnBufferWait, NotCached, Chosen, Take, GotHeld,
       GotFreed, GotRead, Read, GotFurther, ReadAhead, CheckRead, CheckPage, Released, At
  <1>3. CASE SyncNext(t)
    <2>1. PICK j \in Nth(t) + 1 .. NrBuffers + 1 :
            /\ \A b \in Nth(t) .. j - 1 : Skips(t, b)
            /\ call' = [call EXCEPT ![t].i = j]
      BY <1>3 DEF SyncNext
    <2>2. /\ call'[t].pc = "sync" /\ call'[t].dev = call[t].dev /\ call'[t].twice = call[t].twice
          /\ call'[t].i = j /\ j \in Nat
      BY <1>1, <1>3, <2>1 DEF SyncNext, MoreToSync, At, Calls, Nth
    <2>3. ASSUME NEW b \in Buffers, Passed(t, b)', ~Passed(t, b), Concerns(t, b)
          PROVE ~buffer[b].dirt
      <3>1. b \in Nat /\ b < j /\ ~(b < call[t].i)
        BY <2>2, <2>3 DEF Passed, Buffers
      <3>2. b \in Nth(t) .. j - 1
        BY <1>1, <2>2, <3>1 DEF Nth
      <3> QED
        BY <2>1, <2>3, <3>2 DEF Skips
    <2> QED
      BY <2>2, <2>3 DEF Advances
  <1>4. CASE SyncWrite(t)
    <2>1. call'[t].pc = "write" /\ call'[t].dev = call[t].dev /\ call'[t].twice = call[t].twice
          /\ call'[t].i = call[t].i
      BY <1>1, <1>4 DEF SyncWrite, Goto, Calls
    <2> QED
      BY <2>1 DEF Advances, Passed
  <1>5. CASE Write(t)
    <2>1. /\ call'[t].pc = "sync" /\ call'[t].dev = call[t].dev /\ call'[t].twice = call[t].twice
          /\ call'[t].i = call[t].i + 1
      BY <1>1, <1>5 DEF Write, Calls
    <2>2. \A b \in Buffers : b < call[t].i + 1 /\ ~(b < call[t].i) => b = call[t].i
      BY <1>1 DEF Buffers
    <2>3. call[t].i \in Buffers => ~buffer'[call[t].i].dirt
      BY <1>1, <1>5 DEF Write, Disk!Queue, Nth, BufferType
    <2> QED
      BY <2>1, <2>2, <2>3 DEF Advances, Passed
  <1>6. CASE SyncAgain(t)
    <2>1. call'[t].pc = "sync" /\ call'[t].dev = call[t].dev
      BY <1>1, <1>6 DEF SyncAgain, At, Calls
    <2>2. \A b \in Buffers : b < call[t].i
      BY <1>1, <1>6 DEF SyncAgain, Nth, Buffers
    <2> QED
      BY <2>1, <2>2 DEF Advances, Passed
  <1>7. CASE Synced(t)
    <2>1. call' = [call EXCEPT ![t] = Caller(call[t].held)]
      BY <1>7 DEF Synced, Syncing, Returned
    <2>2. call'[t].op = "none"
      BY <1>1, <2>1 DEF Caller
    <2> QED
      BY <2>2 DEF Syncing
  <1> QED
    BY <1>2, <1>3, <1>4, <1>5, <1>6, <1>7

(* A buffer that is given to another block was clean. *)
LEMMA GivenIsClean ==
  ASSUME IInv, [Next]_vars, NEW b \in Buffers, buffer'[b].id # buffer[b].id PROVE ~buffer[b].dirt
  <1>1. CASE UNCHANGED vars
    BY <1>1 DEF vars
  <1>2. ASSUME NEW t \in Tasks, Get(t) \/ Sync(t) \/ Brelse(t) \/ SwitchTo(t) PROVE FALSE
    BY <1>2 DEF Get, Sync, Brelse, SwitchTo
  <1>3. ASSUME NEW t \in Tasks, Change(t) PROVE FALSE
    BY <1>3, CallFacts, DiskIds DEF Change, IInv, SameIds
  <1>4. ASSUME NEW a \in Buffers, EndTransfer(a) PROVE FALSE
    BY <1>4, DiskIds DEF EndTransfer, IInv, SameIds
  <1>5. ASSUME NEW t \in Tasks, Step(t) PROVE ~buffer[b].dirt
    <2>1. Take(t)
      BY <1>5, StepIds DEF SameIds
    <2>2. buffer'[b] = buffer[b] \/ b = call[t].bh
      BY <2>1, CallFacts DEF Take, Disk!Reuse, IInv, GoodBuffers, BufferType
    <2> QED
      BY <2>1, <2>2 DEF Take
  <1> QED
    BY <1>1, <1>2, <1>3, <1>4, <1>5, Zenon DEF Next

(* A task that syncs was at it, and went on or waited, or has begun. *)
LEMMA SyncStarts ==
  ASSUME IInv, Counted, SyncHistory, [Next]_vars, NEW t \in Tasks, Syncing(t)'
  PROVE  \/ ~Syncing(t) /\ call'[t].pc = "sync" /\ \A b \in Buffers : ~Passed(t, b)'
         \/ Syncing(t) /\ call'[t] = call[t]
         \/ Syncing(t) /\ Advances(t)
  <1>1. call \in [Tasks -> Calls] /\ call[t] \in Calls /\ Progress(call[t])
    BY CallFacts DEF IInv, GoodCalls, Counted
  <1>2. CASE call'[t] = call[t]
    BY <1>2 DEF Syncing
  <1>3. CASE call' = call
    BY <1>2, <1>3
  <1>4. ASSUME NEW u \in Tasks, Step(u) PROVE Syncing(t) /\ (call'[t] = call[t] \/ Advances(t))
    <2>1. PICK c : Shape(u, c)
      BY <1>4, StepShape
    <2>2. CASE u = t
      <3>1. c.op \in {call[t].op, "none"}
        BY <2>1, <2>2 DEF Shape
      <3>2. call'[t] = c \/ (c.pc = "buffer_wait" /\ call'[t] = [c EXCEPT !.pc = "getblk"])
        BY <1>1, <2>1, <2>2 DEF Shape, WakeAll
      <3>3. call'[t].op = c.op
        <4>1. \A d : [d EXCEPT !.pc = "getblk"].op = d.op
          OBVIOUS
        <4> QED
          BY <3>2, <4>1
      <3>4. Syncing(t)
        BY <3>1, <3>3 DEF Syncing
      <3>5. call[t].pc \in {"sync", "write"}
        BY <3>4 DEF SyncHistory
      <3> QED
        BY <1>4, <2>2, <3>4, <3>5, SyncAdvances
    <2>3. CASE u # t
      <3>1. call'[t] = call[t] \/ (call[t].pc = "buffer_wait" /\ call'[t] = [call[t] EXCEPT !.pc = "getblk"])
        BY <1>1, <2>1, <2>3 DEF Shape, WakeAll
      <3>2. call'[t].op = call[t].op
        BY <1>1, <3>1 DEF Calls
      <3>3. Syncing(t)
        BY <3>2 DEF Syncing
      <3> QED
        BY <3>1, <3>3 DEF SyncHistory
    <2> QED
      BY <2>2, <2>3
  <1>5. ASSUME NEW u \in Tasks, Get(u) PROVE call'[t] = call[t]
    <2>1. PICK op \in Uses[u] \ {"sync", "sync_dev"} :
            \E ids \in IF op \in {"breada", "bread_page"} THEN Ahead[u] ELSE Ones :
              call' = [call EXCEPT ![u].pc = "getblk", ![u].op = op, ![u].todo = ids]
      BY <1>5 DEF Get
    <2>2. PICK ids : call' = [call EXCEPT ![u].pc = "getblk", ![u].op = op, ![u].todo = ids]
      BY <2>1
    <2>3. u = t => call'[t].op = op
      BY <1>1, <2>2 DEF Calls
    <2> QED
      BY <1>1, <2>2, <2>3 DEF Syncing
  <1>6. ASSUME NEW u \in Tasks, Sync(u), u = t
        PROVE ~Syncing(t) /\ call'[t].pc = "sync" /\ \A b \in Buffers : ~Passed(t, b)'
    <2>1. call[t].pc = "user" /\ call[t] = Caller(call[t].held)
      BY <1>1, <1>6 DEF Sync, At, Progress
    <2>2. call[t].op = "none" /\ call[t].i = 1 /\ call[t].twice = FALSE
      <3>1. \A held : Caller(held).op = "none" /\ Caller(held).i = 1 /\ Caller(held).twice = FALSE
        BY DEF Caller
      <3> QED
        BY <2>1, <3>1
    <2>3. call'[t].pc = "sync" /\ call'[t].i = call[t].i /\ call'[t].twice = call[t].twice
      BY <1>1, <1>6 DEF Sync, Calls
    <2> QED
      BY <2>2, <2>3 DEF Syncing, Passed, Buffers
  <1>7. ASSUME NEW u \in Tasks, Sync(u) \/ Brelse(u), u # t PROVE call'[t] = call[t]
    BY <1>1, <1>7 DEF Sync, Brelse
  <1>8. ASSUME NEW u \in Tasks, Brelse(u), u = t PROVE FALSE
    <2>1. call[t].pc = "user" /\ call[t] = Caller(call[t].held)
      BY <1>1, <1>8 DEF Brelse, At, Progress
    <2>2. call[t].op = "none"
      <3>1. \A held : Caller(held).op = "none"
        BY DEF Caller
      <3> QED
        BY <2>1, <3>1
    <2>3. call'[t].op = call[t].op
      BY <1>1, <1>8 DEF Brelse, Calls
    <2> QED
      BY <2>2, <2>3 DEF Syncing
  <1>9. ASSUME NEW u \in Tasks, Change(u) \/ SwitchTo(u) PROVE call' = call
    BY <1>9 DEF Change, SwitchTo
  <1>10. ASSUME NEW b \in Buffers, EndTransfer(b) PROVE call' = call
    BY <1>10 DEF EndTransfer
  <1>11. CASE UNCHANGED vars
    BY <1>3, <1>11 DEF vars
  <1> QED
    BY <1>2, <1>3, <1>4, <1>5, <1>6, <1>7, <1>8, <1>9, <1>10, <1>11, Zenon DEF Next

(* Every step keeps the history of the syncs. *)
LEMMA NextSyncHistory ==
  IInv /\ Counted /\ SyncHistory /\ [HistoryNext]_<<vars, dirtied>> => SyncHistory'
  <1> SUFFICES ASSUME IInv, Counted, SyncHistory, [HistoryNext]_<<vars, dirtied>> PROVE SyncHistory'
    OBVIOUS
  <1>1. CASE UNCHANGED <<vars, dirtied>>
    BY <1>1 DEF vars, SyncHistory, Syncing, Passed, Concerns
  <1>2. CASE Next /\ History
    <2> SUFFICES ASSUME NEW t \in Tasks, Syncing(t)'
                 PROVE  /\ call'[t].pc \in {"sync", "write"}
                        /\ \A b \in Buffers :
                             Passed(t, b)' /\ Concerns(t, b)' /\ buffer'[b].dirt => b \in dirtied'[t]
      BY DEF SyncHistory
    <2>1. CASE ~Syncing(t) /\ call'[t].pc = "sync" /\ \A b \in Buffers : ~Passed(t, b)'
      BY <2>1
    <2>2. CASE Syncing(t) /\ (call'[t] = call[t] \/ Advances(t))
      <3>1. call'[t].pc \in {"sync", "write"} /\ call'[t].dev = call[t].dev
        BY <2>2 DEF SyncHistory, Advances
      <3>2. dirtied'[t] = dirtied[t] \union {b \in Buffers : ~buffer[b].dirt /\ buffer'[b].dirt}
        BY <1>2, <2>2 DEF History
      <3>3. ASSUME NEW b \in Buffers, Passed(t, b)', Concerns(t, b)', buffer'[b].dirt, buffer[b].dirt
            PROVE  b \in dirtied[t]
        <4>1. buffer'[b].id = buffer[b].id
          BY <1>2, <3>3, GivenIsClean
        <4>2. Concerns(t, b)
          BY <3>1, <3>3, <4>1 DEF Concerns
        <4>3. Passed(t, b)
          BY <2>2, <3>3, <4>2 DEF Advances, Passed
        <4> QED
          BY <2>2, <3>3, <4>2, <4>3 DEF SyncHistory
      <3> QED
        BY <3>1, <3>2, <3>3
    <2> QED
      BY <1>2, <2>1, <2>2, SyncStarts
  <1> QED
    BY <1>1, <1>2 DEF HistoryNext

(* When a sync is through, whatever was dirty when it began has been queued  *)
(* for writing, although the buffers change and change hands while it waits. *)
THEOREM SpecSyncWritesAll == HistorySpec => []SyncWritesAll
  <1>1. HistorySpec => Spec
    <2>1. HistoryInit => Init
      BY DEF HistoryInit
    <2>2. [HistoryNext]_<<vars, dirtied>> => [Next]_vars
      BY DEF HistoryNext, vars
    <2> QED
      BY <2>1, <2>2, PTL DEF HistorySpec, Spec
  <1>2. HistoryInit => SyncHistory
    BY DEF HistoryInit, Init, SyncHistory, Syncing, Caller
  <1>3. HistorySpec => []SyncHistory
    BY <1>1, <1>2, NextSyncHistory, SpecIInv, SpecCounted, PTL DEF HistorySpec
  <1>4. IInv /\ SyncHistory => SyncWritesAll
    <2> SUFFICES ASSUME IInv, SyncHistory, NEW t \in Tasks, Syncing(t), Nth(t) > NrBuffers,
                        NEW b \in Buffers, Concerns(t, b) /\ buffer[b].dirt
                 PROVE b \in dirtied[t]
      BY DEF SyncWritesAll
    <2>1. call[t].i \in Nat /\ NrBuffers \in Nat
      BY CallFacts, Constants DEF Calls
    <2>2. b < call[t].i
      BY <2>1 DEF Nth, Buffers
    <2> QED
      BY <2>2 DEF SyncHistory, Passed
  <1> QED
    BY <1>1, <1>3, <1>4, SpecIInv, PTL
-----------------------------------------------------------------------------
(* Every buffer is in the free list. *)
AllInList == \A b \in Buffers : \E n \in DOMAIN free : free[n] = b

(* What a call for blocks has at most: what it held before, and one buffer *)
(* for each block.                                                         *)
Syncs == {"sync", "sync_dev"}
Small(c, longest) ==
  /\ c.op \notin Syncs \union {"none"} => Len(c.held) <= MaxHeld /\ Outstanding(c) <= longest
  /\ c.op = "none" => c.pc \in {"user", "brelse"}
  /\ c.op \in Syncs => c.pc \in {"sync", "write"}
AllSmall(longest) == \A t \in Tasks : Small(call[t], longest)

(* A list with its m-th element moved to the end has the same elements. *)
Moved(s, m) == Append(RemoveAt(s, m), s[m])
LEMMA MovedIsThere ==
  ASSUME NEW s \in Seq(Buffers), NEW m \in 1 .. Len(s), NEW k \in 1 .. Len(s)
  PROVE  \E n \in DOMAIN Moved(s, m) : Moved(s, m)[n] = s[k]
  <1> DEFINE l == SubSeq(s, 1, m - 1)
             r == SubSeq(s, m + 1, Len(s))
             x == s[m]
             lr == l \o r
             q == Moved(s, m)
  <1>1. Len(s) \in Nat /\ m \in Nat /\ m >= 1 /\ m <= Len(s) /\ k \in Nat /\ k >= 1 /\ k <= Len(s)
        /\ \A n \in 1 .. Len(s) : s[n] \in Buffers
    OBVIOUS
  <1>2. l \in Seq(Buffers) /\ Len(l) = m - 1 /\ \A n \in 1 .. m - 1 : l[n] = s[n]
    <2> HIDE DEF l
    <2>1. /\ SubSeq(s, 1, m - 1) \in Seq(Buffers)
          /\ Len(SubSeq(s, 1, m - 1)) = IF 1 <= m - 1 THEN m - 1 - 1 + 1 ELSE 0
          /\ \A i \in 1 .. m - 1 - 1 + 1 : SubSeq(s, 1, m - 1)[i] = s[1 + i - 1]
      BY <1>1, SubSeqProperties
    <2> QED
      BY <1>1, <2>1 DEF l
  <1>3. /\ r \in Seq(Buffers) /\ Len(r) = Len(s) - m
        /\ \A n \in 1 .. Len(s) - m : r[n] = s[n + m]
    <2> HIDE DEF r
    <2>1. /\ SubSeq(s, m + 1, Len(s)) \in Seq(Buffers)
          /\ Len(SubSeq(s, m + 1, Len(s))) = IF m + 1 <= Len(s) THEN Len(s) - (m + 1) + 1 ELSE 0
          /\ \A i \in 1 .. Len(s) - (m + 1) + 1 : SubSeq(s, m + 1, Len(s))[i] = s[m + 1 + i - 1]
      BY <1>1, SubSeqProperties
    <2> QED
      BY <1>1, <2>1 DEF r
  <1>4. q = Append(lr, x)
    BY DEF RemoveAt, Moved
  <1> HIDE DEF l, r, x, q
  <1>5. /\ lr \in Seq(Buffers) /\ Len(lr) = Len(l) + Len(r)
        /\ \A i \in 1 .. Len(l) + Len(r) : lr[i] = IF i <= Len(l) THEN l[i] ELSE r[i - Len(l)]
    BY <1>2, <1>3, ConcatProperties
  <1> HIDE DEF lr
  <1>6. x \in Buffers /\ Len(lr) = Len(s) - 1
    BY <1>1, <1>2, <1>3, <1>5 DEF x
  <1>7. /\ DOMAIN q = 1 .. Len(lr) + 1 /\ q[Len(lr) + 1] = x
        /\ \A n \in 1 .. Len(lr) : q[n] = lr[n]
    BY <1>4, <1>5, <1>6
  <1>8. ASSUME k < m PROVE \E n \in DOMAIN q : q[n] = s[k]
    <2>1. k \in 1 .. Len(lr) /\ k \in DOMAIN q
      BY <1>1, <1>6, <1>7, <1>8
    <2>2. k \in 1 .. m - 1 /\ k <= m - 1 /\ k \in 1 .. (m - 1) + Len(r)
      BY <1>1, <1>3, <1>8
    <2>3. lr[k] = l[k] /\ l[k] = s[k]
      BY <1>2, <1>5, <2>2
    <2>4. q[k] = s[k]
      BY <1>7, <2>1, <2>3
    <2> QED
      BY <2>1, <2>4
  <1>9. ASSUME k = m PROVE \E n \in DOMAIN q : q[n] = s[k]
    <2>1. Len(lr) + 1 \in DOMAIN q
      BY <1>1, <1>6, <1>7
    <2> QED
      BY <1>7, <1>9, <2>1 DEF x
  <1>10. ASSUME k > m PROVE \E n \in DOMAIN q : q[n] = s[k]
    <2>1. k - 1 \in 1 .. Len(lr) /\ k - 1 \in DOMAIN q /\ k - m \in 1 .. Len(s) - m
          /\ (k - 1) - (m - 1) = k - m /\ (k - m) + m = k /\ ~(k - 1 <= m - 1)
      BY <1>1, <1>6, <1>7, <1>10
    <2>2. lr[k - 1] = r[k - m]
      BY <1>2, <1>3, <1>5, <1>6, <2>1
    <2>3. q[k - 1] = s[k]
      BY <1>3, <1>7, <2>1, <2>2
    <2> QED
      BY <2>1, <2>3
  <1>11. \E n \in DOMAIN q : q[n] = s[k]
    BY <1>1, <1>8, <1>9, <1>10
  <1> QED
    BY <1>11 DEF q

(* The free list keeps its buffers, in another order. *)
LEMMA ListKeeps == IInv /\ AllInList /\ [Next]_vars => AllInList'
  <1> SUFFICES ASSUME IInv, AllInList, [Next]_vars PROVE AllInList'
    OBVIOUS
  <1>1. CASE free' = free
    BY <1>1 DEF AllInList
  <1>2. ASSUME NEW t \in Tasks, Take(t) PROVE AllInList'
    <2>1. PICK m \in DOMAIN free : free' = Moved(free, m)
      BY <1>2 DEF Take, ToEnd, Moved
    <2>2. free \in Seq(Buffers) /\ DOMAIN free = 1 .. Len(free)
      BY DEF IInv
    <2>3. ASSUME NEW k \in 1 .. Len(free) PROVE \E n \in DOMAIN free' : free'[n] = free[k]
      <3>1. m \in 1 .. Len(free)
        BY <2>2
      <3> QED
        BY <2>1, <2>2, <3>1, MovedIsThere
    <2> QED
      BY <2>2, <2>3 DEF AllInList
  <1>3. ASSUME NEW t \in Tasks, Get(t) \/ Sync(t) \/ Change(t) \/ Brelse(t) \/ SwitchTo(t)
        PROVE free' = free
    BY <1>3 DEF Get, Sync, Change, Brelse, SwitchTo
  <1>4. ASSUME NEW t \in Tasks, Step(t), ~Take(t) PROVE free' = free
    BY <1>4 DEF Step, Find, Found, NoBuffer, Choose, SleepOnBufferWait, Chosen, GotHeld, GotFreed,
       GotRead, Read, GotFurther, NextAhead, ReadAhead, CheckRead, CheckPage, Released, SyncNext,
       SyncWrite, Write, SyncAgain, Synced
  <1>5. ASSUME NEW b \in Buffers, EndTransfer(b) PROVE free' = free
    BY <1>5 DEF EndTransfer
  <1> QED
    BY <1>1, <1>2, <1>3, <1>4, <1>5, Zenon DEF Next, vars

(* A task outside the calls for blocks is released or goes on syncing. *)
LEMMA IdleStays ==
  ASSUME IInv, NEW t \in Tasks, Step(t), NEW longest, Small(call[t], longest),
         call[t].op \in Syncs \union {"none"}
  PROVE  \/ call'[t].op = "none" /\ call'[t].pc = "user"
         \/ call'[t].op \in Syncs /\ call'[t].pc \in {"sync", "write"}
  <1>1. call[t] \in Calls /\ call \in [Tasks -> Calls]
    BY CallFacts DEF IInv, GoodCalls
  <1>2. call[t].pc \in {"user", "brelse", "sync", "write"}
    BY DEF Small
  <1>3. \/ SyncNext(t) \/ SyncWrite(t) \/ Write(t) \/ SyncAgain(t) \/ Synced(t)
        \/ Released(t)
    BY <1>2 DEF Step, Find, Found, NoBuffer, Choose, SleepOnBufferWait, NotCached, Chosen, Take, GotHeld,
       GotFreed, GotRead, Read, GotFurther, ReadAhead, CheckRead, CheckPage, At
  <1>4. \A held : Caller(held).pc = "user" /\ Caller(held).op = "none"
    BY DEF Caller
  <1>5. CASE Released(t)
    <2>1. call'[t] = Caller(call[t].held)
      BY <1>1, <1>4, <1>5 DEF Released, Returned, WakeAll
    <2> QED
      BY <1>4, <2>1
  <1>6. CASE ~Released(t)
    <2>1. call[t].pc \in {"sync", "write"}
      BY <1>3, <1>6 DEF SyncNext, SyncWrite, Write, SyncAgain, Synced, MoreToSync, At
    <2>2. call[t].op \in Syncs
      BY <2>1 DEF Small
    <2>3. CASE SyncNext(t)
      <3>1. PICK j : call' = [call EXCEPT ![t].i = j]
        BY <2>3 DEF SyncNext
      <3>2. call'[t].op = call[t].op /\ call'[t].pc = call[t].pc
        BY <1>1, <3>1 DEF Calls
      <3> QED
        BY <2>1, <2>2, <3>2
    <2>4. CASE SyncWrite(t) \/ Write(t) \/ SyncAgain(t)
      <3>1. call'[t].op = call[t].op /\ call'[t].pc \in {"sync", "write"}
        BY <1>1, <2>1, <2>4 DEF SyncWrite, Write, SyncAgain, Goto, Calls
      <3> QED
        BY <2>2, <3>1
    <2>5. CASE Synced(t)
      <3>1. call'[t] = Caller(call[t].held)
        BY <1>1, <2>2, <2>5 DEF Synced, Returned, Syncs
      <3> QED
        BY <1>4, <3>1
    <2> QED
      BY <1>3, <1>6, <2>3, <2>4, <2>5
  <1> QED
    BY <1>5, <1>6

(* Who is woken has what he had. *)
LEMMA WokenSmall ==
  ASSUME NEW d, NEW longest, Small(d, longest), d.pc = "buffer_wait"
  PROVE  Small([d EXCEPT !.pc = "getblk"], longest)
  <1> DEFINE e == [d EXCEPT !.pc = "getblk"]
  <1>1. d.op \notin Syncs \union {"none"}
    BY DEF Small
  <1>2. e.op = d.op /\ e.held = d.held /\ e.mine = d.mine /\ e.todo = d.todo
    OBVIOUS
  <1> HIDE DEF e
  <1>3. Outstanding(e) = Outstanding(d)
    BY <1>2, Zenon DEF Outstanding
  <1>4. Small(e, longest)
    BY <1>1, <1>2, <1>3 DEF Small
  <1> QED
    BY <1>4 DEF e

(* One call stays small, and so do the others. *)
LEMMA SmallByOne ==
  ASSUME IInv, NEW longest, AllSmall(longest), NEW t \in Tasks, NEW c, Small(c, longest),
         call' = [call EXCEPT ![t] = c] \/ call' = WakeAll([call EXCEPT ![t] = c])
  PROVE  \A u \in Tasks : Small(call'[u], longest)
  <1> DEFINE f == [call EXCEPT ![t] = c]
  <1>1. \A u \in Tasks : f[u] = IF u = t THEN c ELSE call[u]
    BY DEF IInv, GoodCalls
  <1>2. \A u \in Tasks : Small(f[u], longest)
    BY <1>1 DEF AllSmall
  <1> HIDE DEF f
  <1>3. CASE call' = f
    BY <1>2, <1>3
  <1>4. CASE call' = WakeAll(f)
    <2>1. \A u \in Tasks :
            call'[u] = IF f[u].pc = "buffer_wait" THEN [f[u] EXCEPT !.pc = "getblk"] ELSE f[u]
      BY <1>4 DEF WakeAll
    <2> QED
      BY <1>2, <2>1, WokenSmall
  <1> QED
    BY <1>3, <1>4 DEF f

(* What there is to do is a number. *)
LEMMA OutstandingIsNat == ASSUME NEW d \in Calls PROVE Outstanding(d) \in Nat
  <1>1. d.mine \in Seq(Buffers) /\ d.todo \in Seq(Blocks)
    BY DEF Calls
  <1>2. Len(d.mine) \in Nat /\ Len(d.todo) \in Nat
    BY <1>1
  <1>3. \A m, n \in Nat : m + n \in Nat
    OBVIOUS
  <1> QED
    BY <1>2, <1>3, Zenon DEF Outstanding

(* A step leaves a call small. *)
LEMMA StepSmall ==
  ASSUME IInv, IInv', NEW longest \in Nat, AllSmall(longest), NEW t \in Tasks, Step(t),
         NEW c, Shape(t, c)
  PROVE  Small(c, longest)
  <1>4. call'[t] = c /\ c \in Calls
    <2>1. call'[t] = c
      BY DEF Shape, WakeAll, IInv, GoodCalls
    <2> QED
      BY <2>1 DEF IInv, GoodCalls
  <1>1. Small(call[t], longest) /\ call[t] \in Calls
    BY CallFacts DEF AllSmall
  <1>2. CASE call[t].op \in Syncs \union {"none"}
    <2>1. \/ call'[t].op = "none" /\ call'[t].pc = "user"
          \/ call'[t].op \in Syncs /\ call'[t].pc \in {"sync", "write"}
      BY <1>1, <1>2, IdleStays
    <2> QED
      BY <1>4, <2>1 DEF Small, Syncs
  <1>3. CASE call[t].op \notin Syncs \union {"none"}
    <2>1. CASE c.op = "none"
      BY <1>3, <2>1 DEF Shape, Small, Syncs
    <2>2. CASE c.op # "none"
      <3>1. c.op = call[t].op /\ c.held = call[t].held /\ Outstanding(c) <= Outstanding(call[t])
        BY <2>2 DEF Shape, Within
      <3>2. Len(call[t].held) <= MaxHeld /\ Outstanding(call[t]) <= longest
        BY <1>1, <1>3 DEF Small
      <3>3. Outstanding(call[t]) \in Nat /\ Outstanding(c) \in Nat
        BY <1>1, <1>4, OutstandingIsNat
      <3>4. Outstanding(c) <= longest
        <4>1. \A m, n \in Nat : m <= n /\ n <= longest => m <= longest
          OBVIOUS
        <4> QED
          BY <3>1, <3>2, <3>3, <4>1, Zenon
      <3> QED
        BY <1>3, <3>1, <3>2, <3>4 DEF Small
    <2> QED
      BY <2>1, <2>2
  <1> QED
    BY <1>2, <1>3

(* The uses are a function that counts after a step as well. *)
LEMMA UsesAreNatThen ==
  ASSUME IInv'
  PROVE  /\ \A t \in Tasks, b \in Buffers :
              UsesOf(t, b)' = UsesIn(call'[t], b) /\ UsesOf(t, b)' \in Nat
         /\ \A b \in Buffers : AllUses(b)' = Pairs([t \in Tasks |-> UsesOf(t, b)'])
  <1>1. ASSUME NEW t \in Tasks, NEW b \in Buffers
        PROVE UsesOf(t, b)' = UsesIn(call'[t], b) /\ UsesOf(t, b)' \in Nat
    <2>1. call'[t].held \in Seq(Buffers) /\ call'[t].mine \in Seq(Buffers)
      BY DEF IInv, GoodCalls, Calls
    <2>2. Times(call'[t].held, b) \in Nat /\ Times(call'[t].mine, b) \in Nat
      BY <2>1, TimesIsNat
    <2>3. UsesOf(t, b)' = UsesIn(call'[t], b)
      BY DEF UsesOf, UsesIn, HasAtHand, AtHand
    <2> QED
      BY <2>2, <2>3 DEF UsesIn
  <1> QED
    BY <1>1 DEF AllUses, Pairs

(* Where no count becomes less, the task that steps uses what it used. *)
LEMMA KeepsUse ==
  ASSUME IInv, IInv', Counted, Counted', NEW t \in Tasks, NEW c,
         call' = [call EXCEPT ![t] = c] \/ call' = WakeAll([call EXCEPT ![t] = c]),
         NEW b \in Buffers, count'[b] >= count[b], UsesOf(t, b) > 0
  PROVE  UsesOf(t, b)' > 0
  <1> DEFINE f == [u \in Tasks |-> UsesOf(u, b)]
             g == [u \in Tasks |-> UsesOf(u, b)']
  <1>1. /\ f \in [Tasks -> Nat] /\ AllUses(b) = Pairs(f)
        /\ \A u \in Tasks : UsesOf(u, b) = UsesIn(call[u], b)
    BY UsesAreNat
  <1>2. /\ g \in [Tasks -> Nat] /\ AllUses(b)' = Pairs(g)
        /\ \A u \in Tasks : UsesOf(u, b)' = UsesIn(call'[u], b)
    BY UsesAreNatThen
  <1>3. \A u \in Tasks : u # t => UsesIn(call'[u], b) = UsesIn(call[u], b)
    BY UsesAfter
  <1>4. \A u \in Tasks : u # t => g[u] = f[u]
    BY <1>1, <1>2, <1>3
  <1>5. f[t] > 0
    OBVIOUS
  <1>6. /\ IsFiniteSet(Pairs(f)) /\ count[b] = Cardinality(Pairs(f))
        /\ IsFiniteSet(Pairs(g)) /\ count'[b] = Cardinality(Pairs(g))
        /\ count[b] \in Nat /\ count'[b] \in Nat
    BY <1>1, <1>2 DEF Counted, Counts
  <1> HIDE DEF f, g
  <1>7. g[t] # 0
    <2> SUFFICES ASSUME g[t] = 0 PROVE FALSE
      OBVIOUS
    <2>1. Pairs(g) \subseteq Pairs(f)
      BY <1>1, <1>2, <1>4 DEF Pairs
    <2>2. <<t, 1>> \in Pairs(f)
      BY <1>1, <1>5 DEF Pairs
    <2>3. <<t, 1>> \notin Pairs(g)
      BY <1>2 DEF Pairs
    <2>4. Cardinality(Pairs(g)) <= Cardinality(Pairs(f))
          /\ (Cardinality(Pairs(f)) = Cardinality(Pairs(g)) => Pairs(f) = Pairs(g))
      BY <1>6, <2>1, FS_Subset
    <2>5. count'[b] <= count[b] /\ count'[b] # count[b]
      BY <1>6, <2>2, <2>3, <2>4
    <2> QED
      BY <1>6, <2>5
  <1> QED
    BY <1>2, <1>7 DEF g

(* A buffer that is counted is used by somebody. *)
LEMMA CountedIsUsed ==
  ASSUME IInv, Counted, NEW b \in Buffers, count[b] > 0
  PROVE  \E u \in Tasks : UsesOf(u, b) > 0
  <1> SUFFICES ASSUME \A u \in Tasks : ~(UsesOf(u, b) > 0) PROVE FALSE
    OBVIOUS
  <1>1. \A u \in Tasks : UsesOf(u, b) = 0
    BY UsesAreNat
  <1>2. 1 .. 0 = {}
    OBVIOUS
  <1>3. AllUses(b) = {}
    BY <1>1, <1>2 DEF AllUses
  <1>4. Cardinality(AllUses(b)) = 0 /\ count[b] = Cardinality(AllUses(b))
    BY <1>3, FS_EmptySet DEF Counted, Counts
  <1> QED
    BY <1>4

(* What is used is somewhere. *)
LEMMA TimesSomewhere ==
  ASSUME NEW s \in Seq(Buffers), NEW b, Times(s, b) > 0
  PROVE  \E n \in 1 .. Len(s) : s[n] = b
  <1> SUFFICES ASSUME \A n \in 1 .. Len(s) : s[n] # b PROVE FALSE
    OBVIOUS
  <1>1. DOMAIN s = 1 .. Len(s)
    OBVIOUS
  <1>2. Places(s, b) = {}
    BY <1>1 DEF Places
  <1>3. Times(s, b) = 0
    BY <1>2, TimesIsNat, FS_EmptySet
  <1> QED
    BY <1>3

(* What a task has while it looks for a buffer: what it held, then what the *)
(* call has got.                                                            *)
Has(u, n) == IF n <= Len(call[u].held) THEN call[u].held[n]
             ELSE call[u].mine[n - Len(call[u].held)]
Most(longest) == MaxHeld + (longest - 1)

(* It has no more than so many. *)
LEMMA HasSomewhere ==
  ASSUME IInv, NEW longest \in Nat \ {0}, AllSmall(longest), NEW u \in Tasks, NEW b \in Buffers,
         call[u].pc \in {"getblk", "buffer_wait"}, UsesOf(u, b) > 0
  PROVE  \E n \in 1 .. Most(longest) : Has(u, n) = b
  <1> DEFINE held == call[u].held
             mine == call[u].mine
             todo == call[u].todo
  <1>1. held \in Seq(Buffers) /\ mine \in Seq(Buffers) /\ todo \in Seq(Blocks) /\ todo # <<>>
    BY CallFacts DEF GoodCall, Getting
  <1>2. Len(held) <= MaxHeld /\ Outstanding(call[u]) <= longest
    BY DEF AllSmall, Small, Syncs
  <1>3. UsesOf(u, b) = Times(held, b) + Times(mine, b) + 0
    BY DEF UsesOf, HasAtHand
  <1>4. MaxHeld \in Nat
    BY BufferCacheAssumption
  <1>5. Outstanding(call[u]) = Len(mine) + Len(todo)
    BY Zenon DEF Outstanding
  <1>6. /\ \A n \in 1 .. Len(held) : Has(u, n) = held[n]
        /\ \A n \in 1 .. Len(mine) : Has(u, Len(held) + n) = mine[n]
    <2>1. Len(held) \in Nat /\ Len(mine) \in Nat
      BY <1>1
    <2>2. \A n : Has(u, n) = IF n <= Len(held) THEN held[n] ELSE mine[n - Len(held)]
      BY DEF Has
    <2> HIDE DEF held, mine
    <2> DEFINE k == Len(held)
    <2>3. \A n \in 1 .. Len(mine) : ~(k + n <= k) /\ (k + n) - k = n
      BY <2>1
    <2>4. \A n \in 1 .. k : n <= k
      BY <2>1
    <2> QED
      BY <2>2, <2>3, <2>4
  <1>7. Len(held) \in Nat /\ Len(mine) \in Nat /\ Len(todo) \in Nat /\ Len(todo) >= 1
    BY <1>1
  <1>8. Times(held, b) \in Nat /\ Times(mine, b) \in Nat
    BY <1>1, TimesIsNat
  <1>9. Times(held, b) > 0 \/ Times(mine, b) > 0
    <2> HIDE DEF held, mine
    <2> QED
      BY <1>3, <1>8
  <1> HIDE DEF held, mine, todo
  <1>10. CASE Times(held, b) > 0
    <2>1. PICK n \in 1 .. Len(held) : held[n] = b
      BY <1>1, <1>10, TimesSomewhere
    <2>2. n \in 1 .. Most(longest)
      BY <1>2, <1>4, <1>7, <2>1 DEF Most
    <2> QED
      BY <1>6, <2>1, <2>2
  <1>11. CASE Times(mine, b) > 0
    <2>1. PICK n \in 1 .. Len(mine) : mine[n] = b
      BY <1>1, <1>11, TimesSomewhere
    <2>2. Len(mine) + Len(todo) <= longest
      BY <1>2, <1>5
    <2>3. Len(held) + n \in 1 .. Most(longest)
      BY <1>2, <1>4, <1>7, <2>1, <2>2 DEF Most
    <2> QED
      BY <1>6, <2>1, <2>3
  <1> QED
    BY <1>9, <1>10, <1>11

(* There are more buffers than the tasks that look for one can have. *)
Enough(longest) ==
  IsFiniteSet(Tasks) /\ NrBuffers > Cardinality(Tasks) * Most(longest)

(* So somebody who uses one does something else. *)
LEMMA SomebodyElse ==
  ASSUME IInv, Counted, AllInList, NEW longest \in Nat \ {0}, AllSmall(longest), Enough(longest),
         NEW t \in Tasks, call[t].pc = "getblk", Unused = {}
  PROVE  \E u \in Tasks, b \in Buffers : u # t /\ call[u].pc # "buffer_wait" /\ UsesOf(u, b) > 0
  <1> SUFFICES ASSUME \A u \in Tasks, b \in Buffers :
                        UsesOf(u, b) > 0 => call[u].pc \in {"getblk", "buffer_wait"}
               PROVE  FALSE
    OBVIOUS
  <1> DEFINE K == Most(longest)
             P == Tasks \X (1 .. K)
             where == [b \in Buffers |-> CHOOSE p \in P : Has(p[1], p[2]) = b]
  <1>1. \A b \in Buffers : count[b] > 0
    <2> SUFFICES ASSUME NEW b \in Buffers PROVE count[b] > 0
      OBVIOUS
    <2>1. PICK n \in DOMAIN free : free[n] = b
      BY DEF AllInList
    <2>2. count[b] # 0
      BY <2>1 DEF Unused
    <2> QED
      BY <2>2 DEF Counted, Counts
  <1>2. ASSUME NEW b \in Buffers PROVE \E p \in P : Has(p[1], p[2]) = b
    <2>1. PICK u \in Tasks : UsesOf(u, b) > 0
      BY <1>1, CountedIsUsed
    <2>2. PICK n \in 1 .. K : Has(u, n) = b
      BY <2>1, HasSomewhere
    <2>3. <<u, n>> \in P
      BY <2>2
    <2> QED
      BY <2>2, <2>3
  <1>3. K \in Nat /\ MaxHeld \in Nat /\ NrBuffers \in Nat \ {0}
    BY BufferCacheAssumption DEF Most
  <1> HIDE DEF K, P
  <1>4. \A b \in Buffers : where[b] \in P /\ Has(where[b][1], where[b][2]) = b
    BY <1>2
  <1> HIDE DEF where
  <1>5. where \in Injection(Buffers, P)
    <2>1. where \in [Buffers -> P]
      BY <1>4 DEF where
    <2> QED
      BY <1>4, <2>1 DEF Injection, IsInjective
  <1>6. IsFiniteSet(P) /\ Cardinality(P) = Cardinality(Tasks) * Cardinality(1 .. K)
    <2>1. IsFiniteSet(1 .. K) /\ IsFiniteSet(Tasks)
      BY <1>3, FS_Interval DEF Enough
    <2>2. IsFiniteSet(Tasks \X (1 .. K))
          /\ Cardinality(Tasks \X (1 .. K)) = Cardinality(Tasks) * Cardinality(1 .. K)
      BY <2>1, FS_Product
    <2> QED
      BY <2>2 DEF P
  <1>7. Cardinality(1 .. K) = K /\ Cardinality(Buffers) = NrBuffers
    BY <1>3, FS_Interval DEF Buffers
  <1>8. NrBuffers <= Cardinality(Tasks) * K
    BY <1>5, <1>6, <1>7, FS_Injection
  <1>9. NrBuffers > Cardinality(Tasks) * K
    BY DEF Enough, K
  <1>10. Cardinality(Tasks) * K \in Nat
    BY <1>3, FS_CardinalityType DEF Enough
  <1> QED
    BY <1>3, <1>8, <1>9, <1>10

(* Where somebody who is awake uses a buffer, he goes on using one: the step *)
(* is another task's, or takes nothing away from anybody.                    *)
LEMMA StillAwake ==
  ASSUME IInv, IInv', Counted, Counted', BufferWaitEnds, NEW t \in Tasks, NEW c,
         call' = [call EXCEPT ![t] = c], c.pc # "buffer_wait",
         (\E b \in Buffers : UsesOf(t, b) > 0) => \E b \in Buffers : UsesOf(t, b)' > 0
  PROVE  BufferWaitEnds'
  <1>1. \A u \in Tasks : call'[u] = IF u = t THEN c ELSE call[u]
    BY DEF IInv, GoodCalls
  <1> SUFFICES ASSUME NEW v \in Tasks, call'[v].pc = "buffer_wait"
               PROVE \E u \in Tasks, b \in Buffers : call'[u].pc # "buffer_wait" /\ UsesOf(u, b)' > 0
    BY DEF BufferWaitEnds
  <1>2. call[v].pc = "buffer_wait"
    BY <1>1
  <1>3. PICK u \in Tasks : call[u].pc # "buffer_wait" /\ \E b \in Buffers : UsesOf(u, b) > 0
    BY <1>2 DEF BufferWaitEnds
  <1>4. CASE u = t
    BY <1>1, <1>3, <1>4
  <1>5. CASE u # t
    <2>1. PICK b \in Buffers : UsesOf(u, b) > 0
      BY <1>3
    <2>2. UsesOf(u, b)' = UsesOf(u, b)
      BY <1>1, <1>5 DEF UsesOf, HasAtHand
    <2> QED
      BY <1>1, <1>3, <1>5, <2>1, <2>2
  <1> QED
    BY <1>4, <1>5

(* After a wake-up nobody sleeps. *)
LEMMA AllAwake == ASSUME NEW f, call' = WakeAll(f) PROVE BufferWaitEnds'
  <1>1. \A u \in Tasks :
          call'[u] = IF f[u].pc = "buffer_wait" THEN [f[u] EXCEPT !.pc = "getblk"] ELSE f[u]
    BY DEF WakeAll
  <1>2. \A d : d.pc = "buffer_wait" => [d EXCEPT !.pc = "getblk"].pc # "buffer_wait"
    OBVIOUS
  <1>3. \A u \in Tasks : call'[u].pc # "buffer_wait"
    BY <1>1, <1>2
  <1> QED
    BY <1>3 DEF BufferWaitEnds

(* A task that goes to sleep leaves somebody awake. *)
LEMMA SleepLeaves ==
  ASSUME IInv, IInv', Counted, AllInList, NEW longest \in Nat \ {0}, AllSmall(longest),
         Enough(longest), NEW t \in Tasks, SleepOnBufferWait(t)
  PROVE  BufferWaitEnds'
  <1>1. PICK u \in Tasks, b \in Buffers : u # t /\ call[u].pc # "buffer_wait" /\ UsesOf(u, b) > 0
    <2>1. call[t].pc = "getblk" /\ Unused = {}
      BY DEF SleepOnBufferWait, NotCached, At
    <2> QED
      BY <2>1, SomebodyElse
  <1>2. call'[u] = call[u]
    BY <1>1 DEF SleepOnBufferWait, Goto, IInv, GoodCalls
  <1>3. UsesOf(u, b)' = UsesOf(u, b)
    BY <1>2 DEF UsesOf, HasAtHand
  <1> QED
    BY <1>1, <1>2, <1>3 DEF BufferWaitEnds

(* A step counts no buffer less, or wakes everybody, or is breada's, which *)
(* has its first block.                                                    *)
LEMMA StepCounting ==
  ASSUME IInv, Counted, FoundIsWanted, NEW t \in Tasks, Step(t)
  PROVE  \/ \A b \in Buffers : count'[b] >= count[b]
         \/ \E f : call' = WakeAll(f)
         \/ NextAhead(t) /\ call[t].mine # <<>>
  <1>1. count \in [Buffers -> Nat] /\ call[t].bh \in Buffers
    BY CallFacts DEF Counted, Counts
  <1>2. count' = count => \A b \in Buffers : count'[b] >= count[b]
    BY <1>1
  <1>3. ASSUME Find(t) \/ Take(t) PROVE \A b \in Buffers : count'[b] >= count[b]
    <2>1. PICK a \in Buffers : count' = [count EXCEPT ![a] = count[a] + 1]
      BY <1>1, <1>3 DEF Find, Cached, Take
    <2>2. \A b \in Buffers : count[b] \in Nat /\ count'[b] = IF b = a THEN count[b] + 1 ELSE count[b]
      BY <1>1, <2>1
    <2> QED
      BY <2>2
  <1>4. Found(t) => count' = count
    BY DEF Found, FoundIsWanted, At
  <1>5. ASSUME \/ NoBuffer(t) \/ Choose(t) \/ SleepOnBufferWait(t) \/ Chosen(t) \/ GotHeld(t)
               \/ GotRead(t) \/ Read(t) \/ SyncNext(t) \/ SyncWrite(t) \/ Write(t)
               \/ SyncAgain(t) \/ Synced(t)
        PROVE  count' = count
    BY <1>5 DEF NoBuffer, Choose, SleepOnBufferWait, Chosen, GotHeld, GotRead, Read, SyncNext,
       SyncWrite, Write, SyncAgain, Synced
  <1>6. GotFreed(t) \/ CheckPage(t) \/ Released(t) => \E f : call' = WakeAll(f)
    <2>1. GotFreed(t) \/ Released(t) => \E f : call' = WakeAll(f)
      BY DEF GotFreed, Released
    <2>2. CheckPage(t) => \E f : call' = WakeAll(f)
      BY DEF CheckPage
    <2> QED
      BY <2>1, <2>2
  <1>7. CheckRead(t) => (count' = count \/ \E f : call' = WakeAll(f))
    <2>1. CheckRead(t) => count' = count \/ call' = WakeAll(Returned(t, call[t].held))
      BY DEF CheckRead
    <2> QED
      BY <2>1
  <1>8. GotFurther(t) => count' = count \/ (NextAhead(t) /\ call[t].mine # <<>>)
    BY DEF GotFurther, Further
  <1>9. ReadAhead(t) => NextAhead(t) /\ call[t].mine # <<>>
    BY CallFacts DEF ReadAhead, At, GoodCall
  <1> QED
    BY <1>2, <1>3, <1>4, <1>5, <1>6, <1>7, <1>8, <1>9, Zenon DEF Step

(* breada uses its first block. *)
LEMMA FirstIsUsed ==
  ASSUME IInv, NEW t \in Tasks, NextAhead(t), call[t].mine # <<>>
  PROVE  \E b \in Buffers : UsesOf(t, b)' > 0
  <1>1. call[t] \in Calls /\ call \in [Tasks -> Calls] /\ call[t].mine \in Seq(Buffers)
    BY CallFacts DEF IInv, GoodCalls
  <1> DEFINE s == call[t].mine
             b == s[1]
  <1>2. b \in Buffers /\ Len(s) \in Nat \ {0} /\ DOMAIN s = 1 .. Len(s)
    BY <1>1
  <1>3. call'[t].mine = s /\ call'[t].held = call[t].held
    BY <1>1 DEF NextAhead, Calls
  <1>4. Times(s, b) > 0
    <2> HIDE DEF s
    <2>1. 1 \in Places(s, b)
      BY <1>2 DEF Places
    <2>2. IsFiniteSet(Places(s, b)) /\ Times(s, b) = Cardinality(Places(s, b)) /\ Times(s, b) \in Nat
      BY <1>1, TimesIsNat DEF s
    <2>3. Cardinality(Places(s, b)) # 0
      BY <2>1, <2>2, FS_EmptySet
    <2> QED
      BY <2>2, <2>3
  <1>5. Times(call[t].held, b) \in Nat /\ Times(s, b) \in Nat
    BY <1>1, CallFacts, TimesIsNat
  <1> HIDE DEF s
  <1>6. PICK first \in Buffers : first = b
    BY <1>2
  <1>7. UsesOf(t, first)' > 0
    <2>1. UsesOf(t, first)' = Times(call[t].held, first) + Times(s, first)
                                + IF HasAtHand(t, first)' THEN 1 ELSE 0
      BY <1>3 DEF UsesOf
    <2> QED
      BY <1>4, <1>5, <1>6, <2>1
  <1> QED
    BY <1>7

(* Every step of a call leaves somebody awake who uses a buffer. *)
LEMMA StepAwake ==
  ASSUME IInv, IInv', Counted, Counted', FoundIsWanted, AllInList, BufferWaitEnds,
         NEW longest \in Nat \ {0}, AllSmall(longest), Enough(longest), NEW t \in Tasks, Step(t)
  PROVE  BufferWaitEnds'
  <1>1. PICK c : Shape(t, c)
    BY StepShape
  <1>2. CASE \E f : call' = WakeAll(f)
    BY <1>2, AllAwake
  <1>3. CASE SleepOnBufferWait(t)
    BY <1>3, SleepLeaves
  <1>4. CASE ~SleepOnBufferWait(t) /\ ~\E f : call' = WakeAll(f)
    <2>1. call' = [call EXCEPT ![t] = c] /\ c.pc # "buffer_wait"
      BY <1>1, <1>4 DEF Shape
    <2>2. (\E b \in Buffers : UsesOf(t, b) > 0) => \E b \in Buffers : UsesOf(t, b)' > 0
      <3>1. CASE NextAhead(t) /\ call[t].mine # <<>>
        BY <3>1, FirstIsUsed
      <3>2. CASE \A b \in Buffers : count'[b] >= count[b]
        BY <2>1, <3>2, KeepsUse
      <3> QED
        BY <1>4, <3>1, <3>2, StepCounting
    <2> QED
      BY <2>1, <2>2, StillAwake
  <1> QED
    BY <1>2, <1>3, <1>4

(* A call begins: the task has what it had. *)
LEMMA BeginAwake ==
  ASSUME IInv, IInv', Counted, Counted', BufferWaitEnds,
         NEW longest \in Nat \ {0}, \A u \in Tasks : \A ids \in Ahead[u] : Len(ids) <= longest, AllSmall(longest),
         NEW t \in Tasks, Get(t) \/ Sync(t) \/ Brelse(t)
  PROVE  BufferWaitEnds' /\ AllSmall(longest)'
  <1>1. call[t] \in Calls /\ call[t].pc = "user" /\ Progress(call[t])
    BY CallFacts DEF Get, Sync, Brelse, At, Counted
  <1>2. call[t].mine = <<>> /\ call[t].op = "none"
    <2>1. \A held : Caller(held).mine = <<>> /\ Caller(held).op = "none"
      BY DEF Caller
    <2>2. call[t] = Caller(call[t].held)
      BY <1>1 DEF Progress
    <2> QED
      BY <2>1, <2>2
  <1>3. PICK c : call' = [call EXCEPT ![t] = c] /\ c.pc # "buffer_wait" /\ Small(c, longest)
    <2>1. CASE Get(t)
      <3>1. PICK op \in Uses[t] \ {"sync", "sync_dev"} :
              \E ids \in IF op \in {"breada", "bread_page"} THEN Ahead[t] ELSE Ones :
                call' = [call EXCEPT ![t].pc = "getblk", ![t].op = op, ![t].todo = ids]
        BY <2>1 DEF Get
      <3>2. PICK ids \in Ahead[t] \union Ones :
              call' = [call EXCEPT ![t].pc = "getblk", ![t].op = op, ![t].todo = ids]
        BY <3>1
      <3> DEFINE d == [call[t] EXCEPT !.pc = "getblk", !.op = op, !.todo = ids]
      <3>3. call' = [call EXCEPT ![t] = d] /\ d.pc = "getblk" /\ d.op = op
            /\ d.mine = call[t].mine /\ d.held = call[t].held /\ d.todo = ids
        BY <1>1, <3>2 DEF Calls
      <3>4. Len(ids) \in Nat /\ Len(ids) <= longest
        <4>1. CASE ids \in Ahead[t]
          BY <4>1, Constants
        <4>2. CASE ids \in Ones
          <5>1. PICK id : ids = <<id>>
            BY <4>2 DEF Ones
          <5>2. Len(ids) = 1
            BY <5>1
          <5> QED
            BY <5>2
        <4> QED
          BY <3>2, <4>1, <4>2
      <3>5. Len(d.mine) = 0
        BY <1>2, <3>3
      <3> HIDE DEF d
      <3>6. Outstanding(d) = 0 + Len(ids)
        BY <3>3, <3>5, Zenon DEF Outstanding
      <3>7. Outstanding(d) <= longest
        BY <3>4, <3>6
      <3>8. Len(call[t].held) <= MaxHeld
        BY <2>1 DEF Get
      <3>9. op \notin Syncs \union {"none"}
        BY <3>1, UsesAssumption DEF Operations, Syncs
      <3>10. Small(d, longest)
        BY <3>3, <3>7, <3>8, <3>9 DEF Small
      <3> QED
        BY <3>3, <3>10
    <2>2. CASE Sync(t)
      <3>1. ASSUME NEW d, d = [call[t] EXCEPT !.pc = "sync", !.op = "sync"]
            PROVE  d.pc = "sync" /\ d.op = "sync"
        BY <1>1, <3>1 DEF Calls
      <3>2. ASSUME NEW dev, NEW d, d = [call[t] EXCEPT !.pc = "sync", !.op = "sync_dev", !.dev = dev]
            PROVE  d.pc = "sync" /\ d.op = "sync_dev"
        BY <1>1, <3>2 DEF Calls
      <3>3. PICK d : call' = [call EXCEPT ![t] = d] /\ d.pc = "sync" /\ d.op \in Syncs
        <4>1. CASE call' = [call EXCEPT ![t].pc = "sync", ![t].op = "sync"]
          BY <3>1, <4>1 DEF Syncs
        <4>2. ASSUME NEW dev, call' = [call EXCEPT ![t].pc = "sync", ![t].op = "sync_dev", ![t].dev = dev]
              PROVE  \E d : call' = [call EXCEPT ![t] = d] /\ d.pc = "sync" /\ d.op \in Syncs
          BY <3>2, <4>2 DEF Syncs
        <4> QED
          BY <2>2, <4>1, <4>2 DEF Sync
      <3>4. Small(d, longest)
        BY <3>3 DEF Small, Syncs
      <3> QED
        BY <3>3, <3>4
    <2>3. CASE Brelse(t)
      <3> DEFINE d == [call[t] EXCEPT !.pc = "brelse", !.bh = call[t].held[Len(call[t].held)],
                                      !.held = SubSeq(@, 1, Len(@) - 1)]
      <3>1. call' = [call EXCEPT ![t] = d] /\ d.pc = "brelse" /\ d.op = "none"
        BY <1>1, <1>2, <2>3 DEF Brelse, Calls
      <3> HIDE DEF d
      <3>2. Small(d, longest)
        BY <3>1 DEF Small, Syncs
      <3> QED
        BY <3>1, <3>2
    <2> QED
      BY <2>1, <2>2, <2>3
  <1>4. \A b \in Buffers : count'[b] >= count[b]
    <2>1. count' = count
      BY DEF Get, Sync, Brelse
    <2>2. \A b \in Buffers : count[b] \in Nat
      BY DEF Counted, Counts
    <2> QED
      BY <2>1, <2>2
  <1>5. (\E b \in Buffers : UsesOf(t, b) > 0) => \E b \in Buffers : UsesOf(t, b)' > 0
    BY <1>3, <1>4, KeepsUse
  <1>6. BufferWaitEnds'
    BY <1>3, <1>5, StillAwake
  <1>7. \A u \in Tasks : Small(call'[u], longest)
    BY <1>3, SmallByOne
  <1> QED
    BY <1>6, <1>7 DEF AllSmall

(* A step that leaves the calls alone. *)
LEMMA AloneAwake ==
  call' = call => (BufferWaitEnds => BufferWaitEnds')
                  /\ \A longest : AllSmall(longest) => AllSmall(longest)'
  BY DEF BufferWaitEnds, AllSmall, UsesOf, HasAtHand

(* Every step keeps all of it. *)
LEMMA NextAwake ==
  ASSUME NEW longest \in Nat \ {0}, \A u \in Tasks : \A ids \in Ahead[u] : Len(ids) <= longest, Enough(longest)
  PROVE  /\ IInv /\ IInv' /\ Counted /\ Counted' /\ FoundIsWanted
         /\ AllInList /\ AllSmall(longest) /\ BufferWaitEnds /\ [Next]_vars
         => AllSmall(longest)' /\ BufferWaitEnds'
  <1> SUFFICES ASSUME IInv, IInv', Counted, Counted', FoundIsWanted, AllInList, AllSmall(longest),
                      BufferWaitEnds, [Next]_vars
               PROVE  AllSmall(longest)' /\ BufferWaitEnds'
    OBVIOUS
  <1>1. CASE call' = call
    BY <1>1, AloneAwake
  <1>2. ASSUME NEW t \in Tasks, Get(t) \/ Sync(t) \/ Brelse(t)
        PROVE AllSmall(longest)' /\ BufferWaitEnds'
    BY <1>2, BeginAwake
  <1>3. ASSUME NEW t \in Tasks, Step(t) PROVE AllSmall(longest)' /\ BufferWaitEnds'
    <2>1. PICK c : Shape(t, c)
      BY <1>3, StepShape
    <2>2. Small(c, longest)
      BY <1>3, <2>1, StepSmall
    <2>3. \A u \in Tasks : Small(call'[u], longest)
      BY <2>1, <2>2, SmallByOne DEF Shape
    <2>4. BufferWaitEnds'
      BY <1>3, StepAwake
    <2> QED
      BY <2>3, <2>4 DEF AllSmall
  <1>4. ASSUME NEW t \in Tasks, Change(t) \/ SwitchTo(t) PROVE call' = call
    BY <1>4 DEF Change, SwitchTo
  <1>5. ASSUME NEW b \in Buffers, EndTransfer(b) PROVE call' = call
    BY <1>5 DEF EndTransfer
  <1>6. UNCHANGED vars => call' = call
    BY DEF vars
  <1> QED
    BY <1>1, <1>2, <1>3, <1>4, <1>5, <1>6, Zenon DEF Next

(* While somebody sleeps on buffer_wait, somebody who does not sleep there  *)
(* has a buffer to release: getblk never brings everybody to a stop, as     *)
(* long as there are more buffers than all tasks together can have while    *)
(* they ask for one.  (buffer_init makes almost ten thousand of the memory  *)
(* up to 0xD00000, for 64 tasks; no call asks for more than four blocks.)   *)
THEOREM SpecBufferWaitEnds ==
  ASSUME NEW longest \in Nat \ {0}, \A u \in Tasks : \A ids \in Ahead[u] : Len(ids) <= longest, Enough(longest)
  PROVE  Spec => []BufferWaitEnds
  <1>1. Init => AllInList /\ AllSmall(longest) /\ BufferWaitEnds
    <2> SUFFICES ASSUME Init PROVE AllInList /\ AllSmall(longest) /\ BufferWaitEnds
      OBVIOUS
    <2>1. \A t \in Tasks : call[t].pc = "user" /\ call[t].op = "none"
      BY DEF Init, Caller
    <2>2. \A b \in Buffers : b \in DOMAIN free /\ free[b] = b
      BY DEF Init
    <2> QED
      BY <2>1, <2>2 DEF AllInList, AllSmall, Small, Syncs, BufferWaitEnds
  <1> QED
    BY <1>1, ListKeeps, NextAwake, SpecIInv, SpecCounted, SpecFoundIsWanted, PTL DEF Spec
=============================================================================
