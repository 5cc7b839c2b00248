----------------------------- MODULE InodeCache -----------------------------
(***************************************************************************)
(* The inodes in memory, fs/inode.c, with the inode bitmap and a directory *)
(* (the root) above them: chdir, mkdir, rmdir and the inode half of sync.  *)
(*                                                                         *)
(* A task keeps the CPU until it reads a block, waits for an inode's lock, *)
(* or gives way in truncate().  A block on the disk is what the buffer     *)
(* cache says it is: a register.  The contents of an inode are its links   *)
(* and whether its mode is a directory's.                                  *)
(*                                                                         *)
(* There is one device and nothing is mounted on it.  The root's own inode *)
(* never leaves the memory; what its lock does is the wait in PutDir.      *)
(***************************************************************************)
EXTENDS Sched

CONSTANTS
  NoSlot,   \* the NULL pointer to an inode
  Names,    \* the names asked for
  NrInodes, \* s_ninodes
  NrPlaces, \* the entries the directory has room for
  Uses      \* which calls each task makes: a set of functions

Slots == Queues  \* inode_table; the queue of a slot is its i_wait
Numbers == 1 .. NrInodes
Places == 1 .. NrPlaces
NoPlace == 0

ASSUME InodeCacheAssumption ==
  /\ NrInodes \in Nat \ {0} /\ NrPlaces \in Nat \ {0} /\ Names # {}
  /\ NoSlot \notin Slots
  /\ Uses \subseteq [Tasks -> SUBSET {"chdir", "mkdir", "rmdir", "sync"}]

VARIABLES
  inode,  \* inode_table; i_dev = 0 is num = 0
  disk,   \* the inodes on the disk
  imap,   \* the bits of s_imap
  dir,    \* the entries of the root directory; unused: nr = 0
  call,   \* call[t]: what t calls, how far it is, its variables and its pwd
  uses,   \* which of Uses: chosen once
  halted  \* the kernel has stopped in panic(), or written outside a buffer

inodeVars == <<inode, disk, imap, dir>>
vars == <<schedVars, inodeVars, call, uses, halted>>

MaySleep == {"user", "find", "read", "is_empty", "block", "fill", "add", "put_dir",
             "truncate", "free", "iput_disk", "sync_disk"}
Waiting == {"search_wait", "iput", "iput_again", "sync"}
Labels == MaySleep \union Waiting \union {"new_inode", "iget", "search", "got", "free_now", "sync_next"}

DInode == [links : 0 .. 2, dir : BOOLEAN]
Calls == [pc : Labels, op : {"none", "chdir", "mkdir", "rmdir", "sync"},
          name : Names, place : Places \union {NoPlace}, nr : Numbers \union {0},
          slot : Slots \union {NoSlot},  \* inode
          empty : Slots \union {NoSlot}, \* the empty one of iget
          todo : SUBSET Slots,           \* the slots sync_inodes has not seen
          asleep : BOOLEAN,              \* in __sleep_on, on slot's i_wait
          pwd : Slots \union {NoSlot}]   \* NoSlot: the root

TypeOK ==
  /\ SchedTypeOK
  /\ inode \in [Slots -> [num : Numbers \union {0}, count : 0 .. 2 ^ 16 - 1, lock : BOOLEAN,
                          dirt : BOOLEAN, links : 0 .. 2, dir : BOOLEAN]]
  /\ disk \in [Numbers -> DInode]
  /\ imap \subseteq Numbers
  /\ dir \in [Places -> [name : Names, nr : Numbers \union {0}]]
  /\ call \in [Tasks -> Calls]
  /\ uses \in Uses
  /\ halted \in BOOLEAN

Zero == [num |-> 0, count |-> 0, lock |-> FALSE, dirt |-> FALSE, links |-> 0, dir |-> FALSE]
AnyName == CHOOSE x \in Names : TRUE
Caller(pwd) == [pc |-> "user", op |-> "none", name |-> AnyName, place |-> NoPlace, nr |-> 0,
                slot |-> NoSlot, empty |-> NoSlot, todo |-> {}, asleep |-> FALSE, pwd |-> pwd]

(* The machine after the start: one directory in the root, none in memory. *)
Init ==
  /\ SchedInit
  /\ inode = [s \in Slots |-> Zero]
  /\ disk = [n \in Numbers |-> IF n = 1 THEN [links |-> 2, dir |-> TRUE]
                                        ELSE [links |-> 0, dir |-> FALSE]]
  /\ imap = {1}
  /\ dir = [p \in Places |-> [name |-> AnyName, nr |-> IF p = 1 THEN 1 ELSE 0]]
  /\ call = [t \in Tasks |-> Caller(NoSlot)]
  /\ uses \in Uses
  /\ halted = FALSE
-----------------------------------------------------------------------------
Runs(t) == current = t /\ ~halted
At(t, label) == Runs(t) /\ call[t].pc = label
Goto(t, label) == call' = [call EXCEPT ![t].pc = label]
Return(t) == call' = [call EXCEPT ![t] = Caller(call[t].pwd)]
Mine(t) == inode[call[t].slot]
Set(s, i) == inode' = [inode EXCEPT ![s] = i]
Halt == halted' = TRUE /\ UNCHANGED <<schedVars, inodeVars, call, uses>>
Continue == UNCHANGED <<uses, halted>>

(* unlock_inode *)
Unlock(s, i) ==
  /\ Set(s, [i EXCEPT !.lock = FALSE])
  /\ state' = WakeUp(state, wq[s])
  /\ UNCHANGED <<current, wq, tmp>>

(* memset(inode, 0, sizeof(inode)): i_wait is part of it. *)
Clear(s, count) ==
  /\ Set(s, [Zero EXCEPT !.count = count])
  /\ wq' = [wq EXCEPT ![s] = NoTask]
  /\ UNCHANGED <<current, state, tmp>>

(* while (inode->i_lock) sleep_on(&inode->i_wait), here and in lock_inode. *)
Wait(t) ==
  /\ Runs(t) /\ call[t].pc \in Waiting /\ ~call[t].asleep /\ Mine(t).lock
  /\ SleepOn(t, call[t].slot)
  /\ call' = [call EXCEPT ![t].asleep = TRUE]
  /\ UNCHANGED inodeVars /\ Continue

WaitAgain(t) ==
  /\ Runs(t) /\ call[t].asleep /\ Overtaken(t, call[t].slot)
  /\ SleepAgain(t, call[t].slot)
  /\ UNCHANGED <<inodeVars, call>> /\ Continue

Woken(t) ==
  /\ Runs(t) /\ call[t].asleep /\ ~Overtaken(t, call[t].slot)
  /\ Unlink(t, call[t].slot)
  /\ call' = [call EXCEPT ![t].asleep = FALSE]
  /\ UNCHANGED inodeVars /\ Continue

(* Mutant: an if in the place of the while. *)
WaitedOnce(t, label) == At(t, label) /\ ~call[t].asleep

Waited(t, label) == At(t, label) /\ ~call[t].asleep /\ ~Mine(t).lock

(* get_empty_inode takes a slot that nobody counts; UnusedIsClean says that *)
(* it has nothing to write or to wait for first.  Where the search begins   *)
(* (last_inode) is abstracted.                                              *)
Unused == {s \in Slots : inode[s].count = 0}

NoFreeInodes(t) ==
  /\ Runs(t) /\ call[t].pc \in {"new_inode", "iget"} /\ Unused = {}
  /\ Halt
-----------------------------------------------------------------------------
(* The calls, and find_entry, which reads the directory's block. *)

Call(t) ==
  /\ At(t, "user")
  /\ \E op \in uses[t] \ {"sync"}, name \in Names :
       call' = [call EXCEPT ![t].pc = "find", ![t].op = op, ![t].name = name]
  /\ UNCHANGED <<schedVars, inodeVars>> /\ Continue

ChdirRoot(t) ==
  /\ At(t, "user") /\ "chdir" \in uses[t] /\ call[t].pwd # NoSlot
  /\ call' = [call EXCEPT ![t].pc = "iput", ![t].op = "chdir", ![t].slot = call[t].pwd,
                          ![t].pwd = NoSlot]
  /\ UNCHANGED <<schedVars, inodeVars>> /\ Continue

First(p, S) == p \in S /\ \A r \in S : p <= r
Entries(name) == {p \in Places : dir[p].nr # 0 /\ dir[p].name = name}

FindEntry(t) ==
  LET found == Entries(call[t].name) IN
  /\ At(t, "find")
  /\ \/ (found = {}) # (call[t].op = "mkdir") /\ Return(t)
     \/ found = {} /\ call[t].op = "mkdir" /\ Goto(t, "new_inode")
     \/ /\ call[t].op # "mkdir"
        /\ \E p \in Places :
             /\ First(p, found)
             /\ call' = [call EXCEPT ![t].pc = "iget", ![t].place = p, ![t].nr = dir[p].nr]
  /\ UNCHANGED <<schedVars, inodeVars>> /\ Continue
-----------------------------------------------------------------------------
(* iget *)

Iget(t) ==
  /\ At(t, "iget")
  /\ \E s \in Unused :
       Clear(s, 1) /\ call' = [call EXCEPT ![t].pc = "search", ![t].empty = s]
  /\ UNCHANGED <<disk, imap, dir>> /\ Continue

(* Mutant: an inode that nobody counts is passed over. *)
WithNumberUsed(nr) == {s \in Slots : inode[s].num = nr /\ inode[s].count > 0}

WithNumber(nr) == {s \in Slots : inode[s].num = nr}

SearchFound(t) ==
  /\ At(t, "search")
  /\ \E s \in WithNumber(call[t].nr) :
       call' = [call EXCEPT ![t].pc = "search_wait", ![t].slot = s]
  /\ UNCHANGED <<schedVars, inodeVars>> /\ Continue

(* Mutant: the empty inode is forgotten. *)
SearchWaitedKeeps(t) ==
  LET s == call[t].slot IN
  /\ Waited(t, "search_wait")
  /\ \/ /\ inode[s].num = call[t].nr
        /\ Set(s, [inode[s] EXCEPT !.count = @ + 1])
        /\ call' = [call EXCEPT ![t].pc = "got", ![t].empty = NoSlot]
     \/ /\ inode[s].num # call[t].nr
        /\ call' = [call EXCEPT ![t].pc = "search", ![t].slot = NoSlot]
        /\ UNCHANGED inode
  /\ UNCHANGED <<schedVars, disk, imap, dir>> /\ Continue

(* The identity is looked at once more; the empty inode goes back: without *)
(* a device it is never locked over a sleep, so that iput does not wait.   *)
SearchWaited(t) ==
  LET s == call[t].slot IN
  /\ Waited(t, "search_wait")
  /\ \/ /\ inode[s].num = call[t].nr
        /\ inode' = [inode EXCEPT ![s].count = @ + 1, ![call[t].empty].count = @ - 1]
        /\ call' = [call EXCEPT ![t].pc = "got", ![t].empty = NoSlot]
     \/ /\ inode[s].num # call[t].nr
        /\ call' = [call EXCEPT ![t].pc = "search", ![t].slot = NoSlot]
        /\ UNCHANGED inode
  /\ UNCHANGED <<schedVars, disk, imap, dir>> /\ Continue

SearchFailed(t) ==
  LET s == call[t].empty IN
  /\ At(t, "search") /\ WithNumber(call[t].nr) = {}
  /\ Set(s, [inode[s] EXCEPT !.num = call[t].nr, !.lock = TRUE])
  /\ call' = [call EXCEPT ![t].pc = "read", ![t].slot = s, ![t].empty = NoSlot]
  /\ UNCHANGED <<schedVars, disk, imap, dir>> /\ Continue

ReadInode(t) ==
  LET i == Mine(t) IN
  /\ At(t, "read")
  /\ \/ i.num = 0 /\ Halt
     \/ /\ i.num # 0
        /\ Unlock(call[t].slot, [i EXCEPT !.links = disk[i.num].links, !.dir = disk[i.num].dir])
        /\ Goto(t, "got")
        /\ UNCHANGED <<disk, imap, dir>> /\ Continue

(* What sys_rmdir refuses before it sleeps again; sys_chdir goes on. *)
Got(t) ==
  LET refused == Mine(t).count > 1 \/ ~Mine(t).dir IN
  /\ At(t, "got")
  /\ IF call[t].op = "rmdir" /\ ~refused
       THEN Goto(t, "is_empty")
       ELSE call' = [call EXCEPT ![t].pc = "put_dir", ![t].place = NoPlace]
  /\ UNCHANGED <<schedVars, inodeVars>> /\ Continue
-----------------------------------------------------------------------------
(* rmdir, after empty_dir has read the directory. *)

Rmdir(t) ==
  /\ At(t, "is_empty")
  /\ Set(call[t].slot, [Mine(t) EXCEPT !.links = 0, !.dirt = TRUE])
  /\ dir' = [dir EXCEPT ![call[t].place].nr = 0]
  /\ Goto(t, "put_dir")
  /\ UNCHANGED <<schedVars, disk, imap>> /\ Continue

NotEmpty(t) ==
  /\ At(t, "is_empty")
  /\ call' = [call EXCEPT ![t].pc = "put_dir", ![t].place = NoPlace]
  /\ UNCHANGED <<schedVars, inodeVars>> /\ Continue

(* mkdir: new_inode, new_block, bread, add_entry. *)

(* Mutant: the number is not compared with s_ninodes. *)
NewInodeTooHigh(t) ==
  /\ At(t, "new_inode")
  /\ \E s \in Unused, nr \in 1 .. NrInodes + 1 :
       /\ First(nr, 1 .. NrInodes + 1 \ imap)
       /\ Set(s, [Zero EXCEPT !.num = nr, !.count = 1, !.dirt = TRUE, !.links = 1])
       /\ wq' = [wq EXCEPT ![s] = NoTask]
       /\ imap' = imap \union {nr}
       /\ call' = [call EXCEPT ![t].pc = "block", ![t].nr = nr, ![t].slot = s]
  /\ UNCHANGED <<current, state, tmp, disk, dir>> /\ Continue

NewInode(t) ==
  LET free == Numbers \ imap IN
  /\ At(t, "new_inode")
  /\ \E s \in Unused :
       \/ free = {} /\ Clear(s, 0) /\ Return(t) /\ UNCHANGED <<disk, imap, dir>>
       \/ \E nr \in free :
            /\ First(nr, free)
            /\ Set(s, [Zero EXCEPT !.num = nr, !.count = 1, !.dirt = TRUE, !.links = 1])
            /\ wq' = [wq EXCEPT ![s] = NoTask]
            /\ imap' = imap \union {nr}
            /\ call' = [call EXCEPT ![t].pc = "block", ![t].nr = nr, ![t].slot = s]
            /\ UNCHANGED <<current, state, tmp, disk, dir>>
  /\ Continue

NewBlock(t) ==
  /\ At(t, "block")
  /\ Set(call[t].slot, [Mine(t) EXCEPT !.dirt = TRUE]) /\ Goto(t, "fill")
  /\ UNCHANGED <<schedVars, disk, imap, dir>> /\ Continue

(* Mutant: i_dirt is left as new_block has set it. *)
FillBlockClean(t) ==
  /\ At(t, "fill")
  /\ Set(call[t].slot, [Mine(t) EXCEPT !.links = 2, !.dir = TRUE])
  /\ Goto(t, "add")
  /\ UNCHANGED <<schedVars, disk, imap, dir>> /\ Continue

FillBlock(t) ==
  /\ At(t, "fill")
  /\ Set(call[t].slot, [Mine(t) EXCEPT !.links = 2, !.dir = TRUE, !.dirt = TRUE])
  /\ Goto(t, "add")
  /\ UNCHANGED <<schedVars, disk, imap, dir>> /\ Continue

FreePlaces == {p \in Places : dir[p].nr = 0}

AddEntry(t) ==
  /\ At(t, "add")
  /\ \E p \in Places :
       /\ First(p, FreePlaces)
       /\ dir' = [dir EXCEPT ![p] = [name |-> call[t].name, nr |-> Mine(t).num]]
       /\ call' = [call EXCEPT ![t].pc = "put_dir", ![t].place = p]
  /\ UNCHANGED <<schedVars, inode, disk, imap>> /\ Continue

(* No zone, an error of the disk, or no room in the directory. *)
MkdirFails(t) ==
  /\ Runs(t)
  /\ call[t].pc \in {"block", "fill"} \/ (call[t].pc = "add" /\ FreePlaces = {})
  /\ Goto(t, "put_dir")
  /\ UNCHANGED <<schedVars, inodeVars>> /\ Continue

(* Mutant: i_nlinks is left alone when mkdir has failed. *)
PutDirLinked(t) ==
  /\ At(t, "put_dir")
  /\ IF call[t].op = "chdir" /\ Mine(t).dir
       THEN IF call[t].pwd = NoSlot
              THEN call' = [call EXCEPT ![t] = Caller(call[t].slot)]
              ELSE call' = [call EXCEPT ![t].pc = "iput", ![t].slot = call[t].pwd,
                                        ![t].pwd = call[t].slot]
       ELSE Goto(t, "iput")
  /\ IF call[t].op = "chdir"
       THEN Set(call[t].slot, [Mine(t) EXCEPT !.dirt = TRUE])
       ELSE UNCHANGED inode
  /\ UNCHANGED <<schedVars, disk, imap, dir>> /\ Continue

(* iput(dir), which may wait, and what comes before the other iput. *)
PutDir(t) ==
  LET s == call[t].slot IN
  /\ At(t, "put_dir")
  /\ \/ /\ call[t].op = "chdir" /\ Mine(t).dir
        /\ Set(s, [inode[s] EXCEPT !.dirt = TRUE])
        /\ IF call[t].pwd = NoSlot
             THEN call' = [call EXCEPT ![t] = Caller(s)]
             ELSE call' = [call EXCEPT ![t].pc = "iput", ![t].slot = call[t].pwd, ![t].pwd = s]
     \/ /\ call[t].op = "chdir" /\ ~Mine(t).dir
        /\ Set(s, [inode[s] EXCEPT !.dirt = TRUE]) /\ Goto(t, "iput")
     \/ /\ call[t].op = "mkdir" /\ call[t].place = NoPlace
        /\ Set(s, [inode[s] EXCEPT !.links = 0]) /\ Goto(t, "iput")
     \/ /\ call[t].op = "rmdir" \/ (call[t].op = "mkdir" /\ call[t].place # NoPlace)
        /\ Goto(t, "iput") /\ UNCHANGED inode
  /\ UNCHANGED <<schedVars, disk, imap, dir>> /\ Continue
-----------------------------------------------------------------------------
(* iput; "iput_again" is the label repeat, after a write.  truncate() returns *)
(* at once when the mode is no directory's.                                  *)

(* Mutant: a dirty inode is not written. *)
IputUnwritten(t) ==
  LET i == Mine(t) IN
  /\ Waited(t, "iput") \/ Waited(t, "iput_again")
  /\ \/ call[t].pc = "iput" /\ i.count = 0 /\ Halt
     \/ /\ i.count > 1 \/ i.num = 0 \/ i.links # 0
        /\ Set(call[t].slot, [i EXCEPT !.count = (@ + 2 ^ 16 - 1) % 2 ^ 16]) /\ Return(t)
        /\ UNCHANGED <<schedVars, disk, imap, dir>> /\ Continue
     \/ /\ i.count <= 1 /\ i.num # 0 /\ i.links = 0
        /\ Goto(t, IF i.dir THEN "truncate" ELSE "free_now")
        /\ UNCHANGED <<schedVars, inodeVars>> /\ Continue

Iput(t) ==
  LET i == Mine(t) IN
  /\ Waited(t, "iput") \/ Waited(t, "iput_again")
  /\ \/ call[t].pc = "iput" /\ i.count = 0 /\ Halt
     \/ /\ i.count > 1 \/ i.num = 0 \/ (i.links # 0 /\ ~i.dirt)
        /\ Set(call[t].slot, [i EXCEPT !.count = (@ + 2 ^ 16 - 1) % 2 ^ 16]) /\ Return(t)
        /\ UNCHANGED <<schedVars, disk, imap, dir>> /\ Continue
     \/ /\ i.count <= 1 /\ i.num # 0 /\ i.links # 0 /\ i.dirt
        /\ Set(call[t].slot, [i EXCEPT !.lock = TRUE]) /\ Goto(t, "iput_disk")
        /\ UNCHANGED <<schedVars, disk, imap, dir>> /\ Continue
     \/ /\ i.count <= 1 /\ i.num # 0 /\ i.links = 0
        /\ Goto(t, IF i.dir THEN "truncate" ELSE "free_now")
        /\ UNCHANGED <<schedVars, inodeVars>> /\ Continue

Truncate(t) ==
  /\ At(t, "truncate")
  /\ Set(call[t].slot, [Mine(t) EXCEPT !.dirt = TRUE]) /\ Goto(t, "free")
  /\ UNCHANGED <<schedVars, disk, imap, dir>> /\ Continue

FreeInode(t) ==
  LET i == Mine(t) IN
  /\ At(t, "free") \/ At(t, "free_now")
  /\ \/ i.count > 1 /\ Halt
     \/ /\ i.count <= 1
        /\ imap' = imap \ {i.num}
        /\ Clear(call[t].slot, 0) /\ Return(t)
        /\ UNCHANGED <<disk, dir>> /\ Continue
-----------------------------------------------------------------------------
(* sync_inodes, in any order of the slots. *)

Sync(t) ==
  /\ At(t, "user") /\ "sync" \in uses[t]
  /\ call' = [call EXCEPT ![t].pc = "sync_next", ![t].op = "sync", ![t].todo = Slots]
  /\ UNCHANGED <<schedVars, inodeVars>> /\ Continue

ToSync(t) == {s \in call[t].todo : inode[s].lock \/ inode[s].dirt}

Synced(t) == call' = [call EXCEPT ![t].pc = "sync_next", ![t].slot = NoSlot]

SyncNext(t) ==
  /\ At(t, "sync_next")
  /\ \/ ToSync(t) = {} /\ Return(t)
     \/ \E s \in ToSync(t) :
          call' = [call EXCEPT ![t].pc = "sync", ![t].slot = s, ![t].todo = @ \ {s}]
  /\ UNCHANGED <<schedVars, inodeVars>> /\ Continue

SyncInode(t) ==
  LET dirty == Mine(t).dirt /\ Mine(t).num # 0 IN
  /\ Waited(t, "sync")
  /\ \/ /\ dirty /\ Goto(t, "sync_disk")
        /\ Set(call[t].slot, [Mine(t) EXCEPT !.lock = TRUE])
     \/ ~dirty /\ Synced(t) /\ UNCHANGED inode
  /\ UNCHANGED <<schedVars, disk, imap, dir>> /\ Continue

(* write_inode, after it has read the block: what the inode is by now is    *)
(* put where its number says; number 0 is 32 bytes before the buffer.       *)
WriteInode(t) ==
  LET i == Mine(t) IN
  /\ Runs(t) /\ call[t].pc \in {"iput_disk", "sync_disk"}
  /\ \/ i.num = 0 /\ Halt
     \/ /\ i.num # 0
        /\ disk' = [disk EXCEPT ![i.num] = [links |-> i.links, dir |-> i.dir]]
        /\ Unlock(call[t].slot, [i EXCEPT !.dirt = FALSE])
        /\ IF call[t].pc = "iput_disk" THEN Goto(t, "iput_again") ELSE Synced(t)
        /\ UNCHANGED <<imap, dir>> /\ Continue
-----------------------------------------------------------------------------
(* schedule(), where a task may lose the CPU without sleeping on an inode. *)
SwitchTo(t) ==
  /\ ~halted /\ \A u \in Tasks : current = u => u # t /\ call[u].pc \in MaySleep
  /\ t \in Runnable(state) /\ current' = t
  /\ UNCHANGED <<state, wq, tmp, inodeVars, call>> /\ Continue

Step(t) ==
  \/ Wait(t) \/ WaitAgain(t) \/ Woken(t) \/ NoFreeInodes(t)
  \/ Call(t) \/ ChdirRoot(t) \/ FindEntry(t)
  \/ Iget(t) \/ SearchFound(t) \/ SearchWaited(t) \/ SearchFailed(t) \/ ReadInode(t) \/ Got(t)
  \/ Rmdir(t) \/ NotEmpty(t)
  \/ NewInode(t) \/ NewBlock(t) \/ FillBlock(t) \/ AddEntry(t) \/ MkdirFails(t) \/ PutDir(t)
  \/ Iput(t) \/ Truncate(t) \/ FreeInode(t)
  \/ Sync(t) \/ SyncNext(t) \/ SyncInode(t) \/ WriteInode(t)

Next == \E t \in Tasks : Step(t) \/ SwitchTo(t)

Spec == Init /\ [][Next]_vars
=============================================================================
