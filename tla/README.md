# Verification of disk-format (ver08)

The repository holds three stages (`ver06`, `ver07`, `ver08`) of a small
Unix-like kernel for the 386 that grew out of Linux 0.1x and learns to
partition, format, mount and use a hard disk. Everything here is about
`src/ver08`, the latest stage; paths below are relative to it.

One CPU, no threads in the kernel: a task loses the CPU only when it calls
`schedule()`, or in user mode. What makes the code hard is what comes between
two steps of a task all the same:

* other tasks, whenever a task sleeps (`sleep_on`): a buffer, an inode or a
  directory looked at before the sleep may be something else after it;
* the disk's interrupt, which ends requests, unlocks buffers and wakes tasks;
* the keyboard interrupt, which in this kernel **runs the shell**: a command
  such as `mkdir` or `format_hd` executes on the kernel stack of whatever task
  was interrupted, in the middle of whatever it was doing.

## 1. Inventory

| Component | State | Operations | Talks to |
|---|---|---|---|
| sleep and wake-up, `kernel/sched.c` | `current`, `task[].state`, the `task_struct *` wait queues, the `tmp` variables of the sleepers | `schedule`, `sleep_on`, `interruptible_sleep_on`, `wake_up`, `add_timer`, `do_timer` | everyone |
| block layer, `kernel/blk_drv/ll_rw_blk.c` | `request[32]`, the queue of the drive, `wait_for_request`; `b_lock`, `b_dirt`, `b_uptodate` of the buffers | `ll_rw_block`, `ll_rw_page`, `lock_buffer`, `make_request`, `add_request` | buffer cache above, driver below |
| disk driver, `kernel/blk_drv/hd.c` | `do_hd`, `reset`, `recalibrate`, `reset_hd`'s `i`, partition table | `do_hd_request`, the interrupt handlers, `end_request`, polled transfers | block layer, controller |
| buffer cache, `fs/buffer.c` | the buffer heads, hash lists, free list, `buffer_wait` | `getblk`, `get_hash_table`, `brelse`, `bread`, `breada`, `bread_page`, `sync_dev`, `sys_sync`, `invalidate_buffers` | block layer, file system |
| inodes, `fs/inode.c` | `inode_table[64]` with counts, locks, dirt | `iget`, `iput`, `get_empty_inode`, `sync_inodes`, `bmap` | buffer cache, bitmaps, mounts |
| bitmaps, `fs/bitmap.c`, `fs/truncate.c` | the bitmap buffers of each super block | `new_block`, `free_block`, `new_inode`, `free_inode`, `truncate` | buffer cache, super blocks |
| super blocks, `fs/super.c` | `super_block[8]`, mount points | `read_super`, `put_super`, `mount`, `umount`, `mount_root` | inodes, buffer cache |
| directories, `fs/namei.c`, `fs/open.c` | directory blocks | `find_entry`, `add_entry`, `mkdir`, `rmdir`, `mknod`, `chdir` | inodes, bitmaps |
| files, pipes, select, `fs/*.c` | `file_table[64]`, pipe pages | `read`, `write`, `pipe`, `select` | inodes, tty |
| format and setup, `kernel/api01.c` | the disk's sectors | `sys_setup`, `sys_format_hd`, `sys_ls`, `sys_pwd` | polled driver, `fs` |
| shell, `kernel/shell.c`, `keyboard.s` | `cmd_buf`, secondary queue | `shell_manage`, `format_cmd_buf` | system calls, in interrupt context |
| terminal, `kernel/chr_drv/tty_io.c` | read, write and secondary queue of each tty | `copy_to_cooked`, `tty_read`, `tty_write`, `put_queue` | keyboard interrupt, shell |
| memory, `mm/memory.c` | `mem_map[]`, page tables | `fork`'s `copy_page_tables`, `free_page_tables`, `do_wp_page`, `do_no_page`, `share_page` | tasks |
| processes, `kernel/fork.c`, `exit.c`, `signal.c` | `task[64]` and the links between parents, children and siblings | `fork`, `exit`, `waitpid`, `kill` | memory, files |
| kernel heap, `lib/malloc.c` | bucket directory, free lists | `malloc`, `free_s` | memory |
| boot, traps, console, library | — | — | not modelled, see `PROJECT.json` |

What makes each part correct, in one line each:

* **block layer and driver**: a lock has one owner and is dropped exactly once;
  no slot is lost or used twice; a transfer that is queued ends, if the drive answers; a buffer that
  counts as clean equals its block; a sleeper is woken.
* **buffer cache**: one buffer per block; nobody's buffer is given to another
  block; whoever waits for a buffer gets one.
* **inodes, bitmaps, directories**: one inode in memory per inode on the disk;
  a bit is set for what is in use and for nothing else; counts equal references. (That a
  name appears once in a directory is not kept: section 6.)
* **format**: the geometry it writes is one that `mount_root` and the bitmaps
  can live with.
* **terminal**: the queues hold what was typed, and a line goes to the console it was
  typed at.
* **memory**: the count of a page equals the page-table entries that name it, and what a
  task reads changes by its own writes only.
* **processes**: the sibling lists and the table agree.

The hazards, each at its line, are listed in `PROJECT.json`.

## 2. The modules

A component gets a module; what states its properties gets one of its own
(`...Props`), the instances for TLC another (`MC...`), the proofs a third
(`..._proofs`).

| Module | Models | Rests on |
|---|---|---|
| `Sched` | wait queues, `__sleep_on`, `wake_up` | |
| `BlockIO`, `BlockIOProps` | block layer and driver | `Sched` |
| `DiskIO` | what the two promise the buffer cache (abstract) | |
| `BufferCache`, `BufferCacheProps`, `BufferCacheSync` | the buffer cache | `DiskIO` |
| `InodeCache`, `InodeCacheProps` | inodes in memory, a directory, the inode bitmap | `Sched`; a block is a register |
| `MinixFS`, `Format`, `Bitmaps`, `Volume`, `VolumeProps` | format, mount, bitmaps | |
| `PrivateMemory` | what fork, faults and exit promise the tasks (abstract) | |
| `Processes`, `ProcessesProps` | tasks, their families and their pages | |
| `Terminal`, `TerminalProps` | consoles and the shell inside the keyboard interrupt | |
| `BlockIO_proofs`, `BlockIOChain_proofs`, `BlockIODisk_proofs` | | `BlockIOProps` |
| `BufferCache_proofs` | | `BufferCacheSync` |
| `InodeCache_proofs` | | `InodeCacheProps` |
| `Processes_proofs` | | `ProcessesProps` |
| `Volume_proofs` | | `VolumeProps` |
| `Terminal_proofs` | | `TerminalProps` |

The order was that of what depends on what: the block layer first, since every
sleep in the file system ends there, then the cache above its promise, then
what the cache's users rely on, then the two parts that do not touch the disk.

Two specifications are abstract and implemented: `DiskIO` by `BlockIO` (checked and
proved), and used by `BufferCache` in the place of the block layer; `PrivateMemory`
by `Processes` (checked action by action, and proved).

## 3. The block layer

### Correspondence

`Sched` models `schedule`, `__sleep_on` and `wake_up` as operators that the
modules of the sleepers use. A wait queue is a pointer to the last sleeper
(`wq[q]`), and each sleeper's local `tmp` (`tmp[t]`) points to the one before.
`Overtaken`/`SleepAgain` is the `goto repeat` of `__sleep_on`, `Unlink` its end.
The counters are abstracted: `schedule` takes any runnable task.

`BlockIO` models `ll_rw_blk.c` and `hd.c`.

| Variable | Code |
|---|---|
| `buf[b]` | `b_lock`, `b_dirt`, `b_uptodate`, `<b_dev, b_blocknr>` (`id`); `stale` is the set of sectors in which the buffer and the disk differ, the meaning the flags are judged by |
| `request[s]` | the slots; `busy` is `dev >= 0` |
| `queue` | `CURRENT, CURRENT->next, ...` |
| `hd` | `do_hd` (`intr`), `reset`, `recalibrate`, the static `i` of `reset_hd`; `driving` while `do_hd_request` runs |
| `task[t]` | where the task is in the block layer (`pc`) and the arguments it is there with |
| `wild` | the kernel has written through a NULL pointer; nothing follows |

A step is code that nothing can interrupt in a way that matters. Where the code
runs with interrupts enabled between two accesses that the handler also makes,
there are two steps: looking for a slot and sleeping (`FindFull`,
`SleepOnRequest`), filling and linking (`FillRequest`, `AddRequest`), linking
and starting the drive (`StartDrive`). `Masked` labels are those with
interrupts disabled. `add_request` keeps interrupts disabled while it walks the
queue only through `cli`/`sti` around the whole, so the walk is one step.

No interrupt is modelled while `do_hd_request` runs, although `add_request` calls it with
interrupts enabled: the drive interrupts after the command that `hd_out` sends
last, when `do_hd` has been set and nothing is changed any more; and an interrupt nobody waits for
finds `unexpected_hd_interrupt`, which returns at once, since `sys_load_flags` is 1 from
`hd.c:575` on (`hd.c:218-229`).

The passes through `do_hd_request` are one disjunct each, the ways through the
interrupt handlers likewise. What the drive reports is free: any interrupt may
report an error, any write may fail to get its data request. `bad_rw_intr`
reads `CURRENT->errors` after `end_request`; `ResetAfterError` gives the values
that can be read there, any when `CURRENT` is NULL.

The callers of the block layer are two actions: `Modify`, a task that changes
the contents of a buffer it may use, and `Reuse`, `getblk` giving a buffer to
another block. Both are wider than the code of `fs/buffer.c` (section 4).

`DiskIO` is what the cache may rely on: a buffer is free, held or queued; the
end of a transfer leaves it equal to its block, or dirty, or not up to date.
`BlockIOProps!ImplementsDiskIO` says that `BlockIO` implements it under the
mapping `Buffer`.

### Runs

All run with `CHECK_DEADLOCK FALSE`: an out-of-use machine (`wild`) stops, and
so does the model.

| Run | Instance | Shows |
|---|---|---|
| `block_safety` | 2 tasks, a buffer and page requests, 2 slots, 2 drives, 3 errors, a block out of range | `IInv` (the invariant of the proofs), `LockOwned`, `SlotsAccounted`, `DriveBusyWithWork`, `ChainWhole`, `NoLostWakeup`, `CleanMeansOnDisk`, `HandlerHasRequest`, `PageWaiterHasRequest`, the refinement `ImplementsDiskIO` |
| `block_live` | 1 task, 2 buffers and page requests, 3 slots, fair | `RequestsEnd` |
| `block_lost_wakeup` | 2 tasks, 2 buffers, 2 slots | `WaitsForARequest` is violated: asleep for a slot while all are free |
| `block_masked` | 2 tasks, 1 buffer, fair | `InterruptsEnabledAgain` is violated: two sleepers wake each other with interrupts disabled |

Bounds. Two slots give the full array, the last third (one slot) kept for reads,
and a queue with a waiting request (`block_safety`); three give the link in the middle, a page
request before the second buffer of the queue (`block_live`; longer queues in the
proofs). `MAX_ERRORS` 2 gives a first
error and a last one, with the reset in between (`MAX_ERRORS/2`); `block_safety`
takes 3. `block_live` has one task, so that the array is never full for it: that a task which
waits for a slot gets one is not shown, and is not so (`block_lost_wakeup`). A block has its real two sectors; a page has 2 or 1 instead of 8: the
handlers tell the last sector from the others and nothing else. A chain of
sleepers needs three tasks to have a middle: the run has two, the proof of
`ChainWhole` any number. Every property of `block_safety` is also proved for all
values of these constants (section 9), so that the instance serves to find
mistakes quickly and to see each mutant fail; what it is too small for, the proofs
cover. `Assigned` says which buffers may hold which blocks (every way, or one way
where buffers are not symmetric), `Uses` what the callers of the layer do (all of it in
`block_safety`; reads, writes, pages and `wait_on_buffer` in `block_live`). No
counter is unbounded: `errors` is bounded by `MAX_ERRORS`, which `TypeOK` together
with the runs' termination shows.

### What the elevator does not keep

`IN_ORDER` (`ll_rw_blk.c:233-243`) is meant to put reads before writes and each
kind in the order of sectors, but `add_request` compares the new request with
the neighbours of a place only. A write that finds the queue in service is
linked at once behind it when the sector is right, and stays before reads that
come later; a read can be overtaken again and again by requests in the sweep in
progress; and a page request goes before the first buffer request of the queue,
but a buffer request that comes later may be linked before it, so that page
requests are not first either. What the comments say ("reads always go before writes",
`include/linux/blk.h:46-48`; "swapping requests always go before other requests",
`ll_rw_blk.c:55-56`) is therefore what the queue mostly does and not what it keeps,
and no property about the order of the queue is stated; what is stated (and proved)
is that linking behind any place loses and doubles nothing (`SlotsAccounted`). For the same reason a request can wait for ever
while others keep coming: with three buffers TLC finds a loop in which two are written
again and again, each linked before the third.

### Fairness

`FairSpec` asks for: a task in the kernel goes on (`WF` of `Kernel`), which
holds because nothing else can run until it sleeps; a task that can run gets the
CPU from time to time (`SF` of `Dispatch`), because `schedule` gives every
runnable task new counters when all are used up; user mode is interrupted by
the timer (`WF` of `SwitchTask`); `do_hd_request` runs to its end; and the drive
answers each command (`SF` of `HdInterrupt`: strong because interrupts are
disabled now and then, while the 8259 keeps the request). `RequestsEnd` assumes
moreover that interrupts are enabled infinitely often, since the run
`block_masked` shows that they need not be, and that from some time on no new requests
come (`NoNewRequests`), since the elevator lets them pass.

## 4. The buffer cache

### Correspondence

`BufferCache` models `fs/buffer.c` above `DiskIO` (`Disk == INSTANCE DiskIO`):
what the cache sees of a transfer is that its buffer is `held` by the task that
prepares it, then `queued`, then `free` again.

| Variable | Code |
|---|---|
| `buffer[b]` | `b_lock` (`use # "free"`), `b_dirt`, `b_uptodate`, `<b_dev, b_blocknr>` (`id`); `same`: the contents equal the block's |
| `count[b]` | `b_count` |
| `free` | the free list from `free_list` on; the hash lists are `Cached(id)`, since a buffer is in the list of its block |
| `cpu` | the task that runs |
| `call[t]` | what `t` calls (`op`), where it is (`pc`), and its local variables: `todo`, the blocks still to get, `mine`, the buffers got, `bh`, the loop index `i` of a sync; and `held`, the buffers it has from calls before |

There is no preemption in the kernel: `SwitchTo` needs `MaySleep(cpu)`, which lists
the places where the code sleeps or may sleep. Only `EndTransfer`, the drive's
interrupt, happens at any time. `getblk` is `Find`, `Found` (`get_hash_table`),
`Choose` (the loop over the free list with `BADNESS`), `SleepOnBufferWait`,
`Chosen` (the waits and `sync_dev`, after each of which the code looks again) and
`Take`. Where a call goes on from there depends on `op`: `GotHeld`, `GotFreed`
(`free_block`), `GotRead` and `Read` (`bread` and the first block of the others),
`GotFurther` and `ReadAhead` (the other blocks of `breada`), `CheckRead` and
`CheckPage` (after `wait_on_buffer`). `sys_sync` and `sync_dev` are one loop,
`SyncNext` jumping over the buffers that need nothing. `sync_inodes` is a place
where the CPU may be lost; what it writes is a `Change` of some other task.

Abstractions, and why they may be made. The chain of sleepers on `buffer_wait` is
replaced by `WakeAll`: `ChainWhole` of section 3 shows that the chain holds every
sleeper, and each wakes the next. `EndTransfer` takes the worst case of what
`DiskIO` allows: a buffer equals its block only if it must. `Brelse` releases the
buffer got last, `MaxHeld` bounds how many a task has when it calls `getblk`
again (0 in the runs; several are held inside `breada` and `bread_page`).

What the two modules assume of each other: `BlockIO` lets its callers do more
than the cache does (`Modify` any buffer that is not being prepared, `Reuse` any
free one, `Forget` any), and `DiskIO` names these with their guards; the actions
of `BufferCache` use `DiskIO`'s own (`Disk!Modify`, `Disk!Reuse`, `Disk!Forget`,
`Disk!Take`, `Disk!Queue`), so they keep to it by construction, and
`ImplementsDiskIO` is the other half.

### Runs

Deadlock is checked in all of them.

| Run | Instance | Shows |
|---|---|---|
| `cache_safety` | 2 tasks, 2 buffers, 3 blocks; `getblk`, `breada`, `bread_page`, `free_block`, and the `sync_dev` of `getblk` | `TypeOK`, `OneBufferPerBlock`, `CountIsUsers`, `FoundIsWanted`, `BufferWaitEnds`, `TakenIsClean` |
| `cache_live` | 2 tasks, 2 buffers, 3 blocks; `breada` of one block and of two, `sys_sync`, `sync_dev`, fair | `SyncWritesAll`, `CallsReturn` |

Bounds. Two tasks and fewer buffers than blocks give every contention: for one
buffer, for one block, for the last unused buffer. What a task calls is `Uses[t]`, which blocks
it asks for together is `Ahead[t]`. `FirstX` (`cache_safety`) makes the calls of two
blocks begin with the same block: two tasks that each hold one of two buffers and
want a second wait for ever, in the code as in the model, and the code avoids it
by having thousands of buffers and at most four in one call (`SpecBufferWaitEnds`, below). That is a
property of the numbers, listed as a hazard, and not of the protocol.
`Meeting` (`cache_live`) is the smallest case in which a drop of a count without a
wake-up (`buffer.c:173`, `316`) could be missed: one task has read x and drops z, which it only looked
ahead for, while the other, which could not read z, sleeps on `buffer_wait` for y. TLC reaches that state.
`BufferCacheSync` adds a record of what became dirty during a sync (`dirtied`), to
state `SyncWritesAll`; `History` never restricts a step. In `cache_safety` nobody calls `sys_sync` or `sync_dev`
by itself, so the record stays empty. Both runs have one device; that a sync of one device passes over another's
buffers only when it may is covered by the proof of `SpecSyncWritesAll` alone, where `Dev` is arbitrary.
One case never happens because of what the runs show: `Found` with another
block in the buffer (`FoundIsWanted`).

### Fairness

`SF(SwitchTo(t))`, and `SF` of `Brelse(t)` or of `Step(t)` outside `make_request`: a task that can run gets the
CPU and goes on until it waits (section 3); strong, since the buffer a task waits for may be locked again
before the task runs. `Brelse` is a task's step between calls, `Step` its step in one, so the two are never enabled
together. Whoever holds a buffer releases it, which every caller in `fs/` does; that is an assumption about
the callers.

Nothing more is assumed of every behaviour. That a transfer ends and that `make_request` finds a slot are
not what the block layer guarantees: with interrupts masked for ever (`block_masked`) no transfer ends, and
after a lost wake-up (`block_lost_wakeup`) a task waits for a slot for ever. They are hypotheses of
`CallsReturn` instead (`TransfersEnd`, `SlotsCome`), beside the one that no new calls come: while they come, a
waiter can find the buffer locked again each time it looks. So `CallsReturn` says what the cache
adds: it has no wait of its own that does not end.

### Remarks

`breada` passes its first block to `ll_rw_block(READA, ...)` where it means the
others (`buffer.c:315`; `ReadAhead` has what the code does): the blocks read ahead are got,
and not read. `make_request` clears `b_dirt` for reads too
(`ll_rw_blk.c:68`): `block_write` fills whole buffers and leaves `b_uptodate` alone, so
that a read of such a block before it is written reads the disk over what was
written. No system call of `ver08` reaches `block_write`; `TakenIsClean` therefore speaks
of buffers that were up to date.

## 5. Format, mount and bitmaps

### Correspondence

`Format` is `sys_format_hd` with `create_rootdir`. `Super(n)` is the chain of
divisions that makes the super block of a partition of `n` blocks, step by step; the
actions `WriteBoot` to `WriteRootDir` write the blocks in the order of the code, `at` being
`sector_num_lba / 2`. What a block holds is a record (a partition table, a super
block, the set of the bits of a map, an inode table with or without the root, a
directory). `WriteInodes` leaves `at` alone as the code does. `LastBits` is the
filling of the last block of a bitmap with its table of odd bytes.

`Bitmaps` is `fs/bitmap.c`, with the zones and inodes in use (`zones`, `inodes`) beside
the bits. `Volume` puts them together: the disk is formatted, the machine starts
(`Start`: `sys_setup`'s reading of the partition table, then `mount_root`), zones and
inodes are taken and freed.

Small disks. The code tests for 360 blocks (`api01.c:597`) before it takes off the 2048 below the
partition (`api01.c:636`), so that a disk of 392 to 2079 blocks is formatted with less than nothing for
a partition. The model follows it there: the sizes are ints (`Quot` rounds towards zero), the fields of
the super block 16 bits (`Short`), a write past the end of the disk is lost (`write_first_disk` asks for
no status), and a read past it waits for data that never come (`"stuck"`, which ends with the power).
What comes of it is `HasRoom`: from seven blocks on the partition has its file system; below, the format
waits for ever in `create_rootdir`, or ends, and the machine that is started from the disk panics.

`Start` goes to the end of `mount_root`. Its last two loops (`super.c:404-425`) count what is free bit by
bit from `s_nzones` and `s_ninodes` down, in `s_zmap[i>>13]` and `s_imap[i>>13]`: where the zones are one more than
the bitmap has bits for, the first pointer is `NULL`; the kernel, which may read address 0, takes what is
there for a buffer, and goes on (`Strays`, `mount = "strayed"`).

The bitmaps are scaled: `MapBits` is 16 instead of 8192 in the run `volume`, so that the disks of all
sizes from 0 to 220 blocks go from one that does not reach to the partition, through those without room
(`TooLittle`, 2, is below `FirstPart`, 10, as 360 is below 2048), from one block of bitmap to all eight
slots and beyond `MAX_LOG_ZONE_AMOUNT` (128); the proofs (section 9) are for every scale, the real one too.

### Runs

| Run | Instance | Shows |
|---|---|---|
| `volume` | 221 sizes, up to 8 zones and 8 inodes taken, 1 freed | `TypeOK`, `SectionsAsDeclared` and `RootMounts` (where there is room all transfers stay on the disk and `mount_root` gets through; where there is none it panics), `UsedIsReachable`, `BitsAreOwners` |
| `volume_zones` | the real constants, one disk of 10407 blocks | `ZonesHaveBits` is violated |

`CHECK_DEADLOCK FALSE`: a format ends, and a full disk gives nothing more.

`volume_zones`: with 181 cylinders, 5 heads and 23 sectors (20815 sectors, 10407
blocks) the partition has 8327 blocks, of which 8192 are zones with one block of
bitmap: the count is made twice, and the second time only the zones are
corrected. Zone 8192 has no bit, `s_nzones % 8192` is 0 so that the whole bitmap is
written as used, and `mount_root` looks for the bit in `s_zmap[1]`, which is `NULL` (`RootMounts`
allows for that case and for no other).
Partitions of 16651, 24974, ... blocks, one in each 8323, have the same flaw.

### Remarks

The format writes the number of data zones into `s_nzones`; the kernel
(`fs/bitmap.c`) takes it for the number of all blocks. So the last
`s_firstdatazone` zones of a file system are never given out, and a small one
gives out none; this is also why the driver's refusal of the last block of a
partition (`hd.c:319`) never matters (`UsedIsReachable`). `new_block` sets the bit before it finds
that the zone is too high: such a bit stays set, and `BitsAreOwners` speaks of the zones below
`s_nzones`. `bit_odd` is taken from the number of the byte, not of the bit
(`api01.c:775`): up to seven zones or inodes are marked as used, or left free
beyond the end, where `new_block` and `new_inode` refuse them. The inode table is cleared in its first block only
(`api01.c:862-875` never moves `sector_num_lba` on); `SectionsAsDeclared` lets the other blocks be old or cleared.

## 6. Inodes and directories

### Correspondence

`InodeCache` models `fs/inode.c` with what works on inodes through it: `sys_chdir`,
`sys_mkdir`, `sys_rmdir` (`fs/open.c`, `fs/namei.c`), `new_inode` and `free_inode`, and
`sync_inodes`. There is one directory, the root; a longer path repeats the steps
of the last component. A block of the disk is a register: that is what the cache
promises (sections 3 and 4), and reading or writing one is a place where the
task may lose the CPU (`MaySleep`).

| Variable | Code |
|---|---|
| `inode[s]` | `inode_table[s]`: `i_num` (0: no device), `i_count`, `i_lock`, `i_dirt`, `i_nlinks`, whether it is a directory; `i_wait` is the wait queue `s` of `Sched` |
| `disk`, `imap`, `dir` | the inodes on the disk, the bits of the inode bitmap, the root's entries |
| `call[t]` | the call and its variables: the name, the entry, the number, `slot` (`inode`), `empty` (of `iget`), what `sync_inodes` has not seen yet, and the task's `pwd` |
| `halted` | `panic()`, or a write outside a buffer |

`iget` is `Iget` (`get_empty_inode`, which clears the slot, `i_wait` with it),
`SearchFound`, `SearchWaited`, `SearchFailed` and `ReadInode`; `iput` is `Iput`,
`WriteInode`, `Truncate`, `FreeInode`. `Wait`, `WaitAgain` and `Woken` are the sleep on
`i_wait`, by `Sched`. `get_empty_inode` has a wait for a lock and a write of
a dirty inode (`inode.c:209-222`); `UnusedIsClean` shows that neither happens, since
`iput` never leaves an inode it has counted down to 0 dirty or locked.

### Runs

| Run | Instance | Shows |
|---|---|---|
| `inode_safety` | 3 tasks, 3 inodes in memory, 2 on the disk, 2 entries, 2 names, calls `Orderly` | `TypeOK`, `CountIsUsers`, `UnusedIsClean`, `OneInodePerNumber`, `LockOwned`, `CleanIsOnDisk`, `InodesAccounted` |
| `inode_freed` | 2 tasks, every call | `FreedIsUnused` is violated |

Bounds. Two tasks meet in `iget` for one inode, three are needed for a chain of
sleepers on one; three slots let every task have one and run out
(`NoFreeInodes`). Two numbers give the root, a new directory, and none left. The
counts end with the tasks; nothing is unbounded. `CHECK_DEADLOCK FALSE`: a
panic ends the machine.

`Orderly` chooses, once, which task makes which calls. It leaves out two pairs, because the
code does not keep the properties with them:

* the `rmdir` that frees an inode beside a `sync`. `sync_inodes` may wait for the
  inode's lock or be inside `write_inode` when `free_inode` clears the slot without
  taking the lock (`bitmap.c:134`); `write_inode` then unlocks, and marks as clean, an inode that
  is somebody else's by now, or writes one with number 0 before the beginning of
  the buffer (`WriteInode`, `halted`).
* `rmdir` beside a lookup of the same name. The lookup reads the entry, sleeps in
  `iget`, and counts an inode that `rmdir` has meanwhile left without links; `iput`
  looks at `i_count` before `truncate` gives way (`inode.c:182`) and not again. The run
  `inode_freed` shows `free_inode` called for an inode with two users, against
  `bitmap.c:119-124`.

Three more flaws that no property is made of. `mkdir` looks for the name, sleeps in `new_inode` and
`new_block`, and adds the entry without looking again (`namei.c:575`): two calls can make one name twice, each
with an inode of its own. The memset of `get_empty_inode` clears
`i_wait`: tasks that were woken from the chain and have not run are lost with
it, and those behind them sleep for ever (three tasks on one inode). And
`sys_mkdir`, when it cannot read back the block it has just got, returns without
freeing the zone: it sets `i_nlinks` to 0, and `iput` frees the inode at once when its
mode is not yet a directory's.

Every property of `inode_safety` is proved for any number of tasks, slots, inodes, entries
and names (section 9), under the hypothesis `AtPeace`, of which `Orderly` is an instance.

Fairness: none is stated; these are safety properties.

## 7. Tasks and their memory

### Correspondence

`Processes` models `kernel/fork.c`, `kernel/exit.c`, `mm/memory.c` and the part of
`mm/swap.c` that takes pages back. The kernel is not preempted, and what is here
sleeps in `do_exit` (closing files) and in `waitpid` only, so that most calls
are one step.

| Variable | Code |
|---|---|
| `mem_map`, `content` | `mem_map[]`, and what a page holds: zeroes, the kernel's, or what a task has written |
| `task`, `tcb` | `task[]` and the structs, by the page they are in; `at` is the state, and the links `p_pptr`, `p_cptr`, `p_ysptr`, `p_osptr` are pages too |
| `dir`, `pt` | the page table of a task and its entries, with the bits present (`page # Null`), writable and dirty |
| `retry` | the access that is tried again after a fault |
| `machine` | which calls the tasks make and how much memory there is: chosen once |

`Got` is `get_free_page`: the last free page, or, while there is none, what
`swap_out` has dropped. `SWAP_DEV` is 0, so `swap_out` leaves dirty pages alone and
drops clean ones. `Fork` is `copy_process` with `copy_page_tables` (one table, since a
task has at most 3 MB), `ForkFails` its two ways out; `WriteProtected` is `do_wp_page`
with `un_wp_page`, `NoPage` is `do_no_page` without a program file. `Exit` and `ExitDone`
are `do_exit` before and after it may sleep, `Gone` the inheritance by task 1;
`Reap` and `Wait` are `sys_waitpid(-1)` with `release`.

`exit` is reached in ver08 by signals and faults; `waitpid` is compiled, and not in
the table of system calls, as `exec` is. They are modelled because the lists that
`do_exit` keeps are theirs.

### Runs

`processes` runs five machines, chosen in `Init` (`MCProcesses!Several`):

| Machine | Tasks | Pages | Calls | For |
|---|---|---|---|---|
| `Roomy` | 2 | 8 | all | everything together, enough memory |
| `Copies` | 3 | 9 | write, fork, exit | pages shared by three |
| `Family` | 4 | 8 | fork, exit, wait | the lists: a child in the middle, inherited children and zombies |
| `Small` | 3 | 6 | all but read | memory that runs out half-way through fork and the faults |
| `Alone` | 1 | 3 | read, write | `swap_out`: clean pages are dropped and come back as zeroes |

(task 0 is not counted). Two addresses are enough for a task that shares one page and owns the
other. They show `TypeOK` (a count fits into its byte), `PagesAccounted`,
`FamilyFits`, `ZombieIsNoticed`, and `MemoryIsPrivate`: what a task reads at an address changes only when it
writes there itself (`PrivateMemory!Store`), a forked child has what its father had (`Fork`), an exit ends a
memory (`Leave`), and no other step (a fault, a copy, a page that is dropped, a step of
another task) changes what anybody reads. `EachItsOwn` binds each action of `Processes` to the one of
`PrivateMemory`, with its actor, so that what one task may do is not allowed to another.
`CHECK_DEADLOCK FALSE`: all tasks but init may be gone, and init waiting.

What the machines leave out, because the code does not keep the properties with it:

* A timer interrupt between a fault and the second try of the write (`ticks`) when
  memory is short. `un_wp_page` enters the copy as clean (`memory.c:265`); another
  task that runs out of memory then drops it, and the copy's contents are gone,
  so that `MemoryIsPrivate` fails.
* A page that is clean and shared when memory is short. `un_wp_page` keeps the address
  of the old page over `get_free_page` (`memory.c:260-263`), which may drop that very entry, and counts the
  page off a second time: `PagesAccounted` fails. A page is clean and shared only
  when it was read from a program file, or read and never written before a fork,
  after an `exec` in both cases (until then the entries name the kernel's pages, all present);
  `Small` has no `read`.

Every property of `processes` is proved for any number of tasks, pages and addresses
(section 9), under the hypothesis `AtEase`, which says of every machine that it is none of
these; the five machines of the run satisfy it.

The comment at `memory.c:129-135` says that the first fork copies 160 pages; ver08
copies 1024. Nothing depends on it.

## 8. The consoles and the shell

### Correspondence

There is no shell process. Task 1 calls `start_shell` and spins in `init()`, task 0
calls `pause` for ever. A key comes with an interrupt; `do_tty_interrupt` runs
`copy_to_cooked`, and a newline there calls `shell_manage`, which runs the command
at once: on the kernel stack of the task that was interrupted. The gate of the
keyboard leaves interrupts enabled and the 8259 has been told the end of the
interrupt before (`keyboard.s:72-76`), so that the next key interrupts the command.

| Variable | Code |
|---|---|
| `read_q[c]`, `secondary[c]` | the queues of console `c`; keys are letters, erase, kill and newline |
| `fg_console` | the console that is shown, and that keys go to |
| `stack[t]` | the keyboard interrupts on the kernel stack of task `t`, from the first on: the console that `do_tty_interrupt` was called for, whether it is in the loop, in a command, or in a command that sleeps |
| `current` | task 0 or 1 |
| `wild` | a command has gone through `current->pwd` of task 0 |

`Key` is `keyboard_interrupt` with `put_queue`, `ChangeConsole` is `change_console`; `PutChar`,
`EraseChar`, `KillLine`, `Newline` and `Leave` are the passes of the loop of
`copy_to_cooked`. `Newline` takes the line of the console **that is shown**, as
`shell_manage` does, not of the one the loop works for. A command is what it does to
the CPU: it sleeps on the disk some times (`SleepOnDisk`, `DiskInterrupt`), or not at all.

Task 0 has no working directory: it has forked before `sys_setup` mounted the
root. A command that needs one and runs on its stack follows `NULL`
(`NoDirectory`). `WildNeedsASleeper` says when that can happen: only while a command of task 1
is asleep, since task 0 has the CPU at no other time. The comment at
`tty_io.c:387-390`, that there "should be absolutely no problem with sleeping even in an
interrupt (I hope)", is thus right as long as nobody types meanwhile.

### Run

`terminal`: 2 consoles, a read queue of one key, a line of two characters,
interrupts nested two deep (1.3 million states): `TypeOK`, `CookedIsTyped`,
`LineIsTheConsoles`, `WildNeedsASleeper`. `TerminalProps` adds the history
`typed`, what the user has typed and edited on each console, and never restricts a
step. `CookedIsTyped` says that the queues hold it, `LineIsTheConsoles` that the console shown
and the console of the loop are the same when a line is taken, although consoles
change while commands run. `CHECK_DEADLOCK FALSE`: the machine stops when `wild`.

Assumption: keys come between lines or while a command runs, not between two
instructions of the loop. With keys as fast as the processor two loops would work on
one queue, and `GETCH` on both is not atomic.

### Remarks

A line of 1023 characters ends the console: `copy_to_cooked` stops when the
secondary queue is full, and the newline that would empty it stays in the read queue. A line
of blanks returns from `format_cmd_buf` with interrupts disabled (`shell.c:54, 72-76`,
no `restore_intr_flag`), until the task is switched. Nested commands use one
`cmd_buf`: the outer one goes on with the line of the inner. Each nested
interrupt takes its part of the one page of kernel stack. A nested command that wants
an inode which the command beneath has locked waits for ever.

## 9. Proofs

Every invariant, action property and refinement that a passing run checks is proved for all values of the constants,
under the assumptions that the modules declare (`SchedAssumption`, `BlockIOAssumption`,
`BufferCacheAssumption`, `InodeCacheAssumption`, `MinixAssumption`, `FormatAssumption`, `VolumeAssumption`,
`ProcessesAssumption`, `TerminalAssumption`) and no others, but for the hypotheses that a theorem states: `Enough` of
`SpecBufferWaitEnds`, `AtPeace` and `FewTasks` of the inodes, `AtEase` and `FewTasks` of the tasks.
Each proof has one lemma per action.

`BlockIO_proofs`: `SpecTypeOK`, `SpecLockOwned`, `SpecSlotsAccounted`,
`SpecNoUnlockedBlock` (the panic "block not locked" is unreachable), all from `SpecIInv`.
`TypeOK` and `NoUnlockedBlock` are not run separately: the first is part of `IInv`, the second
follows from it.

`IInv` joins the types, the accounting of the slots and the ownership of the
locks with three facts that make them inductive: a task that is in
`lock_buffer` or `wait_on_buffer` has a buffer (`HasBuffer`), a slot that a task
is about to link is for that task's buffer (`FilledSlot`), and a request that is
in use has sectors left (`SectorsLeft`). The slots are needed for the locks: that
`end_request` drops the lock of a buffer nobody else owns follows from the
queue holding each slot once and each buffer in one slot at most.

`BlockIOChain_proofs`: `SpecChainWhole`, `SpecNoLostWakeup`, using that the tasks are finitely many.
`ChainWhole` says that a permutation of the sleepers of a queue exists that `*p` and
the `tmp` variables run through. With `IInv` it is inductive. `PushKeeps` and
`PopKeeps` give the new permutation when a task goes to sleep (`__sleep_on` at two
places) and when one leaves, `SameKeeps` is for all other steps (`Quiet`). That
nobody but the top can leave is the `goto repeat` of `__sleep_on`. `NoLostWakeup`
needs `ChainWhole` too: the task that is woken when a buffer is unlocked is the top only
because the chain is whole.

`BlockIODisk_proofs`: `SpecDriveBusyWithWork`, `SpecHandlerHasRequest`,
`SpecPageWaiterHasRequest`, `SpecImplementsDiskIO`, `SpecCleanMeansOnDisk`. The first two rest on one invariant about the drive: while
`do_hd_request` does not run, a handler that takes a request is set only with a
queue that is not empty, the queue is not empty without a handler or a task that is about to
start the drive, and two tasks are never about to start it at once. The third adds that the
request of a page is, from `FillRequest` on, for the task that is marked as asleep. For the
other two the invariant `DiskInv` says what a clean buffer owes the disk while it is queued: it may
differ from it in the sectors still to come only (`Faithful`), the sector on its
way to the drive is the one the buffer has (`WrittenOut`), and a request covers
whole blocks (`WholeBlocks`). The refinement then has two parts: the initial
state maps to `DiskIO`'s, and every step, buffer by buffer, is a step of `DiskIO` on one
buffer or leaves all alone.

`BufferCache_proofs`: `SpecOneBufferPerBlock` and `SpecTakenIsClean`, from `SpecIInv`.
Here `IInv` is the types of the buffers, of the free list and of the calls,
`OneBufferPerBlock`, and two facts that make them inductive. `CleanIsSame`: a
buffer that is clean, up to date and not queued is what the disk has, without which
`TakenIsClean` is not inductive, since `getblk` looks at `b_dirt` only.
`GoodCall`: a task inside `getblk` has a block to get, and one that reads ahead has
its first buffer. `OneBufferPerBlock` itself rests on `getblk` looking the
block up again (`buffer.c:220`) with no sleep before it takes the buffer.
`DiskKeeps` carries what `DiskIO` may do to a buffer, and `StepIds` says that no action
except `Take` changes which block a buffer is for, so that `TakenIsClean` is a fact about `Take`.

Then `SpecCountIsUsers`, `SpecTypeOK`, `SpecFoundIsWanted`, `SpecSyncWritesAll` and
`SpecBufferWaitEnds`, each resting on those before it. `Counted`: the uses of a buffer are a finite set of pairs
(`AllUses`), and every action adds one, takes one away or leaves them alone, as it does
with `b_count` (`OneMoreUse`, `OneUseLess`, `SameCounts`); for that one has to know what a
call has got when it ends (`Progress`: only `bread_page` gathers several buffers). That a
count never goes below zero, so that `TypeOK` holds, is a consequence and not a
hypothesis. `FoundIsWanted`: only `Take` changes the block of a buffer, it takes one with no
count, and whoever is at a buffer counts it. `SyncHistory` (for
`SyncWritesAll`): the buffers before the index of the loop that are dirty have become so during the sync.
`BufferWaitEnds` needs that `getblk` sleeps only when every buffer of the list is counted, that the
list has them all (`AllInList`), and how much a task that asks for a buffer can have: at most `MaxHeld`
before the call and one less than the call's blocks in it (`AllSmall`). If every user slept, the
buffers would fit into those places (an injection into tasks times places), against
the hypothesis `Enough`. The code meets it: `buffer_init` makes almost ten thousand buffers, there are 64
tasks, and `bread_page` asks for four blocks. The run `cache_safety` lies outside the hypothesis (two
buffers, two tasks that may ask for two) and shows what the order of the blocks is good for there.

`InodeCache_proofs`: `SpecTypeOK`, `SpecCountIsUsers`, `SpecOneInodePerNumber`,
`SpecUnusedIsClean`, `SpecLockOwned`, `SpecCleanIsOnDisk`, `SpecInodesAccounted`,
`SpecFreedIsUnused` and `SpecStopsWhenFull`. They have two hypotheses.

* `AtPeace`: a task that calls `rmdir` shares the machine only with tasks that call
  `mkdir`; and when somebody syncs, the entries of the directory are enough for all the
  inodes (`NrInodes <= NrPlaces`). It is what the code needs: section 6 says what a `rmdir` beside
  a lookup or a `sync` does, and the run `inode_freed` shows it. The second half excludes the same flaw by another
  way: a `mkdir` that finds no room for its entry (`AddEntry` fails) gives up an inode that is
  already a directory, `iput` frees it, and `sync` may be in it. Whoever has the machine
  to himself, and any number of tasks that look up, make directories and sync, are at
  peace.
* `FewTasks`: three times the number of tasks is below 2^16. `i_count` has 16 bits, and a task
  counts an inode three times at most; the code has 64 tasks.

The properties are not inductive, not even together. `IInv` adds what each task
knows of its inodes, one conjunct for each of the roles an inode can have in a call:

* `Pwd`: the working directory has a number, and an entry names it. `Empty`: what `iget` has taken to be
  filled later is counted once and has no number.
* `LooksUp`: between the look-up and the reading the entry still has the number that was
  found there, since nobody removes it. `Locks`: whoever reads or writes an inode has its lock; one that is
  being read is counted once.
* `Shares`: the inode of any other call has an entry. `Owns`: the inode of a
  `mkdir` before its entry is made, and of a `rmdir` after it has been cleared, is this task's
  alone, counted once, in no entry, and without links from the moment it is to be freed; no
  sync can be under way then. So `free_inode` takes it from nobody.

and of the inodes and entries: `SlotOK` (an inode with a number has its bit; one that an
entry names has been read, unless its reader holds the lock; a lock has an owner),
`OneLocks`, `EntryOK` (what an entry names is, on the disk or dirty in memory, a directory with two links).
`CountIsUsers` is part of it: that `rmdir` may unlink an inode with `i_count` 1 says
something about the other tasks only because the count is the number of users.
`UsersAfter` and `OneMember` carry the three cardinalities through each action.
`SpecStopsWhenFull` is an action property: a step that halts the kernel finds no inode unused.
`InodeCacheAssumption` asks for one name at least (an entry has one).

`Volume_proofs`: `SpecTypeOK`, `SpecSectionsAsDeclared`, `SpecRootMounts`,
`SpecUsedIsReachable`, `SpecBitsAreOwners`, for disks, bitmaps' blocks and inode tables'
blocks of any size. One half is arithmetic: `SuperFits` says that the chain of divisions
of `Super` gives numbers that fit their fields, follow each other without a gap, fill the
partition and leave two data zones at least (one for the root, one block the driver
refuses). It needs a partition of 7 blocks (`HasRoom`) and 4 inodes to a block
(`MinixAssumption`; the code has 32): with fewer the inode table of the smallest
file system takes all its blocks. The other half is `VInv`, the invariant of the loops: `Heads`, the blocks
that a later step reads again stay as they were written; `Loops`, `sector_num_lba` is
where the super block says, and everything before it is written and nothing after it;
`MountInv`, what is mounted is what was formatted, bit 0 of both bitmaps stays set,
and what is in use lies in the partition. `BitsAreOwners` is inductive with it:
that `free_block` clears the bit of the zone it frees and of no other follows from zones lying
above bit 0, and that a bit found clear is nobody's from `BitsAreOwners` itself. Of disks without
room the invariant (`AnyInv`) says only what the blocks may hold, which is enough for `mount_root` to panic.

`Processes_proofs`: `SpecTypeOK`, `SpecPagesAccounted`, `SpecMemoryIsPrivate`, `SpecImplementsPrivate`,
`SpecFamilyFits`, `SpecZombieIsNoticed` and `SpecHaltsWhenFull`, from `SpecIInv`, for
any number of tasks, pages and addresses. Two hypotheses:

* `AtEase`: of every machine one of three things is true (`Sound`). It has memory for all
  that its tasks can have (a struct, a page table and every address, `Enough`), so
  that `swap_out` never runs; or its tasks do not touch their pages; or no timer
  comes between a fault and the second try, and nobody both reads and forks, so that what
  `swap_out` may drop is in one entry and holds zeroes. Section 7 says what the code
  does to the others.
* `FewTasks`: at most 100 tasks, since 100 (`USED`) in `mem_map` marks what is not to
  be given out. The code has 64.

`IInv` has two halves. `MInv` is about the pages: `Counted`, `mem_map` is the number of references (the pages
beyond the machine's have none and are marked); `Owned`, the page of a struct or of a page table is that
alone; `Once`, a task has a page at one address; `Lives`, who has a page table; `Writable`, a
page that may be written is in one entry; `Forgotten`, what no entry names holds zeroes; `Tries`, the
second try finds its entry; and `Droppable`, what makes the rest survive
`swap_out`: an entry that is clean is of a page that nobody shares and that holds zeroes, unless
there is enough memory. That a page with count 1 is in one place, and one with count 0
in none, is `OneRef` and `NoRefs`: facts about the cardinalities of three sets, which
`OneMember` follows through each action. When there is `Enough`, `OneFree` and `TwoFree` find the free
pages by the pigeonhole principle. `MemoryIsPrivate` then follows action by action: what
a task sees at an address (`Sees`) is the same after a fault that is served, after another's
exit, and after another's write, whose page is in one entry (`Writable`).

`FInv` is about the family. `Links` says that links answer each other, and leaves
open that a list ends and has all the children. `Ranked` adds that: there are numbers (ranks) that
fall strictly along a list and that a list passes over none of. `ListedIs` shows from it
that the list of a task, walked from the youngest, is the set of its children. `Descends`
says that every task comes down from init, so that the parent of a task is not among its own
children. `Noticed` is `ZombieIsNoticed` without the lists. A fork gives the new child
the highest rank; `release` takes one out; `do_exit` puts the children of the one who leaves
above those of init, in their order, and below nothing. That init has a child whenever another
task exits (`InitHasChild`: the line of ancestors leads there) makes the panic of `ExitDone` unreachable.
`SpecHaltsWhenFull` is an action property: the machine halts in `oom()` and nowhere else.

`Terminal_proofs`: `SpecTypeOK`, `SpecLineIsTheConsoles`, `SpecWildNeedsASleeper`, `SpecCookedIsTyped`, for any
number of consoles, queues of any size and interrupts nested to any depth. The invariant
`Inv` adds three facts to the types. `KeysTaken`: a key that could be worked into its line is
alone in its queue, its console is the one shown, and the loop that runs is about to take it;
every loop that was left for a command had gone as far as it could. `Resting`: a task loses
the CPU inside a command, never in the loop. `ZeroIsSecond`: task 0 has the CPU only
while something is on the stack of task 1. The line that is taken is the shown
console's because a newline still to be taken is a pending key. `CookedIsTyped` is inductive with
`Inv`, given two facts about the fold in it: what it makes of no key, and of one key more at the
end (`FoldAppend`). The fold of the community modules is a recursive function over sets of
places; that there is such a function (`FoldExists`) and what it is step by step (`FoldSteps`) is shown by induction over
the length (`UpTo`, from the least number that is not in a set).

Only model-checked: what is violated (`ZonesHaveBits`, `FreedIsUnused`, `WaitsForARequest`,
`InterruptsEnabledAgain`), and `RequestsEnd` and `CallsReturn`, which are liveness and out of the
prover's reach.

## 10. Not modelled

Only `src/ver08` is modelled: `ver06` and `ver07` are the same kernel with less of it, two
thirds of the repository's lines. In `ver08` a good part is compiled and never reached,
because the table of system calls has fifteen entries (`fork`, `write_simple`, `pause`,
three that print, `start_shell`, `setup`, `ls`, `pwd`, `chdir`, `mkdir`, `rmdir`, `sync`,
`format_hd`):

* files, pipes, `select`, `fcntl`, `stat`, `ioctl`, `exec`, `mount`, `umount`, the other
  calls of `namei.c`: no system call makes or opens a file, so that their state never changes.
* the serial lines, `tty_read`, `tty_write`, the line discipline beyond
  `copy_to_cooked`: nobody calls them.
* the kernel heap (`malloc` has no caller), the timer list (`add_timer` has none),
  `hd_times_out` (nothing arms it), the swap map (`SWAP_DEV` is 0), `share_page` (there is no
  executable), `invalidate_buffers`.

Reached, and left out because it keeps no state that lasts or is not concurrent: boot,
start, traps, console drawing, the printing calls, the string and formatting library.

Left out of modelled parts: counters, alarms and signals of `schedule`; the partition
arithmetic of `hd_init`; the polled transfers of the format command, whose meeting with
a request in flight depends on what the controller does (hazard at `hd.c:354`); zones
of a file beyond the first block of a directory (`_bmap`, `truncate`'s indirect blocks); groups, sessions and
orphaned groups in `exit.c`.
