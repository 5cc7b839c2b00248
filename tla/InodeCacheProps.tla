-------------------------- MODULE InodeCacheProps --------------------------
(* What the inodes in memory, the bitmap and the directory owe each other. *)
EXTENDS InodeCache

(* iget never lets a number have two inodes in memory, although it sleeps   *)
(* while it waits for one and while it reads one (inode.c:254-292).         *)
OneInodePerNumber ==
  \A r, s \in Slots : inode[r].num = inode[s].num /\ inode[r].num # 0 => r = s

(* i_count is how many inodes the tasks hold: as their pwd, as the inode of *)
(* a call that has got it, as the empty one of iget.                        *)
Looking == {"search_wait", "sync", "sync_disk"}
Users(s) == Cardinality({t \in Tasks : call[t].pwd = s})
            + Cardinality({t \in Tasks : call[t].empty = s})
            + Cardinality({t \in Tasks : call[t].slot = s /\ call[t].pc \notin Looking})
CountIsUsers == \A s \in Slots : inode[s].count = Users(s)

(* What get_empty_inode relies on (inode.c:209-222): an inode that nobody   *)
(* counts is neither dirty nor locked.                                      *)
UnusedIsClean == \A s \in Unused : ~inode[s].dirt /\ ~inode[s].lock

(* An inode is locked by the one task that reads or writes it. *)
LockOwned ==
  \A s \in Slots :
    Cardinality({t \in Tasks : call[t].slot = s
                   /\ call[t].pc \in {"read", "iput_disk", "sync_disk"}})
      = IF inode[s].lock THEN 1 ELSE 0

(* An inode that is not dirty is what the disk has, once it has been read. *)
CleanIsOnDisk ==
  \A s \in Slots :
    inode[s].num # 0 /\ ~inode[s].dirt /\ ~inode[s].lock /\ inode[s].links # 0
      => disk[inode[s].num] = [links |-> inode[s].links, dir |-> inode[s].dir]

(* An entry names an inode that is in use, and no two name the same; an     *)
(* inode in use has an entry, or is in memory until iput frees it.          *)
InodesAccounted ==
  /\ \A p \in Places : dir[p].nr # 0 => dir[p].nr \in imap
  /\ \A p, q \in Places : dir[p].nr = dir[q].nr /\ dir[p].nr # 0 => p = q
  /\ \A n \in imap : \/ \E p \in Places : dir[p].nr = n
                     \/ \E s \in Slots : inode[s].num = n /\ inode[s].count > 0

(* bitmap.c:119-124: free_inode is called for an inode that nobody else uses *)
(* and that has no links.                                                    *)
FreedIsUnused ==
  \A t \in Tasks : call[t].pc \in {"free", "free_now"} => Mine(t).count <= 1 /\ Mine(t).links = 0
=============================================================================
