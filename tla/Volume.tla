------------------------------- MODULE Volume -------------------------------
(***************************************************************************)
(* A disk is formatted (Format), the machine started from it: sys_setup of *)
(* kernel/api01.c reads the partition table, mount_root of fs/super.c the  *)
(* file system.  Then zones and inodes are taken and freed (Bitmaps).      *)
(***************************************************************************)
EXTENDS Format, Bitmaps

CONSTANTS
  MaxFrees, \* how often something is freed (a bound)
  MaxUsed   \* how many zones or inodes are taken at most (a bound)

ASSUME VolumeAssumption == MaxFrees \in Nat /\ MaxUsed \in Nat

VARIABLES
  mount, \* "off", "mounted", "strayed" (mounted past a NULL pointer), or "panic"
  part,  \* hd[1]: start_sect and nr_sects, in blocks
  frees  \* how often something has been freed

vars == <<formatVars, mapVars, mount, part, frees>>

Init ==
  /\ FormatInit
  /\ super = NoSuper
  /\ imap = {} /\ zmap = {} /\ zones = {} /\ inodes = {}
  /\ mount = "off" /\ part = [start |-> 0, blocks |-> 0] /\ frees = 0

Formatting == FormatNext /\ UNCHANGED <<mapVars, mount, part, frees>>
-----------------------------------------------------------------------------
(* do_hd_request: sector + 2 >= nr_sects is refused. *)
InRange(block, p) == 2 * block + 2 < 2 * p.blocks
Block(p, b) == disk[p.start + b]

(* mount_root reads the bitmaps from block 2 on, and the first two bits are set. *)
MapsOf(p, s) ==
  LET bits(first, blocks) ==
        UNION {{n * MapBits + bit : bit \in Block(p, first + n).bits} : n \in 0 .. blocks - 1}
  IN [imap |-> bits(2, s.s_imap_blocks), zmap |-> bits(2 + s.s_imap_blocks, s.s_zmap_blocks)]

(* What is read on the way: the super block, the bitmaps, the inode table,  *)
(* a block of it at least, and the block after it.                           *)
Readable(p, s) ==
  \A b \in 1 .. Max({s.s_firstdatazone, 3 + s.s_imap_blocks + s.s_zmap_blocks}) :
    InRange(b, p) /\ Has(p.start + b)

(* The free zones and inodes are counted at the end, bit by bit, in s_zmap   *)
(* and s_imap: the pointer for a bit past the last block is NULL.            *)
Strays(s) ==
  \/ \E i \in 1 .. s.s_nzones : i \div MapBits >= s.s_zmap_blocks
  \/ \E i \in 1 .. s.s_ninodes : i \div MapBits >= s.s_imap_blocks

(* A format that waits for ever ends with the power; the disk stays.  What   *)
(* is at address 0 is taken for a buffer of the bitmap: the count of what is *)
(* free may be wrong, and nothing else.                                      *)
Start ==
  LET table == disk[FirstPart]
      found == Has(FirstPart) /\ table.is = "partition_table"
      p == [start |-> table.start, blocks |-> table.blocks]
      super_found == InRange(1, p) /\ Has(p.start + 1) /\ Block(p, 1).is = "super_block"
      s == Block(p, 1).sb
      maps == MapsOf(p, s)
  IN /\ step \in {"done", "stuck"} /\ mount = "off"
     /\ part' = IF found THEN p ELSE part
     /\ IF found /\ super_found /\ Readable(p, s)
        THEN /\ mount' = IF Strays(s) THEN "strayed" ELSE "mounted"
             /\ super' = s
             /\ imap' = maps.imap \union {0, 1} /\ zmap' = maps.zmap \union {0, 1}
             /\ zones' = {s.s_firstdatazone} /\ inodes' = {1}
        ELSE mount' = "panic" /\ UNCHANGED mapVars
     /\ UNCHANGED <<formatVars, frees>>
-----------------------------------------------------------------------------
(* What the file system takes and frees. *)
Mounted == mount \in {"mounted", "strayed"}
Take ==
  /\ Mounted
  /\ \/ NewBlock /\ Cardinality(zones) <= MaxUsed
     \/ NewInode /\ Cardinality(inodes) <= MaxUsed
  /\ UNCHANGED <<formatVars, mount, part, frees>>
Free ==
  /\ Mounted /\ frees < MaxFrees
  /\ \/ \E z \in zones \ {super.s_firstdatazone} : FreeBlock(z)
     \/ \E i \in inodes \ {1} : FreeInode(i)
  /\ frees' = frees + 1
  /\ UNCHANGED <<formatVars, mount, part>>

Next == Formatting \/ Start \/ Take \/ Free
Spec == Init /\ [][Next]_vars
=============================================================================
