------------------------------- MODULE Format -------------------------------
(***************************************************************************)
(* sys_format_hd() and create_rootdir() of kernel/api01.c: a disk gets a   *)
(* partition table and, in its one partition, a minix file system.  The    *)
(* transfers are polled, two sectors, that is one block, at a time, so     *)
(* that sector_num_lba is counted in blocks here.  What the super block    *)
(* says, and where each section of the file system starts, is computed     *)
(* once, by chains of divisions of ints; the sections are written by loops *)
(* that move sector_num_lba on and must arrive where the super block says. *)
(***************************************************************************)
EXTENDS MinixFS

CONSTANTS
  Sizes,     \* the blocks of the disks: head * cyl * sect >> 1
  FirstPart, \* FIRST_PART_BLOCKNO, 2048
  Spare,     \* the blocks left at the end of the disk, 32
  TooLittle  \* the fewest blocks, 360

(* Mutant: a disk of any size. *)
TotalOfAny(n) == n - Spare

(* block_total, before and after the blocks below the partition are taken off *)
Total(n) == Min({n - Spare, MAX_LOG_ZONE_AMOUNT})
PartBlocks(n) == Total(n) - FirstPart

ASSUME FormatAssumption ==
  /\ {FirstPart, TooLittle} \subseteq Nat \ {0} /\ Spare \in Nat
  /\ Sizes \subseteq Nat

Quot(a, b) == IF a >= 0 THEN a \div b ELSE -((-a) \div b) \* of two ints, b > 0
Short(n) == n % MAX_LOG_ZONE_AMOUNT \* an int in an unsigned short: both have 2^16

InodeBlocks(ninodes) == (ninodes + (InodesPerBlock - 1)) \div InodesPerBlock

(* The super block of a partition of n blocks, which are less than none when *)
(* the disk ends before FirstPart.  The zones are counted twice, since their *)
(* bitmap takes blocks from them.                                            *)
Super(n) ==
  LET tmp == Min({Quot(n, 2), MAX_LOG_ZONE_AMOUNT - 1})
      ninodes == Short(tmp)
      imap == Short(Quot(tmp, MapBits) + 1)
      blocks == n - 2 - imap - InodeBlocks(ninodes)
      zones == blocks - (Quot(blocks, MapBits) + 1)
      zmap == Quot(zones, MapBits) + 1
  IN [s_ninodes |-> ninodes, s_nzones |-> Short(blocks - zmap),
      s_imap_blocks |-> imap, s_zmap_blocks |-> Short(zmap),
      s_firstdatazone |-> Short(2 + imap + Short(zmap) + InodeBlocks(ninodes))]

VARIABLES
  size, \* the blocks of the disk
  step, \* what is written next
  disk, \* disk[b]: what is in block b
  at,   \* sector_num_lba / 2
  sb,   \* the super block, which the local variables repeat
  j     \* the blocks of the section that have been written

formatVars == <<size, step, disk, at, sb, j>>

Steps == {"boot", "super", "imap", "zmap", "inodes", "root", "dir", "done", "stuck", "panic"}

(* What the blocks hold. *)
Old == [is |-> "old"] \* what was there before
PartTable(start, blocks) == [is |-> "partition_table", start |-> start, blocks |-> blocks]
SuperBlock(s) == [is |-> "super_block", sb |-> s]
Map(bits) == [is |-> "map", bits |-> bits]
Inodes(root) == [is |-> "inodes", root |-> root] \* root: inode 1 is the root's, in zone root
NoRoot == 0
Dir == [is |-> "directory"]

NoSuper == [s_ninodes |-> 0, s_nzones |-> 0, s_imap_blocks |-> 0, s_zmap_blocks |-> 0,
            s_firstdatazone |-> 0]

FormatInit ==
  /\ size \in Sizes
  /\ step = "boot"
  /\ disk = [b \in 0 .. size - 1 |-> Old]
  /\ at = FirstPart
  /\ sb = NoSuper
  /\ j = 0

(* write_first_disk does not ask how the write ended: past the end it is lost. *)
(* read_first_disk waits for the data: past the end, for ever.                 *)
Written(block, what) == [b \in DOMAIN disk |-> IF b = block THEN what ELSE disk[b]]
Has(block) == block \in DOMAIN disk
-----------------------------------------------------------------------------
(* The partition table goes into the first block of the partition, where    *)
(* sys_setup looks for it, and into the first block of the disk.            *)
WriteBoot ==
  /\ step = "boot"
  /\ IF Total(size) < TooLittle THEN step' = "panic" /\ UNCHANGED <<disk, at>>
     ELSE /\ disk' = [b \in DOMAIN disk |->
                        IF b \in {0, at} THEN PartTable(FirstPart, PartBlocks(size)) ELSE disk[b]]
          /\ at' = at + 1
          /\ step' = "super"
  /\ UNCHANGED <<size, sb, j>>

WriteSuper ==
  /\ step = "super"
  /\ sb' = Super(PartBlocks(size))
  /\ disk' = Written(at, SuperBlock(sb'))
  /\ at' = at + 1
  /\ step' = "imap"
  /\ UNCHANGED <<size, j>>

(* The last block of a bitmap, for count units from 1 on: the bits past the  *)
(* last unit are to be set, by whole bytes after the one bitmap_odd_byte     *)
(* gives.  bit_odd is taken from the number of that byte, not of the bit.    *)
LastBits(buffer, count) ==
  LET byte_odd == (count % MapBits) \div 8
      bit_odd == byte_odd % 8
  IN {n \in buffer : n < 8 * byte_odd}
     \union (8 * byte_odd + bit_odd + 1 .. 8 * byte_odd + 7)
     \union (8 * byte_odd + 8 .. MapBits - 1)

(* Mutant: the blocks in the middle are written over each other. *)
WriteMapOver(kind, blocks, count, next) ==
  LET buffer == IF j = 0 THEN {0, 1} ELSE {}
      last == j >= blocks - 1
  IN /\ step = kind
     /\ disk' = Written(at, Map(IF last THEN LastBits(buffer, count) ELSE buffer))
     /\ at' = IF j > 0 /\ ~last THEN at ELSE at + 1
     /\ j' = IF last THEN 0 ELSE j + 1
     /\ step' = IF last THEN next ELSE step
     /\ UNCHANGED <<size, sb>>

(* Bits 0 and 1 of the first block are set, the blocks after it are clear up *)
(* to the last one.                                                          *)
WriteMap(kind, blocks, count, next) ==
  LET buffer == IF j = 0 THEN {0, 1} ELSE {}
      last == j >= blocks - 1
  IN /\ step = kind
     /\ disk' = Written(at, Map(IF last THEN LastBits(buffer, count) ELSE buffer))
     /\ at' = at + 1
     /\ j' = IF last THEN 0 ELSE j + 1
     /\ step' = IF last THEN next ELSE step
     /\ UNCHANGED <<size, sb>>

WriteImap == WriteMap("imap", sb.s_imap_blocks, sb.s_ninodes, "zmap")
WriteZmap == WriteMap("zmap", sb.s_zmap_blocks, sb.s_nzones, "inodes")

(* The loop over the inode table writes inode_block_num times to one block: *)
(* sector_num_lba stays where it is.                                        *)
WriteInodes ==
  /\ step = "inodes"
  /\ IF j < InodeBlocks(sb.s_ninodes)
     THEN disk' = Written(at, Inodes(NoRoot)) /\ j' = j + 1 /\ UNCHANGED step
     ELSE step' = "root" /\ j' = 0 /\ UNCHANGED disk
  /\ UNCHANGED <<size, at, sb>>

(* create_rootdir reads the super block again to find the inode table and the *)
(* first data zone, and reads each block before it writes it.                 *)
OnDisk == disk[FirstPart + 1].sb
InodeTable == FirstPart + 2 + OnDisk.s_imap_blocks + OnDisk.s_zmap_blocks
RootZone == FirstPart + OnDisk.s_firstdatazone

(* Mutant: the first block of the partition is 1. *)
WriteRootAfter ==
  /\ step = "root"
  /\ disk' = Written(InodeTable + 1, Inodes(OnDisk.s_firstdatazone))
  /\ step' = "dir"
  /\ UNCHANGED <<size, at, sb, j>>

WriteRoot ==
  /\ step = "root"
  /\ IF Has(FirstPart + 1) /\ Has(InodeTable)
     THEN disk' = Written(InodeTable, Inodes(OnDisk.s_firstdatazone)) /\ step' = "dir"
     ELSE step' = "stuck" /\ UNCHANGED disk
  /\ UNCHANGED <<size, at, sb, j>>

WriteRootDir ==
  /\ step = "dir"
  /\ IF Has(RootZone) THEN disk' = Written(RootZone, Dir) /\ step' = "done"
     ELSE step' = "stuck" /\ UNCHANGED disk
  /\ UNCHANGED <<size, at, sb, j>>

FormatNext == WriteBoot \/ WriteSuper \/ WriteImap \/ WriteZmap \/ WriteInodes \/ WriteRoot \/ WriteRootDir
=============================================================================
