---------------------------- MODULE VolumeProps ----------------------------
(* What a formatted disk promises to the kernel that uses it. *)
EXTENDS Volume

(* sys_format_hd takes any disk of TooLittle blocks.  The file system it    *)
(* makes has room in a partition of seven: less would leave no block that   *)
(* the driver reads for the root directory.                                 *)
HasRoom == Total(size) >= TooLittle /\ PartBlocks(size) >= 7

Field == 0 .. MAX_LOG_ZONE_AMOUNT - 1 \* unsigned short
SuperType == [s_ninodes : Field, s_nzones : Field, s_imap_blocks : Field,
              s_zmap_blocks : Field, s_firstdatazone : Field]

(* The types of the state.  The bitmaps of a mounted file system have at most *)
(* the eight blocks struct super_block has slots for.                         *)
TypeOK ==
  /\ step \in Steps /\ mount \in {"off", "mounted", "strayed", "panic"}
  /\ sb \in SuperType /\ super \in SuperType
  /\ super.s_imap_blocks <= MapSlots /\ super.s_zmap_blocks <= MapSlots
  /\ DOMAIN disk = 0 .. size - 1 /\ at \in Nat
  /\ j \in Nat /\ frees \in Nat
  /\ zones \subseteq Field /\ inodes \subseteq Field

(* What the next step of the format transfers. *)
Transferred ==
  CASE step = "boot" -> {0, at}
    [] step \in {"super", "imap", "zmap", "inodes"} -> {at}
    [] step = "root" -> {FirstPart + 1, InodeTable}
    [] step = "dir" -> {RootZone}
    [] OTHER -> {}

(* The format of a disk with room stays on the disk, and changes nothing     *)
(* after the first data zone.  When it is done each section is where the     *)
(* super block says it is, and the partition is filled to its last block:    *)
(* sector_num_lba, which the loops have moved on, was right all the way.     *)
(* (Of the inode table only the first block is written: api01.c:862-874      *)
(* never moves sector_num_lba.  The rest may hold what was there before.)    *)
SectionsAsDeclared ==
  HasRoom =>
    LET is(b) == disk[FirstPart + b].is
        tables == 2 + sb.s_imap_blocks + sb.s_zmap_blocks
    IN /\ step # "stuck"
       /\ Transferred \subseteq DOMAIN disk
       /\ step = "done" =>
            /\ is(0) = "partition_table" /\ is(1) = "super_block"
            /\ \A b \in 2 .. tables - 1 : is(b) = "map"
            /\ is(tables) = "inodes" /\ disk[FirstPart + tables].root = sb.s_firstdatazone
            /\ \A b \in tables + 1 .. sb.s_firstdatazone - 1 : is(b) \in {"old", "inodes"}
            /\ is(sb.s_firstdatazone) = "directory"
            /\ \A b \in DOMAIN disk :
                 disk[b] # Old => b = 0 \/ b \in FirstPart .. FirstPart + sb.s_firstdatazone
            /\ sb.s_firstdatazone + sb.s_nzones = PartBlocks(size)
            /\ tables + InodeBlocks(sb.s_ninodes) = sb.s_firstdatazone

(* A machine that is started from the formatted disk finds its file system   *)
(* if there is room for one, the root where the super block says, and never  *)
(* takes a disk without room for a file system.  The last loops of           *)
(* mount_root stay in the bitmap, unless the zones are one more than their   *)
(* bitmap has bits for (see ZonesHaveBits).                                  *)
RootMounts ==
  /\ mount = "panic" => ~HasRoom
  /\ Mounted => /\ HasRoom
                /\ disk[part.start + 2 + super.s_imap_blocks + super.s_zmap_blocks]
                     = Inodes(super.s_firstdatazone)
  /\ mount = "strayed" => super.s_nzones = super.s_zmap_blocks * MapBits

(* A zone that somebody has is one the driver will transfer, although        *)
(* do_hd_request refuses the last block of a partition (hd.c:319), and is no *)
(* part of the bitmaps or of the inode table; an inode has its place there.  *)
UsedIsReachable ==
  /\ \A z \in zones : z >= super.s_firstdatazone /\ InRange(z, part)
  /\ \A i \in inodes :
       /\ i >= 1
       /\ 2 + super.s_imap_blocks + super.s_zmap_blocks + (i - 1) \div InodesPerBlock
            < super.s_firstdatazone

(* The bitmaps and the owners agree: what is in use has its bit set, so that *)
(* it is not given out twice, and what has its bit set is in use, or out of  *)
(* reach, or was marked by the format.                                       *)
FormattedBits == IF Mounted THEN MapsOf(part, super) ELSE [imap |-> {}, zmap |-> {}]
BitsAreOwners ==
  Mounted =>
    /\ \A n \in 1 .. super.s_nzones - 1 - FirstZone :
         /\ n + FirstZone \in zones => n \in zmap
         /\ n \in zmap => n + FirstZone \in zones \/ n \in FormattedBits.zmap
    /\ \A n \in 1 .. super.s_ninodes :
         /\ n \in inodes => n \in imap
         /\ n \in imap => n \in inodes \/ n \in FormattedBits.imap

(* api01.c:837-840, of 8192 zones: "they take a second block of the bitmap,  *)
(* and bit 0 of it".  Each of the s_nzones zones has a bit.                  *)
ZonesHaveBits ==
  sb # NoSuper => /\ sb.s_nzones < sb.s_zmap_blocks * MapBits
                  /\ sb.s_ninodes < sb.s_imap_blocks * MapBits
=============================================================================
