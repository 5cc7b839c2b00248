------------------------------ MODULE MinixFS ------------------------------
(* The sizes of a minix file system, include/linux/fs.h. *)
EXTENDS Integers, FiniteSetsExt

CONSTANTS
  MapBits,       \* the bits of a block, 8192
  MapSlots,      \* I_MAP_SLOTS and Z_MAP_SLOTS, 8
  InodesPerBlock \* INODES_PER_BLOCK, 32

ASSUME MinixAssumption ==
  /\ {MapBits, MapSlots, InodesPerBlock} \subseteq Nat \ {0}
  /\ MapBits % 8 = 0 /\ MapSlots <= MapBits
  /\ InodesPerBlock >= 4 \* else the inode table of a small disk leaves no room

MAX_LOG_ZONE_AMOUNT == MapBits * MapSlots
=============================================================================
