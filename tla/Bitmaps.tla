------------------------------ MODULE Bitmaps ------------------------------
(***************************************************************************)
(* fs/bitmap.c: the zones and inodes of a mounted file system are given    *)
(* out by the bits of its two bitmaps.  A bitmap is the set of the numbers *)
(* of its set bits; s_zmap[i], s_imap[i] hold MapBits of them each.        *)
(*                                                                         *)
(* zones and inodes are what is in use by somebody: what new_block and     *)
(* new_inode have returned and free_block and free_inode have not got yet. *)
(***************************************************************************)
EXTENDS MinixFS

VARIABLES
  super,  \* the super block in memory
  imap,   \* the set bits of s_imap
  zmap,   \* the set bits of s_zmap
  zones,  \* the zones in use
  inodes  \* the numbers of the inodes in use

mapVars == <<super, imap, zmap, zones, inodes>>

(* find_first_zero, block by block. *)
Clear(map, blocks) == (0 .. blocks * MapBits - 1) \ map
FirstZone == super.s_firstdatazone - 1 \* the zone of bit 0, if it had one

(* Mutant: s_nzones taken for the number of data zones, as it was formatted. *)
NewBlockOfData ==
  LET clear == Clear(zmap, super.s_zmap_blocks)
      bit == Min(clear)
      block == bit + FirstZone
  IN /\ clear # {}
     /\ zmap' = zmap \union {bit}
     /\ zones' = IF block >= super.s_nzones + super.s_firstdatazone THEN zones ELSE zones \union {block}
     /\ UNCHANGED <<super, imap, inodes>>

(* The bit is set before new_block sees that the zone is not there. *)
NewBlock ==
  LET clear == Clear(zmap, super.s_zmap_blocks)
      bit == Min(clear)
      block == bit + FirstZone
  IN /\ clear # {}
     /\ zmap' = zmap \union {bit}
     /\ zones' = IF block >= super.s_nzones THEN zones ELSE zones \union {block}
     /\ UNCHANGED <<super, imap, inodes>>

(* Mutant: bit 0 taken for the first data zone. *)
FreeBlockFromZero(block) ==
  /\ block >= super.s_firstdatazone /\ block < super.s_nzones
  /\ zmap' = zmap \ {block - super.s_firstdatazone}
  /\ zones' = zones \ {block}
  /\ UNCHANGED <<super, imap, inodes>>

(* Any other block is a panic.  One whose buffer somebody else is using stays *)
(* as it is, and free_block returns 0.                                        *)
FreeBlock(block) ==
  /\ block >= super.s_firstdatazone /\ block < super.s_nzones
  /\ \/ UNCHANGED <<zmap, zones>>
     \/ zmap' = zmap \ {block - FirstZone} /\ zones' = zones \ {block}
  /\ UNCHANGED <<super, imap, inodes>>

NewInode ==
  LET clear == Clear(imap, super.s_imap_blocks)
      bit == Min(clear)
  IN /\ clear # {} /\ bit <= super.s_ninodes
     /\ imap' = imap \union {bit}
     /\ inodes' = inodes \union {bit}
     /\ UNCHANGED <<super, zmap, zones>>

FreeInode(ino) ==
  /\ ino >= 1 /\ ino <= super.s_ninodes
  /\ imap' = imap \ {ino}
  /\ inodes' = inodes \ {ino}
  /\ UNCHANGED <<super, zmap, zones>>
=============================================================================
