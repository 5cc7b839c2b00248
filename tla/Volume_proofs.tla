---------------------------- MODULE Volume_proofs ----------------------------
(***************************************************************************)
(* Proofs about the format, the mount and the bitmaps, for disks of all    *)
(* sizes, and bitmaps and inode tables of any number to a block.           *)
(***************************************************************************)
EXTENDS VolumeProps, WellFoundedInduction, TLAPS

-----------------------------------------------------------------------------
(* Numbers. *)

(* find_first_zero finds the least bit of those that are clear. *)
LEMMA LeastBit ==
  ASSUME NEW S \in SUBSET Nat, S # {}
  PROVE  Min(S) \in S /\ \A y \in S : Min(S) <= y
  <1>1. PICK x \in S : \A y \in S : <<y, x>> \notin OpToRel(<, Nat)
    BY WFMin, NatLessThanWellFounded, Zenon
  <1>2. \A y \in S : ~(y < x)
    BY <1>1, Zenon DEF OpToRel
  <1>3. \A y \in S : x <= y
    BY <1>2
  <1> QED
    BY <1>3 DEF Min

(* The smaller of two numbers. *)
LEMMA MinOfTwo == ASSUME NEW a \in Int, NEW b \in Int PROVE Min({a, b}) = IF a <= b THEN a ELSE b
  <1>1. CASE a <= b
    BY <1>1 DEF Min
  <1>2. CASE ~(a <= b)
    BY <1>2 DEF Min
  <1> QED
    BY <1>1, <1>2

(* And the larger. *)
LEMMA MaxOfTwo == ASSUME NEW a \in Int, NEW b \in Int PROVE Max({a, b}) = IF a >= b THEN a ELSE b
  <1>1. CASE a >= b
    BY <1>1 DEF Max
  <1>2. CASE ~(a >= b)
    BY <1>2 DEF Max
  <1> QED
    BY <1>1, <1>2

(* Division of what is not negative. *)
LEMMA Division ==
  ASSUME NEW x \in Nat, NEW k \in Nat \ {0}
  PROVE  /\ x \div k \in Nat /\ k * (x \div k) <= x /\ x < k * (x \div k) + k
         /\ x \div k <= x
  <1>1. x \div k \in Int /\ x = k * (x \div k) + (x % k) /\ (x % k) \in 0 .. k - 1
    OBVIOUS
  <1>2. x \div k >= 0
    BY <1>1
  <1>3. k * (x \div k) >= x \div k
    BY <1>1, <1>2
  <1> QED
    BY <1>1, <1>2, <1>3

(* A bitmap's block holds eight bits at least. *)
LEMMA EightBits == ASSUME NEW x \in Nat PROVE x \div MapBits \in Nat /\ 8 * (x \div MapBits) <= x
  <1> USE MinixAssumption
  <1>1. MapBits \in Nat /\ MapBits >= 8
    OBVIOUS
  <1>2. x \div MapBits \in Nat /\ MapBits * (x \div MapBits) <= x
    BY <1>1, Division
  <1>3. 8 * (x \div MapBits) <= MapBits * (x \div MapBits)
    BY <1>1, <1>2
  <1> QED
    BY <1>2, <1>3

(* A map that counts to n takes no more blocks than it may. *)
LEMMA MapFits ==
  ASSUME NEW n \in Nat, n < MAX_LOG_ZONE_AMOUNT
  PROVE  n \div MapBits + 1 \in 1 .. MapSlots
  <1> USE MinixAssumption
  <1> DEFINE q == n \div MapBits
  <1>1. MapBits \in Nat \ {0} /\ MapSlots \in Nat \ {0}
    OBVIOUS
  <1>2. q \in Nat /\ MapBits * q <= n
    BY <1>1, Division
  <1>3. ASSUME q >= MapSlots PROVE FALSE
    <2>1. MapBits * q >= MapBits * MapSlots
      BY <1>1, <1>2, <1>3
    <2> QED
      BY <1>1, <1>2, <2>1 DEF MAX_LOG_ZONE_AMOUNT
  <1> QED
    BY <1>1, <1>2, <1>3

(* An inode table takes a block for every four inodes at most, and each inode *)
(* has its place there.                                                       *)
LEMMA TableSize ==
  ASSUME NEW n \in Nat \ {0}
  PROVE  /\ InodeBlocks(n) \in Nat \ {0} /\ 4 * InodeBlocks(n) <= n + 3
         /\ \A i \in 1 .. n : (i - 1) \div InodesPerBlock < InodeBlocks(n)
  <1> USE MinixAssumption
  <1> DEFINE k == InodesPerBlock
             q == InodeBlocks(n)
  <1>1. k \in Nat /\ k >= 4
    OBVIOUS
  <1>2. q \in Nat /\ k * q <= n + k - 1 /\ n + k - 1 < k * q + k
    BY <1>1, Division DEF InodeBlocks
  <1>3. q # 0
    BY <1>1, <1>2
  <1>4. 4 * q <= n + 3
    <2>1. k * (q - 1) = k * q - k
      BY <1>1, <1>2
    <2>2. k * (q - 1) >= 4 * (q - 1)
      BY <1>1, <1>2, <1>3
    <2> QED
      BY <1>1, <1>2, <2>1, <2>2
  <1>5. ASSUME NEW i \in 1 .. n PROVE (i - 1) \div k < q
    <2>1. (i - 1) \div k \in Nat /\ k * ((i - 1) \div k) <= i - 1
      BY <1>1, Division
    <2>2. ASSUME (i - 1) \div k >= q PROVE FALSE
      <3>1. k * ((i - 1) \div k) >= k * q
        BY <1>1, <1>2, <2>1, <2>2
      <3>2. i - 1 <= n - 1
        OBVIOUS
      <3>3. n <= k * q
        BY <1>1, <1>2
      <3> QED
        BY <1>2, <2>1, <3>1, <3>2, <3>3
    <2> QED
      BY <1>2, <2>1, <2>2
  <1> QED
    BY <1>2, <1>3, <1>4, <1>5

(* What the super block of a partition of n blocks says: the sections follow *)
(* each other, fill the partition, and leave two data zones.  Every inode    *)
(* has a bit, and every zone but one at most.                                *)
Fits(s, n) ==
  /\ s \in SuperType
  /\ s.s_ninodes >= 1 /\ s.s_imap_blocks >= 1 /\ s.s_zmap_blocks >= 1 /\ s.s_nzones >= 2
  /\ s.s_imap_blocks <= MapSlots /\ s.s_zmap_blocks <= MapSlots
  /\ s.s_ninodes < MapBits * s.s_imap_blocks /\ s.s_nzones <= MapBits * s.s_zmap_blocks
  /\ s.s_firstdatazone + s.s_nzones = n
  /\ s.s_firstdatazone = 2 + s.s_imap_blocks + s.s_zmap_blocks + InodeBlocks(s.s_ninodes)
  /\ InodeBlocks(s.s_ninodes) \in Nat \ {0}

(* The fields of the super block. *)
LEMMA Fields ==
  /\ MAX_LOG_ZONE_AMOUNT \in Nat /\ MAX_LOG_ZONE_AMOUNT >= 8 /\ MapSlots < MAX_LOG_ZONE_AMOUNT
  /\ \A x \in Int : Short(x) \in Field
  /\ \A x \in Nat : x < MAX_LOG_ZONE_AMOUNT => Short(x) = x
  <1> USE MinixAssumption
  <1>1. MapBits \in Nat /\ MapBits >= 8 /\ MapSlots \in Nat /\ MapSlots >= 1
    OBVIOUS
  <1>2. MapBits * MapSlots >= 8 * MapSlots
    BY <1>1
  <1>3. MAX_LOG_ZONE_AMOUNT \in Nat /\ MAX_LOG_ZONE_AMOUNT >= 8 /\ MapSlots < MAX_LOG_ZONE_AMOUNT
    BY <1>1, <1>2 DEF MAX_LOG_ZONE_AMOUNT
  <1> QED
    BY <1>3 DEF Short, Field

(* Division of ints is the division of numbers for what is not negative. *)
LEMMA Quotient == ASSUME NEW x \in Nat, NEW k PROVE Quot(x, k) = x \div k
  BY DEF Quot

(* The block the counting loops look in, for the last zone there is. *)
LEMMA ZonesFit ==
  ASSUME NEW blocks \in Nat, blocks < MAX_LOG_ZONE_AMOUNT,
         NEW left \in Nat, left = blocks - (blocks \div MapBits + 1)
  PROVE  blocks - (left \div MapBits + 1) <= MapBits * (left \div MapBits + 1)
  <1> USE MinixAssumption
  <1> DEFINE q == blocks \div MapBits
             p == left \div MapBits
  <1>1. MapBits \in Nat \ {0} /\ MapSlots \in Nat /\ MapSlots <= MapBits
    OBVIOUS
  <1>2. /\ q \in Nat /\ MapBits * q <= blocks /\ blocks < MapBits * q + MapBits
        /\ p \in Nat /\ MapBits * p <= left /\ left < MapBits * p + MapBits
    BY <1>1, Division
  <1>3. q + 1 <= MapSlots
    BY <1>1, MapFits
  <1>4. left = blocks - (q + 1)
    OBVIOUS
  <1> HIDE DEF q, p
  <1>5. p + 1 >= q
    <2>1. ASSUME p + 2 <= q PROVE FALSE
      <3>1. MapBits * q >= MapBits * (p + 2)
        BY <1>1, <1>2, <2>1
      <3>2. MapBits * (p + 2) = MapBits * p + MapBits + MapBits
        BY <1>1, <1>2
      <3> QED
        BY <1>1, <1>2, <1>3, <1>4, <3>1, <3>2
    <2> QED
      BY <1>2, <2>1
  <1>6. MapBits * (p + 1) = MapBits * p + MapBits
    BY <1>1, <1>2
  <1>7. blocks - (p + 1) <= MapBits * (p + 1)
    BY <1>1, <1>2, <1>4, <1>5, <1>6
  <1> QED
    BY <1>7 DEF p

(* So it does for every partition that is large enough. *)
LEMMA SuperFits ==
  ASSUME NEW n \in Nat, n >= 7, n < MAX_LOG_ZONE_AMOUNT
  PROVE  Fits(Super(n), n)
  <1> USE MinixAssumption
  <1> DEFINE tmp == Min({Quot(n, 2), MAX_LOG_ZONE_AMOUNT - 1})
             ninodes == Short(tmp)
             imaps == Short(Quot(tmp, MapBits) + 1)
             table == InodeBlocks(ninodes)
             blocks == n - 2 - imaps - table
             left == blocks - (Quot(blocks, MapBits) + 1)
             zmaps == Quot(left, MapBits) + 1
             first == 2 + imaps + Short(zmaps) + table
  <1>0. MAX_LOG_ZONE_AMOUNT \in Nat /\ MAX_LOG_ZONE_AMOUNT >= 8 /\ MapSlots < MAX_LOG_ZONE_AMOUNT
    BY Fields
  <1>1. tmp \in Nat /\ tmp >= 1 /\ 2 * tmp <= n /\ tmp < MAX_LOG_ZONE_AMOUNT
    <2>1. Quot(n, 2) \in Nat /\ 2 * Quot(n, 2) <= n /\ Quot(n, 2) >= 3
      BY DEF Quot
    <2>2. tmp = IF Quot(n, 2) <= MAX_LOG_ZONE_AMOUNT - 1 THEN Quot(n, 2) ELSE MAX_LOG_ZONE_AMOUNT - 1
      BY <1>0, <2>1, MinOfTwo
    <2> QED
      BY <1>0, <2>1, <2>2
  <1> HIDE DEF tmp
  <1>2. ninodes = tmp
    BY <1>1, Fields
  <1>3. imaps = tmp \div MapBits + 1 /\ imaps \in 1 .. MapSlots /\ 8 * (imaps - 1) <= tmp
        /\ tmp < MapBits * imaps
    <2>1. tmp \div MapBits \in Nat /\ 8 * (tmp \div MapBits) <= tmp
      BY <1>1, EightBits
    <2>2. tmp \div MapBits + 1 \in 1 .. MapSlots
      BY <1>1, MapFits
    <2>3. MapBits \in Nat \ {0}
      OBVIOUS
    <2>4. tmp < MapBits * (tmp \div MapBits) + MapBits
      BY <1>1, <2>3, Division
    <2>5. PICK d \in Nat : d = tmp \div MapBits
      BY <2>1
    <2>6. MapBits * (d + 1) = MapBits * d + MapBits
      BY <2>3
    <2>7. imaps = d + 1
      BY <1>0, <1>1, <2>2, <2>5, Quotient, Fields
    <2> QED
      BY <2>1, <2>2, <2>3, <2>4, <2>5, <2>6, <2>7
  <1>4. table \in Nat \ {0} /\ 4 * table <= tmp + 3
    BY <1>1, <1>2, TableSize
  <1>5. MapSlots \in Nat
    OBVIOUS
  <1> HIDE DEF imaps, table
  <1>6. blocks \in Nat /\ blocks >= 3 /\ blocks < n
    BY <1>1, <1>3, <1>4, <1>5
  <1> HIDE DEF blocks
  <1>7. left \in Nat /\ left < blocks /\ left = blocks - (blocks \div MapBits + 1)
    <2>1. blocks \div MapBits \in Nat /\ 8 * (blocks \div MapBits) <= blocks
      BY <1>6, EightBits
    <2> QED
      BY <1>6, <2>1, Quotient
  <1> HIDE DEF left
  <1>8. zmaps = left \div MapBits + 1 /\ zmaps \in 1 .. MapSlots /\ 8 * (zmaps - 1) <= left
    <2>1. left \div MapBits \in Nat /\ 8 * (left \div MapBits) <= left
      BY <1>7, EightBits
    <2>2. left < MAX_LOG_ZONE_AMOUNT
      BY <1>0, <1>6, <1>7
    <2> QED
      BY <1>7, <2>1, <2>2, MapFits, Quotient
  <1>9. blocks - zmaps <= MapBits * zmaps
    <2>1. blocks < MAX_LOG_ZONE_AMOUNT
      BY <1>0, <1>6
    <2>2. blocks - (left \div MapBits + 1) <= MapBits * (left \div MapBits + 1)
      BY <1>6, <1>7, <2>1, ZonesFit
    <2> QED
      BY <1>8, <2>2
  <1> HIDE DEF zmaps
  <1>10. Short(zmaps) = zmaps
    BY <1>0, <1>5, <1>8, Fields
  <1>11. /\ blocks - zmaps \in Nat /\ blocks - zmaps >= 2 /\ blocks - zmaps < n
         /\ first \in Nat /\ first < n /\ first + (blocks - zmaps) = n
    <2>1. blocks = n - 2 - imaps - table /\ first = 2 + imaps + zmaps + table
      BY <1>10 DEF blocks
    <2>2. imaps \in Nat /\ zmaps \in Nat /\ zmaps >= 1
      BY <1>3, <1>5, <1>8
    <2>3. blocks - zmaps >= 2
      BY <1>6, <1>7, <1>8, <2>2
    <2> HIDE DEF first
    <2> QED
      BY <1>4, <1>6, <2>1, <2>2, <2>3
  <1>12. Short(blocks - zmaps) = blocks - zmaps /\ Short(first) = first
    BY <1>0, <1>11, Fields
  <1> HIDE DEF first
  <1> DEFINE s == [s_ninodes |-> ninodes, s_nzones |-> blocks - zmaps,
                   s_imap_blocks |-> imaps, s_zmap_blocks |-> zmaps, s_firstdatazone |-> first]
  <1>13. Super(n) = s
    <2>1. Super(n) = [s_ninodes |-> ninodes, s_nzones |-> Short(blocks - zmaps),
                      s_imap_blocks |-> imaps, s_zmap_blocks |-> Short(zmaps),
                      s_firstdatazone |-> Short(first)]
      BY DEF Super, tmp, imaps, table, blocks, left, zmaps, first
    <2> QED
      BY <1>10, <1>12, <2>1
  <1>14. s \in SuperType
    <2>1. /\ ninodes \in Field /\ blocks - zmaps \in Field /\ first \in Field
          /\ imaps \in Field /\ zmaps \in Field
      BY <1>0, <1>1, <1>2, <1>3, <1>5, <1>8, <1>11 DEF Field
    <2> QED
      BY <2>1 DEF SuperType
  <1>15. InodeBlocks(ninodes) = table /\ first = 2 + imaps + zmaps + table
    BY <1>10 DEF table, first
  <1>16. Fits(s, n)
    BY <1>1, <1>2, <1>3, <1>4, <1>8, <1>9, <1>11, <1>14, <1>15 DEF Fits
  <1> QED
    BY <1>13, <1>16

(* What the super block of any other partition says fits its fields. *)
LEMMA SuperTyped == ASSUME NEW n \in Int PROVE Super(n) \in SuperType
  <1> USE MinixAssumption
  <1>1. \A x \in Int, k \in Nat \ {0} : Quot(x, k) \in Int
    BY DEF Quot
  <1>2. Quot(n, 2) \in Int /\ MAX_LOG_ZONE_AMOUNT - 1 \in Int
    BY <1>1, Fields
  <1>3. Min({Quot(n, 2), MAX_LOG_ZONE_AMOUNT - 1}) \in Int
    BY <1>2, MinOfTwo
  <1>4. PICK tmp \in Int : tmp = Min({Quot(n, 2), MAX_LOG_ZONE_AMOUNT - 1})
    BY <1>3
  <1>5. MapBits \in Nat \ {0} /\ InodesPerBlock \in Nat \ {0}
    OBVIOUS
  <1>6. PICK ninodes \in Field : ninodes = Short(tmp)
    BY <1>4, Fields
  <1>7. PICK table \in Int : table = InodeBlocks(ninodes)
    BY <1>5, <1>6, Fields DEF InodeBlocks, Field
  <1>8. Quot(tmp, MapBits) + 1 \in Int
    BY <1>1, <1>4, <1>5
  <1>9. PICK imaps \in Field : imaps = Short(Quot(tmp, MapBits) + 1)
    BY <1>8, Fields
  <1>10. PICK blocks \in Int : blocks = n - 2 - imaps - table
    BY <1>9 DEF Field
  <1>11. PICK left \in Int : left = blocks - (Quot(blocks, MapBits) + 1)
    BY <1>1, <1>5, <1>10
  <1>12. PICK zmaps \in Int : zmaps = Quot(left, MapBits) + 1
    BY <1>1, <1>5, <1>11
  <1>13. PICK z \in Field : z = Short(zmaps)
    BY <1>12, Fields
  <1>14. Short(blocks - zmaps) \in Field /\ Short(2 + imaps + z + table) \in Field
    <2>1. blocks - zmaps \in Int /\ 2 + imaps + z + table \in Int
      BY <1>7, <1>9, <1>10, <1>12, <1>13 DEF Field
    <2> QED
      BY <2>1, Fields
  <1>15. Super(n) = [s_ninodes |-> ninodes, s_nzones |-> Short(blocks - zmaps),
                     s_imap_blocks |-> imaps, s_zmap_blocks |-> z,
                     s_firstdatazone |-> Short(2 + imaps + z + table)]
    BY <1>4, <1>6, <1>7, <1>9, <1>10, <1>11, <1>12, <1>13 DEF Super
  <1> QED
    BY <1>6, <1>9, <1>13, <1>14, <1>15 DEF SuperType

(* In a partition of three to six blocks each bitmap has its block. *)
LEMMA SmallSuper ==
  ASSUME NEW n \in 3 .. 6
  PROVE  Super(n).s_imap_blocks = 1 /\ Super(n).s_zmap_blocks = 1
  <1> USE MinixAssumption
  <1>1. /\ MAX_LOG_ZONE_AMOUNT \in Nat /\ MAX_LOG_ZONE_AMOUNT >= 8
        /\ MapBits \in Nat /\ MapBits >= 8 /\ InodesPerBlock \in Nat /\ InodesPerBlock >= 4
    BY Fields
  <1>2. PICK tmp \in 1 .. 3 : tmp = Min({Quot(n, 2), MAX_LOG_ZONE_AMOUNT - 1})
    <2>1. Quot(n, 2) \in 1 .. 3
      BY DEF Quot
    <2> QED
      BY <1>1, <2>1, MinOfTwo
  <1>3. Short(tmp) = tmp /\ Short(1) = 1
    BY <1>1, <1>2, Fields
  <1>4. \A x \in 0 .. 3 : Quot(x, MapBits) = 0
    BY <1>1 DEF Quot
  <1>5. \A x \in -3 .. -1 : Quot(x, MapBits) = 0
    BY <1>1 DEF Quot
  <1>6. InodeBlocks(tmp) = 1
    <2>1. InodesPerBlock <= tmp + (InodesPerBlock - 1) /\ tmp + (InodesPerBlock - 1) < 2 * InodesPerBlock
      BY <1>1, <1>2
    <2> QED
      BY <1>1, <1>2, <2>1 DEF InodeBlocks
  <1>7. PICK blocks \in -1 .. 2 : blocks = n - 2 - 1 - 1
    OBVIOUS
  <1>8. Quot(blocks, MapBits) = 0
    BY <1>4, <1>5, <1>7
  <1>9. PICK left \in -2 .. 1 : left = blocks - (0 + 1)
    BY <1>7
  <1>10. Quot(left, MapBits) = 0 /\ Quot(tmp, MapBits) = 0
    BY <1>2, <1>4, <1>5, <1>9
  <1>11. Super(n).s_imap_blocks = Short(0 + 1) /\ Super(n).s_zmap_blocks = Short(0 + 1)
    <2>1. Super(n).s_imap_blocks = Short(Quot(tmp, MapBits) + 1)
      BY <1>2 DEF Super
    <2>2. Short(Quot(tmp, MapBits) + 1) = 1
      BY <1>3, <1>10
    <2>3. n - 2 - Short(Quot(tmp, MapBits) + 1) - InodeBlocks(Short(tmp)) = blocks
      BY <1>3, <1>6, <1>7, <2>2
    <2>4. blocks - (Quot(blocks, MapBits) + 1) = left
      BY <1>8, <1>9
    <2>5. Super(n).s_zmap_blocks = Short(Quot(left, MapBits) + 1)
      BY <1>2, <2>3, <2>4 DEF Super
    <2> QED
      BY <1>10, <2>1, <2>5
  <1> QED
    BY <1>3, <1>11

(* The blocks of a partition, which are less than none on a small disk. *)
LEMMA Sized ==
  ASSUME NEW n \in Sizes
  PROVE  /\ n \in Nat /\ FirstPart \in Nat \ {0} /\ Total(n) \in Int /\ TooLittle \in Nat
         /\ PartBlocks(n) \in Int /\ PartBlocks(n) = Total(n) - FirstPart
         /\ PartBlocks(n) < MAX_LOG_ZONE_AMOUNT /\ FirstPart + PartBlocks(n) <= n
  <1> USE FormatAssumption
  <1>1. n \in Nat /\ MAX_LOG_ZONE_AMOUNT \in Nat /\ FirstPart \in Nat \ {0} /\ Spare \in Nat
    BY Fields
  <1>2. Total(n) = IF n - Spare <= MAX_LOG_ZONE_AMOUNT THEN n - Spare ELSE MAX_LOG_ZONE_AMOUNT
    BY <1>1, MinOfTwo DEF Total
  <1> QED
    BY <1>1, <1>2 DEF PartBlocks
-----------------------------------------------------------------------------
(* The invariant. *)

(* The partition, what its super block says, and where its inode table is. *)
Blocks == PartBlocks(size)
Declared == Super(Blocks)
Table == 2 + Declared.s_imap_blocks + Declared.s_zmap_blocks
Is(b) == disk[FirstPart + b].is

(* The bitmaps as far as block b of the partition, and nothing after it. *)
MapsTo(b) ==
  /\ \A c \in 2 .. b - 1 : Is(c) = "map"
  /\ \A c \in b .. Blocks - 1 : Is(c) = "old"

(* All the bitmaps, and nothing after the inode table. *)
MapsWritten ==
  /\ \A c \in 2 .. Table - 1 : Is(c) = "map"
  /\ \A c \in Table + 1 .. Blocks - 1 : Is(c) = "old"

(* Where the loops are, and what they have written. *)
Loops ==
  /\ step = "imap" => /\ j < Declared.s_imap_blocks /\ at = FirstPart + 2 + j
                      /\ MapsTo(2 + j)
  /\ step = "zmap" => /\ j < Declared.s_zmap_blocks
                      /\ at = FirstPart + 2 + Declared.s_imap_blocks + j
                      /\ MapsTo(2 + Declared.s_imap_blocks + j)
  /\ step = "inodes" => j <= InodeBlocks(Declared.s_ninodes) /\ at = FirstPart + Table
  /\ step \in {"inodes", "root", "dir"} => MapsWritten
  /\ step \in {"dir", "done"} => disk[FirstPart + Table] = Inodes(Declared.s_firstdatazone)
  /\ step = "done" => /\ \A c \in 2 .. Table - 1 : Is(c) = "map"
                      /\ Is(Declared.s_firstdatazone) = "directory"
                      /\ \A c \in Table + 1 .. Blocks - 1 :
                           c # Declared.s_firstdatazone => Is(c) = "old"

(* The first two blocks, which a later step reads, and what is not in the *)
(* partition.                                                             *)
Heads ==
  /\ step \notin {"panic", "stuck"}
  /\ step = "boot" => at = FirstPart /\ \A b \in 0 .. size - 1 : disk[b] = Old
  /\ step \in {"boot", "super"} => j = 0
  /\ step # "boot" => disk[FirstPart] = PartTable(FirstPart, Blocks)
  /\ step = "super" => at = FirstPart + 1 /\ \A c \in 1 .. Blocks - 1 : Is(c) = "old"
  /\ step \notin {"boot", "super"} =>
       sb = Declared /\ disk[FirstPart + 1] = SuperBlock(Declared)
  /\ \A b \in 1 .. size - 1 : b < FirstPart \/ b >= FirstPart + Blocks => disk[b] = Old

(* What the blocks say, that are read again. *)
Contents ==
  \A b \in DOMAIN disk :
    /\ disk[b].is = "partition_table" => disk[b] = PartTable(FirstPart, Blocks)
    /\ disk[b].is = "super_block" => disk[b] = SuperBlock(Declared)
    /\ disk[b].is = "old" => disk[b] = Old

(* Of a disk of any size, and of one with room for a file system. *)
AnyInv ==
  /\ size \in Sizes /\ step \in Steps /\ DOMAIN disk = 0 .. size - 1
  /\ at \in Nat /\ j \in Nat /\ sb \in SuperType
  /\ step \notin {"boot", "panic"} => Total(size) >= TooLittle
  /\ Contents
RoomInv == AnyInv /\ HasRoom /\ Heads /\ Loops
FormatInv == AnyInv /\ (HasRoom => RoomInv)

(* The mounted file system is the one on the disk, and what is in use lies *)
(* within it.                                                              *)
MountInv ==
  /\ mount \in {"off", "mounted", "strayed", "panic"} /\ frees \in Nat
  /\ mount # "off" => step \in {"done", "stuck"}
  /\ mount = "panic" => ~HasRoom
  /\ mount = "strayed" => super.s_nzones = super.s_zmap_blocks * MapBits
  /\ ~Mounted => zones = {} /\ inodes = {} /\ super = NoSuper
  /\ Mounted => /\ HasRoom /\ step = "done" /\ super = Declared
                /\ part = [start |-> FirstPart, blocks |-> Blocks]
                /\ 0 \in imap /\ 0 \in zmap
                /\ inodes \subseteq 1 .. super.s_ninodes
                /\ zones \subseteq super.s_firstdatazone .. Blocks - 2

VInv == FormatInv /\ MountInv /\ BitsAreOwners
-----------------------------------------------------------------------------
(* The format. *)

(* What the numbers of a disk that is being formatted are. *)
LEMMA Numbers ==
  ASSUME RoomInv
  PROVE  /\ Fits(Declared, Blocks) /\ Blocks \in Nat /\ Blocks >= 7
         /\ FirstPart \in Nat \ {0} /\ size \in Nat /\ FirstPart + Blocks <= size
         /\ Table \in Nat /\ Table >= 4 /\ Table < Declared.s_firstdatazone /\ Table < Blocks
         /\ Declared.s_firstdatazone \in Nat /\ Declared.s_firstdatazone + 2 <= Blocks
         /\ Declared.s_imap_blocks \in Nat \ {0} /\ Declared.s_zmap_blocks \in Nat \ {0}
         /\ Table = 2 + Declared.s_imap_blocks + Declared.s_zmap_blocks
         /\ InodeBlocks(Declared.s_ninodes) \in Nat \ {0}
         /\ Total(size) >= TooLittle
  <1>1. /\ Blocks \in Nat /\ Blocks >= 7 /\ Blocks < MAX_LOG_ZONE_AMOUNT
        /\ FirstPart \in Nat \ {0} /\ size \in Nat /\ FirstPart + Blocks <= size
        /\ Total(size) >= TooLittle
    BY Sized DEF RoomInv, AnyInv, HasRoom, Blocks
  <1>2. Fits(Declared, Blocks)
    BY <1>1, SuperFits DEF Declared
  <1>3. MAX_LOG_ZONE_AMOUNT \in Nat /\ MapSlots \in Nat
    BY MinixAssumption DEF MAX_LOG_ZONE_AMOUNT
  <1>4. /\ Declared.s_imap_blocks \in Nat /\ Declared.s_zmap_blocks \in Nat
        /\ Declared.s_firstdatazone \in Nat /\ Declared.s_nzones \in Nat
    BY <1>2, <1>3 DEF Fits, SuperType, Field
  <1> QED
    BY <1>1, <1>2, <1>4 DEF Fits, Table

(* The initial states. *)
LEMMA InitVInv == Init => VInv
  <1> SUFFICES ASSUME Init PROVE VInv
    OBVIOUS
  <1>1. /\ size \in Sizes /\ step = "boot" /\ disk = [b \in 0 .. size - 1 |-> Old]
        /\ at = FirstPart /\ j = 0 /\ sb = NoSuper
        /\ super = NoSuper /\ zones = {} /\ inodes = {} /\ mount = "off" /\ frees = 0
    BY DEF Init, FormatInit
  <1>2. size \in Nat /\ FirstPart \in Nat
    BY <1>1, Sized
  <1>3. NoSuper \in SuperType
    BY Fields DEF NoSuper, SuperType, Field
  <1>4. Contents
    BY <1>1 DEF Contents, Old
  <1>5. AnyInv
    BY <1>1, <1>2, <1>3, <1>4 DEF AnyInv, Steps
  <1>6. HasRoom => RoomInv
    <2>1. Heads
      BY <1>1, <1>2 DEF Heads
    <2>2. Loops
      BY <1>1 DEF Loops
    <2> QED
      BY <1>5, <2>1, <2>2 DEF RoomInv
  <1>7. MountInv /\ BitsAreOwners
    BY <1>1 DEF MountInv, BitsAreOwners, Mounted
  <1> QED
    BY <1>5, <1>6, <1>7 DEF VInv, FormatInv

(* A block is written, or the write is lost. *)
LEMMA AnyWritten ==
  ASSUME AnyInv, size' = size, NEW b, NEW what, disk' = Written(b, what),
         what.is = "partition_table" => what = PartTable(FirstPart, Blocks),
         what.is = "super_block" => what = SuperBlock(Declared),
         what.is = "old" => what = Old
  PROVE  DOMAIN disk' = DOMAIN disk /\ Contents'
  <1>1. Blocks' = Blocks /\ Declared' = Declared
    BY DEF Blocks, Declared
  <1>2. DOMAIN disk' = DOMAIN disk
    BY DEF Written
  <1>3. ASSUME NEW c \in DOMAIN disk
        PROVE  /\ disk'[c].is = "partition_table" => disk'[c] = PartTable(FirstPart, Blocks)
               /\ disk'[c].is = "super_block" => disk'[c] = SuperBlock(Declared)
               /\ disk'[c].is = "old" => disk'[c] = Old
    <2>1. disk'[c] = IF c = b THEN what ELSE disk[c]
      BY DEF Written
    <2>2. /\ disk[c].is = "partition_table" => disk[c] = PartTable(FirstPart, Blocks)
          /\ disk[c].is = "super_block" => disk[c] = SuperBlock(Declared)
          /\ disk[c].is = "old" => disk[c] = Old
      BY DEF AnyInv, Contents
    <2>3. CASE c = b
      BY <2>1, <2>3, Zenon
    <2>4. CASE c # b
      BY <2>1, <2>2, <2>4, Zenon
    <2> QED
      BY <2>3, <2>4
  <1> QED
    BY <1>1, <1>2, <1>3 DEF Contents, PartTable, SuperBlock, Old

(* What the super block and the other blocks are, to AnyWritten. *)
LEMMA Kinds ==
  /\ \A s : SuperBlock(s).is = "super_block" /\ SuperBlock(s).sb = s
  /\ \A s, n : /\ PartTable(s, n).is = "partition_table"
                /\ PartTable(s, n).start = s /\ PartTable(s, n).blocks = n
  /\ \A bits : Map(bits).is = "map"
  /\ \A root : Inodes(root).is = "inodes" /\ Inodes(root).root = root
  /\ Dir.is = "directory" /\ Old.is = "old"
  BY DEF SuperBlock, PartTable, Map, Inodes, Dir, Old

(* What does not change with the state. *)
LEMMA Still ==
  ASSUME size' = size
  PROVE  /\ Blocks' = Blocks /\ Declared' = Declared /\ Table' = Table
         /\ HasRoom' <=> HasRoom
  BY DEF Blocks, Declared, Table, HasRoom

(* Each step of the format, on a disk of any size. *)
LEMMA AnyKeeps == AnyInv /\ FormatNext => AnyInv'
  <1> SUFFICES ASSUME AnyInv, FormatNext PROVE AnyInv'
    OBVIOUS
  <1> USE DEF Steps
  <1>1. size' = size /\ size \in Sizes /\ DOMAIN disk = 0 .. size - 1 /\ at \in Nat /\ j \in Nat
        /\ step \in Steps /\ Contents
        /\ sb \in SuperType /\ (step \notin {"boot", "panic"} => Total(size) >= TooLittle)
    BY DEF AnyInv, FormatNext, WriteBoot, WriteSuper, WriteImap, WriteZmap, WriteMap, WriteInodes,
      WriteRoot, WriteRootDir
  <1>2. Blocks' = Blocks /\ Declared' = Declared
    BY <1>1, Still
  <1>3. Total(size) \in Int /\ TooLittle \in Nat /\ Blocks \in Int
    BY <1>1, Sized DEF Blocks
  <1>4. CASE WriteBoot
    <2>1. CASE Total(size) < TooLittle
      <3>1. /\ step' = "panic" /\ disk' = disk /\ at' = at /\ sb' = sb /\ j' = j
        BY <1>4, <2>1 DEF WriteBoot
      <3>2. Contents'
        BY <1>1, <1>2, <3>1 DEF Contents, PartTable, SuperBlock, Old
      <3> QED
        BY <1>1, <3>1, <3>2 DEF AnyInv
    <2>2. CASE ~(Total(size) < TooLittle)
      <3>1. /\ step' = "super" /\ at' = at + 1 /\ sb' = sb /\ j' = j
            /\ DOMAIN disk' = DOMAIN disk
            /\ \A b \in DOMAIN disk : disk'[b] = PartTable(FirstPart, Blocks) \/ disk'[b] = disk[b]
        BY <1>4, <2>2 DEF WriteBoot, Blocks
      <3>2. Total(size) >= TooLittle
        BY <1>3, <2>2
      <3>3. Contents'
        <4>1. ASSUME NEW b \in DOMAIN disk
              PROVE  /\ disk'[b].is = "partition_table" => disk'[b] = PartTable(FirstPart, Blocks)
                     /\ disk'[b].is = "super_block" => disk'[b] = SuperBlock(Declared)
                     /\ disk'[b].is = "old" => disk'[b] = Old
          <5>1. CASE disk'[b] = PartTable(FirstPart, Blocks)
            <6>1. disk'[b].is = "partition_table"
              BY <5>1, Kinds
            <6>2. disk'[b].is # "super_block" /\ disk'[b].is # "old"
              BY <6>1
            <6> QED
              BY <5>1, <6>2, Zenon
          <5>2. CASE disk'[b] = disk[b]
            BY <1>1, <5>2 DEF Contents
          <5> QED
            BY <3>1, <5>1, <5>2
        <4> QED
          BY <1>2, <3>1, <4>1 DEF Contents, PartTable, SuperBlock, Old
      <3> QED
        BY <1>1, <3>1, <3>2, <3>3 DEF AnyInv
    <2> QED
      BY <2>1, <2>2
  <1>5. CASE WriteSuper
    <2>1. /\ step' = "imap" /\ step = "super" /\ at' = at + 1 /\ sb' = Declared /\ j' = j
          /\ disk' = Written(at, SuperBlock(Declared))
      BY <1>5 DEF WriteSuper, Declared, Blocks
    <2>2. Declared \in SuperType
      BY <1>3, SuperTyped DEF Declared
    <2>3. DOMAIN disk' = DOMAIN disk /\ Contents'
      <3>1. SuperBlock(Declared).is = "super_block"
        BY Kinds
      <3> QED
        BY <1>1, <2>1, <3>1, AnyWritten
    <2> QED
      BY <1>1, <2>1, <2>2, <2>3 DEF AnyInv
  <1>6. ASSUME NEW kind, NEW blocks, NEW count, NEW next, WriteMap(kind, blocks, count, next),
               kind \in {"imap", "zmap"}, next \in {"zmap", "inodes"}
        PROVE  AnyInv'
    <2>1. /\ step = kind /\ step' \in {kind, next} /\ at' = at + 1 /\ j' \in {0, j + 1} /\ sb' = sb
      BY <1>6 DEF WriteMap
    <2>2. PICK bits : disk' = Written(at, Map(bits))
      BY <1>6 DEF WriteMap
    <2>3. DOMAIN disk' = DOMAIN disk /\ Contents'
      BY <1>1, <2>2, AnyWritten, Kinds
    <2>4. step' \in Steps /\ at' \in Nat /\ j' \in Nat /\ step \notin {"boot", "panic"}
      BY <1>1, <1>6, <2>1
    <2> QED
      BY <1>1, <2>1, <2>3, <2>4 DEF AnyInv
  <1>7. CASE WriteInodes
    <2>1. /\ step = "inodes" /\ step' \in {"inodes", "root"} /\ at' = at /\ j' \in {0, j + 1} /\ sb' = sb
          /\ disk' = disk \/ disk' = Written(at, Inodes(NoRoot))
      BY <1>7 DEF WriteInodes
    <2>2. DOMAIN disk' = DOMAIN disk /\ Contents'
      <3>1. CASE disk' = disk
        BY <1>1, <1>2, <3>1 DEF Contents, PartTable, SuperBlock, Old
      <3>2. CASE disk' = Written(at, Inodes(NoRoot))
        BY <1>1, <3>2, AnyWritten, Kinds
      <3> QED
        BY <2>1, <3>1, <3>2
    <2> QED
      BY <1>1, <2>1, <2>2 DEF AnyInv
  <1>8. CASE WriteRoot \/ WriteRootDir
    <2>1. /\ step \in {"root", "dir"} /\ step' \in {"dir", "done", "stuck"} /\ at' = at /\ j' = j /\ sb' = sb
          /\ \/ disk' = disk
             \/ \E b, zone : disk' = Written(b, Inodes(zone))
             \/ \E b : disk' = Written(b, Dir)
      BY <1>8 DEF WriteRoot, WriteRootDir
    <2>2. DOMAIN disk' = DOMAIN disk /\ Contents'
      <3>1. CASE disk' = disk
        BY <1>1, <1>2, <3>1 DEF Contents, PartTable, SuperBlock, Old
      <3>2. ASSUME NEW b, NEW zone, disk' = Written(b, Inodes(zone)) PROVE DOMAIN disk' = DOMAIN disk /\ Contents'
        BY <1>1, <3>2, AnyWritten, Kinds
      <3>3. ASSUME NEW b, disk' = Written(b, Dir) PROVE DOMAIN disk' = DOMAIN disk /\ Contents'
        BY <1>1, <3>3, AnyWritten, Kinds
      <3> QED
        BY <2>1, <3>1, <3>2, <3>3
    <2> QED
      BY <1>1, <2>1, <2>2 DEF AnyInv
  <1> QED
    BY <1>4, <1>5, <1>6, <1>7, <1>8 DEF FormatNext, WriteImap, WriteZmap

(* Writing one block of the partition. *)
LEMMA OneBlock ==
  ASSUME RoomInv, size' = size,
         NEW b \in 0 .. Blocks - 1, NEW v, disk' = Written(FirstPart + b, v)
  PROVE  /\ DOMAIN disk' = DOMAIN disk /\ Blocks' = Blocks /\ Declared' = Declared /\ Table' = Table
         /\ disk'[FirstPart + b] = v /\ Is(b)' = v.is
         /\ \A c \in 0 .. Blocks - 1 :
              c # b => disk'[FirstPart + c] = disk[FirstPart + c] /\ Is(c)' = Is(c)
         /\ \A c \in DOMAIN disk : c < FirstPart \/ c >= FirstPart + Blocks => disk'[c] = disk[c]
  <1>1. /\ Blocks \in Nat /\ FirstPart \in Nat /\ FirstPart + Blocks <= size /\ size \in Nat
        /\ DOMAIN disk = 0 .. size - 1
    BY Numbers DEF RoomInv, AnyInv
  <1>2. \A c \in 0 .. Blocks - 1 : FirstPart + c \in DOMAIN disk
    BY <1>1
  <1>3. Blocks' = Blocks /\ Declared' = Declared /\ Table' = Table
    BY DEF Blocks, Declared, Table
  <1>4. \A c \in 0 .. Blocks - 1 : c # b => FirstPart + c # FirstPart + b
    BY <1>1
  <1> QED
    BY <1>1, <1>2, <1>3, <1>4 DEF Is, Written

(* The partition table. *)
LEMMA BootKeeps == RoomInv /\ WriteBoot => RoomInv'
  <1> SUFFICES ASSUME RoomInv, WriteBoot PROVE RoomInv'
    OBVIOUS
  <1>1. /\ Blocks \in Nat /\ FirstPart \in Nat \ {0} /\ FirstPart + Blocks <= size
        /\ size \in Nat /\ Blocks >= 7 /\ Total(size) >= TooLittle
    BY Numbers
  <1>2. AnyInv' /\ ~(Total(size) < TooLittle)
    <2>1. Total(size) \in Int /\ TooLittle \in Int
      BY Sized DEF RoomInv, AnyInv
    <2> QED
      BY <1>1, <2>1, AnyKeeps DEF RoomInv, FormatNext
  <1>3. /\ size' = size /\ step' = "super" /\ at' = at + 1 /\ j' = j /\ sb' = sb
        /\ at = FirstPart /\ j = 0
        /\ DOMAIN disk = 0 .. size - 1 /\ (\A b \in 0 .. size - 1 : disk[b] = Old)
        /\ disk' = [b \in DOMAIN disk |->
                      IF b \in {0, at} THEN PartTable(FirstPart, PartBlocks(size)) ELSE disk[b]]
    BY <1>2 DEF WriteBoot, RoomInv, AnyInv, Heads
  <1>4. Blocks' = Blocks /\ HasRoom'
    BY <1>3, Still DEF RoomInv
  <1>5. disk'[FirstPart] = PartTable(FirstPart, Blocks)
    BY <1>1, <1>3 DEF Blocks
  <1>6. \A c \in 1 .. Blocks - 1 : disk'[FirstPart + c] = Old
    BY <1>1, <1>3
  <1>7. \A c \in 1 .. Blocks - 1 : Is(c)' = "old"
    BY <1>6 DEF Is, Old
  <1>8. \A b \in 1 .. size - 1 : b < FirstPart \/ b >= FirstPart + Blocks => disk'[b] = Old
    BY <1>1, <1>3
  <1>9. Heads'
    BY <1>3, <1>4, <1>5, <1>7, <1>8 DEF Heads, PartTable, Old
  <1>10. Loops'
    BY <1>3 DEF Loops
  <1> QED
    BY <1>2, <1>4, <1>9, <1>10 DEF RoomInv

(* The super block. *)
LEMMA SuperKeeps == RoomInv /\ WriteSuper => RoomInv'
  <1> SUFFICES ASSUME RoomInv, WriteSuper PROVE RoomInv'
    OBVIOUS
  <1> USE DEF Steps
  <1>1. /\ size' = size /\ step = "super" /\ step' = "imap" /\ at' = at + 1 /\ j' = j
        /\ sb' = Declared /\ at = FirstPart + 1 /\ j = 0
        /\ disk[FirstPart] = PartTable(FirstPart, Blocks)
        /\ \A c \in 1 .. Blocks - 1 : Is(c) = "old"
        /\ \A b \in 1 .. size - 1 : b < FirstPart \/ b >= FirstPart + Blocks => disk[b] = Old
        /\ DOMAIN disk = 0 .. size - 1
        /\ disk' = Written(FirstPart + 1, SuperBlock(Declared))
    BY DEF WriteSuper, RoomInv, AnyInv, Heads, Declared, Blocks
  <1>2. Fits(Declared, Blocks) /\ Blocks \in Nat /\ Blocks >= 7 /\ FirstPart \in Nat
        /\ Declared.s_imap_blocks \in Nat \ {0}
    BY <1>1, Numbers
  <1>3. 1 \in 0 .. Blocks - 1
    BY <1>2
  <1>4. /\ DOMAIN disk' = DOMAIN disk /\ Blocks' = Blocks /\ Declared' = Declared /\ Table' = Table
        /\ disk'[FirstPart + 1] = SuperBlock(Declared)
        /\ \A c \in 0 .. Blocks - 1 :
             c # 1 => disk'[FirstPart + c] = disk[FirstPart + c] /\ Is(c)' = Is(c)
        /\ \A c \in DOMAIN disk : c < FirstPart \/ c >= FirstPart + Blocks => disk'[c] = disk[c]
    BY <1>1, <1>3, OneBlock
  <1>5. disk'[FirstPart] = PartTable(FirstPart, Blocks)
    <2>1. FirstPart + 0 = FirstPart /\ 0 \in 0 .. Blocks - 1
      BY <1>2
    <2> QED
      BY <1>1, <1>4, <2>1
  <1>6. \A b \in 1 .. size - 1 : b < FirstPart \/ b >= FirstPart + Blocks => disk'[b] = Old
    BY <1>1, <1>4
  <1>7. Heads'
    BY <1>1, <1>4, <1>5, <1>6 DEF Heads, PartTable, SuperBlock, Old
  <1>8. MapsTo(2)'
    <2>1. \A c \in 2 .. Blocks - 1 : Is(c)' = "old"
      BY <1>1, <1>2, <1>4
    <2> QED
      BY <1>4, <2>1 DEF MapsTo
  <1>9. Loops'
    BY <1>1, <1>2, <1>4, <1>8 DEF Loops
  <1>10. AnyInv' /\ HasRoom'
    BY <1>1, AnyKeeps, Still DEF RoomInv, FormatNext
  <1> QED
    BY <1>7, <1>9, <1>10 DEF RoomInv

(* Blocks from 2 of the partition on are written: the first two stay. *)
LEMMA HeadsStay ==
  ASSUME RoomInv, step \notin {"boot", "super", "panic", "stuck"},
         size' = size, sb' = sb, step' \in Steps, step' \notin {"boot", "super", "panic", "stuck"},
         NEW b \in 2 .. Blocks - 1, NEW v, disk' = Written(FirstPart + b, v)
  PROVE  /\ Heads' /\ sb = Declared
         /\ DOMAIN disk' = DOMAIN disk /\ Blocks' = Blocks /\ Declared' = Declared /\ Table' = Table
         /\ disk'[FirstPart + b] = v /\ Is(b)' = v.is
         /\ \A c \in 0 .. Blocks - 1 :
              c # b => disk'[FirstPart + c] = disk[FirstPart + c] /\ Is(c)' = Is(c)
  <1>1. /\ disk[FirstPart] = PartTable(FirstPart, Blocks)
        /\ sb = Declared /\ disk[FirstPart + 1] = SuperBlock(Declared)
        /\ \A c \in 1 .. size - 1 : c < FirstPart \/ c >= FirstPart + Blocks => disk[c] = Old
        /\ DOMAIN disk = 0 .. size - 1
    BY DEF RoomInv, AnyInv, Heads
  <1>2. Blocks \in Nat /\ Blocks >= 7 /\ FirstPart \in Nat
    BY Numbers
  <1>3. b \in 0 .. Blocks - 1
    BY <1>2
  <1>4. /\ DOMAIN disk' = DOMAIN disk /\ Blocks' = Blocks /\ Declared' = Declared /\ Table' = Table
        /\ disk'[FirstPart + b] = v /\ Is(b)' = v.is
        /\ \A c \in 0 .. Blocks - 1 :
             c # b => disk'[FirstPart + c] = disk[FirstPart + c] /\ Is(c)' = Is(c)
        /\ \A c \in DOMAIN disk : c < FirstPart \/ c >= FirstPart + Blocks => disk'[c] = disk[c]
    BY <1>3, OneBlock
  <1>5. disk'[FirstPart] = disk[FirstPart] /\ disk'[FirstPart + 1] = disk[FirstPart + 1]
    <2>1. /\ FirstPart + 0 = FirstPart /\ 0 \in 0 .. Blocks - 1 /\ 0 # b
          /\ 1 \in 0 .. Blocks - 1 /\ 1 # b
      BY <1>2
    <2> QED
      BY <1>4, <2>1
  <1>6. \A c \in 1 .. size - 1 : c < FirstPart \/ c >= FirstPart + Blocks => disk'[c] = Old
    BY <1>1, <1>4
  <1>7. Heads'
    BY <1>1, <1>4, <1>5, <1>6 DEF Heads, PartTable, SuperBlock, Old
  <1> QED
    BY <1>1, <1>4, <1>7

(* One more block of a bitmap. *)
LEMMA MapGrows ==
  ASSUME RoomInv, step \in {"imap", "zmap"}, size' = size, sb' = sb,
         step' \in {"imap", "zmap", "inodes"},
         NEW b \in Nat, b >= 2, b < Table, MapsTo(b),
         NEW bits, disk' = Written(FirstPart + b, Map(bits))
  PROVE  /\ Heads' /\ DOMAIN disk' = DOMAIN disk
         /\ Blocks' = Blocks /\ Declared' = Declared /\ Table' = Table
         /\ \A c \in 2 .. b : Is(c)' = "map"
         /\ \A c \in b + 1 .. Blocks - 1 : Is(c)' = "old"
  <1>2. b \in 2 .. Blocks - 1 /\ Blocks \in Int
    BY Numbers
  <1>3. step' \in Steps /\ step' \notin {"boot", "super", "panic", "stuck"}
    BY DEF Steps
  <1>4. /\ Heads' /\ DOMAIN disk' = DOMAIN disk
        /\ Blocks' = Blocks /\ Declared' = Declared /\ Table' = Table
        /\ Is(b)' = Map(bits).is
        /\ \A c \in 0 .. Blocks - 1 : c # b => Is(c)' = Is(c)
    BY <1>2, <1>3, HeadsStay
  <1>5. Is(b)' = "map"
    BY <1>4 DEF Map
  <1>6. ASSUME NEW c \in 2 .. b PROVE Is(c)' = "map"
    <2>1. CASE c = b
      BY <1>5, <2>1
    <2>2. CASE c # b
      <3>1. c \in 0 .. Blocks - 1 /\ c \in 2 .. b - 1
        BY <1>2, <2>2
      <3> QED
        BY <1>4, <2>2, <3>1 DEF MapsTo
    <2> QED
      BY <2>1, <2>2
  <1>7. ASSUME NEW c \in b + 1 .. Blocks - 1 PROVE Is(c)' = "old"
    <2>1. c \in 0 .. Blocks - 1 /\ c # b /\ c \in b .. Blocks - 1
      BY <1>2
    <2> QED
      BY <1>4, <2>1 DEF MapsTo
  <1> QED
    BY <1>4, <1>6, <1>7

(* The bitmap of the inodes. *)
LEMMA ImapKeeps == RoomInv /\ WriteImap => RoomInv'
  <1> SUFFICES ASSUME RoomInv, WriteImap PROVE RoomInv'
    OBVIOUS
  <1>1. /\ step = "imap" /\ sb = Declared
        /\ j \in Nat /\ j < Declared.s_imap_blocks /\ at = FirstPart + 2 + j /\ MapsTo(2 + j)
    BY DEF WriteImap, WriteMap, RoomInv, AnyInv, Heads, Loops
  <1>2. PICK b \in Nat : b = 2 + j
    BY <1>1
  <1>3. PICK n \in Nat \ {0} : n = Declared.s_imap_blocks
    BY <1>1, Numbers
  <1>4. PICK z \in Nat \ {0} : z = Declared.s_zmap_blocks
    BY <1>1, Numbers
  <1>5. /\ size' = size /\ sb' = sb /\ at' = at + 1
        /\ j' = (IF j = n - 1 THEN 0 ELSE j + 1)
        /\ step' = (IF j = n - 1 THEN "zmap" ELSE "imap")
    BY <1>1, <1>3 DEF WriteImap, WriteMap
  <1>6. PICK bits : disk' = Written(at, Map(bits))
    BY DEF WriteImap, WriteMap
  <1>7. Blocks \in Nat /\ FirstPart \in Nat /\ Table = 2 + n + z
    BY <1>1, <1>3, <1>4, Numbers
  <1>8. j \in Nat /\ j < n /\ at = FirstPart + 2 + j
    BY <1>1, <1>3
  <1>9. b >= 2 /\ b < Table /\ at = FirstPart + b /\ MapsTo(b)
    <2>1. b >= 2 /\ b < 2 + n + z
      BY <1>2, <1>4, <1>8
    <2>2. at = FirstPart + b
      BY <1>2, <1>7, <1>8
    <2> QED
      BY <1>1, <1>2, <1>7, <2>1, <2>2
  <1>10. /\ Heads' /\ DOMAIN disk' = DOMAIN disk
         /\ Blocks' = Blocks /\ Declared' = Declared /\ Table' = Table
         /\ \A c \in 2 .. b : Is(c)' = "map"
         /\ \A c \in b + 1 .. Blocks - 1 : Is(c)' = "old"
    BY <1>1, <1>5, <1>6, <1>9, MapGrows
  <1>11. MapsTo(b + 1)'
    <2>1. (b + 1) - 1 = b
      OBVIOUS
    <2> QED
      BY <1>10, <2>1 DEF MapsTo
  <1>12. Loops'
    <2>1. CASE j = n - 1
      <3>1. step' = "zmap" /\ j' = 0
        BY <1>5, <2>1
      <3>2. b + 1 = 2 + n + 0 /\ at + 1 = FirstPart + 2 + n + 0
        BY <1>2, <1>7, <1>8, <2>1
      <3>3. MapsTo(2 + Declared.s_imap_blocks + j)'
        BY <1>3, <1>10, <1>11, <3>1, <3>2 DEF MapsTo
      <3>4. at' = FirstPart + 2 + Declared.s_imap_blocks' + j' /\ j' < Declared.s_zmap_blocks'
        BY <1>3, <1>4, <1>5, <1>10, <3>1, <3>2
      <3> QED
        BY <3>1, <3>3, <3>4 DEF Loops
    <2>2. CASE j # n - 1
      <3>1. step' = "imap" /\ j' = j + 1
        BY <1>5, <2>2
      <3>2. b + 1 = 2 + (j + 1) /\ at + 1 = FirstPart + 2 + (j + 1) /\ j + 1 < n
        BY <1>2, <1>7, <1>8, <2>2
      <3>3. MapsTo(2 + j)'
        BY <1>11, <3>1, <3>2 DEF MapsTo
      <3>4. at' = FirstPart + 2 + j' /\ j' < Declared.s_imap_blocks'
        BY <1>3, <1>5, <1>10, <3>1, <3>2
      <3> QED
        BY <3>1, <3>3, <3>4 DEF Loops
    <2> QED
      BY <2>1, <2>2
  <1>13. AnyInv' /\ HasRoom'
    BY <1>5, AnyKeeps, Still DEF RoomInv, FormatNext
  <1> QED
    BY <1>10, <1>12, <1>13 DEF RoomInv

(* The bitmap of the zones. *)
LEMMA ZmapKeeps == RoomInv /\ WriteZmap => RoomInv'
  <1> SUFFICES ASSUME RoomInv, WriteZmap PROVE RoomInv'
    OBVIOUS
  <1>1. /\ step = "zmap" /\ sb = Declared
        /\ j \in Nat /\ j < Declared.s_zmap_blocks
        /\ at = FirstPart + 2 + Declared.s_imap_blocks + j
        /\ MapsTo(2 + Declared.s_imap_blocks + j)
    BY DEF WriteZmap, WriteMap, RoomInv, AnyInv, Heads, Loops
  <1>2. PICK n \in Nat \ {0} : n = Declared.s_zmap_blocks
    BY <1>1, Numbers
  <1>3. PICK m \in Nat \ {0} : m = Declared.s_imap_blocks
    BY <1>1, Numbers
  <1>4. PICK b \in Nat : b = 2 + m + j
    BY <1>1, <1>3
  <1>5. /\ size' = size /\ sb' = sb /\ at' = at + 1
        /\ j' = (IF j = n - 1 THEN 0 ELSE j + 1)
        /\ step' = (IF j = n - 1 THEN "inodes" ELSE "zmap")
    BY <1>1, <1>2 DEF WriteZmap, WriteMap
  <1>6. PICK bits : disk' = Written(at, Map(bits))
    BY DEF WriteZmap, WriteMap
  <1>7. Blocks \in Nat /\ FirstPart \in Nat /\ Table = 2 + m + n
    BY <1>1, <1>2, <1>3, Numbers
  <1>8. j \in Nat /\ j < n /\ at = FirstPart + 2 + m + j /\ MapsTo(b)
    BY <1>1, <1>2, <1>3, <1>4
  <1>9. b >= 2 /\ b < Table /\ at = FirstPart + b
    <2>1. b >= 2 /\ b < 2 + m + n
      BY <1>3, <1>4, <1>8
    <2>2. at = FirstPart + b
      BY <1>4, <1>7, <1>8
    <2> QED
      BY <1>7, <2>1, <2>2
  <1>10. /\ Heads' /\ DOMAIN disk' = DOMAIN disk
         /\ Blocks' = Blocks /\ Declared' = Declared /\ Table' = Table
         /\ \A c \in 2 .. b : Is(c)' = "map"
         /\ \A c \in b + 1 .. Blocks - 1 : Is(c)' = "old"
    BY <1>1, <1>5, <1>6, <1>8, <1>9, MapGrows
  <1>11. InodeBlocks(Declared.s_ninodes) \in Nat \ {0}
    BY <1>1, Numbers
  <1>12. Loops'
    <2>1. CASE j = n - 1
      <3>1. step' = "inodes" /\ j' = 0
        BY <1>5, <2>1
      <3>2. b + 1 = Table /\ at + 1 = FirstPart + Table /\ Table - 1 = b
        BY <1>4, <1>7, <1>8, <2>1
      <3>3. MapsWritten'
        <4>1. \A c \in 2 .. Table - 1 : Is(c)' = "map"
          BY <1>10, <3>2
        <4>2. \A c \in Table + 1 .. Blocks - 1 : Is(c)' = "old"
          <5>1. Table \in Nat /\ b + 1 <= Table + 1
            BY <1>7, <3>2
          <5> QED
            BY <1>7, <1>10, <3>2, <5>1
        <4> QED
          BY <1>10, <4>1, <4>2 DEF MapsWritten
      <3>4. at' = FirstPart + Table' /\ 0 < InodeBlocks(Declared.s_ninodes)
        BY <1>5, <1>10, <1>11, <3>2
      <3>5. j' <= InodeBlocks(Declared.s_ninodes)'
        BY <1>10, <1>11, <3>1 DEF InodeBlocks
      <3> QED
        BY <3>1, <3>3, <3>4, <3>5 DEF Loops
    <2>2. CASE j # n - 1
      <3>1. step' = "zmap" /\ j' = j + 1
        BY <1>5, <2>2
      <3>2. b + 1 = 2 + m + (j + 1) /\ at + 1 = FirstPart + 2 + m + (j + 1) /\ j + 1 < n
        BY <1>4, <1>7, <1>8, <2>2
      <3>3. MapsTo(b + 1)'
        <4>1. (b + 1) - 1 = b
          OBVIOUS
        <4> QED
          BY <1>10, <4>1 DEF MapsTo
      <3>4. MapsTo(2 + Declared.s_imap_blocks + j)'
        BY <1>3, <1>10, <3>1, <3>2, <3>3 DEF MapsTo
      <3>5. at' = FirstPart + 2 + Declared.s_imap_blocks' + j' /\ j' < Declared.s_zmap_blocks'
        BY <1>2, <1>3, <1>5, <1>10, <3>1, <3>2
      <3> QED
        BY <3>1, <3>4, <3>5 DEF Loops
    <2> QED
      BY <2>1, <2>2
  <1>13. AnyInv' /\ HasRoom'
    BY <1>5, AnyKeeps, Still DEF RoomInv, FormatNext
  <1> QED
    BY <1>10, <1>12, <1>13 DEF RoomInv

(* Writing to the inode table leaves the bitmaps and what follows alone. *)
LEMMA TableWrite ==
  ASSUME RoomInv, step \in {"inodes", "root"}, size' = size, sb' = sb,
         step' \in {"inodes", "root", "dir"},
         NEW v, disk' = Written(FirstPart + Table, v)
  PROVE  /\ Heads' /\ MapsWritten' /\ DOMAIN disk' = DOMAIN disk
         /\ Declared' = Declared /\ Table' = Table /\ disk'[FirstPart + Table] = v
  <1>1. MapsWritten
    BY DEF RoomInv, Loops
  <1>2. Blocks \in Nat /\ Table \in Nat /\ Table >= 4 /\ Table < Blocks
    BY Numbers
  <1>3. PICK b \in 2 .. Blocks - 1 : b = Table
    BY <1>2
  <1>4. step' \in Steps /\ step' \notin {"boot", "super", "panic", "stuck"} /\ step \notin {"boot", "super", "panic", "stuck"}
    BY DEF Steps
  <1>5. disk' = Written(FirstPart + b, v)
    BY <1>3
  <1>6. /\ Heads' /\ DOMAIN disk' = DOMAIN disk
        /\ Blocks' = Blocks /\ Declared' = Declared /\ Table' = Table
        /\ disk'[FirstPart + b] = v
        /\ \A c \in 0 .. Blocks - 1 : c # b => Is(c)' = Is(c)
    BY <1>4, <1>5, HeadsStay
  <1>7. ASSUME NEW c \in 2 .. Table - 1 PROVE Is(c)' = "map"
    <2>1. c \in 0 .. Blocks - 1 /\ c # b
      BY <1>2, <1>3
    <2> QED
      BY <1>1, <1>6, <2>1 DEF MapsWritten
  <1>8. ASSUME NEW c \in Table + 1 .. Blocks - 1 PROVE Is(c)' = "old"
    <2>1. c \in 0 .. Blocks - 1 /\ c # b
      BY <1>2, <1>3
    <2> QED
      BY <1>1, <1>6, <2>1 DEF MapsWritten
  <1>9. MapsWritten'
    BY <1>6, <1>7, <1>8 DEF MapsWritten
  <1> QED
    BY <1>3, <1>6, <1>9

(* The inode table. *)
LEMMA InodesKeeps == RoomInv /\ WriteInodes => RoomInv'
  <1> SUFFICES ASSUME RoomInv, WriteInodes PROVE RoomInv'
    OBVIOUS
  <1>1. /\ step = "inodes" /\ sb = Declared
        /\ j \in Nat /\ j <= InodeBlocks(Declared.s_ninodes) /\ at = FirstPart + Table
        /\ MapsWritten
    BY DEF WriteInodes, RoomInv, AnyInv, Heads, Loops
  <1>2. PICK n \in Nat \ {0} : n = InodeBlocks(Declared.s_ninodes)
    BY Numbers
  <1>3. size' = size /\ sb' = sb /\ at' = at
    BY DEF WriteInodes
  <1>4. AnyInv' /\ HasRoom' /\ Blocks' = Blocks /\ Declared' = Declared /\ Table' = Table
    BY <1>3, AnyKeeps, Still DEF RoomInv, FormatNext
  <1>5. n = InodeBlocks(Declared.s_ninodes)'
    BY <1>2, <1>4 DEF InodeBlocks
  <1>6. CASE j < n
    <2>1. j' = j + 1 /\ step' = "inodes" /\ disk' = Written(FirstPart + Table, Inodes(NoRoot))
      BY <1>1, <1>2, <1>6 DEF WriteInodes
    <2>2. Heads' /\ MapsWritten'
      BY <1>1, <1>3, <2>1, TableWrite
    <2>3. j + 1 <= n
      BY <1>1, <1>2, <1>6
    <2>4. Loops'
      BY <1>1, <1>3, <1>4, <1>5, <2>1, <2>2, <2>3 DEF Loops
    <2> QED
      BY <1>4, <2>2, <2>4 DEF RoomInv
  <1>7. CASE ~(j < n)
    <2>1. j' = 0 /\ step' = "root" /\ disk' = disk
      BY <1>1, <1>2, <1>7 DEF WriteInodes
    <2>2. Heads'
      BY <1>1, <1>3, <1>4, <2>1 DEF RoomInv, Heads, PartTable, SuperBlock, Old
    <2>3. MapsWritten'
      BY <1>1, <1>4, <2>1 DEF MapsWritten, Is
    <2>4. Loops'
      BY <2>1, <2>3 DEF Loops
    <2> QED
      BY <1>4, <2>2, <2>4 DEF RoomInv
  <1> QED
    BY <1>6, <1>7

(* What create_rootdir reads. *)
LEMMA RootReads ==
  ASSUME RoomInv, step \in {"root", "dir"}
  PROVE  /\ OnDisk = Declared /\ InodeTable = FirstPart + Table
         /\ RootZone = FirstPart + Declared.s_firstdatazone
         /\ Has(FirstPart + 1) /\ Has(InodeTable) /\ Has(RootZone)
  <1>1. disk[FirstPart + 1] = SuperBlock(Declared) /\ DOMAIN disk = 0 .. size - 1
    BY DEF RoomInv, AnyInv, Heads
  <1>2. OnDisk = Declared
    BY <1>1, Kinds DEF OnDisk
  <1>3. /\ Table = 2 + Declared.s_imap_blocks + Declared.s_zmap_blocks /\ FirstPart \in Nat
        /\ Declared.s_imap_blocks \in Nat /\ Declared.s_zmap_blocks \in Nat
        /\ Table \in Nat /\ Table < Blocks /\ Blocks \in Nat /\ Blocks >= 7
        /\ Declared.s_firstdatazone \in Nat /\ Declared.s_firstdatazone + 2 <= Blocks
        /\ FirstPart + Blocks <= size /\ size \in Nat
    BY Numbers
  <1>4. InodeTable = FirstPart + Table
    BY <1>2, <1>3 DEF InodeTable
  <1>5. RootZone = FirstPart + Declared.s_firstdatazone
    BY <1>2 DEF RootZone
  <1>6. /\ FirstPart + 1 \in 0 .. size - 1 /\ FirstPart + Table \in 0 .. size - 1
        /\ FirstPart + Declared.s_firstdatazone \in 0 .. size - 1
    BY <1>3
  <1> QED
    BY <1>1, <1>2, <1>4, <1>5, <1>6 DEF Has

(* The inode of the root. *)
LEMMA RootKeeps == RoomInv /\ WriteRoot => RoomInv'
  <1> SUFFICES ASSUME RoomInv, WriteRoot PROVE RoomInv'
    OBVIOUS
  <1>1. step = "root" /\ sb = Declared
    BY DEF WriteRoot, RoomInv, Heads
  <1>2. /\ OnDisk = Declared /\ InodeTable = FirstPart + Table
        /\ Has(FirstPart + 1) /\ Has(InodeTable)
    BY <1>1, RootReads
  <1>3. /\ size' = size /\ sb' = sb /\ step' = "dir"
        /\ disk' = Written(FirstPart + Table, Inodes(Declared.s_firstdatazone))
    BY <1>2 DEF WriteRoot
  <1>4. /\ Heads' /\ MapsWritten' /\ DOMAIN disk' = DOMAIN disk
        /\ Declared' = Declared /\ Table' = Table
        /\ disk'[FirstPart + Table] = Inodes(Declared.s_firstdatazone)
    BY <1>1, <1>3, TableWrite
  <1>5. Loops'
    BY <1>3, <1>4 DEF Loops, Inodes
  <1>6. AnyInv' /\ HasRoom'
    BY <1>3, AnyKeeps, Still DEF RoomInv, FormatNext
  <1> QED
    BY <1>4, <1>5, <1>6 DEF RoomInv

(* The root directory. *)
LEMMA RootDirKeeps == RoomInv /\ WriteRootDir => RoomInv'
  <1> SUFFICES ASSUME RoomInv, WriteRootDir PROVE RoomInv'
    OBVIOUS
  <1>1. /\ step = "dir" /\ MapsWritten
        /\ disk[FirstPart + Table] = Inodes(Declared.s_firstdatazone)
    BY DEF WriteRootDir, RoomInv, Loops
  <1>2. RootZone = FirstPart + Declared.s_firstdatazone /\ Has(RootZone)
    BY <1>1, RootReads
  <1>3. /\ Blocks \in Nat /\ Table \in Nat /\ Table >= 4 /\ Table < Blocks
        /\ Table < Declared.s_firstdatazone /\ Declared.s_firstdatazone \in Nat
        /\ Declared.s_firstdatazone + 2 <= Blocks
    BY Numbers
  <1>4. PICK b \in 2 .. Blocks - 1 : b = Declared.s_firstdatazone
    BY <1>3
  <1>5. /\ size' = size /\ sb' = sb /\ step' = "done"
        /\ disk' = Written(FirstPart + b, Dir)
    BY <1>2, <1>4 DEF WriteRootDir
  <1>6. step' \in Steps /\ step' \notin {"boot", "super", "panic", "stuck"} /\ step \notin {"boot", "super", "panic", "stuck"}
    BY <1>1, <1>5 DEF Steps
  <1>7. /\ Heads' /\ DOMAIN disk' = DOMAIN disk
        /\ Blocks' = Blocks /\ Declared' = Declared /\ Table' = Table
        /\ Is(b)' = Dir.is
        /\ \A c \in 0 .. Blocks - 1 :
             c # b => disk'[FirstPart + c] = disk[FirstPart + c] /\ Is(c)' = Is(c)
    BY <1>5, <1>6, HeadsStay
  <1>8. disk'[FirstPart + Table] = Inodes(Declared.s_firstdatazone)
    <2>1. Table \in 0 .. Blocks - 1 /\ Table # b
      BY <1>3, <1>4
    <2> QED
      BY <1>1, <1>7, <2>1
  <1>9. Is(Declared.s_firstdatazone)' = "directory"
    <2>1. Is(b)' = "directory"
      BY <1>7 DEF Dir
    <2> QED
      BY <1>4, <1>7, <2>1 DEF Is
  <1>10. ASSUME NEW c \in 2 .. Table - 1 PROVE Is(c)' = "map"
    <2>1. c \in 0 .. Blocks - 1 /\ c # b
      BY <1>3, <1>4
    <2> QED
      BY <1>1, <1>7, <2>1 DEF MapsWritten
  <1>11. ASSUME NEW c \in Table + 1 .. Blocks - 1, c # b PROVE Is(c)' = "old"
    <2>1. c \in 0 .. Blocks - 1
      BY <1>3
    <2> QED
      BY <1>1, <1>7, <1>11, <2>1 DEF MapsWritten
  <1>12. Loops'
    <2>1. \A c \in 2 .. Table' - 1 : Is(c)' = "map"
      BY <1>7, <1>10
    <2>2. \A c \in Table' + 1 .. Blocks' - 1 : c # Declared'.s_firstdatazone => Is(c)' = "old"
      BY <1>4, <1>7, <1>11
    <2>3. disk'[FirstPart + Table'] = Inodes(Declared.s_firstdatazone)'
      BY <1>7, <1>8 DEF Inodes
    <2> QED
      BY <1>5, <1>9, <2>1, <2>2, <2>3 DEF Loops
  <1>13. AnyInv' /\ HasRoom'
    BY <1>5, AnyKeeps, Still DEF RoomInv, FormatNext
  <1> QED
    BY <1>7, <1>12, <1>13 DEF RoomInv

(* What stands still. *)
LEMMA FormatStands == FormatInv /\ UNCHANGED formatVars => FormatInv'
  <1> SUFFICES ASSUME FormatInv, UNCHANGED formatVars PROVE FormatInv'
    OBVIOUS
  <1>1. /\ size' = size /\ step' = step /\ disk' = disk /\ at' = at /\ sb' = sb /\ j' = j
    BY DEF formatVars
  <1>2. /\ Blocks' = Blocks /\ Declared' = Declared /\ Table' = Table
        /\ HasRoom' <=> HasRoom
    BY <1>1, Still
  <1>3. AnyInv => AnyInv'
    BY <1>1, <1>2 DEF AnyInv, Contents, PartTable, SuperBlock, Old
  <1>4. Heads => Heads'
    BY <1>1, <1>2 DEF Heads, Is, Old, PartTable, SuperBlock
  <1>5. Loops => Loops'
    BY <1>1, <1>2 DEF Loops, MapsTo, MapsWritten, Is, InodeBlocks, Inodes
  <1> QED
    BY <1>2, <1>3, <1>4, <1>5 DEF FormatInv, RoomInv

(* A step of the program that formats the disk. *)
LEMMA FormatKeeps == FormatInv /\ FormatNext => FormatInv'
  <1> SUFFICES ASSUME FormatInv, FormatNext PROVE FormatInv'
    OBVIOUS
  <1>1. AnyInv'
    BY AnyKeeps DEF FormatInv
  <1>2. size' = size
    BY DEF FormatNext, WriteBoot, WriteSuper, WriteImap, WriteZmap, WriteMap, WriteInodes,
      WriteRoot, WriteRootDir
  <1>3. HasRoom' => RoomInv
    BY <1>2, Still DEF FormatInv
  <1>4. RoomInv => RoomInv'
    BY BootKeeps, SuperKeeps, ImapKeeps, ZmapKeeps, InodesKeeps, RootKeeps, RootDirKeeps DEF FormatNext
  <1> QED
    BY <1>1, <1>3, <1>4 DEF FormatInv
-----------------------------------------------------------------------------
(* The mounted file system. *)

(* The format is over when something is mounted. *)
LEMMA FormattingKeeps == VInv /\ Formatting => VInv'
  <1> SUFFICES ASSUME VInv, Formatting PROVE VInv'
    OBVIOUS
  <1>1. FormatInv'
    BY FormatKeeps DEF VInv, Formatting
  <1>2. step \notin {"done", "stuck"}
    BY DEF Formatting, FormatNext, WriteBoot, WriteSuper, WriteImap, WriteZmap, WriteMap, WriteInodes,
      WriteRoot, WriteRootDir
  <1>3. mount = "off" /\ mount' = mount /\ frees' = frees /\ zones' = zones /\ inodes' = inodes
        /\ super' = super /\ frees \in Nat /\ zones = {} /\ inodes = {} /\ super = NoSuper
    BY <1>2 DEF VInv, MountInv, Mounted, Formatting, mapVars
  <1>4. MountInv'
    BY <1>3 DEF MountInv, Mounted, NoSuper
  <1>5. BitsAreOwners'
    BY <1>3 DEF BitsAreOwners, Mounted
  <1> QED
    BY <1>1, <1>4, <1>5 DEF VInv

(* What is known of the numbers when something is mounted. *)
LEMMA MountedNumbers ==
  ASSUME RoomInv, step = "done"
  PROVE  /\ sb = Declared
         /\ disk[FirstPart] = PartTable(FirstPart, Blocks)
         /\ disk[FirstPart + 1] = SuperBlock(Declared)
         /\ Blocks \in Nat /\ FirstPart \in Nat /\ Blocks < MAX_LOG_ZONE_AMOUNT
         /\ FirstPart + Blocks <= size /\ size \in Nat /\ DOMAIN disk = 0 .. size - 1
         /\ Declared.s_firstdatazone \in Nat /\ Declared.s_firstdatazone >= 4
         /\ Declared.s_firstdatazone + 2 <= Blocks
         /\ Declared.s_nzones = Blocks - Declared.s_firstdatazone
         /\ Declared.s_ninodes \in Nat \ {0}
         /\ Declared.s_imap_blocks \in Nat \ {0} /\ Declared.s_zmap_blocks \in Nat \ {0}
         /\ 3 + Declared.s_imap_blocks + Declared.s_zmap_blocks <= Declared.s_firstdatazone
         /\ Declared \in SuperType /\ Fits(Declared, Blocks)
  <1>1. /\ sb = Declared /\ DOMAIN disk = 0 .. size - 1
        /\ disk[FirstPart] = PartTable(FirstPart, Blocks)
        /\ disk[FirstPart + 1] = SuperBlock(Declared)
    BY DEF RoomInv, AnyInv, Heads
  <1>2. /\ Fits(Declared, Blocks) /\ Blocks \in Nat /\ FirstPart \in Nat
        /\ Declared.s_firstdatazone \in Nat /\ Declared.s_firstdatazone + 2 <= Blocks
        /\ Table \in Nat /\ Table >= 4 /\ Table < Declared.s_firstdatazone
        /\ Table = 2 + Declared.s_imap_blocks + Declared.s_zmap_blocks
        /\ Declared.s_imap_blocks \in Nat \ {0} /\ Declared.s_zmap_blocks \in Nat \ {0}
        /\ FirstPart + Blocks <= size /\ size \in Nat
    BY Numbers
  <1>3. /\ Declared \in SuperType /\ Declared.s_ninodes >= 1
        /\ Declared.s_firstdatazone + Declared.s_nzones = Blocks
    BY <1>2 DEF Fits
  <1>4. Declared.s_ninodes \in Nat /\ Declared.s_nzones \in Nat
    BY <1>3, Fields DEF SuperType, Field
  <1>5. Declared.s_nzones = Blocks - Declared.s_firstdatazone
    BY <1>2, <1>3, <1>4
  <1>6. Blocks < MAX_LOG_ZONE_AMOUNT
    BY Sized DEF RoomInv, AnyInv, Blocks
  <1>7. /\ Declared.s_firstdatazone >= 4
        /\ 3 + Declared.s_imap_blocks + Declared.s_zmap_blocks <= Declared.s_firstdatazone
    BY <1>2
  <1> QED
    BY <1>1, <1>2, <1>3, <1>4, <1>5, <1>6, <1>7

(* mount_root reads from a disk of any size what the format wrote. *)
LEMMA OnlyRoomMounts ==
  ASSUME AnyInv, Has(FirstPart), disk[FirstPart].is = "partition_table",
         NEW p, p.start = disk[FirstPart].start, p.blocks = disk[FirstPart].blocks,
         InRange(1, p), Has(p.start + 1), Block(p, 1).is = "super_block",
         Readable(p, Block(p, 1).sb), step \in {"done", "stuck"}
  PROVE  HasRoom
  <1>1. disk[FirstPart] = PartTable(FirstPart, Blocks) /\ size \in Sizes
    BY DEF AnyInv, Contents, Has
  <1>2. p.start = FirstPart /\ p.blocks = Blocks
    BY <1>1, Kinds
  <1>3. Block(p, 1).sb = Declared
    <2>1. disk[FirstPart + 1] = SuperBlock(Declared)
      BY <1>2 DEF AnyInv, Contents, Has, Block
    <2> QED
      BY <1>2, <2>1, Kinds DEF Block
  <1>4. Blocks \in Int /\ Total(size) \in Int /\ TooLittle \in Nat /\ FirstPart \in Nat
    BY <1>1, Sized DEF Blocks
  <1>5. Blocks >= 3
    BY <1>2, <1>4 DEF InRange
  <1>6. Total(size) >= TooLittle
    BY DEF AnyInv
  <1>7. ASSUME Blocks <= 6 PROVE FALSE
    <2>1. Blocks \in 3 .. 6
      BY <1>4, <1>5, <1>7
    <2>2. Declared.s_imap_blocks = 1 /\ Declared.s_zmap_blocks = 1
      BY <2>1, SmallSuper DEF Declared
    <2>3. Declared.s_firstdatazone \in Nat
      BY <1>4, SuperTyped DEF Declared, SuperType, Field
    <2>4. 5 \in 1 .. Max({Declared.s_firstdatazone, 3 + Declared.s_imap_blocks + Declared.s_zmap_blocks})
      BY <2>2, <2>3, MaxOfTwo
    <2>5. InRange(5, p)
      BY <1>3, <2>4 DEF Readable
    <2> QED
      BY <1>2, <1>4, <1>7, <2>5 DEF InRange
  <1> QED
    BY <1>4, <1>6, <1>7 DEF HasRoom, Blocks

(* The marks of the format stay what they were when nothing is written. *)
LEMMA BitsStand ==
  ASSUME UNCHANGED formatVars, mount' = mount, part' = part, super' = super
  PROVE  FormattedBits' = FormattedBits
  <1>1. disk' = disk
    BY DEF formatVars
  <1> QED
    BY <1>1 DEF FormattedBits, Mounted, MapsOf, Block

(* The counting loops stray when the zones fill their bitmap, and only then. *)
LEMMA StraysOnce ==
  ASSUME NEW s, NEW n \in Nat, Fits(s, n), Strays(s)
  PROVE  s.s_nzones = s.s_zmap_blocks * MapBits
  <1> USE MinixAssumption
  <1>1. MapBits \in Nat \ {0}
    OBVIOUS
  <1>2. /\ s.s_nzones \in Nat /\ s.s_zmap_blocks \in Nat /\ s.s_ninodes \in Nat /\ s.s_imap_blocks \in Nat
        /\ s.s_ninodes < MapBits * s.s_imap_blocks /\ s.s_nzones <= MapBits * s.s_zmap_blocks
    BY Fields DEF Fits, SuperType, Field
  <1>3. ASSUME NEW i \in Nat, NEW k \in Nat, i \div MapBits >= k PROVE i >= MapBits * k
    <2>1. i \div MapBits \in Nat /\ MapBits * (i \div MapBits) <= i
      BY <1>1, Division
    <2>2. MapBits * (i \div MapBits) >= MapBits * k
      BY <1>1, <1>3, <2>1
    <2>3. MapBits * k \in Nat
      BY <1>1
    <2>4. PICK d \in Nat : d = MapBits * (i \div MapBits)
      BY <1>1, <2>1
    <2> QED
      BY <2>1, <2>2, <2>3, <2>4
  <1>4. ~ \E i \in 1 .. s.s_ninodes : i \div MapBits >= s.s_imap_blocks
    <2> SUFFICES ASSUME NEW i \in 1 .. s.s_ninodes, i \div MapBits >= s.s_imap_blocks PROVE FALSE
      OBVIOUS
    <2>1. i \in Nat /\ i <= s.s_ninodes
      BY <1>2
    <2>2. i >= MapBits * s.s_imap_blocks
      BY <1>2, <1>3, <2>1
    <2>3. MapBits * s.s_imap_blocks \in Nat
      BY <1>1, <1>2
    <2> QED
      BY <1>2, <2>1, <2>2, <2>3
  <1>5. PICK i \in 1 .. s.s_nzones : i \div MapBits >= s.s_zmap_blocks
    BY <1>4 DEF Strays
  <1>6. i \in Nat /\ i <= s.s_nzones /\ i >= MapBits * s.s_zmap_blocks
    BY <1>2, <1>3, <1>5
  <1>7. MapBits * s.s_zmap_blocks \in Nat /\ MapBits * s.s_zmap_blocks = s.s_zmap_blocks * MapBits
    BY <1>1, <1>2
  <1> QED
    BY <1>2, <1>6, <1>7

(* The machine is started from a disk with room. *)
LEMMA RoomStarts ==
  ASSUME RoomInv, step = "done", Start,
         NEW p, p = [start |-> FirstPart, blocks |-> Blocks],
         NEW maps, maps = MapsOf(p, Declared)
  PROVE  /\ part' = p /\ mount' = (IF Strays(Declared) THEN "strayed" ELSE "mounted")
         /\ super' = Declared
         /\ imap' = maps.imap \union {0, 1} /\ zmap' = maps.zmap \union {0, 1}
         /\ zones' = {Declared.s_firstdatazone} /\ inodes' = {1}
  <1>1. p.start = FirstPart /\ p.blocks = Blocks
    OBVIOUS
  <1>2. /\ disk[FirstPart].is = "partition_table"
        /\ disk[FirstPart].start = FirstPart /\ disk[FirstPart].blocks = Blocks
    <2>1. disk[FirstPart] = PartTable(FirstPart, Blocks)
      BY MountedNumbers
    <2> QED
      BY <2>1 DEF PartTable
  <1>3. Block(p, 1).is = "super_block" /\ Block(p, 1).sb = Declared
    BY <1>1, MountedNumbers DEF Block, SuperBlock
  <1>4. PICK z \in Nat : z = Declared.s_firstdatazone
    BY MountedNumbers
  <1>5. Blocks \in Nat /\ z + 2 <= Blocks /\ z >= 4 /\ FirstPart \in Nat /\ FirstPart + Blocks <= size
        /\ size \in Nat /\ DOMAIN disk = 0 .. size - 1
    BY <1>4, MountedNumbers
  <1>6. \A b \in 0 .. z : 2 * b + 2 < 2 * Blocks /\ FirstPart + b \in DOMAIN disk
    BY <1>5
  <1>7. Max({Declared.s_firstdatazone, 3 + Declared.s_imap_blocks + Declared.s_zmap_blocks}) = z
    <2>1. PICK m : m = 3 + Declared.s_imap_blocks + Declared.s_zmap_blocks
      OBVIOUS
    <2>2. PICK x \in Nat, y \in Nat : x = Declared.s_imap_blocks /\ y = Declared.s_zmap_blocks
      BY MountedNumbers
    <2>3. m \in Nat
      BY <2>1, <2>2
    <2>4. m <= z
      BY <1>4, <2>1, MountedNumbers
    <2> QED
      BY <1>4, <2>1, <2>3, <2>4, MaxOfTwo
  <1>8. Readable(p, Declared)
    BY <1>1, <1>6, <1>7 DEF Readable, InRange, Has
  <1>9. InRange(1, p) /\ Has(p.start + 1) /\ Has(FirstPart)
    <2>1. FirstPart + 0 = FirstPart /\ 0 \in 0 .. z /\ 1 \in 0 .. z
      BY <1>5
    <2> QED
      BY <1>1, <1>6, <2>1 DEF InRange, Has
  <1> QED
    BY <1>2, <1>3, <1>8, <1>9 DEF Start

(* The machine is started. *)
LEMMA StartKeeps == VInv /\ Start => VInv'
  <1> SUFFICES ASSUME VInv, Start PROVE VInv'
    OBVIOUS
  <1>1. /\ step \in {"done", "stuck"} /\ mount = "off" /\ UNCHANGED formatVars /\ frees' = frees
        /\ frees \in Nat /\ FormatInv
    BY DEF Start, VInv, MountInv
  <1>2. FormatInv'
    BY <1>1, FormatStands
  <1>3. step' = step /\ disk' = disk /\ Blocks' = Blocks /\ Declared' = Declared
        /\ (HasRoom' <=> HasRoom)
    BY <1>1, Still DEF formatVars
  <1>4. CASE ~HasRoom
    <2>1. mount' = "panic" /\ UNCHANGED mapVars
      BY <1>1, <1>4, OnlyRoomMounts DEF Start, FormatInv
    <2>2. zones' = {} /\ inodes' = {} /\ super' = NoSuper
      BY <1>1, <2>1 DEF VInv, MountInv, Mounted, mapVars
    <2>3. MountInv'
      BY <1>1, <1>3, <1>4, <2>1, <2>2 DEF MountInv, Mounted, NoSuper
    <2>4. BitsAreOwners'
      BY <2>1 DEF BitsAreOwners, Mounted
    <2> QED
      BY <1>2, <2>3, <2>4 DEF VInv
  <1>5. CASE HasRoom
    <2>1. RoomInv /\ step = "done"
      BY <1>1, <1>5 DEF FormatInv, RoomInv, Heads
    <2>2. PICK p : p = [start |-> FirstPart, blocks |-> Blocks]
      OBVIOUS
    <2>3. PICK maps : maps = MapsOf(p, Declared)
      OBVIOUS
    <2>4. /\ part' = p /\ mount' = (IF Strays(Declared) THEN "strayed" ELSE "mounted")
          /\ super' = Declared
          /\ imap' = maps.imap \union {0, 1} /\ zmap' = maps.zmap \union {0, 1}
          /\ zones' = {Declared.s_firstdatazone} /\ inodes' = {1}
      BY <2>1, <2>2, <2>3, RoomStarts
    <2>5. MountInv'
      <3>1. inodes' \subseteq 1 .. super'.s_ninodes
        BY <2>1, <2>4, MountedNumbers
      <3>2. zones' \subseteq super'.s_firstdatazone .. Blocks' - 2
        <4>1. PICK z \in Nat : z = Declared.s_firstdatazone
          BY <2>1, MountedNumbers
        <4>2. Blocks \in Nat /\ z + 2 <= Blocks
          BY <2>1, <4>1, MountedNumbers
        <4>3. {z} \subseteq z .. Blocks - 2
          BY <4>2
        <4> QED
          BY <1>3, <2>4, <4>1, <4>3
      <3>3. mount' = "strayed" => super'.s_nzones = super'.s_zmap_blocks * MapBits
        BY <2>1, <2>4, MountedNumbers, StraysOnce
      <3> QED
        BY <1>1, <1>3, <1>5, <2>1, <2>2, <2>4, <3>1, <3>2, <3>3 DEF MountInv, Mounted
    <2>6. FormattedBits' = maps
      BY <1>3, <2>3, <2>4 DEF FormattedBits, Mounted, MapsOf, Block
    <2>7. BitsAreOwners'
      <3>1. PICK z \in Nat : z = Declared.s_firstdatazone /\ FirstZone' = z - 1 /\ zones' = {z}
        BY <2>1, <2>4, MountedNumbers DEF FirstZone
      <3>2. ASSUME NEW n \in Int
            PROVE  /\ n + FirstZone' \in zones' => n \in zmap'
                   /\ n \in zmap' /\ n >= 1 => n + FirstZone' \in zones' \/ n \in maps.zmap
        BY <2>4, <3>1
      <3>3. ASSUME NEW n \in Int
            PROVE  /\ n \in inodes' => n \in imap'
                   /\ n \in imap' /\ n >= 1 => n \in inodes' \/ n \in maps.imap
        BY <2>4
      <3> QED
        BY <2>6, <3>2, <3>3 DEF BitsAreOwners
    <2> QED
      BY <1>2, <2>5, <2>7 DEF VInv
  <1> QED
    BY <1>4, <1>5

(* What a step of the bitmaps has to show. *)
LEMMA MapStep ==
  ASSUME VInv, Mounted, UNCHANGED <<formatVars, mount, part, super>>, frees' \in Nat,
         0 \in imap', 0 \in zmap', inodes' \subseteq 1 .. super.s_ninodes,
         zones' \subseteq super.s_firstdatazone .. Blocks - 2,
         \A n \in 1 .. super.s_nzones - 1 - FirstZone :
           /\ n + FirstZone \in zones' => n \in zmap'
           /\ n \in zmap' => n + FirstZone \in zones' \/ n \in FormattedBits.zmap,
         \A n \in 1 .. super.s_ninodes :
           /\ n \in inodes' => n \in imap'
           /\ n \in imap' => n \in inodes' \/ n \in FormattedBits.imap
  PROVE  VInv'
  <1>1. FormatInv'
    BY FormatStands DEF VInv
  <1>2. /\ size' = size /\ step' = step /\ mount' = mount /\ part' = part /\ super' = super
        /\ Blocks' = Blocks /\ Declared' = Declared /\ FirstZone' = FirstZone
    BY DEF formatVars, Blocks, Declared, FirstZone
  <1>3. FormattedBits' = FormattedBits
    BY <1>2, BitsStand
  <1>4. MountInv'
    BY <1>2, Still DEF VInv, MountInv, Mounted
  <1>5. BitsAreOwners'
    BY <1>2, <1>3 DEF BitsAreOwners
  <1> QED
    BY <1>1, <1>4, <1>5 DEF VInv

(* The mounted file system as it is known before a step. *)
LEMMA MountedFacts ==
  ASSUME VInv, Mounted
  PROVE  /\ RoomInv /\ step = "done" /\ super = Declared /\ frees \in Nat
         /\ part = [start |-> FirstPart, blocks |-> Blocks]
         /\ 0 \in imap /\ 0 \in zmap /\ inodes \subseteq 1 .. super.s_ninodes
         /\ zones \subseteq super.s_firstdatazone .. Blocks - 2
         /\ Blocks \in Nat
         /\ super.s_firstdatazone \in Nat /\ super.s_firstdatazone >= 4
         /\ super.s_firstdatazone + 2 <= Blocks
         /\ super.s_nzones = Blocks - super.s_firstdatazone
         /\ super.s_ninodes \in Nat /\ super.s_imap_blocks \in Nat /\ super.s_zmap_blocks \in Nat
         /\ FirstZone = super.s_firstdatazone - 1
         /\ \A n \in 1 .. super.s_nzones - 1 - FirstZone :
              /\ n + FirstZone \in zones => n \in zmap
              /\ n \in zmap => n + FirstZone \in zones \/ n \in FormattedBits.zmap
         /\ \A n \in 1 .. super.s_ninodes :
              /\ n \in inodes => n \in imap
              /\ n \in imap => n \in inodes \/ n \in FormattedBits.imap
  <1>1. /\ RoomInv /\ step = "done" /\ super = Declared /\ frees \in Nat
        /\ part = [start |-> FirstPart, blocks |-> Blocks]
        /\ 0 \in imap /\ 0 \in zmap /\ inodes \subseteq 1 .. super.s_ninodes
        /\ zones \subseteq super.s_firstdatazone .. Blocks - 2
    BY DEF VInv, FormatInv, MountInv
  <1>2. /\ Blocks \in Nat
        /\ super.s_firstdatazone \in Nat /\ super.s_firstdatazone >= 4
        /\ super.s_firstdatazone + 2 <= Blocks
        /\ super.s_nzones = Blocks - super.s_firstdatazone
        /\ super.s_ninodes \in Nat /\ super.s_imap_blocks \in Nat /\ super.s_zmap_blocks \in Nat
    BY <1>1, MountedNumbers
  <1>3. /\ \A n \in 1 .. super.s_nzones - 1 - FirstZone :
             /\ n + FirstZone \in zones => n \in zmap
             /\ n \in zmap => n + FirstZone \in zones \/ n \in FormattedBits.zmap
        /\ \A n \in 1 .. super.s_ninodes :
             /\ n \in inodes => n \in imap
             /\ n \in imap => n \in inodes \/ n \in FormattedBits.imap
    BY DEF VInv, BitsAreOwners
  <1> QED
    BY <1>1, <1>2, <1>3 DEF FirstZone

(* The bit that find_first_zero finds. *)
LEMMA ClearBit ==
  ASSUME NEW map, NEW blocks \in Nat, Clear(map, blocks) # {}
  PROVE  Min(Clear(map, blocks)) \in Nat /\ Min(Clear(map, blocks)) \notin map
  <1>1. blocks * MapBits - 1 \in Int
    BY MinixAssumption
  <1>2. Clear(map, blocks) \in SUBSET Nat
    BY <1>1 DEF Clear
  <1>3. Min(Clear(map, blocks)) \in Clear(map, blocks)
    BY <1>2, LeastBit
  <1> QED
    BY <1>2, <1>3 DEF Clear

(* A zone is taken. *)
LEMMA NewBlockKeeps ==
  ASSUME VInv, Mounted, NewBlock, UNCHANGED <<formatVars, mount, part, frees>>
  PROVE  VInv'
  <1>1. PICK bit \in Nat : bit = Min(Clear(zmap, super.s_zmap_blocks)) /\ bit \notin zmap
    BY MountedFacts, ClearBit DEF NewBlock
  <1>2. PICK d \in Nat : d = super.s_firstdatazone
    BY MountedFacts
  <1>3. PICK b \in Nat : b = Blocks
    BY MountedFacts
  <1>4. /\ FirstZone = d - 1 /\ super.s_nzones = b - d /\ d >= 4 /\ d + 2 <= b
        /\ 0 \in zmap /\ 0 \in imap /\ inodes \subseteq 1 .. super.s_ninodes /\ frees \in Nat
        /\ zones \subseteq d .. b - 2
        /\ \A n \in 1 .. b - d - 1 - (d - 1) :
             /\ n + (d - 1) \in zones => n \in zmap
             /\ n \in zmap => n + (d - 1) \in zones \/ n \in FormattedBits.zmap
    BY <1>2, <1>3, MountedFacts
  <1>5. /\ zmap' = zmap \union {bit}
        /\ zones' = (IF bit + (d - 1) >= b - d THEN zones ELSE zones \union {bit + (d - 1)})
        /\ super' = super /\ imap' = imap /\ inodes' = inodes
    BY <1>1, <1>4 DEF NewBlock
  <1>6. bit # 0
    BY <1>1, <1>4
  <1>7. zones' \subseteq d .. b - 2
    BY <1>4, <1>5, <1>6
  <1>8. ASSUME NEW n \in 1 .. b - d - 1 - (d - 1)
        PROVE  /\ n + (d - 1) \in zones' => n \in zmap'
               /\ n \in zmap' => n + (d - 1) \in zones' \/ n \in FormattedBits.zmap
    <2>1. n \in Int /\ n + (d - 1) < b - d /\ (n + (d - 1) = bit + (d - 1) <=> n = bit)
      OBVIOUS
    <2> QED
      BY <1>4, <1>5, <2>1
  <1>9. \A n \in 1 .. super.s_nzones - 1 - FirstZone :
          /\ n + FirstZone \in zones' => n \in zmap'
          /\ n \in zmap' => n + FirstZone \in zones' \/ n \in FormattedBits.zmap
    BY <1>4, <1>8
  <1>10. \A n \in 1 .. super.s_ninodes :
           /\ n \in inodes' => n \in imap'
           /\ n \in imap' => n \in inodes' \/ n \in FormattedBits.imap
    BY <1>5, MountedFacts
  <1> QED
    BY <1>2, <1>3, <1>4, <1>5, <1>7, <1>9, <1>10, MapStep

(* An inode is taken. *)
LEMMA NewInodeKeeps ==
  ASSUME VInv, Mounted, NewInode, UNCHANGED <<formatVars, mount, part, frees>>
  PROVE  VInv'
  <1>1. PICK bit \in Nat : bit = Min(Clear(imap, super.s_imap_blocks)) /\ bit \notin imap
    BY MountedFacts, ClearBit DEF NewInode
  <1>2. PICK k \in Nat : k = super.s_ninodes
    BY MountedFacts
  <1>3. /\ 0 \in zmap /\ 0 \in imap /\ inodes \subseteq 1 .. k /\ frees \in Nat
        /\ zones \subseteq super.s_firstdatazone .. Blocks - 2
        /\ \A n \in 1 .. k :
             /\ n \in inodes => n \in imap
             /\ n \in imap => n \in inodes \/ n \in FormattedBits.imap
    BY <1>2, MountedFacts
  <1>4. /\ bit <= k /\ imap' = imap \union {bit} /\ inodes' = inodes \union {bit}
        /\ super' = super /\ zmap' = zmap /\ zones' = zones
    BY <1>1, <1>2 DEF NewInode
  <1>5. bit # 0
    BY <1>1, <1>3
  <1>6. inodes' \subseteq 1 .. k
    BY <1>3, <1>4, <1>5
  <1>7. \A n \in 1 .. super.s_ninodes :
          /\ n \in inodes' => n \in imap'
          /\ n \in imap' => n \in inodes' \/ n \in FormattedBits.imap
    BY <1>2, <1>3, <1>4
  <1>8. \A n \in 1 .. super.s_nzones - 1 - FirstZone :
          /\ n + FirstZone \in zones' => n \in zmap'
          /\ n \in zmap' => n + FirstZone \in zones' \/ n \in FormattedBits.zmap
    BY <1>4, MountedFacts
  <1> QED
    BY <1>2, <1>3, <1>4, <1>6, <1>7, <1>8, MapStep

(* A zone is freed. *)
LEMMA FreeBlockKeeps ==
  ASSUME VInv, Mounted, NEW z \in zones, FreeBlock(z), frees' = frees + 1,
         UNCHANGED <<formatVars, mount, part>>
  PROVE  VInv'
  <1>1. PICK d \in Nat : d = super.s_firstdatazone
    BY MountedFacts
  <1>2. PICK b \in Nat : b = Blocks
    BY MountedFacts
  <1>3. /\ FirstZone = d - 1 /\ super.s_nzones = b - d
        /\ 0 \in zmap /\ 0 \in imap /\ inodes \subseteq 1 .. super.s_ninodes /\ frees \in Nat
        /\ zones \subseteq d .. b - 2
        /\ \A n \in 1 .. b - d - 1 - (d - 1) :
             /\ n + (d - 1) \in zones => n \in zmap
             /\ n \in zmap => n + (d - 1) \in zones \/ n \in FormattedBits.zmap
    BY <1>1, <1>2, MountedFacts
  <1>4. /\ \/ zmap' = zmap /\ zones' = zones
           \/ zmap' = zmap \ {z - (d - 1)} /\ zones' = zones \ {z}
        /\ super' = super /\ imap' = imap /\ inodes' = inodes
    BY <1>3 DEF FreeBlock
  <1>5. z \in Int /\ z >= d
    BY <1>3
  <1>6. zones' \subseteq d .. b - 2 /\ 0 \in zmap' /\ frees' \in Nat
    <2>1. z - (d - 1) # 0
      BY <1>5
    <2>2. zones' \subseteq d .. b - 2
      BY <1>3, <1>4
    <2>3. 0 \in zmap'
      <3>1. 0 \in zmap
        BY <1>3
      <3> QED
        BY <1>4, <2>1, <3>1
    <2>4. frees' \in Nat
      BY <1>3
    <2> QED
      BY <2>2, <2>3, <2>4
  <1>7. ASSUME NEW n \in 1 .. b - d - 1 - (d - 1)
        PROVE  /\ n + (d - 1) \in zones' => n \in zmap'
               /\ n \in zmap' => n + (d - 1) \in zones' \/ n \in FormattedBits.zmap
    <2>1. n + (d - 1) = z <=> n = z - (d - 1)
      BY <1>5
    <2>2. /\ n + (d - 1) \in zones => n \in zmap
          /\ n \in zmap => n + (d - 1) \in zones \/ n \in FormattedBits.zmap
      BY <1>3
    <2>3. CASE zmap' = zmap /\ zones' = zones
      BY <2>2, <2>3
    <2>4. CASE zmap' = zmap \ {z - (d - 1)} /\ zones' = zones \ {z}
      BY <2>1, <2>2, <2>4
    <2> QED
      BY <1>4, <2>3, <2>4
  <1>8. \A n \in 1 .. super.s_nzones - 1 - FirstZone :
          /\ n + FirstZone \in zones' => n \in zmap'
          /\ n \in zmap' => n + FirstZone \in zones' \/ n \in FormattedBits.zmap
    BY <1>3, <1>7
  <1>9. \A n \in 1 .. super.s_ninodes :
          /\ n \in inodes' => n \in imap'
          /\ n \in imap' => n \in inodes' \/ n \in FormattedBits.imap
    BY <1>4, MountedFacts
  <1> QED
    BY <1>1, <1>2, <1>3, <1>4, <1>6, <1>8, <1>9, MapStep

(* An inode is freed. *)
LEMMA FreeInodeKeeps ==
  ASSUME VInv, Mounted, NEW i \in inodes, FreeInode(i), frees' = frees + 1,
         UNCHANGED <<formatVars, mount, part>>
  PROVE  VInv'
  <1>1. /\ 0 \in zmap /\ 0 \in imap /\ inodes \subseteq 1 .. super.s_ninodes /\ frees \in Nat
        /\ super.s_ninodes \in Nat
        /\ zones \subseteq super.s_firstdatazone .. Blocks - 2
        /\ \A n \in 1 .. super.s_ninodes :
             /\ n \in inodes => n \in imap
             /\ n \in imap => n \in inodes \/ n \in FormattedBits.imap
    BY MountedFacts
  <1>2. /\ imap' = imap \ {i} /\ inodes' = inodes \ {i}
        /\ super' = super /\ zmap' = zmap /\ zones' = zones
    BY DEF FreeInode
  <1>3. 0 \in imap' /\ inodes' \subseteq 1 .. super.s_ninodes /\ frees' \in Nat
    BY <1>1, <1>2
  <1>4. \A n \in 1 .. super.s_ninodes :
          /\ n \in inodes' => n \in imap'
          /\ n \in imap' => n \in inodes' \/ n \in FormattedBits.imap
    BY <1>1, <1>2
  <1>5. \A n \in 1 .. super.s_nzones - 1 - FirstZone :
          /\ n + FirstZone \in zones' => n \in zmap'
          /\ n \in zmap' => n + FirstZone \in zones' \/ n \in FormattedBits.zmap
    BY <1>2, MountedFacts
  <1> QED
    BY <1>1, <1>2, <1>3, <1>4, <1>5, MapStep

(* Every step. *)
LEMMA NextKeeps == VInv /\ [Next]_vars => VInv'
  <1> SUFFICES ASSUME VInv, [Next]_vars PROVE VInv'
    OBVIOUS
  <1>1. CASE Formatting
    BY <1>1, FormattingKeeps
  <1>2. CASE Start
    BY <1>2, StartKeeps
  <1>3. CASE Take
    BY <1>3, NewBlockKeeps, NewInodeKeeps DEF Take
  <1>4. CASE Free
    BY <1>4, FreeBlockKeeps, FreeInodeKeeps DEF Free
  <1>5. CASE UNCHANGED vars
    <2>1. FormatInv'
      BY <1>5, FormatStands DEF VInv, vars
    <2>2. /\ UNCHANGED formatVars /\ mount' = mount /\ part' = part /\ super' = super
          /\ frees' = frees /\ zones' = zones /\ inodes' = inodes /\ imap' = imap /\ zmap' = zmap
      BY <1>5 DEF vars, mapVars
    <2>3. step' = step /\ Blocks' = Blocks /\ Declared' = Declared /\ FirstZone' = FirstZone
      BY <2>2 DEF formatVars, Blocks, Declared, FirstZone
    <2>4. FormattedBits' = FormattedBits
      BY <2>2, BitsStand
    <2>5. MountInv'
      BY <2>2, <2>3, Still DEF VInv, MountInv, Mounted, NoSuper, formatVars
    <2>6. BitsAreOwners'
      BY <2>2, <2>3, <2>4 DEF VInv, BitsAreOwners, Mounted
    <2> QED
      BY <2>1, <2>5, <2>6 DEF VInv
  <1> QED
    BY <1>1, <1>2, <1>3, <1>4, <1>5 DEF Next
-----------------------------------------------------------------------------
(* The theorems. *)

(* The invariant holds in every state of the format, the start and the use of *)
(* the disk.                                                                  *)
THEOREM SpecVInv == Spec => []VInv
  <1>1. Init => VInv
    BY InitVInv
  <1>2. VInv /\ [Next]_vars => VInv'
    BY NextKeeps
  <1> QED
    BY <1>1, <1>2, PTL DEF Spec

(* Every number of the super block fits its field, on a disk of any size,    *)
(* and the bitmaps of a mounted file system their slots (api01.c:654-708).   *)
THEOREM SpecTypeOK == Spec => []TypeOK
  <1>1. VInv => TypeOK
    <2> SUFFICES ASSUME VInv PROVE TypeOK
      OBVIOUS
    <2>1. AnyInv /\ MountInv
      BY DEF VInv, FormatInv
    <2>2. /\ step \in Steps /\ mount \in {"off", "mounted", "strayed", "panic"}
          /\ DOMAIN disk = 0 .. size - 1 /\ at \in Nat /\ j \in Nat /\ frees \in Nat
          /\ sb \in SuperType
      BY <2>1 DEF AnyInv, MountInv
    <2>3. MAX_LOG_ZONE_AMOUNT \in Nat /\ MAX_LOG_ZONE_AMOUNT >= 1 /\ MapSlots \in Nat
      BY MinixAssumption, Fields
    <2>4. /\ super \in SuperType /\ zones \subseteq Field /\ inodes \subseteq Field
          /\ super.s_imap_blocks <= MapSlots /\ super.s_zmap_blocks <= MapSlots
      <3>1. CASE ~Mounted
        <4>1. super = NoSuper /\ zones = {} /\ inodes = {}
          BY <2>1, <3>1 DEF MountInv
        <4> QED
          BY <2>3, <4>1 DEF NoSuper, SuperType, Field
      <3>2. CASE Mounted
        <4>1. /\ super = Declared /\ Declared \in SuperType /\ Fits(Declared, Blocks)
              /\ inodes \subseteq 1 .. super.s_ninodes
              /\ zones \subseteq super.s_firstdatazone .. Blocks - 2
              /\ super.s_firstdatazone \in Nat /\ Blocks \in Nat /\ Blocks < MAX_LOG_ZONE_AMOUNT
          BY <3>2, MountedFacts, MountedNumbers
        <4>2. super.s_ninodes \in Field
          BY <4>1 DEF SuperType
        <4>3. inodes \subseteq Field
          BY <2>3, <4>1, <4>2 DEF Field
        <4>4. zones \subseteq Field
          BY <2>3, <4>1 DEF Field
        <4> QED
          BY <4>1, <4>3, <4>4 DEF Fits
      <3> QED
        BY <3>1, <3>2
    <2> QED
      BY <2>2, <2>4 DEF TypeOK
  <1> QED
    BY <1>1, SpecVInv, PTL

(* The format of a disk with room stays on the disk, and each section ends   *)
(* up where the super block says it is: sector_num_lba, which the loops of   *)
(* sys_format_hd move on, was right.                                         *)
THEOREM SpecSectionsAsDeclared == Spec => []SectionsAsDeclared
  <1>1. VInv => SectionsAsDeclared
    <2> SUFFICES ASSUME VInv, HasRoom PROVE SectionsAsDeclared
      BY DEF SectionsAsDeclared
    <2>1. RoomInv
      BY DEF VInv, FormatInv
    <2>2. /\ Fits(Declared, Blocks) /\ Table \in Nat /\ Table < Declared.s_firstdatazone
          /\ Table = 2 + Declared.s_imap_blocks + Declared.s_zmap_blocks /\ Table >= 4
          /\ Declared.s_firstdatazone \in Nat /\ Blocks \in Nat /\ Blocks >= 7
          /\ Declared.s_firstdatazone + 2 <= Blocks
          /\ Declared.s_imap_blocks \in Nat \ {0} /\ Declared.s_zmap_blocks \in Nat \ {0}
          /\ FirstPart \in Nat \ {0} /\ size \in Nat /\ FirstPart + Blocks <= size
      BY <2>1, Numbers
    <2>3. /\ step # "stuck" /\ DOMAIN disk = 0 .. size - 1 /\ Contents
          /\ \A b \in 1 .. size - 1 : b < FirstPart \/ b >= FirstPart + Blocks => disk[b] = Old
      BY <2>1 DEF RoomInv, AnyInv, Heads
    <2>4. Transferred \subseteq DOMAIN disk
      <3>1. CASE step = "boot"
        <4>1. at = FirstPart
          BY <2>1, <3>1 DEF RoomInv, Heads
        <4> QED
          BY <2>2, <2>3, <3>1, <4>1 DEF Transferred
      <3>2. CASE step \in {"super", "imap", "zmap", "inodes"}
        <4>1. PICK i \in Nat, z \in Nat : i = Declared.s_imap_blocks /\ z = Declared.s_zmap_blocks
          BY <2>2
        <4>2. \E b \in 1 .. Table : at = FirstPart + b
          <5>1. CASE step = "super"
            <6>1. at = FirstPart + 1
              BY <2>1, <5>1 DEF RoomInv, Heads
            <6> QED
              BY <2>2, <6>1
          <5>2. CASE step = "imap"
            <6>1. j \in Nat /\ j < i /\ at = FirstPart + 2 + j
              BY <2>1, <4>1, <5>2 DEF RoomInv, AnyInv, Loops
            <6>2. 2 + j \in 1 .. 2 + i + z /\ at = FirstPart + (2 + j)
              BY <2>2, <6>1
            <6> QED
              BY <2>2, <4>1, <6>2
          <5>3. CASE step = "zmap"
            <6>1. j \in Nat /\ j < z /\ at = FirstPart + 2 + i + j
              BY <2>1, <4>1, <5>3 DEF RoomInv, AnyInv, Loops
            <6>2. 2 + i + j \in 1 .. 2 + i + z /\ at = FirstPart + (2 + i + j)
              BY <2>2, <6>1
            <6> QED
              BY <2>2, <4>1, <6>2
          <5>4. CASE step = "inodes"
            <6>1. at = FirstPart + Table
              BY <2>1, <5>4 DEF RoomInv, Loops
            <6> QED
              BY <2>2, <6>1
          <5> QED
            BY <3>2, <5>1, <5>2, <5>3, <5>4
        <4>3. at \in 0 .. size - 1
          BY <2>2, <4>2
        <4>4. Transferred = {at}
          BY <3>2 DEF Transferred
        <4> QED
          BY <2>3, <4>3, <4>4
      <3>3. CASE step \in {"root", "dir"}
        <4>1. Has(FirstPart + 1) /\ Has(InodeTable) /\ Has(RootZone)
          BY <2>1, <3>3, RootReads
        <4> QED
          BY <3>3, <4>1 DEF Transferred, Has
      <3>4. CASE step \notin {"boot", "super", "imap", "zmap", "inodes", "root", "dir"}
        BY <3>4 DEF Transferred
      <3> QED
        BY <3>1, <3>2, <3>3, <3>4
    <2>5. ASSUME step = "done"
          PROVE  LET is(b) == disk[FirstPart + b].is
                     tables == 2 + sb.s_imap_blocks + sb.s_zmap_blocks
                 IN /\ is(0) = "partition_table" /\ is(1) = "super_block"
                    /\ \A b \in 2 .. tables - 1 : is(b) = "map"
                    /\ is(tables) = "inodes" /\ disk[FirstPart + tables].root = sb.s_firstdatazone
                    /\ \A b \in tables + 1 .. sb.s_firstdatazone - 1 : is(b) \in {"old", "inodes"}
                    /\ is(sb.s_firstdatazone) = "directory"
                    /\ \A b \in DOMAIN disk :
                         disk[b] # Old => b = 0 \/ b \in FirstPart .. FirstPart + sb.s_firstdatazone
                    /\ sb.s_firstdatazone + sb.s_nzones = PartBlocks(size)
                    /\ tables + InodeBlocks(sb.s_ninodes) = sb.s_firstdatazone
      <3>1. /\ sb = Declared
            /\ disk[FirstPart] = PartTable(FirstPart, Blocks)
            /\ disk[FirstPart + 1] = SuperBlock(Declared)
        BY <2>1, <2>5, MountedNumbers
      <3>2. /\ Declared.s_firstdatazone + Declared.s_nzones = Blocks
            /\ Table + InodeBlocks(Declared.s_ninodes) = Declared.s_firstdatazone
        BY <2>2 DEF Fits
      <3>3. /\ disk[FirstPart + Table] = Inodes(Declared.s_firstdatazone)
            /\ \A c \in 2 .. Table - 1 : Is(c) = "map"
            /\ Is(Declared.s_firstdatazone) = "directory"
            /\ \A c \in Table + 1 .. Blocks - 1 : c # Declared.s_firstdatazone => Is(c) = "old"
        BY <2>1, <2>5 DEF RoomInv, Loops
      <3>4. disk[FirstPart + 1].is = "super_block" /\ disk[FirstPart + 0].is = "partition_table"
        <4>1. FirstPart + 0 = FirstPart
          BY <2>2
        <4> QED
          BY <3>1, <4>1, Kinds
      <3>5. /\ disk[FirstPart + Table].is = "inodes"
            /\ disk[FirstPart + Table].root = Declared.s_firstdatazone
        BY <3>3 DEF Inodes
      <3>6. \A b \in Table + 1 .. Declared.s_firstdatazone - 1 : Is(b) = "old"
        BY <2>2, <3>3
      <3>7. ASSUME NEW b \in DOMAIN disk, disk[b] # Old, b # 0
            PROVE  b \in FirstPart .. FirstPart + Declared.s_firstdatazone
        <4>1. b \in 1 .. size - 1
          BY <2>2, <2>3, <3>7
        <4>2. PICK c \in 0 .. Blocks - 1 : b = FirstPart + c
          <5>1. ~(b < FirstPart \/ b >= FirstPart + Blocks)
            BY <2>3, <3>7, <4>1
          <5>2. b - FirstPart \in 0 .. Blocks - 1 /\ b = FirstPart + (b - FirstPart)
            BY <2>2, <4>1, <5>1
          <5> QED
            BY <5>2
        <4>3. Is(c) # "old"
          BY <2>3, <3>7, <4>2 DEF Is, Contents
        <4>4. c <= Declared.s_firstdatazone
          <5>1. ASSUME c > Declared.s_firstdatazone PROVE FALSE
            <6>1. c \in Table + 1 .. Blocks - 1 /\ c # Declared.s_firstdatazone
              BY <2>2, <5>1
            <6> QED
              BY <3>3, <4>3, <6>1
          <5> QED
            BY <2>2, <5>1
        <4> QED
          BY <2>2, <4>2, <4>4
      <3> QED
        BY <2>2, <3>1, <3>2, <3>3, <3>4, <3>5, <3>6, <3>7 DEF Is, Blocks
    <2> QED
      BY <2>3, <2>4, <2>5 DEF SectionsAsDeclared
  <1> QED
    BY <1>1, SpecVInv, PTL

(* mount_root does not panic after the format of a disk with room, and finds *)
(* the root's inode where the super block says; it takes no other disk; and  *)
(* its last loops leave the bitmap only for a zone that has no bit.          *)
THEOREM SpecRootMounts == Spec => []RootMounts
  <1>1. VInv => RootMounts
    <2> SUFFICES ASSUME VInv PROVE RootMounts
      OBVIOUS
    <2>1. /\ mount = "panic" => ~HasRoom
          /\ mount = "strayed" => super.s_nzones = super.s_zmap_blocks * MapBits
          /\ Mounted => HasRoom
      BY DEF VInv, MountInv
    <2>2. ASSUME Mounted
          PROVE  disk[part.start + 2 + super.s_imap_blocks + super.s_zmap_blocks]
                   = Inodes(super.s_firstdatazone)
      <3>1. /\ RoomInv /\ step = "done" /\ super = Declared
            /\ part = [start |-> FirstPart, blocks |-> Blocks]
        BY <2>2, MountedFacts
      <3>2. disk[FirstPart + Table] = Inodes(Declared.s_firstdatazone)
        BY <3>1 DEF RoomInv, Loops
      <3>3. /\ Table = 2 + Declared.s_imap_blocks + Declared.s_zmap_blocks /\ FirstPart \in Nat
            /\ Declared.s_imap_blocks \in Nat /\ Declared.s_zmap_blocks \in Nat
        BY <3>1, Numbers
      <3>4. FirstPart + 2 + Declared.s_imap_blocks + Declared.s_zmap_blocks = FirstPart + Table
        BY <3>3
      <3> QED
        BY <3>1, <3>2, <3>4
    <2> QED
      BY <2>1, <2>2 DEF RootMounts
  <1> QED
    BY <1>1, SpecVInv, PTL

(* A zone that is given out is one do_hd_request transfers, an inode has its *)
(* place in the table (hd.c:319; bitmap.c).                                  *)
THEOREM SpecUsedIsReachable == Spec => []UsedIsReachable
  <1>1. VInv => UsedIsReachable
    <2> SUFFICES ASSUME VInv PROVE UsedIsReachable
      OBVIOUS
    <2>1. CASE ~Mounted
      BY <2>1 DEF VInv, MountInv, Mounted, UsedIsReachable
    <2>2. CASE Mounted
      <3>1. /\ RoomInv /\ step = "done" /\ super = Declared
            /\ part = [start |-> FirstPart, blocks |-> Blocks]
            /\ inodes \subseteq 1 .. super.s_ninodes
            /\ zones \subseteq super.s_firstdatazone .. Blocks - 2
            /\ super.s_firstdatazone \in Nat /\ Blocks \in Nat
        BY <2>2, MountedFacts
      <3>2. part.blocks = Blocks
        BY <3>1
      <3>3. ASSUME NEW z \in zones PROVE z >= super.s_firstdatazone /\ InRange(z, part)
        <4>1. z \in Int /\ z >= super.s_firstdatazone /\ z <= Blocks - 2
          BY <3>1
        <4>2. 2 * z + 2 < 2 * Blocks
          BY <3>1, <4>1
        <4> QED
          BY <3>2, <4>1, <4>2 DEF InRange
      <3>4. /\ Fits(Declared, Blocks) /\ Declared.s_ninodes \in Nat \ {0}
            /\ Table = 2 + Declared.s_imap_blocks + Declared.s_zmap_blocks /\ Table \in Nat
            /\ Table + InodeBlocks(Declared.s_ninodes) = Declared.s_firstdatazone
        <4>1. /\ Fits(Declared, Blocks) /\ Declared.s_ninodes \in Nat \ {0}
              /\ Table = 2 + Declared.s_imap_blocks + Declared.s_zmap_blocks /\ Table \in Nat
          BY <3>1, MountedNumbers, Numbers
        <4> QED
          BY <4>1 DEF Fits
      <3>5. ASSUME NEW i \in inodes
            PROVE  i >= 1 /\ 2 + super.s_imap_blocks + super.s_zmap_blocks
                               + (i - 1) \div InodesPerBlock < super.s_firstdatazone
        <4>1. i \in 1 .. Declared.s_ninodes
          BY <3>1
        <4>2. PICK q : q = (i - 1) \div InodesPerBlock
          OBVIOUS
        <4>3. PICK t \in Nat : t = InodeBlocks(Declared.s_ninodes)
          BY <3>4, TableSize
        <4>4. q < t
          BY <3>4, <4>1, <4>2, <4>3, TableSize
        <4>5. q \in Nat
          <5>1. InodesPerBlock \in Nat \ {0}
            BY MinixAssumption
          <5>2. i - 1 \in Nat
            BY <3>4, <4>1
          <5> QED
            BY <4>2, <5>1, <5>2, Division
        <4>6. Table + q < Declared.s_firstdatazone
          BY <3>4, <4>3, <4>4, <4>5
        <4> QED
          BY <3>1, <3>4, <4>1, <4>2, <4>6
      <3> QED
        BY <3>3, <3>5 DEF UsedIsReachable
    <2> QED
      BY <2>1, <2>2
  <1> QED
    BY <1>1, SpecVInv, PTL

(* The bitmaps and the owners agree, so that nothing is given out twice and   *)
(* nothing is lost (bitmap.c: new_block, free_block, new_inode, free_inode).  *)
THEOREM SpecBitsAreOwners == Spec => []BitsAreOwners
  <1>1. VInv => BitsAreOwners
    BY DEF VInv
  <1> QED
    BY <1>1, SpecVInv, PTL
=============================================================================
