-------------------------- MODULE InodeCache_proofs --------------------------
(***************************************************************************)
(* The inodes in memory, the bitmap, the directory and the disk agree with *)
(* each other: for any number of tasks, slots, inodes, entries and names,  *)
(* when nobody removes a directory that another task may look up.          *)
(***************************************************************************)
EXTENDS InodeCacheProps, FiniteSetTheorems, TLAPS

(* Nobody removes a directory while another task looks one up or writes the *)
(* inodes out, and sync does not meet a directory without room.             *)
Peace(u) ==
  /\ \A t, v \in Tasks : t # v /\ "rmdir" \in u[t] => u[v] \subseteq {"mkdir"}
  /\ (\E t \in Tasks : "sync" \in u[t]) => NrInodes <= NrPlaces

Inode == [num : Numbers \union {0}, count : Nat, lock : BOOLEAN, dirt : BOOLEAN,
          links : 0 .. 2, dir : BOOLEAN]
Entered(n) == \E p \in Places : dir[p].nr = n

Lookup == {"iget", "search", "search_wait", "read", "got", "is_empty"}
Freeing == {"truncate", "free", "free_now"}
Locking(c) == c.pc \in {"read", "iput_disk", "sync_disk"}
Private(c) == \/ c.pc \in {"block", "fill", "add"} \union Freeing
              \/ /\ c.pc \in {"put_dir", "iput"}
                 /\ \/ c.op = "mkdir" /\ c.place = NoPlace
                    \/ c.op = "rmdir" /\ c.place # NoPlace
Unlinked(c) == c.pc \in {"iput"} \union Freeing \/ (c.pc = "put_dir" /\ c.op = "rmdir")
Shared(c) == c.slot # NoSlot /\ c.pc \notin Looking /\ ~Private(c)

Shape(t, c) ==
  /\ c \in Calls
  /\ c.asleep => c.pc \in Waiting
  /\ c.slot = NoSlot <=> c.pc \in {"user", "find", "new_inode", "iget", "search", "sync_next"}
  /\ c.empty # NoSlot <=> c.pc \in {"search", "search_wait"}
  /\ c.op = "none" <=> c.pc = "user"
  /\ c.op = "sync" <=> c.pc \in {"sync_next", "sync", "sync_disk"}
  /\ c.pc \in {"new_inode", "block", "fill", "add"} => c.op = "mkdir"
  /\ c.pc \in Lookup => c.op # "mkdir" /\ c.place # NoPlace /\ c.nr # 0
  /\ c.pc \in {"user", "find", "new_inode", "block", "fill", "add"} => c.place = NoPlace
  /\ c.pc = "is_empty" => c.op = "rmdir"
  /\ c.pc \in Freeing => c.op \in {"mkdir", "rmdir"}
  /\ c.op \in uses[t] \union {"none"}
  /\ c.pwd # NoSlot => "chdir" \in uses[t]
Shapes == call \in [Tasks -> Calls] /\ \A t \in Tasks : Shape(t, call[t])

NoOtherSync(t) == \A v \in Tasks : v # t => "sync" \notin uses[v]

(* what a task's inodes are *)
Pwd(t) == call[t].pwd # NoSlot => inode[call[t].pwd].num # 0 /\ Entered(inode[call[t].pwd].num)
Empty(t) ==
  call[t].empty # NoSlot => /\ inode[call[t].empty].num = 0 /\ inode[call[t].empty].count = 1
                            /\ inode[call[t].empty].links = 0
LooksUp(c, i) ==
  /\ c.pc \in Lookup => dir[c.place].nr = c.nr
  /\ c.pc \in {"read", "got", "is_empty"} => i.num = c.nr
  /\ c.pc = "is_empty" => i.count = 1
Locks(c, i) ==
  /\ Locking(c) => i.lock /\ i.num # 0
  /\ c.pc = "read" => i.count = 1 /\ i.links = 0
  /\ c.pc \in {"iput_disk", "sync_disk"} => i.dirt
Shares(c, i) == Shared(c) => i.num # 0 /\ Entered(i.num)
Owns(t, c, i) ==
  /\ Private(c) => i.num # 0 /\ ~Entered(i.num) /\ i.count = 1
  /\ c.pc \in {"block", "fill"} => ~i.dir
  /\ c.pc = "add" => i.links = 2 /\ i.dir
  /\ Private(c) /\ Unlinked(c) => i.links = 0
  /\ Private(c) /\ i.dir /\ c.pc # "add" => NoOtherSync(t)
  /\ c.pc \in {"truncate", "free"} => NoOtherSync(t)
  /\ c.pc \in Freeing => ~i.lock
  /\ c.pc = "free_now" => current = t
Fits(t, c, i) == LooksUp(c, i) /\ Locks(c, i) /\ Shares(c, i) /\ Owns(t, c, i)
TaskOK(t) == Pwd(t) /\ Empty(t) /\ Fits(t, call[t], Mine(t))

(* the inodes *)
SlotOK(s) ==
  /\ inode[s].num = 0 \/ inode[s].count = 0 => ~inode[s].dirt /\ ~inode[s].lock
  /\ inode[s].num # 0 => inode[s].num \in imap
  /\ inode[s].num # 0 /\ Entered(inode[s].num) =>
       \/ inode[s].links = 2 /\ inode[s].dir
       \/ \E t \in Tasks : call[t].pc = "read" /\ call[t].slot = s
  /\ inode[s].lock => \E t \in Tasks : Locking(call[t]) /\ call[t].slot = s
OneLocks == \A t, v \in Tasks : Locking(call[t]) /\ Locking(call[v]) /\ call[t].slot = call[v].slot => t = v
EntryOK(p) ==
  dir[p].nr # 0 =>
    \/ disk[dir[p].nr] = [links |-> 2, dir |-> TRUE]
    \/ \E s \in Slots : /\ inode[s].num = dir[p].nr /\ inode[s].links = 2
                        /\ inode[s].dir /\ inode[s].dirt

GoodSched == SchedTypeOK /\ halted \in BOOLEAN /\ uses \in Uses
GoodDisk ==
  /\ disk \in [Numbers -> DInode] /\ imap \subseteq Numbers
  /\ dir \in [Places -> [name : Names, nr : Numbers \union {0}]]
GoodInodes == inode \in [Slots -> Inode] /\ \A s \in Slots : SlotOK(s)
IInv ==
  /\ GoodSched /\ GoodDisk /\ GoodInodes
  /\ Shapes /\ \A t \in Tasks : TaskOK(t)
  /\ OneLocks /\ OneInodePerNumber /\ CleanIsOnDisk /\ InodesAccounted
  /\ \A p \in Places : EntryOK(p)
  /\ CountIsUsers
-----------------------------------------------------------------------------
(* A set with one member more or less. *)
LEMMA OneMember ==
  ASSUME NEW S, IsFiniteSet(S), NEW A \in SUBSET S, NEW B \in SUBSET S, NEW t \in S,
         \A u \in S : u # t => (u \in A <=> u \in B)
  PROVE  /\ Cardinality(A) \in Nat /\ Cardinality(B) \in Nat
         /\ Cardinality(B) + (IF t \in A THEN 1 ELSE 0)
              = Cardinality(A) + (IF t \in B THEN 1 ELSE 0)
  <1>1. IsFiniteSet(A) /\ IsFiniteSet(B)
    BY FS_Subset
  <1>2. Cardinality(A) \in Nat /\ Cardinality(B) \in Nat
    BY <1>1, FS_CardinalityType
  <1>3. CASE t \in A /\ t \notin B
    <2>1. B = A \ {t}
      BY <1>3
    <2>2. Cardinality(B) = Cardinality(A) - 1
      BY <1>1, <1>3, <2>1, FS_RemoveElement
    <2> QED
      BY <1>2, <1>3, <2>2
  <1>4. CASE t \in B /\ t \notin A
    <2>1. A = B \ {t}
      BY <1>4
    <2>2. Cardinality(A) = Cardinality(B) - 1
      BY <1>1, <1>4, <2>1, FS_RemoveElement
    <2> QED
      BY <1>2, <1>4, <2>2
  <1>5. CASE t \in A <=> t \in B
    <2>1. A = B
      BY <1>5
    <2> QED
      BY <1>2, <2>1
  <1> QED
    BY <1>3, <1>4, <1>5

(* Two of its members. *)
LEMMA TwoMembers ==
  ASSUME NEW S, IsFiniteSet(S), NEW A \in SUBSET S, NEW t \in S, NEW u \in S, t # u
  PROVE  /\ Cardinality(A) \in Nat
         /\ (IF t \in A THEN 1 ELSE 0) + (IF u \in A THEN 1 ELSE 0) <= Cardinality(A)
  <1>1. /\ Cardinality(A) \in Nat /\ Cardinality(A \ {t}) \in Nat
        /\ Cardinality(A \ {t}) + (IF t \in A THEN 1 ELSE 0)
             = Cardinality(A) + (IF t \in A \ {t} THEN 1 ELSE 0)
    BY OneMember
  <1>2. /\ Cardinality((A \ {t}) \ {u}) \in Nat
        /\ Cardinality((A \ {t}) \ {u}) + (IF u \in A \ {t} THEN 1 ELSE 0)
             = Cardinality(A \ {t}) + (IF u \in (A \ {t}) \ {u} THEN 1 ELSE 0)
    BY OneMember
  <1> QED
    BY <1>1, <1>2

(* How often a call uses an inode. *)
Hold(c, s) == (IF c.pwd = s THEN 1 ELSE 0) + (IF c.empty = s THEN 1 ELSE 0)
              + (IF c.slot = s /\ c.pc \notin Looking THEN 1 ELSE 0)

(* The users of an inode, when one call changes. *)
LEMMA UsersAfter ==
  ASSUME call \in [Tasks -> Calls], NEW t \in Tasks, NEW c, call' = [call EXCEPT ![t] = c],
         NEW x \in Slots
  PROVE  /\ Users(x) \in Nat /\ Users(x)' \in Nat
         /\ Hold(call[t], x) \in Nat /\ Hold(c, x) \in Nat
         /\ Users(x)' + Hold(call[t], x) = Users(x) + Hold(c, x)
  <1> DEFINE A1 == {u \in Tasks : call[u].pwd = x}
             A2 == {u \in Tasks : call[u].empty = x}
             A3 == {u \in Tasks : call[u].slot = x /\ call[u].pc \notin Looking}
             B1 == {u \in Tasks : call'[u].pwd = x}
             B2 == {u \in Tasks : call'[u].empty = x}
             B3 == {u \in Tasks : call'[u].slot = x /\ call'[u].pc \notin Looking}
  <1>1. call'[t] = c /\ \A u \in Tasks : u # t => call'[u] = call[u]
    OBVIOUS
  <1>2. /\ Cardinality(A1) \in Nat /\ Cardinality(B1) \in Nat
        /\ Cardinality(B1) + (IF t \in A1 THEN 1 ELSE 0) = Cardinality(A1) + (IF t \in B1 THEN 1 ELSE 0)
    <2>1. \A u \in Tasks : u # t => (u \in A1 <=> u \in B1)
      BY <1>1
    <2>2. A1 \in SUBSET Tasks /\ B1 \in SUBSET Tasks
      OBVIOUS
    <2> HIDE DEF A1, B1
    <2> QED
      BY <2>1, <2>2, OneMember, SchedAssumption
  <1>3. /\ Cardinality(A2) \in Nat /\ Cardinality(B2) \in Nat
        /\ Cardinality(B2) + (IF t \in A2 THEN 1 ELSE 0) = Cardinality(A2) + (IF t \in B2 THEN 1 ELSE 0)
    <2>1. \A u \in Tasks : u # t => (u \in A2 <=> u \in B2)
      BY <1>1
    <2>2. A2 \in SUBSET Tasks /\ B2 \in SUBSET Tasks
      OBVIOUS
    <2> HIDE DEF A2, B2
    <2> QED
      BY <2>1, <2>2, OneMember, SchedAssumption
  <1>4. /\ Cardinality(A3) \in Nat /\ Cardinality(B3) \in Nat
        /\ Cardinality(B3) + (IF t \in A3 THEN 1 ELSE 0) = Cardinality(A3) + (IF t \in B3 THEN 1 ELSE 0)
    <2>1. \A u \in Tasks : u # t => (u \in A3 <=> u \in B3)
      BY <1>1
    <2>2. A3 \in SUBSET Tasks /\ B3 \in SUBSET Tasks
      OBVIOUS
    <2> HIDE DEF A3, B3
    <2> QED
      BY <2>1, <2>2, OneMember, SchedAssumption
  <1>5. /\ Users(x) = Cardinality(A1) + Cardinality(A2) + Cardinality(A3)
        /\ Users(x)' = Cardinality(B1) + Cardinality(B2) + Cardinality(B3)
    BY DEF Users
  <1>6. /\ Hold(call[t], x) = (IF t \in A1 THEN 1 ELSE 0) + (IF t \in A2 THEN 1 ELSE 0)
                              + (IF t \in A3 THEN 1 ELSE 0)
        /\ Hold(c, x) = (IF t \in B1 THEN 1 ELSE 0) + (IF t \in B2 THEN 1 ELSE 0)
                        + (IF t \in B3 THEN 1 ELSE 0)
    BY <1>1 DEF Hold
  <1> HIDE DEF A1, A2, A3, B1, B2, B3
  <1> QED
    BY <1>2, <1>3, <1>4, <1>5, <1>6

(* The users of an inode are at least those that two tasks are. *)
LEMMA TwoUsers ==
  ASSUME NEW t \in Tasks, NEW u \in Tasks, t # u, NEW s \in Slots
  PROVE  /\ Users(s) \in Nat /\ Hold(call[t], s) \in Nat /\ Hold(call[u], s) \in Nat
         /\ Hold(call[t], s) + Hold(call[u], s) <= Users(s)
  <1> DEFINE A1 == {v \in Tasks : call[v].pwd = s}
             A2 == {v \in Tasks : call[v].empty = s}
             A3 == {v \in Tasks : call[v].slot = s /\ call[v].pc \notin Looking}
  <1>1. /\ A1 \in SUBSET Tasks /\ A2 \in SUBSET Tasks /\ A3 \in SUBSET Tasks
        /\ Users(s) = Cardinality(A1) + Cardinality(A2) + Cardinality(A3)
        /\ Hold(call[t], s) = (IF t \in A1 THEN 1 ELSE 0) + (IF t \in A2 THEN 1 ELSE 0)
                              + (IF t \in A3 THEN 1 ELSE 0)
        /\ Hold(call[u], s) = (IF u \in A1 THEN 1 ELSE 0) + (IF u \in A2 THEN 1 ELSE 0)
                              + (IF u \in A3 THEN 1 ELSE 0)
    BY DEF Users, Hold
  <1> HIDE DEF A1, A2, A3
  <1>2. /\ Cardinality(A1) \in Nat
        /\ (IF t \in A1 THEN 1 ELSE 0) + (IF u \in A1 THEN 1 ELSE 0) <= Cardinality(A1)
    BY <1>1, TwoMembers, SchedAssumption
  <1>3. /\ Cardinality(A2) \in Nat
        /\ (IF t \in A2 THEN 1 ELSE 0) + (IF u \in A2 THEN 1 ELSE 0) <= Cardinality(A2)
    BY <1>1, TwoMembers, SchedAssumption
  <1>4. /\ Cardinality(A3) \in Nat
        /\ (IF t \in A3 THEN 1 ELSE 0) + (IF u \in A3 THEN 1 ELSE 0) <= Cardinality(A3)
    BY <1>1, TwoMembers, SchedAssumption
  <1> QED
    BY <1>1, <1>2, <1>3, <1>4

(* One user is at most all of them. *)
LEMMA OneUser ==
  ASSUME NEW t \in Tasks, NEW s \in Slots
  PROVE  /\ Users(s) \in Nat /\ Hold(call[t], s) \in Nat
         /\ Hold(call[t], s) <= Users(s)
  <1> DEFINE A1 == {v \in Tasks : call[v].pwd = s}
             A2 == {v \in Tasks : call[v].empty = s}
             A3 == {v \in Tasks : call[v].slot = s /\ call[v].pc \notin Looking}
  <1>1. /\ A1 \in SUBSET Tasks /\ A2 \in SUBSET Tasks /\ A3 \in SUBSET Tasks
        /\ Users(s) = Cardinality(A1) + Cardinality(A2) + Cardinality(A3)
        /\ Hold(call[t], s) = (IF t \in A1 THEN 1 ELSE 0) + (IF t \in A2 THEN 1 ELSE 0)
                              + (IF t \in A3 THEN 1 ELSE 0)
    BY DEF Users, Hold
  <1>2. ASSUME NEW A \in SUBSET Tasks
        PROVE  Cardinality(A) \in Nat /\ (IF t \in A THEN 1 ELSE 0) <= Cardinality(A)
    <2>1. /\ Cardinality(A) \in Nat /\ Cardinality(A \ {t}) \in Nat
          /\ Cardinality(A \ {t}) + (IF t \in A THEN 1 ELSE 0)
               = Cardinality(A) + (IF t \in A \ {t} THEN 1 ELSE 0)
      BY OneMember, SchedAssumption
    <2> QED
      BY <2>1
  <1> HIDE DEF A1, A2, A3
  <1> QED
    BY <1>1, <1>2

Holds(c, s) == c.pwd = s \/ c.empty = s \/ (c.slot = s /\ c.pc \notin Looking)

(* An inode that nobody counts is nobody's; one that is counted once has one user. *)
LEMMA CountedUsers ==
  ASSUME CountIsUsers, NEW s \in Slots, NEW t \in Tasks, Holds(call[t], s)
  PROVE  /\ inode[s].count \in Nat \ {0}
         /\ inode[s].count = 1 => \A u \in Tasks : Holds(call[u], s) => u = t
  <1>1. \A u \in Tasks : Holds(call[u], s) => Hold(call[u], s) > 0
    BY DEF Holds, Hold
  <1>2. inode[s].count = Users(s)
    BY DEF CountIsUsers
  <1>3. inode[s].count \in Nat \ {0}
    BY <1>1, <1>2, OneUser
  <1>4. ASSUME inode[s].count = 1, NEW u \in Tasks, Holds(call[u], s), u # t PROVE FALSE
    <2>1. /\ Hold(call[t], s) \in Nat /\ Hold(call[u], s) \in Nat /\ Users(s) \in Nat
          /\ Hold(call[t], s) + Hold(call[u], s) <= Users(s)
      BY <1>4, TwoUsers
    <2>2. Hold(call[t], s) > 0 /\ Hold(call[u], s) > 0
      BY <1>1, <1>4
    <2>3. Users(s) = 1
      BY <1>2, <1>4
    <2> QED
      BY <2>1, <2>2, <2>3
  <1> QED
    BY <1>3, <1>4

(* The inodes a call has. *)
LEMMA CallSlots ==
  ASSUME Shapes, NEW u \in Tasks
  PROVE  /\ call[u] \in Calls
         /\ call[u].pwd # NoSlot => call[u].pwd \in Slots /\ Holds(call[u], call[u].pwd)
         /\ call[u].empty # NoSlot => call[u].empty \in Slots /\ Holds(call[u], call[u].empty)
         /\ call[u].slot # NoSlot => call[u].slot \in Slots
         /\ call[u].slot # NoSlot /\ call[u].pc \notin Looking => Holds(call[u], call[u].slot)
  <1>1. call[u] \in Calls
    BY DEF Shapes
  <1> QED
    BY <1>1 DEF Calls, Holds

(* Where a call that owns or locks its inode can be. *)
LEMMA CallLabels ==
  ASSUME Shapes, NEW u \in Tasks
  PROVE  /\ Private(call[u]) => call[u].slot # NoSlot /\ call[u].pc \notin Looking
         /\ Shared(call[u]) => call[u].slot # NoSlot /\ call[u].pc \notin Looking
         /\ Locking(call[u]) => call[u].slot # NoSlot
         /\ call[u].pc \in {"read", "got", "is_empty"} \union Freeing
              => call[u].slot # NoSlot /\ call[u].pc \notin Looking
         /\ call[u].pc \in Freeing => Private(call[u])
  BY DEF Shapes, Shape, Private, Shared, Locking, Freeing, Looking

(* What the others have is left alone: the inode that changes is none of theirs. *)
LEMMA OthersApart ==
  ASSUME IInv, NEW t \in Tasks, NEW c, call' = [call EXCEPT ![t] = c],
         NEW s \in Slots, NEW r \in Inode, inode' = [inode EXCEPT ![s] = r],
         dir' = dir, uses' = uses, current = t,
         ~inode[s].lock, \A u \in Tasks : u # t => ~Holds(call[u], s),
         NEW u \in Tasks, u # t
  PROVE  TaskOK(u)'
  <1>1. call'[u] = call[u] /\ TaskOK(u) /\ inode \in [Slots -> Inode]
    BY DEF IInv, Shapes, GoodInodes
  <1>2. ~Holds(call[u], s)
    OBVIOUS
  <1>3. Shapes
    BY DEF IInv
  <1>4. call[u].pwd # NoSlot => call[u].pwd \in Slots /\ call[u].pwd # s
    BY <1>2, <1>3, CallSlots
  <1>5. call[u].empty # NoSlot => call[u].empty \in Slots /\ call[u].empty # s
    BY <1>2, <1>3, CallSlots
  <1>6. call[u].slot # NoSlot /\ call[u].pc \notin Looking => call[u].slot \in Slots /\ call[u].slot # s
    BY <1>2, <1>3, CallSlots
  <1>7. Pwd(u)'
    BY <1>1, <1>4 DEF TaskOK, Fits, Pwd, Entered
  <1>8. Empty(u)'
    BY <1>1, <1>5 DEF TaskOK, Fits, Empty
  <1>9. LooksUp(call[u], Mine(u))'
    BY <1>1, <1>3, <1>6, CallLabels DEF TaskOK, Fits, LooksUp, Mine
  <1>10. Locks(call[u], Mine(u))'
    <2>1. Locking(call[u]) => call[u].slot \in Slots /\ Mine(u).lock
      BY <1>1, <1>3, CallLabels, CallSlots DEF TaskOK, Fits, Locks
    <2>2. Locking(call[u]) => call[u].slot # s
      BY <2>1 DEF Mine
    <2> QED
      BY <1>1, <2>1, <2>2 DEF TaskOK, Fits, Locks, Mine, Locking
  <1>11. Shares(call[u], Mine(u))'
    BY <1>1, <1>3, <1>6, CallLabels DEF TaskOK, Fits, Shares, Mine, Entered
  <1>12. Owns(u, call[u], Mine(u))'
    <2>1. Private(call[u]) \/ call[u].pc \in Freeing \union {"block", "fill", "add"} => Mine(u)' = Mine(u)
      BY <1>1, <1>3, <1>6, CallLabels DEF Mine, Private
    <2>2. call[u].pc # "free_now"
      BY <1>1 DEF TaskOK, Fits, Owns
    <2> QED
      BY <1>1, <2>1, <2>2 DEF TaskOK, Fits, Owns, Entered, NoOtherSync
  <1> QED
    BY <1>7, <1>8, <1>9, <1>10, <1>11, <1>12 DEF TaskOK, Fits

(* What a step of t that makes r of the inode s owes the others. *)
Beside(t, s, r) ==
  /\ r.num = inode[s].num
  /\ \/ Holds(call[t], s)
     \/ r.count = inode[s].count /\ r.links = inode[s].links /\ r.dir = inode[s].dir
  /\ r.lock => inode[s].lock \/ Holds(call[t], s) \/ "sync" \in uses[t]
  /\ \/ ~inode[s].lock
     \/ Locking(call[t]) /\ call[t].slot = s
     \/ r.lock /\ (inode[s].dirt => r.dirt)

(* What the others have stays as good: the inode that changes keeps its     *)
(* number, and is this task's or keeps its contents.                        *)
LEMMA OthersBeside ==
  ASSUME IInv, NEW t \in Tasks, NEW c, call' = [call EXCEPT ![t] = c],
         NEW s \in Slots, NEW r \in Inode, inode' = [inode EXCEPT ![s] = r],
         dir' = dir, uses' = uses, current = t,
         Beside(t, s, r),
         NEW u \in Tasks, u # t
  PROVE  TaskOK(u)'
  <1>1. call'[u] = call[u] /\ TaskOK(u) /\ inode \in [Slots -> Inode] /\ CountIsUsers
    BY DEF IInv, Shapes, GoodInodes
  <1>2. Shapes
    BY DEF IInv
  <1>3. /\ call[u].pwd # NoSlot => call[u].pwd \in Slots
        /\ call[u].empty # NoSlot => call[u].empty \in Slots
        /\ call[u].slot # NoSlot => call[u].slot \in Slots
    BY <1>2, CallSlots
  <1>4. \A x \in Slots : inode'[x].num = inode[x].num
    BY <1>1 DEF Beside
  <1>5. \A x \in Slots : Holds(call[u], x) /\ inode[x].count = 1 =>
          /\ inode'[x].count = inode[x].count
          /\ inode'[x].links = inode[x].links /\ inode'[x].dir = inode[x].dir
          /\ inode'[x].lock => inode[x].lock \/ "sync" \in uses[t]
    <2> SUFFICES ASSUME NEW x \in Slots, Holds(call[u], x), inode[x].count = 1
                 PROVE  /\ inode'[x].count = inode[x].count
                        /\ inode'[x].links = inode[x].links /\ inode'[x].dir = inode[x].dir
                        /\ inode'[x].lock => inode[x].lock \/ "sync" \in uses[t]
      OBVIOUS
    <2>1. CASE x # s
      BY <1>1, <2>1
    <2>2. CASE x = s
      <3>1. ~Holds(call[t], s)
        BY <1>1, <2>2, CountedUsers
      <3> QED
        BY <1>1, <2>2, <3>1 DEF Beside
    <2> QED
      BY <2>1, <2>2
  <1>6. Pwd(u)'
    BY <1>1, <1>3, <1>4 DEF TaskOK, Fits, Pwd, Entered
  <1>7. Empty(u)'
    BY <1>1, <1>2, <1>3, <1>4, <1>5, CallSlots DEF TaskOK, Fits, Empty
  <1>8. LooksUp(call[u], Mine(u))'
    <2>1. call[u].pc = "is_empty" => Mine(u)'.count = 1
      BY <1>1, <1>2, <1>5, CallLabels, CallSlots DEF TaskOK, Fits, LooksUp, Mine
    <2> QED
      BY <1>1, <1>2, <1>3, <1>4, <2>1, CallLabels DEF TaskOK, Fits, LooksUp, Mine
  <1>9. Locks(call[u], Mine(u))'
    <2>1. Locking(call[u]) => call[u].slot \in Slots /\ inode[call[u].slot].lock
      BY <1>1, <1>2, CallLabels, CallSlots DEF TaskOK, Fits, Locks, Mine
    <2>2. Locking(call[u]) => ~(Locking(call[t]) /\ call[t].slot = call[u].slot)
      BY DEF IInv, OneLocks
    <2>3. Locking(call[u]) => /\ Mine(u)'.lock /\ Mine(u)'.num # 0
                              /\ Mine(u).dirt => Mine(u)'.dirt
      BY <1>1, <2>1, <2>2 DEF TaskOK, Fits, Locks, Mine, Beside
    <2>4. call[u].pc = "read" => Mine(u)'.count = 1 /\ Mine(u)'.links = 0
      <3>1. call[u].pc = "read" => Mine(u).count = 1 /\ Holds(call[u], call[u].slot) /\ Mine(u).links = 0
                                   /\ call[u].slot \in Slots
        BY <1>1, <1>2, CallLabels, CallSlots DEF TaskOK, Fits, Locks
      <3> QED
        BY <1>1, <1>5, <3>1 DEF Mine
    <2> QED
      BY <1>1, <2>3, <2>4 DEF TaskOK, Fits, Locks, Locking
  <1>10. Shares(call[u], Mine(u))'
    BY <1>1, <1>2, <1>3, <1>4, CallLabels DEF TaskOK, Fits, Shares, Mine, Entered
  <1>11. Owns(u, call[u], Mine(u))'
    <2>1. CASE Private(call[u])
      <3>1. call[u].slot \in Slots /\ Holds(call[u], call[u].slot) /\ Mine(u).count = 1
        BY <1>1, <1>2, <2>1, CallLabels, CallSlots DEF TaskOK, Fits, Owns
      <3>2. /\ Mine(u)'.num = Mine(u).num /\ Mine(u)'.count = 1
            /\ Mine(u)'.links = Mine(u).links /\ Mine(u)'.dir = Mine(u).dir
            /\ Mine(u)'.lock => Mine(u).lock \/ "sync" \in uses[t]
        BY <1>1, <1>4, <1>5, <3>1 DEF Mine
      <3>3. call[u].pc # "free_now"
        BY <1>1 DEF TaskOK, Fits, Owns
      <3>4. call[u].pc \in Freeing => NoOtherSync(u)
        BY <1>1, <3>3 DEF TaskOK, Fits, Owns, Freeing
      <3>5. NoOtherSync(u) => "sync" \notin uses[t]
        BY DEF NoOtherSync
      <3> QED
        BY <1>1, <3>2, <3>3, <3>4, <3>5 DEF TaskOK, Fits, Owns, Entered, NoOtherSync
    <2>2. CASE ~Private(call[u])
      BY <1>1, <2>2 DEF Owns, Private, Freeing
    <2> QED
      BY <2>1, <2>2
  <1> QED
    BY <1>6, <1>7, <1>8, <1>9, <1>10, <1>11 DEF TaskOK, Fits
-----------------------------------------------------------------------------
(* What the others have, when no inode changes. *)
LEMMA OthersSame ==
  ASSUME IInv, NEW t \in Tasks, NEW c, call' = [call EXCEPT ![t] = c],
         inode' = inode, dir' = dir, uses' = uses, current = t,
         NEW u \in Tasks, u # t
  PROVE  TaskOK(u)'
  <1>1. call'[u] = call[u] /\ TaskOK(u)
    BY DEF IInv, Shapes
  <1>2. Mine(u)' = Mine(u)
    BY <1>1 DEF Mine
  <1>3. call[u].pc # "free_now"
    BY <1>1 DEF TaskOK, Fits, Owns
  <1>4. \A n : Entered(n)' <=> Entered(n)
    BY DEF Entered
  <1>5. Pwd(u)' /\ Empty(u)' /\ Shares(call[u], Mine(u))'
    BY <1>1, <1>2 DEF TaskOK, Fits, Pwd, Empty, Shares, Entered
  <1>6. LooksUp(call[u], Mine(u))' /\ Locks(call[u], Mine(u))'
    BY <1>1, <1>2 DEF TaskOK, Fits, LooksUp, Locks
  <1>7. NoOtherSync(u)' <=> NoOtherSync(u)
    BY DEF NoOtherSync
  <1>8. Owns(u, call[u], Mine(u))'
    BY <1>1, <1>2, <1>3, <1>4, <1>7 DEF TaskOK, Fits, Owns
  <1> QED
    BY <1>5, <1>6, <1>8 DEF TaskOK, Fits

(* A call goes on to have the shape it should. *)
LEMMA ShapesAfter ==
  ASSUME Shapes, NEW t \in Tasks, NEW c, Shape(t, c), call' = [call EXCEPT ![t] = c], uses' = uses
  PROVE  Shapes' /\ call'[t] = c /\ \A u \in Tasks : u # t => call'[u] = call[u]
  <1>1. c \in Calls
    BY DEF Shape
  <1>2. call'[t] = c /\ \A u \in Tasks : u # t => call'[u] = call[u]
    BY DEF Shapes
  <1>3. call' \in [Tasks -> Calls]
    BY <1>1 DEF Shapes
  <1>4. \A u \in Tasks : Shape(u, call'[u])
    BY <1>2 DEF Shapes
  <1>5. \A u \in Tasks : Shape(u, call'[u]) => Shape(u, call[u])'
    BY DEF Shape
  <1> QED
    BY <1>2, <1>3, <1>4, <1>5 DEF Shapes

(* A count stays right. *)
LEMMA CountAfter ==
  ASSUME IInv, NEW t \in Tasks, NEW c, call' = [call EXCEPT ![t] = c],
         NEW x \in Slots, inode'[x].count \in Nat,
         inode'[x].count + Hold(call[t], x) = inode[x].count + Hold(c, x)
  PROVE  inode'[x].count = Users(x)'
  <1>1. inode[x].count = Users(x) /\ call \in [Tasks -> Calls]
    BY DEF IInv, CountIsUsers, Shapes
  <1>2. /\ Users(x) \in Nat /\ Users(x)' \in Nat
        /\ Hold(call[t], x) \in Nat /\ Hold(c, x) \in Nat
        /\ Users(x)' + Hold(call[t], x) = Users(x) + Hold(c, x)
    BY <1>1, UsersAfter
  <1> QED
    BY <1>1, <1>2

(* A step that changes nothing but how far the task is. *)
LEMMA CallStep ==
  ASSUME IInv, NEW t \in Tasks, NEW c, Shape(t, c), call' = [call EXCEPT ![t] = c],
         inode' = inode, disk' = disk, imap' = imap, dir' = dir, uses' = uses, GoodSched',
         current = t, ~Locking(call[t]), ~Locking(c),
         \A s \in Slots : Hold(c, s) = Hold(call[t], s),
         TaskOK(t)'
  PROVE  IInv'
  <1>1. Shapes' /\ call'[t] = c /\ \A u \in Tasks : u # t => call'[u] = call[u]
    BY ShapesAfter DEF IInv
  <1>2. \A u \in Tasks : TaskOK(u)'
    BY OthersSame
  <1>3. GoodDisk'
    BY DEF IInv, GoodDisk
  <1>4. GoodInodes'
    <2> SUFFICES ASSUME NEW s \in Slots PROVE SlotOK(s)'
      BY DEF IInv, GoodInodes
    <2>1. SlotOK(s)
      BY DEF IInv, GoodInodes
    <2>2. \A u \in Tasks : Locking(call[u]) => u # t /\ call'[u] = call[u]
      BY <1>1
    <2>3. \A u \in Tasks : call[u].pc = "read" => call'[u] = call[u]
      BY <2>2 DEF Locking
    <2> QED
      BY <2>1, <2>2, <2>3 DEF SlotOK, Entered
  <1>5. OneLocks'
    <2>1. \A u \in Tasks : Locking(call'[u]) => call'[u] = call[u]
      BY <1>1
    <2> QED
      BY <2>1 DEF IInv, OneLocks
  <1>6. OneInodePerNumber' /\ CleanIsOnDisk' /\ InodesAccounted'
    BY DEF IInv, OneInodePerNumber, CleanIsOnDisk, InodesAccounted
  <1>7. \A p \in Places : EntryOK(p)'
    BY DEF IInv, EntryOK
  <1>8. CountIsUsers'
    <2> SUFFICES ASSUME NEW x \in Slots PROVE inode'[x].count = Users(x)'
      BY DEF CountIsUsers
    <2>1. inode'[x].count = inode[x].count /\ inode[x].count \in Nat
      BY DEF IInv, GoodInodes, Inode
    <2>2. Hold(c, x) = Hold(call[t], x)
      OBVIOUS
    <2>3. inode'[x].count + Hold(call[t], x) = inode[x].count + Hold(c, x)
      BY <2>1, <2>2
    <2> QED
      BY <2>1, <2>3, CountAfter
  <1> QED
    BY <1>1, <1>2, <1>3, <1>4, <1>5, <1>6, <1>7, <1>8 DEF IInv

(* What such a step owes the locks, the count and the disk. *)
LockGoesOn(t, c, s) ==
  /\ Locking(call[t]) => call[t].slot = s
  /\ Locking(c) => c.slot = s /\ (~inode[s].lock \/ Locking(call[t]))
CountGoesOn(t, c, s, r) ==
  /\ r.count + Hold(call[t], s) = inode[s].count + Hold(c, s)
  /\ \A x \in Slots : x # s => Hold(c, x) = Hold(call[t], x)
  /\ r.count = 0 => r.num = 0 \/ Entered(r.num)
DiskGoesOn(s, r) ==
  /\ \/ disk' = disk
     \/ r.num \in Numbers /\ disk' = [disk EXCEPT ![r.num] = [links |-> r.links, dir |-> r.dir]]
  /\ r.num # 0 /\ ~r.dirt /\ ~r.lock /\ r.links # 0
       => disk'[r.num] = [links |-> r.links, dir |-> r.dir]
  /\ Entered(r.num) /\ r.num # 0 =>
       \/ disk'[r.num] = [links |-> 2, dir |-> TRUE]
       \/ r.links = 2 /\ r.dir /\ r.dirt
       \/ disk' = disk /\ ~(inode[s].links = 2 /\ inode[s].dir /\ inode[s].dirt)

(* A step that changes what is in an inode, and perhaps writes it. *)
LEMMA SlotStep ==
  ASSUME IInv, NEW t \in Tasks, NEW c, Shape(t, c), call' = [call EXCEPT ![t] = c],
         NEW s \in Slots, NEW r \in Inode, inode' = [inode EXCEPT ![s] = r],
         imap' = imap, dir' = dir, uses' = uses, GoodSched', current = t,
         Beside(t, s, r), LockGoesOn(t, c, s), CountGoesOn(t, c, s, r), DiskGoesOn(s, r),
         TaskOK(t)', SlotOK(s)'
  PROVE  IInv'
  <1>1. Shapes' /\ call'[t] = c /\ \A u \in Tasks : u # t => call'[u] = call[u]
    BY ShapesAfter DEF IInv
  <1>2. \A u \in Tasks : TaskOK(u)'
    BY OthersBeside
  <1>3. inode \in [Slots -> Inode] /\ inode' \in [Slots -> Inode]
    BY DEF IInv, GoodInodes
  <1>4. inode'[s] = r /\ \A x \in Slots : x # s => inode'[x] = inode[x]
    BY <1>3
  <1>5. \A x \in Slots : inode'[x].num = inode[x].num
    BY <1>4 DEF Beside
  <1>6. r.num \in Numbers \union {0} /\ r.links \in 0 .. 2 /\ r.dir \in BOOLEAN
    BY DEF Inode
  <1>7. \A n \in Numbers : n # r.num => disk'[n] = disk[n]
    BY DEF IInv, GoodDisk, DiskGoesOn
  <1>8. GoodDisk'
    <2>1. [links |-> r.links, dir |-> r.dir] \in DInode
      BY <1>6 DEF DInode
    <2>2. disk' \in [Numbers -> DInode]
      BY <2>1 DEF IInv, GoodDisk, DiskGoesOn
    <2> QED
      BY <2>2 DEF IInv, GoodDisk
  <1>9. GoodInodes'
    <2> SUFFICES ASSUME NEW x \in Slots, x # s PROVE SlotOK(x)'
      BY <1>3 DEF GoodInodes
    <2>1. SlotOK(x) /\ inode'[x] = inode[x]
      BY <1>4 DEF IInv, GoodInodes
    <2>2. \A u \in Tasks : Locking(call[u]) /\ call[u].slot = x => call'[u] = call[u]
      BY <1>1 DEF LockGoesOn
    <2>3. \A u \in Tasks : call[u].pc = "read" /\ call[u].slot = x => call'[u] = call[u]
      BY <2>2 DEF Locking
    <2> QED
      BY <2>1, <2>2, <2>3 DEF SlotOK, Entered
  <1>10. OneLocks'
    <2>1. ASSUME NEW u \in Tasks, u # t, Locking(call[u]), Locking(c), call[u].slot = c.slot
          PROVE  FALSE
      <3>1. call[u].slot = s
        BY <2>1 DEF LockGoesOn
      <3>2. inode[s].lock
        BY <2>1, <3>1 DEF IInv, TaskOK, Fits, Locks, Mine
      <3>3. Locking(call[t]) /\ call[t].slot = s
        BY <2>1, <3>2 DEF LockGoesOn
      <3> QED
        BY <2>1, <3>1, <3>3 DEF IInv, OneLocks
    <2>2. \A u, v \in Tasks : u # t /\ v # t /\ Locking(call'[u]) /\ Locking(call'[v])
                              /\ call'[u].slot = call'[v].slot => u = v
      BY <1>1 DEF IInv, OneLocks
    <2> QED
      BY <1>1, <2>1, <2>2 DEF OneLocks
  <1>11. OneInodePerNumber'
    BY <1>5 DEF IInv, OneInodePerNumber
  <1>12. CleanIsOnDisk'
    <2> SUFFICES ASSUME NEW x \in Slots, x # s,
                        inode[x].num # 0, ~inode[x].dirt, ~inode[x].lock, inode[x].links # 0
                 PROVE  disk'[inode[x].num] = [links |-> inode[x].links, dir |-> inode[x].dir]
      BY <1>4 DEF CleanIsOnDisk, DiskGoesOn
    <2>1. inode[x].num # r.num /\ inode[x].num \in Numbers
      BY <1>3 DEF IInv, OneInodePerNumber, Inode, Beside
    <2>2. disk[inode[x].num] = [links |-> inode[x].links, dir |-> inode[x].dir]
      BY DEF IInv, CleanIsOnDisk
    <2> QED
      BY <1>7, <2>1, <2>2
  <1>13. InodesAccounted'
    <2>1. ASSUME NEW n \in imap PROVE \/ \E p \in Places : dir[p].nr = n
                                      \/ \E x \in Slots : inode'[x].num = n /\ inode'[x].count > 0
      <3>1. ASSUME NEW x \in Slots, inode[x].num = n, inode[x].count > 0
            PROVE  Entered(n) \/ (inode'[x].num = n /\ inode'[x].count > 0)
        <4>1. CASE x # s
          BY <1>4, <3>1, <4>1
        <4>2. CASE x = s
          <5>1. n # 0 /\ r.count \in Nat
            BY DEF IInv, GoodDisk, Numbers, Inode
          <5>2. n = r.num
            BY <3>1, <4>2 DEF Beside
          <5>3. r.count = 0 => Entered(n)
            BY <5>1, <5>2 DEF CountGoesOn
          <5>4. inode'[x] = r
            BY <1>4, <4>2
          <5> QED
            BY <5>1, <5>2, <5>3, <5>4
        <4> QED
          BY <4>1, <4>2
      <3> QED
        BY <3>1 DEF IInv, InodesAccounted, Entered
    <2> QED
      BY <2>1 DEF IInv, InodesAccounted
  <1>14. ASSUME NEW p \in Places PROVE EntryOK(p)'
    <2> SUFFICES ASSUME dir[p].nr # 0
                 PROVE  \/ disk'[dir[p].nr] = [links |-> 2, dir |-> TRUE]
                        \/ \E x \in Slots : /\ inode'[x].num = dir[p].nr /\ inode'[x].links = 2
                                            /\ inode'[x].dir /\ inode'[x].dirt
      BY DEF EntryOK
    <2>1. dir[p].nr \in Numbers
      BY DEF IInv, GoodDisk
    <2>2. \/ disk[dir[p].nr] = [links |-> 2, dir |-> TRUE]
          \/ \E x \in Slots : /\ inode[x].num = dir[p].nr /\ inode[x].links = 2
                              /\ inode[x].dir /\ inode[x].dirt
      BY DEF IInv, EntryOK
    <2>3. CASE dir[p].nr # r.num
      BY <1>4, <1>7, <2>1, <2>2, <2>3 DEF Beside
    <2>4. CASE dir[p].nr = r.num
      <3>1. Entered(r.num) /\ r.num # 0
        BY <2>4 DEF Entered
      <3>2. \A x \in Slots : inode[x].num = r.num => x = s
        BY <3>1 DEF IInv, OneInodePerNumber, Beside
      <3>3. \/ disk'[r.num] = [links |-> 2, dir |-> TRUE]
            \/ r.num = inode[s].num /\ r.links = 2 /\ r.dir /\ r.dirt
            \/ disk' = disk /\ ~(inode[s].links = 2 /\ inode[s].dir /\ inode[s].dirt)
        BY <3>1 DEF DiskGoesOn, Beside
      <3> QED
        BY <1>4, <2>2, <2>4, <3>1, <3>2, <3>3
    <2> QED
      BY <2>3, <2>4
  <1>15. CountIsUsers'
    <2> SUFFICES ASSUME NEW x \in Slots PROVE inode'[x].count = Users(x)'
      BY DEF CountIsUsers
    <2>1. inode'[x].count \in Nat
      BY <1>3 DEF Inode
    <2>2. CASE x = s
      <3>1. inode'[x].count + Hold(call[t], x) = inode[x].count + Hold(c, x)
        BY <1>4, <2>2 DEF CountGoesOn
      <3> QED
        BY <2>1, <3>1, CountAfter
    <2>3. CASE x # s
      <3>1. inode'[x].count = inode[x].count
        BY <1>4, <2>3
      <3>2. Hold(c, x) = Hold(call[t], x)
        BY <2>3 DEF CountGoesOn
      <3>3. inode'[x].count + Hold(call[t], x) = inode[x].count + Hold(c, x)
        BY <3>1, <3>2
      <3> QED
        BY <2>1, <3>3, CountAfter
    <2> QED
      BY <2>2, <2>3
  <1> QED
    BY <1>1, <1>2, <1>8, <1>9, <1>10, <1>11, <1>12, <1>13, <1>14, <1>15 DEF IInv
-----------------------------------------------------------------------------
(* What the invariant says of one task. *)
LEMMA Known ==
  ASSUME IInv, NEW t \in Tasks
  PROVE  /\ call \in [Tasks -> Calls] /\ call[t] \in Calls /\ Shape(t, call[t]) /\ TaskOK(t)
         /\ inode \in [Slots -> Inode] /\ Shapes /\ GoodSched /\ NoSlot \notin Slots
  BY InodeCacheAssumption DEF IInv, Shapes, GoodInodes

(* Nobody is put to sleep and nobody is woken. *)
LEMMA SchedSame == ASSUME GoodSched, UNCHANGED schedVars, Continue PROVE GoodSched'
  BY DEF GoodSched, SchedTypeOK, schedVars, Continue

(* Somebody may be woken. *)
LEMMA SchedWakes ==
  ASSUME GoodSched, NEW t \in Tasks \union {NoTask}, state' = WakeUp(state, t), Continue,
         UNCHANGED <<current, wq, tmp>>
  PROVE  GoodSched'
  BY DEF GoodSched, SchedTypeOK, WakeUp, Continue, RUNNING, UNINTERRUPTIBLE

(* A queue is cleared with its inode. *)
LEMMA SchedClears ==
  ASSUME GoodSched, NEW s \in Slots, wq' = [wq EXCEPT ![s] = NoTask], Continue,
         UNCHANGED <<current, state, tmp>>
  PROVE  GoodSched'
  BY DEF GoodSched, SchedTypeOK, Continue, Slots

(* A task that waits falls asleep or wakes up. *)
LEMMA AsleepStep ==
  ASSUME IInv, NEW t \in Tasks, NEW b \in BOOLEAN, call' = [call EXCEPT ![t].asleep = b],
         call[t].pc \in Waiting, UNCHANGED inodeVars, uses' = uses, GoodSched', current = t
  PROVE  IInv'
  <1> DEFINE c == [call[t] EXCEPT !.asleep = b]
  <1>1. call' = [call EXCEPT ![t] = c] /\ Shape(t, c)
    BY Known DEF Shape, Calls
  <1>2. /\ c.pc = call[t].pc /\ c.slot = call[t].slot /\ c.empty = call[t].empty
        /\ c.pwd = call[t].pwd /\ c.op = call[t].op /\ c.place = call[t].place
        /\ c.nr = call[t].nr
    BY Known DEF Calls
  <1> HIDE DEF c
  <1>3. call'[t] = c /\ TaskOK(t)
    BY <1>1, Known
  <1>4. inode' = inode /\ disk' = disk /\ imap' = imap /\ dir' = dir
    BY DEF inodeVars
  <1>5. Mine(t)' = Mine(t) /\ (\A n : Entered(n)' <=> Entered(n))
    BY <1>3, <1>4 DEF Mine, Entered
  <1>6. Pwd(t)' /\ Empty(t)' /\ LooksUp(call[t], Mine(t))' /\ Locks(call[t], Mine(t))'
    BY <1>3, <1>4, <1>5, <1>2 DEF TaskOK, Fits, Pwd, Empty, LooksUp, Locks, Locking, Entered
  <1>7. Shares(call[t], Mine(t))'
    BY <1>3, <1>4, <1>5, <1>2 DEF TaskOK, Fits, Shares, Shared, Private, Entered
  <1>8. Owns(t, call[t], Mine(t))'
    BY <1>3, <1>4, <1>5, <1>2 DEF TaskOK, Fits, Owns, Private, Unlinked, Waiting, Freeing, NoOtherSync
  <1>9. \A s \in Slots : Hold(c, s) = Hold(call[t], s)
    BY <1>2 DEF Hold
  <1>10. ~Locking(call[t]) /\ ~Locking(c)
    BY <1>2 DEF Locking, Waiting
  <1> QED
    BY <1>1, <1>4, <1>6, <1>7, <1>8, <1>9, <1>10, CallStep DEF TaskOK, Fits

(* A task waits for an inode. *)
LEMMA WaitStep == ASSUME IInv, NEW t \in Tasks, Wait(t) PROVE IInv'
  <1>1. call' = [call EXCEPT ![t].asleep = TRUE] /\ call[t].pc \in Waiting /\ current = t
    BY DEF Wait, Runs
  <1>2. GoodSched'
    <2>1. call[t].slot \in Queues
      BY <1>1, Known, CallSlots DEF Shape, Waiting, Slots
    <2>2. SchedTypeOK
      BY Known DEF GoodSched
    <2>3. current' \in Tasks \union {Idle}
      BY DEF Wait, SleepOn, Schedule, Runnable
    <2>4. SchedTypeOK'
      BY <2>1, <2>2, <2>3 DEF Wait, SleepOn, SchedTypeOK, UNINTERRUPTIBLE, RUNNING
    <2> QED
      BY <2>4, Known DEF GoodSched, Wait, Continue
  <1> QED
    BY <1>1, <1>2, AsleepStep DEF Wait, Continue

(* A task waits again. *)
LEMMA WaitAgainStep == ASSUME IInv, NEW t \in Tasks, WaitAgain(t) PROVE IInv'
  <1>1. /\ call' = [call EXCEPT ![t].asleep = call[t].asleep] /\ call[t].asleep \in BOOLEAN
        /\ call[t].pc \in Waiting /\ current = t
    BY Known DEF WaitAgain, Runs, Shape, Calls
  <1>2. GoodSched'
    <2>1. call[t].slot \in Queues
      BY <1>1, Known, CallSlots DEF Shape, Waiting, Slots
    <2>2. SchedTypeOK
      BY Known DEF GoodSched
    <2>3. current' \in Tasks \union {Idle}
      BY DEF WaitAgain, SleepAgain, Schedule, Runnable
    <2>4. wq[call[t].slot] \in Tasks
      BY <2>1, <2>2 DEF WaitAgain, Overtaken, SchedTypeOK
    <2>5. SchedTypeOK'
      BY <2>2, <2>3, <2>4 DEF WaitAgain, SleepAgain, SchedTypeOK, UNINTERRUPTIBLE, RUNNING
    <2> QED
      BY <2>5, Known DEF GoodSched, WaitAgain, Continue
  <1> QED
    BY <1>1, <1>2, AsleepStep DEF WaitAgain, Continue

(* A wait is over. *)
LEMMA WokenStep == ASSUME IInv, NEW t \in Tasks, Woken(t) PROVE IInv'
  <1>1. call' = [call EXCEPT ![t].asleep = FALSE] /\ call[t].pc \in Waiting /\ current = t
    BY Known DEF Woken, Runs, Shape
  <1>2. GoodSched'
    <2>1. SchedTypeOK
      BY Known DEF GoodSched
    <2>2. tmp[t] \in Tasks \union {NoTask}
      BY <2>1 DEF SchedTypeOK
    <2>3. SchedTypeOK'
      BY <2>1, <2>2 DEF Woken, Unlink, WakeUp, SchedTypeOK, UNINTERRUPTIBLE, RUNNING
    <2> QED
      BY <2>3, Known DEF GoodSched, Woken, Continue
  <1> QED
    BY <1>1, <1>2, AsleepStep DEF Woken, Continue

(* Nothing but halted changes. *)
LEMMA SameStep ==
  ASSUME IInv, UNCHANGED <<schedVars, inodeVars, call, uses>>, halted' \in BOOLEAN
  PROVE  IInv'
  <1>1. /\ inode' = inode /\ disk' = disk /\ imap' = imap /\ dir' = dir /\ call' = call
        /\ uses' = uses /\ current' = current /\ GoodSched'
    BY DEF schedVars, inodeVars, IInv, GoodSched, SchedTypeOK
  <1>2. GoodDisk' /\ GoodInodes' /\ Shapes'
    BY <1>1 DEF IInv, GoodDisk, GoodInodes, SlotOK, Entered, Shapes, Shape
  <1>3. \A t \in Tasks : TaskOK(t)'
    <2> SUFFICES ASSUME NEW t \in Tasks PROVE TaskOK(t)'
      OBVIOUS
    <2>1. TaskOK(t) /\ (Mine(t)' = Mine(t)) /\ (NoOtherSync(t)' <=> NoOtherSync(t))
      BY <1>1 DEF IInv, Mine, NoOtherSync
    <2>2. Pwd(t)' /\ Empty(t)' /\ Shares(call[t], Mine(t))'
      BY <1>1, <2>1 DEF TaskOK, Fits, Pwd, Empty, Shares, Entered
    <2>3. LooksUp(call[t], Mine(t))' /\ Locks(call[t], Mine(t))'
      BY <1>1, <2>1 DEF TaskOK, Fits, LooksUp, Locks
    <2>4. Owns(t, call[t], Mine(t))'
      BY <1>1, <2>1 DEF TaskOK, Fits, Owns, Entered
    <2> QED
      BY <2>2, <2>3, <2>4 DEF TaskOK, Fits
  <1>4. OneLocks' /\ OneInodePerNumber' /\ CleanIsOnDisk' /\ InodesAccounted'
    BY <1>1 DEF IInv, OneLocks, OneInodePerNumber, CleanIsOnDisk, InodesAccounted
  <1>5. (\A p \in Places : EntryOK(p)') /\ CountIsUsers'
    BY <1>1 DEF IInv, EntryOK, CountIsUsers, Users
  <1> QED
    BY <1>1, <1>2, <1>3, <1>4, <1>5 DEF IInv

(* The kernel stops. *)
LEMMA HaltStep == ASSUME IInv, Halt PROVE IInv'
  BY SameStep DEF Halt
-----------------------------------------------------------------------------
(* A step of a call that has no inode, to where it has none either. *)
Without == {"user", "find", "new_inode", "iget", "sync_next", "sync"}
LEMMA WithoutStep ==
  ASSUME IInv, NEW t \in Tasks, NEW c, call' = [call EXCEPT ![t] = c], Shape(t, c),
         call[t].pc \in Without, c.pc \in Without, c.pwd = call[t].pwd,
         c.pc = "iget" => dir[c.place].nr = c.nr,
         UNCHANGED schedVars, UNCHANGED inodeVars, Continue, current = t
  PROVE  IInv'
  <1>1. call'[t] = c /\ Shape(t, call[t]) /\ TaskOK(t) /\ NoSlot \notin Slots
    BY Known
  <1>2. inode' = inode /\ disk' = disk /\ imap' = imap /\ dir' = dir /\ uses' = uses
    BY DEF inodeVars, Continue
  <1>3. c.empty = NoSlot /\ call[t].empty = NoSlot
    BY <1>1 DEF Shape, Without
  <1>4. \A s \in Slots : Hold(c, s) = Hold(call[t], s)
    <2> SUFFICES ASSUME NEW s \in Slots PROVE Hold(c, s) = Hold(call[t], s)
      OBVIOUS
    <2>1. c.pc \notin Looking => c.slot # s
      BY <1>1 DEF Shape, Without, Looking
    <2>2. call[t].pc \notin Looking => call[t].slot # s
      BY <1>1 DEF Shape, Without, Looking
    <2> QED
      BY <1>3, <2>1, <2>2 DEF Hold
  <1>5. ~Locking(call[t]) /\ ~Locking(c)
    BY DEF Locking, Without
  <1>6. Pwd(t)' /\ Empty(t)'
    BY <1>1, <1>2, <1>3 DEF TaskOK, Fits, Pwd, Empty, Entered
  <1>7. LooksUp(call[t], Mine(t))' /\ Locks(call[t], Mine(t))'
    BY <1>1, <1>2 DEF LooksUp, Locks, Locking, Without, Lookup, Shape
  <1>8. Shares(call[t], Mine(t))'
    BY <1>1 DEF Shares, Shared, Shape, Looking, Without
  <1>9. Owns(t, call[t], Mine(t))'
    BY <1>1 DEF Owns, Private, Freeing, Without
  <1>10. GoodSched'
    BY Known, SchedSame
  <1> QED
    BY <1>1, <1>2, <1>4, <1>5, <1>6, <1>7, <1>8, <1>9, <1>10, CallStep DEF TaskOK, Fits

(* A task that has returned. *)
LEMMA CallerShape ==
  ASSUME IInv, NEW t \in Tasks, NEW pwd \in Slots \union {NoSlot},
         pwd # NoSlot => "chdir" \in uses[t]
  PROVE  Shape(t, Caller(pwd))
  <1> DEFINE c == Caller(pwd)
  <1>1. /\ c.pc = "user" /\ c.op = "none" /\ c.place = NoPlace /\ c.slot = NoSlot
        /\ c.empty = NoSlot /\ ~c.asleep /\ c.pwd = pwd
    BY DEF Caller
  <1>2. AnyName \in Names
    <2>1. dir[1].name \in Names
      <3>1. 1 \in Places
        BY InodeCacheAssumption DEF Places
      <3> QED
        BY <3>1 DEF IInv, GoodDisk
    <2> QED
      BY <2>1 DEF AnyName
  <1>3. c \in Calls
    BY <1>2 DEF Caller, Calls, Labels, MaySleep, NoPlace
  <1> HIDE DEF c
  <1>4. c.op \in uses[t] \union {"none"} /\ (c.pwd # NoSlot => "chdir" \in uses[t])
    BY <1>1
  <1>5. c.pc \notin Lookup /\ c.pc \notin Freeing
    BY <1>1 DEF Lookup, Freeing
  <1>6. Shape(t, c)
    BY <1>1, <1>3, <1>4, <1>5 DEF Shape
  <1> QED
    BY <1>6 DEF c

(* A call begins. *)
LEMMA CallBegins == ASSUME IInv, NEW t \in Tasks, Call(t) PROVE IInv'
  <1>1. PICK op \in uses[t] \ {"sync"}, name \in Names :
          call' = [call EXCEPT ![t].pc = "find", ![t].op = op, ![t].name = name]
    BY DEF Call
  <1> DEFINE c == [call[t] EXCEPT !.pc = "find", !.op = op, !.name = name]
  <1>2. call' = [call EXCEPT ![t] = c]
    BY <1>1
  <1>3. op \in {"chdir", "mkdir", "rmdir"}
    BY Known, InodeCacheAssumption DEF GoodSched
  <1>4. /\ call[t].pc = "user" /\ Shape(t, call[t]) /\ call[t] \in Calls
    BY Known DEF Call, At
  <1>5. /\ c.pc = "find" /\ c.op = op /\ c.place = call[t].place /\ c.slot = call[t].slot
        /\ c.empty = call[t].empty /\ c.asleep = call[t].asleep /\ c.pwd = call[t].pwd
        /\ c \in Calls
    BY <1>3, <1>4 DEF Calls, Labels, MaySleep
  <1> HIDE DEF c
  <1>6. Shape(t, c)
    BY <1>3, <1>4, <1>5 DEF Shape, Lookup, Freeing, Waiting
  <1>7. /\ c.pc \in Without /\ call[t].pc \in Without /\ c.pwd = call[t].pwd /\ c.pc # "iget"
        /\ UNCHANGED schedVars /\ UNCHANGED inodeVars /\ Continue /\ current = t
    BY <1>4, <1>5 DEF Without, Call, At, Runs
  <1> QED
    BY <1>2, <1>6, <1>7, WithoutStep

(* A sync begins. *)
LEMMA SyncStep == ASSUME IInv, NEW t \in Tasks, Sync(t) PROVE IInv'
  <1> DEFINE c == [call[t] EXCEPT !.pc = "sync_next", !.op = "sync", !.todo = Slots]
  <1>1. call' = [call EXCEPT ![t] = c]
    BY DEF Sync
  <1>2. call[t].pc = "user" /\ Shape(t, call[t]) /\ call[t] \in Calls /\ "sync" \in uses[t]
    BY Known DEF Sync, At
  <1>3. /\ c.pc = "sync_next" /\ c.op = "sync" /\ c.place = call[t].place /\ c.slot = call[t].slot
        /\ c.empty = call[t].empty /\ c.asleep = call[t].asleep /\ c.pwd = call[t].pwd
        /\ c \in Calls
    BY <1>2 DEF Calls, Labels
  <1> HIDE DEF c
  <1>4. Shape(t, c)
    BY <1>2, <1>3 DEF Shape, Lookup, Freeing, Waiting
  <1>5. /\ c.pc \in Without /\ call[t].pc \in Without /\ c.pwd = call[t].pwd /\ c.pc # "iget"
        /\ UNCHANGED schedVars /\ UNCHANGED inodeVars /\ Continue /\ current = t
    BY <1>2, <1>3 DEF Without, Sync, At, Runs
  <1> QED
    BY <1>1, <1>4, <1>5, WithoutStep

(* A call without an inode returns. *)
LEMMA ReturnStep ==
  ASSUME IInv, NEW t \in Tasks, Return(t), call[t].pc \in Without,
         UNCHANGED schedVars, UNCHANGED inodeVars, Continue, current = t
  PROVE  IInv'
  <1>1. /\ call[t].pwd \in Slots \union {NoSlot}
        /\ call[t].pwd # NoSlot => "chdir" \in uses[t]
    BY Known DEF Calls, Shape
  <1> DEFINE c == Caller(call[t].pwd)
  <1>2. Shape(t, c) /\ call' = [call EXCEPT ![t] = c]
    BY <1>1, CallerShape DEF Return
  <1>3. c.pc = "user" /\ c.pwd = call[t].pwd
    BY DEF Caller
  <1> HIDE DEF c
  <1>4. c.pc \in Without /\ c.pc # "iget"
    BY <1>3 DEF Without
  <1> QED
    BY <1>2, <1>3, <1>4, WithoutStep

(* find_entry. *)
LEMMA FindEntryStep == ASSUME IInv, NEW t \in Tasks, FindEntry(t) PROVE IInv'
  <1>1. /\ call[t].pc = "find" /\ Shape(t, call[t]) /\ call[t] \in Calls /\ current = t
        /\ UNCHANGED schedVars /\ UNCHANGED inodeVars /\ Continue
    BY Known DEF FindEntry, At, Runs
  <1>2. CASE Return(t)
    BY <1>1, <1>2, ReturnStep DEF Without
  <1>3. CASE call[t].op = "mkdir" /\ Goto(t, "new_inode")
    <2> DEFINE c == [call[t] EXCEPT !.pc = "new_inode"]
    <2>1. call' = [call EXCEPT ![t] = c]
      BY <1>3 DEF Goto
    <2>2. /\ c.pc = "new_inode" /\ c.op = "mkdir" /\ c.place = call[t].place /\ c.slot = call[t].slot
          /\ c.empty = call[t].empty /\ c.asleep = call[t].asleep /\ c.pwd = call[t].pwd
          /\ c \in Calls
      BY <1>1, <1>3 DEF Calls, Labels
    <2> HIDE DEF c
    <2>3. Shape(t, c)
      BY <1>1, <1>3, <2>2 DEF Shape, Lookup, Freeing, Waiting
    <2>4. c.pc \in Without /\ call[t].pc \in Without /\ c.pc # "iget" /\ c.pwd = call[t].pwd
      BY <1>1, <2>2 DEF Without
    <2> QED
      BY <1>1, <2>1, <2>3, <2>4, WithoutStep
  <1>4. ASSUME NEW p \in Places, p \in Entries(call[t].name), call[t].op # "mkdir",
               call' = [call EXCEPT ![t].pc = "iget", ![t].place = p, ![t].nr = dir[p].nr]
        PROVE  IInv'
    <2> DEFINE c == [call[t] EXCEPT !.pc = "iget", !.place = p, !.nr = dir[p].nr]
    <2>1. call' = [call EXCEPT ![t] = c]
      BY <1>4
    <2>2. dir[p].nr # 0 /\ dir[p].nr \in Numbers \union {0} /\ p # NoPlace
      BY <1>4, InodeCacheAssumption DEF Entries, IInv, GoodDisk, Places, NoPlace
    <2>3. /\ c.pc = "iget" /\ c.op = call[t].op /\ c.place = p /\ c.nr = dir[p].nr
          /\ c.slot = call[t].slot
          /\ c.empty = call[t].empty /\ c.asleep = call[t].asleep /\ c.pwd = call[t].pwd
          /\ c \in Calls
      BY <1>1, <2>2 DEF Calls, Labels
    <2> HIDE DEF c
    <2>4. Shape(t, c)
      BY <1>1, <1>4, <2>2, <2>3 DEF Shape, Lookup, Freeing, Waiting
    <2>5. /\ c.pc \in Without /\ call[t].pc \in Without /\ dir[c.place].nr = c.nr
          /\ c.pwd = call[t].pwd
      BY <1>1, <2>3 DEF Without
    <2> QED
      BY <1>1, <2>1, <2>4, <2>5, WithoutStep
  <1> QED
    BY <1>2, <1>3, <1>4 DEF FindEntry, First

(* sync_inodes chooses an inode, or ends. *)
LEMMA SyncNextStep == ASSUME IInv, NEW t \in Tasks, SyncNext(t) PROVE IInv'
  <1>1. /\ call[t].pc = "sync_next" /\ Shape(t, call[t]) /\ call[t] \in Calls /\ current = t
        /\ UNCHANGED schedVars /\ UNCHANGED inodeVars /\ Continue
    BY Known DEF SyncNext, At, Runs
  <1>2. CASE Return(t)
    BY <1>1, <1>2, ReturnStep DEF Without
  <1>3. ASSUME NEW s \in ToSync(t),
               call' = [call EXCEPT ![t].pc = "sync", ![t].slot = s, ![t].todo = @ \ {s}]
        PROVE  IInv'
    <2> DEFINE c == [call[t] EXCEPT !.pc = "sync", !.slot = s, !.todo = @ \ {s}]
    <2>1. call' = [call EXCEPT ![t] = c]
      BY <1>1, <1>3, Known
    <2>2. s \in Slots /\ s # NoSlot
      BY <1>1, <1>3, InodeCacheAssumption DEF ToSync, Calls
    <2>3. /\ c.pc = "sync" /\ c.op = call[t].op /\ c.place = call[t].place /\ c.slot = s
          /\ c.empty = call[t].empty /\ c.asleep = call[t].asleep /\ c.pwd = call[t].pwd
          /\ c \in Calls
      BY <1>1, <2>2 DEF Calls, Labels, Waiting
    <2> HIDE DEF c
    <2>4. Shape(t, c)
      BY <1>1, <2>2, <2>3 DEF Shape, Lookup, Freeing, Waiting
    <2>5. c.pc \in Without /\ call[t].pc \in Without /\ c.pc # "iget" /\ c.pwd = call[t].pwd
      BY <1>1, <2>3 DEF Without
    <2> QED
      BY <1>1, <2>1, <2>4, <2>5, WithoutStep
  <1> QED
    BY <1>2, <1>3 DEF SyncNext
-----------------------------------------------------------------------------
(* An inode that a call shares is a directory's: nobody is still reading it. *)
LEMMA SharedLinked ==
  ASSUME IInv, NEW t \in Tasks, Shared(call[t]), call[t].pc # "read"
  PROVE  /\ call[t].slot \in Slots /\ Mine(t) \in Inode
         /\ Mine(t).links = 2 /\ Mine(t).dir /\ Mine(t).count \in Nat \ {0}
         /\ Mine(t).num # 0 /\ Entered(Mine(t).num)
  <1>1. /\ call[t].slot \in Slots /\ Holds(call[t], call[t].slot) /\ Mine(t) \in Inode
        /\ Mine(t).num # 0 /\ Entered(Mine(t).num)
    BY Known, CallLabels, CallSlots DEF TaskOK, Fits, Shares, Mine
  <1>2. Mine(t).count \in Nat \ {0}
    BY <1>1, CountedUsers DEF IInv, Mine
  <1>3. ASSUME NEW v \in Tasks, call[v].pc = "read", call[v].slot = call[t].slot PROVE FALSE
    <2>1. Holds(call[v], call[t].slot)
      BY <1>3 DEF Holds, Looking
    <2>2. inode[call[t].slot].count = 1
      BY <1>3 DEF IInv, TaskOK, Fits, Locks, Mine
    <2>3. v = t
      BY <1>1, <2>1, <2>2, CountedUsers DEF IInv
    <2> QED
      BY <1>3, <2>3
  <1>4. SlotOK(call[t].slot)
    BY <1>1 DEF IInv, GoodInodes
  <1> QED
    BY <1>1, <1>2, <1>3, <1>4 DEF SlotOK, Mine

(* An inode that a call owns. *)
LEMMA PrivateOwned ==
  ASSUME IInv, NEW t \in Tasks, Private(call[t])
  PROVE  /\ call[t].slot \in Slots /\ call[t].slot # NoSlot /\ Mine(t) \in Inode
         /\ Holds(call[t], call[t].slot) /\ Owns(t, call[t], Mine(t))
         /\ Mine(t).num \in Numbers /\ ~Entered(Mine(t).num) /\ Mine(t).count = 1
         /\ \A u \in Tasks : u # t => ~Holds(call[u], call[t].slot)
  <1>1. call[t].slot \in Slots /\ call[t].slot # NoSlot /\ Holds(call[t], call[t].slot)
    BY Known, CallLabels, CallSlots
  <1>2. Mine(t) \in Inode /\ Owns(t, call[t], Mine(t))
    BY <1>1, Known DEF TaskOK, Fits, Mine
  <1>3. Mine(t).num \in Numbers /\ ~Entered(Mine(t).num) /\ Mine(t).count = 1
    BY <1>2 DEF Owns, Inode
  <1>4. \A u \in Tasks : u # t => ~Holds(call[u], call[t].slot)
    BY <1>1, <1>3, CountedUsers DEF IInv, Mine
  <1> QED
    BY <1>1, <1>2, <1>3, <1>4

(* What a task's inode has to be afterwards. *)
LEMMA FitsAfter ==
  ASSUME NEW t \in Tasks, NEW c, NEW i, call'[t] = c, inode'[c.slot] = i, dir' = dir,
         uses' = uses, current' = current, Fits(t, c, i)
  PROVE  Fits(t, call[t], Mine(t))'
  <1>1. Mine(t)' = i /\ (\A n : Entered(n)' <=> Entered(n)) /\ (NoOtherSync(t)' <=> NoOtherSync(t))
    BY DEF Mine, Entered, NoOtherSync
  <1>2. LooksUp(call[t], Mine(t))' /\ Locks(call[t], Mine(t))'
    BY <1>1 DEF Fits, LooksUp, Locks
  <1>3. Shares(call[t], Mine(t))'
    BY <1>1 DEF Fits, Shares
  <1>4. Owns(t, call[t], Mine(t))'
    BY <1>1 DEF Fits, Owns
  <1> QED
    BY <1>2, <1>3, <1>4 DEF Fits

(* A step of a call that keeps its inode, and changes none. *)
LEMMA HeldStep ==
  ASSUME IInv, NEW t \in Tasks, NEW c, call' = [call EXCEPT ![t] = c], Shape(t, c),
         c.slot = call[t].slot, c.pwd = call[t].pwd, c.empty = NoSlot, call[t].empty = NoSlot,
         c.pc \notin Looking, call[t].pc \notin Looking, ~Locking(c), ~Locking(call[t]),
         Fits(t, c, Mine(t)),
         UNCHANGED schedVars, UNCHANGED inodeVars, Continue, current = t
  PROVE  IInv'
  <1>1. call'[t] = c /\ TaskOK(t)
    BY Known
  <1>2. /\ inode' = inode /\ disk' = disk /\ imap' = imap /\ dir' = dir /\ uses' = uses
        /\ current' = current
    BY DEF inodeVars, Continue, schedVars
  <1>3. \A s \in Slots : Hold(c, s) = Hold(call[t], s)
    BY DEF Hold
  <1>4. Pwd(t)' /\ Empty(t)'
    BY <1>1, <1>2 DEF TaskOK, Pwd, Empty, Entered
  <1>5. inode'[c.slot] = Mine(t)
    BY <1>2 DEF Mine
  <1>6. Fits(t, call[t], Mine(t))'
    BY <1>1, <1>2, <1>5, FitsAfter
  <1>7. GoodSched'
    BY Known, SchedSame
  <1> QED
    BY <1>2, <1>3, <1>4, <1>6, <1>7, CallStep DEF TaskOK

(* A directory that has no entry left has one for every number but the new one: *)
(* there are fewer entries than numbers, and nobody calls sync.                 *)
LEMMA FullDirectory ==
  ASSUME IInv, Peace(uses), NEW t \in Tasks, call[t].pc = "add", FreePlaces = {}
  PROVE  \A v \in Tasks : "sync" \notin uses[v]
  <1> SUFFICES ASSUME NrInodes <= NrPlaces PROVE FALSE
    BY DEF Peace
  <1> DEFINE n == Mine(t).num
             T == Numbers \ {n}
             f == [p \in Places |-> dir[p].nr]
  <1>1. n \in Numbers /\ ~Entered(n)
    BY PrivateOwned DEF Private
  <1>2. NrInodes \in Nat \ {0} /\ NrPlaces \in Nat \ {0}
    BY InodeCacheAssumption
  <1>3. /\ IsFiniteSet(Numbers) /\ Cardinality(Numbers) = NrInodes
        /\ IsFiniteSet(Places) /\ Cardinality(Places) = NrPlaces
    BY <1>2, FS_Interval DEF Numbers, Places
  <1>4. IsFiniteSet(T) /\ Cardinality(T) = NrInodes - 1
    BY <1>1, <1>3, FS_RemoveElement
  <1>5. f \in [Places -> T]
    BY <1>1 DEF FreePlaces, Entered, IInv, GoodDisk
  <1>6. \A p, q \in Places : f[p] = f[q] => p = q
    BY DEF FreePlaces, IInv, InodesAccounted
  <1> HIDE DEF n, T, f
  <1>7. Cardinality(T) < Cardinality(Places)
    BY <1>2, <1>3, <1>4
  <1>8. \A g \in [Places -> T] : \E p, q \in Places : p # q /\ g[p] = g[q]
    BY <1>3, <1>4, <1>7, FS_PigeonHole
  <1> QED
    BY <1>5, <1>6, <1>8

(* mkdir gives its inode up. *)
LEMMA MkdirFailsStep == ASSUME IInv, Peace(uses), NEW t \in Tasks, MkdirFails(t) PROVE IInv'
  <1>1. /\ call[t] \in Calls /\ Shape(t, call[t]) /\ call[t].pc \in {"block", "fill", "add"}
        /\ call[t].pc = "add" => FreePlaces = {}
        /\ UNCHANGED schedVars /\ UNCHANGED inodeVars /\ Continue /\ current = t
    BY Known DEF MkdirFails, Runs
  <1> DEFINE c == [call[t] EXCEPT !.pc = "put_dir"]
  <1>2. call' = [call EXCEPT ![t] = c]
    BY DEF MkdirFails, Goto
  <1>3. /\ c.pc = "put_dir" /\ c.op = call[t].op /\ c.place = call[t].place /\ c.nr = call[t].nr
        /\ c.slot = call[t].slot /\ c.pwd = call[t].pwd /\ c.empty = call[t].empty
        /\ c.asleep = call[t].asleep /\ c \in Calls
    BY <1>1 DEF Calls, Labels, MaySleep
  <1> HIDE DEF c
  <1>4. /\ call[t].op = "mkdir" /\ call[t].place = NoPlace /\ call[t].empty = NoSlot
        /\ call[t].slot # NoSlot
    BY <1>1 DEF Shape
  <1>5. Shape(t, c)
    BY <1>1, <1>3, <1>4 DEF Shape, Lookup, Freeing, Waiting
  <1>6. /\ c.pc \notin Looking /\ call[t].pc \notin Looking /\ ~Locking(c) /\ ~Locking(call[t])
    BY <1>1, <1>3 DEF Looking, Locking
  <1>7. Private(call[t]) /\ Private(c) /\ ~Unlinked(c)
    BY <1>1, <1>3, <1>4 DEF Private, Unlinked, Freeing
  <1>8. Mine(t).dir => NoOtherSync(t)
    BY <1>1, <1>7, FullDirectory, PrivateOwned DEF Owns, NoOtherSync
  <1>9. Fits(t, c, Mine(t))
    BY <1>3, <1>7, <1>8, PrivateOwned
       DEF Fits, LooksUp, Locks, Shares, Owns, Shared, Lookup, Locking, Freeing
  <1> QED
    BY <1>1, <1>2, <1>3, <1>4, <1>5, <1>6, <1>9, HeldStep

(* What is refused, or not, of the inode that iget has returned. *)
LEMMA GotStep == ASSUME IInv, NEW t \in Tasks, Got(t) PROVE IInv'
  <1>1. /\ call[t] \in Calls /\ Shape(t, call[t]) /\ TaskOK(t) /\ call[t].pc = "got"
        /\ UNCHANGED schedVars /\ UNCHANGED inodeVars /\ Continue /\ current = t
    BY Known DEF Got, At, Runs
  <1>2. /\ call[t].op \in {"chdir", "rmdir"} /\ call[t].place # NoPlace /\ call[t].empty = NoSlot
        /\ call[t].slot # NoSlot
    BY <1>1 DEF Shape, Lookup, Calls
  <1>3. Shared(call[t])
    BY <1>1, <1>2 DEF Shared, Private, Freeing, Looking
  <1>4. CASE call[t].op = "rmdir" /\ Mine(t).count <= 1 /\ Goto(t, "is_empty")
    <2> DEFINE c == [call[t] EXCEPT !.pc = "is_empty"]
    <2>1. call' = [call EXCEPT ![t] = c]
      BY <1>4 DEF Goto
    <2>2. /\ c.pc = "is_empty" /\ c.op = call[t].op /\ c.place = call[t].place
          /\ c.nr = call[t].nr /\ c.slot = call[t].slot /\ c.pwd = call[t].pwd
          /\ c.empty = call[t].empty /\ c.asleep = call[t].asleep /\ c \in Calls
      BY <1>1 DEF Calls, Labels, MaySleep
    <2> HIDE DEF c
    <2>3. Shape(t, c)
      BY <1>1, <1>2, <1>4, <2>2 DEF Shape, Lookup, Freeing, Waiting
    <2>4. /\ c.pc \notin Looking /\ call[t].pc \notin Looking /\ ~Locking(c) /\ ~Locking(call[t])
      BY <1>1, <2>2 DEF Looking, Locking
    <2>5. Mine(t).count = 1
      BY <1>1, <1>3, <1>4, SharedLinked
    <2>6. Fits(t, c, Mine(t))
      BY <1>1, <1>3, <2>2, <2>5, SharedLinked
         DEF TaskOK, Fits, LooksUp, Locks, Shares, Owns, Shared, Private, Lookup, Locking, Freeing
    <2> QED
      BY <1>1, <1>2, <2>1, <2>2, <2>3, <2>4, <2>6, HeldStep
  <1>5. CASE call' = [call EXCEPT ![t].pc = "put_dir", ![t].place = NoPlace]
    <2> DEFINE c == [call[t] EXCEPT !.pc = "put_dir", !.place = NoPlace]
    <2>1. call' = [call EXCEPT ![t] = c]
      BY <1>5
    <2>2. /\ c.pc = "put_dir" /\ c.op = call[t].op /\ c.place = NoPlace
          /\ c.nr = call[t].nr /\ c.slot = call[t].slot /\ c.pwd = call[t].pwd
          /\ c.empty = call[t].empty /\ c.asleep = call[t].asleep /\ c \in Calls
      BY <1>1 DEF Calls, Labels, MaySleep
    <2> HIDE DEF c
    <2>3. Shape(t, c)
      BY <1>1, <1>2, <2>2 DEF Shape, Lookup, Freeing, Waiting
    <2>4. /\ c.pc \notin Looking /\ call[t].pc \notin Looking /\ ~Locking(c) /\ ~Locking(call[t])
      BY <1>1, <2>2 DEF Looking, Locking
    <2>5. Fits(t, c, Mine(t))
      BY <1>1, <1>2, <1>3, <2>2, SharedLinked
         DEF TaskOK, Fits, LooksUp, Locks, Shares, Owns, Shared, Private, Lookup, Locking, Freeing
    <2> QED
      BY <1>1, <1>2, <2>1, <2>2, <2>3, <2>4, <2>5, HeldStep
  <1>6. Mine(t).count \in Nat \ {0}
    BY <1>1, <1>3, SharedLinked
  <1> QED
    BY <1>4, <1>5, <1>6 DEF Got

(* The directory is not empty. *)
LEMMA NotEmptyStep == ASSUME IInv, NEW t \in Tasks, NotEmpty(t) PROVE IInv'
  <1>1. /\ call[t] \in Calls /\ Shape(t, call[t]) /\ TaskOK(t) /\ call[t].pc = "is_empty"
        /\ UNCHANGED schedVars /\ UNCHANGED inodeVars /\ Continue /\ current = t
    BY Known DEF NotEmpty, At, Runs
  <1>2. /\ call[t].op = "rmdir" /\ call[t].empty = NoSlot /\ call[t].slot # NoSlot
    BY <1>1 DEF Shape
  <1>3. Shared(call[t])
    BY <1>1, <1>2 DEF Shared, Private, Freeing, Looking
  <1> DEFINE c == [call[t] EXCEPT !.pc = "put_dir", !.place = NoPlace]
  <1>4. call' = [call EXCEPT ![t] = c]
    BY DEF NotEmpty
  <1>5. /\ c.pc = "put_dir" /\ c.op = call[t].op /\ c.place = NoPlace
        /\ c.nr = call[t].nr /\ c.slot = call[t].slot /\ c.pwd = call[t].pwd
        /\ c.empty = call[t].empty /\ c.asleep = call[t].asleep /\ c \in Calls
    BY <1>1 DEF Calls, Labels, MaySleep
  <1> HIDE DEF c
  <1>6. Shape(t, c)
    BY <1>1, <1>2, <1>5 DEF Shape, Lookup, Freeing, Waiting
  <1>7. /\ c.pc \notin Looking /\ call[t].pc \notin Looking /\ ~Locking(c) /\ ~Locking(call[t])
    BY <1>1, <1>5 DEF Looking, Locking
  <1>8. Fits(t, c, Mine(t))
    BY <1>1, <1>2, <1>3, <1>5, SharedLinked
       DEF TaskOK, Fits, LooksUp, Locks, Shares, Owns, Shared, Private, Lookup, Locking, Freeing
  <1> QED
    BY <1>1, <1>2, <1>4, <1>5, <1>6, <1>7, <1>8, HeldStep

(* rmdir and mkdir let go of the root. *)
LEMMA PutDirOnlyStep ==
  ASSUME IInv, NEW t \in Tasks, call[t].pc = "put_dir", Goto(t, "iput"),
         call[t].op = "rmdir" \/ (call[t].op = "mkdir" /\ call[t].place # NoPlace),
         UNCHANGED schedVars, UNCHANGED inodeVars, Continue, current = t
  PROVE  IInv'
  <1>1. /\ call[t] \in Calls /\ Shape(t, call[t]) /\ TaskOK(t)
        /\ call[t].empty = NoSlot /\ call[t].slot # NoSlot
    BY Known DEF Shape
  <1> DEFINE c == [call[t] EXCEPT !.pc = "iput"]
  <1>2. call' = [call EXCEPT ![t] = c]
    BY DEF Goto
  <1>3. /\ c.pc = "iput" /\ c.op = call[t].op /\ c.place = call[t].place
        /\ c.nr = call[t].nr /\ c.slot = call[t].slot /\ c.pwd = call[t].pwd
        /\ c.empty = call[t].empty /\ c.asleep = call[t].asleep /\ c \in Calls
    BY <1>1 DEF Calls, Labels, Waiting
  <1> HIDE DEF c
  <1>4. Shape(t, c)
    BY <1>1, <1>3 DEF Shape, Lookup, Freeing, Waiting
  <1>5. /\ c.pc \notin Looking /\ call[t].pc \notin Looking /\ ~Locking(c) /\ ~Locking(call[t])
    BY <1>3 DEF Looking, Locking
  <1>6. (Private(c) <=> Private(call[t])) /\ (Shared(c) <=> Shared(call[t]))
    BY <1>3 DEF Private, Shared, Looking, Freeing
  <1>7. Private(c) => Unlinked(call[t])
    BY <1>3 DEF Private, Unlinked, Freeing
  <1>8. Fits(t, c, Mine(t))
    BY <1>1, <1>3, <1>6, <1>7
       DEF TaskOK, Fits, LooksUp, Locks, Shares, Owns, Lookup, Locking, Freeing
  <1> QED
    BY <1>1, <1>2, <1>3, <1>4, <1>5, <1>8, HeldStep

(* iput finds that the inode has to be freed. *)
LEMMA IputFreesStep ==
  ASSUME IInv, NEW t \in Tasks, call[t].pc \in {"iput", "iput_again"}, ~call[t].asleep,
         ~Mine(t).lock, Mine(t).links = 0,
         Goto(t, IF Mine(t).dir THEN "truncate" ELSE "free_now"),
         UNCHANGED schedVars, UNCHANGED inodeVars, Continue, current = t
  PROVE  IInv'
  <1>1. /\ call[t] \in Calls /\ Shape(t, call[t]) /\ TaskOK(t)
        /\ call[t].empty = NoSlot /\ call[t].slot # NoSlot
    BY Known DEF Shape
  <1>2. Private(call[t])
    <2>1. ~Shared(call[t])
      BY SharedLinked
    <2> QED
      BY <1>1, <2>1 DEF Shared, Looking
  <1>3. call[t].pc = "iput" /\ call[t].op \in {"mkdir", "rmdir"}
    BY <1>2 DEF Private, Freeing
  <1> DEFINE l == IF Mine(t).dir THEN "truncate" ELSE "free_now"
             c == [call[t] EXCEPT !.pc = l]
  <1>4. call' = [call EXCEPT ![t] = c]
    BY DEF Goto
  <1>5. /\ c.pc = l /\ c.op = call[t].op /\ c.place = call[t].place
        /\ c.nr = call[t].nr /\ c.slot = call[t].slot /\ c.pwd = call[t].pwd
        /\ c.empty = call[t].empty /\ c.asleep = call[t].asleep /\ c \in Calls
    BY <1>1 DEF Calls, Labels, MaySleep
  <1>6. /\ l \in {"truncate", "free_now"}
        /\ l = "truncate" <=> Mine(t).dir
    OBVIOUS
  <1> HIDE DEF c, l
  <1>7. Shape(t, c)
    BY <1>1, <1>3, <1>5, <1>6 DEF Shape, Lookup, Freeing, Waiting
  <1>8. /\ c.pc \notin Looking /\ call[t].pc \notin Looking /\ ~Locking(c) /\ ~Locking(call[t])
    BY <1>3, <1>5, <1>6 DEF Looking, Locking
  <1>9. Private(c) /\ ~Shared(c) /\ c.pc \notin Lookup
    BY <1>5, <1>6 DEF Private, Shared, Freeing, Lookup
  <1>10. Fits(t, c, Mine(t))
    BY <1>2, <1>3, <1>5, <1>6, <1>8, <1>9, PrivateOwned
       DEF Fits, LooksUp, Locks, Shares, Owns, Lookup, Locking, Freeing
  <1> QED
    BY <1>1, <1>4, <1>5, <1>7, <1>8, <1>10, HeldStep
-----------------------------------------------------------------------------
(* chdir("/"). *)
LEMMA ChdirRootStep == ASSUME IInv, NEW t \in Tasks, ChdirRoot(t) PROVE IInv'
  <1>1. /\ call[t] \in Calls /\ Shape(t, call[t]) /\ TaskOK(t) /\ call[t].pc = "user"
        /\ UNCHANGED schedVars /\ UNCHANGED inodeVars /\ Continue /\ current = t
        /\ "chdir" \in uses[t] /\ call[t].pwd # NoSlot
    BY Known DEF ChdirRoot, At, Runs
  <1>2. /\ inode' = inode /\ disk' = disk /\ imap' = imap /\ dir' = dir /\ uses' = uses
        /\ current' = current
    BY <1>1 DEF inodeVars, Continue, schedVars
  <1>3. call[t].slot = NoSlot /\ call[t].empty = NoSlot
    BY <1>1 DEF Shape
  <1> DEFINE c == [call[t] EXCEPT !.pc = "iput", !.op = "chdir", !.slot = call[t].pwd, !.pwd = NoSlot]
  <1>4. call' = [call EXCEPT ![t] = c]
    BY DEF ChdirRoot
  <1>5. /\ c.pc = "iput" /\ c.op = "chdir" /\ c.place = call[t].place
        /\ c.slot = call[t].pwd /\ c.pwd = NoSlot /\ c.nr = call[t].nr
        /\ c.empty = call[t].empty /\ c.asleep = call[t].asleep /\ c \in Calls
    BY <1>1 DEF Calls, Labels, Waiting
  <1> HIDE DEF c
  <1>6. Shape(t, c)
    BY <1>1, <1>3, <1>5 DEF Shape, Lookup, Freeing, Waiting
  <1>7. \A s \in Slots : Hold(c, s) = Hold(call[t], s)
    <2>1. "iput" \notin Looking /\ NoSlot \notin Slots
      BY Known DEF Looking
    <2> QED
      BY <1>3, <1>5, <2>1 DEF Hold
  <1>8. ~Locking(c) /\ ~Locking(call[t])
    BY <1>1, <1>5 DEF Locking
  <1>9. Fits(t, c, inode[c.slot])
    BY <1>1, <1>5 DEF TaskOK, Pwd, Fits, LooksUp, Locks, Shares, Owns, Lookup, Locking,
                      Freeing, Private
  <1>10. call'[t] = c
    BY <1>4, Known
  <1>11. Fits(t, call[t], Mine(t))'
    BY <1>2, <1>9, <1>10, FitsAfter
  <1>12. Pwd(t)' /\ Empty(t)'
    BY <1>3, <1>5, <1>10 DEF Pwd, Empty
  <1>13. GoodSched'
    BY <1>1, Known, SchedSame
  <1> QED
    BY <1>1, <1>2, <1>4, <1>6, <1>7, <1>8, <1>11, <1>12, <1>13, CallStep DEF TaskOK

(* iget has found its number, or has to look for it again. *)
LEMMA SearchStep ==
  ASSUME IInv, NEW t \in Tasks, NEW c, call' = [call EXCEPT ![t] = c],
         call[t].pc \in {"search", "search_wait"}, ~call[t].asleep,
         NEW slot \in Slots \union {NoSlot}, NEW pc \in {"search", "search_wait"},
         pc = "search" <=> slot = NoSlot,
         c = [call[t] EXCEPT !.pc = pc, !.slot = slot],
         UNCHANGED schedVars, UNCHANGED inodeVars, Continue, current = t
  PROVE  IInv'
  <1>1. /\ call[t] \in Calls /\ Shape(t, call[t]) /\ TaskOK(t) /\ NoSlot \notin Slots
    BY Known
  <1>2. /\ inode' = inode /\ disk' = disk /\ imap' = imap /\ dir' = dir /\ uses' = uses
        /\ current' = current
    BY DEF inodeVars, Continue, schedVars
  <1>3. /\ c.pc = pc /\ c.op = call[t].op /\ c.place = call[t].place
        /\ c.slot = slot /\ c.pwd = call[t].pwd /\ c.nr = call[t].nr
        /\ c.empty = call[t].empty /\ c.asleep = call[t].asleep /\ c \in Calls
    BY <1>1 DEF Calls, Labels, Waiting
  <1>4. Shape(t, c)
    BY <1>1, <1>3 DEF Shape, Lookup, Freeing
  <1>5. \A s \in Slots : Hold(c, s) = Hold(call[t], s)
    <2> SUFFICES ASSUME NEW s \in Slots PROVE Hold(c, s) = Hold(call[t], s)
      OBVIOUS
    <2>1. ~(c.slot = s /\ c.pc \notin Looking)
      BY <1>1, <1>3 DEF Looking
    <2>2. ~(call[t].slot = s /\ call[t].pc \notin Looking)
      BY <1>1 DEF Looking, Shape
    <2> QED
      BY <1>3, <2>1, <2>2 DEF Hold
  <1>6. ~Locking(c) /\ ~Locking(call[t])
    BY <1>1, <1>3 DEF Locking
  <1>7. Fits(t, c, inode[c.slot])
    BY <1>1, <1>3, <1>6 DEF TaskOK, Fits, LooksUp, Locks, Shares, Owns, Lookup,
                      Freeing, Private, Shared, Looking
  <1>8. call'[t] = c
    BY Known
  <1>9. Fits(t, call[t], Mine(t))'
    BY <1>2, <1>7, <1>8, FitsAfter
  <1>10. Pwd(t)' /\ Empty(t)'
    BY <1>1, <1>2, <1>3, <1>8 DEF TaskOK, Pwd, Empty, Entered
  <1>11. GoodSched'
    BY Known, SchedSame
  <1> QED
    BY <1>2, <1>4, <1>5, <1>6, <1>9, <1>10, <1>11, CallStep DEF TaskOK

(* iget has found its number. *)
LEMMA SearchFoundStep == ASSUME IInv, NEW t \in Tasks, SearchFound(t) PROVE IInv'
  <1>1. PICK s \in Slots : call' = [call EXCEPT ![t].pc = "search_wait", ![t].slot = s]
    BY DEF SearchFound, WithNumber
  <1>2. /\ call[t].pc = "search" /\ ~call[t].asleep /\ current = t /\ s # NoSlot
        /\ UNCHANGED schedVars /\ UNCHANGED inodeVars /\ Continue
    BY Known DEF SearchFound, At, Runs, Shape, Waiting
  <1>3. call' = [call EXCEPT ![t] = [call[t] EXCEPT !.pc = "search_wait", !.slot = s]]
    BY <1>1
  <1> QED
    BY <1>2, <1>3, SearchStep

(* What a step that keeps the number and the count of an inode does to it. *)
Keeps(t, c, s, r) ==
  /\ r.num = inode[s].num /\ r.count = inode[s].count /\ r.count # 0 /\ r.num # 0
  /\ Beside(t, s, r)
  /\ ~Locking(call[t]) /\ (Locking(c) => c.slot = s /\ ~inode[s].lock)
  /\ r.lock => inode[s].lock \/ Locking(c)
  /\ r.dirt \/ r.lock \/ r.links = 0
  /\ Entered(r.num) => /\ r.links = inode[s].links /\ r.dir = inode[s].dir
                       /\ inode[s].dirt => r.dirt

(* A step that keeps the number and the count of an inode. *)
LEMMA KeepSlotStep ==
  ASSUME IInv, NEW t \in Tasks, NEW c, Shape(t, c), call' = [call EXCEPT ![t] = c],
         NEW s \in Slots, NEW r \in Inode, inode' = [inode EXCEPT ![s] = r],
         UNCHANGED <<disk, imap, dir>>, UNCHANGED schedVars, Continue, current = t,
         \A x \in Slots : Hold(c, x) = Hold(call[t], x),
         Keeps(t, c, s, r), c.empty = NoSlot,
         c.pwd # NoSlot => c.pwd \in Slots /\ inode[c.pwd].num # 0 /\ Entered(inode[c.pwd].num),
         Fits(t, c, inode'[c.slot])
  PROVE  IInv'
  <1>1. /\ disk' = disk /\ imap' = imap /\ dir' = dir /\ uses' = uses /\ current' = current
        /\ GoodSched'
    BY Known, SchedSame DEF Continue, schedVars
  <1>2. inode \in [Slots -> Inode] /\ inode'[s] = r /\ call'[t] = c
    BY Known
  <1>3. \A x \in Slots : inode'[x].num = inode[x].num
    BY <1>2 DEF Keeps
  <1>4. Fits(t, call[t], Mine(t))'
    BY <1>1, <1>2, FitsAfter
  <1>5. Pwd(t)' /\ Empty(t)'
    BY <1>1, <1>2, <1>3 DEF Pwd, Empty, Entered
  <1>6. SlotOK(s)'
    <2>1. SlotOK(s)
      BY DEF IInv, GoodInodes
    <2>2. \A u \in Tasks : Locking(call[u]) => call'[u] = call[u]
      BY Known DEF Keeps
    <2>3. \A u \in Tasks : call[u].pc = "read" => call'[u] = call[u]
      BY <2>2 DEF Locking
    <2>4. r.lock => \E u \in Tasks : Locking(call'[u]) /\ call'[u].slot = s
      <3>1. CASE inode[s].lock
        BY <2>1, <2>2, <3>1 DEF SlotOK
      <3>2. CASE Locking(c) /\ c.slot = s
        BY <1>2, <3>2
      <3> QED
        BY <3>1, <3>2 DEF Keeps
    <2>5. Entered(r.num) => \/ r.links = 2 /\ r.dir
                            \/ \E u \in Tasks : call'[u].pc = "read" /\ call'[u].slot = s
      BY <2>1, <2>3 DEF SlotOK, Keeps
    <2>6. r.num \in imap /\ r.num # 0 /\ r.count # 0
      BY <2>1 DEF SlotOK, Keeps
    <2> QED
      BY <1>1, <1>2, <2>4, <2>5, <2>6 DEF SlotOK, Entered
  <1>7. LockGoesOn(t, c, s)
    BY DEF Keeps, LockGoesOn
  <1>8. CountGoesOn(t, c, s, r)
    <2>1. r.count = inode[s].count /\ r.count # 0 /\ r.count \in Nat
      BY DEF Keeps, Inode
    <2>2. Hold(c, s) = Hold(call[t], s)
      OBVIOUS
    <2> QED
      BY <2>1, <2>2 DEF CountGoesOn
  <1>9. DiskGoesOn(s, r)
    BY <1>1 DEF Keeps, DiskGoesOn
  <1>10. Beside(t, s, r)
    BY DEF Keeps
  <1> QED
    BY <1>1, <1>4, <1>5, <1>6, <1>7, <1>8, <1>9, <1>10, SlotStep DEF TaskOK

(* sync_inodes passes an inode over, or begins to write it. *)
LEMMA SyncInodeStep == ASSUME IInv, NEW t \in Tasks, SyncInode(t) PROVE IInv'
  <1> DEFINE s == call[t].slot
  <1>1. /\ call[t] \in Calls /\ Shape(t, call[t]) /\ TaskOK(t) /\ call[t].pc = "sync"
        /\ UNCHANGED schedVars /\ Continue /\ current = t /\ ~call[t].asleep /\ ~Mine(t).lock
    BY Known DEF SyncInode, Waited, At, Runs
  <1>2. /\ call[t].op = "sync" /\ "sync" \in uses[t] /\ call[t].empty = NoSlot
        /\ s \in Slots /\ s # NoSlot /\ inode \in [Slots -> Inode]
    BY <1>1, Known, CallSlots DEF Shape
  <1>3. ASSUME Mine(t).dirt, Mine(t).num # 0, Goto(t, "sync_disk"),
               Set(s, [Mine(t) EXCEPT !.lock = TRUE]), UNCHANGED <<disk, imap, dir>>
        PROVE  IInv'
    <2> DEFINE r == [inode[s] EXCEPT !.lock = TRUE]
               c == [call[t] EXCEPT !.pc = "sync_disk"]
    <2>1. call' = [call EXCEPT ![t] = c] /\ inode' = [inode EXCEPT ![s] = r]
      BY <1>3 DEF Goto, Set, Mine
    <2>2. /\ c.pc = "sync_disk" /\ c.op = call[t].op /\ c.place = call[t].place
          /\ c.slot = s /\ c.pwd = call[t].pwd /\ c.nr = call[t].nr
          /\ c.empty = call[t].empty /\ c.asleep = call[t].asleep /\ c \in Calls
      BY <1>1 DEF Calls, Labels, MaySleep
    <2>3. /\ r \in Inode /\ r.num = inode[s].num /\ r.count = inode[s].count /\ r.lock
          /\ r.dirt = inode[s].dirt /\ r.links = inode[s].links /\ r.dir = inode[s].dir
      BY <1>2 DEF Inode
    <2>4. /\ ~inode[s].lock /\ inode[s].dirt /\ inode[s].num # 0
      BY <1>1, <1>3 DEF Mine
    <2>5. inode[s].count # 0
      BY <1>2, <2>4 DEF IInv, GoodInodes, SlotOK
    <2> HIDE DEF r, c
    <2>6. Shape(t, c)
      BY <1>1, <1>2, <2>2 DEF Shape, Lookup, Freeing, Waiting
    <2>7. \A x \in Slots : Hold(c, x) = Hold(call[t], x)
      BY <1>1, <2>2 DEF Hold, Looking
    <2>8. Keeps(t, c, s, r)
      BY <1>1, <1>2, <2>2, <2>3, <2>4, <2>5 DEF Keeps, Beside, Locking
    <2>9. Fits(t, c, r)
      BY <2>2, <2>3, <2>4
         DEF Fits, LooksUp, Locks, Shares, Owns, Lookup, Locking, Freeing, Private, Shared, Looking
    <2>10. Fits(t, c, inode'[c.slot])
      BY <1>2, <2>1, <2>2, <2>9
    <2>11. c.pwd # NoSlot => c.pwd \in Slots /\ inode[c.pwd].num # 0 /\ Entered(inode[c.pwd].num)
      BY <1>1, <2>2, Known, CallSlots DEF TaskOK, Pwd
    <2>12. /\ UNCHANGED <<disk, imap, dir>> /\ UNCHANGED schedVars /\ Continue /\ current = t
           /\ s \in Slots /\ c.empty = NoSlot /\ r \in Inode
      BY <1>1, <1>2, <1>3, <2>2, <2>3
    <2> HIDE DEF s
    <2> QED
      BY <2>1, <2>6, <2>7, <2>8, <2>10, <2>11, <2>12, KeepSlotStep
  <1>4. ASSUME Synced(t), UNCHANGED inode, UNCHANGED <<disk, imap, dir>>
        PROVE  IInv'
    <2> DEFINE c == [call[t] EXCEPT !.pc = "sync_next", !.slot = NoSlot]
    <2>1. call' = [call EXCEPT ![t] = c]
      BY <1>4 DEF Synced
    <2>2. /\ c.pc = "sync_next" /\ c.op = call[t].op /\ c.place = call[t].place
          /\ c.slot = NoSlot /\ c.pwd = call[t].pwd /\ c.nr = call[t].nr
          /\ c.empty = call[t].empty /\ c.asleep = call[t].asleep /\ c \in Calls
      BY <1>1 DEF Calls, Labels
    <2> HIDE DEF c
    <2>3. Shape(t, c)
      BY <1>1, <1>2, <2>2 DEF Shape, Lookup, Freeing, Waiting
    <2>4. /\ c.pc \in Without /\ call[t].pc \in Without /\ c.pc # "iget" /\ c.pwd = call[t].pwd
          /\ UNCHANGED inodeVars
      BY <1>1, <1>4, <2>2 DEF Without, inodeVars
    <2> QED
      BY <1>1, <2>1, <2>3, <2>4, WithoutStep
  <1> QED
    BY <1>3, <1>4 DEF SyncInode

(* A call that owns its inode changes it and goes on. *)
LEMMA OwnStep ==
  ASSUME IInv, NEW t \in Tasks, Private(call[t]), NEW pc \in Labels, Goto(t, pc),
         NEW r \in Inode, Set(call[t].slot, r),
         Shape(t, [call[t] EXCEPT !.pc = pc]), pc \notin Looking, pc \notin {"read", "iput_disk"},
         r.num = Mine(t).num, r.count = Mine(t).count, r.lock = Mine(t).lock,
         Mine(t).dirt => r.dirt, r.dirt \/ r.links = 0,
         Fits(t, [call[t] EXCEPT !.pc = pc], r),
         UNCHANGED <<disk, imap, dir>>, UNCHANGED schedVars, Continue, current = t
  PROVE  IInv'
  <1> DEFINE s == call[t].slot
             c == [call[t] EXCEPT !.pc = pc]
  <1>1. /\ call[t] \in Calls /\ Shape(t, call[t]) /\ TaskOK(t) /\ inode \in [Slots -> Inode]
        /\ s \in Slots /\ s # NoSlot /\ Holds(call[t], s)
        /\ Mine(t).num \in Numbers /\ ~Entered(Mine(t).num) /\ Mine(t).count = 1
        /\ call[t].pc \notin Looking
    BY Known, PrivateOwned, CallLabels
  <1>2. call' = [call EXCEPT ![t] = c] /\ inode' = [inode EXCEPT ![s] = r]
    BY DEF Goto, Set
  <1>3. /\ c.pc = pc /\ c.op = call[t].op /\ c.place = call[t].place
        /\ c.slot = s /\ c.pwd = call[t].pwd /\ c.nr = call[t].nr
        /\ c.empty = call[t].empty /\ c.asleep = call[t].asleep
    BY <1>1 DEF Calls
  <1>4. Shape(t, c) /\ Fits(t, c, r)
    OBVIOUS
  <1> HIDE DEF c
  <1>5. call[t].empty = NoSlot /\ ~Locking(call[t]) /\ ~Locking(c)
    BY <1>1, <1>3 DEF Shape, Private, Freeing, Locking, Looking
  <1>6. \A x \in Slots : Hold(c, x) = Hold(call[t], x)
    BY <1>1, <1>3 DEF Hold
  <1>7. /\ r.num = inode[s].num /\ r.count = inode[s].count /\ r.lock = inode[s].lock
        /\ inode[s].dirt => r.dirt
        /\ inode[s].num \in Numbers /\ ~Entered(inode[s].num) /\ inode[s].count = 1
    BY <1>1 DEF Mine
  <1>8. inode[s].num # 0
    BY <1>7 DEF Numbers
  <1>9. Keeps(t, c, s, r)
    BY <1>1, <1>5, <1>7, <1>8 DEF Keeps, Beside
  <1>10. Fits(t, c, inode'[c.slot])
    BY <1>1, <1>2, <1>3, <1>4
  <1>11. c.pwd # NoSlot => c.pwd \in Slots /\ inode[c.pwd].num # 0 /\ Entered(inode[c.pwd].num)
    BY <1>1, <1>3, Known, CallSlots DEF TaskOK, Pwd
  <1> HIDE DEF s
  <1> QED
    BY <1>1, <1>2, <1>3, <1>4, <1>5, <1>6, <1>9, <1>10, <1>11, KeepSlotStep

(* mkdir: new_block. *)
LEMMA NewBlockStep == ASSUME IInv, NEW t \in Tasks, NewBlock(t) PROVE IInv'
  <1> DEFINE c == [call[t] EXCEPT !.pc = "fill"]
             r == [Mine(t) EXCEPT !.dirt = TRUE]
  <1>1. /\ call[t] \in Calls /\ Shape(t, call[t]) /\ call[t].pc = "block" /\ current = t
    BY Known DEF NewBlock, At, Runs
  <1>2. Private(call[t]) /\ call[t].op = "mkdir" /\ "fill" \in Labels
    BY <1>1 DEF Private, Shape, Labels, MaySleep
  <1>3. Mine(t) \in Inode /\ Owns(t, call[t], Mine(t))
    BY <1>2, PrivateOwned
  <1>4. /\ c.pc = "fill" /\ c.op = call[t].op /\ c.place = call[t].place
        /\ c.slot = call[t].slot /\ c.pwd = call[t].pwd /\ c.nr = call[t].nr
        /\ c.empty = call[t].empty /\ c.asleep = call[t].asleep /\ c \in Calls
    BY <1>1, <1>2 DEF Calls
  <1>5. /\ r \in Inode /\ r.num = Mine(t).num /\ r.count = Mine(t).count /\ r.lock = Mine(t).lock
        /\ r.dirt /\ r.links = Mine(t).links /\ r.dir = Mine(t).dir
    BY <1>3 DEF Inode
  <1>6. Goto(t, "fill") /\ Set(call[t].slot, r) /\ UNCHANGED <<disk, imap, dir>>
        /\ UNCHANGED schedVars /\ Continue
    BY DEF NewBlock
  <1> HIDE DEF c, r
  <1>7. Shape(t, c)
    BY <1>1, <1>4 DEF Shape, Lookup, Freeing, Waiting
  <1>8. Fits(t, c, r)
    BY <1>1, <1>2, <1>3, <1>4, <1>5
       DEF Fits, LooksUp, Locks, Shares, Owns, Lookup, Locking, Freeing, Private, Shared, Unlinked
  <1>9. "fill" \notin Looking
    BY DEF Looking
  <1> QED
    BY <1>1, <1>2, <1>5, <1>6, <1>7, <1>8, <1>9, OwnStep DEF c

(* mkdir: the directory's first block. *)
LEMMA FillBlockStep == ASSUME IInv, NEW t \in Tasks, FillBlock(t) PROVE IInv'
  <1> DEFINE c == [call[t] EXCEPT !.pc = "add"]
             r == [Mine(t) EXCEPT !.links = 2, !.dir = TRUE, !.dirt = TRUE]
  <1>1. /\ call[t] \in Calls /\ Shape(t, call[t]) /\ call[t].pc = "fill" /\ current = t
    BY Known DEF FillBlock, At, Runs
  <1>2. Private(call[t]) /\ call[t].op = "mkdir" /\ "add" \in Labels
    BY <1>1 DEF Private, Shape, Labels, MaySleep
  <1>3. Mine(t) \in Inode /\ Owns(t, call[t], Mine(t))
    BY <1>2, PrivateOwned
  <1>4. /\ c.pc = "add" /\ c.op = call[t].op /\ c.place = call[t].place
        /\ c.slot = call[t].slot /\ c.pwd = call[t].pwd /\ c.nr = call[t].nr
        /\ c.empty = call[t].empty /\ c.asleep = call[t].asleep /\ c \in Calls
    BY <1>1, <1>2 DEF Calls
  <1>5. /\ r \in Inode /\ r.num = Mine(t).num /\ r.count = Mine(t).count /\ r.lock = Mine(t).lock
        /\ r.dirt /\ r.links = 2 /\ r.dir
    <2>1. 2 \in 0 .. 2
      OBVIOUS
    <2> QED
      BY <1>3, <2>1 DEF Inode
  <1>6. Goto(t, "add") /\ Set(call[t].slot, r) /\ UNCHANGED <<disk, imap, dir>>
        /\ UNCHANGED schedVars /\ Continue
    BY DEF FillBlock
  <1> HIDE DEF c, r
  <1>7. Shape(t, c)
    BY <1>1, <1>4 DEF Shape, Lookup, Freeing, Waiting
  <1>8. Fits(t, c, r)
    BY <1>1, <1>2, <1>3, <1>4, <1>5
       DEF Fits, LooksUp, Locks, Shares, Owns, Lookup, Locking, Freeing, Private, Shared, Unlinked
  <1>9. "add" \notin Looking
    BY DEF Looking
  <1> QED
    BY <1>1, <1>2, <1>5, <1>6, <1>7, <1>8, <1>9, OwnStep DEF c

(* truncate gives way. *)
LEMMA TruncateStep == ASSUME IInv, NEW t \in Tasks, Truncate(t) PROVE IInv'
  <1> DEFINE c == [call[t] EXCEPT !.pc = "free"]
             r == [Mine(t) EXCEPT !.dirt = TRUE]
  <1>1. /\ call[t] \in Calls /\ Shape(t, call[t]) /\ call[t].pc = "truncate" /\ current = t
    BY Known DEF Truncate, At, Runs
  <1>2. Private(call[t]) /\ "free" \in Labels
    BY <1>1 DEF Private, Labels, MaySleep, Freeing
  <1>3. Mine(t) \in Inode /\ Owns(t, call[t], Mine(t))
    BY <1>2, PrivateOwned
  <1>4. /\ c.pc = "free" /\ c.op = call[t].op /\ c.place = call[t].place
        /\ c.slot = call[t].slot /\ c.pwd = call[t].pwd /\ c.nr = call[t].nr
        /\ c.empty = call[t].empty /\ c.asleep = call[t].asleep /\ c \in Calls
    BY <1>1, <1>2 DEF Calls
  <1>5. /\ r \in Inode /\ r.num = Mine(t).num /\ r.count = Mine(t).count /\ r.lock = Mine(t).lock
        /\ r.dirt /\ r.links = Mine(t).links /\ r.dir = Mine(t).dir
    BY <1>3 DEF Inode
  <1>6. Goto(t, "free") /\ Set(call[t].slot, r) /\ UNCHANGED <<disk, imap, dir>>
        /\ UNCHANGED schedVars /\ Continue
    BY DEF Truncate
  <1> HIDE DEF c, r
  <1>7. Shape(t, c)
    BY <1>1, <1>4 DEF Shape, Lookup, Freeing, Waiting
  <1>8. Fits(t, c, r)
    BY <1>1, <1>2, <1>3, <1>4, <1>5
       DEF Fits, LooksUp, Locks, Shares, Owns, Lookup, Locking, Freeing, Private, Shared, Unlinked
  <1>9. "free" \notin Looking
    BY DEF Looking
  <1> QED
    BY <1>1, <1>2, <1>5, <1>6, <1>7, <1>8, <1>9, OwnStep DEF c
-----------------------------------------------------------------------------
(* chdir sets i_atime of the inode that it has got. *)
LEMMA ChdirKeeps ==
  ASSUME IInv, NEW t \in Tasks, call[t].pc = "put_dir", call[t].op = "chdir", NEW c, ~Locking(c)
  PROVE  /\ Keeps(t, c, call[t].slot, [Mine(t) EXCEPT !.dirt = TRUE])
         /\ [Mine(t) EXCEPT !.dirt = TRUE] \in Inode
         /\ Shared(call[t])
  <1> DEFINE s == call[t].slot
             r == [Mine(t) EXCEPT !.dirt = TRUE]
  <1>1. Shared(call[t])
    BY Known DEF Shared, Private, Freeing, Looking, Shape
  <1>2. /\ s \in Slots /\ Mine(t) = inode[s] /\ inode[s] \in Inode
        /\ inode[s].count \in Nat \ {0} /\ inode[s].num # 0 /\ Entered(inode[s].num)
    BY <1>1, SharedLinked DEF Mine
  <1>3. /\ r \in Inode /\ r.num = inode[s].num /\ r.count = inode[s].count
        /\ r.lock = inode[s].lock /\ r.dirt /\ r.links = inode[s].links /\ r.dir = inode[s].dir
    BY <1>2 DEF Inode
  <1>4. ~Locking(call[t])
    BY DEF Locking
  <1> HIDE DEF r, s
  <1>5. Keeps(t, c, s, r)
    BY <1>2, <1>3, <1>4 DEF Keeps, Beside
  <1> QED
    BY <1>1, <1>3, <1>5 DEF r, s

(* chdir has a new inode, and an old one to let go of. *)
LEMMA ChdirStep ==
  ASSUME IInv, NEW t \in Tasks, call[t].pc = "put_dir", call[t].op = "chdir",
         Set(call[t].slot, [Mine(t) EXCEPT !.dirt = TRUE]), current = t,
         IF call[t].pwd = NoSlot
           THEN call' = [call EXCEPT ![t] = Caller(call[t].slot)]
           ELSE call' = [call EXCEPT ![t].pc = "iput", ![t].slot = call[t].pwd,
                                     ![t].pwd = call[t].slot],
         UNCHANGED <<disk, imap, dir>>, UNCHANGED schedVars, Continue
  PROVE  IInv'
  <1> DEFINE s == call[t].slot
             r == [Mine(t) EXCEPT !.dirt = TRUE]
  <1>1. /\ call[t] \in Calls /\ Shape(t, call[t]) /\ TaskOK(t) /\ inode \in [Slots -> Inode]
        /\ call[t].empty = NoSlot /\ NoSlot \notin Slots /\ "chdir" \in uses[t]
    BY Known DEF Shape
  <1>2. r \in Inode /\ Shared(call[t])
    <2>1. ~Locking(call[t])
      BY DEF Locking
    <2> QED
      BY <2>1, ChdirKeeps
  <1>3. /\ s \in Slots /\ inode[s].num # 0 /\ Entered(inode[s].num)
    BY <1>1, <1>2, SharedLinked DEF Mine
  <1>4. inode' = [inode EXCEPT ![s] = r] /\ r.num = inode[s].num
    BY <1>1, <1>3 DEF Set, Mine, Inode
  <1>5. UNCHANGED <<disk, imap, dir>> /\ UNCHANGED schedVars /\ Continue
    OBVIOUS
  <1>6. CASE call[t].pwd = NoSlot
    <2> DEFINE c == Caller(s)
    <2>1. call' = [call EXCEPT ![t] = c]
      BY <1>6
    <2>2. Shape(t, c)
      BY <1>1, <1>3, CallerShape
    <2>3. /\ c.pc = "user" /\ c.slot = NoSlot /\ c.pwd = s /\ c.empty = NoSlot
      BY DEF Caller
    <2> HIDE DEF c
    <2>4. \A x \in Slots : Hold(c, x) = Hold(call[t], x)
      BY <1>1, <1>6, <2>3 DEF Hold, Looking
    <2>5. ~Locking(c)
      BY <2>3 DEF Locking
    <2>6. Keeps(t, c, s, r)
      BY <2>5, ChdirKeeps
    <2>7. Fits(t, c, inode'[c.slot])
      BY <2>3 DEF Fits, LooksUp, Locks, Shares, Owns, Lookup, Locking, Freeing, Private, Shared
    <2> HIDE DEF r, s
    <2> QED
      BY <1>2, <1>3, <1>4, <1>5, <2>1, <2>2, <2>3, <2>4, <2>6, <2>7, KeepSlotStep
  <1>7. CASE call[t].pwd # NoSlot
    <2> DEFINE c == [call[t] EXCEPT !.pc = "iput", !.slot = call[t].pwd, !.pwd = s]
    <2>1. call' = [call EXCEPT ![t] = c]
      BY <1>7
    <2>2. /\ c.pc = "iput" /\ c.op = "chdir" /\ c.place = call[t].place
          /\ c.slot = call[t].pwd /\ c.pwd = s /\ c.nr = call[t].nr
          /\ c.empty = NoSlot /\ c.asleep = call[t].asleep /\ c \in Calls
      BY <1>1, <1>3 DEF Calls, Labels, Waiting
    <2>3. call[t].pwd \in Slots /\ inode[call[t].pwd].num # 0 /\ Entered(inode[call[t].pwd].num)
      BY <1>1, <1>7, Known, CallSlots DEF TaskOK, Pwd
    <2> HIDE DEF c
    <2>4. Shape(t, c)
      BY <1>1, <1>3, <1>7, <2>2 DEF Shape, Lookup, Freeing, Waiting
    <2>5. \A x \in Slots : Hold(c, x) = Hold(call[t], x)
      <3> SUFFICES ASSUME NEW x \in Slots PROVE Hold(c, x) = Hold(call[t], x)
        OBVIOUS
      <3>1. /\ Hold(c, x) = (IF s = x THEN 1 ELSE 0) + 0 + (IF call[t].pwd = x THEN 1 ELSE 0)
            /\ Hold(call[t], x) = (IF call[t].pwd = x THEN 1 ELSE 0) + 0 + (IF s = x THEN 1 ELSE 0)
        BY <1>1, <2>2 DEF Hold, Looking
      <3> QED
        BY <3>1
    <2>6. ~Locking(c)
      BY <2>2 DEF Locking
    <2>7. Keeps(t, c, s, r)
      BY <2>6, ChdirKeeps
    <2>8. inode'[c.slot].num = inode[c.slot].num
      BY <1>1, <1>3, <1>4, <2>2, <2>3
    <2>9. Fits(t, c, inode'[c.slot])
      BY <2>2, <2>3, <2>8
         DEF Fits, LooksUp, Locks, Shares, Owns, Lookup, Locking, Freeing, Private, Shared
    <2>10. c.pwd # NoSlot => c.pwd \in Slots /\ inode[c.pwd].num # 0 /\ Entered(inode[c.pwd].num)
      BY <1>3, <2>2
    <2>11. c.empty = NoSlot /\ r \in Inode /\ s \in Slots /\ inode' = [inode EXCEPT ![s] = r]
      BY <1>2, <1>3, <1>4, <2>2
    <2> HIDE DEF r, s
    <2> QED
      BY <1>5, <2>1, <2>4, <2>5, <2>7, <2>9, <2>10, <2>11, KeepSlotStep
  <1> QED
    BY <1>6, <1>7

(* mkdir that has failed takes the link off its inode. *)
LEMMA UnlinkStep ==
  ASSUME IInv, NEW t \in Tasks, call[t].pc = "put_dir", call[t].op = "mkdir",
         call[t].place = NoPlace, Set(call[t].slot, [Mine(t) EXCEPT !.links = 0]),
         Goto(t, "iput"), current = t,
         UNCHANGED <<disk, imap, dir>>, UNCHANGED schedVars, Continue
  PROVE  IInv'
  <1> DEFINE c == [call[t] EXCEPT !.pc = "iput"]
             r == [Mine(t) EXCEPT !.links = 0]
  <1>1. /\ call[t] \in Calls /\ Shape(t, call[t])
    BY Known
  <1>2. Private(call[t]) /\ "iput" \in Labels
    BY DEF Private, Labels, Waiting
  <1>3. Mine(t) \in Inode /\ Owns(t, call[t], Mine(t))
    BY <1>2, PrivateOwned
  <1>4. /\ c.pc = "iput" /\ c.op = "mkdir" /\ c.place = NoPlace
        /\ c.slot = call[t].slot /\ c.pwd = call[t].pwd /\ c.nr = call[t].nr
        /\ c.empty = call[t].empty /\ c.asleep = call[t].asleep /\ c \in Calls
    BY <1>1, <1>2 DEF Calls
  <1>5. /\ r \in Inode /\ r.num = Mine(t).num /\ r.count = Mine(t).count /\ r.lock = Mine(t).lock
        /\ r.dirt = Mine(t).dirt /\ r.links = 0 /\ r.dir = Mine(t).dir
    <2>1. 0 \in 0 .. 2
      OBVIOUS
    <2> QED
      BY <1>3, <2>1 DEF Inode
  <1> HIDE DEF c, r
  <1>6. Shape(t, c)
    BY <1>1, <1>4 DEF Shape, Lookup, Freeing, Waiting
  <1>7. Fits(t, c, r)
    BY <1>1, <1>2, <1>3, <1>4, <1>5
       DEF Fits, LooksUp, Locks, Shares, Owns, Lookup, Locking, Freeing, Private, Shared, Unlinked
  <1>8. "iput" \notin Looking
    BY DEF Looking
  <1>9. Set(call[t].slot, r)
    BY DEF r
  <1> QED
    BY <1>1, <1>2, <1>5, <1>6, <1>7, <1>8, <1>9, OwnStep DEF c

(* What comes before the last iput of a call. *)
LEMMA PutDirStep == ASSUME IInv, NEW t \in Tasks, PutDir(t) PROVE IInv'
  <1>1. /\ call[t].pc = "put_dir" /\ current = t
        /\ UNCHANGED schedVars /\ UNCHANGED <<disk, imap, dir>> /\ Continue
    BY DEF PutDir, At, Runs
  <1>2. ASSUME call[t].op = "chdir", ~Mine(t).dir PROVE FALSE
    <2>1. Shared(call[t])
      BY <1>1, <1>2, ChdirKeeps DEF Locking
    <2> QED
      BY <1>1, <1>2, <2>1, SharedLinked
  <1>3. ASSUME Goto(t, "iput"), UNCHANGED inode,
               call[t].op = "rmdir" \/ (call[t].op = "mkdir" /\ call[t].place # NoPlace)
        PROVE  IInv'
    <2>1. UNCHANGED inodeVars
      BY <1>1, <1>3 DEF inodeVars
    <2> QED
      BY <1>1, <1>3, <2>1, PutDirOnlyStep
  <1>4. inode[call[t].slot] = Mine(t)
    BY DEF Mine
  <1> QED
    BY <1>1, <1>2, <1>3, <1>4, ChdirStep, UnlinkStep DEF PutDir
-----------------------------------------------------------------------------
(* The values of i_count are numbers. *)
LEMMA WordSize == 2 ^ 16 \in Nat
  <1>1. 2 ^ 16 = 65536
    OBVIOUS
  <1> QED
    BY <1>1

(* The remainder of one less than a number and its modulus. *)
LEMMA Modulo ==
  ASSUME NEW m \in Nat, NEW n \in Nat, n > 0, n < m
  PROVE  (n + m - 1) % m = n - 1
  <1>1. ASSUME NEW k \in 0 .. m - 1 PROVE (k + m) % m = k
    OBVIOUS
  <1>2. n - 1 \in 0 .. m - 1 /\ n + m - 1 = (n - 1) + m
    OBVIOUS
  <1> QED
    BY <1>1, <1>2

(* The tasks are too few to make i_count overflow: NR_TASKS is 64. *)
FewTasks == 3 * Cardinality(Tasks) < 2 ^ 16

LEMMA FewUsers ==
  ASSUME IInv, FewTasks, NEW s \in Slots
  PROVE  inode[s].count \in Nat /\ inode[s].count < 2 ^ 16
  <1> DEFINE A1 == {v \in Tasks : call[v].pwd = s}
             A2 == {v \in Tasks : call[v].empty = s}
             A3 == {v \in Tasks : call[v].slot = s /\ call[v].pc \notin Looking}
             m == 2 ^ 16
  <1>1. /\ A1 \in SUBSET Tasks /\ A2 \in SUBSET Tasks /\ A3 \in SUBSET Tasks
        /\ inode[s].count = Cardinality(A1) + Cardinality(A2) + Cardinality(A3)
    BY DEF IInv, CountIsUsers, Users
  <1>2. ASSUME NEW A \in SUBSET Tasks
        PROVE  Cardinality(A) \in Nat /\ Cardinality(A) <= Cardinality(Tasks)
    <2>1. IsFiniteSet(Tasks)
      BY SchedAssumption
    <2>2. IsFiniteSet(A) /\ Cardinality(A) <= Cardinality(Tasks)
      BY <2>1, FS_Subset
    <2> QED
      BY <2>2, FS_CardinalityType
  <1>3. Cardinality(Tasks) \in Nat /\ m \in Nat /\ 3 * Cardinality(Tasks) < m
    <2>1. m \in Nat
      BY WordSize
    <2>2. Cardinality(Tasks) \in Nat
      BY SchedAssumption, FS_CardinalityType
    <2>3. 3 * Cardinality(Tasks) < m
      BY Zenon DEF FewTasks
    <2> QED
      BY <2>1, <2>2, <2>3
  <1> HIDE DEF A1, A2, A3, m
  <1>4. \A i, j, k, n, x \in Nat :
          i <= n /\ j <= n /\ k <= n /\ 3 * n < x => i + j + k \in Nat /\ i + j + k < x
    OBVIOUS
  <1>5. /\ Cardinality(A1) \in Nat /\ Cardinality(A1) <= Cardinality(Tasks)
        /\ Cardinality(A2) \in Nat /\ Cardinality(A2) <= Cardinality(Tasks)
        /\ Cardinality(A3) \in Nat /\ Cardinality(A3) <= Cardinality(Tasks)
    BY <1>1, <1>2
  <1>6. inode[s].count \in Nat /\ inode[s].count < m
    BY <1>1, <1>3, <1>4, <1>5
  <1> QED
    BY <1>6, Zenon DEF m

(* The facts of a call in iput. *)
LEMMA InIput ==
  ASSUME IInv, NEW t \in Tasks, call[t].pc \in {"iput", "iput_again"}
  PROVE  /\ call[t] \in Calls /\ Shape(t, call[t]) /\ call[t].empty = NoSlot
         /\ call[t].slot \in Slots /\ Mine(t) \in Inode /\ Mine(t).count \in Nat \ {0}
         /\ Mine(t).num # 0 /\ Mine(t) = inode[call[t].slot]
         /\ Mine(t).links # 0 => Shared(call[t])
         /\ Mine(t).count > 1 => Shared(call[t])
         /\ call[t].slot # NoSlot /\ Holds(call[t], call[t].slot)
  <1>1. call[t] \in Calls /\ Shape(t, call[t]) /\ call[t].empty = NoSlot /\ call[t].slot # NoSlot
    BY Known DEF Shape
  <1>2. call[t].slot \in Slots /\ Holds(call[t], call[t].slot)
    BY <1>1, Known, CallSlots DEF Looking
  <1>3. CASE Private(call[t])
    <2>1. Unlinked(call[t])
      BY <1>3 DEF Private, Unlinked, Freeing
    <2>2. Mine(t).links = 0 /\ Mine(t).count = 1 /\ Mine(t) \in Inode /\ Mine(t).num # 0
      BY <1>3, <2>1, PrivateOwned DEF Owns
    <2> QED
      BY <1>1, <1>2, <2>2 DEF Mine
  <1>4. CASE ~Private(call[t])
    <2>1. Shared(call[t])
      BY <1>1, <1>4 DEF Shared, Looking
    <2> QED
      BY <1>1, <1>2, <2>1, SharedLinked DEF Mine
  <1> QED
    BY <1>3, <1>4

(* iput takes one from the count. *)
LEMMA IputCountsStep ==
  ASSUME IInv, FewTasks, NEW t \in Tasks, call[t].pc \in {"iput", "iput_again"},
         ~Mine(t).lock, Mine(t).count > 1 \/ (Mine(t).links # 0 /\ ~Mine(t).dirt),
         Set(call[t].slot, [Mine(t) EXCEPT !.count = (@ + 2 ^ 16 - 1) % 2 ^ 16]), Return(t),
         UNCHANGED <<schedVars, disk, imap, dir>>, Continue, current = t
  PROVE  IInv'
  <1>0. PICK s \in Slots : s = call[t].slot
    BY InIput
  <1> DEFINE r == [inode[s] EXCEPT !.count = inode[s].count - 1]
             c == Caller(call[t].pwd)
  <1>1. /\ call[t] \in Calls /\ Shape(t, call[t]) /\ call[t].empty = NoSlot
        /\ s \in Slots /\ s # NoSlot /\ inode[s] \in Inode /\ inode[s].count \in Nat \ {0}
        /\ inode[s].num # 0 /\ Mine(t) = inode[s] /\ Shared(call[t]) /\ Holds(call[t], s)
    BY <1>0, InIput
  <1>2. /\ inode \in [Slots -> Inode] /\ NoSlot \notin Slots /\ TaskOK(t)
        /\ GoodSched
    BY Known
  <1>3. Entered(inode[s].num) /\ inode[s].links = 2 /\ inode[s].dir
    BY <1>0, <1>1, SharedLinked
  <1>4. inode' = [inode EXCEPT ![s] = r]
    <2>1. /\ inode[s].count \in Nat /\ inode[s].count > 0
          /\ inode[s].count < 2 ^ 16
      <3>1. \A n \in Nat \ {0} : n \in Nat /\ n > 0
        OBVIOUS
      <3> QED
        BY <1>1, <3>1, FewUsers, Zenon
    <2>4. (inode[s].count + 2 ^ 16 - 1) % 2 ^ 16 = inode[s].count - 1
      BY <2>1, WordSize, Modulo, ZenonT(30)
    <2>5. [Mine(t) EXCEPT !.count = (@ + 2 ^ 16 - 1) % 2 ^ 16] = r
      BY <1>1, <2>4, Zenon
    <2> QED
      BY <1>0, <2>5, Zenon DEF Set
  <1>5. /\ r \in Inode /\ r.num = inode[s].num /\ r.count = inode[s].count - 1
        /\ r.lock = inode[s].lock /\ r.dirt = inode[s].dirt /\ r.links = inode[s].links
        /\ r.dir = inode[s].dir
    <2>1. inode[s].count - 1 \in Nat
      BY <1>1
    <2> QED
      BY <1>1, <2>1 DEF Inode
  <1>6. call' = [call EXCEPT ![t] = c] /\ call'[t] = c
    BY Known DEF Return
  <1>7. Shape(t, c)
    BY <1>1, CallerShape DEF Shape, Calls
  <1>8. c.pc = "user" /\ c.slot = NoSlot /\ c.empty = NoSlot /\ c.pwd = call[t].pwd
    BY DEF Caller
  <1>9. /\ disk' = disk /\ imap' = imap /\ dir' = dir /\ uses' = uses /\ current' = current
        /\ GoodSched'
    BY <1>2, SchedSame DEF schedVars, Continue
  <1> HIDE DEF c, r
  <1>10. ~inode[s].lock /\ ~Locking(call[t]) /\ ~Locking(c)
    BY <1>1, <1>8 DEF Locking
  <1>11. Beside(t, s, r)
    BY <1>1, <1>5, <1>10 DEF Beside
  <1>12. LockGoesOn(t, c, s)
    BY <1>10 DEF LockGoesOn
  <1>13. CountGoesOn(t, c, s, r)
    <2>1. /\ Hold(c, s) = (IF call[t].pwd = s THEN 1 ELSE 0)
          /\ Hold(call[t], s) = (IF call[t].pwd = s THEN 1 ELSE 0) + 1
      BY <1>0, <1>1, <1>2, <1>8 DEF Hold, Looking
    <2>2. \A x \in Slots : x # s => Hold(c, x) = Hold(call[t], x)
      BY <1>0, <1>1, <1>2, <1>8 DEF Hold, Looking
    <2>3. r.count + Hold(call[t], s) = inode[s].count + Hold(c, s)
      BY <1>1, <1>5, <2>1
    <2> QED
      BY <1>3, <1>5, <2>2, <2>3 DEF CountGoesOn
  <1>14. DiskGoesOn(s, r)
    BY <1>1, <1>5, <1>9 DEF DiskGoesOn, IInv, CleanIsOnDisk
  <1>15. Fits(t, c, inode'[c.slot])
    BY <1>8 DEF Fits, LooksUp, Locks, Shares, Owns, Lookup, Locking, Freeing, Private, Shared
  <1>16. TaskOK(t)'
    <2>1. \A x \in Slots : inode'[x].num = inode[x].num
      BY <1>2, <1>4, <1>5
    <2>2. Pwd(t)' /\ Empty(t)'
      BY <1>2, <1>6, <1>8, <1>9, <2>1, Known, CallSlots DEF TaskOK, Pwd, Empty, Entered
    <2>3. Fits(t, call[t], Mine(t))'
      BY <1>6, <1>9, <1>15, FitsAfter
    <2> QED
      BY <2>2, <2>3 DEF TaskOK
  <1>17. SlotOK(s)'
    <2>1. SlotOK(s) /\ inode'[s] = r
      BY <1>1, <1>2, <1>4 DEF IInv, GoodInodes
    <2>2. r.count = 0 => ~r.dirt
      BY <1>1, <1>5
    <2>3. ~inode'[s].lock /\ (inode'[s].count = 0 => ~inode'[s].dirt)
      BY <1>5, <1>10, <2>1, <2>2
    <2>4. inode'[s].num # 0 /\ inode'[s].num \in imap'
      BY <1>1, <1>5, <1>9, <2>1 DEF SlotOK
    <2>5. inode'[s].links = 2 /\ inode'[s].dir
      BY <1>3, <1>5, <2>1
    <2> QED
      BY <2>3, <2>4, <2>5 DEF SlotOK
  <1>18. /\ IInv /\ t \in Tasks /\ Shape(t, c) /\ call' = [call EXCEPT ![t] = c]
         /\ s \in Slots /\ r \in Inode /\ inode' = [inode EXCEPT ![s] = r]
         /\ imap' = imap /\ dir' = dir /\ uses' = uses /\ GoodSched' /\ current = t
         /\ Beside(t, s, r) /\ LockGoesOn(t, c, s) /\ CountGoesOn(t, c, s, r)
         /\ DiskGoesOn(s, r) /\ TaskOK(t)' /\ SlotOK(s)'
    BY <1>1, <1>4, <1>5, <1>6, <1>7, <1>9, <1>11, <1>12, <1>13, <1>14, <1>16, <1>17
  <1> QED
    BY <1>18, SlotStep

(* iput finds that the inode has to be written first. *)
LEMMA IputLocksStep ==
  ASSUME IInv, NEW t \in Tasks, call[t].pc \in {"iput", "iput_again"}, ~call[t].asleep,
         ~Mine(t).lock, Mine(t).links # 0, Mine(t).dirt,
         Set(call[t].slot, [Mine(t) EXCEPT !.lock = TRUE]), Goto(t, "iput_disk"),
         UNCHANGED <<schedVars, disk, imap, dir>>, Continue, current = t
  PROVE  IInv'
  <1> DEFINE s == call[t].slot
             r == [inode[s] EXCEPT !.lock = TRUE]
             c == [call[t] EXCEPT !.pc = "iput_disk"]
  <1>1. /\ call[t] \in Calls /\ Shape(t, call[t]) /\ call[t].empty = NoSlot
        /\ s \in Slots /\ s # NoSlot /\ inode[s] \in Inode /\ inode[s].count # 0
        /\ inode[s].num # 0 /\ Mine(t) = inode[s] /\ Shared(call[t]) /\ Holds(call[t], s)
    BY InIput
  <1>2. inode \in [Slots -> Inode] /\ TaskOK(t)
    BY Known
  <1>3. Entered(inode[s].num)
    BY <1>1, SharedLinked
  <1>4. call' = [call EXCEPT ![t] = c] /\ inode' = [inode EXCEPT ![s] = r]
    BY <1>1 DEF Goto, Set
  <1>5. /\ c.pc = "iput_disk" /\ c.op = call[t].op /\ c.place = call[t].place
        /\ c.slot = s /\ c.pwd = call[t].pwd /\ c.nr = call[t].nr
        /\ c.empty = call[t].empty /\ c.asleep = call[t].asleep /\ c \in Calls
    BY <1>1 DEF Calls, Labels, MaySleep
  <1>6. /\ r \in Inode /\ r.num = inode[s].num /\ r.count = inode[s].count /\ r.lock
        /\ r.dirt = inode[s].dirt /\ r.links = inode[s].links /\ r.dir = inode[s].dir
    BY <1>1 DEF Inode
  <1>7. ~inode[s].lock /\ inode[s].dirt
    BY <1>1
  <1> HIDE DEF r, c
  <1>8. Shape(t, c)
    BY <1>1, <1>5 DEF Shape, Lookup, Freeing, Waiting
  <1>9. \A x \in Slots : Hold(c, x) = Hold(call[t], x)
    BY <1>1, <1>5 DEF Hold, Looking
  <1>10. Keeps(t, c, s, r)
    BY <1>1, <1>5, <1>6, <1>7 DEF Keeps, Beside, Locking
  <1>11. Fits(t, c, r)
    BY <1>1, <1>3, <1>5, <1>6, <1>7
       DEF Fits, LooksUp, Locks, Shares, Owns, Lookup, Locking, Freeing, Private, Shared
  <1>12. Fits(t, c, inode'[c.slot])
    BY <1>2, <1>1, <1>4, <1>5, <1>11
  <1>13. c.pwd # NoSlot => c.pwd \in Slots /\ inode[c.pwd].num # 0 /\ Entered(inode[c.pwd].num)
    BY <1>2, <1>5, Known, CallSlots DEF TaskOK, Pwd
  <1>14. /\ UNCHANGED <<disk, imap, dir>> /\ UNCHANGED schedVars /\ Continue /\ current = t
         /\ s \in Slots /\ c.empty = NoSlot /\ r \in Inode
    BY <1>1, <1>5, <1>6
  <1> HIDE DEF s
  <1> QED
    BY <1>4, <1>8, <1>9, <1>10, <1>12, <1>13, <1>14, KeepSlotStep

(* iput. *)
LEMMA IputStep == ASSUME IInv, FewTasks, NEW t \in Tasks, Iput(t) PROVE IInv'
  <1>1. /\ call[t].pc \in {"iput", "iput_again"} /\ ~call[t].asleep /\ ~Mine(t).lock
        /\ current = t
    BY DEF Iput, Waited, At, Runs
  <1>2. Mine(t).count \in Nat \ {0} /\ Mine(t).num # 0
    BY <1>1, InIput
  <1>3. \/ Halt
        \/ /\ Mine(t).count > 1 \/ (Mine(t).links # 0 /\ ~Mine(t).dirt)
           /\ Set(call[t].slot, [Mine(t) EXCEPT !.count = (@ + 2 ^ 16 - 1) % 2 ^ 16])
           /\ Return(t) /\ UNCHANGED <<schedVars, disk, imap, dir>> /\ Continue
        \/ /\ Mine(t).links # 0 /\ Mine(t).dirt
           /\ Set(call[t].slot, [Mine(t) EXCEPT !.lock = TRUE]) /\ Goto(t, "iput_disk")
           /\ UNCHANGED <<schedVars, disk, imap, dir>> /\ Continue
        \/ /\ Mine(t).links = 0
           /\ Goto(t, IF Mine(t).dir THEN "truncate" ELSE "free_now")
           /\ UNCHANGED <<schedVars, inodeVars>> /\ Continue
    BY <1>2, Zenon DEF Iput
  <1>4. ASSUME Halt PROVE IInv'
    BY <1>4, HaltStep
  <1>5. ASSUME Mine(t).count > 1 \/ (Mine(t).links # 0 /\ ~Mine(t).dirt),
               Set(call[t].slot, [Mine(t) EXCEPT !.count = (@ + 2 ^ 16 - 1) % 2 ^ 16]),
               Return(t), UNCHANGED <<schedVars, disk, imap, dir>>, Continue
        PROVE  IInv'
    BY <1>1, <1>5, IputCountsStep, Zenon
  <1>6. ASSUME Mine(t).links # 0, Mine(t).dirt,
               Set(call[t].slot, [Mine(t) EXCEPT !.lock = TRUE]), Goto(t, "iput_disk"),
               UNCHANGED <<schedVars, disk, imap, dir>>, Continue
        PROVE  IInv'
    BY <1>1, <1>6, IputLocksStep, Zenon
  <1>7. ASSUME Mine(t).links = 0, Goto(t, IF Mine(t).dir THEN "truncate" ELSE "free_now"),
               UNCHANGED <<schedVars, inodeVars>>, Continue
        PROVE  IInv'
    <2>1. UNCHANGED schedVars /\ UNCHANGED inodeVars
      BY <1>7
    <2> QED
      BY <1>1, <1>7, <2>1, IputFreesStep, Zenon
  <1> QED
    BY <1>3, <1>4, <1>5, <1>6, <1>7, Zenon

-----------------------------------------------------------------------------
(* A task that has its inode locked reads or writes it, and unlocks it. *)
LEMMA UnlockStep ==
  ASSUME IInv, NEW t \in Tasks, Locking(call[t]), NEW c, Shape(t, c),
         call' = [call EXCEPT ![t] = c], NEW r \in Inode, inode' = [inode EXCEPT ![call[t].slot] = r],
         r.num = Mine(t).num, r.count = Mine(t).count, r.count # 0, ~r.lock,
         \/ call[t].pc = "read"
         \/ r.count = Mine(t).count /\ r.links = Mine(t).links /\ r.dir = Mine(t).dir,
         Entered(r.num) => r.links = 2 /\ r.dir,
         disk' = disk \/ disk' = [disk EXCEPT ![r.num] = [links |-> r.links, dir |-> r.dir]],
         \/ ~r.dirt /\ disk'[r.num] = [links |-> r.links, dir |-> r.dir]
         \/ disk'[r.num] = [links |-> r.links, dir |-> r.dir] /\ disk' = disk,
         imap' = imap, dir' = dir, current' = current, wq' = wq, tmp' = tmp, Continue,
         state' = WakeUp(state, wq[call[t].slot]), current = t,
         c.empty = NoSlot, c.pwd = call[t].pwd, ~Locking(c),
         \A x \in Slots : Hold(c, x) = Hold(call[t], x),
         Fits(t, c, inode'[c.slot])
  PROVE  IInv'
  <1>0. PICK s \in Slots : s = call[t].slot
    BY Known, CallLabels, CallSlots
  <1>1. /\ call[t] \in Calls /\ Shape(t, call[t]) /\ TaskOK(t) /\ s # NoSlot
        /\ inode \in [Slots -> Inode] /\ Mine(t) = inode[s] /\ SlotOK(s)
    BY <1>0, Known, CallLabels, CallSlots DEF Mine, IInv, GoodInodes
  <1>2. inode[s].lock /\ inode[s].num # 0 /\ inode[s].num \in Numbers
    BY <1>1 DEF TaskOK, Fits, Locks, Inode
  <1>3. GoodSched' /\ uses' = uses
    <2>1. wq[s] \in Tasks \union {NoTask} /\ GoodSched
      BY <1>1 DEF IInv, GoodSched, SchedTypeOK, Slots
    <2> QED
      BY <1>0, <2>1, SchedWakes DEF Continue
  <1>4. inode'[s] = r /\ \A x \in Slots : inode'[x].num = inode[x].num
    BY <1>0, <1>1
  <1>5. Beside(t, s, r)
    BY <1>0, <1>1 DEF Beside, Holds, Looking
  <1>6. LockGoesOn(t, c, s)
    BY <1>0 DEF LockGoesOn
  <1>7. CountGoesOn(t, c, s, r)
    <2>1. Hold(c, s) = Hold(call[t], s) /\ r.count = inode[s].count
      BY <1>1
    <2> QED
      BY <2>1 DEF CountGoesOn
  <1>8. DiskGoesOn(s, r)
    <2>1. r.num = inode[s].num /\ r.num \in Numbers
      BY <1>1, <1>2
    <2> QED
      BY <2>1 DEF DiskGoesOn
  <1>9. TaskOK(t)'
    <2>1. Pwd(t)' /\ Empty(t)'
      BY <1>1, <1>4, Known, CallSlots DEF TaskOK, Pwd, Empty, Entered
    <2>2. Fits(t, call[t], Mine(t))'
      <3>1. call'[t] = c /\ dir' = dir /\ uses' = uses /\ current' = current
        BY <1>3, Known
      <3> QED
        BY <3>1, FitsAfter
    <2> QED
      BY <2>1, <2>2 DEF TaskOK
  <1>10. SlotOK(s)'
    <2>0. imap' = imap
      OBVIOUS
    <2>1. ~inode'[s].lock /\ inode'[s].count # 0 /\ inode'[s].num # 0 /\ inode'[s].num \in imap'
      BY <1>1, <1>2, <1>4, <2>0 DEF SlotOK
    <2>2. Entered(inode[s].num)' => inode'[s].links = 2 /\ inode'[s].dir
      BY <1>4 DEF Entered
    <2> QED
      BY <2>1, <2>2 DEF SlotOK
  <1>11. inode' = [inode EXCEPT ![s] = r]
    BY <1>0
  <1> QED
    BY <1>3, <1>5, <1>6, <1>7, <1>8, <1>9, <1>10, <1>11, SlotStep

(* iget has read the inode. *)
LEMMA ReadInodeStep == ASSUME IInv, NEW t \in Tasks, ReadInode(t) PROVE IInv'
  <1> DEFINE s == call[t].slot
             n == inode[s].num
             r == [inode[s] EXCEPT !.links = disk[n].links, !.dir = disk[n].dir, !.lock = FALSE]
             c == [call[t] EXCEPT !.pc = "got"]
  <1>1. /\ call[t].pc = "read" /\ current = t
        /\ call[t] \in Calls /\ Shape(t, call[t]) /\ TaskOK(t) /\ Locking(call[t])
        /\ s \in Slots /\ inode \in [Slots -> Inode] /\ Mine(t) = inode[s]
    BY Known, CallLabels, CallSlots DEF ReadInode, At, Runs, Mine, Locking
  <1>2. /\ n # 0 /\ n = call[t].nr /\ dir[call[t].place].nr = n
        /\ inode[s].count = 1 /\ inode[s].links = 0
    BY <1>1 DEF TaskOK, Fits, Locks, LooksUp, Lookup
  <1>3. call[t].place \in Places /\ n \in Numbers /\ call[t].empty = NoSlot
    BY <1>1, <1>2 DEF Shape, Calls, Lookup, Inode
  <1>4. disk[n] = [links |-> 2, dir |-> TRUE]
    BY <1>1, <1>2, <1>3 DEF IInv, EntryOK, OneInodePerNumber
  <1>5. disk[n].links = 2 /\ disk[n].dir
    BY <1>4
  <1>6. /\ r.num = n /\ r.count = inode[s].count /\ ~r.lock /\ r.dirt = inode[s].dirt
        /\ r.links = 2 /\ r.dir /\ r \in Inode
    <2>1. /\ inode[s] \in Inode /\ 2 \in 0 .. 2 /\ disk[n].links \in 0 .. 2
          /\ disk[n].dir = TRUE /\ disk[n].dir \in BOOLEAN
      BY <1>1, <1>4, <1>5
    <2> DEFINE l == disk[n].links
               d == disk[n].dir
    <2>2. l = 2 /\ d = TRUE /\ inode[s] \in Inode
      BY <1>5, <2>1
    <2>3. 2 \in 0 .. 2
      OBVIOUS
    <2> HIDE DEF l, d, n
    <2>4. /\ r.num = inode[s].num /\ r.count = inode[s].count /\ ~r.lock
          /\ r.dirt = inode[s].dirt /\ r.links = l /\ r.dir = d /\ r \in Inode
      BY <2>2, <2>3 DEF Inode, l, d
    <2> QED
      BY <2>2, <2>4 DEF n
  <1>7. CASE Mine(t).num = 0 /\ Halt
    BY <1>7, HaltStep
  <1>8. CASE /\ Unlock(s, [Mine(t) EXCEPT !.links = disk[Mine(t).num].links,
                                           !.dir = disk[Mine(t).num].dir])
             /\ Goto(t, "got") /\ UNCHANGED <<disk, imap, dir>> /\ Continue
    <2>1. /\ inode' = [inode EXCEPT ![s] = r] /\ call' = [call EXCEPT ![t] = c]
          /\ state' = WakeUp(state, wq[s]) /\ current' = current /\ wq' = wq /\ tmp' = tmp
      BY <1>1, <1>8 DEF Unlock, Set, Goto
    <2>2. /\ c.pc = "got" /\ c.op = call[t].op /\ c.place = call[t].place
          /\ c.slot = s /\ c.pwd = call[t].pwd /\ c.nr = call[t].nr
          /\ c.empty = call[t].empty /\ c.asleep = call[t].asleep /\ c \in Calls
      BY <1>1 DEF Calls, Labels
    <2> HIDE DEF c, r
    <2>3. Shape(t, c)
      BY <1>1, <2>2 DEF Shape, Lookup, Freeing, Waiting
    <2>4. ~Locking(c) /\ \A x \in Slots : Hold(c, x) = Hold(call[t], x)
      BY <1>1, <2>2 DEF Locking, Hold, Looking
    <2>5. Fits(t, c, r)
      BY <1>1, <1>2, <1>3, <1>6, <2>2
         DEF Fits, LooksUp, Locks, Shares, Owns, Lookup, Locking, Freeing, Private, Shared, Entered
    <2>6. Fits(t, c, inode'[c.slot])
      BY <1>1, <2>1, <2>2, <2>5
    <2>7. disk'[r.num] = [links |-> r.links, dir |-> r.dir] /\ disk' = disk
      BY <1>4, <1>6, <1>8
    <2>8. /\ inode' = [inode EXCEPT ![call[t].slot] = r] /\ r \in Inode
          /\ r.num = Mine(t).num /\ r.count = Mine(t).count /\ r.count # 0 /\ ~r.lock
          /\ r.links = 2 /\ r.dir /\ c.empty = NoSlot /\ c.pwd = call[t].pwd
          /\ imap' = imap /\ dir' = dir /\ Continue /\ state' = WakeUp(state, wq[call[t].slot])
      BY <1>1, <1>2, <1>3, <1>6, <1>8, <2>1, <2>2
    <2> HIDE DEF s, n
    <2> QED
      BY <1>1, <2>1, <2>3, <2>4, <2>6, <2>7, <2>8, UnlockStep
  <1> QED
    BY <1>7, <1>8 DEF ReadInode

(* write_inode has written the inode. *)
LEMMA WriteInodeStep == ASSUME IInv, NEW t \in Tasks, WriteInode(t) PROVE IInv'
  <1> DEFINE s == call[t].slot
             r == [inode[s] EXCEPT !.dirt = FALSE, !.lock = FALSE]
  <1>1. /\ call[t].pc \in {"iput_disk", "sync_disk"} /\ current = t
        /\ call[t] \in Calls /\ Shape(t, call[t]) /\ TaskOK(t) /\ Locking(call[t])
        /\ s \in Slots /\ s # NoSlot /\ inode \in [Slots -> Inode] /\ Mine(t) = inode[s] /\ SlotOK(s)
    BY Known, CallLabels, CallSlots DEF WriteInode, Runs, Mine, Locking, IInv, GoodInodes
  <1>2. /\ inode[s].num # 0 /\ inode[s].dirt /\ inode[s].lock /\ inode[s].count # 0
        /\ inode[s].num \in Numbers /\ call[t].empty = NoSlot
    BY <1>1 DEF TaskOK, Fits, Locks, SlotOK, Inode, Shape
  <1>3. Entered(inode[s].num) => inode[s].links = 2 /\ inode[s].dir
    <2>1. ~\E u \in Tasks : call[u].pc = "read" /\ call[u].slot = s
      BY <1>1 DEF IInv, OneLocks, Locking
    <2> QED
      BY <1>1, <1>2, <2>1 DEF SlotOK
  <1>4. /\ r.num = inode[s].num /\ r.count = inode[s].count /\ ~r.lock /\ ~r.dirt
        /\ r.links = inode[s].links /\ r.dir = inode[s].dir /\ r \in Inode
    BY <1>1 DEF Inode
  <1>5. CASE Mine(t).num = 0 /\ Halt
    BY <1>5, HaltStep
  <1>6. CASE /\ disk' = [disk EXCEPT ![Mine(t).num] = [links |-> Mine(t).links, dir |-> Mine(t).dir]]
             /\ Unlock(s, [Mine(t) EXCEPT !.dirt = FALSE])
             /\ IF call[t].pc = "iput_disk" THEN Goto(t, "iput_again") ELSE Synced(t)
             /\ UNCHANGED <<imap, dir>> /\ Continue
    <2> DEFINE c == IF call[t].pc = "iput_disk" THEN [call[t] EXCEPT !.pc = "iput_again"]
                                                ELSE [call[t] EXCEPT !.pc = "sync_next", !.slot = NoSlot]
    <2>1. /\ inode' = [inode EXCEPT ![s] = r]
          /\ state' = WakeUp(state, wq[s]) /\ current' = current /\ wq' = wq /\ tmp' = tmp
          /\ disk' = [disk EXCEPT ![r.num] = [links |-> r.links, dir |-> r.dir]]
      BY <1>1, <1>4, <1>6 DEF Unlock, Set
    <2>2. call' = [call EXCEPT ![t] = c]
      BY <1>6 DEF Goto, Synced
    <2>3. /\ c.op = call[t].op /\ c.place = call[t].place
          /\ c.pwd = call[t].pwd /\ c.nr = call[t].nr
          /\ c.empty = call[t].empty /\ c.asleep = call[t].asleep /\ c \in Calls
          /\ \/ c.pc = "iput_again" /\ c.slot = s /\ call[t].pc = "iput_disk"
             \/ c.pc = "sync_next" /\ c.slot = NoSlot /\ call[t].pc = "sync_disk"
      BY <1>1 DEF Calls, Labels, Waiting
    <2> HIDE DEF c, r
    <2>4. Shape(t, c)
      BY <1>1, <2>3 DEF Shape, Lookup, Freeing, Waiting
    <2>5. ~Locking(c) /\ \A x \in Slots : Hold(c, x) = Hold(call[t], x)
      BY <1>1, <2>3, Known DEF Locking, Hold, Looking
    <2>6. Fits(t, c, inode'[c.slot])
      <3>1. CASE c.pc = "sync_next"
        BY <2>3, <3>1
           DEF Fits, LooksUp, Locks, Shares, Owns, Lookup, Locking, Freeing, Private, Shared
      <3>2. CASE c.pc = "iput_again"
        <4>1. Shared(call[t])
          BY <1>1, <2>3, <3>2 DEF Shared, Looking, Private, Freeing
        <4>2. Entered(r.num) /\ r.num # 0
          BY <1>1, <1>4, <4>1 DEF TaskOK, Fits, Shares
        <4>3. Fits(t, c, r)
          BY <3>2, <4>2
             DEF Fits, LooksUp, Locks, Shares, Owns, Lookup, Locking, Freeing, Private, Shared
        <4> QED
          BY <1>1, <2>1, <2>3, <3>2, <4>3
      <3> QED
        BY <2>3, <3>1, <3>2
    <2>7. ~r.dirt /\ disk'[r.num] = [links |-> r.links, dir |-> r.dir]
      BY <1>2, <1>4, <2>1 DEF IInv, GoodDisk
    <2>8. /\ inode' = [inode EXCEPT ![call[t].slot] = r] /\ r \in Inode
          /\ r.num = Mine(t).num /\ r.count = Mine(t).count /\ r.count # 0 /\ ~r.lock
          /\ r.links = Mine(t).links /\ r.dir = Mine(t).dir /\ c.empty = NoSlot
          /\ c.pwd = call[t].pwd
          /\ imap' = imap /\ dir' = dir /\ Continue /\ state' = WakeUp(state, wq[call[t].slot])
      BY <1>1, <1>2, <1>4, <1>6, <2>1, <2>3
    <2>9. Entered(r.num) => r.links = 2 /\ r.dir
      BY <1>3, <1>4
    <2> HIDE DEF s
    <2> QED
      BY <1>1, <2>1, <2>2, <2>4, <2>5, <2>6, <2>7, <2>8, <2>9, UnlockStep
  <1> QED
    BY <1>5, <1>6 DEF WriteInode

-----------------------------------------------------------------------------
(* What a step of t that gives the inode s another number owes: nobody else *)
(* has s, and the numbers, the entries and the bitmap stay accounted for.   *)
Apart(t, c, s) ==
  /\ ~inode[s].lock /\ ~Locking(call[t]) /\ (Locking(c) => c.slot = s)
  /\ \A u \in Tasks : u # t => ~Holds(call[u], s)
NumberGoesOn(s, r) ==
  /\ r.num # 0 => \A x \in Slots : x # s => inode[x].num # r.num
  /\ r.dirt \/ r.lock \/ r.links = 0 \/ r.num = 0
  /\ ~inode[s].dirt \/ inode[s].num = 0 \/ ~Entered(inode[s].num)
  /\ imap' \subseteq Numbers
  /\ \A p \in Places : dir[p].nr # 0 => dir[p].nr \in imap'
  /\ \A x \in Slots : x # s /\ inode[x].num # 0 => inode[x].num \in imap'
  /\ \A n \in imap' : \/ n \in imap /\ n # inode[s].num
                      \/ Entered(n)
                      \/ n = r.num /\ r.count > 0

(* A step that gives an inode another number, or takes it. *)
LEMMA ApartStep ==
  ASSUME IInv, NEW t \in Tasks, NEW c, Shape(t, c), call' = [call EXCEPT ![t] = c],
         NEW s \in Slots, NEW r \in Inode, inode' = [inode EXCEPT ![s] = r],
         disk' = disk, dir' = dir, uses' = uses, GoodSched', current = t,
         Apart(t, c, s), CountGoesOn(t, c, s, r), NumberGoesOn(s, r),
         TaskOK(t)', SlotOK(s)'
  PROVE  IInv'
  <1>1. Shapes' /\ call'[t] = c /\ \A u \in Tasks : u # t => call'[u] = call[u]
    BY ShapesAfter DEF IInv
  <1>2. \A u \in Tasks : TaskOK(u)'
    BY OthersApart DEF Apart
  <1>3. inode \in [Slots -> Inode] /\ inode' \in [Slots -> Inode]
    BY DEF IInv, GoodInodes
  <1>4. inode'[s] = r /\ \A x \in Slots : x # s => inode'[x] = inode[x]
    BY <1>3
  <1>5. GoodDisk'
    BY DEF IInv, GoodDisk, NumberGoesOn
  <1>6. GoodInodes'
    <2> SUFFICES ASSUME NEW x \in Slots, x # s PROVE SlotOK(x)'
      BY <1>3 DEF GoodInodes
    <2>1. SlotOK(x) /\ inode'[x] = inode[x]
      BY <1>4 DEF IInv, GoodInodes
    <2>2. \A u \in Tasks : Locking(call[u]) => call'[u] = call[u]
      BY <1>1 DEF Apart
    <2>3. \A u \in Tasks : call[u].pc = "read" => call'[u] = call[u]
      BY <2>2 DEF Locking
    <2>4. inode[x].num # 0 => inode[x].num \in imap'
      BY DEF NumberGoesOn
    <2> QED
      BY <2>1, <2>2, <2>3, <2>4 DEF SlotOK, Entered
  <1>7. OneLocks'
    <2>1. ASSUME NEW u \in Tasks, u # t, Locking(call[u]), Locking(c), call[u].slot = c.slot
          PROVE  FALSE
      <3>1. call[u].slot = s
        BY <2>1 DEF Apart
      <3>2. inode[s].lock
        BY <2>1, <3>1 DEF IInv, TaskOK, Fits, Locks, Mine
      <3> QED
        BY <3>2 DEF Apart
    <2>2. \A u, v \in Tasks : u # t /\ v # t /\ Locking(call'[u]) /\ Locking(call'[v])
                              /\ call'[u].slot = call'[v].slot => u = v
      BY <1>1 DEF IInv, OneLocks
    <2> QED
      BY <1>1, <2>1, <2>2 DEF OneLocks
  <1>8. OneInodePerNumber'
    <2> SUFFICES ASSUME NEW x \in Slots, NEW y \in Slots, inode'[x].num = inode'[y].num,
                        inode'[x].num # 0
                 PROVE  x = y
      BY DEF OneInodePerNumber
    <2>1. CASE x # s /\ y # s
      BY <1>4, <2>1 DEF IInv, OneInodePerNumber
    <2>2. CASE x = s \/ y = s
      BY <1>4, <2>2 DEF NumberGoesOn
    <2> QED
      BY <2>1, <2>2
  <1>9. CleanIsOnDisk'
    BY <1>4 DEF IInv, CleanIsOnDisk, NumberGoesOn
  <1>10. InodesAccounted'
    <2>1. ASSUME NEW n \in imap' PROVE \/ \E p \in Places : dir[p].nr = n
                                       \/ \E x \in Slots : inode'[x].num = n /\ inode'[x].count > 0
      <3>1. CASE n \in imap /\ n # inode[s].num
        BY <1>4, <3>1 DEF IInv, InodesAccounted
      <3>2. CASE n = r.num /\ r.count > 0
        BY <1>4, <3>2
      <3> QED
        BY <3>1, <3>2 DEF NumberGoesOn, Entered
    <2> QED
      BY <2>1 DEF IInv, InodesAccounted, NumberGoesOn
  <1>11. ASSUME NEW p \in Places PROVE EntryOK(p)'
    <2> SUFFICES ASSUME dir[p].nr # 0
                 PROVE  \/ disk[dir[p].nr] = [links |-> 2, dir |-> TRUE]
                        \/ \E x \in Slots : /\ inode'[x].num = dir[p].nr /\ inode'[x].links = 2
                                            /\ inode'[x].dir /\ inode'[x].dirt
      BY DEF EntryOK
    <2>1. \/ disk[dir[p].nr] = [links |-> 2, dir |-> TRUE]
          \/ \E x \in Slots : /\ inode[x].num = dir[p].nr /\ inode[x].links = 2
                              /\ inode[x].dir /\ inode[x].dirt
      BY DEF IInv, EntryOK
    <2>2. ~(inode[s].num = dir[p].nr /\ inode[s].dirt)
      BY DEF NumberGoesOn, Entered
    <2> QED
      BY <1>4, <2>1, <2>2
  <1>12. CountIsUsers'
    <2> SUFFICES ASSUME NEW x \in Slots PROVE inode'[x].count = Users(x)'
      BY DEF CountIsUsers
    <2>1. inode'[x].count \in Nat
      BY <1>3 DEF Inode
    <2>2. CASE x = s
      <3>1. inode'[x].count + Hold(call[t], x) = inode[x].count + Hold(c, x)
        BY <1>4, <2>2 DEF CountGoesOn
      <3> QED
        BY <2>1, <3>1, CountAfter
    <2>3. CASE x # s
      <3>1. inode'[x].count = inode[x].count
        BY <1>4, <2>3
      <3>2. Hold(c, x) = Hold(call[t], x)
        BY <2>3 DEF CountGoesOn
      <3>3. inode'[x].count + Hold(call[t], x) = inode[x].count + Hold(c, x)
        BY <3>1, <3>2
      <3> QED
        BY <2>1, <3>3, CountAfter
    <2> QED
      BY <2>2, <2>3
  <1> QED
    BY <1>1, <1>2, <1>5, <1>6, <1>7, <1>8, <1>9, <1>10, <1>11, <1>12 DEF IInv

(* An inode that get_empty_inode may take: nobody's, and its number has an entry. *)
LEMMA UnusedSlot ==
  ASSUME IInv, NEW s \in Unused
  PROVE  /\ s \in Slots /\ s # NoSlot /\ inode[s] \in Inode /\ ~inode[s].lock /\ ~inode[s].dirt
         /\ inode[s].count = 0
         /\ \A u \in Tasks : ~Holds(call[u], s) /\ Hold(call[u], s) = 0
         /\ inode[s].num # 0 => Entered(inode[s].num)
  <1>1. s \in Slots /\ inode[s].count = 0 /\ inode[s] \in Inode /\ s # NoSlot /\ SlotOK(s)
    BY InodeCacheAssumption DEF Unused, IInv, GoodInodes
  <1>2. \A u \in Tasks : ~Holds(call[u], s)
    BY <1>1, CountedUsers DEF IInv
  <1>3. \A u \in Tasks : Hold(call[u], s) = 0
    BY <1>2 DEF Hold, Holds
  <1>4. ASSUME inode[s].num # 0 PROVE Entered(inode[s].num)
    <2>1. inode[s].num \in imap
      BY <1>1, <1>4 DEF SlotOK
    <2>2. ~\E x \in Slots : inode[x].num = inode[s].num /\ inode[x].count > 0
      BY <1>1, <1>4 DEF IInv, OneInodePerNumber
    <2> QED
      BY <2>1, <2>2 DEF IInv, InodesAccounted, Entered
  <1> QED
    BY <1>1, <1>2, <1>3, <1>4 DEF SlotOK

(* A step that takes an inode nobody counts. *)
LEMMA TakeStep ==
  ASSUME IInv, NEW t \in Tasks, NEW c, Shape(t, c), call' = [call EXCEPT ![t] = c],
         NEW s \in Unused, NEW r \in Inode, inode' = [inode EXCEPT ![s] = r],
         disk' = disk, dir' = dir, Continue, current = t,
         current' = current, state' = state, tmp' = tmp, wq' = [wq EXCEPT ![s] = NoTask],
         ~Locking(call[t]), ~Locking(c),
         \A x \in Slots : Hold(c, x) = Hold(call[t], x) + (IF x = s THEN r.count ELSE 0),
         ~r.lock, r.num # 0 => r.count = 1 /\ r.dirt /\ r.links = 1,
         r.num = 0 => ~r.dirt /\ imap' = imap,
         r.num # 0 => r.num \in Numbers \ imap /\ imap' = imap \union {r.num},
         c.pwd = call[t].pwd,
         c.empty = NoSlot \/ (c.empty = s /\ r.num = 0 /\ r.count = 1 /\ r.links = 0),
         Fits(t, c, inode'[c.slot])
  PROVE  IInv'
  <1>1. /\ s \in Slots /\ s # NoSlot /\ inode[s] \in Inode /\ ~inode[s].lock /\ ~inode[s].dirt
        /\ inode[s].count = 0
        /\ \A u \in Tasks : ~Holds(call[u], s) /\ Hold(call[u], s) = 0
        /\ inode[s].num # 0 => Entered(inode[s].num)
    BY UnusedSlot
  <1>2. /\ inode \in [Slots -> Inode] /\ Shapes /\ TaskOK(t)
        /\ inode'[s] = r /\ \A x \in Slots : x # s => inode'[x] = inode[x]
    BY <1>1, Known
  <1>3. GoodSched' /\ uses' = uses
    BY <1>1, Known, SchedClears DEF Continue
  <1>4. Apart(t, c, s)
    BY <1>1 DEF Apart
  <1>5. r.count \in Nat /\ r.num \in Numbers \union {0}
    BY DEF Inode
  <1>6. CountGoesOn(t, c, s, r)
    <2>1. Hold(call[t], s) = 0 /\ Hold(c, s) = r.count
      BY <1>1, <1>5
    <2>2. \A x \in Slots : Hold(call[t], x) \in Nat
      BY OneUser
    <2>3. \A x \in Slots : x # s => Hold(c, x) = Hold(call[t], x)
      BY <2>2
    <2> QED
      BY <1>1, <1>5, <2>1, <2>3 DEF CountGoesOn
  <1>7. \A x \in Slots : inode[x].num # 0 => inode[x].num \in imap
    BY DEF IInv, GoodInodes, SlotOK
  <1>8. ~Entered(r.num) \/ r.num = 0
    BY DEF IInv, InodesAccounted, Entered
  <1>9. imap \subseteq Numbers /\ 0 \notin Numbers
    BY DEF IInv, GoodDisk, Numbers
  <1>10. NumberGoesOn(s, r)
    <2>1. r.num # 0 => \A x \in Slots : x # s => inode[x].num # r.num
      BY <1>7
    <2>2. imap \subseteq imap' /\ imap' \subseteq Numbers /\ imap' \subseteq imap \union {r.num}
      BY <1>9
    <2>3. \A p \in Places : dir[p].nr # 0 => dir[p].nr \in imap'
      BY <2>2 DEF IInv, InodesAccounted
    <2>4. \A n \in imap' : \/ n \in imap /\ n # inode[s].num
                           \/ Entered(n)
                           \/ n = r.num /\ r.count > 0
      <3> SUFFICES ASSUME NEW n \in imap', ~Entered(n), n # r.num
                   PROVE  n \in imap /\ n # inode[s].num
        <4>1. \A n \in imap' : n = r.num => r.num # 0
          BY <1>9, <2>2
        <4> QED
          BY <4>1
      <3>1. n \in imap /\ n # 0
        BY <1>9, <2>2
      <3> QED
        BY <1>1, <3>1
    <2> QED
      BY <1>1, <1>7, <2>1, <2>2, <2>3, <2>4 DEF NumberGoesOn
  <1>11. TaskOK(t)'
    <2>1. call'[t] = c
      BY <1>2 DEF Shapes
    <2>2. Pwd(t)'
      <3>1. call[t].pwd # NoSlot => call[t].pwd \in Slots /\ call[t].pwd # s
        BY <1>1, <1>2, CallSlots DEF Holds
      <3> QED
        BY <1>2, <2>1, <3>1 DEF TaskOK, Pwd, Entered
    <2>3. Empty(t)'
      BY <1>2, <2>1 DEF Empty
    <2>4. Fits(t, call[t], Mine(t))'
      BY <1>3, <2>1, FitsAfter
    <2> QED
      BY <2>2, <2>3, <2>4 DEF TaskOK
  <1>12. SlotOK(s)'
    <2>1. r.num # 0 => ~Entered(r.num)' /\ r.num \in imap'
      BY <1>8 DEF Entered
    <2> QED
      BY <1>2, <2>1 DEF SlotOK
  <1> QED
    BY <1>1, <1>3, <1>4, <1>6, <1>10, <1>11, <1>12, ApartStep

(* What memset leaves is an inode. *)
LEMMA ZeroInode == Zero \in Inode /\ \A k \in Nat : [Zero EXCEPT !.count = k] \in Inode
  <1>1. 0 \in 0 .. 2 /\ 0 \in Nat /\ 0 \in Numbers \union {0}
    OBVIOUS
  <1>2. Zero \in Inode
    BY <1>1 DEF Zero, Inode
  <1> QED
    BY <1>2 DEF Inode

(* iget takes an empty inode. *)
LEMMA IgetStep == ASSUME IInv, NEW t \in Tasks, Iget(t) PROVE IInv'
  <1>1. PICK s \in Unused : /\ Clear(s, 1)
                            /\ call' = [call EXCEPT ![t].pc = "search", ![t].empty = s]
    BY DEF Iget
  <1> DEFINE c == [call[t] EXCEPT !.pc = "search", !.empty = s]
             r == [Zero EXCEPT !.count = 1]
  <1>2. /\ call[t].pc = "iget" /\ current = t /\ call[t] \in Calls /\ Shape(t, call[t]) /\ TaskOK(t)
        /\ s \in Slots /\ s # NoSlot /\ Continue /\ UNCHANGED <<disk, imap, dir>>
        /\ NoSlot \notin Slots
    BY Known, UnusedSlot DEF Iget, At, Runs
  <1>3. /\ r.num = 0 /\ r.count = 1 /\ ~r.lock /\ ~r.dirt /\ r.links = 0
    BY DEF Zero
  <1>4. r \in Inode
    BY ZeroInode
  <1>5. /\ call' = [call EXCEPT ![t] = c] /\ inode' = [inode EXCEPT ![s] = r]
        /\ wq' = [wq EXCEPT ![s] = NoTask]
        /\ current' = current /\ state' = state /\ tmp' = tmp
    BY <1>1 DEF Clear, Set
  <1>6. /\ c.pc = "search" /\ c.op = call[t].op /\ c.place = call[t].place
        /\ c.slot = call[t].slot /\ c.pwd = call[t].pwd /\ c.nr = call[t].nr
        /\ c.empty = s /\ c.asleep = call[t].asleep /\ c \in Calls
    BY <1>2 DEF Calls, Labels
  <1> HIDE DEF c, r
  <1>7. call[t].slot = NoSlot /\ call[t].empty = NoSlot
    BY <1>2 DEF Shape
  <1>8. Shape(t, c)
    BY <1>2, <1>6 DEF Shape, Lookup, Freeing, Waiting
  <1>9. \A x \in Slots : Hold(c, x) = Hold(call[t], x) + (IF x = s THEN r.count ELSE 0)
    <2>1. ~Holds(call[t], s)
      BY UnusedSlot
    <2> QED
      BY <1>2, <1>3, <1>6, <1>7, <2>1 DEF Hold, Holds, Looking
  <1>10. ~Locking(call[t]) /\ ~Locking(c)
    BY <1>2, <1>6 DEF Locking
  <1>11. Fits(t, c, inode'[c.slot])
    <2>1. dir'[c.place].nr = c.nr /\ dir[c.place].nr = c.nr
      BY <1>2, <1>6 DEF TaskOK, Fits, LooksUp, Lookup
    <2> QED
      BY <1>6, <1>7, <2>1
         DEF Fits, LooksUp, Locks, Shares, Owns, Lookup, Locking, Freeing, Private, Shared
  <1> QED
    BY <1>2, <1>3, <1>4, <1>5, <1>6, <1>8, <1>9, <1>10, <1>11, TakeStep

(* new_inode takes an empty inode, and a number if there is one. *)
LEMMA NewInodeStep == ASSUME IInv, NEW t \in Tasks, NewInode(t) PROVE IInv'
  <1> DEFINE free == Numbers \ imap
  <1>1. /\ call[t].pc = "new_inode" /\ current = t /\ call[t] \in Calls /\ Shape(t, call[t])
        /\ TaskOK(t) /\ Continue /\ NoSlot \notin Slots
    BY Known DEF NewInode, At, Runs
  <1>2. call[t].slot = NoSlot /\ call[t].empty = NoSlot /\ call[t].op = "mkdir"
        /\ call[t].place = NoPlace
    BY <1>1 DEF Shape
  <1>3. ASSUME NEW s \in Unused, Clear(s, 0), Return(t), UNCHANGED <<disk, imap, dir>>
        PROVE  IInv'
    <2> DEFINE c == Caller(call[t].pwd)
               r == [Zero EXCEPT !.count = 0]
    <2>1. r.num = 0 /\ r.count = 0 /\ ~r.lock /\ ~r.dirt /\ r.links = 0
      BY DEF Zero
    <2>2. r \in Inode
      BY ZeroInode
    <2>3. /\ call' = [call EXCEPT ![t] = c] /\ inode' = [inode EXCEPT ![s] = r]
          /\ wq' = [wq EXCEPT ![s] = NoTask]
          /\ current' = current /\ state' = state /\ tmp' = tmp
      BY <1>3 DEF Clear, Set, Return
    <2>4. c.pc = "user" /\ c.slot = NoSlot /\ c.empty = NoSlot /\ c.pwd = call[t].pwd
      BY DEF Caller
    <2>5. Shape(t, c)
      BY <1>1, CallerShape DEF Shape, Calls
    <2> HIDE DEF c, r
    <2>6. \A x \in Slots : Hold(c, x) = Hold(call[t], x) + (IF x = s THEN r.count ELSE 0)
      BY <1>1, <1>2, <2>1, <2>4 DEF Hold, Looking
    <2>7. ~Locking(call[t]) /\ ~Locking(c)
      BY <1>1, <2>4 DEF Locking
    <2>8. Fits(t, c, inode'[c.slot])
      BY <2>4 DEF Fits, LooksUp, Locks, Shares, Owns, Lookup, Locking, Freeing, Private, Shared
    <2> QED
      BY <1>1, <1>3, <2>1, <2>2, <2>3, <2>4, <2>5, <2>6, <2>7, <2>8, TakeStep
  <1>4. ASSUME NEW s \in Unused, NEW nr \in free,
               Set(s, [Zero EXCEPT !.num = nr, !.count = 1, !.dirt = TRUE, !.links = 1]),
               wq' = [wq EXCEPT ![s] = NoTask], imap' = imap \union {nr},
               call' = [call EXCEPT ![t].pc = "block", ![t].nr = nr, ![t].slot = s],
               UNCHANGED <<current, state, tmp, disk, dir>>
        PROVE  IInv'
    <2> DEFINE c == [call[t] EXCEPT !.pc = "block", !.nr = nr, !.slot = s]
               r == [Zero EXCEPT !.num = nr, !.count = 1, !.dirt = TRUE, !.links = 1]
    <2>1. /\ r.num = nr /\ r.count = 1 /\ ~r.lock /\ r.dirt /\ r.links = 1 /\ ~r.dir
      BY DEF Zero
    <2>2. r \in Inode /\ nr # 0 /\ nr \in Numbers /\ s \in Slots /\ s # NoSlot
      <3>1. 1 \in 0 .. 2 /\ 1 \in Nat /\ nr \in Numbers \union {0}
        OBVIOUS
      <3>2. r \in Inode
        BY <3>1, ZeroInode DEF Inode
      <3> QED
        BY <3>2, UnusedSlot DEF Numbers
    <2>3. /\ call' = [call EXCEPT ![t] = c] /\ inode' = [inode EXCEPT ![s] = r]
          /\ current' = current /\ state' = state /\ tmp' = tmp
      BY <1>4 DEF Set
    <2>4. /\ c.pc = "block" /\ c.op = call[t].op /\ c.place = call[t].place
          /\ c.slot = s /\ c.pwd = call[t].pwd /\ c.nr = nr
          /\ c.empty = call[t].empty /\ c.asleep = call[t].asleep /\ c \in Calls
      BY <1>1, <2>2 DEF Calls, Labels, MaySleep
    <2> HIDE DEF c, r
    <2>5. Shape(t, c)
      BY <1>1, <1>2, <2>2, <2>4 DEF Shape, Lookup, Freeing, Waiting
    <2>6. \A x \in Slots : Hold(c, x) = Hold(call[t], x) + (IF x = s THEN r.count ELSE 0)
      <3>1. ~Holds(call[t], s)
        BY UnusedSlot
      <3> QED
        BY <1>1, <1>2, <2>1, <2>2, <2>4, <3>1 DEF Hold, Holds, Looking
    <2>7. ~Locking(call[t]) /\ ~Locking(c)
      BY <1>1, <2>4 DEF Locking
    <2>8. ~Entered(nr)
      BY <2>2 DEF IInv, InodesAccounted, Entered
    <2>9. Fits(t, c, r)
      BY <2>1, <2>2, <2>4, <2>8
         DEF Fits, LooksUp, Locks, Shares, Owns, Lookup, Locking, Freeing, Private, Shared, Unlinked
    <2>10. Fits(t, c, inode'[c.slot])
      BY <2>2, <2>3, <2>4, <2>9, Known
    <2>11. /\ r.num # 0 => r.count = 1 /\ r.dirt /\ r.links = 1
           /\ r.num = 0 => ~r.dirt /\ imap' = imap
           /\ r.num # 0 => r.num \in Numbers \ imap /\ imap' = imap \union {r.num}
           /\ c.empty = NoSlot /\ disk' = disk /\ dir' = dir
           /\ wq' = [wq EXCEPT ![s] = NoTask]
      BY <1>2, <1>4, <2>1, <2>2, <2>4
    <2> HIDE DEF free
    <2> QED
      BY <1>1, <2>1, <2>2, <2>3, <2>4, <2>5, <2>6, <2>7, <2>10, <2>11, TakeStep
  <1> QED
    BY <1>3, <1>4 DEF NewInode

(* iget has not found the number, and gives it to its empty inode. *)
LEMMA SearchFailedStep == ASSUME IInv, NEW t \in Tasks, SearchFailed(t) PROVE IInv'
  <1>1. /\ call[t].pc = "search" /\ current = t /\ call[t] \in Calls /\ Shape(t, call[t])
        /\ TaskOK(t) /\ NoSlot \notin Slots /\ inode \in [Slots -> Inode]
        /\ UNCHANGED schedVars /\ UNCHANGED <<disk, imap, dir>> /\ Continue
    BY Known DEF SearchFailed, At, Runs
  <1>2. call[t].slot = NoSlot /\ call[t].empty # NoSlot /\ call[t].nr # 0
    BY <1>1 DEF Shape, Lookup
  <1>3. PICK s \in Slots : s = call[t].empty
    BY <1>1, <1>2 DEF Calls
  <1> DEFINE n == call[t].nr
             r == [inode[s] EXCEPT !.num = n, !.lock = TRUE]
             c == [call[t] EXCEPT !.pc = "read", !.slot = s, !.empty = NoSlot]
  <1>4. /\ inode[s] \in Inode /\ inode[s].num = 0 /\ inode[s].count = 1 /\ inode[s].links = 0
        /\ SlotOK(s)
    BY <1>1, <1>2, <1>3 DEF TaskOK, Empty, IInv, GoodInodes
  <1>5. ~inode[s].lock /\ ~inode[s].dirt
    BY <1>4 DEF SlotOK
  <1>6. Holds(call[t], s) /\ \A u \in Tasks : u # t => ~Holds(call[u], s)
    <2>1. Holds(call[t], s)
      BY <1>3 DEF Holds
    <2> QED
      BY <1>4, <2>1, CountedUsers DEF IInv
  <1>7. /\ \A x \in Slots : inode[x].num # n
        /\ n \in Numbers /\ dir[call[t].place].nr = n /\ call[t].place \in Places
    <2>1. \A x \in Slots : inode[x].num # n
      BY DEF SearchFailed, WithNumber
    <2>2. n \in Numbers
      BY <1>1, <1>2 DEF Calls
    <2>3. dir[call[t].place].nr = n
      BY <1>1 DEF TaskOK, Fits, LooksUp, Lookup
    <2>4. call[t].place \in Places
      BY <1>1 DEF Shape, Calls, Lookup
    <2> QED
      BY <2>1, <2>2, <2>3, <2>4
  <1>8. /\ call' = [call EXCEPT ![t] = c] /\ inode' = [inode EXCEPT ![s] = r]
    BY <1>3 DEF SearchFailed, Set
  <1>9. /\ c.pc = "read" /\ c.op = call[t].op /\ c.place = call[t].place
        /\ c.slot = s /\ c.pwd = call[t].pwd /\ c.nr = n
        /\ c.empty = NoSlot /\ c.asleep = call[t].asleep /\ c \in Calls
    BY <1>1 DEF Calls, Labels, MaySleep
  <1>10. /\ r.num = n /\ r.count = 1 /\ r.lock /\ ~r.dirt /\ r.links = 0 /\ r \in Inode
    BY <1>4, <1>5, <1>7 DEF Inode
  <1> HIDE DEF c, r, n
  <1>11. Shape(t, c)
    BY <1>1, <1>2, <1>3, <1>9 DEF Shape, Lookup, Freeing, Waiting, n
  <1>12. Apart(t, c, s)
    BY <1>1, <1>5, <1>6, <1>9 DEF Apart, Locking
  <1>13. n # 0 /\ Entered(n) /\ n \in imap
    <2>1. n # 0 /\ Entered(n)
      BY <1>7 DEF Entered, Numbers
    <2> QED
      BY <1>7, <2>1 DEF IInv, InodesAccounted
  <1>14. CountGoesOn(t, c, s, r)
    <2>1. Hold(c, s) = Hold(call[t], s) /\ \A x \in Slots : x # s => Hold(c, x) = Hold(call[t], x)
      <3>1. c.pc \notin Looking /\ call[t].pwd # s
        <4>1. call[t].pwd = s => inode[s].num # 0
          BY <1>1, <1>3, <1>2 DEF TaskOK, Pwd
        <4> QED
          BY <1>4, <1>9, <4>1 DEF Looking
      <3> QED
        BY <1>1, <1>2, <1>3, <1>9, <3>1 DEF Hold
    <2> QED
      BY <1>4, <1>10, <2>1 DEF CountGoesOn
  <1>15. /\ imap' = imap /\ imap \subseteq Numbers
         /\ \A p \in Places : dir[p].nr # 0 => dir[p].nr \in imap
         /\ \A x \in Slots : inode[x].num # 0 => inode[x].num \in imap
    BY <1>1 DEF IInv, GoodDisk, InodesAccounted, GoodInodes, SlotOK
  <1>16. NumberGoesOn(s, r)
    <2>1. \A m \in imap : m # inode[s].num
      BY <1>4, <1>15 DEF Numbers
    <2> QED
      BY <1>4, <1>7, <1>10, <1>15, <2>1 DEF NumberGoesOn
  <1>17. TaskOK(t)'
    <2>1. call'[t] = c /\ inode'[s] = r /\ \A x \in Slots : x # s => inode'[x] = inode[x]
      BY <1>1, <1>8, Known
    <2>2. Pwd(t)'
      <3>1. call[t].pwd # NoSlot => /\ call[t].pwd \in Slots /\ inode[call[t].pwd].num # 0
                                    /\ Entered(inode[call[t].pwd].num)
        BY <1>1, Known, CallSlots DEF TaskOK, Pwd
      <3>2. call[t].pwd # s \/ call[t].pwd = NoSlot
        BY <1>4, <3>1
      <3> QED
        BY <1>1, <1>9, <2>1, <3>1, <3>2 DEF Pwd, Entered
    <2>3. Empty(t)'
      BY <1>9, <2>1 DEF Empty
    <2>4. Fits(t, c, r)
      BY <1>1, <1>7, <1>9, <1>10, <1>13
         DEF Fits, LooksUp, Locks, Shares, Owns, Lookup, Locking, Freeing, Private, Shared
    <2>5. inode'[c.slot] = r
      BY <1>9, <2>1
    <2>6. dir' = dir /\ uses' = uses /\ current' = current
      BY <1>1 DEF schedVars, Continue
    <2>7. Fits(t, call[t], Mine(t))'
      BY <2>1, <2>4, <2>5, <2>6, FitsAfter
    <2> QED
      BY <2>2, <2>3, <2>7 DEF TaskOK
  <1>18. SlotOK(s)'
    <2>1. inode'[s] = r /\ call'[t] = c
      BY <1>1, <1>8, Known
    <2>2. \E u \in Tasks : call'[u].pc = "read" /\ call'[u].slot = s
      BY <1>9, <2>1
    <2>3. \E u \in Tasks : Locking(call'[u]) /\ call'[u].slot = s
      BY <2>2 DEF Locking
    <2>4. inode'[s].num # 0 /\ inode'[s].count # 0 /\ inode'[s].num \in imap'
      BY <1>10, <1>13, <1>15, <2>1
    <2> QED
      BY <2>2, <2>3, <2>4 DEF SlotOK
  <1>19. GoodSched' /\ disk' = disk /\ dir' = dir /\ uses' = uses
    BY <1>1, Known, SchedSame DEF Continue
  <1> QED
    BY <1>1, <1>8, <1>10, <1>11, <1>12, <1>14, <1>16, <1>17, <1>18, <1>19, ApartStep

(* iput has freed the inode. *)
LEMMA FreeInodeStep == ASSUME IInv, NEW t \in Tasks, FreeInode(t) PROVE IInv'
  <1>1. /\ call[t].pc \in {"free", "free_now"} /\ current = t /\ call[t] \in Calls
        /\ Shape(t, call[t]) /\ TaskOK(t) /\ NoSlot \notin Slots /\ inode \in [Slots -> Inode]
        /\ call[t].empty = NoSlot
    BY Known DEF FreeInode, At, Runs, Shape
  <1>2. Private(call[t])
    BY <1>1 DEF Private, Freeing
  <1>3. PICK s \in Slots : s = call[t].slot
    BY <1>2, PrivateOwned
  <1>4. /\ s # NoSlot /\ inode[s] \in Inode /\ Holds(call[t], s)
        /\ inode[s].num \in Numbers /\ ~Entered(inode[s].num) /\ inode[s].count = 1
        /\ \A u \in Tasks : u # t => ~Holds(call[u], s)
        /\ ~inode[s].lock /\ Mine(t) = inode[s]
    BY <1>1, <1>2, <1>3, PrivateOwned DEF Mine, Owns, Freeing
  <1>5. ASSUME imap' = imap \ {inode[s].num}, Clear(s, 0), Return(t), UNCHANGED <<disk, dir>>,
               Continue
        PROVE  IInv'
    <2> DEFINE c == Caller(call[t].pwd)
               r == [Zero EXCEPT !.count = 0]
    <2>1. r.num = 0 /\ r.count = 0 /\ ~r.lock /\ ~r.dirt /\ r.links = 0
      BY DEF Zero
    <2>2. r \in Inode
      BY ZeroInode
    <2>3. /\ call' = [call EXCEPT ![t] = c] /\ inode' = [inode EXCEPT ![s] = r]
          /\ wq' = [wq EXCEPT ![s] = NoTask]
          /\ current' = current /\ state' = state /\ tmp' = tmp
      BY <1>5 DEF Clear, Set, Return
    <2>4. c.pc = "user" /\ c.slot = NoSlot /\ c.empty = NoSlot /\ c.pwd = call[t].pwd
      BY DEF Caller
    <2>5. Shape(t, c)
      BY <1>1, CallerShape DEF Shape, Calls
    <2> HIDE DEF c, r
    <2>6. ~Locking(call[t]) /\ ~Locking(c) /\ call[t].pc \notin Looking
      BY <1>1, <2>4 DEF Locking, Looking
    <2>7. Apart(t, c, s)
      BY <1>4, <2>6 DEF Apart
    <2>8. call[t].pwd # s
      BY <1>1, <1>4 DEF TaskOK, Pwd
    <2>9. CountGoesOn(t, c, s, r)
      <3>1. Hold(c, s) = 0 /\ Hold(call[t], s) = 1
        BY <1>1, <1>3, <1>4, <2>4, <2>6, <2>8 DEF Hold
      <3>2. \A x \in Slots : x # s => Hold(c, x) = Hold(call[t], x)
        BY <1>1, <1>3, <2>4 DEF Hold
      <3> QED
        BY <1>4, <2>1, <3>1, <3>2 DEF CountGoesOn
    <2>10. NumberGoesOn(s, r)
      <3>1. imap \subseteq Numbers
        BY DEF IInv, GoodDisk
      <3>2. \A p \in Places : dir[p].nr # 0 => dir[p].nr \in imap'
        BY <1>4, <1>5 DEF IInv, InodesAccounted, Entered
      <3>3. \A x \in Slots : x # s /\ inode[x].num # 0 => inode[x].num \in imap'
        BY <1>4, <1>5 DEF IInv, OneInodePerNumber, GoodInodes, SlotOK
      <3> QED
        BY <1>4, <1>5, <2>1, <3>1, <3>2, <3>3 DEF NumberGoesOn
    <2>11. TaskOK(t)'
      <3>1. call'[t] = c /\ inode'[s] = r /\ \A x \in Slots : x # s => inode'[x] = inode[x]
        BY <1>1, <2>3, Known
      <3>2. Pwd(t)'
        <4>1. call[t].pwd # NoSlot => /\ call[t].pwd \in Slots /\ inode[call[t].pwd].num # 0
                                      /\ Entered(inode[call[t].pwd].num)
          BY <1>1, Known, CallSlots DEF TaskOK, Pwd
        <4> QED
          BY <1>5, <2>4, <2>8, <3>1, <4>1 DEF Pwd, Entered
      <3>3. Empty(t)'
        BY <2>4, <3>1 DEF Empty
      <3>4. Fits(t, call[t], Mine(t))'
        <4>1. Fits(t, c, inode'[c.slot])
          BY <2>4 DEF Fits, LooksUp, Locks, Shares, Owns, Lookup, Locking, Freeing, Private, Shared
        <4>2. dir' = dir /\ uses' = uses /\ current' = current
          BY <1>5, <2>3 DEF Continue
        <4> QED
          BY <3>1, <4>1, <4>2, FitsAfter
      <3> QED
        BY <3>2, <3>3, <3>4 DEF TaskOK
    <2>12. SlotOK(s)'
      <3>1. inode'[s] = r
        BY <1>1, <2>3
      <3> QED
        BY <2>1, <3>1 DEF SlotOK
    <2>13. GoodSched' /\ disk' = disk /\ dir' = dir /\ uses' = uses
      BY <1>5, <2>3, Known, SchedClears DEF Continue
    <2> QED
      BY <1>1, <2>2, <2>3, <2>5, <2>7, <2>9, <2>10, <2>11, <2>12, <2>13, ApartStep
  <1>6. CASE Halt
    BY <1>6, HaltStep
  <1> QED
    BY <1>3, <1>4, <1>5, <1>6 DEF FreeInode

-----------------------------------------------------------------------------
(* iget finds the inode after all and gives the empty one back. *)
Retakes(s, e) == inode' = [inode EXCEPT ![s].count = @ + 1, ![e].count = @ - 1]
Gets(t) == call' = [call EXCEPT ![t].pc = "got", ![t].empty = NoSlot]
(* iget takes the inode that it has waited for: the other tasks. *)
LEMMA OthersRetake ==
  ASSUME IInv, Peace(uses), NEW t \in Tasks, call[t].pc = "search_wait",
         NEW c, call' = [call EXCEPT ![t] = c],
         NEW s \in Slots, NEW e \in Slots, call[t].slot = s, call[t].empty = e,
         ~inode[s].lock, inode[s].num = call[t].nr,
         Retakes(s, e),
         dir' = dir, uses' = uses, current = t,
         NEW u \in Tasks, u # t
  PROVE  TaskOK(u)'
  <1>1. /\ call'[u] = call[u] /\ TaskOK(u) /\ TaskOK(t) /\ inode \in [Slots -> Inode]
        /\ Shape(t, call[t]) /\ Shape(u, call[u]) /\ Shapes /\ CountIsUsers
    BY Known DEF IInv
  <1>2. /\ call[t].nr # 0 /\ Entered(inode[s].num) /\ call[t].op # "none" /\ call[t].op \in uses[t]
        /\ call[t].op # "mkdir"
    BY <1>1 DEF Shape, TaskOK, Fits, LooksUp, Lookup, Entered, Calls
  <1>3. call[u].pc # "is_empty"
    <2>1. call[u].pc = "is_empty" => "rmdir" \in uses[u]
      BY <1>1 DEF Shape
    <2>2. call[t].op \in uses[t] /\ call[t].op # "mkdir"
      BY <1>2
    <2> QED
      BY <2>1, <2>2 DEF Peace
  <1>4. inode[e].count = 1 /\ Holds(call[t], e) /\ ~Holds(call[u], e) /\ inode[e].num = 0
    <2>1. inode[e].count = 1 /\ Holds(call[t], e) /\ inode[e].num = 0
      BY <1>1, Known DEF TaskOK, Empty, Holds
    <2> QED
      BY <1>1, <2>1, CountedUsers
  <1>5. ~inode[e].lock /\ s # e
    <2>1. SlotOK(e)
      BY DEF IInv, GoodInodes
    <2> QED
      BY <1>2, <1>4, <2>1 DEF SlotOK
  <1>6. /\ \A x \in Slots : /\ inode'[x].num = inode[x].num /\ inode'[x].lock = inode[x].lock
                            /\ inode'[x].dirt = inode[x].dirt /\ inode'[x].links = inode[x].links
                            /\ inode'[x].dir = inode[x].dir
        /\ \A x \in Slots : x # s /\ x # e => inode'[x] = inode[x]
    BY <1>1, <1>5 DEF Inode, Retakes
  <1>7. /\ call[u].pwd # NoSlot => call[u].pwd \in Slots
        /\ call[u].slot # NoSlot => call[u].slot \in Slots
        /\ call[u].empty # NoSlot => call[u].empty \in Slots /\ call[u].empty # e
    BY <1>1, <1>4, CallSlots
  <1>8. Pwd(u)'
    BY <1>1, <1>6, <1>7 DEF TaskOK, Pwd, Entered
  <1>9. Empty(u)'
    <2>1. call[u].empty # NoSlot => call[u].empty # s
      BY <1>1, <1>2 DEF TaskOK, Empty
    <2> QED
      BY <1>1, <1>6, <1>7, <2>1 DEF TaskOK, Empty
  <1>10. LooksUp(call[u], Mine(u))'
    <2>1. call[u].pc \in {"read", "got"} => Mine(u)'.num = Mine(u).num
      BY <1>1, <1>6, <1>7, CallLabels DEF Mine
    <2> QED
      BY <1>1, <1>3, <2>1 DEF TaskOK, Fits, LooksUp
  <1>11. Locks(call[u], Mine(u))'
    <2>1. Locking(call[u]) => call[u].slot \in Slots /\ inode[call[u].slot].lock
      BY <1>1, <1>7, CallLabels DEF TaskOK, Fits, Locks, Mine
    <2>2. Locking(call[u]) => inode'[call[u].slot] = inode[call[u].slot]
      BY <1>5, <1>6, <2>1
    <2> QED
      BY <1>1, <2>2 DEF TaskOK, Fits, Locks, Mine, Locking
  <1>12. Shares(call[u], Mine(u))'
    BY <1>1, <1>6, <1>7, CallLabels DEF TaskOK, Fits, Shares, Mine, Entered
  <1>13. Owns(u, call[u], Mine(u))'
    <2>1. Private(call[u]) => /\ call[u].slot \in Slots /\ call[u].slot # s /\ call[u].slot # e
      BY <1>1, <1>2, <1>4, <1>7, CallLabels, CallSlots DEF TaskOK, Fits, Owns, Mine
    <2>2. Private(call[u]) \/ call[u].pc \in Freeing \union {"block", "fill", "add"} => Mine(u)' = Mine(u)
      BY <1>1, <1>6, <2>1, CallLabels DEF Mine, Private
    <2>3. call[u].pc # "free_now"
      BY <1>1 DEF TaskOK, Fits, Owns
    <2> QED
      BY <1>1, <2>2, <2>3 DEF TaskOK, Fits, Owns, Entered, NoOtherSync
  <1> QED
    BY <1>8, <1>9, <1>10, <1>11, <1>12, <1>13 DEF TaskOK, Fits

(* iget takes the inode that it has waited for. *)
LEMMA RetakeStep ==
  ASSUME IInv, Peace(uses), NEW t \in Tasks, call[t].pc = "search_wait", ~call[t].asleep,
         NEW s \in Slots, NEW e \in Slots, call[t].slot = s, call[t].empty = e,
         ~inode[s].lock, inode[s].num = call[t].nr,
         Retakes(s, e),
         Gets(t),
         UNCHANGED schedVars, UNCHANGED <<disk, imap, dir>>, Continue, current = t
  PROVE  IInv'
  <1> DEFINE c == [call[t] EXCEPT !.pc = "got", !.empty = NoSlot]
  <1>1. /\ TaskOK(t) /\ inode \in [Slots -> Inode] /\ call[t] \in Calls
        /\ Shape(t, call[t]) /\ Shapes /\ CountIsUsers /\ NoSlot \notin Slots
        /\ disk' = disk /\ imap' = imap /\ dir' = dir /\ uses' = uses /\ current' = current
    BY Known DEF IInv, Continue, schedVars
  <1>2. /\ call[t].nr # 0 /\ Entered(inode[s].num) /\ dir[call[t].place].nr = call[t].nr
    BY <1>1 DEF Shape, TaskOK, Fits, LooksUp, Lookup, Entered, Calls
  <1>3. inode[e].count = 1 /\ inode[e].num = 0 /\ s # e
    BY <1>1, <1>2 DEF TaskOK, Empty
  <1>4. call' = [call EXCEPT ![t] = c]
    BY DEF Gets
  <1>5. /\ c.pc = "got" /\ c.op = call[t].op /\ c.place = call[t].place
        /\ c.slot = s /\ c.pwd = call[t].pwd /\ c.nr = call[t].nr
        /\ c.empty = NoSlot /\ c.asleep = call[t].asleep /\ c \in Calls
    BY <1>1 DEF Calls, Labels
  <1> HIDE DEF c
  <1>6. Shape(t, c)
    BY <1>1, <1>5 DEF Shape, Lookup, Freeing, Waiting
  <1>7. Shapes' /\ call'[t] = c /\ \A u \in Tasks : u # t => call'[u] = call[u]
    BY <1>1, <1>4, <1>6, ShapesAfter
  <1>8. /\ \A x \in Slots : /\ inode'[x].num = inode[x].num /\ inode'[x].lock = inode[x].lock
                            /\ inode'[x].dirt = inode[x].dirt /\ inode'[x].links = inode[x].links
                            /\ inode'[x].dir = inode[x].dir
        /\ \A x \in Slots : x # s /\ x # e => inode'[x] = inode[x]
        /\ inode'[s].count = inode[s].count + 1 /\ inode'[e].count = 0
        /\ inode' \in [Slots -> Inode]
    <2>1. \A x \in Slots : inode[x] \in Inode
      BY <1>1
    <2>2. inode[s].count \in Nat /\ inode[s].count + 1 \in Nat /\ inode[e].count - 1 = 0
      BY <1>3, <2>1 DEF Inode
    <2>3. inode' = [inode EXCEPT ![s] = [inode[s] EXCEPT !.count = inode[s].count + 1],
                                 ![e] = [inode[e] EXCEPT !.count = 0]]
      BY <1>1, <1>3, <2>2 DEF Retakes
    <2> QED
      BY <1>1, <1>3, <2>1, <2>2, <2>3 DEF Inode
  <1>9. \A u \in Tasks : TaskOK(u)'
    <2>1. ASSUME NEW u \in Tasks, u # t PROVE TaskOK(u)'
      <3>1. dir' = dir /\ uses' = uses
        BY <1>1
      <3> QED
        BY <1>4, <2>1, <3>1, OthersRetake
    <2>2. Pwd(t)' /\ Empty(t)'
      BY <1>1, <1>5, <1>7, <1>8, CallSlots DEF TaskOK, Pwd, Empty, Entered
    <2>3. Fits(t, c, inode'[s])
      BY <1>2, <1>5, <1>8
         DEF Fits, LooksUp, Locks, Shares, Owns, Lookup, Locking, Freeing, Private, Shared
    <2>4. inode'[c.slot] = inode'[s]
      BY <1>5
    <2>5. Fits(t, call[t], Mine(t))'
      BY <1>1, <1>7, <2>3, <2>4, FitsAfter
    <2> QED
      BY <2>1, <2>2, <2>5 DEF TaskOK
  <1>10. ~Locking(call[t]) /\ ~Locking(c)
    BY <1>5 DEF Locking
  <1>11. GoodInodes'
    <2> SUFFICES ASSUME NEW x \in Slots PROVE SlotOK(x)'
      BY <1>8 DEF GoodInodes
    <2>1. SlotOK(x) /\ inode[x].count \in Nat
      BY <1>1 DEF IInv, GoodInodes, Inode
    <2>2. \A u \in Tasks : Locking(call[u]) => call'[u] = call[u]
      BY <1>7, <1>10
    <2>3. \A u \in Tasks : call[u].pc = "read" => call'[u] = call[u]
      BY <1>7
    <2>4. inode'[x].count = 0 => inode[x].num = 0 \/ inode[x].count = 0
      BY <1>1, <1>3, <1>8, <2>1
    <2>5. /\ inode'[x].num = inode[x].num /\ inode'[x].lock = inode[x].lock
          /\ inode'[x].dirt = inode[x].dirt /\ inode'[x].links = inode[x].links
          /\ inode'[x].dir = inode[x].dir /\ imap' = imap
      BY <1>1, <1>8
    <2>6. Entered(inode[x].num)' <=> Entered(inode[x].num)
      BY <1>1, <2>5 DEF Entered
    <2>7. /\ inode'[x].num = 0 \/ inode'[x].count = 0 => ~inode'[x].dirt /\ ~inode'[x].lock
          /\ inode'[x].num # 0 => inode'[x].num \in imap'
      BY <2>1, <2>4, <2>5 DEF SlotOK
    <2>8. inode'[x].num # 0 /\ Entered(inode[x].num)' =>
            \/ inode'[x].links = 2 /\ inode'[x].dir
            \/ \E u \in Tasks : call'[u].pc = "read" /\ call'[u].slot = x
      BY <2>1, <2>3, <2>5, <2>6 DEF SlotOK
    <2>9. inode'[x].lock => \E u \in Tasks : Locking(call'[u]) /\ call'[u].slot = x
      BY <2>1, <2>2, <2>5 DEF SlotOK
    <2> QED
      BY <2>7, <2>8, <2>9 DEF SlotOK
  <1>12. OneLocks'
    BY <1>7, <1>10 DEF IInv, OneLocks
  <1>13. OneInodePerNumber' /\ CleanIsOnDisk'
    BY <1>1, <1>8 DEF IInv, OneInodePerNumber, CleanIsOnDisk
  <1>14. InodesAccounted'
    <2>1. ASSUME NEW n \in imap PROVE \/ \E p \in Places : dir[p].nr = n
                                      \/ \E x \in Slots : inode'[x].num = n /\ inode'[x].count > 0
      <3>1. n # 0
        BY DEF IInv, GoodDisk, Numbers
      <3>2. ASSUME NEW x \in Slots, inode[x].num = n, inode[x].count > 0
            PROVE  inode'[x].num = n /\ inode'[x].count > 0
        <4>1. inode[s].count \in Nat
          BY <1>1 DEF Inode
        <4> QED
          BY <1>3, <1>8, <3>1, <3>2, <4>1
      <3> QED
        BY <3>2 DEF IInv, InodesAccounted
    <2> QED
      BY <1>1, <2>1 DEF IInv, InodesAccounted
  <1>15. \A p \in Places : EntryOK(p)'
    BY <1>1, <1>8 DEF IInv, EntryOK
  <1>16. CountIsUsers'
    <2> SUFFICES ASSUME NEW x \in Slots PROVE inode'[x].count = Users(x)'
      BY DEF CountIsUsers
    <2>1. inode'[x].count \in Nat /\ inode[x].count \in Nat
      BY <1>1, <1>8 DEF Inode
    <2>2. /\ Hold(c, s) = Hold(call[t], s) + 1
          /\ Hold(c, e) + 1 = Hold(call[t], e)
          /\ x # s /\ x # e => Hold(c, x) = Hold(call[t], x)
      <3>1. c.pc \notin Looking /\ call[t].pc \in Looking
        BY <1>5 DEF Looking
      <3> QED
        BY <1>1, <1>3, <1>5, <3>1 DEF Hold
    <2>3. Hold(call[t], x) \in Nat /\ Hold(c, x) \in Nat
      BY <1>1, <1>4, Known, UsersAfter
    <2>4. inode'[x].count + Hold(call[t], x) = inode[x].count + Hold(c, x)
      <3>1. CASE x = s
        <4>1. inode'[x].count = inode[x].count + 1 /\ Hold(c, x) = Hold(call[t], x) + 1
          BY <1>8, <2>2, <3>1
        <4> QED
          BY <2>1, <2>3, <4>1
      <3>2. CASE x = e
        <4>1. inode'[x].count = 0 /\ inode[x].count = 1 /\ Hold(c, x) + 1 = Hold(call[t], x)
          BY <1>3, <1>8, <2>2, <3>2
        <4> QED
          BY <2>3, <4>1
      <3>3. CASE x # s /\ x # e
        BY <1>8, <2>2, <3>3
      <3> QED
        BY <3>1, <3>2, <3>3
    <2> QED
      BY <1>4, <2>1, <2>4, CountAfter
  <1>17. GoodSched' /\ GoodDisk'
    BY <1>1, Known, SchedSame DEF IInv, GoodDisk
  <1> QED
    BY <1>7, <1>9, <1>11, <1>12, <1>13, <1>14, <1>15, <1>16, <1>17 DEF IInv

(* iget goes on after it has waited. *)
LEMMA SearchWaitedStep == ASSUME IInv, Peace(uses), NEW t \in Tasks, SearchWaited(t) PROVE IInv'
  <1>1. /\ call[t].pc = "search_wait" /\ ~call[t].asleep /\ ~Mine(t).lock /\ current = t
        /\ UNCHANGED schedVars /\ UNCHANGED <<disk, imap, dir>> /\ Continue
        /\ call[t] \in Calls /\ Shape(t, call[t])
    BY Known DEF SearchWaited, Waited, At, Runs
  <1>2. call[t].slot # NoSlot /\ call[t].empty # NoSlot
    BY <1>1 DEF Shape
  <1>3. PICK s \in Slots : s = call[t].slot
    BY <1>1, <1>2 DEF Calls
  <1>4. PICK e \in Slots : e = call[t].empty
    BY <1>1, <1>2 DEF Calls
  <1>5. CASE /\ inode[s].num = call[t].nr
             /\ inode' = [inode EXCEPT ![s].count = @ + 1, ![e].count = @ - 1]
             /\ call' = [call EXCEPT ![t].pc = "got", ![t].empty = NoSlot]
    <2>1. ~inode[s].lock
      BY <1>1, <1>3 DEF Mine
    <2> QED
      BY <1>1, <1>3, <1>4, <1>5, <2>1, RetakeStep DEF Retakes, Gets
  <1>6. CASE /\ call' = [call EXCEPT ![t].pc = "search", ![t].slot = NoSlot]
             /\ UNCHANGED inode
    <2>1. UNCHANGED inodeVars
      BY <1>1, <1>6 DEF inodeVars
    <2>2. call' = [call EXCEPT ![t] = [call[t] EXCEPT !.pc = "search", !.slot = NoSlot]]
      BY <1>6
    <2> QED
      BY <1>1, <2>1, <2>2, SearchStep
  <1> QED
    BY <1>3, <1>4, <1>5, <1>6 DEF SearchWaited

-----------------------------------------------------------------------------
(* rmdir takes an entry away: the other tasks, which at most make directories. *)
LEMMA OthersRmdir ==
  ASSUME IInv, Peace(uses), NEW t \in Tasks, call[t].op = "rmdir",
         NEW c, call' = [call EXCEPT ![t] = c],
         NEW s \in Slots, Holds(call[t], s), inode[s].count = 1, inode[s].num # 0,
         NEW r \in Inode, inode' = [inode EXCEPT ![s] = r],
         \A n \in Numbers : n # inode[s].num => (Entered(n)' <=> Entered(n)),
         ~Entered(inode[s].num)',
         uses' = uses, current = t,
         NEW u \in Tasks, u # t
  PROVE  TaskOK(u)'
  <1>1. /\ call'[u] = call[u] /\ TaskOK(u) /\ inode \in [Slots -> Inode]
        /\ Shape(t, call[t]) /\ Shape(u, call[u]) /\ Shapes /\ CountIsUsers
        /\ call[u] \in Calls /\ NoSlot \notin Slots
    BY Known DEF IInv
  <1>2. uses[u] \subseteq {"mkdir"}
    BY <1>1 DEF Shape, Peace
  <1>3. call[u].op \in {"none", "mkdir"} /\ call[u].pwd = NoSlot
    BY <1>1, <1>2 DEF Shape
  <1>4. call[u].pc \notin Lookup /\ call[u].pc # "sync_disk"
    BY <1>1, <1>3 DEF Shape, Lookup
  <1>5. ~Holds(call[u], s)
    BY <1>1, CountedUsers
  <1>6. \A x \in Slots : x # s => /\ inode'[x] = inode[x]
                                  /\ inode[x].num # 0 => (Entered(inode[x].num)' <=> Entered(inode[x].num))
    <2> SUFFICES ASSUME NEW x \in Slots, x # s
                 PROVE  /\ inode'[x] = inode[x]
                        /\ inode[x].num # 0 => (Entered(inode[x].num)' <=> Entered(inode[x].num))
      OBVIOUS
    <2>1. inode'[x] = inode[x]
      BY <1>1
    <2>2. inode[x].num # 0 => inode[x].num \in Numbers /\ inode[x].num # inode[s].num
      BY <1>1 DEF IInv, OneInodePerNumber, Inode
    <2> QED
      BY <2>1, <2>2 DEF Entered
  <1>7. Pwd(u)'
    BY <1>1, <1>3 DEF Pwd
  <1>8. Empty(u)'
    <2>1. call[u].empty # NoSlot => call[u].empty \in Slots /\ call[u].empty # s
      BY <1>1, <1>5, CallSlots
    <2> QED
      BY <1>1, <1>6, <2>1 DEF TaskOK, Empty
  <1>9. LooksUp(call[u], Mine(u))'
    BY <1>1, <1>4 DEF LooksUp, Lookup
  <1>10. call[u].pc \notin Looking /\ call[u].slot # NoSlot => Mine(u)' = Mine(u) /\ call[u].slot # s
                                                               /\ call[u].slot \in Slots
    BY <1>1, <1>5, <1>6, CallSlots DEF Mine
  <1>11. Locks(call[u], Mine(u))'
    BY <1>1, <1>4, <1>10, CallLabels DEF TaskOK, Fits, Locks, Lookup, Locking, Looking
  <1>12. Shares(call[u], Mine(u))'
    <2>1. Shared(call[u]) => Mine(u)' = Mine(u) /\ call[u].slot # s /\ call[u].slot \in Slots
      BY <1>1, <1>10, CallLabels
    <2>2. Shared(call[u]) => Mine(u).num # 0 /\ Entered(Mine(u).num)
      BY <1>1 DEF TaskOK, Fits, Shares
    <2>3. Shared(call[u]) => Entered(inode[call[u].slot].num)'
      BY <1>6, <2>1, <2>2 DEF Mine
    <2> QED
      BY <1>1, <2>1, <2>2, <2>3 DEF Shares, Mine, Entered
  <1>13. Owns(u, call[u], Mine(u))'
    <2>1. Private(call[u]) \/ call[u].pc \in Freeing \union {"block", "fill", "add"} =>
            Mine(u)' = Mine(u) /\ call[u].slot # s /\ call[u].slot \in Slots
      BY <1>1, <1>10, CallLabels DEF Private
    <2>2. Private(call[u]) => Mine(u).num # 0 /\ ~Entered(Mine(u).num)
      BY <1>1 DEF TaskOK, Fits, Owns
    <2>3. Private(call[u]) => ~Entered(inode[call[u].slot].num)'
      BY <1>6, <2>1, <2>2 DEF Mine
    <2>4. Private(call[u]) => ~Entered(Mine(u).num)'
      BY <1>1, <2>1, <2>3 DEF Mine, Entered
    <2>5. call[u].pc # "free_now"
      BY <1>1 DEF TaskOK, Fits, Owns
    <2> QED
      BY <1>1, <2>1, <2>4, <2>5 DEF TaskOK, Fits, Owns, NoOtherSync
  <1> QED
    BY <1>7, <1>8, <1>9, <1>11, <1>12, <1>13 DEF TaskOK, Fits

(* rmdir takes the entry away, and the links of the inode. *)
LEMMA RmdirStep == ASSUME IInv, Peace(uses), NEW t \in Tasks, Rmdir(t) PROVE IInv'
  <1>1. /\ call[t] \in Calls /\ Shape(t, call[t]) /\ TaskOK(t) /\ call[t].pc = "is_empty"
        /\ UNCHANGED schedVars /\ Continue /\ current = t /\ inode \in [Slots -> Inode]
        /\ NoSlot \notin Slots /\ Shapes /\ CountIsUsers
    BY Known DEF Rmdir, At, Runs, IInv
  <1>2. /\ call[t].op = "rmdir" /\ call[t].place \in Places /\ call[t].place # NoPlace
        /\ call[t].slot # NoSlot /\ call[t].empty = NoSlot /\ call[t].nr # 0
    BY <1>1 DEF Shape, Lookup, Calls
  <1>3. PICK s \in Slots : s = call[t].slot
    BY <1>1, <1>2 DEF Calls
  <1>4. PICK q \in Places : q = call[t].place
    BY <1>2
  <1>5. /\ inode[s].num = call[t].nr /\ inode[s].count = 1 /\ inode[s].num # 0
        /\ dir[q].nr = inode[s].num /\ inode[s] \in Inode /\ Holds(call[t], s)
        /\ inode[s].num \in Numbers
    BY <1>1, <1>2, <1>3, <1>4 DEF TaskOK, Fits, LooksUp, Lookup, Mine, Holds, Looking, Inode
  <1> DEFINE r == [inode[s] EXCEPT !.links = 0, !.dirt = TRUE]
             c == [call[t] EXCEPT !.pc = "put_dir"]
  <1>6. /\ inode' = [inode EXCEPT ![s] = r] /\ call' = [call EXCEPT ![t] = c]
        /\ disk' = disk /\ imap' = imap /\ uses' = uses /\ current' = current
    BY <1>1, <1>3 DEF Rmdir, Set, Goto, Mine, schedVars, Continue
  <1>7. /\ c.pc = "put_dir" /\ c.op = call[t].op /\ c.place = call[t].place
        /\ c.nr = call[t].nr /\ c.slot = s /\ c.pwd = call[t].pwd
        /\ c.empty = NoSlot /\ c.asleep = call[t].asleep /\ c \in Calls
    BY <1>1, <1>2, <1>3 DEF Calls, Labels, MaySleep
  <1>8. /\ r \in Inode /\ r.num = inode[s].num /\ r.count = 1 /\ r.links = 0 /\ r.dirt
        /\ r.lock = inode[s].lock
    <2>1. 0 \in 0 .. 2
      OBVIOUS
    <2> QED
      BY <1>5, <2>1 DEF Inode
  <1> HIDE DEF c, r
  <1>9. Shape(t, c)
    BY <1>1, <1>2, <1>7 DEF Shape, Lookup, Freeing, Waiting
  <1>10. Shapes' /\ call'[t] = c /\ \A u \in Tasks : u # t => call'[u] = call[u]
    BY <1>1, <1>6, <1>9, ShapesAfter
  <1>11. /\ inode'[s] = r /\ \A x \in Slots : x # s => inode'[x] = inode[x]
         /\ inode' \in [Slots -> Inode]
    BY <1>1, <1>6, <1>8
  <1>12. /\ dir' \in [Places -> [name : Names, nr : Numbers \union {0}]]
         /\ dir'[q].nr = 0 /\ \A p \in Places : p # q => dir'[p] = dir[p]
    BY <1>4 DEF Rmdir, IInv, GoodDisk
  <1>13. \A p \in Places : dir[p].nr = inode[s].num => p = q
    BY <1>5 DEF IInv, InodesAccounted
  <1>14. ~Entered(inode[s].num)'
    <2>1. \A p \in Places : dir'[p].nr # inode[s].num
      BY <1>5, <1>12, <1>13
    <2> QED
      BY <1>8, <1>11, <2>1 DEF Entered
  <1>15. \A n \in Numbers : n # inode[s].num => (Entered(n)' <=> Entered(n))
    <2>1. 0 \notin Numbers
      BY DEF Numbers
    <2> QED
      BY <1>5, <1>12, <2>1 DEF Entered
  <1>16. ASSUME NEW u \in Tasks, u # t PROVE TaskOK(u)'
    BY <1>1, <1>2, <1>5, <1>6, <1>8, <1>14, <1>15, <1>16, OthersRmdir
  <1>17. TaskOK(t)'
    <2>1. call[t].pwd # s
      <3>1. Hold(call[t], s) <= 1 /\ Hold(call[t], s) \in Nat
        BY <1>1, <1>5, OneUser DEF CountIsUsers
      <3>2. call[t].pc \notin Looking
        BY <1>1 DEF Looking
      <3> QED
        BY <1>2, <1>1, <1>3, <3>1, <3>2 DEF Hold
    <2>2. Pwd(t)'
      <3>1. call[t].pwd # NoSlot => /\ call[t].pwd \in Slots /\ inode[call[t].pwd].num # 0
                                    /\ Entered(inode[call[t].pwd].num)
        BY <1>1, CallSlots DEF TaskOK, Pwd
      <3>2. call[t].pwd # NoSlot => /\ inode[call[t].pwd].num \in Numbers
                                    /\ inode[call[t].pwd].num # inode[s].num
        BY <1>1, <2>1, <3>1 DEF IInv, OneInodePerNumber, Inode
      <3>3. call[t].pwd # NoSlot => Entered(inode[call[t].pwd].num)'
        BY <1>10, <1>7, <1>11, <1>15, <2>1, <3>1, <3>2 DEF Entered
      <3> QED
        BY <1>7, <1>10, <1>11, <2>1, <3>1, <3>3 DEF Pwd, Entered
    <2>3. Empty(t)'
      BY <1>7, <1>10 DEF Empty
    <2>4. ~Entered(Mine(t).num)'
      BY <1>7, <1>10, <1>14 DEF Mine, Entered
    <2>5. NoOtherSync(t)'
      <3>1. \A v \in Tasks : v # t => uses[v] \subseteq {"mkdir"}
        BY <1>1, <1>2 DEF Shape, Peace
      <3> QED
        BY <1>6, <3>1 DEF NoOtherSync
    <2>6. Mine(t)' = r
      BY <1>7, <1>10, <1>11 DEF Mine
    <2>7. Private(c) /\ ~Shared(c) /\ ~Locking(c) /\ c.pc \notin Lookup /\ c.pc \notin Freeing
      BY <1>2, <1>7 DEF Private, Shared, Locking, Lookup, Freeing
    <2>8. LooksUp(call[t], Mine(t))' /\ Locks(call[t], Mine(t))' /\ Shares(call[t], Mine(t))'
      BY <1>7, <1>10, <2>7 DEF LooksUp, Locks, Shares, Lookup
    <2>9. Owns(t, call[t], Mine(t))'
      <3>1. c.pc \notin {"block", "fill", "add", "truncate", "free", "free_now"}
        BY <1>7
      <3>2. Mine(t)'.num # 0 /\ Mine(t)'.count = 1 /\ Mine(t)'.links = 0
        BY <1>5, <1>8, <2>6
      <3> QED
        BY <1>10, <2>4, <2>5, <2>7, <3>1, <3>2 DEF Owns
    <2> QED
      BY <2>2, <2>3, <2>8, <2>9 DEF TaskOK, Fits
  <1>18. ~Locking(call[t]) /\ ~Locking(c)
    BY <1>1, <1>7 DEF Locking
  <1>19. GoodInodes'
    <2> SUFFICES ASSUME NEW x \in Slots PROVE SlotOK(x)'
      BY <1>11 DEF GoodInodes
    <2>1. SlotOK(x) /\ imap' = imap /\ inode[x].num \in Numbers \union {0}
      BY <1>1, <1>6 DEF IInv, GoodInodes, Inode
    <2>2. \A u \in Tasks : Locking(call[u]) => call'[u] = call[u]
      BY <1>10, <1>18
    <2>3. \A u \in Tasks : call[u].pc = "read" => call'[u] = call[u]
      BY <1>1, <1>10
    <2>4. CASE x = s
      <3>1. /\ inode'[x].num # 0 /\ inode'[x].count # 0 /\ inode'[x].num \in imap'
            /\ ~Entered(inode[x].num)'
        BY <1>5, <1>8, <1>11, <1>14, <2>1, <2>4 DEF SlotOK
      <3>2. inode'[x].lock => \E u \in Tasks : Locking(call'[u]) /\ call'[u].slot = x
        BY <1>8, <1>11, <2>1, <2>2, <2>4 DEF SlotOK
      <3> QED
        BY <3>1, <3>2 DEF SlotOK
    <2>5. CASE x # s
      <3>1. inode'[x] = inode[x]
        BY <1>11, <2>5
      <3>2. inode[x].num # 0 /\ Entered(inode[x].num)' => Entered(inode[x].num)
        <4>1. inode[x].num # 0 => inode[x].num \in Numbers /\ inode[x].num # inode[s].num
          BY <2>1, <2>5 DEF IInv, OneInodePerNumber
        <4> QED
          BY <1>15, <3>1, <4>1 DEF Entered
      <3> QED
        BY <2>1, <2>2, <2>3, <3>1, <3>2 DEF SlotOK
    <2> QED
      BY <2>4, <2>5
  <1>20. OneLocks'
    BY <1>10, <1>18 DEF IInv, OneLocks
  <1>21. OneInodePerNumber' /\ CleanIsOnDisk'
    BY <1>6, <1>8, <1>11 DEF IInv, OneInodePerNumber, CleanIsOnDisk
  <1>22. InodesAccounted'
    <2>1. \A p \in Places : dir'[p].nr # 0 => dir'[p].nr \in imap'
      BY <1>6, <1>12 DEF IInv, InodesAccounted
    <2>2. \A p, v \in Places : dir'[p].nr = dir'[v].nr /\ dir'[p].nr # 0 => p = v
      BY <1>12 DEF IInv, InodesAccounted
    <2>3. \A n \in imap' : \/ \E p \in Places : dir'[p].nr = n
                           \/ \E x \in Slots : inode'[x].num = n /\ inode'[x].count > 0
      <3> SUFFICES ASSUME NEW n \in imap, ~\E p \in Places : dir'[p].nr = n, n # inode[s].num
                   PROVE  \E x \in Slots : inode'[x].num = n /\ inode'[x].count > 0
        BY <1>6, <1>8, <1>11
      <3>1. ~\E p \in Places : dir[p].nr = n
        BY <1>5, <1>12
      <3> QED
        BY <1>11, <3>1 DEF IInv, InodesAccounted
    <2> QED
      BY <2>1, <2>2, <2>3 DEF InodesAccounted
  <1>23. ASSUME NEW p \in Places PROVE EntryOK(p)'
    <2>1. CASE p = q
      BY <1>12, <2>1 DEF EntryOK
    <2>2. CASE p # q
      <3>1. dir'[p].nr = dir[p].nr /\ dir[p].nr # inode[s].num /\ EntryOK(p)
        BY <1>12, <1>13, <2>2 DEF IInv
      <3> QED
        BY <1>6, <1>11, <3>1 DEF EntryOK
    <2> QED
      BY <2>1, <2>2
  <1>24. CountIsUsers'
    <2> SUFFICES ASSUME NEW x \in Slots PROVE inode'[x].count = Users(x)'
      BY DEF CountIsUsers
    <2>1. inode'[x].count \in Nat /\ inode'[x].count = inode[x].count
      BY <1>5, <1>8, <1>11 DEF Inode
    <2>2. Hold(c, x) = Hold(call[t], x)
      BY <1>1, <1>2, <1>3, <1>7 DEF Hold, Looking
    <2> QED
      BY <1>6, <2>1, <2>2, CountAfter
  <1>25. GoodSched' /\ GoodDisk'
    BY <1>1, <1>6, <1>12, Known, SchedSame DEF IInv, GoodDisk
  <1> QED
    BY <1>10, <1>16, <1>17, <1>19, <1>20, <1>21, <1>22, <1>23, <1>24, <1>25 DEF IInv

(* mkdir's add_entry gives the inode an entry. *)
LEMMA AddEntryStep == ASSUME IInv, NEW t \in Tasks, AddEntry(t) PROVE IInv'
  <1>1. /\ call[t] \in Calls /\ Shape(t, call[t]) /\ TaskOK(t) /\ call[t].pc = "add"
        /\ UNCHANGED schedVars /\ Continue /\ current = t /\ inode \in [Slots -> Inode]
        /\ NoSlot \notin Slots /\ Shapes /\ CountIsUsers
        /\ inode' = inode /\ disk' = disk /\ imap' = imap
    BY Known DEF AddEntry, At, Runs, IInv
  <1>2. /\ call[t].op = "mkdir" /\ call[t].slot # NoSlot /\ call[t].empty = NoSlot
        /\ Private(call[t])
    BY <1>1 DEF Shape, Private, Calls
  <1>3. PICK s \in Slots : s = call[t].slot
    BY <1>1, <1>2 DEF Calls
  <1>4. PICK q \in Places :
          /\ dir[q].nr = 0
          /\ dir' = [dir EXCEPT ![q] = [name |-> call[t].name, nr |-> inode[s].num]]
          /\ call' = [call EXCEPT ![t].pc = "put_dir", ![t].place = q]
    BY <1>3 DEF AddEntry, First, FreePlaces, Mine
  <1>5. /\ inode[s].num \in Numbers /\ inode[s].num # 0 /\ ~Entered(inode[s].num)
        /\ inode[s].count = 1 /\ inode[s].links = 2 /\ inode[s].dir /\ SlotOK(s)
        /\ Holds(call[t], s) /\ \A u \in Tasks : u # t => ~Holds(call[u], s)
    BY <1>1, <1>2, <1>3, PrivateOwned DEF Mine, Owns, IInv, GoodInodes, Numbers
  <1> DEFINE c == [call[t] EXCEPT !.pc = "put_dir", !.place = q]
  <1>6. /\ call' = [call EXCEPT ![t] = c] /\ uses' = uses /\ current' = current
    BY <1>1, <1>4 DEF schedVars, Continue
  <1>7. /\ c.pc = "put_dir" /\ c.op = "mkdir" /\ c.place = q /\ q # NoPlace
        /\ c.nr = call[t].nr /\ c.slot = s /\ c.pwd = call[t].pwd
        /\ c.empty = NoSlot /\ c.asleep = call[t].asleep /\ c \in Calls
    <2>1. "put_dir" \in Labels /\ q \in Places \union {NoPlace} /\ q # NoPlace
      BY DEF Labels, MaySleep, NoPlace, Places
    <2> QED
      BY <1>1, <1>2, <1>3, <2>1 DEF Calls
  <1> HIDE DEF c
  <1>8. Shape(t, c)
    BY <1>1, <1>2, <1>7 DEF Shape, Lookup, Freeing, Waiting
  <1>9. Shapes' /\ call'[t] = c /\ \A u \in Tasks : u # t => call'[u] = call[u]
    BY <1>1, <1>6, <1>8, ShapesAfter
  <1>10. /\ dir' \in [Places -> [name : Names, nr : Numbers \union {0}]]
         /\ dir'[q].nr = inode[s].num /\ \A p \in Places : p # q => dir'[p] = dir[p]
    <2>1. /\ call[t].name \in Names /\ inode[s].num \in Numbers \union {0}
          /\ dir \in [Places -> [name : Names, nr : Numbers \union {0}]]
      BY <1>1, <1>5 DEF Calls, IInv, GoodDisk
    <2> QED
      BY <1>4, <2>1
  <1>11. Entered(inode[s].num)'
    BY <1>1, <1>10 DEF Entered
  <1>12. \A n \in Numbers : n # inode[s].num => (Entered(n)' <=> Entered(n))
    <2>1. 0 \notin Numbers
      BY DEF Numbers
    <2> QED
      BY <1>4, <1>10, <2>1 DEF Entered
  <1>13. \A x \in Slots : /\ x # s /\ inode[x].num # 0 =>
                               (Entered(inode[x].num)' <=> Entered(inode[x].num))
                          /\ inode[x].num # 0 /\ Entered(inode[x].num) => Entered(inode[x].num)'
    <2> SUFFICES ASSUME NEW x \in Slots, inode[x].num # 0
                 PROVE  /\ x # s => (Entered(inode[x].num)' <=> Entered(inode[x].num))
                        /\ Entered(inode[x].num) => Entered(inode[x].num)'
      OBVIOUS
    <2>1. CASE x = s
      BY <1>11, <2>1
    <2>2. CASE x # s
      <3>1. inode[x].num \in Numbers /\ inode[x].num # inode[s].num
        BY <1>1, <2>2 DEF IInv, OneInodePerNumber, Inode
      <3> QED
        BY <1>1, <1>12, <3>1 DEF Entered
    <2> QED
      BY <2>1, <2>2
  <1>14. ASSUME NEW u \in Tasks, u # t PROVE TaskOK(u)'
    <2>1. /\ call'[u] = call[u] /\ TaskOK(u) /\ Shape(u, call[u]) /\ call[u] \in Calls
          /\ Mine(u)' = Mine(u) /\ ~Holds(call[u], s)
      BY <1>1, <1>5, <1>9, <1>14, Known DEF Mine
    <2>2. Pwd(u)'
      BY <1>1, <1>13, <2>1, CallSlots DEF TaskOK, Pwd, Entered
    <2>3. Empty(u)' /\ Locks(call[u], Mine(u))'
      BY <1>1, <2>1 DEF TaskOK, Fits, Empty, Locks
    <2>4. LooksUp(call[u], Mine(u))'
      <3>1. call[u].pc \in Lookup => call[u].place # q /\ call[u].place \in Places
        BY <1>4, <2>1 DEF TaskOK, Fits, LooksUp, Shape, Calls
      <3> QED
        BY <1>10, <2>1, <3>1 DEF TaskOK, Fits, LooksUp
    <2>5. Shares(call[u], Mine(u))'
      <3>1. Shared(call[u]) => call[u].slot \in Slots
        BY <1>1, CallLabels, CallSlots
      <3> QED
        BY <1>1, <1>13, <2>1, <3>1 DEF TaskOK, Fits, Shares, Mine, Entered
    <2>6. Owns(u, call[u], Mine(u))'
      <3>1. Private(call[u]) => call[u].slot \in Slots /\ call[u].slot # s
        BY <1>1, <2>1, CallLabels, CallSlots
      <3>2. Private(call[u]) => inode[call[u].slot].num # 0 /\ ~Entered(inode[call[u].slot].num)
        BY <2>1 DEF TaskOK, Fits, Owns, Mine
      <3>4. Private(call[u]) => ~Entered(Mine(u).num)'
        <4> SUFFICES ASSUME Private(call[u]) PROVE ~Entered(Mine(u).num)'
          OBVIOUS
        <4>1. PICK x \in Slots : x = call[u].slot
          BY <3>1
        <4>2. x # s /\ inode[x].num # 0 /\ ~Entered(inode[x].num)
          BY <3>1, <3>2, <4>1
        <4>3. ~Entered(inode[x].num)'
          BY <1>13, <4>2
        <4> QED
          BY <2>1, <4>1, <4>3 DEF Mine, Entered
      <3>5. NoOtherSync(u)' <=> NoOtherSync(u)
        BY <1>6 DEF NoOtherSync
      <3>6. call[u].pc # "free_now"
        BY <1>1, <1>14, <2>1 DEF TaskOK, Fits, Owns
      <3> QED
        BY <2>1, <3>4, <3>5, <3>6 DEF TaskOK, Fits, Owns
    <2> QED
      BY <2>2, <2>3, <2>4, <2>5, <2>6 DEF TaskOK, Fits
  <1>15. TaskOK(t)'
    <2>1. Pwd(t)'
      BY <1>1, <1>7, <1>9, <1>13, CallSlots DEF TaskOK, Pwd, Entered
    <2>2. Empty(t)'
      BY <1>7, <1>9 DEF Empty
    <2>3. /\ ~Private(c) /\ ~Locking(c) /\ c.pc \notin Lookup /\ c.pc \notin Freeing
          /\ c.pc \notin {"block", "fill", "add"}
      BY <1>7 DEF Private, Locking, Lookup, Freeing
    <2>4. LooksUp(call[t], Mine(t))' /\ Locks(call[t], Mine(t))'
      BY <1>7, <1>9, <2>3 DEF LooksUp, Locks, Lookup
    <2>5. Shares(call[t], Mine(t))'
      BY <1>1, <1>5, <1>7, <1>9, <1>11 DEF Shares, Mine, Entered
    <2>6. Owns(t, call[t], Mine(t))'
      BY <1>9, <2>3 DEF Owns, Freeing
    <2> QED
      BY <2>1, <2>2, <2>4, <2>5, <2>6 DEF TaskOK, Fits
  <1>16. ~Locking(call[t]) /\ ~Locking(c)
    BY <1>1, <1>7 DEF Locking
  <1>17. GoodInodes'
    <2> SUFFICES ASSUME NEW x \in Slots PROVE SlotOK(x)'
      BY <1>1 DEF GoodInodes
    <2>1. SlotOK(x)
      BY <1>1 DEF IInv, GoodInodes
    <2>2. \A u \in Tasks : Locking(call[u]) => call'[u] = call[u]
      BY <1>9, <1>16
    <2>3. \A u \in Tasks : call[u].pc = "read" => call'[u] = call[u]
      BY <1>1, <1>9
    <2>4. inode[x].num # 0 /\ Entered(inode[x].num)' =>
            \/ inode[x].links = 2 /\ inode[x].dir
            \/ \E u \in Tasks : call'[u].pc = "read" /\ call'[u].slot = x
      BY <1>5, <1>13, <2>1, <2>3 DEF SlotOK
    <2>5. inode[x].lock => \E u \in Tasks : Locking(call'[u]) /\ call'[u].slot = x
      BY <2>1, <2>2 DEF SlotOK
    <2> QED
      BY <1>1, <2>1, <2>4, <2>5 DEF SlotOK
  <1>18. OneLocks'
    BY <1>9, <1>16 DEF IInv, OneLocks
  <1>19. OneInodePerNumber' /\ CleanIsOnDisk'
    BY <1>1 DEF IInv, OneInodePerNumber, CleanIsOnDisk
  <1>20. InodesAccounted'
    <2>1. inode[s].num \in imap
      BY <1>5 DEF SlotOK
    <2>2. \A p \in Places : dir'[p].nr # 0 => dir'[p].nr \in imap'
      BY <1>1, <1>10, <2>1 DEF IInv, InodesAccounted
    <2>3. \A p \in Places : dir[p].nr # inode[s].num
      BY <1>5 DEF Entered
    <2>4. \A p, v \in Places : dir'[p].nr = dir'[v].nr /\ dir'[p].nr # 0 => p = v
      BY <1>10, <2>3 DEF IInv, InodesAccounted
    <2>5. \A n \in imap : (\E p \in Places : dir[p].nr = n) => \E p \in Places : dir'[p].nr = n
      <3>1. 0 \notin imap
        BY DEF IInv, GoodDisk, Numbers
      <3> QED
        BY <1>4, <1>10, <3>1
    <2> QED
      BY <1>1, <2>2, <2>4, <2>5 DEF IInv, InodesAccounted
  <1>21. inode[s].dirt \/ disk[inode[s].num] = [links |-> 2, dir |-> TRUE]
    <2> SUFFICES ASSUME ~inode[s].dirt
                 PROVE  disk[inode[s].num] = [links |-> 2, dir |-> TRUE]
      OBVIOUS
    <2>1. ~inode[s].lock
      <3> SUFFICES ASSUME NEW u \in Tasks, Locking(call[u]), call[u].slot = s PROVE FALSE
        BY <1>5 DEF SlotOK
      <3>1. TaskOK(u) /\ u # t
        BY <1>16, Known
      <3>2. call[u].pc \in {"iput_disk", "sync_disk"} => inode[s].dirt
        BY <3>1 DEF TaskOK, Fits, Locks, Mine
      <3>3. call[u].pc = "read" => Holds(call[u], s)
        BY DEF Holds, Looking
      <3> QED
        BY <1>5, <3>1, <3>2, <3>3 DEF Locking
    <2>2. inode[s].dir = TRUE
      BY <1>1, <1>5 DEF Inode
    <2>3. CleanIsOnDisk
      BY DEF IInv
    <2>4. inode[s].num # 0 /\ ~inode[s].dirt /\ ~inode[s].lock /\ inode[s].links # 0
      BY <1>5, <2>1
    <2>5. disk[inode[s].num] = [links |-> inode[s].links, dir |-> inode[s].dir]
      BY <2>3, <2>4 DEF CleanIsOnDisk
    <2>6. inode[s].links = 2 /\ inode[s].dir = TRUE
      BY <1>5, <2>2
    <2> QED
      BY <2>5, <2>6
  <1>22. ASSUME NEW p \in Places PROVE EntryOK(p)'
    <2>1. CASE p = q
      BY <1>1, <1>5, <1>10, <1>21, <2>1 DEF EntryOK
    <2>2. CASE p # q
      BY <1>1, <1>10, <2>2 DEF IInv, EntryOK
    <2> QED
      BY <2>1, <2>2
  <1>23. CountIsUsers'
    <2> SUFFICES ASSUME NEW x \in Slots PROVE inode'[x].count = Users(x)'
      BY DEF CountIsUsers
    <2>1. inode'[x].count \in Nat /\ inode'[x].count = inode[x].count
      BY <1>1 DEF Inode
    <2>2. Hold(c, x) = Hold(call[t], x)
      BY <1>1, <1>2, <1>3, <1>7 DEF Hold, Looking
    <2> QED
      BY <1>6, <2>1, <2>2, CountAfter
  <1>24. GoodSched' /\ GoodDisk'
    BY <1>1, <1>10, Known, SchedSame DEF IInv, GoodDisk
  <1> QED
    BY <1>9, <1>14, <1>15, <1>17, <1>18, <1>19, <1>20, <1>22, <1>23, <1>24 DEF IInv
-----------------------------------------------------------------------------
(* schedule() takes another task. *)
LEMMA SwitchToStep == ASSUME IInv, NEW t \in Tasks, SwitchTo(t) PROVE IInv'
  <1>1. /\ inode' = inode /\ disk' = disk /\ imap' = imap /\ dir' = dir /\ call' = call
        /\ uses' = uses
    BY DEF SwitchTo, inodeVars, Continue
  <1>2. GoodSched'
    BY DEF SwitchTo, IInv, GoodSched, SchedTypeOK, Continue
  <1>3. GoodDisk' /\ GoodInodes' /\ Shapes'
    BY <1>1 DEF IInv, GoodDisk, GoodInodes, SlotOK, Entered, Shapes, Shape
  <1>4. \A u \in Tasks : TaskOK(u)'
    <2> SUFFICES ASSUME NEW u \in Tasks PROVE TaskOK(u)'
      OBVIOUS
    <2>1. TaskOK(u) /\ (Mine(u)' = Mine(u)) /\ (NoOtherSync(u)' <=> NoOtherSync(u))
      BY <1>1 DEF IInv, Mine, NoOtherSync
    <2>2. Pwd(u)' /\ Empty(u)' /\ Shares(call[u], Mine(u))'
      BY <1>1, <2>1 DEF TaskOK, Fits, Pwd, Empty, Shares, Entered
    <2>3. LooksUp(call[u], Mine(u))' /\ Locks(call[u], Mine(u))'
      BY <1>1, <2>1 DEF TaskOK, Fits, LooksUp, Locks
    <2>4. call[u].pc # "free_now"
      <3>1. call[u].pc = "free_now" => current = u
        BY <2>1 DEF TaskOK, Fits, Owns
      <3>2. current = u => call[u].pc \in MaySleep
        BY DEF SwitchTo
      <3> QED
        BY <3>1, <3>2 DEF MaySleep
    <2>5. Owns(u, call[u], Mine(u))'
      BY <1>1, <2>1, <2>4 DEF TaskOK, Fits, Owns, Entered
    <2> QED
      BY <2>2, <2>3, <2>5 DEF TaskOK, Fits
  <1>5. OneLocks' /\ OneInodePerNumber' /\ CleanIsOnDisk' /\ InodesAccounted'
    BY <1>1 DEF IInv, OneLocks, OneInodePerNumber, CleanIsOnDisk, InodesAccounted
  <1>6. (\A p \in Places : EntryOK(p)') /\ CountIsUsers'
    BY <1>1 DEF IInv, EntryOK, CountIsUsers, Users
  <1> QED
    BY <1>2, <1>3, <1>4, <1>5, <1>6 DEF IInv

-----------------------------------------------------------------------------
(* Every step preserves the invariant. *)
LEMMA StepKeeps ==
  ASSUME IInv, Peace(uses), FewTasks, NEW t \in Tasks, Step(t) \/ SwitchTo(t)
  PROVE  IInv'
  <1>1. CASE Wait(t) \/ WaitAgain(t) \/ Woken(t) \/ NoFreeInodes(t) \/ SwitchTo(t)
    BY <1>1, WaitStep, WaitAgainStep, WokenStep, HaltStep, SwitchToStep, Zenon DEF NoFreeInodes
  <1>2. CASE Call(t) \/ ChdirRoot(t) \/ FindEntry(t)
    BY <1>2, CallBegins, ChdirRootStep, FindEntryStep, Zenon
  <1>3. CASE \/ Iget(t) \/ SearchFound(t) \/ SearchWaited(t) \/ SearchFailed(t)
             \/ ReadInode(t) \/ Got(t)
    BY <1>3, IgetStep, SearchFoundStep, SearchWaitedStep, SearchFailedStep, ReadInodeStep,
       GotStep, Zenon
  <1>4. CASE Rmdir(t) \/ NotEmpty(t)
    BY <1>4, RmdirStep, NotEmptyStep, Zenon
  <1>5. CASE \/ NewInode(t) \/ NewBlock(t) \/ FillBlock(t) \/ AddEntry(t)
             \/ MkdirFails(t) \/ PutDir(t)
    BY <1>5, NewInodeStep, NewBlockStep, FillBlockStep, AddEntryStep, MkdirFailsStep,
       PutDirStep, Zenon
  <1>6. CASE Iput(t) \/ Truncate(t) \/ FreeInode(t)
    BY <1>6, IputStep, TruncateStep, FreeInodeStep, Zenon
  <1>7. CASE Sync(t) \/ SyncNext(t) \/ SyncInode(t) \/ WriteInode(t)
    BY <1>7, SyncStep, SyncNextStep, SyncInodeStep, WriteInodeStep, Zenon
  <1> QED
    BY <1>1, <1>2, <1>3, <1>4, <1>5, <1>6, <1>7, Zenon DEF Step

(* Where the machine starts, the invariant holds. *)
LEMMA InitGood == ASSUME Init PROVE IInv
  <1>1. AnyName \in Names
    BY InodeCacheAssumption DEF AnyName
  <1>2. \A s \in Slots : inode[s] = Zero
    BY DEF Init
  <1>3. /\ Zero.num = 0 /\ Zero.count = 0 /\ ~Zero.lock /\ ~Zero.dirt /\ Zero.links = 0 /\ ~Zero.dir
    BY DEF Zero
  <1>4. /\ 1 \in Numbers /\ 1 \in Places /\ 0 \notin Numbers /\ NoSlot \notin Slots
    BY InodeCacheAssumption DEF Numbers, Places
  <1>5. \A t \in Tasks : call[t] = Caller(NoSlot)
    BY DEF Init
  <1>6. LET c == Caller(NoSlot) IN
        /\ c.pc = "user" /\ c.op = "none" /\ c.place = NoPlace /\ c.slot = NoSlot
        /\ c.empty = NoSlot /\ ~c.asleep /\ c.pwd = NoSlot /\ c \in Calls
    <2>1. Caller(NoSlot) \in Calls
      BY <1>1 DEF Caller, Calls, Labels, MaySleep, NoPlace
    <2> QED
      BY <2>1 DEF Caller
  <1>7. \A t \in Tasks : /\ call[t].pc = "user" /\ call[t].op = "none" /\ call[t].place = NoPlace
                         /\ call[t].slot = NoSlot /\ call[t].empty = NoSlot /\ ~call[t].asleep
                         /\ call[t].pwd = NoSlot /\ call[t] \in Calls
    BY <1>5, <1>6
  <1>8. \A p \in Places : dir[p].nr = (IF p = 1 THEN 1 ELSE 0)
    BY DEF Init
  <1>9. disk[1] = [links |-> 2, dir |-> TRUE] /\ imap = {1}
    BY <1>4 DEF Init
  <1>10. GoodSched
    BY DEF Init, SchedInit, GoodSched, SchedTypeOK
  <1>11. GoodDisk
    <2>1. [links |-> 2, dir |-> TRUE] \in DInode /\ [links |-> 0, dir |-> FALSE] \in DInode
      <3>1. 2 \in 0 .. 2 /\ 0 \in 0 .. 2
        OBVIOUS
      <3> QED
        BY <3>1 DEF DInode
    <2>2. disk \in [Numbers -> DInode]
      BY <2>1 DEF Init
    <2>3. \A p \in Places : [name |-> AnyName, nr |-> IF p = 1 THEN 1 ELSE 0]
                              \in [name : Names, nr : Numbers \union {0}]
      BY <1>1, <1>4
    <2>4. dir \in [Places -> [name : Names, nr : Numbers \union {0}]]
      BY <2>3 DEF Init
    <2> QED
      BY <1>4, <1>9, <2>2, <2>4 DEF GoodDisk
  <1>12. GoodInodes
    <2>1. inode \in [Slots -> Inode]
      BY ZeroInode DEF Init
    <2> QED
      BY <1>2, <1>3, <2>1 DEF GoodInodes, SlotOK
  <1>13. Shapes
    <2> SUFFICES ASSUME NEW t \in Tasks PROVE Shape(t, call[t])
      BY <1>5, <1>6 DEF Shapes, Init
    <2> QED
      BY <1>7 DEF Shape, Lookup, Freeing
  <1>14. ASSUME NEW t \in Tasks PROVE TaskOK(t)
    <2>1. Pwd(t) /\ Empty(t)
      BY <1>7 DEF Pwd, Empty
    <2>2. Fits(t, call[t], Mine(t))
      BY <1>7
         DEF Fits, LooksUp, Locks, Shares, Owns, Lookup, Locking, Freeing, Private, Shared
    <2> QED
      BY <2>1, <2>2 DEF TaskOK
  <1>15. OneLocks
    BY <1>7 DEF OneLocks, Locking
  <1>16. OneInodePerNumber /\ CleanIsOnDisk
    BY <1>2, <1>3 DEF OneInodePerNumber, CleanIsOnDisk
  <1>17. InodesAccounted
    BY <1>4, <1>8, <1>9 DEF InodesAccounted
  <1>18. \A p \in Places : EntryOK(p)
    BY <1>8, <1>9 DEF EntryOK
  <1>19. CountIsUsers
    <2> SUFFICES ASSUME NEW s \in Slots PROVE inode[s].count = Users(s)
      BY DEF CountIsUsers
    <2> DEFINE A1 == {t \in Tasks : call[t].pwd = s}
               A2 == {t \in Tasks : call[t].empty = s}
               A3 == {t \in Tasks : call[t].slot = s /\ call[t].pc \notin Looking}
    <2>1. A1 = {} /\ A2 = {} /\ A3 = {}
      BY <1>4, <1>7
    <2>2. Users(s) = Cardinality(A1) + Cardinality(A2) + Cardinality(A3)
      BY DEF Users
    <2> HIDE DEF A1, A2, A3
    <2>3. Users(s) = 0
      BY <2>1, <2>2, FS_EmptySet
    <2> QED
      BY <1>2, <1>3, <2>3
  <1> QED
    BY <1>10, <1>11, <1>12, <1>13, <1>14, <1>15, <1>16, <1>17, <1>18, <1>19 DEF IInv

(* What is called in peace, of every choice of calls. *)
AtPeace == \A u \in Uses : Peace(u)

(* The invariant. *)
LEMMA AlwaysGood == AtPeace /\ FewTasks /\ Spec => []IInv
  <1>1. Init => IInv
    BY InitGood
  <1>2. AtPeace /\ FewTasks /\ IInv /\ [Next]_vars => IInv'
    <2> SUFFICES ASSUME AtPeace, FewTasks, IInv, [Next]_vars PROVE IInv'
      OBVIOUS
    <2>1. Peace(uses)
      BY DEF AtPeace, IInv, GoodSched
    <2>2. CASE UNCHANGED vars
      BY <2>2, SameStep DEF vars, IInv, GoodSched
    <2>3. CASE Next
      BY <2>1, <2>3, StepKeeps, Zenon DEF Next
    <2> QED
      BY <2>2, <2>3
  <1>3. (AtPeace /\ FewTasks) => [](AtPeace /\ FewTasks)
    OBVIOUS
  <1> QED
    BY <1>1, <1>2, <1>3, PTL DEF Spec

-----------------------------------------------------------------------------
(* The variables have their types: i_count, an unsigned short, does not     *)
(* overflow.                                                                *)
THEOREM SpecTypeOK == AtPeace /\ FewTasks /\ Spec => []TypeOK
  <1>1. ASSUME IInv, FewTasks PROVE TypeOK
    <2> DEFINE Counted == [num : Numbers \union {0}, count : 0 .. 2 ^ 16 - 1, lock : BOOLEAN,
                           dirt : BOOLEAN, links : 0 .. 2, dir : BOOLEAN]
    <2>1. ASSUME NEW s \in Slots PROVE inode[s] \in Counted
      <3>1. inode[s] \in Inode /\ inode[s].count \in Nat /\ inode[s].count < 2 ^ 16
        BY <1>1, <2>1, FewUsers DEF IInv, GoodInodes
      <3>2. \A k, m \in Nat : k < m => k \in 0 .. m - 1
        OBVIOUS
      <3>3. inode[s].count \in 0 .. 2 ^ 16 - 1
        BY <3>1, <3>2, WordSize, Zenon
      <3> QED
        BY <3>1, <3>3, Zenon DEF Inode
    <2>2. inode \in [Slots -> Inode]
      BY <1>1 DEF IInv, GoodInodes
    <2> HIDE DEF Counted
    <2>3. inode \in [Slots -> Counted]
      BY <2>1, <2>2
    <2>4. /\ SchedTypeOK /\ disk \in [Numbers -> DInode] /\ imap \subseteq Numbers
          /\ dir \in [Places -> [name : Names, nr : Numbers \union {0}]]
          /\ call \in [Tasks -> Calls] /\ uses \in Uses /\ halted \in BOOLEAN
      BY <1>1 DEF IInv, GoodSched, GoodDisk, Shapes
    <2> QED
      BY <2>3, <2>4, Zenon DEF TypeOK, Counted
  <1>2. FewTasks => (IInv => TypeOK)
    BY <1>1
  <1>3. FewTasks => []FewTasks
    OBVIOUS
  <1> QED
    BY <1>2, <1>3, AlwaysGood, PTL

(* i_count is how many inodes the tasks hold. *)
THEOREM SpecCountIsUsers == AtPeace /\ FewTasks /\ Spec => []CountIsUsers
  <1>1. IInv => CountIsUsers
    BY DEF IInv
  <1> QED
    BY <1>1, AlwaysGood, PTL

(* iget never lets a number have two inodes in memory. *)
THEOREM SpecOneInodePerNumber == AtPeace /\ FewTasks /\ Spec => []OneInodePerNumber
  <1>1. IInv => OneInodePerNumber
    BY DEF IInv
  <1> QED
    BY <1>1, AlwaysGood, PTL

(* What get_empty_inode takes is neither dirty nor locked: it need not wait. *)
THEOREM SpecUnusedIsClean == AtPeace /\ FewTasks /\ Spec => []UnusedIsClean
  <1>1. IInv => UnusedIsClean
    BY UnusedSlot DEF UnusedIsClean
  <1> QED
    BY <1>1, AlwaysGood, PTL

(* A locked inode has the one task that reads or writes it, any other none. *)
THEOREM SpecLockOwned == AtPeace /\ FewTasks /\ Spec => []LockOwned
  <1>1. ASSUME IInv, NEW s \in Slots
        PROVE  Cardinality({t \in Tasks : call[t].slot = s
                              /\ call[t].pc \in {"read", "iput_disk", "sync_disk"}})
                 = IF inode[s].lock THEN 1 ELSE 0
    <2> DEFINE L == {t \in Tasks : call[t].slot = s
                                   /\ call[t].pc \in {"read", "iput_disk", "sync_disk"}}
    <2>1. \A t \in Tasks : t \in L <=> Locking(call[t]) /\ call[t].slot = s
      BY DEF Locking
    <2>2. L \subseteq Tasks
      OBVIOUS
    <2> HIDE DEF L
    <2>3. CASE inode[s].lock
      <3>1. PICK t \in Tasks : Locking(call[t]) /\ call[t].slot = s
        BY <1>1, <2>3 DEF IInv, GoodInodes, SlotOK
      <3>2. L = {t}
        BY <1>1, <2>1, <2>2, <3>1 DEF IInv, OneLocks
      <3>3. Cardinality(L) = 1
        BY <3>2, FS_Singleton
      <3> QED
        BY <2>3, <3>3 DEF L
    <2>4. CASE ~inode[s].lock
      <3>1. \A t \in Tasks : Locking(call[t]) => inode[call[t].slot].lock
        BY <1>1 DEF IInv, TaskOK, Fits, Locks, Mine
      <3>2. L = {}
        BY <2>1, <2>2, <2>4, <3>1
      <3>3. Cardinality(L) = 0
        BY <3>2, FS_EmptySet
      <3> QED
        BY <2>4, <3>3 DEF L
    <2> QED
      BY <2>3, <2>4
  <1>2. IInv => LockOwned
    BY <1>1 DEF LockOwned
  <1> QED
    BY <1>2, AlwaysGood, PTL

(* An inode that is not dirty is what the disk has. *)
THEOREM SpecCleanIsOnDisk == AtPeace /\ FewTasks /\ Spec => []CleanIsOnDisk
  <1>1. IInv => CleanIsOnDisk
    BY DEF IInv
  <1> QED
    BY <1>1, AlwaysGood, PTL

(* No entry names an inode that is free, no two name the same, and no inode *)
(* that is in use is lost.                                                  *)
THEOREM SpecInodesAccounted == AtPeace /\ FewTasks /\ Spec => []InodesAccounted
  <1>1. IInv => InodesAccounted
    BY DEF IInv
  <1> QED
    BY <1>1, AlwaysGood, PTL

(* What is freed is nobody else's and has no links: what a rmdir beside a   *)
(* lookup breaks holds in peace.                                            *)
THEOREM SpecFreedIsUnused == AtPeace /\ FewTasks /\ Spec => []FreedIsUnused
  <1>1. ASSUME IInv, NEW t \in Tasks, call[t].pc \in {"free", "free_now"}
        PROVE  Mine(t).count <= 1 /\ Mine(t).links = 0
    <2>1. Private(call[t]) /\ Unlinked(call[t])
      BY <1>1 DEF Private, Unlinked, Freeing
    <2> QED
      BY <1>1, <2>1, PrivateOwned DEF Owns
  <1>2. IInv => FreedIsUnused
    BY <1>1 DEF FreedIsUnused
  <1> QED
    BY <1>2, AlwaysGood, PTL

(* The kernel stops only for want of an inode (get_empty_inode's panic,     *)
(* inode.c:217): iput never meets an inode that nobody counts (:157),       *)
(* read_inode (:304) and write_inode (:335) never one without a number,     *)
(* free_inode (bitmap.c:119) never one that somebody else has.              *)
StopsWhenFull == [][halted' => halted \/ Unused = {}]_vars

(* The other panics on the way of an inode are out of reach. *)
THEOREM SpecStopsWhenFull == AtPeace /\ FewTasks /\ Spec => StopsWhenFull
  <1>1. ASSUME IInv, [Next]_vars PROVE [halted' => halted \/ Unused = {}]_vars
    <2> SUFFICES ASSUME NEW t \in Tasks, Step(t) \/ SwitchTo(t), halted', ~halted
                 PROVE  Unused = {}
      BY <1>1, Zenon DEF Next, vars
    <2>1. \/ ~Continue
      BY DEF Continue
    <2>2. \/ NoFreeInodes(t) \/ (ReadInode(t) /\ Mine(t).num = 0)
          \/ (WriteInode(t) /\ Mine(t).num = 0) \/ (Iput(t) /\ Mine(t).count = 0)
          \/ (FreeInode(t) /\ Mine(t).count > 1)
      BY <2>1, Zenon
         DEF Step, SwitchTo, Wait, WaitAgain, Woken, Call, ChdirRoot, FindEntry, Iget, SearchFound,
             SearchWaited, SearchFailed, ReadInode, Got, Rmdir, NotEmpty, NewInode, NewBlock,
             FillBlock, AddEntry, MkdirFails, PutDir, Iput, Truncate, FreeInode, Sync, SyncNext,
             SyncInode, WriteInode
    <2>3. TaskOK(t)
      BY <1>1, Known
    <2>4. ASSUME ReadInode(t) \/ WriteInode(t) PROVE Mine(t).num # 0
      BY <2>3, <2>4 DEF ReadInode, WriteInode, At, TaskOK, Fits, Locks, Locking
    <2>5. ASSUME Iput(t) PROVE Mine(t).count # 0
      BY <1>1, <2>5, InIput DEF Iput, Waited, At
    <2>6. ASSUME FreeInode(t) PROVE ~(Mine(t).count > 1)
      <3>1. Private(call[t])
        BY <2>6 DEF FreeInode, At, Private, Freeing
      <3> QED
        BY <1>1, <3>1, PrivateOwned
    <2>7. NoFreeInodes(t)
      BY <2>2, <2>4, <2>5, <2>6, Zenon
    <2> QED
      BY <2>7 DEF NoFreeInodes
  <1>2. IInv /\ [Next]_vars => [halted' => halted \/ Unused = {}]_vars
    BY <1>1
  <1> QED
    BY <1>2, AlwaysGood, PTL DEF Spec, StopsWhenFull
=============================================================================
