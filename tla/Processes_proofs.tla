-------------------------- MODULE Processes_proofs --------------------------
(***************************************************************************)
(* The pages are counted, copy-on-write is not seen, and the family is     *)
(* whole: for any number of tasks and pages, as long as memory does not    *)
(* run out while the tasks share what swap_out may drop.                   *)
(***************************************************************************)
EXTENDS ProcessesProps, FiniteSetTheorems, WellFoundedInduction, TLAPS

(* Enough memory for all that the tasks can have. *)
Enough(m) == m.pages >= (m.tasks - 1) * (2 + Cardinality(Addrs))

(* Memory is enough, or what swap_out may drop is nobody else's and empty:  *)
(* nothing is accessed, or no task shares what it has only read, and no     *)
(* timer comes before the second try of a write.                            *)
Sound(m) == \/ Enough(m)
            \/ "read" \notin m.calls /\ "write" \notin m.calls
            \/ ~m.ticks /\ ("read" \notin m.calls \/ "fork" \notin m.calls)
AtEase == \A m \in Machines : Sound(m)
FewTasks == NrTasks <= USED

(* the pages *)
Types ==
  /\ mem_map \in [Pages -> Nat]
  /\ content \in [Pages \union {Low} -> Values]
  /\ task \in [0 .. NrTasks - 1 -> Ptr]
  /\ tcb \in [Pages \union {Low} -> Structs]
  /\ dir \in [TaskNrs -> Pages \union {Null}]
  /\ pt \in [TaskNrs -> [Addrs -> Entries]]
  /\ retry \in (TaskNrs \X Addrs) \union {NoRetry}
  /\ machine \in Machines /\ Sound(machine)
  /\ halted \in BOOLEAN
Counted == \A p \in Pages :
  IF p <= machine.pages THEN mem_map[p] = References(p)
  ELSE mem_map[p] = USED /\ References(p) = 0
Owned ==
  /\ task[0] = Low /\ task[1] # Null
  /\ \A n \in TaskNrs : task[n] # Null =>
       task[n] \in Pages /\ mem_map[task[n]] = 1 /\ n < machine.tasks
  /\ \A n \in TaskNrs : dir[n] # Null => mem_map[dir[n]] = 1
Once == \A n \in TaskNrs : \A a, b \in Addrs :
  pt[n][a].page = pt[n][b].page /\ pt[n][a].page \in Pages => a = b
Lives == \A n \in TaskNrs :
  /\ dir[n] # Null <=> task[n] # Null /\ Struct(n).at \in {"user", "waiting"}
  /\ dir[n] = Null => \A a \in Addrs : pt[n][a] = Absent
  /\ n = 1 => Struct(n).at \in {"user", "waiting"}
Writable == \A n \in TaskNrs, a \in Addrs :
  pt[n][a].rw => pt[n][a].page \in Pages /\ mem_map[pt[n][a].page] = 1
Forgotten == \A p \in Pages :
  content[p] # Zeroes => \E n \in TaskNrs, a \in Addrs : pt[n][a].page = p
Tries == \A n \in TaskNrs, a \in Addrs :
  retry = <<n, a>> => /\ ~machine.ticks /\ "write" \in machine.calls
                      /\ Struct(n).at = "user" /\ pt[n][a].rw
Harmless(n, a) ==
  /\ "fork" \notin machine.calls
  /\ mem_map[pt[n][a].page] = 1 /\ content[pt[n][a].page] = Zeroes
Droppable == \A n \in TaskNrs, a \in Addrs :
  <<n, a>> \in Clean(pt) /\ <<n, a>> # retry => Enough(machine) \/ Harmless(n, a)
MInv == /\ Types /\ Counted /\ Owned /\ Once /\ Lives
        /\ Writable /\ Forgotten /\ Tries /\ Droppable

(* the family *)
There(p) == p # Null /\ \E n \in 0 .. NrTasks - 1 : task[n] = p
Linked(c) ==
  /\ There(tcb[c].p_pptr) /\ (tcb[c].p_pptr = Low <=> c = task[1])
  /\ tcb[c].p_osptr # Null => /\ There(tcb[c].p_osptr) /\ tcb[c].p_osptr # Low
                              /\ tcb[tcb[c].p_osptr].p_pptr = tcb[c].p_pptr
                              /\ tcb[tcb[c].p_osptr].p_ysptr = c
  /\ tcb[c].p_ysptr # Null => /\ There(tcb[c].p_ysptr) /\ tcb[c].p_ysptr # Low
                              /\ tcb[tcb[c].p_ysptr].p_pptr = tcb[c].p_pptr
                              /\ tcb[tcb[c].p_ysptr].p_osptr = c
  /\ tcb[c].p_ysptr = Null => tcb[tcb[c].p_pptr].p_cptr = c
Headed(p) ==
  /\ tcb[p].p_cptr # Null => /\ There(tcb[p].p_cptr) /\ tcb[p].p_cptr # Low
                             /\ tcb[tcb[p].p_cptr].p_pptr = p
                             /\ tcb[tcb[p].p_cptr].p_ysptr = Null
  /\ tcb[p].at = "zombie" => tcb[p].p_cptr = Null
Links ==
  /\ tcb[Low].p_pptr = Null /\ tcb[Low].p_ysptr = Null /\ tcb[Low].p_osptr = Null
  /\ \A c \in Pages : There(c) => Linked(c)
  /\ \A p \in Pages \union {Low} : There(p) => Headed(p)

(* The children of a task, from the youngest on, have falling ranks. *)
Siblings(c, d) == There(c) /\ There(d) /\ tcb[c].p_pptr = tcb[d].p_pptr
Order(r) == \A c, d \in Pages : Siblings(c, d) =>
  /\ r[c] = r[d] => c = d
  /\ r[d] < r[c] => tcb[c].p_osptr # Null /\ r[d] <= r[tcb[c].p_osptr]
  /\ tcb[c].p_osptr = d => r[d] < r[c]
  /\ tcb[tcb[c].p_pptr].p_cptr # Null /\ r[c] <= r[tcb[tcb[c].p_pptr].p_cptr]
Ranked == \E top \in Nat : \E r \in [Pages -> 0 .. top] : Order(r)
(* Every task descends from init. *)
Descent(d) == /\ d[task[1]] = 0
              /\ \A c \in Pages : There(c) /\ c # task[1] => d[tcb[c].p_pptr] < d[c]
Descends == \E d \in [Pages -> Nat] : Descent(d)
Noticed == \A c \in Pages :
  There(c) /\ tcb[c].at = "zombie" /\ tcb[tcb[c].p_pptr].at = "waiting" => tcb[tcb[c].p_pptr].sigchld
FInv == Links /\ Ranked /\ Descends /\ Noticed

IInv == MInv /\ FInv
-----------------------------------------------------------------------------
(* What the constants are. *)
LEMMA Constants ==
  /\ NrTasks \in Nat /\ NrTasks > 1 /\ NrPages \in Nat /\ NrPages > 1
  /\ IsFiniteSet(TaskNrs) /\ IsFiniteSet(TaskNrs \X Addrs)
  /\ Cardinality(TaskNrs) = NrTasks - 1
  /\ 1 \in TaskNrs /\ 0 \notin TaskNrs /\ TaskNrs \subseteq 0 .. NrTasks - 1
  /\ Low \notin Pages /\ Null \notin Pages /\ Low # Null
  /\ Pages \subseteq Nat /\ Low \in Nat
  <1>1. NrTasks \in Nat /\ NrTasks > 1 /\ NrPages \in Nat /\ NrPages > 1
    BY ProcessesAssumption
  <1>2. IsFiniteSet(TaskNrs) /\ Cardinality(TaskNrs) = NrTasks - 1
    <2>1. 1 \in Int /\ NrTasks - 1 \in Int /\ ~(1 > NrTasks - 1)
      BY <1>1
    <2>2. /\ IsFiniteSet(1 .. NrTasks - 1)
          /\ Cardinality(1 .. NrTasks - 1) = IF 1 > NrTasks - 1 THEN 0 ELSE (NrTasks - 1) - 1 + 1
      BY <2>1, FS_Interval
    <2> QED
      BY <1>1, <2>1, <2>2 DEF TaskNrs
  <1>3. IsFiniteSet(TaskNrs \X Addrs)
    BY <1>2, ProcessesAssumption, FS_Product
  <1> QED
    BY <1>1, <1>2, <1>3 DEF TaskNrs, Pages, Low, Null

(* A set with one member more or less. *)
LEMMA OneMember ==
  ASSUME NEW S, IsFiniteSet(S), NEW A \in SUBSET S, NEW B \in SUBSET S, NEW t \in S,
         \A u \in S : u # t => (u \in A <=> u \in B)
  PROVE  /\ Cardinality(A) \in Nat /\ Cardinality(B) \in Nat
         /\ Cardinality(B) + (IF t \in A THEN 1 ELSE 0)
              = Cardinality(A) + (IF t \in B THEN 1 ELSE 0)
  <1>1. IsFiniteSet(A) /\ IsFiniteSet(B)
    BY FS_Subset
  <1>2. Cardinality(A) \in Nat /\ Cardinality(B) \in Nat
    BY <1>1, FS_CardinalityType
  <1>3. CASE t \in A /\ t \notin B
    <2>1. B = A \ {t}
      BY <1>3
    <2>2. Cardinality(B) = Cardinality(A) - 1
      BY <1>1, <1>3, <2>1, FS_RemoveElement
    <2> QED
      BY <1>2, <1>3, <2>2
  <1>4. CASE t \in B /\ t \notin A
    <2>1. A = B \ {t}
      BY <1>4
    <2>2. Cardinality(A) = Cardinality(B) - 1
      BY <1>1, <1>4, <2>1, FS_RemoveElement
    <2> QED
      BY <1>2, <1>4, <2>2
  <1>5. CASE t \in A <=> t \in B
    <2>1. A = B
      BY <1>5
    <2> QED
      BY <1>2, <2>1
  <1> QED
    BY <1>3, <1>4, <1>5

(* A set of numbers that is not empty has a least one. *)
LEMMA Least ==
  ASSUME NEW T, T \subseteq Nat, T # {}
  PROVE  \E x \in T : \A y \in T : x <= y
  <1> DEFINE F == {0 .. x : x \in T}
  <1>1. F \subseteq FiniteSubsetsOf(Nat) /\ F # {}
    <2>1. ASSUME NEW x \in T PROVE 0 .. x \in SUBSET Nat /\ IsFiniteSet(0 .. x)
      <3>1. x \in Int /\ 0 \in Int
        OBVIOUS
      <3>2. IsFiniteSet(0 .. x)
        BY <3>1, FS_Interval
      <3> QED
        BY <3>2
    <2> QED
      BY <2>1 DEF FiniteSubsetsOf
  <1>2. PICK U \in F : \A V \in F : <<V, U>> \notin StrictSubsetOrdering(Nat)
    <2>1. IsWellFoundedOn(StrictSubsetOrdering(Nat), FiniteSubsetsOf(Nat))
      BY FS_StrictSubsetOrderingWellFounded
    <2> HIDE DEF F
    <2> QED
      BY <1>1, <2>1, WFMin, Zenon
  <1>3. PICK x \in T : U = 0 .. x
    OBVIOUS
  <1>4. ASSUME NEW y \in T, y < x PROVE FALSE
    <2>1. <<0 .. y, 0 .. x>> \notin StrictSubsetOrdering(Nat)
      BY <1>2, <1>3
    <2>2. 0 .. y \subseteq 0 .. x /\ x \in 0 .. x /\ x \notin 0 .. y /\ 0 .. x \subseteq Nat
      BY <1>4
    <2> QED
      BY <2>1, <2>2, Zenon DEF StrictSubsetOrdering
  <1> QED
    BY <1>4

(* And a greatest, when they have a bound. *)
LEMMA Greatest ==
  ASSUME NEW N \in Nat, NEW T, T \subseteq 0 .. N, T # {}
  PROVE  \E x \in T : \A y \in T : y <= x
  <1> DEFINE F == {N - x : x \in T}
  <1>1. F \subseteq Nat /\ F # {}
    <2>1. \A x \in T : x \in 0 .. N
      OBVIOUS
    <2>2. \A x \in 0 .. N : N - x \in Nat
      OBVIOUS
    <2> QED
      BY <2>1, <2>2, Zenon
  <1>2. PICK z \in F : \A y \in F : z <= y
    <2> HIDE DEF F
    <2> QED
      BY <1>1, Least
  <1>3. PICK x \in T : z = N - x
    OBVIOUS
  <1>4. ASSUME NEW y \in T PROVE y <= x
    <2>1. N - x <= N - y
      BY <1>2, <1>3, Zenon
    <2>2. x \in 0 .. N /\ y \in 0 .. N
      BY Zenon
    <2> HIDE DEF F
    <2> QED
      BY <2>1, <2>2
  <1> QED
    BY <1>4

(* A set that has 0 and with a number the next has all, up to a bound. *)
LEMMA UpTo ==
  ASSUME NEW N \in Nat, NEW P, 0 \in P, \A k \in 0 .. N : k \in P /\ k < N => k + 1 \in P
  PROVE  \A k \in 0 .. N : k \in P
  <1> DEFINE T == {k \in 0 .. N : k \notin P}
  <1> SUFFICES ASSUME T # {} PROVE FALSE
    OBVIOUS
  <1>1. T \subseteq Nat
    OBVIOUS
  <1>2. PICK x \in T : \A y \in T : x <= y
    <2> HIDE DEF T
    <2> QED
      BY <1>1, Least
  <1>3. x # 0
    OBVIOUS
  <1>4. x - 1 \in 0 .. N /\ x - 1 \notin T
    BY <1>2, <1>3
  <1> QED
    BY <1>4

(* Numbers up to a bound are finitely many. *)
LEMMA FinitePages == IsFiniteSet(Pages) /\ \A N \in Nat : Cardinality(1 .. N) = N
  <1>1. \A N \in Nat : IsFiniteSet(1 .. N) /\ Cardinality(1 .. N) = IF 1 > N THEN 0 ELSE N - 1 + 1
    BY FS_Interval
  <1> QED
    BY <1>1, Constants DEF Pages

-----------------------------------------------------------------------------
(* the uses of a page *)
TasksAt(p) == {n \in TaskNrs : task[n] = p}
DirsAt(p) == {n \in TaskNrs : dir[n] = p}
EntriesAt(p) == {e \in TaskNrs \X Addrs : pt[e[1]][e[2]].page = p}
Nobody(p) == \A n \in TaskNrs :
  task[n] # p /\ dir[n] # p /\ \A a \in Addrs : pt[n][a].page # p
Sole(p) == \A n, m \in TaskNrs :
  /\ task[n] = p /\ task[m] = p => n = m
  /\ dir[n] = p /\ dir[m] = p => n = m
  /\ ~(task[n] = p /\ dir[m] = p)
  /\ \A b \in Addrs : pt[m][b].page = p =>
       /\ task[n] # p /\ dir[n] # p
       /\ \A a \in Addrs : pt[n][a].page = p => n = m /\ a = b

(* The references, set by set. *)
LEMMA RefSets == \A p :
  /\ References(p) = Cardinality(TasksAt(p)) + Cardinality(DirsAt(p)) + Cardinality(EntriesAt(p))
  /\ IsFiniteSet(TasksAt(p)) /\ IsFiniteSet(DirsAt(p)) /\ IsFiniteSet(EntriesAt(p))
  /\ Cardinality(TasksAt(p)) \in Nat /\ Cardinality(DirsAt(p)) \in Nat
  /\ Cardinality(EntriesAt(p)) \in Nat
  <1> SUFFICES ASSUME NEW p
               PROVE  /\ References(p) = Cardinality(TasksAt(p)) + Cardinality(DirsAt(p))
                                         + Cardinality(EntriesAt(p))
                      /\ IsFiniteSet(TasksAt(p)) /\ IsFiniteSet(DirsAt(p))
                      /\ IsFiniteSet(EntriesAt(p))
                      /\ Cardinality(TasksAt(p)) \in Nat /\ Cardinality(DirsAt(p)) \in Nat
                      /\ Cardinality(EntriesAt(p)) \in Nat
    OBVIOUS
  <1>1. /\ TasksAt(p) \in SUBSET TaskNrs /\ DirsAt(p) \in SUBSET TaskNrs
        /\ EntriesAt(p) \in SUBSET (TaskNrs \X Addrs)
    BY DEF TasksAt, DirsAt, EntriesAt
  <1>2. IsFiniteSet(TasksAt(p)) /\ IsFiniteSet(DirsAt(p)) /\ IsFiniteSet(EntriesAt(p))
    BY <1>1, Constants, FS_Subset
  <1>3. References(p) = Cardinality(TasksAt(p)) + Cardinality(DirsAt(p)) + Cardinality(EntriesAt(p))
    BY DEF References, TasksAt, DirsAt, EntriesAt
  <1> QED
    BY <1>2, <1>3, FS_CardinalityType

(* The sets are empty when nobody uses the page. *)
LEMMA NobodyIs == \A p :
  Nobody(p) <=> TasksAt(p) = {} /\ DirsAt(p) = {} /\ EntriesAt(p) = {}
  <1> SUFFICES ASSUME NEW p
               PROVE  Nobody(p) <=> TasksAt(p) = {} /\ DirsAt(p) = {} /\ EntriesAt(p) = {}
    OBVIOUS
  <1>1. /\ TasksAt(p) = {} <=> \A n \in TaskNrs : task[n] # p
        /\ DirsAt(p) = {} <=> \A n \in TaskNrs : dir[n] # p
    BY DEF TasksAt, DirsAt
  <1>2. EntriesAt(p) = {} <=> \A n \in TaskNrs, a \in Addrs : pt[n][a].page # p
    <2>1. ASSUME NEW n \in TaskNrs, NEW a \in Addrs, pt[n][a].page = p
          PROVE  <<n, a>> \in EntriesAt(p)
      BY <2>1 DEF EntriesAt
    <2>2. ASSUME NEW e \in EntriesAt(p)
          PROVE  e[1] \in TaskNrs /\ e[2] \in Addrs /\ pt[e[1]][e[2]].page = p
      BY DEF EntriesAt
    <2> QED
      BY <2>1, <2>2
  <1> QED
    BY <1>1, <1>2 DEF Nobody

(* A page with no reference is used by nobody. *)
LEMMA NoRefs == \A p : References(p) = 0 <=> Nobody(p)
  <1> SUFFICES ASSUME NEW p PROVE References(p) = 0 <=> Nobody(p)
    OBVIOUS
  <1>1. /\ Cardinality(TasksAt(p)) = 0 <=> TasksAt(p) = {}
        /\ Cardinality(DirsAt(p)) = 0 <=> DirsAt(p) = {}
        /\ Cardinality(EntriesAt(p)) = 0 <=> EntriesAt(p) = {}
    BY RefSets, FS_EmptySet
  <1> QED
    BY <1>1, RefSets, NobodyIs

(* One with one reference has one user. *)
LEMMA OneRef == \A p : References(p) = 1 => Sole(p)
  <1> SUFFICES ASSUME NEW p, References(p) = 1 PROVE Sole(p)
    OBVIOUS
  <1> DEFINE A == TasksAt(p)  B == DirsAt(p)  C == EntriesAt(p)
  <1>1. /\ Cardinality(A) = 0 <=> A = {}
        /\ Cardinality(B) = 0 <=> B = {}
        /\ Cardinality(C) = 0 <=> C = {}
    BY RefSets, FS_EmptySet
  <1>2. /\ Cardinality(A) = 1 => \E x : A = {x}
        /\ Cardinality(B) = 1 => \E x : B = {x}
        /\ Cardinality(C) = 1 => \E x : C = {x}
    BY RefSets, FS_Singleton
  <1>3. \/ (\E x : A = {x}) /\ B = {} /\ C = {}
        \/ A = {} /\ (\E x : B = {x}) /\ C = {}
        \/ A = {} /\ B = {} /\ \E x : C = {x}
    <2>1. /\ Cardinality(A) + Cardinality(B) + Cardinality(C) = 1
          /\ Cardinality(A) \in Nat /\ Cardinality(B) \in Nat /\ Cardinality(C) \in Nat
      BY RefSets
    <2>2. \/ Cardinality(A) = 1 /\ Cardinality(B) = 0 /\ Cardinality(C) = 0
          \/ Cardinality(A) = 0 /\ Cardinality(B) = 1 /\ Cardinality(C) = 0
          \/ Cardinality(A) = 0 /\ Cardinality(B) = 0 /\ Cardinality(C) = 1
      <3> HIDE DEF A, B, C
      <3> QED
        BY <2>1
    <2> HIDE DEF A, B, C
    <2> QED
      BY <1>1, <1>2, <2>2, Zenon
  <1>4. /\ \A n \in TaskNrs : n \in A <=> task[n] = p
        /\ \A n \in TaskNrs : n \in B <=> dir[n] = p
        /\ \A n \in TaskNrs, a \in Addrs : <<n, a>> \in C <=> pt[n][a].page = p
    BY DEF TasksAt, DirsAt, EntriesAt
  <1> HIDE DEF A, B, C
  <1> SUFFICES ASSUME NEW n \in TaskNrs, NEW m \in TaskNrs
               PROVE  /\ task[n] = p /\ task[m] = p => n = m
                      /\ dir[n] = p /\ dir[m] = p => n = m
                      /\ ~(task[n] = p /\ dir[m] = p)
                      /\ \A b \in Addrs : pt[m][b].page = p =>
                           /\ task[n] # p /\ dir[n] # p
                           /\ \A a \in Addrs : pt[n][a].page = p => n = m /\ a = b
    BY DEF Sole
  <1>5. \A b \in Addrs : pt[m][b].page = p => C # {} /\ \A a \in Addrs : pt[n][a].page = p => n = m /\ a = b
    <2> SUFFICES ASSUME NEW b \in Addrs, pt[m][b].page = p
                 PROVE  C # {} /\ \A a \in Addrs : pt[n][a].page = p => n = m /\ a = b
      OBVIOUS
    <2>1. <<m, b>> \in C
      BY <1>4
    <2>2. \E x : C = {x}
      BY <1>3, <2>1, Zenon
    <2>3. \A a \in Addrs : pt[n][a].page = p => <<n, a>> = <<m, b>>
      <3>1. \A x, y \in C : x = y
        BY <2>2
      <3> QED
        BY <1>4, <2>1, <3>1
    <2> QED
      BY <2>1, <2>3
  <1> QED
    BY <1>3, <1>4, <1>5

(* What the count of a page says. *)
LEMMA Counts ==
  ASSUME MInv, NEW p \in Pages
  PROVE  /\ mem_map[p] = 0 => p <= machine.pages /\ Nobody(p)
         /\ mem_map[p] = 1 => p <= machine.pages /\ Sole(p) /\ References(p) = 1
         /\ ~Nobody(p) => p <= machine.pages /\ mem_map[p] = References(p) /\ mem_map[p] >= 1
         /\ References(p) \in Nat
  <1>1. /\ References(p) \in Nat
        /\ References(p) = 0 <=> Nobody(p)
        /\ References(p) = 1 => Sole(p)
    BY RefSets, NoRefs, OneRef
  <1>2. IF p <= machine.pages THEN mem_map[p] = References(p) ELSE mem_map[p] = 100 /\ References(p) = 0
    BY DEF MInv, Counted, USED
  <1> QED
    BY <1>1, <1>2

(* The page of a task's struct and that of its table are its own. *)
LEMMA OwnPages ==
  ASSUME MInv, NEW n \in TaskNrs
  PROVE  /\ task[n] # Null => task[n] \in Pages /\ mem_map[task[n]] = 1 /\ Sole(task[n])
         /\ dir[n] # Null => dir[n] \in Pages /\ mem_map[dir[n]] = 1 /\ Sole(dir[n])
  <1>1. dir[n] # Null => dir[n] \in Pages
    BY DEF MInv, Types
  <1> QED
    BY <1>1, Counts DEF MInv, Owned

(* No page is used more often than there are tasks. *)
LEMMA MostRefs ==
  ASSUME MInv, NEW p \in Pages
  PROVE  References(p) <= NrTasks - 1
  <1>1. References(p) \in Nat /\ NrTasks - 1 \in Nat /\ NrTasks - 1 >= 1
    BY RefSets, Constants
  <1>2. CASE \E n \in TaskNrs : task[n] = p \/ dir[n] = p
    <2>1. p # Null
      BY Constants
    <2>2. References(p) = 1
      BY <1>2, <2>1, OwnPages, Counts
    <2> QED
      BY <1>1, <2>2
  <1>3. CASE ~\E n \in TaskNrs : task[n] = p \/ dir[n] = p
    <2> DEFINE C == EntriesAt(p)
    <2>1. References(p) = Cardinality(C) /\ IsFiniteSet(C)
      <3>1. TasksAt(p) = {} /\ DirsAt(p) = {}
        BY <1>3 DEF TasksAt, DirsAt
      <3>2. Cardinality(TasksAt(p)) = 0 /\ Cardinality(DirsAt(p)) = 0
        BY <3>1, FS_EmptySet
      <3> QED
        BY <3>2, RefSets
    <2>2. ASSUME NEW x \in C, NEW y \in C, x[1] = y[1] PROVE x = y
      <3>1. x \in TaskNrs \X Addrs /\ y \in TaskNrs \X Addrs
            /\ pt[x[1]][x[2]].page = p /\ pt[y[1]][y[2]].page = p
        BY DEF EntriesAt
      <3>2. x[2] = y[2]
        BY <2>2, <3>1 DEF MInv, Once
      <3> QED
        BY <2>2, <3>1, <3>2
    <2>3. [x \in C |-> x[1]] \in [C -> TaskNrs]
      BY DEF EntriesAt
    <2>4. ~(Cardinality(TaskNrs) < Cardinality(C))
      <3> DEFINE f == [x \in C |-> x[1]]
      <3>1. \A x, y \in C : f[x] = f[y] => x = y
        BY <2>2
      <3>2. f \in [C -> TaskNrs]
        BY <2>3
      <3> HIDE DEF C, f
      <3> QED
        BY <2>1, <3>1, <3>2, Constants, FS_PigeonHole
    <2> QED
      BY <1>1, <2>1, <2>4, Constants
  <1> QED
    BY <1>2, <1>3

-----------------------------------------------------------------------------
(* the places a page can be used in: structs, page tables, entries *)
Room == LET some == 1 .. machine.tasks - 1 IN
  ({1} \X some) \union ({2} \X some) \union ({3} \X (some \X Addrs))
Holder(r, p) ==
  \/ r[1] = 1 /\ task[r[2]] = p
  \/ r[1] = 2 /\ dir[r[2]] = p
  \/ r[1] = 3 /\ pt[r[2][1]][r[2][2]].page = p

(* The machine is one of those there are. *)
LEMMA MachineIs ==
  ASSUME Types
  PROVE  /\ machine.tasks \in 2 .. NrTasks /\ machine.pages \in 2 .. NrPages
         /\ machine.ticks \in BOOLEAN /\ Sound(machine)
         /\ machine.pages \in Nat /\ machine.tasks - 1 \in Nat
         /\ 1 .. machine.pages \subseteq Pages /\ 1 .. machine.tasks - 1 \subseteq TaskNrs
  <1>1. /\ machine.tasks \in 2 .. NrTasks /\ machine.pages \in 2 .. NrPages
        /\ machine.ticks \in BOOLEAN /\ Sound(machine)
    BY ProcessesAssumption DEF Types
  <1> QED
    BY <1>1, Constants DEF Pages, TaskNrs

(* So many places there are. *)
LEMMA RoomIs ==
  ASSUME Types
  PROVE  /\ IsFiniteSet(Room)
         /\ Cardinality(Room) = (machine.tasks - 1) * (2 + Cardinality(Addrs))
  <1> DEFINE some == 1 .. machine.tasks - 1
             T == machine.tasks - 1
             A == {1} \X some
             B == {2} \X some
             C == {3} \X (some \X Addrs)
  <1>1. T \in Nat /\ IsFiniteSet(some) /\ Cardinality(some) = T
    <2>1. T \in Nat /\ T \in Int /\ 1 \in Int
      BY MachineIs
    <2>2. IsFiniteSet(1 .. T)
      BY <2>1, FS_Interval
    <2> QED
      BY <2>1, <2>2, FinitePages
  <1>2. IsFiniteSet(Addrs) /\ Cardinality(Addrs) \in Nat
    BY ProcessesAssumption, FS_CardinalityType
  <1> DEFINE n == Cardinality(Addrs)
  <1>3. IsFiniteSet(some \X Addrs) /\ Cardinality(some \X Addrs) = T * n
    <2> HIDE DEF some, T
    <2> QED
      BY <1>1, <1>2, FS_Product
  <1>4. /\ IsFiniteSet(A) /\ Cardinality(A) = 1 * T
        /\ IsFiniteSet(B) /\ Cardinality(B) = 1 * T
        /\ IsFiniteSet(C) /\ Cardinality(C) = 1 * (T * n)
    <2>1. /\ IsFiniteSet({1}) /\ Cardinality({1}) = 1
          /\ IsFiniteSet({2}) /\ Cardinality({2}) = 1
          /\ IsFiniteSet({3}) /\ Cardinality({3}) = 1
      BY FS_Singleton
    <2> HIDE DEF some, T, n
    <2> QED
      BY <1>1, <1>3, <2>1, FS_Product
  <1>5. A \cap B = {} /\ (A \cup B) \cap C = {} /\ Cardinality({}) = 0
    BY FS_EmptySet
  <1> HIDE DEF A, B, C, T, n
  <1>6. /\ IsFiniteSet(A \cup B)
        /\ Cardinality(A \cup B) = Cardinality(A) + Cardinality(B) - Cardinality(A \cap B)
    BY <1>4, FS_Union
  <1>7. /\ IsFiniteSet((A \cup B) \cup C)
        /\ Cardinality((A \cup B) \cup C) = Cardinality(A \cup B) + Cardinality(C) - Cardinality((A \cup B) \cap C)
    BY <1>4, <1>6, FS_Union
  <1>8. Cardinality((A \cup B) \cup C) = T * (2 + n)
    <2>1. T * n \in Nat /\ T * (2 + n) = T + T + T * n
      BY <1>1, <1>2 DEF n
    <2>2. Cardinality(A \cap B) = 0 /\ Cardinality((A \cup B) \cap C) = 0
      BY <1>5, Zenon
    <2>3. Cardinality(A \cup B) = T + T
      BY <1>1, <1>4, <1>6, <2>2
    <2>4. Cardinality((A \cup B) \cup C) = (T + T) + T * n
      BY <1>1, <1>4, <1>7, <2>1, <2>2, <2>3
    <2> QED
      BY <1>1, <2>1, <2>4
  <1> QED
    BY <1>7, <1>8 DEF Room, A, B, C, T, n

(* A page that is used is in one of the places. *)
LEMMA HolderIs ==
  ASSUME MInv, NEW p \in Pages, ~Nobody(p)
  PROVE  \E r \in Room : Holder(r, p)
  <1>1. PICK n \in TaskNrs : task[n] = p \/ dir[n] = p \/ \E a \in Addrs : pt[n][a].page = p
    BY DEF Nobody
  <1>2. n \in 1 .. machine.tasks - 1
    <2>1. p # Null
      BY Constants
    <2>2. task[n] # Null
      BY <1>1, <2>1 DEF MInv, Lives, Absent
    <2> QED
      BY <2>2, MachineIs, Constants DEF MInv, Owned, TaskNrs
  <1>3. CASE task[n] = p
    <2>1. <<1, n>> \in Room /\ Holder(<<1, n>>, p)
      BY <1>2, <1>3 DEF Room, Holder
    <2> QED
      BY <2>1
  <1>4. CASE dir[n] = p
    <2>1. <<2, n>> \in Room /\ Holder(<<2, n>>, p)
      BY <1>2, <1>4 DEF Room, Holder
    <2> QED
      BY <2>1
  <1>5. ASSUME NEW a \in Addrs, pt[n][a].page = p PROVE \E r \in Room : Holder(r, p)
    <2>1. <<3, <<n, a>>>> \in Room /\ Holder(<<3, <<n, a>>>>, p)
      BY <1>2, <1>5 DEF Room, Holder
    <2> QED
      BY <2>1
  <1> QED
    BY <1>1, <1>3, <1>4, <1>5

(* With enough memory the pages do not all fit into the places but one. *)
LEMMA NotAllHeld ==
  ASSUME Types, Enough(machine), NEW r0 \in Room, NEW h \in [1 .. machine.pages -> Room],
         \A p \in 1 .. machine.pages : h[p] # r0,
         \A p, q \in 1 .. machine.pages : h[p] = h[q] => p = q
  PROVE  FALSE
  <1> DEFINE P == 1 .. machine.pages  R == Room \ {r0}
  <1>1. machine.pages \in Nat /\ IsFiniteSet(P) /\ Cardinality(P) = machine.pages
    <2>1. machine.pages \in Nat /\ P \subseteq Pages
      BY MachineIs
    <2> QED
      BY <2>1, FinitePages, FS_Subset
  <1>2. IsFiniteSet(R) /\ Cardinality(R) = Cardinality(Room) - 1 /\ Cardinality(Room) \in Nat
    BY RoomIs, FS_RemoveElement, FS_CardinalityType
  <1>3. Cardinality(R) < Cardinality(P)
    BY <1>1, <1>2, RoomIs DEF Enough
  <1>4. h \in [P -> R]
    OBVIOUS
  <1> HIDE DEF P, R
  <1>5. \E p, q \in P : p # q /\ h[p] = h[q]
    BY <1>1, <1>2, <1>3, <1>4, FS_PigeonHole
  <1> QED
    BY <1>5 DEF P

(* One place to spare, one free page. *)
LEMMA OneFree ==
  ASSUME MInv, Enough(machine), NEW r0 \in Room,
         \A p \in Pages : ~Nobody(p) => \E r \in Room : r # r0 /\ Holder(r, p)
  PROVE  \E p \in Pages : mem_map[p] = 0
  <1> SUFFICES ASSUME \A p \in Pages : mem_map[p] # 0 PROVE FALSE
    OBVIOUS
  <1> DEFINE h == [p \in 1 .. machine.pages |-> CHOOSE r \in Room : r # r0 /\ Holder(r, p)]
  <1>1. \A p \in 1 .. machine.pages : p \in Pages /\ ~Nobody(p)
    <2>1. 1 .. machine.pages \subseteq Pages
      BY MachineIs DEF MInv
    <2> QED
      BY <2>1, NoRefs DEF MInv, Counted
  <1>2. \A p \in 1 .. machine.pages : h[p] \in Room /\ h[p] # r0 /\ Holder(h[p], p)
    BY <1>1
  <1>3. h \in [1 .. machine.pages -> Room]
    BY <1>2
  <1>4. \A p, q \in 1 .. machine.pages : h[p] = h[q] => p = q
    <2> HIDE DEF h
    <2> QED
      BY <1>2 DEF Holder
  <1> HIDE DEF h
  <1> QED
    BY <1>2, <1>3, <1>4, NotAllHeld DEF MInv

(* A child that has nothing yet finds a page for its struct and another. *)
LEMMA TwoFree ==
  ASSUME MInv, Enough(machine), NEW n \in TaskNrs, n < machine.tasks, task[n] = Null, NEW x
  PROVE  \E p \in Pages : p # x /\ mem_map[p] = 0
  <1> SUFFICES ASSUME \A p \in Pages : p # x => mem_map[p] # 0 PROVE FALSE
    OBVIOUS
  <1> DEFINE r0 == <<2, n>>  r1 == <<1, n>>
             h == [p \in 1 .. machine.pages |->
                     IF p = x THEN r1 ELSE CHOOSE r \in Room : Holder(r, p)]
  <1>0. r0 \in Room /\ r1 \in Room
    BY MachineIs, Constants DEF MInv, Room, TaskNrs
  <1>1. \A p \in 1 .. machine.pages : p \in Pages /\ (p # x => ~Nobody(p))
    <2>1. 1 .. machine.pages \subseteq Pages
      BY MachineIs DEF MInv
    <2> QED
      BY <2>1, NoRefs DEF MInv, Counted
  <1>2. \A p \in 1 .. machine.pages : p # x => h[p] \in Room /\ Holder(h[p], p)
    BY <1>1, HolderIs
  <1>3. \A p \in 1 .. machine.pages : p = x => h[p] = r1
    OBVIOUS
  <1>4. h \in [1 .. machine.pages -> Room]
    BY <1>0, <1>2
  <1>5. ~\E p \in Pages : Holder(r0, p) \/ Holder(r1, p)
    <2>1. dir[n] = Null
      BY DEF MInv, Lives
    <2> QED
      BY <2>1, Constants DEF Holder
  <1> HIDE DEF h, r0, r1
  <1>6. \A p \in 1 .. machine.pages : h[p] # r0
    <2>1. r0 # r1
      BY DEF r0, r1
    <2> QED
      BY <1>1, <1>2, <1>3, <1>5, <2>1
  <1>7. \A p, q \in 1 .. machine.pages : h[p] = h[q] => p = q
    <2>1. \A r, p, q : Holder(r, p) /\ Holder(r, q) => p = q
      BY DEF Holder
    <2> QED
      BY <1>1, <1>2, <1>3, <1>5, <2>1
  <1> QED
    BY <1>0, <1>4, <1>6, <1>7, NotAllHeld DEF MInv

-----------------------------------------------------------------------------
(* what get_free_page does *)
Dropping(S, p) == \E e \in S : pt[e[1]][e[2]].page = p
Safe(S) == /\ S \subseteq Clean(pt)
           /\ \A e \in S : Harmless(e[1], e[2])
Taken(S, g) ==
  /\ Safe(S)
  /\ g.table = [n \in TaskNrs |-> [a \in Addrs |-> IF <<n, a>> \in S THEN Absent ELSE pt[n][a]]]
  /\ g.map = [p \in Pages |-> IF p = g.page THEN 1 ELSE IF Dropping(S, p) THEN 0 ELSE mem_map[p]]
  /\ g.page = Null \/ (g.page \in Pages /\ (Dropping(S, g.page) \/ mem_map[g.page] = 0))
  /\ g.page = Null => \A p \in Pages : mem_map[p] # 0

(* The greatest of some pages is one of them. *)
LEMMA MaxIs ==
  ASSUME NEW S, S \subseteq Pages, S # {}
  PROVE  Max(S) \in S
  <1>1. NrPages \in Nat /\ S \subseteq 0 .. NrPages
    BY Constants DEF Pages
  <1>2. PICK x \in S : \A y \in S : y <= x
    BY <1>1, Greatest
  <1>3. \A y \in S : x >= y
    BY <1>1, <1>2
  <1> QED
    BY <1>3 DEF Max

(* The clean entries name pages, each counted; a page counted once has one. *)
LEMMA CleanIs ==
  ASSUME MInv, NEW e \in Clean(pt)
  PROVE  /\ e[1] \in TaskNrs /\ e[2] \in Addrs /\ e = <<e[1], e[2]>>
         /\ pt[e[1]][e[2]].page \in Pages /\ ~pt[e[1]][e[2]].dirty
         /\ ~Nobody(pt[e[1]][e[2]].page)
  <1>1. /\ e[1] \in TaskNrs /\ e[2] \in Addrs /\ e = <<e[1], e[2]>>
        /\ pt[e[1]][e[2]].page \in Pages /\ ~pt[e[1]][e[2]].dirty
    BY DEF Clean
  <1> QED
    BY <1>1 DEF Nobody

(* What is left of the counts when entries are dropped that nobody shares. *)
LEMMA LeftIs ==
  ASSUME MInv, NEW S, S \subseteq Clean(pt),
         \A e \in S : mem_map[pt[e[1]][e[2]].page] = 1, NEW p \in Pages
  PROVE  Less(mem_map, S, pt)[p] = IF Dropping(S, p) THEN 0 ELSE mem_map[p]
  <1> DEFINE D == {e \in S : pt[e[1]][e[2]].page = p}
  <1>1. Less(mem_map, S, pt)[p] = mem_map[p] - Cardinality(D)
    BY DEF Less
  <1>2. mem_map[p] \in Nat
    BY DEF MInv, Types
  <1>3. CASE Dropping(S, p)
    <2>1. PICK e \in S : pt[e[1]][e[2]].page = p
      BY <1>3 DEF Dropping
    <2>2. mem_map[p] = 1 /\ Sole(p)
      BY <2>1, Counts
    <2>3. ASSUME NEW f \in D PROVE f = e
      <3>1. f \in Clean(pt) /\ e \in Clean(pt) /\ pt[f[1]][f[2]].page = p
        OBVIOUS
      <3>2. f[1] = e[1] /\ f[2] = e[2]
        BY <2>1, <2>2, <3>1, CleanIs DEF Sole
      <3> QED
        BY <3>1, <3>2, CleanIs
    <2>4. D = {e}
      BY <2>1, <2>3
    <2>5. Cardinality(D) = 1
      BY <2>4, FS_Singleton
    <2> QED
      BY <1>1, <1>3, <2>2, <2>5
  <1>4. CASE ~Dropping(S, p)
    <2>1. D = {}
      BY <1>4 DEF Dropping
    <2>2. Cardinality(D) = 0
      BY <2>1, FS_EmptySet
    <2> QED
      BY <1>1, <1>2, <1>4, <2>2
  <1> QED
    BY <1>3, <1>4

(* A page that nobody uses stays free whatever is dropped. *)
LEMMA FreeStays ==
  ASSUME MInv, NEW S, S \subseteq Clean(pt), NEW p \in Pages, mem_map[p] = 0
  PROVE  Less(mem_map, S, pt)[p] = 0
  <1> DEFINE D == {e \in S : pt[e[1]][e[2]].page = p}
  <1>1. Less(mem_map, S, pt)[p] = mem_map[p] - Cardinality(D)
    BY DEF Less
  <1>2. Nobody(p)
    BY Counts
  <1>3. D = {}
    BY <1>2, CleanIs DEF Nobody
  <1>4. Cardinality(D) = 0
    BY <1>3, FS_EmptySet
  <1> QED
    BY <1>1, <1>4

(* swap_out drops what is harmless, or nothing. *)
LEMMA DropsSafe ==
  ASSUME MInv, retry = NoRetry, NEW S \in Dropped(mem_map, pt),
         Enough(machine) => \E p \in Pages : mem_map[p] = 0
  PROVE  Safe(S)
  <1>1. S \subseteq Clean(pt)
    BY DEF Dropped
  <1>2. CASE Enough(machine)
    <2>1. \A X \in SUBSET Clean(pt) : Free(Less(mem_map, X, pt)) # {}
      BY <1>2, FreeStays DEF Free
    <2>2. Free(Less(mem_map, S, pt)) # {} /\ \A e \in S : Free(Less(mem_map, S \ {e}, pt)) # {}
      BY <1>1, <2>1
    <2>3. S = {}
      BY <2>2 DEF Dropped
    <2> QED
      BY <2>3 DEF Safe
  <1>3. CASE ~Enough(machine)
    <2>1. ASSUME NEW e \in S PROVE Harmless(e[1], e[2])
      <3>1. e \in Clean(pt) /\ e[1] \in TaskNrs /\ e[2] \in Addrs /\ e = <<e[1], e[2]>>
        BY <1>1, CleanIs
      <3>2. <<e[1], e[2]>> # retry
        BY <3>1, Constants DEF NoRetry
      <3> QED
        BY <1>3, <3>1, <3>2 DEF MInv, Droppable
    <2> QED
      BY <1>1, <2>1 DEF Safe
  <1> QED
    BY <1>2, <1>3

(* get_free_page, from the state: a page that is free or has been dropped. *)
LEMMA GotIs ==
  ASSUME MInv, retry = NoRetry, NEW g \in Got(mem_map, pt),
         Enough(machine) => \E p \in Pages : mem_map[p] = 0
  PROVE  \E S \in SUBSET (TaskNrs \X Addrs) : Taken(S, g)
  <1>1. PICK S \in Dropped(mem_map, pt) :
          LET left == Less(mem_map, S, pt) IN
          LET page == IF Free(left) = {} THEN Null ELSE Max(Free(left)) IN
          g = [page |-> page,
               map |-> [p \in Pages |-> IF p = page THEN 1 ELSE left[p]],
               table |-> [n \in TaskNrs |-> [a \in Addrs |-> IF <<n, a>> \in S THEN Absent ELSE pt[n][a]]]]
    BY DEF Got
  <1> DEFINE left == Less(mem_map, S, pt)
  <1>2. /\ g.page = IF Free(left) = {} THEN Null ELSE Max(Free(left))
        /\ g.map = [p \in Pages |-> IF p = g.page THEN 1 ELSE left[p]]
        /\ g.table = [n \in TaskNrs |-> [a \in Addrs |-> IF <<n, a>> \in S THEN Absent ELSE pt[n][a]]]
    BY <1>1
  <1>3. Safe(S)
    BY DropsSafe
  <1>4. \A p \in Pages : left[p] = IF Dropping(S, p) THEN 0 ELSE mem_map[p]
    BY <1>3, LeftIs DEF Safe, Harmless
  <1>5. Free(left) \subseteq Pages /\ \A p \in Pages : p \in Free(left) <=> left[p] = 0
    BY DEF Free
  <1>6. S \in SUBSET (TaskNrs \X Addrs)
    BY <1>3 DEF Safe, Clean
  <1> HIDE DEF left
  <1>7. g.map = [p \in Pages |-> IF p = g.page THEN 1 ELSE IF Dropping(S, p) THEN 0 ELSE mem_map[p]]
    BY <1>2, <1>4
  <1>8. g.page = Null \/ (g.page \in Pages /\ (Dropping(S, g.page) \/ mem_map[g.page] = 0))
    <2>1. CASE Free(left) # {}
      <3>1. g.page \in Free(left)
        BY <1>2, <1>5, <2>1, MaxIs
      <3> QED
        BY <1>4, <1>5, <3>1
    <2> QED
      BY <1>2, <2>1
  <1>9. g.page = Null => \A p \in Pages : mem_map[p] # 0
    <2>1. g.page = Null => Free(left) = {}
      BY <1>2, <1>5, MaxIs, Constants
    <2>2. \A p \in Pages : mem_map[p] = 0 => left[p] = 0
      BY <1>4
    <2> QED
      BY <1>5, <2>1, <2>2
  <1> QED
    BY <1>2, <1>3, <1>6, <1>7, <1>8, <1>9 DEF Taken

-----------------------------------------------------------------------------
(* a page is entered for the address a of task nr, some entries are dropped *)
Fresh(q) == [page |-> q, rw |-> TRUE, dirty |-> FALSE]
Serves(nr, a, S, q) ==
  /\ retry = NoRetry /\ task[nr] # Null /\ Struct(nr).at = "user"
  /\ Safe(S) /\ q \in Pages /\ (Dropping(S, q) \/ mem_map[q] = 0)
  /\ pt[nr][a].page \in Pages => mem_map[pt[nr][a].page] >= 2
  /\ mem_map' = [p \in Pages |->
       IF p = q THEN 1 ELSE IF Dropping(S, p) THEN 0
       ELSE IF p = pt[nr][a].page THEN mem_map[p] - 1 ELSE mem_map[p]]
  /\ pt' = [n \in TaskNrs |-> [b \in Addrs |->
       IF n = nr /\ b = a THEN Fresh(q) ELSE IF <<n, b>> \in S THEN Absent ELSE pt[n][b]]]
  /\ content' \in [Pages \union {Low} -> Values] /\ content'[Low] = content[Low]
  /\ \A p \in Pages : p # q => content'[p] = IF mem_map'[p] = 0 THEN Zeroes ELSE content[p]
  /\ retry' \in {NoRetry, <<nr, a>>}
  /\ retry' # NoRetry => ~machine.ticks /\ "write" \in machine.calls
  /\ Enough(machine) \/ retry' = <<nr, a>> \/ ("fork" \notin machine.calls /\ content'[q] = Zeroes)
  /\ UNCHANGED <<task, tcb, dir, machine, halted>>
Left(S, p) == \A n \in TaskNrs :
  /\ task[n] # p /\ dir[n] # p
  /\ \A b \in Addrs : pt[n][b].page = p => <<n, b>> \in S

(* What is dropped or free is in the dropped entries only. *)
LEMMA LeftOver ==
  ASSUME MInv, NEW S, Safe(S), NEW p \in Pages, Dropping(S, p) \/ mem_map[p] = 0
  PROVE  p <= machine.pages /\ Left(S, p) /\ mem_map[p] <= 1
  <1>1. CASE mem_map[p] = 0
    BY <1>1, Counts DEF Nobody, Left
  <1>2. CASE Dropping(S, p)
    <2>1. PICK e \in S : pt[e[1]][e[2]].page = p
      BY <1>2 DEF Dropping
    <2>2. /\ e[1] \in TaskNrs /\ e[2] \in Addrs /\ e = <<e[1], e[2]>>
          /\ mem_map[p] = 1
      BY <2>1, CleanIs DEF Safe, Harmless
    <2>3. Sole(p) /\ p <= machine.pages
      BY <2>2, Counts
    <2>4. ASSUME NEW n \in TaskNrs, NEW b \in Addrs, pt[n][b].page = p PROVE <<n, b>> \in S
      <3>1. n = e[1] /\ b = e[2]
        BY <2>1, <2>2, <2>3, <2>4 DEF Sole
      <3> QED
        BY <2>2, <3>1
    <2> QED
      BY <2>1, <2>2, <2>3, <2>4 DEF Left, Sole
  <1> QED
    BY <1>1, <1>2

(* The sets of a page's users that a step does not touch. *)
LEMMA SameSets ==
  ASSUME NEW p
  PROVE  /\ task' = task => TasksAt(p)' = TasksAt(p)
         /\ dir' = dir => DirsAt(p)' = DirsAt(p)
         /\ pt' = pt => EntriesAt(p)' = EntriesAt(p)
  BY DEF TasksAt, DirsAt, EntriesAt

(* The references after a step. *)
RefFacts == \A p :
  /\ References(p) = Cardinality(TasksAt(p)) + Cardinality(DirsAt(p)) + Cardinality(EntriesAt(p))
  /\ Cardinality(TasksAt(p)) \in Nat /\ Cardinality(DirsAt(p)) \in Nat
  /\ Cardinality(EntriesAt(p)) \in Nat
  /\ References(p) = 0 <=> Nobody(p)
  /\ References(p) = 1 => Sole(p)

(* What the counts and the sets say of each other. *)
LEMMA RefSetsNow == RefFacts
  BY RefSets, NoRefs, OneRef DEF RefFacts
(* The same, primed. *)
LEMMA RefSetsNext == RefFacts'
  BY RefSetsNow, PTL

(* The counts are right after a page has been entered. *)
LEMMA ServesCounts ==
  ASSUME MInv, NEW nr \in TaskNrs, NEW a \in Addrs, NEW S, NEW q, Serves(nr, a, S, q)
  PROVE  Counted'
  <1>1. /\ Safe(S) /\ q \in Pages /\ (Dropping(S, q) \/ mem_map[q] = 0)
        /\ pt[nr][a].page \in Pages => mem_map[pt[nr][a].page] >= 2
        /\ task' = task /\ dir' = dir /\ machine' = machine
    BY DEF Serves
  <1>2. \A p \in Pages : mem_map'[p] =
          IF p = q THEN 1 ELSE IF Dropping(S, p) THEN 0
          ELSE IF p = pt[nr][a].page THEN mem_map[p] - 1 ELSE mem_map[p]
    BY DEF Serves
  <1>3. \A n \in TaskNrs, b \in Addrs : pt'[n][b] =
          IF n = nr /\ b = a THEN Fresh(q) ELSE IF <<n, b>> \in S THEN Absent ELSE pt[n][b]
    BY DEF Serves
  <1>4. \A p \in Pages : p # Null /\ p # Absent.page
    BY Constants DEF Absent
  <1> SUFFICES ASSUME NEW p \in Pages
               PROVE  IF p <= machine.pages THEN mem_map'[p] = References(p)'
                      ELSE mem_map'[p] = USED /\ References(p)' = 0
    BY <1>1 DEF Counted
  <1>5. TasksAt(p)' = TasksAt(p) /\ DirsAt(p)' = DirsAt(p)
    BY <1>1, SameSets
  <1>6. IF p <= machine.pages THEN mem_map[p] = References(p)
        ELSE mem_map[p] = USED /\ References(p) = 0
    BY DEF MInv, Counted
  <1>7. CASE p = q
    <2>1. p <= machine.pages /\ Left(S, p)
      BY <1>1, <1>7, LeftOver
    <2>2. TasksAt(p) = {} /\ DirsAt(p) = {}
      BY <2>1 DEF Left, TasksAt, DirsAt
    <2>3. \A n \in TaskNrs, b \in Addrs : pt'[n][b].page = p <=> n = nr /\ b = a
      <3> SUFFICES ASSUME NEW n \in TaskNrs, NEW b \in Addrs
                   PROVE  pt'[n][b].page = p <=> n = nr /\ b = a
        OBVIOUS
      <3>1. Fresh(q).page = p
        BY <1>7 DEF Fresh
      <3>2. pt[n][b].page = p => <<n, b>> \in S
        BY <2>1 DEF Left
      <3> QED
        BY <1>3, <1>4, <3>1, <3>2
    <2>4. EntriesAt(p)' = {<<nr, a>>}
      BY <2>3 DEF EntriesAt
    <2>5. /\ Cardinality(TasksAt(p)') = 0 /\ Cardinality(DirsAt(p)') = 0
          /\ Cardinality(EntriesAt(p)') = 1
      BY <1>5, <2>2, <2>4, FS_EmptySet, FS_Singleton
    <2> QED
      BY <1>2, <1>7, <2>1, <2>5, RefSetsNext DEF RefFacts
  <1>8. CASE p # q /\ Dropping(S, p)
    <2>1. p <= machine.pages /\ Left(S, p)
      BY <1>1, <1>8, LeftOver
    <2>2. Nobody(p)'
      <3> SUFFICES ASSUME NEW n \in TaskNrs, NEW b \in Addrs
                   PROVE  task'[n] # p /\ dir'[n] # p /\ pt'[n][b].page # p
        BY ProcessesAssumption DEF Nobody
      <3>1. Fresh(q).page # p
        BY <1>8 DEF Fresh
      <3>2. /\ task[n] # p /\ dir[n] # p
            /\ pt[n][b].page = p => <<n, b>> \in S
        BY <2>1 DEF Left
      <3> QED
        BY <1>1, <1>3, <1>4, <3>1, <3>2
    <2> QED
      BY <1>2, <1>8, <2>1, <2>2, RefSetsNext DEF RefFacts
  <1>9. ASSUME p # q, ~Dropping(S, p)
        PROVE  \A e \in TaskNrs \X Addrs : e # <<nr, a>> => (e \in EntriesAt(p) <=> e \in EntriesAt(p)')
    <2> SUFFICES ASSUME NEW n \in TaskNrs, NEW b \in Addrs, <<n, b>> # <<nr, a>>
                 PROVE  pt[n][b].page = p <=> pt'[n][b].page = p
      BY DEF EntriesAt
    <2>1. CASE <<n, b>> \in S
      <3>1. pt[n][b].page # p
        BY <1>9, <2>1 DEF Dropping
      <3>2. pt'[n][b] = Absent
        BY <1>3, <2>1
      <3> QED
        BY <1>4, <3>1, <3>2
    <2>2. CASE <<n, b>> \notin S
      <3>1. pt'[n][b] = pt[n][b]
        BY <1>3, <2>2
      <3> QED
        BY <3>1
    <2> QED
      BY <2>1, <2>2
  <1>10. ASSUME p # q, ~Dropping(S, p)
         PROVE  /\ Cardinality(EntriesAt(p)) \in Nat /\ Cardinality(EntriesAt(p)') \in Nat
                /\ Cardinality(EntriesAt(p)') + (IF <<nr, a>> \in EntriesAt(p) THEN 1 ELSE 0)
                     = Cardinality(EntriesAt(p)) + (IF <<nr, a>> \in EntriesAt(p)' THEN 1 ELSE 0)
    <2>1. EntriesAt(p) \in SUBSET (TaskNrs \X Addrs) /\ EntriesAt(p)' \in SUBSET (TaskNrs \X Addrs)
      BY DEF EntriesAt
    <2>2. <<nr, a>> \in TaskNrs \X Addrs /\ IsFiniteSet(TaskNrs \X Addrs)
      BY Constants
    <2> QED
      BY <1>9, <1>10, <2>1, <2>2, OneMember
  <1>11. <<nr, a>> \in EntriesAt(p) <=> pt[nr][a].page = p
    BY DEF EntriesAt
  <1>12. p # q => <<nr, a>> \notin EntriesAt(p)'
    BY <1>3 DEF EntriesAt, Fresh
  <1>13. CASE p # q /\ ~Dropping(S, p) /\ p = pt[nr][a].page
    <2>1. References(p)' = References(p) - 1
      BY <1>5, <1>10, <1>11, <1>12, <1>13, RefSets, RefSetsNext DEF RefFacts
    <2>2. p <= machine.pages
      BY <1>13, Counts DEF Nobody
    <2> QED
      BY <1>2, <1>6, <1>13, <2>1, <2>2
  <1>14. CASE p # q /\ ~Dropping(S, p) /\ p # pt[nr][a].page
    <2>1. References(p)' = References(p)
      BY <1>5, <1>10, <1>11, <1>12, <1>14, RefSets, RefSetsNext DEF RefFacts
    <2> QED
      BY <1>2, <1>6, <1>14, <2>1
  <1> QED
    BY <1>7, <1>8, <1>13, <1>14

(* And the rest of the invariant. *)
LEMMA ServesKeeps ==
  ASSUME MInv, NEW nr \in TaskNrs, NEW a \in Addrs, NEW S, NEW q, Serves(nr, a, S, q)
  PROVE  MInv'
  <1>1. /\ Safe(S) /\ q \in Pages /\ (Dropping(S, q) \/ mem_map[q] = 0)
        /\ pt[nr][a].page \in Pages => mem_map[pt[nr][a].page] >= 2
        /\ task' = task /\ dir' = dir /\ machine' = machine /\ tcb' = tcb /\ halted' = halted
        /\ retry = NoRetry /\ task[nr] # Null /\ Struct(nr).at = "user"
    BY DEF Serves
  <1>2. \A p \in Pages : mem_map'[p] =
          IF p = q THEN 1 ELSE IF Dropping(S, p) THEN 0
          ELSE IF p = pt[nr][a].page THEN mem_map[p] - 1 ELSE mem_map[p]
    BY DEF Serves
  <1>3. \A n \in TaskNrs, b \in Addrs : pt'[n][b] =
          IF n = nr /\ b = a THEN Fresh(q) ELSE IF <<n, b>> \in S THEN Absent ELSE pt[n][b]
    BY DEF Serves
  <1>4. /\ content' \in [Pages \union {Low} -> Values]
        /\ \A p \in Pages : p # q => content'[p] = IF mem_map'[p] = 0 THEN Zeroes ELSE content[p]
    BY DEF Serves
  <1>5. Types
    BY DEF MInv
  <1>6. dir[nr] # Null
    BY <1>1 DEF MInv, Lives
  <1>7. ASSUME NEW p \in Pages, mem_map[p] = 1, p # q, ~Dropping(S, p) PROVE mem_map'[p] = 1
    <2>1. pt[nr][a].page # p
      BY <1>1, <1>7
    <2> QED
      BY <1>2, <1>7, <2>1
  <1>8. ASSUME NEW p \in Pages, ~Left(S, p) PROVE p # q /\ ~Dropping(S, p)
    BY <1>1, <1>8, LeftOver
  <1>9. Fresh(q).page = q /\ Fresh(q).rw /\ ~Fresh(q).dirty /\ Fresh(q) \in Entries
    BY <1>1 DEF Fresh, Entries
  <1>10. Types'
    <2>1. mem_map' \in [Pages -> Nat]
      <3>1. ASSUME NEW p \in Pages
            PROVE  (IF p = q THEN 1 ELSE IF Dropping(S, p) THEN 0
                    ELSE IF p = pt[nr][a].page THEN mem_map[p] - 1 ELSE mem_map[p]) \in Nat
        BY <1>1, <1>5 DEF Types
      <3> QED
        BY <3>1 DEF Serves
    <2>2. pt' \in [TaskNrs -> [Addrs -> Entries]]
      <3>1. ASSUME NEW n \in TaskNrs, NEW b \in Addrs
            PROVE  (IF n = nr /\ b = a THEN Fresh(q) ELSE IF <<n, b>> \in S THEN Absent ELSE pt[n][b])
                     \in Entries
        BY <1>5, <1>9 DEF Types, Entries
      <3> QED
        BY <3>1 DEF Serves
    <2>3. retry' \in (TaskNrs \X Addrs) \union {NoRetry}
      BY DEF Serves
    <2> QED
      BY <1>1, <1>4, <1>5, <2>1, <2>2, <2>3 DEF Types
  <1>11. Counted'
    BY ServesCounts
  <1>12. Owned'
    <2>1. ASSUME NEW n \in TaskNrs, task[n] # Null
          PROVE  task[n] \in Pages /\ mem_map'[task[n]] = 1 /\ n < machine.tasks
      <3>1. task[n] \in Pages /\ mem_map[task[n]] = 1 /\ n < machine.tasks
        BY <2>1 DEF MInv, Owned
      <3>2. ~Left(S, task[n])
        BY DEF Left
      <3> QED
        BY <1>7, <1>8, <3>1, <3>2
    <2>2. ASSUME NEW n \in TaskNrs, dir[n] # Null PROVE mem_map'[dir[n]] = 1
      <3>1. dir[n] \in Pages /\ mem_map[dir[n]] = 1
        BY <2>2, OwnPages
      <3>2. ~Left(S, dir[n])
        BY DEF Left
      <3> QED
        BY <1>7, <1>8, <3>1, <3>2
    <2> QED
      BY <1>1, <2>1, <2>2 DEF MInv, Owned
  <1>13. Once'
    <2> SUFFICES ASSUME NEW n \in TaskNrs, NEW b \in Addrs, NEW c \in Addrs,
                        pt'[n][b].page = pt'[n][c].page, pt'[n][b].page \in Pages, b # c
                 PROVE  FALSE
      BY DEF Once
    <2>1. Absent.page \notin Pages
      BY Constants DEF Absent
    <2>2. ~(n = nr /\ (b = a \/ c = a))
      <3>1. Left(S, q)
        BY <1>1, LeftOver
      <3>2. \A x \in Addrs : pt[nr][x].page = q => <<nr, x>> \in S
        BY <3>1 DEF Left
      <3>3. pt'[nr][a].page = q
        BY <1>3, <1>9
      <3>4. ASSUME NEW x \in Addrs, x # a PROVE pt'[nr][x].page # q
        BY <1>1, <1>3, <2>1, <3>2, <3>4
      <3> QED
        BY <3>3, <3>4
    <2>3. pt'[n][b] = pt[n][b] /\ pt'[n][c] = pt[n][c]
      BY <1>3, <2>1, <2>2
    <2> QED
      BY <2>3 DEF MInv, Once
  <1>14. Lives'
    <2>1. ASSUME NEW n \in TaskNrs, dir[n] = Null, NEW b \in Addrs PROVE pt'[n][b] = Absent
      <3>1. n # nr /\ pt[n][b] = Absent
        BY <1>6, <2>1 DEF MInv, Lives
      <3> QED
        BY <1>3, <3>1
    <2> QED
      BY <1>1, <2>1 DEF MInv, Lives, Struct
  <1>15. ASSUME NEW n \in TaskNrs, NEW b \in Addrs, ~(n = nr /\ b = a), <<n, b>> \notin S,
                pt[n][b].page \in Pages, mem_map[pt[n][b].page] = 1
         PROVE  pt[n][b].page # q /\ mem_map'[pt[n][b].page] = 1
    <2>1. ~Left(S, pt[n][b].page)
      BY <1>15 DEF Left
    <2> QED
      BY <1>7, <1>8, <1>15, <2>1
  <1>16. Writable'
    <2> SUFFICES ASSUME NEW n \in TaskNrs, NEW b \in Addrs, pt'[n][b].rw
                 PROVE  pt'[n][b].page \in Pages /\ mem_map'[pt'[n][b].page] = 1
      BY DEF Writable
    <2>1. CASE n = nr /\ b = a
      <3>1. pt'[n][b].page = q /\ mem_map'[q] = 1
        BY <1>1, <1>2, <1>3, <1>9, <2>1
      <3> QED
        BY <1>1, <3>1
    <2>2. CASE ~(n = nr /\ b = a)
      <3>1. <<n, b>> \notin S /\ pt'[n][b] = pt[n][b]
        BY <1>3, <2>2 DEF Absent
      <3>2. pt[n][b].page \in Pages /\ mem_map[pt[n][b].page] = 1
        BY <3>1 DEF MInv, Writable
      <3> QED
        BY <1>15, <2>2, <3>1, <3>2
    <2> QED
      BY <2>1, <2>2
  <1>17. Forgotten'
    <2> SUFFICES ASSUME NEW p \in Pages, content'[p] # Zeroes
                 PROVE  \E n \in TaskNrs, b \in Addrs : pt'[n][b].page = p
      BY DEF Forgotten
    <2>1. CASE p = q
      BY <1>3, <1>9, <2>1
    <2>2. CASE p # q
      <3>1. mem_map'[p] # 0 /\ content[p] # Zeroes
        BY <1>4, <2>2
      <3>2. PICK n \in TaskNrs, b \in Addrs : pt[n][b].page = p
        BY <3>1 DEF MInv, Forgotten
      <3>3. p <= machine.pages
        BY <3>2, Counts DEF Nobody
      <3>4. ~Nobody(p)'
        BY <1>1, <1>11, <3>1, <3>3, RefSetsNext DEF Counted, RefFacts
      <3>5. \A m \in TaskNrs : task[m] # p /\ dir[m] # p
        BY <3>2, OwnPages, Constants DEF Sole
      <3> QED
        BY <1>1, <3>4, <3>5 DEF Nobody
    <2> QED
      BY <2>1, <2>2
  <1>18. Tries'
    <2> SUFFICES ASSUME NEW n \in TaskNrs, NEW b \in Addrs, retry' = <<n, b>>
                 PROVE  ~machine.ticks /\ "write" \in machine.calls
                        /\ Struct(n)'.at = "user" /\ pt'[n][b].rw
      BY <1>1 DEF Tries
    <2>1. retry' # NoRetry
      BY Constants DEF NoRetry
    <2>2. n = nr /\ b = a /\ ~machine.ticks /\ "write" \in machine.calls
      BY <2>1 DEF Serves
    <2> QED
      BY <1>1, <1>3, <1>9, <2>2 DEF Struct
  <1>19. Droppable'
    <2> SUFFICES ASSUME NEW n \in TaskNrs, NEW b \in Addrs, <<n, b>> \in Clean(pt'), <<n, b>> # retry',
                        ~Enough(machine)
                 PROVE  /\ "fork" \notin machine.calls
                        /\ mem_map'[pt'[n][b].page] = 1 /\ content'[pt'[n][b].page] = Zeroes
      BY <1>1 DEF Droppable, Harmless, Enough
    <2>1. CASE n = nr /\ b = a
      <3>1. "fork" \notin machine.calls /\ content'[q] = Zeroes
        BY <2>1 DEF Serves
      <3> QED
        BY <1>1, <1>2, <1>3, <1>9, <2>1, <3>1
    <2>2. CASE ~(n = nr /\ b = a)
      <3>1. pt'[n][b].page \in Pages /\ ~pt'[n][b].dirty
        BY DEF Clean
      <3>2. <<n, b>> \notin S /\ pt'[n][b] = pt[n][b]
        BY <1>3, <2>2, <3>1, Constants DEF Absent
      <3>3. <<n, b>> \in Clean(pt) /\ <<n, b>> # retry
        BY <1>1, <3>1, <3>2, Constants DEF Clean, NoRetry
      <3>4. Harmless(n, b)
        BY <3>3 DEF MInv, Droppable
      <3>5. pt[n][b].page # q /\ mem_map'[pt[n][b].page] = 1
        BY <1>15, <2>2, <3>1, <3>2, <3>4 DEF Harmless
      <3> QED
        BY <1>4, <3>1, <3>2, <3>4, <3>5 DEF Harmless
    <2> QED
      BY <2>1, <2>2
  <1> QED
    BY <1>10, <1>11, <1>12, <1>13, <1>14, <1>16, <1>17, <1>18, <1>19 DEF MInv

-----------------------------------------------------------------------------
(* the steps of the faults *)
Seen(e) == IF e.page = Null THEN Zeroes ELSE content[e.page]

(* A page with two uses is in two entries. *)
LEMMA OtherEntry ==
  ASSUME MInv, NEW n \in TaskNrs, NEW a \in Addrs, pt[n][a].page \in Pages,
         mem_map[pt[n][a].page] # 1
  PROVE  /\ mem_map[pt[n][a].page] >= 2
         /\ \E m \in TaskNrs, b \in Addrs : <<m, b>> # <<n, a>> /\ pt[m][b].page = pt[n][a].page
  <1>1. PICK p \in Pages : p = pt[n][a].page
    OBVIOUS
  <1>2. /\ mem_map[p] = References(p) /\ mem_map[p] >= 1 /\ References(p) \in Nat
    BY <1>1, Counts DEF Nobody
  <1>3. \A m \in TaskNrs : task[m] # p /\ dir[m] # p
    BY <1>1, OwnPages, Constants
  <1>4. References(p) = Cardinality(EntriesAt(p))
    <2>1. TasksAt(p) = {} /\ DirsAt(p) = {}
      BY <1>3 DEF TasksAt, DirsAt
    <2>2. Cardinality(TasksAt(p)) = 0 /\ Cardinality(DirsAt(p)) = 0
      BY <2>1, FS_EmptySet
    <2> QED
      BY <2>2, RefSets
  <1>5. EntriesAt(p) # {<<n, a>>}
    BY <1>1, <1>2, <1>4, FS_Singleton
  <1>6. <<n, a>> \in EntriesAt(p)
    BY <1>1 DEF EntriesAt
  <1>7. PICK e \in EntriesAt(p) : e # <<n, a>>
    BY <1>5, <1>6
  <1>8. e[1] \in TaskNrs /\ e[2] \in Addrs /\ <<e[1], e[2]>> = e /\ pt[e[1]][e[2]].page = p
    BY DEF EntriesAt
  <1> QED
    BY <1>1, <1>2, <1>7, <1>8

(* With enough memory there is a page for a fault. *)
LEMMA EntryFree ==
  ASSUME MInv, Enough(machine), NEW nr \in TaskNrs, NEW a \in Addrs, task[nr] # Null,
         pt[nr][a].page \in Pages => mem_map[pt[nr][a].page] # 1
  PROVE  \E p \in Pages : mem_map[p] = 0
  <1> DEFINE r0 == <<3, <<nr, a>>>>
  <1>0. \A n \in TaskNrs : task[n] # Null => n \in 1 .. machine.tasks - 1
    <2>1. machine.tasks \in Nat /\ \A n \in TaskNrs : n \in Nat /\ n >= 1
      BY MachineIs, Constants DEF MInv, TaskNrs
    <2> QED
      BY <2>1 DEF MInv, Owned
  <1>1. nr \in 1 .. machine.tasks - 1
    BY <1>0
  <1>2. r0 \in Room
    BY <1>1 DEF Room
  <1>3. ASSUME NEW p \in Pages, ~Nobody(p) PROVE \E r \in Room : r # r0 /\ Holder(r, p)
    <2>1. CASE pt[nr][a].page # p
      <3>1. ~Holder(r0, p)
        BY <2>1 DEF Holder
      <3> QED
        BY <1>3, <3>1, HolderIs
    <2>2. CASE pt[nr][a].page = p
      <3>1. PICK m \in TaskNrs, b \in Addrs : <<m, b>> # <<nr, a>> /\ pt[m][b].page = p
        BY <2>2, OtherEntry
      <3>2. task[m] # Null
        BY <3>1, Constants DEF MInv, Lives, Absent
      <3>3. m \in 1 .. machine.tasks - 1
        BY <1>0, <3>2
      <3>4. <<3, <<m, b>>>> \in Room /\ <<3, <<m, b>>>> # r0
        BY <3>1, <3>3 DEF Room
      <3>5. Holder(<<3, <<m, b>>>>, p)
        BY <3>1 DEF Holder
      <3> QED
        BY <3>4, <3>5
    <2> QED
      BY <2>1, <2>2
  <1> HIDE DEF r0
  <1> QED
    BY <1>2, <1>3, OneFree

(* What is kept of the contents: what is not free. *)
LEMMA KeptIs ==
  ASSUME NEW map, NEW c, c \in [Pages \union {Low} -> Values]
  PROVE  /\ Kept(map, c) \in [Pages \union {Low} -> Values]
         /\ \A p \in Pages : Kept(map, c)[p] = IF map[p] = 0 THEN Zeroes ELSE c[p]
         /\ Kept(map, c)[Low] = c[Low]
  <1>1. DOMAIN c = Pages \union {Low} /\ Zeroes \in Values
    BY DEF Values
  <1>2. Low \notin Pages
    BY Constants
  <1> QED
    BY <1>1, <1>2 DEF Kept

(* A fault without a page halts the machine, for want of one, or is served. *)
LEMMA NoPageServes ==
  ASSUME MInv, NEW nr \in TaskNrs, NEW a \in Addrs, NEW again \in {NoRetry, <<nr, a>>},
         NoPage(nr, a, again), retry = NoRetry, User(nr),
         again # NoRetry => ~machine.ticks /\ "write" \in machine.calls,
         Enough(machine) \/ again = <<nr, a>> \/ "fork" \notin machine.calls
  PROVE  \/ Halt /\ \A p \in Pages : mem_map[p] # 0
         \/ \E S \in SUBSET (TaskNrs \X Addrs), q \in Pages :
              Serves(nr, a, S, q) /\ content'[q] = Seen(pt[nr][a])
  <1>1. pt[nr][a].page = Null /\ task[nr] # Null /\ Struct(nr).at = "user" /\ Null \notin Pages
    BY Constants DEF NoPage, User, Present
  <1>2. PICK g \in Got(mem_map, pt) :
          \/ OutOfMemory(g)
          \/ /\ g.page # Null
             /\ mem_map' = g.map
             /\ content' = Kept(mem_map', [content EXCEPT ![g.page] = Zeroes])
             /\ pt' = [g.table EXCEPT ![nr][a] = [page |-> g.page, rw |-> TRUE, dirty |-> FALSE]]
             /\ retry' = again
             /\ UNCHANGED <<task, tcb, dir, machine, halted>>
    BY DEF NoPage
  <1>3. PICK S \in SUBSET (TaskNrs \X Addrs) : Taken(S, g)
    BY <1>1, EntryFree, GotIs
  <1>4. CASE OutOfMemory(g)
    BY <1>3, <1>4 DEF OutOfMemory, Taken
  <1>5. CASE ~OutOfMemory(g)
    <2>1. PICK q \in Pages : q = g.page
      BY <1>2, <1>3, <1>5 DEF Taken
    <2>2. [content EXCEPT ![q] = Zeroes] \in [Pages \union {Low} -> Values]
      BY DEF MInv, Types, Values
    <2>3. /\ content' \in [Pages \union {Low} -> Values] /\ content'[Low] = content[Low]
          /\ content'[q] = Zeroes
          /\ \A p \in Pages : p # q => content'[p] = IF mem_map'[p] = 0 THEN Zeroes ELSE content[p]
      <3> DEFINE c == [content EXCEPT ![q] = Zeroes]  map == mem_map'
      <3>1. content' = Kept(map, c)
        BY <1>2, <1>5, <2>1
      <3>2. c[Low] = content[Low] /\ c[q] = Zeroes /\ \A p \in Pages : p # q => c[p] = content[p]
        BY Constants DEF MInv, Types
      <3>3. c \in [Pages \union {Low} -> Values]
        BY <2>2
      <3> HIDE DEF c, map
      <3>4. /\ Kept(map, c) \in [Pages \union {Low} -> Values]
            /\ \A p \in Pages : Kept(map, c)[p] = IF map[p] = 0 THEN Zeroes ELSE c[p]
            /\ Kept(map, c)[Low] = c[Low]
        BY <3>3, KeptIs
      <3> QED
        BY <3>1, <3>2, <3>4 DEF map
    <2>4. mem_map' = [p \in Pages |->
            IF p = q THEN 1 ELSE IF Dropping(S, p) THEN 0
            ELSE IF p = pt[nr][a].page THEN mem_map[p] - 1 ELSE mem_map[p]]
      <3>1. mem_map' = [p \in Pages |-> IF p = q THEN 1 ELSE IF Dropping(S, p) THEN 0 ELSE mem_map[p]]
        BY <1>2, <1>3, <1>5, <2>1 DEF Taken
      <3> QED
        BY <1>1, <3>1
    <2>5. pt' = [n \in TaskNrs |-> [b \in Addrs |->
            IF n = nr /\ b = a THEN Fresh(q) ELSE IF <<n, b>> \in S THEN Absent ELSE pt[n][b]]]
      <3>1. pt' = [[n \in TaskNrs |-> [b \in Addrs |-> IF <<n, b>> \in S THEN Absent ELSE pt[n][b]]]
                     EXCEPT ![nr][a] = Fresh(q)]
        BY <1>2, <1>3, <1>5, <2>1 DEF Taken, Fresh
      <3> QED
        BY <3>1
    <2>6. Safe(S) /\ (Dropping(S, q) \/ mem_map[q] = 0)
      BY <1>3, <2>1, Constants DEF Taken
    <2>7. Seen(pt[nr][a]) = Zeroes
      BY <1>1 DEF Seen
    <2>8. /\ retry' = again /\ UNCHANGED <<task, tcb, dir, machine, halted>>
          /\ retry' \in {NoRetry, <<nr, a>>}
          /\ retry' # NoRetry => ~machine.ticks /\ "write" \in machine.calls
          /\ \/ Enough(machine) \/ retry' = <<nr, a>>
             \/ "fork" \notin machine.calls /\ content'[q] = Zeroes
      BY <1>2, <1>5, <2>3
    <2>9. pt[nr][a].page \in Pages => mem_map[pt[nr][a].page] >= 2
      BY <1>1
    <2>10. Serves(nr, a, S, q)
      BY <1>1, <2>3, <2>4, <2>5, <2>6, <2>8, <2>9, Zenon DEF Serves
    <2> QED
      BY <2>3, <2>7, <2>10
  <1> QED
    BY <1>4, <1>5

(* The way mem_map[old]-- is written is a subtraction, while counts are small. *)
LEMMA OneLess == \A x \in 1 .. 255 : (x + 255) % 256 = x - 1
  OBVIOUS

(* The page of a shared entry is not the one that is taken. *)
LEMMA OldStays ==
  ASSUME MInv, FewTasks, NEW nr \in TaskNrs, NEW a \in Addrs, NEW S, Safe(S),
         NEW q \in Pages, Dropping(S, q) \/ mem_map[q] = 0,
         ~(pt[nr][a].page \in Pages /\ mem_map[pt[nr][a].page] = 1)
  PROVE  /\ pt[nr][a].page # q
         /\ pt[nr][a].page \in Pages =>
              /\ ~Dropping(S, pt[nr][a].page) /\ mem_map[pt[nr][a].page] >= 2
              /\ mem_map[pt[nr][a].page] \in 1 .. 255
  <1>1. ASSUME NEW p \in Pages, p = pt[nr][a].page
        PROVE  p # q /\ ~Dropping(S, p) /\ mem_map[p] >= 2 /\ mem_map[p] \in 1 .. 255
    <2>1. mem_map[p] >= 2 /\ mem_map[p] \in Nat
      BY <1>1, OtherEntry DEF MInv, Types
    <2>2. ~Dropping(S, p)
      BY <2>1, LeftOver
    <2>3. mem_map[p] = References(p) /\ References(p) <= NrTasks - 1
      BY <1>1, Counts, MostRefs DEF Nobody
    <2>4. NrTasks - 1 <= 255
      BY Constants DEF FewTasks, USED
    <2>5. mem_map[p] \in 1 .. 255
      BY <2>1, <2>3, <2>4, Constants
    <2>6. p # q
      BY <2>1, <2>2
    <2> QED
      BY <2>1, <2>2, <2>5, <2>6
  <1> QED
    BY <1>1

(* The entry of a page that nobody shares is made writable. *)
Granted(nr, a) ==
  /\ retry = NoRetry /\ task[nr] # Null /\ Struct(nr).at = "user" /\ "write" \in machine.calls
  /\ pt[nr][a].page \in Pages /\ mem_map[pt[nr][a].page] = 1
  /\ pt' = [pt EXCEPT ![nr][a].rw = TRUE]
  /\ retry' = SecondTry(nr, a)
  /\ UNCHANGED <<mem_map, content, task, tcb, dir, machine, halted>>

(* A write to a protected page: granted, halted, or served with a copy. *)
LEMMA WriteProtectedServes ==
  ASSUME MInv, FewTasks, NEW nr \in TaskNrs, NEW a \in Addrs, WriteProtected(nr, a)
  PROVE  \/ Granted(nr, a)
         \/ Halt /\ \A p \in Pages : mem_map[p] # 0
         \/ \E S \in SUBSET (TaskNrs \X Addrs), q \in Pages :
              Serves(nr, a, S, q) /\ content'[q] = Seen(pt[nr][a])
  <1> DEFINE old == pt[nr][a].page
  <1>1. /\ retry = NoRetry /\ task[nr] # Null /\ Struct(nr).at = "user" /\ "write" \in machine.calls
        /\ old # Null
    BY DEF WriteProtected, Calls, User, Present
  <1>2. old \in Pages \union {Low}
    <2>1. pt[nr][a] \in Entries
      BY DEF MInv, Types
    <2> QED
      BY <1>1, <2>1 DEF Entries, Absent
  <1>3. CASE old \in Pages /\ mem_map[old] = 1
    BY <1>1, <1>3 DEF WriteProtected, Granted
  <1>4. CASE ~(old \in Pages /\ mem_map[old] = 1)
    <2>1. PICK g \in Got(mem_map, pt) :
            \/ OutOfMemory(g)
            \/ /\ g.page # Null
               /\ mem_map' = [p \in Pages |-> IF p = old THEN (g.map[p] + 255) % 256 ELSE g.map[p]]
               /\ content' = Kept(mem_map', [content EXCEPT ![g.page] = IF old = g.page THEN Zeroes ELSE content[old]])
               /\ pt' = [g.table EXCEPT ![nr][a] = [page |-> g.page, rw |-> TRUE, dirty |-> FALSE]]
               /\ retry' = SecondTry(nr, a)
               /\ UNCHANGED <<task, tcb, dir, machine, halted>>
      BY <1>4 DEF WriteProtected
    <2>2. PICK S \in SUBSET (TaskNrs \X Addrs) : Taken(S, g)
      BY <1>1, <1>4, EntryFree, GotIs
    <2>3. CASE OutOfMemory(g)
      BY <2>2, <2>3 DEF OutOfMemory, Taken
    <2>4. CASE ~OutOfMemory(g)
      <3>1. PICK q \in Pages : q = g.page
        BY <2>1, <2>2, <2>4 DEF Taken
      <3>2. Safe(S) /\ (Dropping(S, q) \/ mem_map[q] = 0)
        BY <2>2, <3>1, Constants DEF Taken
      <3>3. /\ old # q
            /\ old \in Pages => ~Dropping(S, old) /\ mem_map[old] >= 2 /\ mem_map[old] \in 1 .. 255
        BY <1>4, <3>2, OldStays
      <3>4. mem_map' = [p \in Pages |->
              IF p = q THEN 1 ELSE IF Dropping(S, p) THEN 0
              ELSE IF p = old THEN mem_map[p] - 1 ELSE mem_map[p]]
        <4>1. mem_map' = [p \in Pages |-> IF p = old THEN (g.map[p] + 255) % 256 ELSE g.map[p]]
          BY <2>1, <2>4
        <4>2. \A p \in Pages : g.map[p] = IF p = q THEN 1 ELSE IF Dropping(S, p) THEN 0 ELSE mem_map[p]
          BY <2>2, <3>1 DEF Taken
        <4>3. ASSUME NEW p \in Pages
              PROVE  (IF p = old THEN (g.map[p] + 255) % 256 ELSE g.map[p])
                     = (IF p = q THEN 1 ELSE IF Dropping(S, p) THEN 0
                        ELSE IF p = old THEN mem_map[p] - 1 ELSE mem_map[p])
          <5> HIDE DEF old
          <5>1. CASE p = old
            <6>1. g.map[p] = mem_map[p] /\ mem_map[p] \in 1 .. 255 /\ p # q /\ ~Dropping(S, p)
              BY <3>3, <4>2, <5>1
            <6>2. (mem_map[p] + 255) % 256 = mem_map[p] - 1
              BY <6>1, OneLess
            <6> QED
              BY <5>1, <6>1, <6>2, Zenon
          <5>2. CASE p # old
            BY <4>2, <5>2
          <5> QED
            BY <5>1, <5>2
        <4> HIDE DEF old
        <4> QED
          BY <4>1, <4>3
      <3>5. /\ content' \in [Pages \union {Low} -> Values] /\ content'[Low] = content[Low]
            /\ content'[q] = content[old]
            /\ \A p \in Pages : p # q => content'[p] = IF mem_map'[p] = 0 THEN Zeroes ELSE content[p]
        <4> DEFINE c == [content EXCEPT ![q] = content[old]]  map == mem_map'
        <4>1. content' = Kept(map, c)
          BY <2>1, <2>4, <3>1, <3>3
        <4>2. c[Low] = content[Low] /\ c[q] = content[old] /\ \A p \in Pages : p # q => c[p] = content[p]
          BY Constants DEF MInv, Types
        <4>3. c \in [Pages \union {Low} -> Values]
          BY <1>2 DEF MInv, Types
        <4>4. map[q] = 1
          BY <3>4
        <4> HIDE DEF c, map
        <4>5. /\ Kept(map, c) \in [Pages \union {Low} -> Values]
              /\ \A p \in Pages : Kept(map, c)[p] = IF map[p] = 0 THEN Zeroes ELSE c[p]
              /\ Kept(map, c)[Low] = c[Low]
          BY <4>3, KeptIs
        <4> QED
          BY <4>1, <4>2, <4>4, <4>5 DEF map
      <3>6. pt' = [n \in TaskNrs |-> [b \in Addrs |->
              IF n = nr /\ b = a THEN Fresh(q) ELSE IF <<n, b>> \in S THEN Absent ELSE pt[n][b]]]
        <4>1. pt' = [[n \in TaskNrs |-> [b \in Addrs |-> IF <<n, b>> \in S THEN Absent ELSE pt[n][b]]]
                       EXCEPT ![nr][a] = Fresh(q)]
          BY <2>1, <2>2, <2>4, <3>1 DEF Taken, Fresh
        <4> QED
          BY <4>1
      <3>7. /\ retry' = SecondTry(nr, a) /\ UNCHANGED <<task, tcb, dir, machine, halted>>
        BY <2>1, <2>4
      <3>8. /\ retry' \in {NoRetry, <<nr, a>>}
            /\ retry' # NoRetry => ~machine.ticks /\ "write" \in machine.calls
            /\ Enough(machine) \/ retry' = <<nr, a>>
        <4>1. Sound(machine)
          BY DEF MInv, Types
        <4> QED
          BY <1>1, <3>7, <4>1 DEF SecondTry, Sound
      <3>9. pt[nr][a].page \in Pages => mem_map[pt[nr][a].page] >= 2
        BY <3>3
      <3>10. Serves(nr, a, S, q)
        BY <1>1, <3>2, <3>4, <3>5, <3>6, <3>7, <3>8, <3>9, Zenon DEF Serves
      <3>11. Seen(pt[nr][a]) = content[old]
        BY <1>1 DEF Seen
      <3> QED
        BY <3>5, <3>10, <3>11
    <2> QED
      BY <2>3, <2>4
  <1> QED
    BY <1>3, <1>4

-----------------------------------------------------------------------------
(* The steps that change structs only: the pages are what they were. *)
OnlyStructs ==
  /\ UNCHANGED <<mem_map, content, task, dir, pt, retry, machine>>
  /\ halted' \in BOOLEAN /\ tcb' \in [Pages \union {Low} -> Structs]
  /\ \A n \in TaskNrs : task[n] # Null =>
       (Struct(n)'.at \in {"user", "waiting"} <=> Struct(n).at \in {"user", "waiting"})
  /\ retry = NoRetry \/ tcb' = tcb

(* The references when the tables have not changed. *)
LEMMA SameRefs ==
  ASSUME task' = task, dir' = dir, \A n \in TaskNrs, a \in Addrs : pt'[n][a].page = pt[n][a].page, NEW p
  PROVE  References(p)' = References(p)
  <1>1. TasksAt(p)' = TasksAt(p) /\ DirsAt(p)' = DirsAt(p)
    BY SameSets
  <1>2. EntriesAt(p)' = EntriesAt(p)
    BY DEF EntriesAt
  <1> QED
    BY <1>1, <1>2, RefSets, RefSetsNext DEF RefFacts

(* Such a step keeps the invariant of the pages. *)
LEMMA StructsKeep ==
  ASSUME MInv, OnlyStructs
  PROVE  MInv'
  <1>1. /\ mem_map' = mem_map /\ content' = content /\ task' = task /\ dir' = dir /\ pt' = pt
        /\ retry' = retry /\ machine' = machine
        /\ halted' \in BOOLEAN /\ tcb' \in [Pages \union {Low} -> Structs]
    BY DEF OnlyStructs
  <1>2. Types'
    BY <1>1 DEF MInv, Types
  <1>3. Counted'
    <2>1. \A p : References(p)' = References(p)
      BY <1>1, SameRefs
    <2> QED
      BY <1>1, <2>1 DEF MInv, Counted
  <1>4. Owned'
    BY <1>1 DEF MInv, Owned
  <1>5. Once'
    BY <1>1 DEF MInv, Once
  <1>6. Lives'
    <2> SUFFICES ASSUME NEW n \in TaskNrs
                 PROVE  /\ dir'[n] # Null <=> task'[n] # Null /\ Struct(n)'.at \in {"user", "waiting"}
                        /\ dir'[n] = Null => \A a \in Addrs : pt'[n][a] = Absent
                        /\ n = 1 => Struct(n)'.at \in {"user", "waiting"}
      BY ProcessesAssumption DEF Lives
    <2>1. n = 1 => task[n] # Null
      BY DEF MInv, Owned
    <2> QED
      BY <1>1, <2>1 DEF MInv, Lives, OnlyStructs
  <1>7. Writable' /\ Forgotten'
    BY <1>1 DEF MInv, Writable, Forgotten
  <1>8. Tries'
    <2>1. CASE tcb' = tcb
      BY <1>1, <2>1 DEF MInv, Tries, Struct
    <2>2. CASE retry = NoRetry
      <3>1. \A n \in TaskNrs, a \in Addrs : <<n, a>> # NoRetry
        BY Constants DEF NoRetry
      <3> QED
        BY <1>1, <2>2, <3>1 DEF Tries
    <2> QED
      BY <2>1, <2>2 DEF OnlyStructs
  <1>9. Droppable'
    BY <1>1 DEF MInv, Droppable, Harmless, Clean, Enough
  <1> QED
    BY <1>2, <1>3, <1>4, <1>5, <1>6, <1>7, <1>8, <1>9 DEF MInv

(* One is a machine that halts. *)
LEMMA HaltIs == Halt /\ MInv => OnlyStructs
  BY DEF Halt, OnlyStructs, MInv, Types, Struct

(* The flags of an entry change, and what its page holds, which is nobody   *)
(* else's.                                                                  *)
Flagged(nr, a) ==
  /\ UNCHANGED <<mem_map, task, tcb, dir, machine, halted>>
  /\ pt[nr][a].page \in Pages /\ mem_map[pt[nr][a].page] = 1
  /\ pt' \in [TaskNrs -> [Addrs -> Entries]]
  /\ \A n \in TaskNrs, b \in Addrs : pt'[n][b].page = pt[n][b].page
  /\ \A n \in TaskNrs, b \in Addrs : <<n, b>> # <<nr, a>> => pt'[n][b] = pt[n][b]
  /\ content' \in [Pages \union {Low} -> Values]
  /\ \A p \in Pages : p # pt[nr][a].page => content'[p] = content[p]
  /\ retry' \in {NoRetry, <<nr, a>>} /\ retry \in {NoRetry, <<nr, a>>}
  /\ retry' # NoRetry =>
       ~machine.ticks /\ "write" \in machine.calls /\ Struct(nr).at = "user" /\ pt'[nr][a].rw
  /\ \/ pt'[nr][a].dirty
     \/ content' = content /\ retry = NoRetry /\ pt'[nr][a].dirty = pt[nr][a].dirty

(* Such a step keeps it, too. *)
LEMMA FlaggedKeeps ==
  ASSUME MInv, NEW nr \in TaskNrs, NEW a \in Addrs, Flagged(nr, a)
  PROVE  MInv'
  <1>1. /\ mem_map' = mem_map /\ task' = task /\ tcb' = tcb /\ dir' = dir
        /\ machine' = machine /\ halted' = halted
        /\ pt' \in [TaskNrs -> [Addrs -> Entries]]
        /\ \A n \in TaskNrs, b \in Addrs : pt'[n][b].page = pt[n][b].page
        /\ content' \in [Pages \union {Low} -> Values]
        /\ \A p \in Pages : p # pt[nr][a].page => content'[p] = content[p]
    BY DEF Flagged
  <1>2. ASSUME NEW n \in TaskNrs, NEW b \in Addrs
        PROVE  (n = nr /\ b = a) \/ pt'[n][b] = pt[n][b]
    BY DEF Flagged
  <1>3. PICK p \in Pages : p = pt[nr][a].page /\ mem_map[p] = 1 /\ Sole(p)
    BY Counts DEF Flagged
  <1>4. Types'
    <2>1. retry' \in (TaskNrs \X Addrs) \union {NoRetry}
      BY DEF Flagged
    <2> QED
      BY <1>1, <2>1 DEF MInv, Types
  <1>5. Counted'
    <2>1. \A x : References(x)' = References(x)
      BY <1>1, SameRefs
    <2> QED
      BY <1>1, <2>1 DEF MInv, Counted
  <1>6. Owned'
    BY <1>1 DEF MInv, Owned
  <1>7. Once'
    BY <1>1 DEF MInv, Once
  <1>8. Lives'
    <2>1. ASSUME NEW n \in TaskNrs, dir[n] = Null, NEW b \in Addrs PROVE pt'[n][b] = Absent
      <3>1. pt[n][b] = Absent
        BY <2>1 DEF MInv, Lives
      <3>2. n # nr
        BY <1>3, <2>1, Constants DEF MInv, Lives, Absent
      <3> QED
        BY <1>2, <3>1, <3>2
    <2> QED
      BY <1>1, <2>1 DEF MInv, Lives, Struct
  <1>9. Writable'
    <2> SUFFICES ASSUME NEW n \in TaskNrs, NEW b \in Addrs, pt'[n][b].rw
                 PROVE  pt'[n][b].page \in Pages /\ mem_map'[pt'[n][b].page] = 1
      BY DEF Writable
    <2> QED
      BY <1>1, <1>2, <1>3 DEF MInv, Writable
  <1>10. Forgotten'
    BY <1>1, <1>3 DEF MInv, Forgotten
  <1>11. Tries'
    <2> SUFFICES ASSUME NEW n \in TaskNrs, NEW b \in Addrs, retry' = <<n, b>>
                 PROVE  ~machine.ticks /\ "write" \in machine.calls
                        /\ Struct(n)'.at = "user" /\ pt'[n][b].rw
      BY <1>1 DEF Tries
    <2>1. retry' # NoRetry
      BY Constants DEF NoRetry
    <2>2. n = nr /\ b = a
      BY <2>1 DEF Flagged
    <2> QED
      BY <1>1, <2>1, <2>2 DEF Struct, Flagged
  <1>12. Droppable'
    <2> SUFFICES ASSUME NEW n \in TaskNrs, NEW b \in Addrs, <<n, b>> \in Clean(pt'), <<n, b>> # retry',
                        ~Enough(machine)
                 PROVE  /\ "fork" \notin machine.calls
                        /\ mem_map'[pt'[n][b].page] = 1 /\ content'[pt'[n][b].page] = Zeroes
      BY <1>1 DEF Droppable, Harmless, Enough
    <2>1. pt'[n][b].page \in Pages /\ ~pt'[n][b].dirty
      BY DEF Clean
    <2>2. CASE n = nr /\ b = a
      <3>1. content' = content /\ retry = NoRetry /\ pt'[nr][a].dirty = pt[nr][a].dirty
        BY <2>1, <2>2 DEF Flagged
      <3>2. <<n, b>> \in Clean(pt) /\ <<n, b>> # retry
        BY <1>1, <2>1, <2>2, <3>1, Constants DEF Clean, NoRetry
      <3>3. Harmless(n, b)
        BY <3>2 DEF MInv, Droppable
      <3> QED
        BY <1>1, <3>1, <3>3 DEF Harmless
    <2>3. CASE ~(n = nr /\ b = a)
      <3>1. pt'[n][b] = pt[n][b]
        BY <1>2, <2>3
      <3>2. <<n, b>> \in Clean(pt)
        BY <2>1, <3>1 DEF Clean
      <3>3. <<n, b>> # retry
        BY <2>3, Constants DEF NoRetry, Flagged
      <3>4. Harmless(n, b)
        BY <3>2, <3>3 DEF MInv, Droppable
      <3>5. pt[n][b].page # p
        BY <1>3, <2>3 DEF Sole
      <3> QED
        BY <1>1, <1>3, <2>1, <3>1, <3>4, <3>5 DEF Harmless
    <2> QED
      BY <2>2, <2>3
  <1> QED
    BY <1>4, <1>5, <1>6, <1>7, <1>8, <1>9, <1>10, <1>11, <1>12 DEF MInv

(* An entry with another flag is an entry. *)
LEMMA EntryIs ==
  ASSUME NEW e \in Entries, NEW flag \in BOOLEAN
  PROVE  /\ [e EXCEPT !.rw = FALSE] \in Entries
         /\ e.page \in Pages \union {Low, Null}
         /\ e.page # Null => /\ [e EXCEPT !.rw = flag] \in Entries
                             /\ [e EXCEPT !.dirty = flag] \in Entries
  <1> DEFINE R == [page : Pages \union {Low}, rw : BOOLEAN, dirty : BOOLEAN]
  <1>1. CASE e = Absent
    <2> DEFINE A == [page : {Null}, rw : {FALSE}, dirty : {FALSE}]
    <2>1. e \in A /\ [e EXCEPT !.rw = FALSE] \in A
      <3>1. e \in A
        BY <1>1 DEF Absent
      <3> QED
        BY <3>1
    <2>2. [e EXCEPT !.rw = FALSE] = Absent
      BY <2>1 DEF Absent
    <2> QED
      BY <1>1, <2>2 DEF Entries, Absent
  <1>2. CASE e \in R
    <2>1. [e EXCEPT !.rw = FALSE] \in R /\ [e EXCEPT !.rw = flag] \in R
          /\ [e EXCEPT !.dirty = flag] \in R
      BY <1>2
    <2>2. e.page \in Pages \union {Low}
      BY <1>2
    <2> QED
      BY <2>1, <2>2 DEF Entries
  <1> QED
    BY <1>1, <1>2 DEF Entries

(* An entry that is made writable, and a write, are such steps. *)
LEMMA GrantedIs ==
  ASSUME MInv, NEW nr \in TaskNrs, NEW a \in Addrs, Granted(nr, a)
  PROVE  Flagged(nr, a)
  <1>1. pt' = [pt EXCEPT ![nr][a].rw = TRUE] /\ pt \in [TaskNrs -> [Addrs -> Entries]]
    BY DEF Granted, MInv, Types
  <1>2. [pt[nr][a] EXCEPT !.rw = TRUE] \in Entries
    <2>1. pt[nr][a] \in Entries /\ pt[nr][a].page # Null /\ TRUE \in BOOLEAN
      BY <1>1, Constants DEF Granted
    <2> QED
      BY <2>1, EntryIs
  <1>3. pt' \in [TaskNrs -> [Addrs -> Entries]]
    BY <1>1, <1>2
  <1>4. \A n \in TaskNrs, b \in Addrs : <<n, b>> # <<nr, a>> => pt'[n][b] = pt[n][b]
    BY <1>1
  <1>5. pt'[nr][a] = [pt[nr][a] EXCEPT !.rw = TRUE]
    BY <1>1
  <1>6. pt'[nr][a].page = pt[nr][a].page /\ pt'[nr][a].dirty = pt[nr][a].dirty /\ pt'[nr][a].rw
    BY <1>1, <1>5 DEF Entries, Absent
  <1>7. \A n \in TaskNrs, b \in Addrs : pt'[n][b].page = pt[n][b].page
    BY <1>4, <1>6
  <1>8. /\ retry' \in {NoRetry, <<nr, a>>} /\ retry = NoRetry /\ (retry' # NoRetry => ~machine.ticks)
        /\ "write" \in machine.calls /\ Struct(nr).at = "user"
    BY DEF Granted, SecondTry
  <1> QED
    BY <1>3, <1>4, <1>6, <1>7, <1>8 DEF Flagged, Granted, MInv, Types

(* A write changes the page of its entry, which is the task's own. *)
LEMMA WriteIs ==
  ASSUME MInv, NEW nr \in TaskNrs, NEW a \in Addrs, Write(nr, a)
  PROVE  Flagged(nr, a)
  <1>1. pt' = [pt EXCEPT ![nr][a].dirty = TRUE] /\ pt \in [TaskNrs -> [Addrs -> Entries]]
    BY DEF Write, MInv, Types
  <1>2. pt[nr][a].page \in Pages /\ mem_map[pt[nr][a].page] = 1
    BY DEF Write, MInv, Writable
  <1>3. [pt[nr][a] EXCEPT !.dirty = TRUE] \in Entries
    BY <1>1, <1>2, EntryIs, Constants
  <1>4. pt' \in [TaskNrs -> [Addrs -> Entries]]
    BY <1>1, <1>3
  <1>5. \A n \in TaskNrs, b \in Addrs : <<n, b>> # <<nr, a>> => pt'[n][b] = pt[n][b]
    BY <1>1
  <1>6. pt'[nr][a].page = pt[nr][a].page /\ pt'[nr][a].dirty
    BY <1>1 DEF Entries, Absent
  <1>7. \A n \in TaskNrs, b \in Addrs : pt'[n][b].page = pt[n][b].page
    BY <1>5, <1>6
  <1>8. content' = [content EXCEPT ![pt[nr][a].page] = nr] /\ nr \in Values
    BY DEF Write, Values
  <1>9. /\ content' \in [Pages \union {Low} -> Values]
        /\ \A p \in Pages : p # pt[nr][a].page => content'[p] = content[p]
    BY <1>8 DEF MInv, Types
  <1>10. retry' = NoRetry /\ retry \in {NoRetry, <<nr, a>>}
    BY DEF Write
  <1> QED
    BY <1>2, <1>4, <1>5, <1>6, <1>7, <1>9, <1>10 DEF Flagged, Write

-----------------------------------------------------------------------------
(* do_exit gives back the pages of the entries and that of the page table. *)
Gives(nr) ==
  /\ nr # 1 /\ retry = NoRetry /\ task[nr] # Null /\ Struct(nr).at = "user"
  /\ mem_map' = Freed(Held(nr) \union {dir[nr]})
  /\ content' = Kept(mem_map', content)
  /\ dir' = [dir EXCEPT ![nr] = Null]
  /\ pt' = [pt EXCEPT ![nr] = [a \in Addrs |-> Absent]]
  /\ tcb' = [tcb EXCEPT ![task[nr]].at = "exiting"]
  /\ UNCHANGED <<task, retry, machine, halted>>

(* None of them is free already: free_page does not panic. *)
LEMMA ExitIs ==
  ASSUME MInv, NEW nr \in TaskNrs, Exit(nr)
  PROVE  Gives(nr)
  <1>1. \A p \in Held(nr) : mem_map[p] # 0
    <2> SUFFICES ASSUME NEW a \in Addrs, pt[nr][a].page \in Pages PROVE mem_map[pt[nr][a].page] # 0
      BY DEF Held
    <2>1. ~Nobody(pt[nr][a].page)
      BY DEF Nobody
    <2> QED
      BY <2>1, Counts
  <1> QED
    BY <1>1 DEF Exit, Calls, User, Present, FreePanics, Gives

(* What the pages of a task that exits were used for, and are after. *)
LEMMA GivesBack ==
  ASSUME MInv, NEW nr \in TaskNrs, Gives(nr)
  PROVE  /\ dir[nr] \in Pages /\ mem_map[dir[nr]] = 1 /\ Sole(dir[nr])
         /\ \A p \in Pages : mem_map'[p] =
              IF p = dir[nr] \/ \E a \in Addrs : pt[nr][a].page = p THEN mem_map[p] - 1 ELSE mem_map[p]
         /\ \A n \in TaskNrs : dir'[n] = IF n = nr THEN Null ELSE dir[n]
         /\ \A n \in TaskNrs, a \in Addrs : pt'[n][a] = IF n = nr THEN Absent ELSE pt[n][a]
         /\ task' = task /\ retry' = retry /\ machine' = machine /\ halted' = halted
  <1>1. dir[nr] # Null
    BY DEF Gives, MInv, Lives
  <1>2. dir[nr] \in Pages /\ mem_map[dir[nr]] = 1 /\ Sole(dir[nr])
    BY <1>1, OwnPages
  <1>3. \A p \in Pages : p \in Held(nr) <=> \E a \in Addrs : pt[nr][a].page = p
    BY DEF Held
  <1>4. \A p \in Pages : mem_map'[p] =
          IF p \in Held(nr) \union {dir[nr]} THEN mem_map[p] - 1 ELSE mem_map[p]
    BY DEF Gives, Freed
  <1>5. \A p \in Pages : mem_map'[p] =
          IF p = dir[nr] \/ \E a \in Addrs : pt[nr][a].page = p THEN mem_map[p] - 1 ELSE mem_map[p]
    BY <1>3, <1>4
  <1>6. /\ pt \in [TaskNrs -> [Addrs -> Entries]] /\ dir \in [TaskNrs -> Pages \union {Null}]
        /\ dir' = [dir EXCEPT ![nr] = Null] /\ pt' = [pt EXCEPT ![nr] = [a \in Addrs |-> Absent]]
    BY DEF Gives, MInv, Types
  <1>7. \A n \in TaskNrs : dir'[n] = IF n = nr THEN Null ELSE dir[n]
    BY <1>6
  <1>8. \A n \in TaskNrs, a \in Addrs : pt'[n][a] = IF n = nr THEN Absent ELSE pt[n][a]
    BY <1>6
  <1>9. task' = task /\ retry' = retry /\ machine' = machine /\ halted' = halted
    BY DEF Gives
  <1> QED
    BY <1>2, <1>5, <1>7, <1>8, <1>9

(* The counts are right after an exit. *)
LEMMA ExitCounts ==
  ASSUME MInv, NEW nr \in TaskNrs, Gives(nr)
  PROVE  Counted'
  <1>1. /\ dir[nr] \in Pages /\ mem_map[dir[nr]] = 1 /\ Sole(dir[nr])
        /\ task' = task /\ machine' = machine
        /\ \A n \in TaskNrs : dir'[n] = IF n = nr THEN Null ELSE dir[n]
        /\ \A n \in TaskNrs, a \in Addrs : pt'[n][a] = IF n = nr THEN Absent ELSE pt[n][a]
    BY GivesBack
  <1> SUFFICES ASSUME NEW p \in Pages
               PROVE  IF p <= machine.pages THEN mem_map'[p] = References(p)'
                      ELSE mem_map'[p] = USED /\ References(p)' = 0
    BY <1>1 DEF Counted
  <1>2. mem_map'[p] =
          IF p = dir[nr] \/ \E a \in Addrs : pt[nr][a].page = p THEN mem_map[p] - 1 ELSE mem_map[p]
    BY GivesBack
  <1>3. p # Null /\ p # Absent.page
    BY Constants DEF Absent
  <1>4. IF p <= machine.pages THEN mem_map[p] = References(p)
        ELSE mem_map[p] = USED /\ References(p) = 0
    BY DEF MInv, Counted
  <1>5. Cardinality(TasksAt(p)') = Cardinality(TasksAt(p))
    <2>1. TasksAt(p)' = TasksAt(p)
      BY <1>1, SameSets
    <2> QED
      BY <2>1
  <1>6. Cardinality(DirsAt(p)') + (IF p = dir[nr] THEN 1 ELSE 0) = Cardinality(DirsAt(p))
    <2>1. \A n \in TaskNrs : n # nr => (n \in DirsAt(p) <=> n \in DirsAt(p)')
      BY <1>1 DEF DirsAt
    <2>2. nr \in DirsAt(p) <=> p = dir[nr]
      BY DEF DirsAt
    <2>3. nr \notin DirsAt(p)'
      BY <1>1, <1>3 DEF DirsAt
    <2>4. DirsAt(p) \in SUBSET TaskNrs /\ DirsAt(p)' \in SUBSET TaskNrs /\ IsFiniteSet(TaskNrs)
      BY Constants DEF DirsAt
    <2>5. /\ Cardinality(DirsAt(p)) \in Nat /\ Cardinality(DirsAt(p)') \in Nat
          /\ Cardinality(DirsAt(p)') + (IF nr \in DirsAt(p) THEN 1 ELSE 0)
               = Cardinality(DirsAt(p)) + (IF nr \in DirsAt(p)' THEN 1 ELSE 0)
      BY <2>1, <2>4, OneMember
    <2> QED
      BY <2>2, <2>3, <2>5
  <1>7. ASSUME NEW n \in TaskNrs, NEW b \in Addrs, n # nr
        PROVE  <<n, b>> \in EntriesAt(p) <=> <<n, b>> \in EntriesAt(p)'
    BY <1>1, <1>7 DEF EntriesAt
  <1>8. \A b \in Addrs : /\ <<nr, b>> \notin EntriesAt(p)'
                         /\ <<nr, b>> \in EntriesAt(p) <=> pt[nr][b].page = p
    BY <1>1, <1>3 DEF EntriesAt
  <1>9. /\ EntriesAt(p) \in SUBSET (TaskNrs \X Addrs) /\ EntriesAt(p)' \in SUBSET (TaskNrs \X Addrs)
        /\ IsFiniteSet(TaskNrs \X Addrs)
    BY Constants DEF EntriesAt
  <1>10. ASSUME NEW a \in Addrs, pt[nr][a].page = p
         PROVE  Cardinality(EntriesAt(p)') + 1 = Cardinality(EntriesAt(p))
    <2>1. \A b \in Addrs : pt[nr][b].page = p => b = a
      BY <1>10 DEF MInv, Once
    <2>2. \A e \in TaskNrs \X Addrs : e # <<nr, a>> => (e \in EntriesAt(p) <=> e \in EntriesAt(p)')
      BY <1>7, <1>8, <2>1
    <2>3. <<nr, a>> \in TaskNrs \X Addrs
      OBVIOUS
    <2>4. /\ Cardinality(EntriesAt(p)) \in Nat /\ Cardinality(EntriesAt(p)') \in Nat
          /\ Cardinality(EntriesAt(p)') + (IF <<nr, a>> \in EntriesAt(p) THEN 1 ELSE 0)
               = Cardinality(EntriesAt(p)) + (IF <<nr, a>> \in EntriesAt(p)' THEN 1 ELSE 0)
      BY <1>9, <2>2, <2>3, OneMember
    <2> QED
      BY <1>8, <1>10, <2>4
  <1>11. ASSUME ~\E a \in Addrs : pt[nr][a].page = p
         PROVE  Cardinality(EntriesAt(p)') = Cardinality(EntriesAt(p))
    <2>1. \A e \in TaskNrs \X Addrs : e \in EntriesAt(p) <=> e \in EntriesAt(p)'
      BY <1>7, <1>8, <1>11
    <2>2. EntriesAt(p)' = EntriesAt(p)
      BY <1>9, <2>1
    <2> QED
      BY <2>2
  <1>12. References(p)' =
           IF p = dir[nr] \/ \E a \in Addrs : pt[nr][a].page = p THEN References(p) - 1 ELSE References(p)
    <2>1. CASE \E a \in Addrs : pt[nr][a].page = p
      <3>1. p # dir[nr]
        BY <1>1, <2>1 DEF Sole
      <3>2. Cardinality(EntriesAt(p)') + 1 = Cardinality(EntriesAt(p))
        BY <1>10, <2>1
      <3> QED
        BY <1>5, <1>6, <2>1, <3>1, <3>2, RefSets, RefSetsNext DEF RefFacts
    <2>2. CASE ~\E a \in Addrs : pt[nr][a].page = p
      <3>1. Cardinality(EntriesAt(p)') = Cardinality(EntriesAt(p))
        BY <1>11, <2>2
      <3> QED
        BY <1>5, <1>6, <2>2, <3>1, RefSets, RefSetsNext DEF RefFacts
    <2> QED
      BY <2>1, <2>2
  <1>13. p = dir[nr] \/ (\E a \in Addrs : pt[nr][a].page = p) => p <= machine.pages
    BY Counts DEF Nobody
  <1> QED
    BY <1>2, <1>4, <1>12, <1>13

(* And the rest. *)
LEMMA ExitKeeps ==
  ASSUME MInv, NEW nr \in TaskNrs, Gives(nr)
  PROVE  MInv'
  <1>1. /\ dir[nr] \in Pages /\ mem_map[dir[nr]] = 1 /\ Sole(dir[nr])
        /\ task' = task /\ machine' = machine /\ retry' = retry /\ halted' = halted
        /\ \A n \in TaskNrs : dir'[n] = IF n = nr THEN Null ELSE dir[n]
        /\ \A n \in TaskNrs, a \in Addrs : pt'[n][a] = IF n = nr THEN Absent ELSE pt[n][a]
        /\ nr # 1 /\ retry = NoRetry /\ task[nr] # Null
    BY GivesBack DEF Gives
  <1>2. \A p \in Pages : mem_map'[p] =
          IF p = dir[nr] \/ \E a \in Addrs : pt[nr][a].page = p THEN mem_map[p] - 1 ELSE mem_map[p]
    BY GivesBack
  <1>3. Counted'
    BY ExitCounts
  <1>4. /\ content' \in [Pages \union {Low} -> Values]
        /\ \A p \in Pages : content'[p] = IF mem_map'[p] = 0 THEN Zeroes ELSE content[p]
    <2> DEFINE map == mem_map'
    <2>1. content \in [Pages \union {Low} -> Values] /\ content' = Kept(map, content)
      BY DEF MInv, Types, Gives
    <2> HIDE DEF map
    <2>2. /\ Kept(map, content) \in [Pages \union {Low} -> Values]
          /\ \A p \in Pages : Kept(map, content)[p] = IF map[p] = 0 THEN Zeroes ELSE content[p]
      BY <2>1, KeptIs
    <2> QED
      BY <2>1, <2>2 DEF map
  <1>5. \A n \in TaskNrs : task[n] # Null =>
          /\ task[n] \in Pages /\ (n # nr => task[n] # task[nr]) /\ mem_map[task[n]] = 1
    BY OwnPages DEF Sole
  <1>6. /\ tcb' \in [Pages \union {Low} -> Structs] /\ tcb'[task[nr]].at = "exiting"
        /\ \A x \in Pages : x # task[nr] => tcb'[x] = tcb[x]
    <2>1. /\ tcb' = [tcb EXCEPT ![task[nr]].at = "exiting"] /\ tcb \in [Pages \union {Low} -> Structs]
          /\ task[nr] \in Pages
      BY <1>1, <1>5 DEF Gives, MInv, Types
    <2>2. [tcb[task[nr]] EXCEPT !.at = "exiting"] \in Structs
          /\ [tcb[task[nr]] EXCEPT !.at = "exiting"].at = "exiting"
      BY <2>1 DEF Structs
    <2> QED
      BY <2>1, <2>2
  <1>7. ASSUME NEW p \in Pages, mem_map[p] = 1, p # dir[nr], \A a \in Addrs : pt[nr][a].page # p
        PROVE  mem_map'[p] = 1
    BY <1>2, <1>7
  <1>8. Types'
    <2>1. mem_map' \in [Pages -> Nat]
      <3>1. ASSUME NEW p \in Pages PROVE mem_map'[p] \in Nat
        <4>1. mem_map[p] \in Nat
          BY DEF MInv, Types
        <4>2. p = dir[nr] \/ (\E a \in Addrs : pt[nr][a].page = p) => mem_map[p] >= 1
          BY Counts DEF Nobody
        <4> QED
          BY <1>2, <4>1, <4>2
      <3>2. DOMAIN mem_map' = Pages /\ mem_map' = [p \in Pages |-> mem_map'[p]]
        BY DEF Gives, Freed
      <3> QED
        BY <3>1, <3>2
    <2>2. dir' \in [TaskNrs -> Pages \union {Null}]
      BY DEF Gives, MInv, Types
    <2>3. pt' \in [TaskNrs -> [Addrs -> Entries]]
      <3>1. [a \in Addrs |-> Absent] \in [Addrs -> Entries]
        BY DEF Entries
      <3> QED
        BY <3>1 DEF Gives, MInv, Types
    <2> QED
      BY <1>1, <1>4, <1>6, <2>1, <2>2, <2>3 DEF MInv, Types
  <1>9. Owned'
    <2>1. ASSUME NEW n \in TaskNrs, task[n] # Null
          PROVE  task[n] \in Pages /\ mem_map'[task[n]] = 1 /\ n < machine.tasks
      <3>1. task[n] \in Pages /\ mem_map[task[n]] = 1 /\ n < machine.tasks /\ Sole(task[n])
        BY <2>1, OwnPages DEF MInv, Owned
      <3>2. task[n] # dir[nr] /\ \A a \in Addrs : pt[nr][a].page # task[n]
        BY <3>1 DEF Sole
      <3> QED
        BY <1>7, <3>1, <3>2
    <2>2. ASSUME NEW n \in TaskNrs, dir'[n] # Null PROVE mem_map'[dir'[n]] = 1
      <3>1. n # nr /\ dir'[n] = dir[n]
        BY <1>1, <2>2
      <3>2. dir[n] \in Pages /\ mem_map[dir[n]] = 1 /\ Sole(dir[n])
        BY <2>2, <3>1, OwnPages
      <3>3. dir[n] # dir[nr] /\ \A a \in Addrs : pt[nr][a].page # dir[n]
        BY <3>1, <3>2 DEF Sole
      <3> QED
        BY <1>7, <3>1, <3>2, <3>3
    <2> QED
      BY <1>1, <2>1, <2>2 DEF MInv, Owned
  <1>10. Once'
    <2>1. Absent.page \notin Pages
      BY Constants DEF Absent
    <2> QED
      BY <1>1, <2>1 DEF MInv, Once
  <1>11. Lives'
    <2> SUFFICES ASSUME NEW n \in TaskNrs
                 PROVE  /\ dir'[n] # Null <=> task'[n] # Null /\ Struct(n)'.at \in {"user", "waiting"}
                        /\ dir'[n] = Null => \A a \in Addrs : pt'[n][a] = Absent
                        /\ n = 1 => Struct(n)'.at \in {"user", "waiting"}
      BY ProcessesAssumption DEF Lives
    <2>1. CASE n = nr
      BY <1>1, <1>6, <2>1 DEF Struct
    <2>2. CASE n # nr
      <3>1. n = 1 => task[n] # Null
        BY DEF MInv, Owned
      <3>2. task[n] # Null => Struct(n)' = Struct(n)
        BY <1>1, <1>5, <1>6, <2>2 DEF Struct
      <3> QED
        BY <1>1, <2>2, <3>1, <3>2 DEF MInv, Lives
    <2> QED
      BY <2>1, <2>2
  <1>12. ASSUME NEW n \in TaskNrs, NEW a \in Addrs, pt'[n][a].page \in Pages, mem_map[pt[n][a].page] = 1
         PROVE  pt'[n][a] = pt[n][a] /\ mem_map'[pt[n][a].page] = 1
    <2>1. n # nr /\ pt'[n][a] = pt[n][a]
      BY <1>1, <1>12, Constants DEF Absent
    <2>2. Sole(pt[n][a].page)
      BY <1>12, <2>1, Counts
    <2>3. pt[n][a].page # dir[nr] /\ \A b \in Addrs : pt[nr][b].page # pt[n][a].page
      BY <2>1, <2>2 DEF Sole
    <2> QED
      BY <1>7, <1>12, <2>1, <2>3
  <1>13. Writable'
    <2> SUFFICES ASSUME NEW n \in TaskNrs, NEW a \in Addrs, pt'[n][a].rw
                 PROVE  pt'[n][a].page \in Pages /\ mem_map'[pt'[n][a].page] = 1
      BY DEF Writable
    <2>1. pt'[n][a] = pt[n][a]
      BY <1>1 DEF Absent
    <2> QED
      BY <1>12, <2>1 DEF MInv, Writable
  <1>14. Forgotten'
    <2> SUFFICES ASSUME NEW p \in Pages, content'[p] # Zeroes
                 PROVE  \E n \in TaskNrs, b \in Addrs : pt'[n][b].page = p
      BY DEF Forgotten
    <2>1. mem_map'[p] # 0 /\ content[p] # Zeroes
      BY <1>4
    <2>2. PICK n \in TaskNrs, b \in Addrs : pt[n][b].page = p
      BY <2>1 DEF MInv, Forgotten
    <2>3. p <= machine.pages
      BY <2>2, Counts DEF Nobody
    <2>4. ~Nobody(p)'
      BY <1>1, <1>3, <2>1, <2>3, RefSetsNext DEF Counted, RefFacts
    <2>5. \A m \in TaskNrs : task[m] # p /\ dir[m] # p
      BY <2>2, OwnPages, Constants DEF Sole
    <2>6. \A m \in TaskNrs : task'[m] # p /\ dir'[m] # p
      BY <1>1, <2>5, Constants
    <2> QED
      BY <2>4, <2>6 DEF Nobody
  <1>15. Tries'
    <2>1. \A n \in TaskNrs, a \in Addrs : <<n, a>> # NoRetry
      BY Constants DEF NoRetry
    <2> QED
      BY <1>1, <2>1 DEF Tries
  <1>16. Droppable'
    <2> SUFFICES ASSUME NEW n \in TaskNrs, NEW b \in Addrs, <<n, b>> \in Clean(pt'), ~Enough(machine)
                 PROVE  /\ "fork" \notin machine.calls
                        /\ mem_map'[pt'[n][b].page] = 1 /\ content'[pt'[n][b].page] = Zeroes
      BY <1>1 DEF Droppable, Harmless, Enough
    <2>1. pt'[n][b].page \in Pages /\ ~pt'[n][b].dirty
      BY DEF Clean
    <2>2. pt'[n][b] = pt[n][b]
      BY <1>1, <2>1, Constants DEF Absent
    <2>3. <<n, b>> \in Clean(pt) /\ <<n, b>> # retry
      BY <1>1, <2>1, <2>2, Constants DEF Clean, NoRetry
    <2>4. Harmless(n, b)
      BY <2>3 DEF MInv, Droppable
    <2>5. mem_map'[pt[n][b].page] = 1
      BY <1>12, <2>1, <2>4 DEF Harmless
    <2> QED
      BY <1>4, <2>1, <2>2, <2>4, <2>5 DEF Harmless
  <1> QED
    BY <1>3, <1>8, <1>9, <1>10, <1>11, <1>13, <1>14, <1>15, <1>16 DEF MInv

-----------------------------------------------------------------------------
(* waitpid takes the zombie z of task nr away. *)
Buries(nr, z) ==
  /\ retry = NoRetry /\ task[nr] # Null /\ Struct(nr).at \in {"user", "waiting"}
  /\ task[z] # Null /\ Struct(z).at = "zombie" /\ FirstZombie(task[nr], task[z])
  /\ tcb' = [Released(task[z]) EXCEPT ![task[nr]].at = "user", ![task[nr]].sigchld = FALSE]
  /\ task' = [task EXCEPT ![z] = Null]
  /\ mem_map' = Freed({task[z]})
  /\ UNCHANGED <<content, dir, pt, retry, machine, halted>>

(* The page of its struct is not free: free_page does not panic. *)
LEMMA ReapIs ==
  ASSUME MInv, NEW nr \in TaskNrs, Reap(nr)
  PROVE  \E z \in TaskNrs : Buries(nr, z)
  <1>1. PICK z \in TaskNrs :
          /\ Present(z) /\ FirstZombie(task[nr], task[z])
          /\ \/ FreePanics({task[z]}) /\ Halt
             \/ /\ ~FreePanics({task[z]})
                /\ tcb' = [Released(task[z]) EXCEPT ![task[nr]].at = "user", ![task[nr]].sigchld = FALSE]
                /\ task' = [task EXCEPT ![z] = Null]
                /\ mem_map' = Freed({task[z]})
                /\ UNCHANGED <<content, dir, pt, retry, machine, halted>>
    BY DEF Reap
  <1>2. ~FreePanics({task[z]})
    BY <1>1, OwnPages DEF Present, FreePanics
  <1>3. Struct(z).at = "zombie"
    BY <1>1 DEF FirstZombie, IsZombie, Struct
  <1>4. retry = NoRetry /\ task[nr] # Null /\ Struct(nr).at \in {"user", "waiting"}
    BY DEF Reap, Waits, Calls, User, Present
  <1>5. Buries(nr, z)
    BY <1>1, <1>2, <1>3, <1>4 DEF Buries, Present
  <1> QED
    BY <1>5

(* The structs with p out of the lists. *)
LEMMA ReleasedIs ==
  ASSUME Types, NEW p \in Pages
  PROVE  /\ Released(p) \in [Pages \union {Low} -> Structs]
         /\ Released(p)[p] = Blank
         /\ \A x \in Pages \union {Low} : x # p =>
              /\ Released(p)[x].at = tcb[x].at /\ Released(p)[x].sigchld = tcb[x].sigchld
              /\ Released(p)[x].p_pptr = tcb[x].p_pptr
              /\ Released(p)[x].p_cptr = IF x = tcb[p].p_pptr /\ tcb[p].p_ysptr = Null
                                         THEN tcb[p].p_osptr ELSE tcb[x].p_cptr
              /\ Released(p)[x].p_ysptr = IF x = tcb[p].p_osptr THEN tcb[p].p_ysptr ELSE tcb[x].p_ysptr
              /\ Released(p)[x].p_osptr = IF x = tcb[p].p_ysptr THEN tcb[p].p_osptr ELSE tcb[x].p_osptr
  <1> DEFINE z == tcb[p]
             Y(x) == IF x = z.p_osptr THEN z.p_ysptr ELSE tcb[x].p_ysptr
             O(x) == IF x = z.p_ysptr THEN z.p_osptr ELSE tcb[x].p_osptr
             C(x) == IF x = z.p_pptr /\ z.p_ysptr = Null THEN z.p_osptr ELSE tcb[x].p_cptr
             E(x) == [tcb[x] EXCEPT !.p_ysptr = Y(x), !.p_osptr = O(x), !.p_cptr = C(x)]
  <1>1. tcb \in [Pages \union {Low} -> Structs]
    BY DEF Types
  <1>2. Released(p) = [x \in Pages \union {Low} |-> IF x = p THEN Blank ELSE E(x)]
    BY <1>1 DEF Released
  <1>3. Blank \in Structs
    BY DEF Blank, Structs, Ptr
  <1>4. ASSUME NEW x \in Pages \union {Low}
        PROVE  /\ E(x) \in Structs /\ E(x).at = tcb[x].at /\ E(x).sigchld = tcb[x].sigchld
               /\ E(x).p_pptr = tcb[x].p_pptr /\ E(x).p_cptr = C(x)
               /\ E(x).p_ysptr = Y(x) /\ E(x).p_osptr = O(x)
    <2>1. tcb[x] \in Structs /\ z \in Structs
      BY <1>1
    <2>2. Y(x) \in Ptr /\ O(x) \in Ptr /\ C(x) \in Ptr
      BY <2>1 DEF Structs
    <2> HIDE DEF Y, O, C
    <2> QED
      BY <2>1, <2>2 DEF Structs
  <1> HIDE DEF E
  <1> QED
    BY <1>2, <1>3, <1>4

(* The structs after a burial. *)
Unlinked(p, q, x) ==
  /\ tcb'[x].at = IF x = q THEN "user" ELSE tcb[x].at
  /\ tcb'[x].sigchld = IF x = q THEN FALSE ELSE tcb[x].sigchld
  /\ tcb'[x].p_pptr = tcb[x].p_pptr
  /\ tcb'[x].p_cptr = IF x = tcb[p].p_pptr /\ tcb[p].p_ysptr = Null
                      THEN tcb[p].p_osptr ELSE tcb[x].p_cptr
  /\ tcb'[x].p_ysptr = IF x = tcb[p].p_osptr THEN tcb[p].p_ysptr ELSE tcb[x].p_ysptr
  /\ tcb'[x].p_osptr = IF x = tcb[p].p_ysptr THEN tcb[p].p_osptr ELSE tcb[x].p_osptr
(* What waitpid makes of the structs, field by field. *)
LEMMA BuriesTcb ==
  ASSUME MInv, NEW nr \in TaskNrs, NEW z \in TaskNrs, Buries(nr, z)
  PROVE  /\ tcb' \in [Pages \union {Low} -> Structs] /\ tcb'[task[z]] = Blank
         /\ task[nr] \in Pages /\ task[z] \in Pages /\ task[nr] # task[z]
         /\ \A x \in Pages \union {Low} : x # task[z] => Unlinked(task[z], task[nr], x)
  <1>1. task[nr] \in Pages /\ task[z] \in Pages /\ task[nr] # task[z]
    BY OwnPages DEF Buries, Struct
  <1>2. PICK p \in Pages, q \in Pages : p = task[z] /\ q = task[nr] /\ p # q
    BY <1>1
  <1> DEFINE R == Released(p)
  <1>3. tcb' = [[R EXCEPT ![q] = [R[q] EXCEPT !.at = "user"]]
                  EXCEPT ![q] = [[R EXCEPT ![q] = [R[q] EXCEPT !.at = "user"]][q] EXCEPT !.sigchld = FALSE]]
    BY <1>2 DEF Buries
  <1>4. Types
    BY DEF MInv
  <1>5. R \in [Pages \union {Low} -> Structs] /\ R[p] = Blank
    BY <1>4, ReleasedIs
  <1> DEFINE s == [[R[q] EXCEPT !.at = "user"] EXCEPT !.sigchld = FALSE]
  <1>6. tcb' = [R EXCEPT ![q] = s]
    <2> HIDE DEF R
    <2> QED
      BY <1>3, <1>5
  <1>7. /\ s \in Structs /\ s.at = "user" /\ s.sigchld = FALSE /\ s.p_pptr = R[q].p_pptr
        /\ s.p_cptr = R[q].p_cptr /\ s.p_ysptr = R[q].p_ysptr /\ s.p_osptr = R[q].p_osptr
    <2>1. R[q] \in Structs
      BY <1>5
    <2> HIDE DEF R
    <2> QED
      BY <2>1 DEF Structs
  <1>8. tcb' \in [Pages \union {Low} -> Structs] /\ tcb'[q] = s /\ tcb'[p] = Blank
        /\ \A x \in Pages \union {Low} : x # q => tcb'[x] = R[x]
    <2> HIDE DEF R, s
    <2> QED
      BY <1>2, <1>5, <1>6, <1>7
  <1>9. \A x \in Pages \union {Low} : x # p =>
              /\ R[x].at = tcb[x].at /\ R[x].sigchld = tcb[x].sigchld
              /\ R[x].p_pptr = tcb[x].p_pptr
              /\ R[x].p_cptr = IF x = tcb[p].p_pptr /\ tcb[p].p_ysptr = Null
                                         THEN tcb[p].p_osptr ELSE tcb[x].p_cptr
              /\ R[x].p_ysptr = IF x = tcb[p].p_osptr THEN tcb[p].p_ysptr ELSE tcb[x].p_ysptr
              /\ R[x].p_osptr = IF x = tcb[p].p_ysptr THEN tcb[p].p_osptr ELSE tcb[x].p_osptr
    BY <1>4, ReleasedIs
  <1>10. ASSUME NEW x \in Pages \union {Low}, x # p
         PROVE  /\ tcb'[x].at = IF x = q THEN "user" ELSE tcb[x].at
                /\ tcb'[x].sigchld = IF x = q THEN FALSE ELSE tcb[x].sigchld
                /\ tcb'[x].p_pptr = R[x].p_pptr /\ tcb'[x].p_cptr = R[x].p_cptr
                /\ tcb'[x].p_ysptr = R[x].p_ysptr /\ tcb'[x].p_osptr = R[x].p_osptr
    <2> HIDE DEF R, s
    <2> QED
      BY <1>7, <1>8, <1>9, <1>10
  <1>11. ASSUME NEW x \in Pages \union {Low}, x # p PROVE Unlinked(p, q, x)
    <2> HIDE DEF R, s
    <2> QED
      <3>1. /\ R[x].p_pptr = tcb[x].p_pptr
            /\ R[x].p_cptr = IF x = tcb[p].p_pptr /\ tcb[p].p_ysptr = Null
                             THEN tcb[p].p_osptr ELSE tcb[x].p_cptr
            /\ R[x].p_ysptr = IF x = tcb[p].p_osptr THEN tcb[p].p_ysptr ELSE tcb[x].p_ysptr
            /\ R[x].p_osptr = IF x = tcb[p].p_ysptr THEN tcb[p].p_osptr ELSE tcb[x].p_osptr
        BY <1>9, <1>11, Zenon
      <3>2. /\ tcb'[x].at = IF x = q THEN "user" ELSE tcb[x].at
            /\ tcb'[x].sigchld = IF x = q THEN FALSE ELSE tcb[x].sigchld
            /\ tcb'[x].p_pptr = R[x].p_pptr /\ tcb'[x].p_cptr = R[x].p_cptr
            /\ tcb'[x].p_ysptr = R[x].p_ysptr /\ tcb'[x].p_osptr = R[x].p_osptr
        BY <1>10, <1>11, Zenon
      <3> QED
        BY <3>1, <3>2, Zenon DEF Unlinked
  <1> HIDE DEF R, s
  <1> QED
    BY <1>2, <1>8, <1>11

(* The invariant of the pages after a burial. *)
LEMMA BuriesKeeps ==
  ASSUME MInv, NEW nr \in TaskNrs, NEW z \in TaskNrs, Buries(nr, z)
  PROVE  MInv'
  <1>1. /\ tcb' \in [Pages \union {Low} -> Structs]
        /\ task[nr] \in Pages /\ task[z] \in Pages /\ task[nr] # task[z]
        /\ \A x \in Pages \union {Low} : x # task[z] =>
             tcb'[x].at = IF x = task[nr] THEN "user" ELSE tcb[x].at
    <2>1. \A x \in Pages \union {Low} : x # task[z] => Unlinked(task[z], task[nr], x)
      BY BuriesTcb
    <2>2. \A x \in Pages \union {Low} : x # task[z] =>
            tcb'[x].at = IF x = task[nr] THEN "user" ELSE tcb[x].at
      BY <2>1, Zenon DEF Unlinked
    <2> QED
      BY <2>2, BuriesTcb
  <1>2. /\ content' = content /\ dir' = dir /\ pt' = pt /\ retry' = retry /\ machine' = machine
        /\ halted' = halted /\ retry = NoRetry /\ Struct(z).at = "zombie"
        /\ task[z] # Null /\ Struct(nr).at \in {"user", "waiting"}
    BY DEF Buries
  <1>3. PICK p \in Pages : p = task[z] /\ mem_map[p] = 1 /\ Sole(p)
    BY <1>1, <1>2, OwnPages
  <1>4. z # 1 /\ dir[z] = Null
    BY <1>2 DEF MInv, Lives
  <1>5. /\ \A n \in 0 .. NrTasks - 1 : task'[n] = IF n = z THEN Null ELSE task[n]
        /\ task' \in [0 .. NrTasks - 1 -> Ptr]
    BY DEF Buries, MInv, Types, Ptr
  <1>6. \A n \in TaskNrs : task'[n] = IF n = z THEN Null ELSE task[n]
    BY <1>5, Constants
  <1>7. \A x \in Pages : mem_map'[x] = IF x = p THEN 0 ELSE mem_map[x]
    BY <1>3 DEF Buries, Freed
  <1>8. p # Null /\ p <= machine.pages
    BY <1>3, Counts, Constants
  <1>9. Types'
    <2>1. mem_map' \in [Pages -> Nat]
      BY <1>3, <1>7 DEF Buries, Freed, MInv, Types
    <2> QED
      BY <1>1, <1>2, <1>5, <2>1 DEF MInv, Types
  <1>10. Counted'
    <2> SUFFICES ASSUME NEW x \in Pages
                 PROVE  IF x <= machine.pages THEN mem_map'[x] = References(x)'
                        ELSE mem_map'[x] = USED /\ References(x)' = 0
      BY <1>2 DEF Counted
    <2>1. IF x <= machine.pages THEN mem_map[x] = References(x)
          ELSE mem_map[x] = USED /\ References(x) = 0
      BY DEF MInv, Counted
    <2>2. DirsAt(x)' = DirsAt(x) /\ EntriesAt(x)' = EntriesAt(x)
      BY <1>2, SameSets
    <2>3. CASE x = p
      <3>1. Nobody(p)'
        BY <1>2, <1>3, <1>6, <1>8 DEF Nobody, Sole
      <3> QED
        BY <1>7, <1>8, <2>3, <3>1, RefSetsNext DEF RefFacts
    <2>4. CASE x # p
      <3>1. TasksAt(x)' = TasksAt(x)
        BY <1>3, <1>6, <2>4, Constants DEF TasksAt
      <3>2. References(x)' = References(x)
        BY <2>2, <3>1, RefSets, RefSetsNext DEF RefFacts
      <3> QED
        BY <1>7, <2>1, <2>4, <3>2
    <2> QED
      BY <2>3, <2>4
  <1>11. ASSUME NEW x \in Pages, x # p, mem_map[x] = 1 PROVE mem_map'[x] = 1
    BY <1>7, <1>11
  <1>12. Owned'
    <2>1. ASSUME NEW n \in TaskNrs, task'[n] # Null
          PROVE  task'[n] \in Pages /\ mem_map'[task'[n]] = 1 /\ n < machine.tasks
      <3>1. n # z /\ task'[n] = task[n]
        BY <1>6, <2>1
      <3>2. task[n] \in Pages /\ mem_map[task[n]] = 1 /\ n < machine.tasks /\ task[n] # p
        BY <1>3, <2>1, <3>1 DEF MInv, Owned, Sole
      <3> QED
        BY <1>11, <3>1, <3>2
    <2>2. ASSUME NEW n \in TaskNrs, dir[n] # Null PROVE mem_map'[dir[n]] = 1
      <3>1. dir[n] \in Pages /\ mem_map[dir[n]] = 1 /\ dir[n] # p
        BY <1>3, <2>2, OwnPages DEF Sole
      <3> QED
        BY <1>11, <3>1
    <2>3. task'[0] = Low /\ task'[1] # Null
      BY <1>4, <1>5, Constants DEF MInv, Owned
    <2> QED
      BY <1>2, <2>1, <2>2, <2>3 DEF Owned
  <1>13. Once'
    BY <1>2 DEF MInv, Once
  <1>14. Lives'
    <2> SUFFICES ASSUME NEW n \in TaskNrs
                 PROVE  /\ dir'[n] # Null <=> task'[n] # Null /\ Struct(n)'.at \in {"user", "waiting"}
                        /\ dir'[n] = Null => \A a \in Addrs : pt'[n][a] = Absent
                        /\ n = 1 => Struct(n)'.at \in {"user", "waiting"}
      BY ProcessesAssumption DEF Lives
    <2>1. CASE n = z
      BY <1>2, <1>4, <1>6, <2>1 DEF MInv, Lives
    <2>2. CASE n # z
      <3>1. n = 1 => task[n] # Null
        BY DEF MInv, Owned
      <3>2. task[n] # Null => task[n] # p /\ task[n] \in Pages
        BY <1>3, <2>2, OwnPages DEF Sole
      <3>3. task'[n] = task[n]
        BY <1>6, <2>2
      <3>4. task[n] # Null => (Struct(n)'.at \in {"user", "waiting"} <=> Struct(n).at \in {"user", "waiting"})
        BY <1>1, <1>2, <1>3, <3>2, <3>3 DEF Struct
      <3> QED
        BY <1>2, <3>1, <3>3, <3>4 DEF MInv, Lives
    <2> QED
      BY <2>1, <2>2
  <1>15. ASSUME NEW n \in TaskNrs, NEW a \in Addrs, pt[n][a].page \in Pages, mem_map[pt[n][a].page] = 1
         PROVE  mem_map'[pt[n][a].page] = 1
    <2>1. pt[n][a].page # p
      BY <1>3 DEF Sole
    <2> QED
      BY <1>11, <1>15, <2>1
  <1>16. Writable'
    BY <1>2, <1>15 DEF MInv, Writable
  <1>17. Forgotten'
    BY <1>2 DEF MInv, Forgotten
  <1>18. Tries'
    <2>1. \A n \in TaskNrs, a \in Addrs : <<n, a>> # NoRetry
      BY Constants DEF NoRetry
    <2> QED
      BY <1>2, <2>1 DEF Tries
  <1>19. Droppable'
    <2> SUFFICES ASSUME NEW n \in TaskNrs, NEW b \in Addrs, <<n, b>> \in Clean(pt), ~Enough(machine)
                 PROVE  /\ "fork" \notin machine.calls
                        /\ mem_map'[pt[n][b].page] = 1 /\ content[pt[n][b].page] = Zeroes
      BY <1>2 DEF Droppable, Harmless, Enough
    <2>1. pt[n][b].page \in Pages
      BY DEF Clean
    <2>2. <<n, b>> # retry
      BY <1>2, Constants DEF NoRetry
    <2>3. Harmless(n, b)
      BY <2>2 DEF MInv, Droppable
    <2> QED
      BY <1>15, <2>1, <2>3 DEF Harmless
  <1> QED
    BY <1>9, <1>10, <1>12, <1>13, <1>14, <1>16, <1>17, <1>18, <1>19 DEF MInv

-----------------------------------------------------------------------------
(* A page is got and nothing is dropped: there is nothing, or no need. *)
LEMMA GotNothing ==
  ASSUME Types, NEW map \in [Pages -> Nat], NEW g \in Got(map, pt),
         Clean(pt) = {} \/ \E p \in Pages : map[p] = 0 /\ Nobody(p)
  PROVE  /\ g.table = pt
         /\ g.map = [p \in Pages |-> IF p = g.page THEN 1 ELSE map[p]]
         /\ g.page = Null \/ (g.page \in Pages /\ map[g.page] = 0)
         /\ g.page = Null => \A p \in Pages : map[p] # 0
  <1>1. PICK S \in Dropped(map, pt) :
          LET left == Less(map, S, pt) IN
          LET page == IF Free(left) = {} THEN Null ELSE Max(Free(left)) IN
          g = [page |-> page,
               map |-> [p \in Pages |-> IF p = page THEN 1 ELSE left[p]],
               table |-> [n \in TaskNrs |-> [a \in Addrs |-> IF <<n, a>> \in S THEN Absent ELSE pt[n][a]]]]
    BY DEF Got
  <1> DEFINE left == Less(map, S, pt)
  <1>2. /\ g.page = IF Free(left) = {} THEN Null ELSE Max(Free(left))
        /\ g.map = [p \in Pages |-> IF p = g.page THEN 1 ELSE left[p]]
        /\ g.table = [n \in TaskNrs |-> [a \in Addrs |-> IF <<n, a>> \in S THEN Absent ELSE pt[n][a]]]
    BY <1>1
  <1>3. S = {}
    <2>1. S \subseteq Clean(pt)
      BY DEF Dropped
    <2>2. CASE \E p \in Pages : map[p] = 0 /\ Nobody(p)
      <3>1. PICK p \in Pages : map[p] = 0 /\ Nobody(p)
        BY <2>2
      <3>2. ASSUME NEW X \in SUBSET Clean(pt) PROVE Free(Less(map, X, pt)) # {}
        <4> DEFINE D == {e \in X : pt[e[1]][e[2]].page = p}
        <4>1. D = {}
          BY <3>1 DEF Nobody, Clean
        <4>2. Cardinality(D) = 0
          BY <4>1, FS_EmptySet
        <4>3. Less(map, X, pt)[p] = map[p] - Cardinality(D)
          BY DEF Less
        <4>4. Less(map, X, pt)[p] = 0
          BY <3>1, <4>2, <4>3
        <4> QED
          BY <4>4 DEF Free
      <3>3. Free(Less(map, S, pt)) # {} /\ \A e \in S : Free(Less(map, S \ {e}, pt)) # {}
        BY <2>1, <3>2
      <3> QED
        BY <3>3 DEF Dropped
    <2> QED
      BY <2>1, <2>2
  <1>4. \A p \in Pages : left[p] = map[p]
    <2> SUFFICES ASSUME NEW p \in Pages PROVE left[p] = map[p]
      OBVIOUS
    <2> DEFINE D == {e \in S : pt[e[1]][e[2]].page = p}
    <2>1. D = {}
      BY <1>3
    <2>2. Cardinality(D) = 0
      BY <2>1, FS_EmptySet
    <2>3. left[p] = map[p] - Cardinality(D)
      BY DEF Less
    <2> QED
      BY <2>2, <2>3
  <1>5. Free(left) \subseteq Pages /\ \A p \in Pages : p \in Free(left) <=> left[p] = 0
    BY DEF Free
  <1>6. g.table = pt
    <2>1. g.table = [n \in TaskNrs |-> [a \in Addrs |-> pt[n][a]]]
      BY <1>2, <1>3
    <2> QED
      BY <2>1 DEF Types
  <1> HIDE DEF left
  <1>7. g.map = [p \in Pages |-> IF p = g.page THEN 1 ELSE map[p]]
    BY <1>2, <1>4
  <1>8. CASE Free(left) # {}
    <2>1. g.page \in Free(left)
      BY <1>2, <1>5, <1>8, MaxIs
    <2> QED
      BY <1>4, <1>5, <1>6, <1>7, <2>1, Constants
  <1>9. CASE Free(left) = {}
    BY <1>2, <1>4, <1>5, <1>6, <1>7, <1>9
  <1> QED
    BY <1>8, <1>9

(* What fork finds when it gets the two pages. *)
ForkGets(g) ==
  /\ g.table = pt
  /\ g.map = [p \in Pages |-> IF p = g.page THEN 1 ELSE mem_map[p]]
  /\ g.page = Null \/ (g.page \in Pages /\ mem_map[g.page] = 0)
  /\ \A h \in Got(g.map, pt) :
       /\ h.table = pt
       /\ h.map = [p \in Pages |-> IF p = h.page THEN 1 ELSE g.map[p]]
       /\ h.page = Null \/ (h.page \in Pages /\ g.map[h.page] = 0)

(* While tasks fork, nothing is dropped. *)
LEMMA ForkGot ==
  ASSUME MInv, retry = NoRetry, "fork" \in machine.calls,
         NEW child \in TaskNrs, child < machine.tasks, task[child] = Null,
         NEW g \in Got(mem_map, pt)
  PROVE  ForkGets(g)
  <1>1. Types /\ mem_map \in [Pages -> Nat]
    BY DEF MInv, Types
  <1>2. CASE Enough(machine)
    <2>1. \A x : \E p \in Pages : p # x /\ mem_map[p] = 0 /\ Nobody(p)
      <3> SUFFICES ASSUME NEW x PROVE \E p \in Pages : p # x /\ mem_map[p] = 0 /\ Nobody(p)
        OBVIOUS
      <3>1. PICK p \in Pages : p # x /\ mem_map[p] = 0
        BY <1>2, TwoFree
      <3> QED
        BY <3>1, Counts
    <2>2. /\ g.table = pt
          /\ g.map = [p \in Pages |-> IF p = g.page THEN 1 ELSE mem_map[p]]
          /\ g.page = Null \/ (g.page \in Pages /\ mem_map[g.page] = 0)
      BY <1>1, <2>1, GotNothing
    <2>3. g.map \in [Pages -> Nat]
      BY <1>1, <2>2
    <2>4. \E p \in Pages : g.map[p] = 0 /\ Nobody(p)
      BY <2>1, <2>2
    <2>5. ASSUME NEW h \in Got(g.map, pt)
          PROVE  /\ h.table = pt
                 /\ h.map = [p \in Pages |-> IF p = h.page THEN 1 ELSE g.map[p]]
                 /\ h.page = Null \/ (h.page \in Pages /\ g.map[h.page] = 0)
      BY <1>1, <2>3, <2>4, GotNothing
    <2> QED
      BY <2>2, <2>5 DEF ForkGets
  <1>3. CASE ~Enough(machine)
    <2>1. Clean(pt) = {}
      <3> SUFFICES ASSUME NEW e \in Clean(pt) PROVE FALSE
        OBVIOUS
      <3>1. e[1] \in TaskNrs /\ e[2] \in Addrs /\ e = <<e[1], e[2]>>
        BY CleanIs
      <3>2. <<e[1], e[2]>> # retry
        BY <3>1, Constants DEF NoRetry
      <3> QED
        BY <1>3, <3>1, <3>2 DEF MInv, Droppable, Harmless
    <2>2. /\ g.table = pt
          /\ g.map = [p \in Pages |-> IF p = g.page THEN 1 ELSE mem_map[p]]
          /\ g.page = Null \/ (g.page \in Pages /\ mem_map[g.page] = 0)
      BY <1>1, <2>1, GotNothing
    <2>3. g.map \in [Pages -> Nat]
      BY <1>1, <2>2
    <2>4. ASSUME NEW h \in Got(g.map, pt)
          PROVE  /\ h.table = pt
                 /\ h.map = [p \in Pages |-> IF p = h.page THEN 1 ELSE g.map[p]]
                 /\ h.page = Null \/ (h.page \in Pages /\ g.map[h.page] = 0)
      BY <1>1, <2>1, <2>3, GotNothing
    <2> QED
      BY <2>2, <2>4 DEF ForkGets
  <1> QED
    BY <1>2, <1>3

(* The contents of the free pages are forgotten already. *)
LEMMA KeptAll ==
  ASSUME MInv, NEW map, \A p \in Pages : map[p] = 0 => mem_map[p] = 0
  PROVE  Kept(map, content) = content
  <1>1. content \in [Pages \union {Low} -> Values] /\ Low \notin Pages
    BY Constants DEF MInv, Types
  <1>2. ASSUME NEW p \in Pages, map[p] = 0 PROVE content[p] = Zeroes
    <2>1. Nobody(p)
      BY <1>2, Counts
    <2> QED
      BY <2>1 DEF MInv, Forgotten, Nobody
  <1>3. \A p \in Pages \union {Low} :
          (IF p \in Pages /\ map[p] = 0 THEN Zeroes ELSE content[p]) = content[p]
    BY <1>1, <1>2
  <1>4. Kept(map, content) = [p \in Pages \union {Low} |->
                                IF p \in Pages /\ map[p] = 0 THEN Zeroes ELSE content[p]]
    BY <1>1 DEF Kept
  <1> QED
    BY <1>1, <1>3, <1>4

(* A fork that fails leaves everything as it was. *)
LEMMA ForkFailsIs ==
  ASSUME MInv, NEW nr \in TaskNrs, ForkFails(nr)
  PROVE  vars' = vars
  <1>1. retry = NoRetry /\ "fork" \in machine.calls
    BY DEF ForkFails, Calls
  <1>2. PICK child \in TaskNrs : child < machine.tasks /\ task[child] = Null
    BY DEF ForkFails, EmptySlot
  <1>3. PICK g \in Got(mem_map, pt) :
          \/ /\ g.page = Null
             /\ mem_map' = g.map /\ pt' = g.table
          \/ /\ g.page # Null
             /\ \E h \in Got(g.map, g.table) :
                  /\ h.page = Null
                  /\ mem_map' = [h.map EXCEPT ![g.page] = @ - 1] /\ pt' = h.table
    BY DEF ForkFails
  <1>4. ForkGets(g)
    BY <1>1, <1>2, ForkGot
  <1>5. mem_map \in [Pages -> Nat] /\ Null \notin Pages
    BY Constants DEF MInv, Types
  <1>6. mem_map' = mem_map /\ pt' = pt
    <2>1. CASE g.page = Null
      <3>1. mem_map' = [p \in Pages |-> IF p = Null THEN 1 ELSE mem_map[p]] /\ pt' = pt
        BY <1>3, <1>4, <2>1 DEF ForkGets
      <3> QED
        BY <1>5, <3>1
    <2>2. CASE g.page # Null
      <3>1. PICK h \in Got(g.map, pt) :
              h.page = Null /\ mem_map' = [h.map EXCEPT ![g.page] = h.map[g.page] - 1] /\ pt' = h.table
        BY <1>3, <1>4, <2>2 DEF ForkGets
      <3>2. /\ g.page \in Pages /\ mem_map[g.page] = 0
            /\ g.map = [p \in Pages |-> IF p = g.page THEN 1 ELSE mem_map[p]]
            /\ h.map = [p \in Pages |-> IF p = Null THEN 1 ELSE g.map[p]] /\ pt' = pt
        BY <1>4, <2>2, <3>1 DEF ForkGets
      <3>3. h.map = [p \in Pages |-> IF p = g.page THEN 1 ELSE mem_map[p]]
        BY <1>5, <3>2
      <3>4. mem_map' = [p \in Pages |-> mem_map[p]]
        BY <3>1, <3>2, <3>3
      <3> QED
        BY <1>5, <3>2, <3>4
    <2> QED
      BY <2>1, <2>2
  <1>7. content' = content
    <2>1. content' = Kept(mem_map, content)
      BY <1>6 DEF ForkFails
    <2> QED
      BY <2>1, KeptAll
  <1> QED
    BY <1>6, <1>7 DEF ForkFails, vars

(* A fork: the pages p and q for the child, and the tables that are shared. *)
Forks(nr, child, p, q) ==
  /\ retry = NoRetry /\ task[nr] # Null /\ Struct(nr).at = "user" /\ "fork" \in machine.calls
  /\ child < machine.tasks /\ task[child] = Null
  /\ mem_map[p] = 0 /\ mem_map[q] = 0 /\ p # q
  /\ task' = [task EXCEPT ![child] = p]
  /\ tcb' = Born(p, task[nr])
  /\ dir' = [dir EXCEPT ![child] = q]
  /\ pt' = [pt EXCEPT ![child] = Protected(pt[nr]), ![nr] = Parent(pt[nr])]
  /\ mem_map' = [x \in Pages |-> (IF x = p \/ x = q THEN 1 ELSE mem_map[x])
                                 + Cardinality({a \in Addrs : pt[nr][a].page = x})]
  /\ UNCHANGED <<content, retry, machine, halted>>

(* Fork does that. *)
LEMMA ForkIs ==
  ASSUME MInv, NEW nr \in TaskNrs, Fork(nr)
  PROVE  \E child \in TaskNrs, p \in Pages, q \in Pages : Forks(nr, child, p, q)
  <1>1. /\ retry = NoRetry /\ "fork" \in machine.calls /\ task[nr] # Null /\ Struct(nr).at = "user"
        /\ UNCHANGED <<retry, machine, halted>>
    BY DEF Fork, Calls, User, Present
  <1>2. PICK child \in TaskNrs :
          /\ EmptySlot(child)
          /\ \E g \in Got(mem_map, pt) :
               /\ g.page # Null
               /\ \E h \in Got(g.map, g.table) :
                    /\ h.page # Null
                    /\ task' = [task EXCEPT ![child] = g.page]
                    /\ tcb' = Born(g.page, task[nr])
                    /\ dir' = [dir EXCEPT ![child] = h.page]
                    /\ pt' = [h.table EXCEPT ![child] = Protected(h.table[nr]), ![nr] = Parent(h.table[nr])]
                    /\ mem_map' = Shared(h.map, h.table[nr])
                    /\ content' = Kept(mem_map', content)
    BY DEF Fork
  <1>3. child < machine.tasks /\ task[child] = Null
    BY <1>2 DEF EmptySlot
  <1>4. PICK g \in Got(mem_map, pt) :
          /\ g.page # Null
          /\ \E h \in Got(g.map, g.table) :
               /\ h.page # Null
               /\ task' = [task EXCEPT ![child] = g.page]
               /\ tcb' = Born(g.page, task[nr])
               /\ dir' = [dir EXCEPT ![child] = h.page]
               /\ pt' = [h.table EXCEPT ![child] = Protected(h.table[nr]), ![nr] = Parent(h.table[nr])]
               /\ mem_map' = Shared(h.map, h.table[nr])
               /\ content' = Kept(mem_map', content)
    BY <1>2
  <1>5. ForkGets(g)
    BY <1>1, <1>3, ForkGot
  <1>6. PICK p \in Pages : p = g.page /\ mem_map[p] = 0
    BY <1>4, <1>5 DEF ForkGets
  <1>7. g.table = pt
    BY <1>5 DEF ForkGets
  <1>8. PICK h \in Got(g.map, pt) :
          /\ h.page # Null
          /\ task' = [task EXCEPT ![child] = p]
          /\ tcb' = Born(p, task[nr])
          /\ dir' = [dir EXCEPT ![child] = h.page]
          /\ pt' = [h.table EXCEPT ![child] = Protected(h.table[nr]), ![nr] = Parent(h.table[nr])]
          /\ mem_map' = Shared(h.map, h.table[nr])
          /\ content' = Kept(mem_map', content)
    BY <1>4, <1>6, <1>7
  <1>9. PICK q \in Pages : q = h.page /\ g.map[q] = 0
    BY <1>5, <1>8 DEF ForkGets
  <1>10. /\ g.map = [x \in Pages |-> IF x = p THEN 1 ELSE mem_map[x]]
         /\ h.map = [x \in Pages |-> IF x = q THEN 1 ELSE g.map[x]] /\ h.table = pt
    BY <1>5, <1>6, <1>9 DEF ForkGets
  <1>11. p # q /\ mem_map[q] = 0
    BY <1>9, <1>10
  <1>12. h.map = [x \in Pages |-> IF x = p \/ x = q THEN 1 ELSE mem_map[x]]
    BY <1>10
  <1>13. mem_map' = [x \in Pages |-> (IF x = p \/ x = q THEN 1 ELSE mem_map[x])
                                     + Cardinality({a \in Addrs : pt[nr][a].page = x})]
    BY <1>8, <1>10, <1>12 DEF Shared
  <1>14. content' = content
    <2> DEFINE map == mem_map'
    <2>1. ASSUME NEW x \in Pages, map[x] = 0 PROVE mem_map[x] = 0
      <3> DEFINE D == {a \in Addrs : pt[nr][a].page = x}
      <3>1. map[x] = (IF x = p \/ x = q THEN 1 ELSE mem_map[x]) + Cardinality(D)
        BY <1>13
      <3>2. Cardinality(D) \in Nat
        BY ProcessesAssumption, FS_Subset, FS_CardinalityType
      <3>3. mem_map[x] \in Nat
        BY DEF MInv, Types
      <3> HIDE DEF map, D
      <3> QED
        BY <2>1, <3>1, <3>2, <3>3
    <2>2. content' = Kept(map, content)
      BY <1>8
    <2> HIDE DEF map
    <2>3. Kept(map, content) = content
      BY <2>1, KeptAll
    <2> QED
      BY <2>2, <2>3
  <1>15. pt' = [pt EXCEPT ![child] = Protected(pt[nr]), ![nr] = Parent(pt[nr])]
    BY <1>8, <1>10
  <1>16. Forks(nr, child, p, q)
    BY <1>1, <1>3, <1>6, <1>8, <1>9, <1>11, <1>13, <1>14, <1>15 DEF Forks
  <1> QED
    BY <1>16

(* The struct of the child and the links to it. *)
BornTcb(p, q, x) ==
  /\ x = p => /\ tcb'[x].at = "user" /\ tcb'[x].sigchld = FALSE /\ tcb'[x].p_pptr = q
              /\ tcb'[x].p_cptr = Null /\ tcb'[x].p_ysptr = Null /\ tcb'[x].p_osptr = tcb[q].p_cptr
  /\ x # p => /\ tcb'[x].at = tcb[x].at /\ tcb'[x].sigchld = tcb[x].sigchld
              /\ tcb'[x].p_pptr = tcb[x].p_pptr /\ tcb'[x].p_osptr = tcb[x].p_osptr
              /\ tcb'[x].p_cptr = IF x = q THEN p ELSE tcb[x].p_cptr
              /\ tcb'[x].p_ysptr = IF x = tcb[q].p_cptr THEN p ELSE tcb[x].p_ysptr

(* Born makes them. *)
LEMMA BornIs ==
  ASSUME Types, NEW p \in Pages, NEW q \in Pages, tcb' = Born(p, q)
  PROVE  tcb' \in [Pages \union {Low} -> Structs] /\ \A x \in Pages \union {Low} : BornTcb(p, q, x)
  <1> DEFINE older == tcb[q].p_cptr
             N == [Blank EXCEPT !.p_pptr = q, !.p_osptr = older]
             C(x) == IF x = q THEN p ELSE tcb[x].p_cptr
             Y(x) == IF x = older THEN p ELSE tcb[x].p_ysptr
             E(x) == [tcb[x] EXCEPT !.p_cptr = C(x), !.p_ysptr = Y(x)]
  <1>1. tcb \in [Pages \union {Low} -> Structs]
    BY DEF Types
  <1>2. tcb' = [x \in Pages \union {Low} |-> IF x = p THEN N ELSE E(x)]
    BY <1>1 DEF Born
  <1>3. /\ N \in Structs /\ N.at = "user" /\ N.sigchld = FALSE /\ N.p_pptr = q
        /\ N.p_cptr = Null /\ N.p_ysptr = Null /\ N.p_osptr = older
    <2>1. Blank \in Structs /\ Blank.at = "user" /\ Blank.sigchld = FALSE
          /\ Blank.p_cptr = Null /\ Blank.p_ysptr = Null
      BY DEF Blank, Structs, Ptr
    <2>2. older \in Ptr /\ q \in Ptr
      BY <1>1 DEF Structs, Ptr
    <2> HIDE DEF older
    <2> QED
      BY <2>1, <2>2 DEF Structs
  <1>4. ASSUME NEW x \in Pages \union {Low}
        PROVE  /\ E(x) \in Structs /\ E(x).at = tcb[x].at /\ E(x).sigchld = tcb[x].sigchld
               /\ E(x).p_pptr = tcb[x].p_pptr /\ E(x).p_cptr = C(x)
               /\ E(x).p_ysptr = Y(x) /\ E(x).p_osptr = tcb[x].p_osptr
    <2>1. tcb[x] \in Structs
      BY <1>1
    <2>2. Y(x) \in Ptr /\ C(x) \in Ptr
      BY <2>1 DEF Structs, Ptr
    <2> HIDE DEF Y, C
    <2> QED
      BY <2>1, <2>2 DEF Structs
  <1>5. tcb' \in [Pages \union {Low} -> Structs]
    <2> HIDE DEF N, E
    <2> QED
      BY <1>2, <1>3, <1>4
  <1>6. ASSUME NEW x \in Pages \union {Low} PROVE BornTcb(p, q, x)
    <2>1. tcb'[x] = IF x = p THEN N ELSE E(x)
      BY <1>2
    <2>2. CASE x = p
      <3>1. tcb'[x] = N
        BY <2>1, <2>2
      <3> HIDE DEF N
      <3> QED
        BY <1>3, <2>2, <3>1 DEF BornTcb
    <2>3. CASE x # p
      <3>1. tcb'[x] = E(x)
        BY <2>1, <2>3
      <3>2. C(x) = (IF x = q THEN p ELSE tcb[x].p_cptr) /\ Y(x) = IF x = tcb[q].p_cptr THEN p ELSE tcb[x].p_ysptr
        OBVIOUS
      <3> HIDE DEF E, C, Y
      <3> QED
        BY <1>4, <2>3, <3>1, <3>2, Zenon DEF BornTcb
    <2> QED
      BY <2>2, <2>3
  <1> QED
    BY <1>5, <1>6

(* The tables and the tasks after a fork. *)
LEMMA ForkTables ==
  ASSUME MInv, NEW nr \in TaskNrs, NEW child \in TaskNrs, NEW p \in Pages, NEW q \in Pages,
         Forks(nr, child, p, q)
  PROVE  /\ child # nr /\ Nobody(p) /\ Nobody(q) /\ p <= machine.pages /\ q <= machine.pages
         /\ dir[child] = Null /\ task[nr] \in Pages
         /\ \A a \in Addrs : pt[child][a] = Absent
         /\ \A n \in TaskNrs : dir'[n] = IF n = child THEN q ELSE dir[n]
         /\ \A n \in 0 .. NrTasks - 1 : task'[n] = IF n = child THEN p ELSE task[n]
         /\ \A n \in TaskNrs, a \in Addrs :
              /\ pt'[n][a].page = IF n = child THEN pt[nr][a].page ELSE pt[n][a].page
              /\ pt'[n][a].dirty = IF n = child THEN pt[nr][a].dirty ELSE pt[n][a].dirty
              /\ pt'[n][a].rw => n # child /\ n # nr /\ pt[n][a].rw
              /\ pt'[n][a] \in Entries
              /\ n # child /\ n # nr => pt'[n][a] = pt[n][a]
         /\ pt' \in [TaskNrs -> [Addrs -> Entries]]
  <1>1. /\ retry = NoRetry /\ task[nr] # Null /\ Struct(nr).at = "user" /\ task[child] = Null
        /\ task' = [task EXCEPT ![child] = p] /\ dir' = [dir EXCEPT ![child] = q]
        /\ pt' = [pt EXCEPT ![child] = Protected(pt[nr]), ![nr] = Parent(pt[nr])]
    BY DEF Forks
  <1>2. /\ task \in [0 .. NrTasks - 1 -> Ptr] /\ dir \in [TaskNrs -> Pages \union {Null}]
        /\ pt \in [TaskNrs -> [Addrs -> Entries]]
    BY DEF MInv, Types
  <1>3. child # nr /\ Nobody(p) /\ Nobody(q) /\ p <= machine.pages /\ q <= machine.pages
    BY <1>1, Counts DEF Forks
  <1>4. dir[child] = Null /\ \A a \in Addrs : pt[child][a] = Absent
    BY <1>1 DEF MInv, Lives
  <1>5. task[nr] \in Pages
    BY <1>1, OwnPages
  <1>6. \A n \in TaskNrs : dir'[n] = IF n = child THEN q ELSE dir[n]
    BY <1>1, <1>2
  <1>7. \A n \in 0 .. NrTasks - 1 : task'[n] = IF n = child THEN p ELSE task[n]
    BY <1>1, <1>2
  <1>8. \A n \in TaskNrs : pt'[n] = IF n = nr THEN Parent(pt[nr])
                                   ELSE IF n = child THEN Protected(pt[nr]) ELSE pt[n]
    BY <1>1, <1>2, <1>3
  <1>9. ASSUME NEW a \in Addrs
        PROVE  /\ Protected(pt[nr])[a] \in Entries /\ ~Protected(pt[nr])[a].rw
               /\ Protected(pt[nr])[a].page = pt[nr][a].page
               /\ Protected(pt[nr])[a].dirty = pt[nr][a].dirty
               /\ Parent(pt[nr])[a] \in Entries /\ ~Parent(pt[nr])[a].rw
               /\ Parent(pt[nr])[a].page = pt[nr][a].page
               /\ Parent(pt[nr])[a].dirty = pt[nr][a].dirty
    <2> DEFINE e == pt[nr][a]  f == [pt[nr][a] EXCEPT !.rw = FALSE]
    <2>1. e \in Entries
      BY <1>2
    <2>2. f \in Entries
      BY <2>1, EntryIs
    <2>3. ~f.rw /\ f.page = e.page /\ f.dirty = e.dirty
      <3> HIDE DEF e
      <3>1. e \in [page : Pages \union {Low}, rw : BOOLEAN, dirty : BOOLEAN] \/ e = Absent
        BY <2>1 DEF Entries
      <3>2. DOMAIN e = {"page", "rw", "dirty"}
        BY <3>1 DEF Absent
      <3>3. f = [e EXCEPT !.rw = FALSE]
        BY DEF e
      <3> HIDE DEF f
      <3> QED
        BY <3>2, <3>3
    <2>4. Protected(pt[nr])[a] = f /\ Parent(pt[nr])[a] = IF e.page \in Pages THEN f ELSE e
      BY DEF Protected, Parent
    <2>5. e.page \notin Pages => ~e.rw
      BY DEF MInv, Writable
    <2> HIDE DEF e, f
    <2>6. /\ Protected(pt[nr])[a] = f
          /\ Parent(pt[nr])[a] = f \/ (Parent(pt[nr])[a] = e /\ ~e.rw)
      BY <2>4, <2>5
    <2> QED
      BY <2>1, <2>2, <2>3, <2>6 DEF e
  <1>10. ASSUME NEW n \in TaskNrs, NEW a \in Addrs
         PROVE  /\ pt'[n][a].page = IF n = child THEN pt[nr][a].page ELSE pt[n][a].page
                /\ pt'[n][a].dirty = IF n = child THEN pt[nr][a].dirty ELSE pt[n][a].dirty
                /\ pt'[n][a].rw => n # child /\ n # nr /\ pt[n][a].rw
                /\ pt'[n][a] \in Entries
                /\ n # child /\ n # nr => pt'[n][a] = pt[n][a]
    <2>1. CASE n = nr
      <3>1. pt'[n][a] = Parent(pt[nr])[a]
        BY <1>8, <2>1
      <3> QED
        BY <1>3, <1>9, <2>1, <3>1, Zenon
    <2>2. CASE n = child
      <3>1. pt'[n][a] = Protected(pt[nr])[a]
        BY <1>3, <1>8, <2>2
      <3> QED
        BY <1>3, <1>9, <2>2, <3>1, Zenon
    <2>3. CASE n # nr /\ n # child
      <3>1. pt'[n][a] = pt[n][a]
        BY <1>8, <2>3
      <3>2. pt[n][a] \in Entries
        BY <1>2
      <3> QED
        BY <2>3, <3>1, <3>2, Zenon
    <2> QED
      BY <2>1, <2>2, <2>3
  <1>11. pt' \in [TaskNrs -> [Addrs -> Entries]]
    <2>1. Protected(pt[nr]) \in [Addrs -> Entries] /\ Parent(pt[nr]) \in [Addrs -> Entries]
      BY <1>9 DEF Protected, Parent
    <2> QED
      BY <1>1, <1>2, <2>1
  <1> QED
    BY <1>3, <1>4, <1>5, <1>6, <1>7, <1>10, <1>11, Zenon

(* What a fork does, as the tables show it. *)
Doubled(nr, child, p, q) ==
  /\ child # nr /\ Nobody(p) /\ Nobody(q) /\ p <= machine.pages /\ q <= machine.pages
  /\ dir[child] = Null /\ task[child] = Null /\ \A a \in Addrs : pt[child][a] = Absent
  /\ \A n \in TaskNrs : dir'[n] = IF n = child THEN q ELSE dir[n]
  /\ \A n \in TaskNrs : task'[n] = IF n = child THEN p ELSE task[n]
  /\ \A n \in TaskNrs, a \in Addrs :
       pt'[n][a].page = IF n = child THEN pt[nr][a].page ELSE pt[n][a].page
  /\ mem_map[p] = 0 /\ mem_map[q] = 0 /\ p # q /\ machine' = machine
  /\ \A x \in Pages : mem_map'[x] = (IF x = p \/ x = q THEN 1 ELSE mem_map[x])
                                    + Cardinality({a \in Addrs : pt[nr][a].page = x})

(* The counts are right after a fork. *)
LEMMA ForkCounts ==
  ASSUME MInv, NEW nr \in TaskNrs, NEW child \in TaskNrs, NEW p \in Pages, NEW q \in Pages,
         Doubled(nr, child, p, q), NEW x \in Pages
  PROVE  /\ mem_map'[x] = (IF x = p \/ x = q THEN 1 ELSE mem_map[x])
                          + (IF \E a \in Addrs : pt[nr][a].page = x THEN 1 ELSE 0)
         /\ IF x <= machine.pages THEN mem_map'[x] = References(x)'
            ELSE mem_map'[x] = USED /\ References(x)' = 0
  <1> DEFINE D == {a \in Addrs : pt[nr][a].page = x}
  <1>1. mem_map'[x] = (IF x = p \/ x = q THEN 1 ELSE mem_map[x]) + Cardinality(D)
    BY DEF Doubled
  <1>2. IF x <= machine.pages THEN mem_map[x] = References(x)
        ELSE mem_map[x] = USED /\ References(x) = 0
    BY DEF MInv, Counted
  <1>3. x # Null /\ x # Absent.page
    BY Constants DEF Absent
  <1>4. Cardinality(TasksAt(x)') = Cardinality(TasksAt(x)) + (IF x = p THEN 1 ELSE 0)
    <2>1. \A n \in TaskNrs : n # child => (n \in TasksAt(x) <=> n \in TasksAt(x)')
      BY DEF TasksAt, Doubled
    <2>2. child \notin TasksAt(x) /\ (child \in TasksAt(x)' <=> x = p)
      BY <1>3 DEF TasksAt, Doubled
    <2>3. TasksAt(x) \in SUBSET TaskNrs /\ TasksAt(x)' \in SUBSET TaskNrs /\ IsFiniteSet(TaskNrs)
      BY Constants DEF TasksAt
    <2>4. /\ Cardinality(TasksAt(x)) \in Nat /\ Cardinality(TasksAt(x)') \in Nat
          /\ Cardinality(TasksAt(x)') + (IF child \in TasksAt(x) THEN 1 ELSE 0)
               = Cardinality(TasksAt(x)) + (IF child \in TasksAt(x)' THEN 1 ELSE 0)
      BY <2>1, <2>3, OneMember
    <2> QED
      BY <2>2, <2>4
  <1>5. Cardinality(DirsAt(x)') = Cardinality(DirsAt(x)) + (IF x = q THEN 1 ELSE 0)
    <2>1. \A n \in TaskNrs : n # child => (n \in DirsAt(x) <=> n \in DirsAt(x)')
      BY DEF DirsAt, Doubled
    <2>2. child \notin DirsAt(x) /\ (child \in DirsAt(x)' <=> x = q)
      BY <1>3 DEF DirsAt, Doubled
    <2>3. DirsAt(x) \in SUBSET TaskNrs /\ DirsAt(x)' \in SUBSET TaskNrs /\ IsFiniteSet(TaskNrs)
      BY Constants DEF DirsAt
    <2>4. /\ Cardinality(DirsAt(x)) \in Nat /\ Cardinality(DirsAt(x)') \in Nat
          /\ Cardinality(DirsAt(x)') + (IF child \in DirsAt(x) THEN 1 ELSE 0)
               = Cardinality(DirsAt(x)) + (IF child \in DirsAt(x)' THEN 1 ELSE 0)
      BY <2>1, <2>3, OneMember
    <2> QED
      BY <2>2, <2>4
  <1>6. ASSUME NEW n \in TaskNrs, NEW b \in Addrs, n # child
        PROVE  <<n, b>> \in EntriesAt(x) <=> <<n, b>> \in EntriesAt(x)'
    BY <1>6 DEF EntriesAt, Doubled
  <1>7. \A b \in Addrs : /\ <<child, b>> \notin EntriesAt(x)
                         /\ <<child, b>> \in EntriesAt(x)' <=> pt[nr][b].page = x
    BY <1>3 DEF EntriesAt, Doubled
  <1>8. /\ EntriesAt(x) \in SUBSET (TaskNrs \X Addrs) /\ EntriesAt(x)' \in SUBSET (TaskNrs \X Addrs)
        /\ IsFiniteSet(TaskNrs \X Addrs)
    BY Constants DEF EntriesAt
  <1>9. ASSUME NEW a \in Addrs, pt[nr][a].page = x
        PROVE  Cardinality(EntriesAt(x)') = Cardinality(EntriesAt(x)) + 1 /\ Cardinality(D) = 1
    <2>1. \A b \in Addrs : pt[nr][b].page = x => b = a
      BY <1>9 DEF MInv, Once
    <2>2. \A e \in TaskNrs \X Addrs : e # <<child, a>> => (e \in EntriesAt(x) <=> e \in EntriesAt(x)')
      BY <1>6, <1>7, <2>1
    <2>3. <<child, a>> \in TaskNrs \X Addrs
      OBVIOUS
    <2>4. /\ Cardinality(EntriesAt(x)) \in Nat /\ Cardinality(EntriesAt(x)') \in Nat
          /\ Cardinality(EntriesAt(x)') + (IF <<child, a>> \in EntriesAt(x) THEN 1 ELSE 0)
               = Cardinality(EntriesAt(x)) + (IF <<child, a>> \in EntriesAt(x)' THEN 1 ELSE 0)
      BY <1>8, <2>2, <2>3, OneMember
    <2>5. D = {a}
      BY <1>9, <2>1
    <2>6. Cardinality(D) = 1
      BY <2>5, FS_Singleton
    <2> QED
      BY <1>7, <1>9, <2>4, <2>6
  <1>10. ASSUME ~\E a \in Addrs : pt[nr][a].page = x
         PROVE  Cardinality(EntriesAt(x)') = Cardinality(EntriesAt(x)) /\ Cardinality(D) = 0
    <2>1. \A e \in TaskNrs \X Addrs : e \in EntriesAt(x) <=> e \in EntriesAt(x)'
      BY <1>6, <1>7, <1>10
    <2>2. EntriesAt(x)' = EntriesAt(x)
      BY <1>8, <2>1
    <2>3. D = {}
      BY <1>10
    <2> QED
      BY <2>2, <2>3, FS_EmptySet
  <1>11. mem_map'[x] = (IF x = p \/ x = q THEN 1 ELSE mem_map[x])
                       + (IF \E a \in Addrs : pt[nr][a].page = x THEN 1 ELSE 0)
    BY <1>1, <1>9, <1>10
  <1>12. References(x)' = References(x) + (IF x = p \/ x = q THEN 1 ELSE 0)
                          + (IF \E a \in Addrs : pt[nr][a].page = x THEN 1 ELSE 0)
    <2>1. p # q
      BY DEF Doubled
    <2>2. Cardinality(EntriesAt(x)') = Cardinality(EntriesAt(x))
                                      + (IF \E a \in Addrs : pt[nr][a].page = x THEN 1 ELSE 0)
      <3>1. CASE \E a \in Addrs : pt[nr][a].page = x
        <4>1. Cardinality(EntriesAt(x)') = Cardinality(EntriesAt(x)) + 1
          BY <1>9, <3>1
        <4> QED
          BY <3>1, <4>1
      <3>2. CASE ~\E a \in Addrs : pt[nr][a].page = x
        <4>1. Cardinality(EntriesAt(x)') = Cardinality(EntriesAt(x)) /\ Cardinality(EntriesAt(x)) \in Nat
          BY <1>10, <3>2, RefSets
        <4> QED
          BY <3>2, <4>1
      <3> QED
        BY <3>1, <3>2
    <2> HIDE DEF D
    <2> QED
      BY <1>4, <1>5, <2>1, <2>2, RefSets, RefSetsNext DEF RefFacts
  <1>13. /\ x = p \/ x = q => mem_map[x] = 0 /\ x <= machine.pages
         /\ (\E a \in Addrs : pt[nr][a].page = x) => x <= machine.pages
    BY Counts DEF Nobody, Doubled
  <1>14. mem_map[x] \in Nat /\ References(x) \in Nat
    BY RefSets DEF MInv, Types
  <1>15. IF x <= machine.pages THEN mem_map'[x] = References(x)'
         ELSE mem_map'[x] = USED /\ References(x)' = 0
    <2> DEFINE e == IF \E a \in Addrs : pt[nr][a].page = x THEN 1 ELSE 0
    <2>1. e \in {0, 1} /\ (e = 1 => x <= machine.pages)
      BY <1>13
    <2>2. /\ mem_map'[x] = (IF x = p \/ x = q THEN 1 ELSE mem_map[x]) + e
          /\ References(x)' = References(x) + (IF x = p \/ x = q THEN 1 ELSE 0) + e
      BY <1>11, <1>12
    <2>3. x = p \/ x = q => mem_map[x] = 0 /\ x <= machine.pages
      BY <1>13
    <2> HIDE DEF e
    <2> QED
      BY <1>2, <1>14, <2>1, <2>2, <2>3 DEF USED
  <1> QED
    BY <1>11, <1>15

(* And the rest. *)
LEMMA ForkKeeps ==
  ASSUME MInv, NEW nr \in TaskNrs, NEW child \in TaskNrs, NEW p \in Pages, NEW q \in Pages,
         Forks(nr, child, p, q)
  PROVE  MInv'
  <1>1. Doubled(nr, child, p, q)
    <2>1. /\ child # nr /\ Nobody(p) /\ Nobody(q) /\ p <= machine.pages /\ q <= machine.pages
          /\ dir[child] = Null /\ \A a \in Addrs : pt[child][a] = Absent
          /\ \A n \in TaskNrs : dir'[n] = IF n = child THEN q ELSE dir[n]
      BY ForkTables
    <2>2. \A n \in TaskNrs : task'[n] = IF n = child THEN p ELSE task[n]
      BY ForkTables, Constants
    <2>3. \A n \in TaskNrs, a \in Addrs :
            pt'[n][a].page = IF n = child THEN pt[nr][a].page ELSE pt[n][a].page
      BY ForkTables
    <2>4. \A x \in Pages : mem_map'[x] = (IF x = p \/ x = q THEN 1 ELSE mem_map[x])
                                    + Cardinality({a \in Addrs : pt[nr][a].page = x})
      BY DEF Forks
    <2> QED
      BY <2>1, <2>2, <2>3, <2>4, Zenon DEF Doubled, Forks
  <1>2. /\ child # nr /\ Nobody(p) /\ Nobody(q) /\ dir[child] = Null /\ task[child] = Null
        /\ \A n \in TaskNrs : dir'[n] = IF n = child THEN q ELSE dir[n]
        /\ \A n \in TaskNrs : task'[n] = IF n = child THEN p ELSE task[n]
        /\ mem_map[p] = 0 /\ mem_map[q] = 0 /\ p # q /\ machine' = machine
    BY <1>1 DEF Doubled
  <1>3. /\ content' = content /\ retry' = retry /\ retry = NoRetry /\ halted' = halted
        /\ task[nr] # Null /\ Struct(nr).at = "user" /\ "fork" \in machine.calls
        /\ child < machine.tasks
    BY DEF Forks
  <1>4. ASSUME NEW n \in TaskNrs, NEW a \in Addrs
        PROVE  /\ n # child => pt'[n][a].page = pt[n][a].page /\ pt'[n][a].dirty = pt[n][a].dirty
               /\ pt'[child][a].page = pt[nr][a].page /\ pt'[child][a].dirty = pt[nr][a].dirty
               /\ pt'[n][a].rw => n # child /\ n # nr /\ pt[n][a].rw
               /\ n # child /\ n # nr => pt'[n][a] = pt[n][a]
    BY ForkTables
  <1>5. ASSUME NEW x \in Pages
        PROVE  /\ mem_map'[x] = (IF x = p \/ x = q THEN 1 ELSE mem_map[x])
                                + (IF \E a \in Addrs : pt[nr][a].page = x THEN 1 ELSE 0)
               /\ IF x <= machine.pages THEN mem_map'[x] = References(x)'
                  ELSE mem_map'[x] = USED /\ References(x)' = 0
    BY <1>1, ForkCounts
  <1>6. /\ tcb' \in [Pages \union {Low} -> Structs]
        /\ tcb'[p].at = "user" /\ \A x \in Pages \union {Low} : x # p => tcb'[x].at = tcb[x].at
    <2>1. task[nr] \in Pages
      BY <1>3, OwnPages
    <2>2. tcb' = Born(p, task[nr]) /\ Types
      BY DEF Forks, MInv
    <2>3. tcb' \in [Pages \union {Low} -> Structs] /\ \A x \in Pages \union {Low} : BornTcb(p, task[nr], x)
      BY <2>1, <2>2, BornIs
    <2>4. \A x \in Pages \union {Low} :
            /\ x = p => tcb'[x].at = "user"
            /\ x # p => tcb'[x].at = tcb[x].at
      BY <2>3, Zenon DEF BornTcb
    <2> QED
      BY <2>3, <2>4
  <1>7. Types'
    <2>1. mem_map' \in [Pages -> Nat]
      <3>1. \A x \in Pages : mem_map'[x] \in Nat
        BY <1>5 DEF MInv, Types
      <3>2. mem_map' = [x \in Pages |-> mem_map'[x]]
        BY DEF Forks
      <3> QED
        BY <3>1, <3>2
    <2>2. task' \in [0 .. NrTasks - 1 -> Ptr] /\ dir' \in [TaskNrs -> Pages \union {Null}]
      BY DEF Forks, MInv, Types, Ptr
    <2>3. pt' \in [TaskNrs -> [Addrs -> Entries]]
      BY ForkTables
    <2> QED
      BY <1>2, <1>3, <1>6, <2>1, <2>2, <2>3 DEF MInv, Types
  <1>8. Counted'
    BY <1>2, <1>5 DEF Counted
  <1>9. ASSUME NEW x \in Pages, mem_map[x] = 1, \A a \in Addrs : pt[nr][a].page # x
        PROVE  mem_map'[x] = 1
    BY <1>2, <1>5, <1>9
  <1>10. \A a \in Addrs : pt[nr][a].page # p /\ pt[nr][a].page # q
    BY <1>2 DEF Nobody
  <1>11. mem_map'[p] = 1 /\ mem_map'[q] = 1
    BY <1>5, <1>10
  <1>12. Owned'
    <2>1. ASSUME NEW n \in TaskNrs, task'[n] # Null
          PROVE  task'[n] \in Pages /\ mem_map'[task'[n]] = 1 /\ n < machine.tasks
      <3>1. CASE n = child
        BY <1>2, <1>3, <1>11, <3>1
      <3>2. CASE n # child
        <4>1. task'[n] = task[n]
          BY <1>2, <3>2
        <4>2. task[n] \in Pages /\ mem_map[task[n]] = 1 /\ n < machine.tasks /\ Sole(task[n])
          BY <2>1, <4>1, OwnPages DEF MInv, Owned
        <4>3. \A a \in Addrs : pt[nr][a].page # task[n]
          BY <4>2 DEF Sole
        <4> QED
          BY <1>9, <4>1, <4>2, <4>3
      <3> QED
        BY <3>1, <3>2
    <2>2. ASSUME NEW n \in TaskNrs, dir'[n] # Null PROVE mem_map'[dir'[n]] = 1
      <3>1. CASE n = child
        BY <1>2, <1>11, <3>1
      <3>2. CASE n # child
        <4>1. dir'[n] = dir[n]
          BY <1>2, <3>2
        <4>2. dir[n] \in Pages /\ mem_map[dir[n]] = 1 /\ Sole(dir[n])
          BY <2>2, <4>1, OwnPages
        <4>3. \A a \in Addrs : pt[nr][a].page # dir[n]
          BY <4>2 DEF Sole
        <4> QED
          BY <1>9, <4>1, <4>2, <4>3
      <3> QED
        BY <3>1, <3>2
    <2>3. task'[0] = Low /\ task'[1] # Null
      <3>1. 0 # child /\ 0 \in 0 .. NrTasks - 1 /\ 1 \in TaskNrs /\ p # Null
        BY Constants
      <3>2. task'[0] = task[0]
        BY <3>1, ForkTables
      <3> QED
        BY <1>2, <3>1, <3>2 DEF MInv, Owned
    <2> QED
      BY <1>2, <2>1, <2>2, <2>3 DEF Owned
  <1>13. Once'
    <2> SUFFICES ASSUME NEW n \in TaskNrs, NEW b \in Addrs, NEW c \in Addrs,
                        pt'[n][b].page = pt'[n][c].page, pt'[n][b].page \in Pages
                 PROVE  b = c
      BY DEF Once
    <2> QED
      BY <1>4 DEF MInv, Once
  <1>14. Lives'
    <2> SUFFICES ASSUME NEW n \in TaskNrs
                 PROVE  /\ dir'[n] # Null <=> task'[n] # Null /\ Struct(n)'.at \in {"user", "waiting"}
                        /\ dir'[n] = Null => \A a \in Addrs : pt'[n][a] = Absent
                        /\ n = 1 => Struct(n)'.at \in {"user", "waiting"}
      BY ProcessesAssumption DEF Lives
    <2>1. CASE n = child
      BY <1>2, <1>6, <2>1, Constants DEF Struct
    <2>2. CASE n # child
      <3>1. n = 1 => task[n] # Null
        BY DEF MInv, Owned
      <3>2. task'[n] = task[n] /\ dir'[n] = dir[n]
        BY <1>2, <2>2
      <3>3. task[n] # Null => task[n] \in Pages /\ task[n] # p
        BY <1>2, OwnPages DEF Nobody
      <3>4. task[n] # Null => Struct(n)'.at = Struct(n).at
        BY <1>6, <3>2, <3>3 DEF Struct
      <3>5. ASSUME dir[n] = Null, NEW a \in Addrs PROVE pt'[n][a] = Absent
        <4>1. pt[n][a] = Absent /\ n # nr
          BY <1>3, <3>5 DEF MInv, Lives
        <4> QED
          BY <1>4, <2>2, <4>1
      <3> QED
        BY <3>1, <3>2, <3>4, <3>5 DEF MInv, Lives
    <2> QED
      BY <2>1, <2>2
  <1>15. Writable'
    <2> SUFFICES ASSUME NEW n \in TaskNrs, NEW a \in Addrs, pt'[n][a].rw
                 PROVE  pt'[n][a].page \in Pages /\ mem_map'[pt'[n][a].page] = 1
      BY DEF Writable
    <2>1. n # child /\ n # nr /\ pt'[n][a] = pt[n][a]
      BY <1>4
    <2>2. pt[n][a].page \in Pages /\ mem_map[pt[n][a].page] = 1
      BY <2>1 DEF MInv, Writable
    <2>3. Sole(pt[n][a].page)
      BY <2>2, Counts
    <2>4. \A b \in Addrs : pt[nr][b].page # pt[n][a].page
      BY <2>1, <2>3 DEF Sole
    <2> QED
      BY <1>9, <2>1, <2>2, <2>4
  <1>16. Forgotten'
    <2> SUFFICES ASSUME NEW x \in Pages, content[x] # Zeroes
                 PROVE  \E n \in TaskNrs, b \in Addrs : pt'[n][b].page = x
      BY <1>3 DEF Forgotten
    <2>1. PICK n \in TaskNrs, b \in Addrs : pt[n][b].page = x
      BY DEF MInv, Forgotten
    <2>2. n # child
      BY <1>1, <2>1, Constants DEF Doubled, Absent
    <2> QED
      BY <1>4, <2>1, <2>2
  <1>17. Tries'
    <2>1. \A n \in TaskNrs, a \in Addrs : <<n, a>> # NoRetry
      BY Constants DEF NoRetry
    <2> QED
      BY <1>3, <2>1 DEF Tries
  <1>18. Droppable'
    <2> SUFFICES ASSUME NEW n \in TaskNrs, NEW b \in Addrs, <<n, b>> \in Clean(pt'), ~Enough(machine)
                 PROVE  FALSE
      BY <1>2 DEF Droppable, Enough
    <2>1. pt'[n][b].page \in Pages /\ ~pt'[n][b].dirty
      BY DEF Clean
    <2>2. PICK m \in TaskNrs : pt[m][b].page \in Pages /\ ~pt[m][b].dirty
      BY <1>4, <2>1
    <2>3. <<m, b>> \in Clean(pt) /\ <<m, b>> # retry
      BY <1>3, <2>2, Constants DEF Clean, NoRetry
    <2> QED
      BY <1>3, <2>3 DEF MInv, Droppable, Harmless
  <1> QED
    BY <1>7, <1>8, <1>12, <1>13, <1>14, <1>15, <1>16, <1>17, <1>18 DEF MInv

-----------------------------------------------------------------------------
(* the family: tasks, fathers, children *)
Kids(p) == {c \in Pages : There(c) /\ tcb[c].p_pptr = p}

(* Who is there has a struct in a page of its own, but for task 0. *)
LEMMA ThereIs ==
  ASSUME MInv
  PROVE  /\ There(Low) /\ There(task[1]) /\ task[1] \in Pages
         /\ \A x : There(x) => x \in Pages \union {Low}
         /\ \A x : There(x) /\ x # Low => x \in Pages /\ \E n \in TaskNrs : task[n] = x
         /\ \A n \in TaskNrs : task[n] # Null => There(task[n]) /\ task[n] \in Pages
         /\ \A n, m \in TaskNrs : task[n] # Null /\ task[n] = task[m] => n = m
         /\ Low \notin Pages /\ Null \notin Pages /\ ~There(Null)
  <1>1. /\ 0 \in 0 .. NrTasks - 1 /\ 1 \in TaskNrs /\ TaskNrs \subseteq 0 .. NrTasks - 1
        /\ \A n \in 0 .. NrTasks - 1 : n = 0 \/ n \in TaskNrs
        /\ Low # Null /\ Low \notin Pages /\ Null \notin Pages
    BY Constants DEF TaskNrs
  <1>2. /\ task[0] = Low /\ task[1] # Null
        /\ \A n \in TaskNrs : task[n] # Null => task[n] \in Pages /\ Sole(task[n])
    BY OwnPages DEF MInv, Owned
  <1>3. \A n, m \in TaskNrs : task[n] # Null /\ task[n] = task[m] => n = m
    BY <1>2 DEF Sole
  <1> QED
    BY <1>1, <1>2, <1>3 DEF There

(* The links stay in the structs. *)
LEMMA PtrIs ==
  ASSUME Types, NEW x \in Pages \union {Low}
  PROVE  /\ tcb[x].p_pptr \in Ptr /\ tcb[x].p_cptr \in Ptr
         /\ tcb[x].p_ysptr \in Ptr /\ tcb[x].p_osptr \in Ptr
         /\ tcb[x].at \in {"user", "exiting", "waiting", "zombie"} /\ tcb[x].sigchld \in BOOLEAN
  <1>1. tcb[x] \in Structs
    BY DEF Types
  <1> QED
    BY <1>1 DEF Structs

(* A function of links can be applied again and again. *)
Iterated(N, s0, G) ==
  \E f \in [0 .. N -> Ptr] : f[0] = s0 /\ \A k \in 1 .. N : f[k] = G[f[k - 1]]
(* A function on pointers can be iterated. *)
LEMMA Iterates ==
  ASSUME NEW N \in Nat, NEW s0 \in Ptr, NEW G \in [Ptr -> Ptr]
  PROVE  Iterated(N, s0, G)
  <1> DEFINE Q(n) == \E f \in [0 .. n -> Ptr] : f[0] = s0 /\ \A k \in 1 .. n : f[k] = G[f[k - 1]]
             P == {n \in 0 .. N : Q(n)}
  <1>1. Q(0)
    <2> DEFINE f == [k \in 0 .. 0 |-> s0]
    <2>1. f \in [0 .. 0 -> Ptr] /\ f[0] = s0 /\ \A k \in 1 .. 0 : f[k] = G[f[k - 1]]
      OBVIOUS
    <2> QED
      BY <2>1
  <1>2. ASSUME NEW n \in 0 .. N, n < N, Q(n) PROVE Q(n + 1)
    <2>1. PICK f \in [0 .. n -> Ptr] : f[0] = s0 /\ \A k \in 1 .. n : f[k] = G[f[k - 1]]
      BY <1>2
    <2> DEFINE g == [k \in 0 .. n + 1 |-> IF k = n + 1 THEN G[f[n]] ELSE f[k]]
    <2>2. g \in [0 .. n + 1 -> Ptr]
      OBVIOUS
    <2>3. g[0] = s0
      BY <2>1
    <2>4. ASSUME NEW k \in 1 .. n + 1 PROVE g[k] = G[g[k - 1]]
      <3>1. CASE k = n + 1
        <4>1. k - 1 = n /\ n \in 0 .. n + 1 /\ n # n + 1
          BY <3>1
        <4> QED
          BY <3>1, <4>1
      <3>2. CASE k # n + 1
        <4>1. k \in 1 .. n /\ k - 1 \in 0 .. n + 1 /\ k - 1 # n + 1 /\ k \in 0 .. n + 1
          BY <3>2
        <4> QED
          BY <2>1, <3>2, <4>1
      <3> QED
        BY <3>1, <3>2
    <2> HIDE DEF g
    <2> QED
      BY <2>2, <2>3, <2>4
  <1>3. 0 \in P /\ \A k \in 0 .. N : k \in P /\ k < N => k + 1 \in P
    <2> HIDE DEF Q
    <2> QED
      BY <1>1, <1>2
  <1>4. \A k \in 0 .. N : k \in P
    <2> HIDE DEF P
    <2> QED
      BY <1>3, UpTo
  <1>5. N \in P
    <2> HIDE DEF P
    <2> QED
      BY <1>4
  <1> QED
    BY <1>5 DEF Iterated

(* The list of the children, link by link. *)
LEMMA ChildIs ==
  ASSUME Types, NEW p \in Pages \union {Low}
  PROVE  /\ Child(p) \in [0 .. NrTasks -> Ptr] /\ Child(p)[0] = tcb[p].p_cptr
         /\ \A k \in 0 .. NrTasks - 1 :
              Child(p)[k + 1] = IF Child(p)[k] = Null THEN Null ELSE tcb[Child(p)[k]].p_osptr
  <1> DEFINE G == [x \in Ptr |-> IF x = Null THEN Null ELSE tcb[x].p_osptr]
             s0 == tcb[p].p_cptr
             F(c) == [k \in 0 .. NrTasks |-> IF k = 0 THEN tcb[p].p_cptr
                                             ELSE IF c[k - 1] = Null THEN Null ELSE tcb[c[k - 1]].p_osptr]
  <1>1. G \in [Ptr -> Ptr] /\ s0 \in Ptr /\ NrTasks \in Nat
    <2>1. \A x \in Ptr : x # Null => tcb[x].p_osptr \in Ptr
      BY PtrIs DEF Ptr
    <2>2. Null \in Ptr
      BY DEF Ptr
    <2> QED
      BY <2>1, <2>2, PtrIs, Constants
  <1>2. PICK f \in [0 .. NrTasks -> Ptr] : f[0] = s0 /\ \A k \in 1 .. NrTasks : f[k] = G[f[k - 1]]
    <2> HIDE DEF G, s0
    <2>1. Iterated(NrTasks, s0, G)
      BY <1>1, Iterates
    <2> QED
      BY <2>1 DEF Iterated
  <1>3. f = F(f)
    <2>1. ASSUME NEW k \in 0 .. NrTasks
          PROVE  f[k] = IF k = 0 THEN tcb[p].p_cptr
                        ELSE IF f[k - 1] = Null THEN Null ELSE tcb[f[k - 1]].p_osptr
      <3>1. CASE k = 0
        BY <1>2, <3>1
      <3>2. CASE k # 0
        <4>1. k \in 1 .. NrTasks /\ k - 1 \in 0 .. NrTasks
          BY <1>1, <3>2
        <4> QED
          BY <1>2, <3>2, <4>1
      <3> QED
        BY <3>1, <3>2
    <2> QED
      BY <2>1
  <1>4. Child(p) = CHOOSE c : c = F(c)
    BY DEF Child
  <1>5. Child(p) = F(Child(p))
    <2> HIDE DEF F
    <2> QED
      BY <1>3, <1>4
  <1> DEFINE c == Child(p)
  <1>6. c = F(c)
    BY <1>5
  <1> HIDE DEF c
  <1>7. /\ DOMAIN c = 0 .. NrTasks /\ c[0] = tcb[p].p_cptr
        /\ \A k \in 0 .. NrTasks - 1 : c[k + 1] = IF c[k] = Null THEN Null ELSE tcb[c[k]].p_osptr
    <2>1. DOMAIN c = 0 .. NrTasks
      BY <1>6
    <2>2. 0 \in 0 .. NrTasks /\ \A k \in 0 .. NrTasks - 1 : k + 1 \in 0 .. NrTasks /\ k + 1 # 0 /\ (k + 1) - 1 = k
      BY <1>1
    <2>3. c[0] = tcb[p].p_cptr
      BY <1>6, <2>2
    <2>4. ASSUME NEW k \in 0 .. NrTasks - 1
          PROVE  c[k + 1] = IF c[k] = Null THEN Null ELSE tcb[c[k]].p_osptr
      <3>1. c[k + 1] = IF k + 1 = 0 THEN tcb[p].p_cptr
                       ELSE IF c[(k + 1) - 1] = Null THEN Null ELSE tcb[c[(k + 1) - 1]].p_osptr
        BY <1>6, <2>2
      <3> QED
        BY <2>2, <3>1
    <2> QED
      BY <2>1, <2>3, <2>4
  <1>8. c \in [0 .. NrTasks -> Ptr]
    <2> DEFINE P == {k \in 0 .. NrTasks : c[k] \in Ptr}
    <2>1. 0 \in P
      BY <1>1, <1>7
    <2>2. ASSUME NEW k \in 0 .. NrTasks, k \in P, k < NrTasks PROVE k + 1 \in P
      <3>1. k \in 0 .. NrTasks - 1 /\ k + 1 \in 0 .. NrTasks
        BY <1>1, <2>2
      <3>2. c[k] # Null => tcb[c[k]].p_osptr \in Ptr
        BY <2>2, PtrIs DEF Ptr
      <3> QED
        BY <1>7, <3>1, <3>2 DEF Ptr
    <2>3. \A k \in 0 .. NrTasks : k \in P
      <3> HIDE DEF P
      <3> QED
        BY <1>1, <2>1, <2>2, UpTo
    <2>4. \A k \in 0 .. NrTasks : c[k] \in Ptr
      BY <2>3
    <2>5. c = [k \in 0 .. NrTasks |-> c[k]]
      BY <1>6
    <2> QED
      BY <2>4, <2>5
  <1> QED
    BY <1>7, <1>8 DEF c

(* What the links of a task say, and those of a father. *)
Related(c) ==
  /\ There(tcb[c].p_pptr) /\ tcb[c].p_pptr # c /\ tcb[c].p_pptr \in Pages \union {Low}
  /\ tcb[c].p_pptr = Low <=> c = task[1]
  /\ c \in Kids(tcb[c].p_pptr)
  /\ tcb[c].p_osptr # Null => /\ tcb[c].p_osptr \in Kids(tcb[c].p_pptr) /\ tcb[c].p_osptr # c
                              /\ tcb[tcb[c].p_osptr].p_ysptr = c
  /\ tcb[c].p_ysptr # Null => /\ tcb[c].p_ysptr \in Kids(tcb[c].p_pptr) /\ tcb[c].p_ysptr # c
                              /\ tcb[tcb[c].p_ysptr].p_osptr = c
  /\ tcb[c].p_ysptr = Null => tcb[tcb[c].p_pptr].p_cptr = c
  /\ tcb[tcb[c].p_pptr].p_cptr # Null
Fathers(p) ==
  /\ tcb[p].p_cptr # Null => tcb[p].p_cptr \in Kids(p) /\ tcb[tcb[p].p_cptr].p_ysptr = Null
  /\ tcb[p].p_cptr = Null => Kids(p) = {}
  /\ tcb[p].at = "zombie" => tcb[p].p_cptr = Null

(* They follow from the invariant. *)
LEMMA Kinship ==
  ASSUME MInv, FInv
  PROVE  /\ \A c \in Pages : There(c) => Related(c)
         /\ \A p : There(p) => Fathers(p)
  <1>1. PICK top \in Nat : \E r \in [Pages -> 0 .. top] : Order(r)
    BY DEF FInv, Ranked
  <1>2. PICK r \in [Pages -> 0 .. top] : Order(r)
    BY <1>1
  <1>3. PICK d \in [Pages -> Nat] : Descent(d)
    BY DEF FInv, Descends
  <1>4. /\ \A c \in Pages : There(c) => Linked(c)
        /\ \A p \in Pages \union {Low} : There(p) => Headed(p)
    BY DEF FInv, Links
  <1>5. /\ \A x : There(x) => x \in Pages \union {Low}
        /\ \A x : There(x) /\ x # Low => x \in Pages
        /\ Low \notin Pages /\ Null \notin Pages /\ Low # Null
        /\ task[1] \in Pages
    BY ThereIs, Constants
  <1>6. \A x \in Pages : r[x] \in Nat /\ d[x] \in Nat
    BY <1>2
  <1>7. ASSUME NEW c \in Pages, There(c) PROVE Related(c)
    <2> DEFINE f == tcb[c].p_pptr  o == tcb[c].p_osptr  y == tcb[c].p_ysptr
    <2>1. Linked(c)
      BY <1>4, <1>7
    <2>2. There(f) /\ f \in Pages \union {Low} /\ (f = Low <=> c = task[1])
      BY <1>5, <2>1 DEF Linked
    <2>3. f # c
      <3>1. CASE c = task[1]
        BY <1>5, <2>2, <3>1
      <3>2. CASE c # task[1]
        <4>1. d[tcb[c].p_pptr] < d[c]
          BY <1>3, <1>7, <3>2 DEF Descent
        <4> QED
          BY <1>6, <4>1
      <3> QED
        BY <3>1, <3>2
    <2>4. c \in Kids(f) /\ \A x \in Pages : There(x) /\ tcb[x].p_pptr = f => x \in Kids(f)
      BY <1>7 DEF Kids
    <2>5. ASSUME o # Null
          PROVE  o \in Kids(f) /\ o # c /\ tcb[o].p_ysptr = c
      <3>1. There(o) /\ o \in Pages /\ tcb[o].p_pptr = f /\ tcb[o].p_ysptr = c
        BY <1>5, <2>1, <2>5 DEF Linked
      <3>2. r[o] < r[c]
        BY <1>2, <1>7, <3>1 DEF Order, Siblings
      <3> QED
        BY <1>6, <2>4, <3>1, <3>2
    <2>6. ASSUME y # Null
          PROVE  y \in Kids(f) /\ y # c /\ tcb[y].p_osptr = c
      <3>1. There(y) /\ y \in Pages /\ tcb[y].p_pptr = f /\ tcb[y].p_osptr = c
        BY <1>5, <2>1, <2>6 DEF Linked
      <3>2. r[c] < r[y]
        BY <1>2, <1>7, <3>1 DEF Order, Siblings
      <3> QED
        BY <1>6, <2>4, <3>1, <3>2
    <2>7. tcb[f].p_cptr # Null /\ (y = Null => tcb[f].p_cptr = c)
      BY <1>2, <1>7, <2>1 DEF Order, Siblings, Linked
    <2> QED
      BY <2>2, <2>3, <2>4, <2>5, <2>6, <2>7 DEF Related
  <1>8. ASSUME NEW p, There(p) PROVE Fathers(p)
    <2>1. Headed(p)
      BY <1>4, <1>5, <1>8
    <2>2. tcb[p].p_cptr = Null => Kids(p) = {}
      BY <1>7 DEF Kids, Related
    <2>3. tcb[p].p_cptr # Null => tcb[p].p_cptr \in Kids(p) /\ tcb[tcb[p].p_cptr].p_ysptr = Null
      BY <1>5, <2>1 DEF Headed, Kids
    <2> QED
      BY <2>1, <2>2, <2>3 DEF Fathers, Headed
  <1> QED
    BY <1>7, <1>8

(* Nothing maps a set one to one to a smaller one. *)
LEMMA TooMany ==
  ASSUME NEW S, NEW T, IsFiniteSet(S), IsFiniteSet(T), Cardinality(T) < Cardinality(S),
         NEW f \in [S -> T], \A x, y \in S : f[x] = f[y] => x = y
  PROVE  FALSE
  <1>1. \E x, y \in S : x # y /\ f[x] = f[y]
    BY FS_PigeonHole
  <1> QED
    BY <1>1, Zenon

(* The list of the children of a task has them all, and no other. *)
LEMMA ListedIs ==
  ASSUME MInv, FInv, NEW p, There(p)
  PROVE  Listed(p) = Kids(p)
  <1> DEFINE c == Child(p)
  <1>1. /\ c \in [0 .. NrTasks -> Ptr] /\ c[0] = tcb[p].p_cptr
        /\ \A k \in 0 .. NrTasks - 1 : c[k + 1] = IF c[k] = Null THEN Null ELSE tcb[c[k]].p_osptr
    BY ThereIs, ChildIs DEF MInv
  <1>2. Listed(p) = {c[k] : k \in 0 .. NrTasks} \ {Null}
    BY DEF Listed
  <1>3. Fathers(p) /\ \A x \in Pages : There(x) => Related(x)
    BY Kinship
  <1>4. NrTasks \in Nat /\ Null \notin Pages /\ 0 \in 0 .. NrTasks
        /\ \A k \in 0 .. NrTasks : k < NrTasks => k \in 0 .. NrTasks - 1 /\ k + 1 \in 0 .. NrTasks
    BY Constants
  <1> HIDE DEF c
  <1>5. \A k \in 0 .. NrTasks : c[k] = Null \/ c[k] \in Kids(p)
    <2> DEFINE P == {k \in 0 .. NrTasks : c[k] = Null \/ c[k] \in Kids(p)}
    <2>1. 0 \in P
      BY <1>1, <1>3, <1>4 DEF Fathers
    <2>2. ASSUME NEW k \in 0 .. NrTasks, k \in P, k < NrTasks PROVE k + 1 \in P
      <3>1. c[k] \in Kids(p) => tcb[c[k]].p_osptr = Null \/ tcb[c[k]].p_osptr \in Kids(p)
        BY <1>3 DEF Kids, Related
      <3> QED
        BY <1>1, <1>4, <2>2, <3>1
    <2>3. \A k \in 0 .. NrTasks : k \in P
      <3> HIDE DEF P
      <3> QED
        BY <1>4, <2>1, <2>2, UpTo
    <2> QED
      BY <2>3
  <1>6. ASSUME NEW x \in Kids(p), \A k \in 0 .. NrTasks : c[k] # x PROVE FALSE
    <2>1. PICK top \in Nat : \E r \in [Pages -> 0 .. top] : Order(r)
      BY DEF FInv, Ranked
    <2>2. PICK r \in [Pages -> 0 .. top] : Order(r)
      BY <2>1
    <2>3. /\ \A y \in Kids(p) : y \in Pages /\ There(y) /\ Siblings(x, y) /\ Siblings(y, x) /\ r[y] \in Nat
          /\ tcb[x].p_pptr = p
      BY <2>2 DEF Kids, Siblings
    <2> DEFINE P == {k \in 0 .. NrTasks : c[k] \in Kids(p) /\ r[x] < r[c[k]]}
    <2>4. 0 \in P
      <3>1. c[0] # Null /\ r[x] <= r[c[0]]
        BY <1>1, <2>2, <2>3 DEF Order
      <3>2. c[0] \in Kids(p) /\ c[0] # x
        BY <1>4, <1>5, <1>6, <3>1
      <3>3. r[x] # r[c[0]]
        BY <2>2, <2>3, <3>2 DEF Order
      <3> QED
        BY <1>4, <2>3, <3>1, <3>2, <3>3
    <2>5. ASSUME NEW k \in 0 .. NrTasks, k \in P, k < NrTasks
          PROVE  k + 1 \in P /\ r[c[k + 1]] < r[c[k]]
      <3>1. c[k] \in Kids(p) /\ r[x] < r[c[k]]
        BY <2>5
      <3>2. tcb[c[k]].p_osptr # Null /\ r[x] <= r[tcb[c[k]].p_osptr]
        BY <2>2, <2>3, <3>1 DEF Order
      <3>3. c[k + 1] = tcb[c[k]].p_osptr
        BY <1>1, <1>4, <2>3, <2>5, <3>1
      <3>4. c[k + 1] \in Kids(p) /\ c[k + 1] # x
        BY <1>4, <1>5, <1>6, <2>5, <3>2, <3>3
      <3>5. r[x] # r[c[k + 1]]
        BY <2>2, <2>3, <3>4 DEF Order
      <3>6. r[c[k + 1]] < r[c[k]]
        BY <2>2, <2>3, <3>1, <3>3, <3>4 DEF Order, Siblings
      <3> QED
        BY <1>4, <2>3, <2>5, <3>2, <3>3, <3>4, <3>5, <3>6
    <2>6. \A k \in 0 .. NrTasks : k \in P
      <3> HIDE DEF P
      <3> QED
        BY <1>4, <2>4, <2>5, UpTo
    <2>7. \A k \in 0 .. NrTasks : c[k] \in Kids(p) /\ c[k] \in Pages /\ There(c[k]) /\ r[c[k]] \in Nat
      BY <2>3, <2>6
    <2> DEFINE Q == {k \in 0 .. NrTasks : \A j \in 0 .. NrTasks : j < k => r[c[k]] < r[c[j]]}
    <2>8. \A k \in 0 .. NrTasks : k \in Q
      <3>1. 0 \in Q
        BY <1>4
      <3>2. ASSUME NEW k \in 0 .. NrTasks, k \in Q, k < NrTasks PROVE k + 1 \in Q
        <4>1. r[c[k + 1]] < r[c[k]] /\ k + 1 \in 0 .. NrTasks
          BY <1>4, <2>5, <2>6, <3>2
        <4>2. ASSUME NEW j \in 0 .. NrTasks, j < k + 1 PROVE r[c[k + 1]] < r[c[j]]
          <5>1. j = k \/ j < k
            BY <4>2
          <5>2. j < k => r[c[k]] < r[c[j]]
            BY <3>2
          <5>3. r[c[k + 1]] \in Nat /\ r[c[k]] \in Nat /\ r[c[j]] \in Nat
            BY <2>7, <4>1
          <5> HIDE DEF P, Q
          <5> QED
            BY <4>1, <5>1, <5>2, <5>3
        <4> QED
          BY <4>1, <4>2
      <3> HIDE DEF Q
      <3> QED
        BY <1>4, <3>1, <3>2, UpTo
    <2>9. \A j, k \in 0 .. NrTasks : c[j] = c[k] => j = k
      <3> SUFFICES ASSUME NEW j \in 0 .. NrTasks, NEW k \in 0 .. NrTasks, c[j] = c[k], j # k
                   PROVE  FALSE
        OBVIOUS
      <3>1. j < k \/ k < j
        OBVIOUS
      <3>2. r[c[k]] < r[c[j]] \/ r[c[j]] < r[c[k]]
        BY <2>8, <3>1
      <3>3. r[c[j]] \in Nat
        BY <2>7
      <3> HIDE DEF P, Q
      <3> QED
        BY <3>2, <3>3
    <2> DEFINE f == [k \in 0 .. NrTasks |-> CHOOSE n \in TaskNrs : task[n] = c[k]]
    <2>10. \A k \in 0 .. NrTasks : f[k] \in TaskNrs /\ task[f[k]] = c[k]
      <3>1. \A k \in 0 .. NrTasks : c[k] # Low /\ \E n \in TaskNrs : task[n] = c[k]
        BY <2>7, ThereIs
      <3> QED
        BY <3>1
    <2>11. f \in [0 .. NrTasks -> TaskNrs] /\ \A j, k \in 0 .. NrTasks : f[j] = f[k] => j = k
      <3>1. f \in [0 .. NrTasks -> TaskNrs]
        BY <2>10
      <3> HIDE DEF f, P, Q
      <3> QED
        BY <2>9, <2>10, <3>1
    <2>12. IsFiniteSet(0 .. NrTasks) /\ Cardinality(0 .. NrTasks) = NrTasks + 1
      <3>1. 0 \in Int /\ NrTasks \in Int /\ ~(0 > NrTasks)
        BY <1>4
      <3>2. IsFiniteSet(0 .. NrTasks)
            /\ Cardinality(0 .. NrTasks) = IF 0 > NrTasks THEN 0 ELSE NrTasks - 0 + 1
        BY <3>1, FS_Interval
      <3> QED
        BY <1>4, <3>1, <3>2
    <2>13. Cardinality(TaskNrs) < Cardinality(0 .. NrTasks)
      BY <1>4, <2>12, Constants
    <2>14. IsFiniteSet(TaskNrs)
      BY Constants
    <2> HIDE DEF f, P, Q
    <2> QED
      BY <2>11, <2>12, <2>13, <2>14, TooMany, Zenon
  <1>7. Kids(p) \subseteq {c[k] : k \in 0 .. NrTasks}
    BY <1>6
  <1>8. Null \notin Kids(p)
    BY <1>4 DEF Kids
  <1> QED
    BY <1>2, <1>5, <1>7, <1>8

-----------------------------------------------------------------------------
(* The steps that leave the links alone. *)
SameLinks ==
  /\ task' = task
  /\ \A x \in Pages \union {Low} :
       /\ tcb'[x].p_pptr = tcb[x].p_pptr /\ tcb'[x].p_cptr = tcb[x].p_cptr
       /\ tcb'[x].p_ysptr = tcb[x].p_ysptr /\ tcb'[x].p_osptr = tcb[x].p_osptr
       /\ tcb'[x].at = "zombie" => tcb[x].at = "zombie"

(* They keep the family as it is. *)
LEMMA SameFamily ==
  ASSUME MInv, FInv, SameLinks, Noticed'
  PROVE  FInv'
  <1>1. \A x : There(x)' <=> There(x)
    BY DEF SameLinks, There
  <1>2. /\ \A x : There(x) => x \in Pages \union {Low}
        /\ \A x : There(x) /\ x # Low => x \in Pages
        /\ There(task[1]) /\ task[1] \in Pages /\ task'[1] = task[1]
        /\ Low \notin Pages /\ Null \notin Pages /\ ~There(Null)
    BY ThereIs DEF SameLinks
  <1>3. ASSUME NEW x \in Pages \union {Low}
        PROVE  /\ tcb'[x].p_pptr = tcb[x].p_pptr /\ tcb'[x].p_cptr = tcb[x].p_cptr
               /\ tcb'[x].p_ysptr = tcb[x].p_ysptr /\ tcb'[x].p_osptr = tcb[x].p_osptr
               /\ tcb'[x].at = "zombie" => tcb[x].at = "zombie"
    BY DEF SameLinks
  <1>4. Links'
    <2>1. ASSUME NEW c \in Pages, There(c) PROVE Linked(c)'
      <3>1. Linked(c)
        BY <2>1 DEF FInv, Links
      <3> QED
        BY <1>1, <1>2, <1>3, <3>1 DEF Linked
    <2>2. ASSUME NEW p \in Pages \union {Low}, There(p) PROVE Headed(p)'
      <3>1. Headed(p)
        BY <2>2 DEF FInv, Links
      <3> QED
        BY <1>1, <1>2, <1>3, <3>1 DEF Headed
    <2>3. /\ tcb'[Low].p_pptr = Null /\ tcb'[Low].p_ysptr = Null /\ tcb'[Low].p_osptr = Null
      BY <1>3 DEF FInv, Links
    <2> QED
      BY <1>1, <2>1, <2>2, <2>3 DEF Links
  <1>5. Ranked'
    <2>1. PICK top \in Nat : \E r \in [Pages -> 0 .. top] : Order(r)
      BY DEF FInv, Ranked
    <2>2. PICK r \in [Pages -> 0 .. top] : Order(r)
      BY <2>1
    <2>3. Order(r)'
      <3> SUFFICES ASSUME NEW c \in Pages, NEW d \in Pages, Siblings(c, d)'
                   PROVE  /\ r[c] = r[d] => c = d
                          /\ r[d] < r[c] => tcb'[c].p_osptr # Null /\ r[d] <= r[tcb'[c].p_osptr]
                          /\ tcb'[c].p_osptr = d => r[d] < r[c]
                          /\ tcb'[tcb'[c].p_pptr].p_cptr # Null
                          /\ r[c] <= r[tcb'[tcb'[c].p_pptr].p_cptr]
        BY DEF Order
      <3>1. Siblings(c, d) /\ There(c)
        BY <1>1, <1>3 DEF Siblings
      <3>2. tcb[c].p_pptr \in Pages \union {Low}
        BY <1>2, <3>1 DEF FInv, Links, Linked
      <3> QED
        BY <1>3, <2>2, <3>1, <3>2 DEF Order
    <2> QED
      BY <2>3 DEF Ranked
  <1>6. Descends'
    <2>1. PICK d \in [Pages -> Nat] : Descent(d)
      BY DEF FInv, Descends
    <2>2. Descent(d)'
      BY <1>1, <1>2, <1>3, <2>1 DEF Descent
    <2> QED
      BY <2>2 DEF Descends
  <1> QED
    BY <1>4, <1>5, <1>6 DEF FInv

(* One that leaves the structs and the tasks alone does. *)
LEMMA SameTcb ==
  ASSUME MInv, FInv, task' = task, tcb' = tcb
  PROVE  FInv'
  <1>1. Noticed'
    <2>1. \A x : There(x)' <=> There(x)
      BY DEF There
    <2> QED
      BY <2>1 DEF FInv, Noticed
  <1>2. SameLinks
    BY DEF SameLinks
  <1> QED
    BY <1>1, <1>2, SameFamily

(* The struct at x is at another place, all else is what it was. *)
Moved(x, at) == task' = task /\ tcb' = [tcb EXCEPT ![x].at = at]

(* What that means, field by field. *)
LEMMA MovedIs ==
  ASSUME Types, NEW x \in Pages, NEW at \in {"user", "exiting", "waiting"}, Moved(x, at)
  PROVE  /\ SameLinks /\ tcb' \in [Pages \union {Low} -> Structs]
         /\ \A c : There(c)' <=> There(c)
         /\ \A c \in Pages \union {Low} : /\ tcb'[c].at = IF c = x THEN at ELSE tcb[c].at
                                          /\ tcb'[c].sigchld = tcb[c].sigchld
                                          /\ tcb'[c].p_pptr = tcb[c].p_pptr
  <1> DEFINE s == [tcb[x] EXCEPT !.at = at]
  <1>1. tcb \in [Pages \union {Low} -> Structs] /\ tcb' = [tcb EXCEPT ![x] = s]
    BY DEF Types, Moved
  <1>2. /\ s \in Structs /\ s.at = at /\ s.sigchld = tcb[x].sigchld
        /\ s.p_pptr = tcb[x].p_pptr /\ s.p_cptr = tcb[x].p_cptr
        /\ s.p_ysptr = tcb[x].p_ysptr /\ s.p_osptr = tcb[x].p_osptr
    BY <1>1 DEF Structs
  <1> HIDE DEF s
  <1>3. tcb' \in [Pages \union {Low} -> Structs] /\ tcb'[x] = s
        /\ \A c \in Pages \union {Low} : c # x => tcb'[c] = tcb[c]
    BY <1>1, <1>2
  <1>4. \A c \in Pages \union {Low} : /\ tcb'[c].at = IF c = x THEN at ELSE tcb[c].at
                                      /\ tcb'[c].sigchld = tcb[c].sigchld
                                      /\ tcb'[c].p_pptr = tcb[c].p_pptr
    BY <1>2, <1>3
  <1>5. SameLinks
    BY <1>2, <1>3 DEF SameLinks, Moved
  <1>6. \A c : There(c)' <=> There(c)
    BY DEF Moved, There
  <1> QED
    BY <1>3, <1>4, <1>5, <1>6

(* do_exit, at its start, and waitpid, when it sleeps. *)
LEMMA ExitFamily ==
  ASSUME MInv, FInv, NEW nr \in TaskNrs, Gives(nr)
  PROVE  FInv'
  <1>1. task[nr] \in Pages /\ Moved(task[nr], "exiting") /\ Types
    BY OwnPages DEF Gives, Moved, MInv
  <1>2. /\ SameLinks /\ \A c : There(c)' <=> There(c)
        /\ \A c \in Pages \union {Low} : /\ tcb'[c].at = IF c = task[nr] THEN "exiting" ELSE tcb[c].at
                                         /\ tcb'[c].sigchld = tcb[c].sigchld
                                         /\ tcb'[c].p_pptr = tcb[c].p_pptr
    BY <1>1, MovedIs
  <1>3. Noticed'
    <2> SUFFICES ASSUME NEW c \in Pages, There(c), tcb'[c].at = "zombie",
                        tcb'[tcb'[c].p_pptr].at = "waiting"
                 PROVE  tcb'[tcb'[c].p_pptr].sigchld
      BY <1>2 DEF Noticed
    <2>1. tcb[c].p_pptr \in Pages \union {Low}
      BY Kinship DEF Related
    <2>2. tcb[c].at = "zombie" /\ tcb[tcb[c].p_pptr].at = "waiting"
      BY <1>2, <2>1
    <2>3. tcb[tcb[c].p_pptr].sigchld
      BY <2>2 DEF FInv, Noticed
    <2> QED
      BY <1>2, <2>1, <2>3
  <1> QED
    BY <1>2, <1>3, SameFamily

(* A task that goes to sleep in waitpid has no child that is gone. *)
LEMMA WaitKeeps ==
  ASSUME MInv, FInv, NEW nr \in TaskNrs, Wait(nr)
  PROVE  MInv' /\ FInv'
  <1>1. /\ task[nr] # Null /\ Struct(nr).at = "user" /\ retry = NoRetry
        /\ \A c \in Listed(task[nr]) : ~IsZombie(c)
        /\ tcb' = [tcb EXCEPT ![task[nr]].at = "waiting"]
        /\ UNCHANGED <<mem_map, content, task, dir, pt, retry, machine, halted>>
    BY DEF Wait, Calls, User, Present
  <1>2. task[nr] \in Pages /\ Moved(task[nr], "waiting") /\ Types /\ There(task[nr])
    BY <1>1, ThereIs DEF Moved, MInv
  <1>3. /\ SameLinks /\ tcb' \in [Pages \union {Low} -> Structs] /\ \A c : There(c)' <=> There(c)
        /\ \A c \in Pages \union {Low} : /\ tcb'[c].at = IF c = task[nr] THEN "waiting" ELSE tcb[c].at
                                         /\ tcb'[c].sigchld = tcb[c].sigchld
                                         /\ tcb'[c].p_pptr = tcb[c].p_pptr
    BY <1>2, MovedIs
  <1>4. OnlyStructs
    <2>1. \A n \in TaskNrs : task[n] # Null =>
            (Struct(n)'.at \in {"user", "waiting"} <=> Struct(n).at \in {"user", "waiting"})
      BY <1>1, <1>3, ThereIs DEF Struct
    <2> QED
      BY <1>1, <1>3, <2>1 DEF OnlyStructs, MInv, Types
  <1>5. MInv'
    BY <1>4, StructsKeep
  <1>6. Noticed'
    <2> SUFFICES ASSUME NEW c \in Pages, There(c), tcb'[c].at = "zombie",
                        tcb'[tcb'[c].p_pptr].at = "waiting"
                 PROVE  tcb'[tcb'[c].p_pptr].sigchld
      BY <1>3 DEF Noticed
    <2>1. tcb[c].p_pptr \in Pages \union {Low} /\ c \in Kids(tcb[c].p_pptr)
      BY Kinship DEF Related
    <2>2. tcb[c].at = "zombie"
      BY <1>3
    <2>3. tcb[c].p_pptr # task[nr]
      BY <1>1, <1>2, <2>1, <2>2, ListedIs DEF IsZombie
    <2>4. tcb[tcb[c].p_pptr].at = "waiting"
      BY <1>3, <2>1, <2>3
    <2>5. tcb[tcb[c].p_pptr].sigchld
      BY <2>2, <2>4 DEF FInv, Noticed
    <2> QED
      BY <1>3, <2>1, <2>5
  <1> QED
    BY <1>3, <1>5, <1>6, SameFamily

-----------------------------------------------------------------------------
(* A child p is born to the task f: what is there, and the links. *)
Grows(p, f) ==
  /\ p \in Pages /\ f \in Pages /\ There(f) /\ ~There(p) /\ task'[1] = task[1]
  /\ tcb[f].at = "user"
  /\ \A x : There(x)' <=> There(x) \/ x = p
  /\ \A x \in Pages \union {Low} : BornTcb(p, f, x)

(* Fork does that. *)
LEMMA ForkGrows ==
  ASSUME MInv, NEW nr \in TaskNrs, NEW child \in TaskNrs, NEW p \in Pages, NEW q \in Pages,
         Forks(nr, child, p, q)
  PROVE  Grows(p, task[nr])
  <1>1. /\ child # nr /\ Nobody(p)
        /\ \A n \in 0 .. NrTasks - 1 : task'[n] = IF n = child THEN p ELSE task[n]
    BY ForkTables
  <1>2. task[child] = Null /\ task[nr] # Null /\ Struct(nr).at = "user" /\ tcb' = Born(p, task[nr])
    BY DEF Forks
  <1>3. task[nr] \in Pages /\ There(task[nr])
    BY <1>2, ThereIs
  <1>4. Types
    BY DEF MInv
  <1>5. \A x \in Pages \union {Low} : BornTcb(p, task[nr], x)
    BY <1>2, <1>3, <1>4, BornIs
  <1>6. child \in 0 .. NrTasks - 1 /\ 1 \in 0 .. NrTasks - 1 /\ p # Null
    BY Constants
  <1>7. \A x : There(x)' <=> There(x) \/ x = p
    BY <1>1, <1>2, <1>6 DEF There
  <1>8. ~There(p)
    BY <1>1, ThereIs DEF Nobody
  <1>9. task'[1] = task[1]
    BY <1>1, <1>2, <1>6, ThereIs
  <1> QED
    BY <1>2, <1>3, <1>5, <1>7, <1>8, <1>9 DEF Grows, Struct

(* What the next state must say of the links of a task, and of a father. *)
Stands(c, f, o, y) ==
  /\ tcb'[c].p_pptr = f /\ tcb'[c].p_osptr = o /\ tcb'[c].p_ysptr = y
  /\ There(f)' /\ (f = Low <=> c = task'[1])
  /\ o # Null => There(o)' /\ o # Low /\ tcb'[o].p_pptr = f /\ tcb'[o].p_ysptr = c
  /\ y # Null => There(y)' /\ y # Low /\ tcb'[y].p_pptr = f /\ tcb'[y].p_osptr = c
  /\ y = Null => tcb'[f].p_cptr = c
Heads(x, h) ==
  /\ tcb'[x].p_cptr = h
  /\ h # Null => There(h)' /\ h # Low /\ tcb'[h].p_pptr = x /\ tcb'[h].p_ysptr = Null
  /\ tcb'[x].at = "zombie" => h = Null

(* It is what the invariant asks for. *)
LEMMA StandsIs ==
  /\ \A c, f, o, y : Stands(c, f, o, y) => Linked(c)'
  /\ \A x, h : Heads(x, h) => Headed(x)'
  <1>1. ASSUME NEW c, NEW f, NEW o, NEW y, Stands(c, f, o, y) PROVE Linked(c)'
    <2>1. /\ tcb'[c].p_pptr = f /\ tcb'[c].p_osptr = o /\ tcb'[c].p_ysptr = y
      BY <1>1 DEF Stands
    <2>2. There(tcb[c].p_pptr)' <=> There(f)'
      BY <2>1
    <2>3. There(tcb[c].p_osptr)' <=> There(o)'
      BY <2>1
    <2>4. There(tcb[c].p_ysptr)' <=> There(y)'
      BY <2>1
    <2> QED
      BY <1>1, <2>1, <2>2, <2>3, <2>4 DEF Stands, Linked
  <1>2. ASSUME NEW x, NEW h, Heads(x, h) PROVE Headed(x)'
    <2>1. tcb'[x].p_cptr = h
      BY <1>2 DEF Heads
    <2>2. There(tcb[x].p_cptr)' <=> There(h)'
      BY <2>1
    <2> QED
      BY <1>2, <2>1, <2>2 DEF Heads, Headed
  <1> QED
    BY <1>1, <1>2

(* The links after a birth. *)
LEMMA GrowsLinks ==
  ASSUME MInv, FInv, NEW p, NEW f, Grows(p, f)
  PROVE  Links'
  <1>1. /\ p \in Pages /\ f \in Pages /\ There(f) /\ ~There(p) /\ task'[1] = task[1]
        /\ tcb[f].at = "user"
        /\ \A x : There(x)' <=> There(x) \/ x = p
    BY DEF Grows
  <1>2. /\ tcb'[p].at = "user" /\ tcb'[p].p_pptr = f
        /\ tcb'[p].p_cptr = Null /\ tcb'[p].p_ysptr = Null /\ tcb'[p].p_osptr = tcb[f].p_cptr
    BY <1>1 DEF Grows, BornTcb
  <1>3. ASSUME NEW x \in Pages \union {Low}, x # p
        PROVE  /\ tcb'[x].at = tcb[x].at
               /\ tcb'[x].p_pptr = tcb[x].p_pptr /\ tcb'[x].p_osptr = tcb[x].p_osptr
               /\ tcb'[x].p_cptr = IF x = f THEN p ELSE tcb[x].p_cptr
               /\ tcb'[x].p_ysptr = IF x = tcb[f].p_cptr THEN p ELSE tcb[x].p_ysptr
    BY <1>3, Zenon DEF Grows, BornTcb
  <1>4. /\ There(task[1]) /\ task[1] \in Pages /\ Low \notin Pages /\ Null \notin Pages
        /\ \A x : There(x) => x \in Pages \union {Low} /\ x # Null /\ x # p
        /\ \A x : There(x) /\ x # Low => x \in Pages
    BY <1>1, ThereIs
  <1>5. /\ \A c \in Pages : There(c) => Related(c)
        /\ \A x : There(x) => Fathers(x)
        /\ \A x, c : c \in Kids(x) <=> c \in Pages /\ There(c) /\ tcb[c].p_pptr = x
    BY Kinship DEF Kids
  <1>0. PICK older : older = tcb[f].p_cptr
    OBVIOUS
  <1>6. older # Null => older \in Pages /\ There(older) /\ tcb[older].p_pptr = f
                        /\ tcb[older].p_ysptr = Null /\ older # p /\ older # Low
    BY <1>0, <1>1, <1>4, <1>5 DEF Fathers
  <1>7. tcb'[Low].p_pptr = Null /\ tcb'[Low].p_ysptr = Null /\ tcb'[Low].p_osptr = Null
    <2>1. Low # p /\ Low # older
      BY <1>0, <1>1, <1>4, <1>6, Constants
    <2> QED
      BY <1>0, <1>3, <2>1 DEF FInv, Links
  <1>8. Linked(p)'
    <2>1. older # Null => There(older)' /\ older # Low /\ tcb'[older].p_pptr = f /\ tcb'[older].p_ysptr = p
      <3>1. ASSUME older # Null PROVE tcb'[older].p_pptr = f /\ tcb'[older].p_ysptr = p
        <4>1. older \in Pages \union {Low} /\ older # p /\ older = tcb[f].p_cptr /\ tcb[older].p_pptr = f
          BY <1>0, <1>6, <3>1
        <4> QED
          BY <1>3, <4>1
      <3> QED
        BY <1>1, <1>6, <3>1
    <2>2. tcb'[f].p_cptr = p /\ There(f)' /\ f # Low /\ p # task'[1]
      <3>1. f # p /\ f \in Pages \union {Low} /\ There(f)' /\ f # Low /\ p # task'[1]
        <4>1. f # p /\ There(f)' /\ p # task'[1]
          BY <1>1, <1>4, Zenon
        <4> QED
          BY <1>1, <1>4, <4>1
      <3>2. tcb'[f].p_cptr = IF f = f THEN p ELSE tcb[f].p_cptr
        BY <1>3, <3>1
      <3> QED
        BY <3>1, <3>2
    <2>3. Stands(p, f, older, Null)
      BY <1>0, <1>2, <2>1, <2>2 DEF Stands
    <2> QED
      BY <2>3, StandsIs
  <1>9. ASSUME NEW c \in Pages, There(c) PROVE Linked(c)'
    <2>1. PICK g, o, y : g = tcb[c].p_pptr /\ o = tcb[c].p_osptr /\ y = tcb[c].p_ysptr
      OBVIOUS
    <2>2. Related(c) /\ c # p /\ \A x : x \in Kids(g) => x \in Pages /\ There(x) /\ tcb[x].p_pptr = g
      <3>1. Related(c) /\ c # p
        BY <1>4, <1>5, <1>9
      <3>2. \A x : x \in Kids(g) => x \in Pages /\ There(x) /\ tcb[x].p_pptr = g
        BY DEF Kids
      <3> QED
        BY <3>1, <3>2
    <2>3. /\ There(g) /\ g \in Pages \union {Low} /\ (g = Low <=> c = task[1]) /\ g # p
          /\ o # Null => o \in Pages /\ There(o) /\ tcb[o].p_pptr = g /\ tcb[o].p_ysptr = c
          /\ y # Null => y \in Pages /\ There(y) /\ tcb[y].p_pptr = g /\ tcb[y].p_osptr = c
          /\ y = Null => tcb[g].p_cptr = c
      BY <1>4, <2>1, <2>2 DEF Related
    <2>4. /\ tcb'[c].p_pptr = g /\ tcb'[c].p_osptr = o
          /\ tcb'[c].p_ysptr = IF c = older THEN p ELSE y
      BY <1>0, <1>3, <2>1, <2>2
    <2>5. There(g)' /\ (g = Low <=> c = task'[1])
      BY <1>1, <2>3
    <2>6. ASSUME o # Null
          PROVE  There(o)' /\ o # Low /\ tcb'[o].p_pptr = g /\ tcb'[o].p_ysptr = c
      <3>1. o # older /\ o # p /\ o # Low /\ There(o)'
        BY <1>1, <1>4, <1>6, <1>9, <2>3, <2>6
      <3>2. /\ tcb'[o].p_pptr = tcb[o].p_pptr
            /\ tcb'[o].p_ysptr = IF o = tcb[f].p_cptr THEN p ELSE tcb[o].p_ysptr
        BY <1>3, <2>3, <2>6, <3>1
      <3> QED
        BY <1>0, <2>3, <2>6, <3>1, <3>2
    <2>7. CASE c = older
      <3>1. y = Null /\ g = f /\ p # Null /\ p # Low
        BY <1>1, <1>4, <1>6, <1>9, <2>1, <2>7
      <3>2. There(p)' /\ tcb'[p].p_pptr = g /\ tcb'[p].p_osptr = c
        BY <1>0, <1>1, <1>2, <2>7, <3>1
      <3>3. Stands(c, g, o, p)
        BY <2>4, <2>5, <2>6, <2>7, <3>1, <3>2 DEF Stands
      <3> QED
        BY <3>3, StandsIs
    <2>8. CASE c # older
      <3>1. ASSUME y # Null PROVE There(y)' /\ y # Low /\ tcb'[y].p_pptr = g /\ tcb'[y].p_osptr = c
        <4>1. y # p /\ y # Low /\ There(y)' /\ y \in Pages \union {Low}
          BY <1>1, <1>4, <2>3, <3>1
        <4>2. tcb'[y].p_pptr = tcb[y].p_pptr /\ tcb'[y].p_osptr = tcb[y].p_osptr
          BY <1>3, <4>1
        <4> QED
          BY <2>3, <3>1, <4>1, <4>2
      <3>2. y = Null => tcb'[g].p_cptr = c
        <4>1. y = Null => g # f
          BY <1>0, <2>3, <2>8
        <4>2. tcb'[g].p_cptr = IF g = f THEN p ELSE tcb[g].p_cptr
          BY <1>3, <2>3
        <4> QED
          BY <2>3, <4>1, <4>2
      <3>3. Stands(c, g, o, y)
        BY <2>4, <2>5, <2>6, <2>8, <3>1, <3>2 DEF Stands
      <3> QED
        BY <3>3, StandsIs
    <2> QED
      BY <2>7, <2>8
  <1>10. ASSUME NEW x \in Pages \union {Low}, There(x)' PROVE Headed(x)'
    <2>1. CASE x = p
      <3>1. Heads(p, Null)
        BY <1>2 DEF Heads
      <3> QED
        BY <2>1, <3>1, StandsIs
    <2>2. CASE x = f
      <3>1. tcb'[f].p_cptr = p /\ tcb'[f].at = "user" /\ There(p)' /\ p # Low
        BY <1>1, <1>3, <1>4
      <3>2. Heads(f, p)
        BY <1>2, <3>1 DEF Heads
      <3> QED
        BY <2>2, <3>2, StandsIs
    <2>3. CASE x # p /\ x # f
      <3>1. PICK h : h = tcb[x].p_cptr
        OBVIOUS
      <3>2. There(x) /\ tcb'[x].p_cptr = h /\ tcb'[x].at = tcb[x].at
        BY <1>1, <1>3, <1>10, <2>3, <3>1
      <3>3. /\ h # Null => h \in Pages /\ There(h) /\ tcb[h].p_pptr = x /\ tcb[h].p_ysptr = Null
            /\ tcb[x].at = "zombie" => h = Null
        BY <1>5, <3>1, <3>2 DEF Fathers
      <3>4. ASSUME h # Null PROVE There(h)' /\ h # Low /\ tcb'[h].p_pptr = x /\ tcb'[h].p_ysptr = Null
        <4>1. h # older /\ h # p /\ h # Low /\ There(h)'
          BY <1>1, <1>4, <1>6, <2>3, <3>3, <3>4
        <4>2. /\ tcb'[h].p_pptr = tcb[h].p_pptr
              /\ tcb'[h].p_ysptr = IF h = tcb[f].p_cptr THEN p ELSE tcb[h].p_ysptr
          BY <1>3, <3>3, <3>4, <4>1
        <4> QED
          BY <1>0, <3>3, <3>4, <4>1, <4>2
      <3>5. Heads(x, h)
        BY <3>2, <3>3, <3>4 DEF Heads
      <3> QED
        BY <3>5, StandsIs
    <2> QED
      BY <2>1, <2>2, <2>3
  <1> QED
    BY <1>1, <1>7, <1>8, <1>9, <1>10 DEF Links

(* The ranks, the descent and what is noticed, after a birth. *)
LEMMA GrowsRest ==
  ASSUME MInv, FInv, NEW p, NEW f, Grows(p, f)
  PROVE  Ranked' /\ Descends' /\ Noticed'
  <1>1. /\ p \in Pages /\ f \in Pages /\ There(f) /\ ~There(p) /\ task'[1] = task[1]
        /\ \A x : There(x)' <=> There(x) \/ x = p
    BY DEF Grows
  <1>2. /\ tcb'[p].at = "user" /\ tcb'[p].p_pptr = f /\ tcb'[p].p_osptr = tcb[f].p_cptr
    BY <1>1 DEF Grows, BornTcb
  <1>3. ASSUME NEW x \in Pages \union {Low}, x # p
        PROVE  /\ tcb'[x].at = tcb[x].at /\ tcb'[x].sigchld = tcb[x].sigchld
               /\ tcb'[x].p_pptr = tcb[x].p_pptr /\ tcb'[x].p_osptr = tcb[x].p_osptr
               /\ tcb'[x].p_cptr = IF x = f THEN p ELSE tcb[x].p_cptr
    BY <1>3, Zenon DEF Grows, BornTcb
  <1>4. /\ There(task[1]) /\ task[1] \in Pages /\ Low \notin Pages /\ Null \notin Pages
        /\ \A x : There(x) => x \in Pages \union {Low} /\ x # Null /\ x # p
        /\ \A x : There(x) /\ x # Low => x \in Pages
    BY <1>1, ThereIs
  <1>5. ASSUME NEW c \in Pages, There(c)
        PROVE  /\ There(tcb[c].p_pptr) /\ tcb[c].p_pptr \in Pages \union {Low} /\ tcb[c].p_pptr # p
               /\ tcb[c].p_osptr # Null => There(tcb[c].p_osptr) /\ tcb[c].p_osptr # p
               /\ tcb[c].p_pptr = Low <=> c = task[1]
    BY <1>4, <1>5, Kinship DEF Related, Kids
  <1>6. Ranked'
    <2>1. PICK top \in Nat : \E r \in [Pages -> 0 .. top] : Order(r)
      BY DEF FInv, Ranked
    <2>2. PICK r \in [Pages -> 0 .. top] : Order(r)
      BY <2>1
    <2> DEFINE s == [x \in Pages |-> IF x = p THEN top + 1 ELSE r[x]]
    <2>3. top + 1 \in Nat /\ s \in [Pages -> 0 .. top + 1]
      BY <2>2
    <2>4. s[p] = top + 1 /\ \A x \in Pages : x # p => s[x] = r[x] /\ r[x] \in Nat /\ r[x] <= top
      BY <1>1, <2>2
    <2> HIDE DEF s
    <2>5. Order(s)'
      <3> SUFFICES ASSUME NEW c \in Pages, NEW d \in Pages, Siblings(c, d)'
                   PROVE  /\ s[c] = s[d] => c = d
                          /\ s[d] < s[c] => tcb'[c].p_osptr # Null /\ s[d] <= s[tcb'[c].p_osptr]
                          /\ tcb'[c].p_osptr = d => s[d] < s[c]
                          /\ tcb'[tcb'[c].p_pptr].p_cptr # Null
                          /\ s[c] <= s[tcb'[tcb'[c].p_pptr].p_cptr]
        BY DEF Order
      <3>1. /\ c # p => There(c)
            /\ d # p => There(d)
            /\ tcb'[c].p_pptr = tcb'[d].p_pptr
        <4>1. There(c)' /\ There(d)' /\ tcb'[c].p_pptr = tcb'[d].p_pptr
          BY DEF Siblings
        <4> QED
          BY <1>1, <4>1, Zenon
      <3>2. ASSUME NEW x \in Pages, There(x), tcb[x].p_pptr = f
            PROVE  tcb[f].p_cptr # Null /\ r[x] <= r[tcb[f].p_cptr] /\ tcb[f].p_cptr \in Pages
                   /\ tcb[f].p_cptr # p
        <4>1. Siblings(x, x)
          BY <3>2 DEF Siblings
        <4>2. tcb[f].p_cptr # Null /\ r[x] <= r[tcb[f].p_cptr]
          BY <2>2, <3>2, <4>1 DEF Order
        <4>3. tcb[f].p_cptr \in Kids(f)
          BY <1>1, <4>2, Kinship DEF Fathers
        <4> QED
          BY <1>1, <4>2, <4>3 DEF Kids
      <3>3. CASE c = p /\ d = p
        <4>1. tcb'[f].p_cptr = p /\ p # Null
          BY <1>1, <1>3, <1>4
        <4>2. tcb[f].p_cptr # p
          BY <1>1, <1>4, Kinship DEF Fathers, Kids
        <4> QED
          BY <1>2, <2>4, <3>3, <4>1, <4>2
      <3>4. CASE c = p /\ d # p
        <4>1. There(d) /\ tcb[d].p_pptr = f
          BY <1>2, <1>3, <3>1, <3>4
        <4>2. tcb'[f].p_cptr = p /\ p # Null
          BY <1>1, <1>3, <1>4
        <4> QED
          BY <1>2, <2>4, <3>2, <3>4, <4>1, <4>2
      <3>5. CASE c # p /\ d = p
        <4>1. There(c) /\ tcb[c].p_pptr = f /\ tcb'[c].p_pptr = f
          BY <1>2, <1>3, <3>1, <3>5
        <4>2. tcb'[f].p_cptr = p /\ p # Null
          BY <1>1, <1>3, <1>4
        <4>3. tcb'[c].p_osptr # p
          BY <1>3, <1>4, <1>5, <3>5, <4>1
        <4> QED
          BY <2>4, <3>5, <4>1, <4>2, <4>3
      <3>6. CASE c # p /\ d # p
        <4>1. Siblings(c, d) /\ There(c) /\ tcb'[c].p_pptr = tcb[c].p_pptr /\ tcb'[c].p_osptr = tcb[c].p_osptr
          BY <1>3, <3>1, <3>6 DEF Siblings
        <4>2. /\ r[c] = r[d] => c = d
              /\ r[d] < r[c] => tcb[c].p_osptr # Null /\ r[d] <= r[tcb[c].p_osptr]
              /\ tcb[c].p_osptr = d => r[d] < r[c]
              /\ tcb[tcb[c].p_pptr].p_cptr # Null /\ r[c] <= r[tcb[tcb[c].p_pptr].p_cptr]
          BY <2>2, <4>1 DEF Order
        <4>3. tcb[c].p_osptr # Null => tcb[c].p_osptr \in Pages /\ tcb[c].p_osptr # p
          BY <1>4, <4>1, Kinship DEF Related, Kids
        <4>4. s[c] = r[c] /\ s[d] = r[d] /\ (tcb[c].p_osptr # Null => s[tcb[c].p_osptr] = r[tcb[c].p_osptr])
          BY <2>4, <3>6, <4>3
        <4>5. tcb'[tcb[c].p_pptr].p_cptr # Null /\ s[c] <= s[tcb'[tcb[c].p_pptr].p_cptr]
          <5>1. CASE tcb[c].p_pptr = f
            <6>1. tcb'[f].p_cptr = p /\ p # Null
              BY <1>1, <1>3, <1>4
            <6> QED
              BY <2>4, <3>6, <5>1, <6>1
          <5>2. CASE tcb[c].p_pptr # f
            <6>1. tcb'[tcb[c].p_pptr].p_cptr = tcb[tcb[c].p_pptr].p_cptr
              BY <1>3, <1>5, <4>1, <5>2
            <6>2. tcb[tcb[c].p_pptr].p_cptr \in Pages /\ tcb[tcb[c].p_pptr].p_cptr # p
              BY <1>4, <1>5, <4>1, <4>2, Kinship DEF Fathers, Kids
            <6> QED
              BY <2>4, <4>2, <4>4, <6>1, <6>2
          <5> QED
            BY <5>1, <5>2
        <4> QED
          BY <4>1, <4>2, <4>4, <4>5
      <3> QED
        BY <3>3, <3>4, <3>5, <3>6
    <2> QED
      BY <2>3, <2>5 DEF Ranked
  <1>7. Descends'
    <2>1. PICK d \in [Pages -> Nat] : Descent(d)
      BY DEF FInv, Descends
    <2> DEFINE e == [x \in Pages |-> IF x = p THEN d[f] + 1 ELSE d[x]]
    <2>2. e \in [Pages -> Nat] /\ e[p] = d[f] + 1 /\ d[f] \in Nat
          /\ \A x \in Pages : x # p => e[x] = d[x]
      BY <1>1
    <2> HIDE DEF e
    <2>3. f # p /\ task[1] # p
      BY <1>1, <1>4
    <2>4. ASSUME NEW c \in Pages, There(c)', c # task[1] PROVE e[tcb'[c].p_pptr] < e[c]
      <3>1. CASE c = p
        BY <1>1, <1>2, <2>2, <2>3, <3>1
      <3>2. CASE c # p
        <4>1. There(c) /\ tcb'[c].p_pptr = tcb[c].p_pptr
          BY <1>1, <1>3, <2>4, <3>2
        <4>2. tcb[c].p_pptr \in Pages /\ tcb[c].p_pptr # p
          BY <1>5, <2>4, <4>1
        <4>3. d[tcb[c].p_pptr] < d[c]
          BY <2>1, <2>4, <4>1 DEF Descent
        <4> QED
          BY <2>2, <3>2, <4>1, <4>2, <4>3
      <3> QED
        BY <3>1, <3>2
    <2>5. Descent(e)'
      BY <1>1, <1>4, <2>1, <2>2, <2>3, <2>4 DEF Descent
    <2> QED
      BY <2>2, <2>5 DEF Descends
  <1>8. Noticed'
    <2> SUFFICES ASSUME NEW c \in Pages, There(c)', tcb'[c].at = "zombie",
                        tcb'[tcb'[c].p_pptr].at = "waiting"
                 PROVE  tcb'[tcb'[c].p_pptr].sigchld
      BY DEF Noticed
    <2>1. c # p /\ There(c)
      BY <1>1, <1>2
    <2>2. tcb'[c].p_pptr = tcb[c].p_pptr /\ tcb[c].at = "zombie"
      BY <1>3, <2>1
    <2>3. tcb[c].p_pptr \in Pages \union {Low} /\ tcb[c].p_pptr # p
      BY <1>5, <2>1
    <2>4. tcb[tcb[c].p_pptr].at = "waiting"
      BY <1>3, <2>2, <2>3
    <2>5. tcb[tcb[c].p_pptr].sigchld
      BY <2>1, <2>2, <2>4 DEF FInv, Noticed
    <2> QED
      BY <1>3, <2>2, <2>3, <2>5
  <1> QED
    BY <1>6, <1>7, <1>8

(* The family after a fork. *)
LEMMA ForkFamily ==
  ASSUME MInv, FInv, NEW nr \in TaskNrs, NEW child \in TaskNrs, NEW p \in Pages, NEW q \in Pages,
         Forks(nr, child, p, q)
  PROVE  FInv'
  <1>1. PICK f : f = task[nr] /\ Grows(p, f)
    BY ForkGrows
  <1>2. Links' /\ Ranked' /\ Descends' /\ Noticed'
    BY <1>1, GrowsLinks, GrowsRest
  <1> QED
    BY <1>2 DEF FInv

-----------------------------------------------------------------------------
(* The father w takes the child z out of the family. *)
Shrinks(z, w) ==
  /\ z \in Pages /\ w \in Pages /\ z # w /\ There(z) /\ There(w) /\ task'[1] = task[1]
  /\ tcb[z].p_pptr = w /\ tcb[z].at = "zombie"
  /\ \A x : There(x)' <=> There(x) /\ x # z
  /\ \A x \in Pages \union {Low} : x # z => Unlinked(z, w, x)

(* waitpid does that. *)
LEMMA ReapShrinks ==
  ASSUME MInv, FInv, NEW nr \in TaskNrs, NEW n \in TaskNrs, Buries(nr, n)
  PROVE  Shrinks(task[n], task[nr])
  <1>1. /\ task[nr] # Null /\ task[n] # Null /\ Struct(n).at = "zombie"
        /\ FirstZombie(task[nr], task[n]) /\ task' = [task EXCEPT ![n] = Null]
    BY DEF Buries
  <1>2. /\ task[nr] \in Pages /\ task[n] \in Pages /\ task[nr] # task[n]
        /\ \A x \in Pages \union {Low} : x # task[n] => Unlinked(task[n], task[nr], x)
    BY BuriesTcb
  <1>3. There(task[nr]) /\ There(task[n])
    BY <1>1, ThereIs
  <1>4. task[n] \in Kids(task[nr])
    <2>1. task[n] \in Listed(task[nr])
      BY <1>1 DEF FirstZombie, Listed
    <2> QED
      BY <1>3, <2>1, ListedIs
  <1>5. tcb[task[n]].p_pptr = task[nr]
    BY <1>4 DEF Kids
  <1>6. n # 1
    <2>1. tcb[task[n]].p_pptr # Low
      BY <1>2, <1>5, Constants
    <2>2. task[n] # task[1]
      BY <1>2, <1>3, <2>1, Kinship DEF Related
    <2> QED
      BY <2>2
  <1>7. \A x : There(x)' <=> There(x) /\ x # task[n]
    <2>1. task \in [0 .. NrTasks - 1 -> Ptr]
      BY DEF MInv, Types
    <2>2. \A m \in 0 .. NrTasks - 1 : task'[m] = IF m = n THEN Null ELSE task[m]
      BY <1>1, <2>1
    <2>3. \A m \in 0 .. NrTasks - 1 : task[m] = task[n] => m = n
      <3>1. \A m \in 0 .. NrTasks - 1 : m = 0 \/ m \in TaskNrs
        BY Constants DEF TaskNrs
      <3>2. task[0] = Low /\ Low # task[n]
        BY <1>2, Constants DEF MInv, Owned
      <3> QED
        BY <1>1, <3>1, <3>2, ThereIs
    <2>4. n \in 0 .. NrTasks - 1
      BY Constants
    <2> QED
      BY <2>2, <2>3, <2>4 DEF There
  <1>8. task'[1] = task[1]
    BY <1>1, <1>6
  <1> QED
    BY <1>1, <1>2, <1>3, <1>5, <1>7, <1>8 DEF Shrinks, Struct

(* The links around the child that goes: o is the older, y the younger. *)
Around(z, w, o, y) ==
  /\ z \in Pages /\ w \in Pages /\ z # w /\ o = tcb[z].p_osptr /\ y = tcb[z].p_ysptr
  /\ w # Low /\ z # Low /\ z # Null /\ z # task[1] /\ z \in Kids(w) /\ Kids(z) = {}
  /\ o # Null => o \in Kids(w) /\ o # z /\ tcb[o].p_ysptr = z
  /\ y # Null => y \in Kids(w) /\ y # z /\ tcb[y].p_osptr = z
  /\ y = Null => tcb[w].p_cptr = z
  /\ o # Null => o # y

(* They are what the invariant says. *)
LEMMA AroundIs ==
  ASSUME MInv, FInv, NEW z, NEW w, Shrinks(z, w), NEW o, NEW y,
         o = tcb[z].p_osptr, y = tcb[z].p_ysptr
  PROVE  Around(z, w, o, y)
  <1>1. /\ z \in Pages /\ w \in Pages /\ z # w /\ There(z) /\ There(w)
        /\ tcb[z].p_pptr = w /\ tcb[z].at = "zombie"
    BY DEF Shrinks
  <1>2. Related(z) /\ Fathers(z)
    BY <1>1, Kinship
  <1>3. w # Low /\ z # Low /\ z # Null
    BY <1>1, Constants
  <1>4. Kids(z) = {} /\ z \in Kids(w) /\ z # task[1]
    BY <1>1, <1>2, <1>3 DEF Fathers, Related
  <1>5. /\ o # Null => o \in Kids(w) /\ o # z /\ tcb[o].p_ysptr = z
        /\ y # Null => y \in Kids(w) /\ y # z /\ tcb[y].p_osptr = z
        /\ y = Null => tcb[w].p_cptr = z
    BY <1>1, <1>2 DEF Related
  <1>6. ASSUME o # Null PROVE o # y
    <2>1. PICK top \in Nat : \E r \in [Pages -> 0 .. top] : Order(r)
      BY DEF FInv, Ranked
    <2>2. PICK r \in [Pages -> 0 .. top] : Order(r)
      BY <2>1
    <2>3. SUFFICES ASSUME o = y PROVE FALSE
      OBVIOUS
    <2>4. o \in Pages /\ Siblings(z, o) /\ Siblings(o, z) /\ tcb[z].p_osptr = o /\ tcb[o].p_osptr = z
      BY <1>1, <1>5, <1>6, <2>3 DEF Siblings, Kids
    <2>5. r[o] < r[z] /\ r[z] < r[o]
      BY <1>1, <2>2, <2>4 DEF Order
    <2>6. r[o] \in Nat /\ r[z] \in Nat
      BY <1>1, <2>2, <2>4
    <2> QED
      BY <2>5, <2>6
  <1> QED
    BY <1>1, <1>3, <1>4, <1>5, <1>6 DEF Around

(* The links after a burial. *)
LEMMA ShrinksLinks ==
  ASSUME MInv, FInv, NEW z, NEW w, Shrinks(z, w)
  PROVE  Links'
  <1>1. PICK o, y : o = tcb[z].p_osptr /\ y = tcb[z].p_ysptr
    OBVIOUS
  <1>2. Around(z, w, o, y)
    BY <1>1, AroundIs
  <1>3. /\ task'[1] = task[1] /\ tcb[z].p_pptr = w /\ There(w)
        /\ \A x : There(x)' <=> There(x) /\ x # z
    BY DEF Shrinks
  <1>4. ASSUME NEW x \in Pages \union {Low}, x # z
        PROVE  /\ tcb'[x].at = IF x = w THEN "user" ELSE tcb[x].at
               /\ tcb'[x].p_pptr = tcb[x].p_pptr
               /\ tcb'[x].p_cptr = IF x = w /\ y = Null THEN o ELSE tcb[x].p_cptr
               /\ tcb'[x].p_ysptr = IF x = o THEN y ELSE tcb[x].p_ysptr
               /\ tcb'[x].p_osptr = IF x = y THEN o ELSE tcb[x].p_osptr
    <2>1. \A u \in Pages \union {Low} : u # z => Unlinked(z, w, u)
      BY DEF Shrinks
    <2>2. Unlinked(z, w, x)
      BY <1>4, <2>1
    <2> QED
      BY <1>1, <1>3, <2>2 DEF Unlinked
  <1>5. /\ Low \notin Pages /\ Null \notin Pages /\ Low # Null
        /\ \A g, x : x \in Kids(g) <=> x \in Pages /\ There(x) /\ tcb[x].p_pptr = g
        /\ \A c \in Pages : There(c) => Related(c)
        /\ \A x : There(x) => Fathers(x)
    BY Kinship, Constants DEF Kids
  <1>6. /\ z \in Pages /\ w \in Pages /\ z # w /\ w # Low /\ z # Low /\ z # Null
        /\ \A x : x \notin Kids(z)
        /\ o # Null => /\ o \in Pages /\ There(o) /\ tcb[o].p_pptr = w /\ o # z
                       /\ tcb[o].p_ysptr = z /\ o # Low /\ o # y
        /\ y # Null => /\ y \in Pages /\ There(y) /\ tcb[y].p_pptr = w /\ y # z
                       /\ tcb[y].p_osptr = z /\ y # Low
        /\ y = Null => tcb[w].p_cptr = z
    BY <1>2, <1>5 DEF Around
  <1>7. tcb'[Low].p_pptr = Null /\ tcb'[Low].p_ysptr = Null /\ tcb'[Low].p_osptr = Null
    <2>1. tcb[Low].p_pptr = Null /\ tcb[Low].p_ysptr = Null /\ tcb[Low].p_osptr = Null
      BY DEF FInv, Links
    <2>2. Low # z /\ Low # o /\ Low # y
      BY <1>5, <1>6
    <2> QED
      BY <1>4, <2>1, <2>2
  <1>8. ASSUME NEW c \in Pages, There(c), c # z PROVE Linked(c)'
    <2>1. PICK g, oc, yc : g = tcb[c].p_pptr /\ oc = tcb[c].p_osptr /\ yc = tcb[c].p_ysptr
      OBVIOUS
    <2>2. Related(c)
      BY <1>5, <1>8
    <2>3. /\ There(g) /\ g \in Pages \union {Low} /\ (g = Low <=> c = task[1])
          /\ oc # Null => oc \in Pages /\ There(oc) /\ tcb[oc].p_pptr = g /\ tcb[oc].p_ysptr = c /\ oc # c
          /\ yc # Null => yc \in Pages /\ There(yc) /\ tcb[yc].p_pptr = g /\ tcb[yc].p_osptr = c /\ yc # c
          /\ yc = Null => tcb[g].p_cptr = c
          /\ c \in Kids(g)
      BY <1>5, <2>1, <2>2 DEF Related
    <2>4. g # z /\ There(g)' /\ (g = Low <=> c = task'[1])
      BY <1>3, <1>6, <2>3
    <2>5. /\ tcb'[c].p_pptr = g /\ tcb'[c].p_osptr = IF c = y THEN o ELSE oc
          /\ tcb'[c].p_ysptr = IF c = o THEN y ELSE yc
      BY <1>4, <1>8, <2>1
    <2>6. tcb'[g].p_cptr = IF g = w /\ y = Null THEN o ELSE tcb[g].p_cptr
      BY <1>4, <2>3, <2>4
    <2>7. ASSUME oc # Null, oc # z
          PROVE  /\ There(oc)' /\ oc # Low /\ tcb'[oc].p_pptr = g
                 /\ tcb'[oc].p_ysptr = IF oc = o THEN y ELSE c
      BY <1>3, <1>4, <1>5, <2>3, <2>7
    <2>8. ASSUME yc # Null, yc # z
          PROVE  /\ There(yc)' /\ yc # Low /\ tcb'[yc].p_pptr = g
                 /\ tcb'[yc].p_osptr = IF yc = y THEN o ELSE c
      BY <1>3, <1>4, <1>5, <2>3, <2>8
    <2>9. o # Null => There(o)' /\ o # Low /\ tcb'[o].p_pptr = w /\ tcb'[o].p_ysptr = y
      BY <1>3, <1>4, <1>6
    <2>10. y # Null => There(y)' /\ y # Low /\ tcb'[y].p_pptr = w /\ tcb'[y].p_osptr = o
      BY <1>3, <1>4, <1>6
    <2>11. CASE c = y
      <3>1. y # Null /\ c # o /\ g = w /\ oc = z
        BY <1>5, <1>6, <1>8, <2>1, <2>11
      <3>2. yc # Null => yc # z /\ yc # y
        BY <1>1, <1>6, <2>3, <2>11, <3>1
      <3>3. Stands(c, g, o, yc)
        BY <2>3, <2>4, <2>5, <2>6, <2>8, <2>9, <2>11, <3>1, <3>2 DEF Stands
      <3> QED
        BY <3>3, StandsIs
    <2>12. CASE c = o
      <3>1. o # Null /\ c # y /\ g = w /\ yc = z
        BY <1>5, <1>6, <1>8, <2>1, <2>12
      <3>2. oc # Null => oc # z /\ oc # o
        BY <1>1, <1>6, <2>3, <2>12, <3>1
      <3>3. Stands(c, g, oc, y)
        BY <2>3, <2>4, <2>5, <2>6, <2>7, <2>10, <2>12, <3>1, <3>2 DEF Stands
      <3> QED
        BY <3>3, StandsIs
    <2>13. CASE c # y /\ c # o
      <3>1. oc # Null => oc # z /\ oc # o
        BY <1>1, <1>6, <1>8, <2>3, <2>13
      <3>2. yc # Null => yc # z /\ yc # y
        BY <1>1, <1>6, <1>8, <2>3, <2>13
      <3>3. yc = Null => ~(g = w /\ y = Null)
        BY <1>6, <1>8, <2>3
      <3>4. Stands(c, g, oc, yc)
        BY <2>3, <2>4, <2>5, <2>6, <2>7, <2>8, <2>13, <3>1, <3>2, <3>3 DEF Stands
      <3> QED
        BY <3>4, StandsIs
    <2> QED
      BY <2>11, <2>12, <2>13
  <1>9. ASSUME NEW x \in Pages \union {Low}, There(x), x # z PROVE Headed(x)'
    <2>1. CASE x = w /\ y = Null
      <3>1. tcb'[w].p_cptr = o /\ tcb'[w].at = "user"
        BY <1>4, <1>6, <2>1
      <3>2. o # Null => There(o)' /\ o # Low /\ tcb'[o].p_pptr = w /\ tcb'[o].p_ysptr = Null
        BY <1>3, <1>4, <1>6, <2>1
      <3>3. Heads(w, o)
        BY <3>1, <3>2 DEF Heads
      <3> QED
        BY <2>1, <3>3, StandsIs
    <2>2. CASE ~(x = w /\ y = Null)
      <3>1. PICK h : h = tcb[x].p_cptr
        OBVIOUS
      <3>2. /\ tcb'[x].p_cptr = h
            /\ tcb'[x].at = IF x = w THEN "user" ELSE tcb[x].at
        BY <1>4, <1>9, <2>2, <3>1
      <3>3. /\ h # Null => h \in Pages /\ There(h) /\ tcb[h].p_pptr = x /\ tcb[h].p_ysptr = Null
            /\ tcb[x].at = "zombie" => h = Null
        BY <1>5, <1>9, <3>1 DEF Fathers
      <3>4. h # Null => h # z /\ h # o /\ h # Low
        BY <1>1, <1>3, <1>5, <1>6, <2>2, <3>3
      <3>5. h # Null => There(h)' /\ h # Low /\ tcb'[h].p_pptr = x /\ tcb'[h].p_ysptr = Null
        BY <1>3, <1>4, <3>3, <3>4
      <3>6. Heads(x, h)
        BY <3>2, <3>3, <3>5 DEF Heads
      <3> QED
        BY <3>6, StandsIs
    <2> QED
      BY <2>1, <2>2
  <1> QED
    BY <1>3, <1>7, <1>8, <1>9 DEF Links

(* The ranks, the descent and what is noticed, after a burial. *)
LEMMA ShrinksRest ==
  ASSUME MInv, FInv, NEW z, NEW w, Shrinks(z, w)
  PROVE  Ranked' /\ Descends' /\ Noticed'
  <1>1. PICK o, y : o = tcb[z].p_osptr /\ y = tcb[z].p_ysptr
    OBVIOUS
  <1>2. Around(z, w, o, y)
    BY <1>1, AroundIs
  <1>3. /\ task'[1] = task[1] /\ tcb[z].p_pptr = w /\ There(w) /\ There(z)
        /\ \A x : There(x)' <=> There(x) /\ x # z
    BY DEF Shrinks
  <1>4. ASSUME NEW x \in Pages \union {Low}, x # z
        PROVE  /\ tcb'[x].at = IF x = w THEN "user" ELSE tcb[x].at
               /\ x # w => tcb'[x].sigchld = tcb[x].sigchld
               /\ tcb'[x].p_pptr = tcb[x].p_pptr
               /\ tcb'[x].p_cptr = IF x = w /\ y = Null THEN o ELSE tcb[x].p_cptr
               /\ tcb'[x].p_osptr = IF x = y THEN o ELSE tcb[x].p_osptr
    <2>1. \A u \in Pages \union {Low} : u # z => Unlinked(z, w, u)
      BY DEF Shrinks
    <2>2. Unlinked(z, w, x)
      BY <1>4, <2>1
    <2>3. x # w => tcb'[x].sigchld = tcb[x].sigchld
      BY <2>2, Zenon DEF Unlinked
    <2>4. /\ tcb'[x].at = IF x = w THEN "user" ELSE tcb[x].at
          /\ tcb'[x].p_pptr = tcb[x].p_pptr
          /\ tcb'[x].p_cptr = IF x = w /\ y = Null THEN o ELSE tcb[x].p_cptr
          /\ tcb'[x].p_osptr = IF x = y THEN o ELSE tcb[x].p_osptr
      BY <1>1, <1>3, <2>2 DEF Unlinked
    <2> QED
      BY <2>3, <2>4
  <1>5. ASSUME NEW c \in Pages, There(c), c # z
        PROVE  /\ tcb[c].p_pptr \in Pages \union {Low} /\ tcb[c].p_pptr # z
               /\ tcb'[c].p_pptr = tcb[c].p_pptr
               /\ tcb'[c].p_osptr = IF c = y THEN o ELSE tcb[c].p_osptr
               /\ tcb'[tcb[c].p_pptr].p_cptr = IF tcb[c].p_pptr = w /\ y = Null THEN o
                                                ELSE tcb[tcb[c].p_pptr].p_cptr
    <2>1. Related(c)
      BY <1>5, Kinship
    <2>2. tcb[c].p_pptr \in Pages \union {Low} /\ tcb[c].p_pptr # z
      BY <1>2, <2>1 DEF Related, Around
    <2> QED
      BY <1>4, <1>5, <2>2
  <1>6. Ranked'
    <2>1. PICK top \in Nat : \E r \in [Pages -> 0 .. top] : Order(r)
      BY DEF FInv, Ranked
    <2>2. PICK r \in [Pages -> 0 .. top] : Order(r)
      BY <2>1
    <2>3. \A x \in Pages : r[x] \in Nat
      BY <2>2
    <2>4. /\ z \in Pages /\ z # Null
          /\ o # Null => o \in Pages /\ r[o] < r[z]
          /\ y # Null => y \in Pages /\ r[z] < r[y] /\ tcb[y].p_osptr = z /\ tcb[y].p_pptr = w
          /\ y = Null => tcb[w].p_cptr = z
      <3>1. /\ o # Null => o \in Pages /\ Siblings(z, o)
            /\ y # Null => y \in Pages /\ Siblings(y, z) /\ tcb[y].p_osptr = z /\ tcb[y].p_pptr = w
            /\ z \in Pages /\ z # Null
            /\ y = Null => tcb[w].p_cptr = z
        BY <1>2, <1>3 DEF Around, Siblings, Kids
      <3> QED
        BY <1>1, <2>2, <3>1 DEF Order
    <2>5. ASSUME NEW c \in Pages, There(c), c # z, tcb[c].p_pptr = w, r[c] <= r[z]
          PROVE  o # Null /\ r[c] <= r[o]
      <3>1. Siblings(z, c)
        BY <1>3, <2>5 DEF Siblings
      <3>2. /\ r[z] = r[c] => z = c
            /\ r[c] < r[z] => tcb[z].p_osptr # Null /\ r[c] <= r[tcb[z].p_osptr]
        BY <2>2, <2>4, <3>1 DEF Order
      <3> QED
        BY <1>1, <2>3, <2>4, <2>5, <3>2
    <2>6. Order(r)'
      <3> SUFFICES ASSUME NEW c \in Pages, NEW d \in Pages, Siblings(c, d)'
                   PROVE  /\ r[c] = r[d] => c = d
                          /\ r[d] < r[c] => tcb'[c].p_osptr # Null /\ r[d] <= r[tcb'[c].p_osptr]
                          /\ tcb'[c].p_osptr = d => r[d] < r[c]
                          /\ tcb'[tcb'[c].p_pptr].p_cptr # Null
                          /\ r[c] <= r[tcb'[tcb'[c].p_pptr].p_cptr]
        BY DEF Order
      <3>1. There(c)' /\ There(d)' /\ tcb'[c].p_pptr = tcb'[d].p_pptr
        BY DEF Siblings
      <3>2. There(c) /\ There(d) /\ c # z /\ d # z
        BY <1>3, <3>1, Zenon
      <3>3. tcb'[c].p_pptr = tcb[c].p_pptr /\ tcb'[d].p_pptr = tcb[d].p_pptr
        BY <1>5, <3>2
      <3>4. Siblings(c, d)
        BY <3>1, <3>2, <3>3 DEF Siblings
      <3>5. /\ r[c] = r[d] => c = d
            /\ r[d] < r[c] => tcb[c].p_osptr # Null /\ r[d] <= r[tcb[c].p_osptr]
            /\ tcb[c].p_osptr = d => r[d] < r[c]
            /\ tcb[tcb[c].p_pptr].p_cptr # Null /\ r[c] <= r[tcb[tcb[c].p_pptr].p_cptr]
        BY <2>2, <3>4 DEF Order
      <3>6. /\ r[d] < r[c] => tcb'[c].p_osptr # Null /\ r[d] <= r[tcb'[c].p_osptr]
            /\ tcb'[c].p_osptr = d => r[d] < r[c]
        <4>1. CASE c = y
          <5>1. y # Null /\ tcb'[c].p_osptr = o /\ tcb[c].p_osptr = z /\ tcb[d].p_pptr = w /\ r[z] < r[c]
            BY <1>5, <2>4, <3>1, <3>2, <3>3, <4>1, Constants
          <5>2. r[d] < r[c] => o # Null /\ r[d] <= r[o]
            BY <2>5, <3>2, <3>5, <5>1
          <5>3. o = d => r[d] < r[c]
            <6>1. r[d] \in Nat /\ r[z] \in Nat /\ r[c] \in Nat /\ d # Null
              BY <2>3, <2>4, Constants
            <6> QED
              BY <2>4, <5>1, <6>1
          <5> QED
            BY <5>1, <5>2, <5>3
        <4>2. CASE c # y
          BY <1>5, <3>2, <3>5, <4>2
        <4> QED
          BY <4>1, <4>2
      <3>7. tcb'[tcb[c].p_pptr].p_cptr # Null /\ r[c] <= r[tcb'[tcb[c].p_pptr].p_cptr]
        <4>1. CASE tcb[c].p_pptr = w /\ y = Null
          <5>1. tcb'[tcb[c].p_pptr].p_cptr = o /\ r[c] <= r[z]
            BY <1>5, <2>4, <3>2, <3>5, <4>1
          <5> QED
            BY <2>5, <3>2, <4>1, <5>1
        <4>2. CASE ~(tcb[c].p_pptr = w /\ y = Null)
          BY <1>5, <3>2, <3>5, <4>2
        <4> QED
          BY <4>1, <4>2
      <3> QED
        BY <3>3, <3>5, <3>6, <3>7
    <2> QED
      BY <2>6 DEF Ranked
  <1>7. Descends'
    <2>1. PICK d \in [Pages -> Nat] : Descent(d)
      BY DEF FInv, Descends
    <2>2. ASSUME NEW c \in Pages, There(c)', c # task'[1] PROVE d[tcb'[c].p_pptr] < d[c]
      <3>1. There(c) /\ c # z /\ c # task[1]
        BY <1>3, <2>2, Zenon
      <3>2. d[tcb[c].p_pptr] < d[c]
        BY <2>1, <3>1 DEF Descent
      <3> QED
        BY <1>5, <3>1, <3>2
    <2>3. Descent(d)'
      BY <1>3, <2>1, <2>2 DEF Descent
    <2> QED
      BY <2>3 DEF Descends
  <1>8. Noticed'
    <2> SUFFICES ASSUME NEW c \in Pages, There(c)', tcb'[c].at = "zombie",
                        tcb'[tcb'[c].p_pptr].at = "waiting"
                 PROVE  tcb'[tcb'[c].p_pptr].sigchld
      BY DEF Noticed
    <2>1. There(c) /\ c # z
      BY <1>3, Zenon
    <2>2. PICK g : g = tcb[c].p_pptr
      OBVIOUS
    <2>3. g \in Pages \union {Low} /\ g # z /\ tcb'[c].p_pptr = g
      BY <1>5, <2>1, <2>2
    <2>4. c # w /\ tcb[c].at = "zombie"
      BY <1>4, <2>1
    <2>5. g # w /\ tcb[g].at = "waiting" /\ tcb'[g].sigchld = tcb[g].sigchld
      BY <1>4, <2>3
    <2>6. tcb[g].sigchld
      BY <2>1, <2>2, <2>4, <2>5 DEF FInv, Noticed
    <2> QED
      BY <2>3, <2>5, <2>6
  <1> QED
    BY <1>6, <1>7, <1>8

(* The family after waitpid has freed a child. *)
LEMMA ReapFamily ==
  ASSUME MInv, FInv, NEW nr \in TaskNrs, NEW n \in TaskNrs, Buries(nr, n)
  PROVE  FInv'
  <1>1. PICK z, w : z = task[n] /\ w = task[nr] /\ Shrinks(z, w)
    BY ReapShrinks
  <1>2. Links' /\ Ranked' /\ Descends' /\ Noticed'
    BY <1>1, ShrinksLinks, ShrinksRest
  <1> QED
    BY <1>2 DEF FInv

-----------------------------------------------------------------------------
(* do_exit, when it has slept for the last time. *)
Leaves(nr) ==
  /\ retry = NoRetry /\ task[nr] # Null /\ Struct(nr).at = "exiting"
  /\ tcb' = Gone(task[nr])
  /\ UNCHANGED <<mem_map, content, task, dir, pt, retry, machine, halted>>

(* There is a child of init as soon as there is another task. *)
LEMMA InitHasChild ==
  ASSUME MInv, FInv, NEW p, There(p), p \in Pages, p # task[1]
  PROVE  tcb[task[1]].p_cptr # Null
  <1>1. PICK d \in [Pages -> Nat] : Descent(d)
    BY DEF FInv, Descends
  <1> DEFINE C == {c \in Pages : There(c) /\ c # task[1]}
             T == {d[c] : c \in C}
  <1>2. T \subseteq Nat /\ T # {}
    BY <1>1
  <1>3. PICK m \in T : \A x \in T : m <= x
    <2> HIDE DEF T
    <2> QED
      BY <1>2, Least
  <1>4. PICK c \in C : m = d[c]
    OBVIOUS
  <1>5. PICK g : g = tcb[c].p_pptr
    OBVIOUS
  <1>6. Related(c)
    BY Kinship
  <1>7. There(g) /\ g \in Pages \union {Low} /\ g # Low /\ tcb[g].p_cptr # Null
    BY <1>5, <1>6 DEF Related
  <1>8. g = task[1]
    <2> SUFFICES ASSUME g # task[1] PROVE FALSE
      OBVIOUS
    <2>1. g \in C /\ d[g] \in T
      BY <1>7
    <2>2. d[g] < d[c]
      BY <1>1, <1>5 DEF Descent
    <2>3. d[g] \in Nat /\ d[c] \in Nat /\ d[c] <= d[g]
      BY <1>1, <1>3, <1>4, <2>1
    <2> HIDE DEF C, T
    <2> QED
      BY <2>2, <2>3
  <1> QED
    BY <1>7, <1>8

(* Init does not exit, and so do_exit finds a list to append to. *)
LEMMA ExitDoneIs ==
  ASSUME MInv, FInv, NEW nr \in TaskNrs, ExitDone(nr)
  PROVE  Leaves(nr) /\ task[nr] # task[1]
  <1>1. retry = NoRetry /\ task[nr] # Null /\ Struct(nr).at = "exiting"
    BY DEF ExitDone, Present
  <1>2. nr # 1
    BY <1>1 DEF MInv, Lives
  <1>3. There(task[nr]) /\ task[nr] \in Pages /\ task[nr] # task[1]
    BY <1>1, <1>2, ThereIs, Constants
  <1>4. tcb[task[1]].p_cptr # Null
    BY <1>3, InitHasChild
  <1>5. tcb' = Gone(task[nr]) /\ UNCHANGED <<mem_map, content, task, dir, pt, retry, machine, halted>>
    BY <1>4 DEF ExitDone
  <1> QED
    BY <1>1, <1>3, <1>5 DEF Leaves

(* The task p that leaves, init, whose youngest child is h, and the youngest *)
(* and the oldest child of p.                                              *)
Parting(p, i, h, y, e) ==
  /\ p \in Pages /\ i \in Pages /\ p # i /\ There(p) /\ There(i) /\ i = task[1]
  /\ h = tcb[i].p_cptr /\ h \in Kids(i) /\ h \notin Kids(p) /\ i \notin Kids(p) /\ p \notin Kids(p)
  /\ tcb[h].p_ysptr = Null /\ tcb[i].at # "zombie"
  /\ y = tcb[p].p_cptr
  /\ Kids(p) # {} => /\ y \in Kids(p) /\ tcb[y].p_ysptr = Null
                     /\ e \in Kids(p) /\ tcb[e].p_osptr = Null
                     /\ \A c \in Kids(p) : tcb[c].p_osptr = Null => c = e
Oldest(p) == CHOOSE c \in Kids(p) : tcb[c].p_osptr = Null

(* That is what the invariant says of them. *)
LEMMA PartingIs ==
  ASSUME MInv, FInv, NEW p \in Pages, There(p), p # task[1],
         NEW i, NEW h, NEW y, NEW e, i = task[1], h = tcb[i].p_cptr, y = tcb[p].p_cptr, e = Oldest(p)
  PROVE  Parting(p, i, h, y, e)
  <1>1. There(i) /\ i \in Pages /\ i # Low /\ p # Low
    BY ThereIs, Constants
  <1>2. /\ \A c \in Pages : There(c) => Related(c)
        /\ Fathers(p) /\ Fathers(i)
    BY <1>1, Kinship
  <1>3. h # Null
    BY InitHasChild
  <1>4. /\ \A g, x : x \in Kids(g) <=> x \in Pages /\ There(x) /\ tcb[x].p_pptr = g
        /\ tcb[i].p_pptr = Low /\ tcb[p].p_pptr # p
    BY <1>1, <1>2 DEF Kids, Related
  <1>5. /\ h \in Kids(i) /\ h \notin Kids(p) /\ i \notin Kids(p) /\ p \notin Kids(p)
        /\ tcb[h].p_ysptr = Null /\ tcb[i].at # "zombie"
    BY <1>1, <1>2, <1>3, <1>4 DEF Fathers
  <1>6. ASSUME Kids(p) # {}
        PROVE  /\ y \in Kids(p) /\ tcb[y].p_ysptr = Null
               /\ e \in Kids(p) /\ tcb[e].p_osptr = Null
               /\ \A c \in Kids(p) : tcb[c].p_osptr = Null => c = e
    <2>1. PICK top \in Nat : \E r \in [Pages -> 0 .. top] : Order(r)
      BY DEF FInv, Ranked
    <2>2. PICK r \in [Pages -> 0 .. top] : Order(r)
      BY <2>1
    <2>3. /\ \A c \in Kids(p) : c \in Pages /\ There(c) /\ r[c] \in Nat
          /\ \A c, d \in Kids(p) : Siblings(c, d)
      BY <1>4, <2>2 DEF Siblings
    <2> DEFINE T == {r[c] : c \in Kids(p)}
    <2>4. T \subseteq Nat /\ T # {}
      BY <1>6, <2>3
    <2>5. PICK m \in T : \A x \in T : m <= x
      <3> HIDE DEF T
      <3> QED
        BY <2>4, Least
    <2>6. PICK c \in Kids(p) : m = r[c]
      OBVIOUS
    <2>7. tcb[c].p_osptr = Null
      <3> SUFFICES ASSUME tcb[c].p_osptr # Null PROVE FALSE
        OBVIOUS
      <3>1. PICK o : o = tcb[c].p_osptr
        OBVIOUS
      <3>2. o \in Kids(p)
        BY <1>2, <1>4, <2>3, <3>1 DEF Related
      <3>3. r[o] < r[c]
        BY <2>2, <2>3, <3>1, <3>2 DEF Order
      <3>4. r[o] \in T /\ r[o] \in Nat /\ r[c] \in Nat
        BY <2>3, <3>2
      <3>5. r[c] <= r[o]
        BY <2>5, <2>6, <3>4
      <3> HIDE DEF T
      <3> QED
        BY <3>3, <3>4, <3>5
    <2>8. ASSUME NEW u \in Kids(p), NEW v \in Kids(p), tcb[u].p_osptr = Null, tcb[v].p_osptr = Null
          PROVE  u = v
      <3>1. /\ r[u] = r[v] => u = v
            /\ r[v] < r[u] => tcb[u].p_osptr # Null
            /\ r[u] < r[v] => tcb[v].p_osptr # Null
        BY <2>2, <2>3 DEF Order
      <3>2. r[u] \in Nat /\ r[v] \in Nat
        BY <2>3
      <3> QED
        BY <2>8, <3>1, <3>2
    <2>9. e \in Kids(p) /\ tcb[e].p_osptr = Null
      <3>1. \E x \in Kids(p) : tcb[x].p_osptr = Null
        BY <2>7
      <3> QED
        BY <3>1 DEF Oldest
    <2>10. y # Null
      BY <1>4, <1>6, <1>2 DEF Related, Fathers
    <2> QED
      BY <1>2, <2>8, <2>9, <2>10 DEF Fathers
  <1> QED
    BY <1>1, <1>5, <1>6 DEF Parting

(* What the structs are after it. *)
Lapsed(p, i, h, y, e, x) ==
  /\ tcb'[x].at = IF x = p THEN "zombie" ELSE tcb[x].at
  /\ tcb'[x].p_pptr = IF x \in Kids(p) THEN i ELSE tcb[x].p_pptr
  /\ tcb'[x].p_cptr = IF x = p THEN Null ELSE IF x = i /\ Kids(p) # {} THEN y ELSE tcb[x].p_cptr
  /\ tcb'[x].p_ysptr = IF x = h /\ Kids(p) # {} THEN e ELSE tcb[x].p_ysptr
  /\ tcb'[x].p_osptr = IF x \in Kids(p) /\ tcb[x].p_osptr = Null THEN h ELSE tcb[x].p_osptr
  /\ tcb[x].sigchld => tcb'[x].sigchld
  /\ x \in Told(p) /\ tcb[x].at = "waiting" => tcb'[x].sigchld

(* Gone does that. *)
LEMMA GoneIs ==
  ASSUME MInv, FInv, NEW p \in Pages, There(p), NEW i, NEW h, NEW y, NEW e,
         e = Oldest(p), Parting(p, i, h, y, e), tcb' = Gone(p)
  PROVE  /\ tcb' \in [Pages \union {Low} -> Structs]
         /\ \A x \in Pages \union {Low} : Lapsed(p, i, h, y, e, x)
  <1>1. Listed(p) = Kids(p) /\ Types
    BY ListedIs DEF MInv
  <1>2. i = task[1] /\ h = tcb[i].p_cptr /\ y = tcb[p].p_cptr /\ i \in Pages
    BY DEF Parting
  <1>3. /\ h \in Ptr /\ y \in Ptr /\ i \in Ptr /\ Null \in Ptr
        /\ Kids(p) # {} => e \in Ptr
    BY <1>1, <1>2, PtrIs DEF Parting, Kids, Ptr
  <1> DEFINE G(x) == [at |-> IF x = p THEN "zombie" ELSE tcb[x].at,
     sigchld |-> tcb[x].sigchld \/ (x \in Told(p) /\ tcb[x].at = "waiting"),
     p_pptr |-> IF x \in Kids(p) THEN i ELSE tcb[x].p_pptr,
     p_cptr |-> IF x = p THEN Null ELSE IF x = i /\ Kids(p) # {} THEN y ELSE tcb[x].p_cptr,
     p_ysptr |-> IF x = h /\ Kids(p) # {} THEN e ELSE tcb[x].p_ysptr,
     p_osptr |-> IF x \in Kids(p) /\ tcb[x].p_osptr = Null THEN h ELSE tcb[x].p_osptr]
  <1>4. tcb' = [x \in DOMAIN tcb |-> G(x)]
    BY <1>1, <1>2 DEF Gone, Oldest
  <1>5. DOMAIN tcb = Pages \union {Low}
    BY <1>1 DEF Types
  <1>6. ASSUME NEW x \in Pages \union {Low}
        PROVE  /\ tcb'[x] = G(x) /\ G(x) \in Structs
               /\ tcb'[x].sigchld = (tcb[x].sigchld \/ (x \in Told(p) /\ tcb[x].at = "waiting"))
    <2>1. /\ tcb[x].p_pptr \in Ptr /\ tcb[x].p_cptr \in Ptr
          /\ tcb[x].p_ysptr \in Ptr /\ tcb[x].p_osptr \in Ptr
          /\ tcb[x].at \in {"user", "exiting", "waiting", "zombie"} /\ tcb[x].sigchld \in BOOLEAN
      BY <1>1, PtrIs
    <2>2. tcb'[x] = G(x)
      <3> HIDE DEF G
      <3> QED
        BY <1>4, <1>5
    <2>3. PICK at, sig, f, c, ys, os :
            /\ at = (IF x = p THEN "zombie" ELSE tcb[x].at)
            /\ sig = (tcb[x].sigchld \/ (x \in Told(p) /\ tcb[x].at = "waiting"))
            /\ f = (IF x \in Kids(p) THEN i ELSE tcb[x].p_pptr)
            /\ c = (IF x = p THEN Null ELSE IF x = i /\ Kids(p) # {} THEN y ELSE tcb[x].p_cptr)
            /\ ys = (IF x = h /\ Kids(p) # {} THEN e ELSE tcb[x].p_ysptr)
            /\ os = (IF x \in Kids(p) /\ tcb[x].p_osptr = Null THEN h ELSE tcb[x].p_osptr)
      BY Zenon
    <2>4. G(x) = [at |-> at, sigchld |-> sig, p_pptr |-> f, p_cptr |-> c, p_ysptr |-> ys, p_osptr |-> os]
      BY <2>3, Zenon
    <2>5. f \in Ptr /\ c \in Ptr /\ ys \in Ptr /\ os \in Ptr /\ at \in {"user", "exiting", "waiting", "zombie"}
      BY <1>3, <2>1, <2>3
    <2>6. sig \in BOOLEAN
      BY <2>3, Zenon
    <2>7. [at |-> at, sigchld |-> sig, p_pptr |-> f, p_cptr |-> c, p_ysptr |-> ys, p_osptr |-> os] \in Structs
      BY <2>5, <2>6 DEF Structs
    <2> HIDE DEF G
    <2>8. tcb'[x].sigchld = sig
      BY <2>2, <2>4
    <2>9. tcb'[x].sigchld = (tcb[x].sigchld \/ (x \in Told(p) /\ tcb[x].at = "waiting"))
      BY <2>3, <2>8, Zenon
    <2> QED
      BY <2>2, <2>4, <2>7, <2>9, Zenon
  <1>7. tcb' \in [Pages \union {Low} -> Structs]
    <2> HIDE DEF G
    <2> QED
      BY <1>4, <1>5, <1>6
  <1>8. ASSUME NEW x \in Pages \union {Low} PROVE Lapsed(p, i, h, y, e, x)
    <2>1. tcb'[x] = G(x)
      BY <1>6
    <2>2. /\ tcb'[x].at = IF x = p THEN "zombie" ELSE tcb[x].at
          /\ tcb'[x].p_pptr = IF x \in Kids(p) THEN i ELSE tcb[x].p_pptr
          /\ tcb'[x].p_cptr = IF x = p THEN Null ELSE IF x = i /\ Kids(p) # {} THEN y ELSE tcb[x].p_cptr
          /\ tcb'[x].p_ysptr = IF x = h /\ Kids(p) # {} THEN e ELSE tcb[x].p_ysptr
          /\ tcb'[x].p_osptr = IF x \in Kids(p) /\ tcb[x].p_osptr = Null THEN h ELSE tcb[x].p_osptr
      BY <2>1
    <2>3. tcb'[x].sigchld = (tcb[x].sigchld \/ (x \in Told(p) /\ tcb[x].at = "waiting"))
      BY <1>6
    <2> HIDE DEF G
    <2> QED
      BY <2>2, <2>3, Zenon DEF Lapsed
  <1> QED
    BY <1>7, <1>8

(* The task p departs. *)
Departs(p, i, h, y, e) ==
  /\ Parting(p, i, h, y, e) /\ task' = task
  /\ \A x \in Pages \union {Low} : Lapsed(p, i, h, y, e, x)

(* The links after it. *)
LEMMA DepartsLinks ==
  ASSUME MInv, FInv, NEW p, NEW i, NEW h, NEW y, NEW e, Departs(p, i, h, y, e)
  PROVE  Links'
  <1> DEFINE some == Kids(p) # {}
  <1>1. Parting(p, i, h, y, e) /\ task' = task
    BY DEF Departs
  <1>2. \A x : There(x)' <=> There(x)
    BY <1>1 DEF There
  <1>3. ASSUME NEW x \in Pages \union {Low}
        PROVE  /\ tcb'[x].at = IF x = p THEN "zombie" ELSE tcb[x].at
               /\ tcb'[x].p_pptr = IF x \in Kids(p) THEN i ELSE tcb[x].p_pptr
               /\ tcb'[x].p_cptr = IF x = p THEN Null ELSE IF x = i /\ some THEN y ELSE tcb[x].p_cptr
               /\ tcb'[x].p_ysptr = IF x = h /\ some THEN e ELSE tcb[x].p_ysptr
               /\ tcb'[x].p_osptr = IF x \in Kids(p) /\ tcb[x].p_osptr = Null THEN h ELSE tcb[x].p_osptr
    <2>1. Lapsed(p, i, h, y, e, x)
      BY DEF Departs
    <2> QED
      BY <2>1 DEF Lapsed
  <1>4. /\ Low \notin Pages /\ Null \notin Pages /\ Low # Null /\ Low \in Pages \union {Low}
        /\ \A g, x : x \in Kids(g) <=> x \in Pages /\ There(x) /\ tcb[x].p_pptr = g
        /\ \A c \in Pages : There(c) => Related(c)
        /\ \A x : There(x) => Fathers(x)
    BY Kinship, Constants DEF Kids
  <1>5. /\ p \in Pages /\ i \in Pages /\ p # i /\ There(p) /\ There(i) /\ i = task'[1] /\ i = task[1]
        /\ h = tcb[i].p_cptr /\ h \in Pages /\ There(h) /\ tcb[h].p_pptr = i
        /\ h \notin Kids(p) /\ i \notin Kids(p) /\ p \notin Kids(p)
        /\ tcb[h].p_ysptr = Null /\ tcb[i].at # "zombie"
        /\ y = tcb[p].p_cptr
    BY <1>1, <1>4 DEF Parting
  <1>6. some => /\ y \in Kids(p) /\ tcb[y].p_ysptr = Null
                /\ e \in Kids(p) /\ tcb[e].p_osptr = Null
                /\ \A c \in Kids(p) : tcb[c].p_osptr = Null => c = e
    BY <1>1 DEF Parting
  <1>7. \A c \in Kids(p) : some /\ c \in Pages /\ There(c) /\ tcb[c].p_pptr = p /\ c # Low /\ c # Null
    BY <1>4
  <1> HIDE DEF some
  <1>8. tcb'[Low].p_pptr = Null /\ tcb'[Low].p_ysptr = Null /\ tcb'[Low].p_osptr = Null
    <2>1. tcb[Low].p_pptr = Null /\ tcb[Low].p_ysptr = Null /\ tcb[Low].p_osptr = Null
      BY DEF FInv, Links
    <2>2. Low \notin Kids(p) /\ Low # h
      BY <1>4, <1>5
    <2> QED
      BY <1>3, <1>4, <2>1, <2>2
  <1>9. ASSUME NEW c \in Pages, There(c) PROVE Linked(c)'
    <2>1. PICK g, oc, yc : g = tcb[c].p_pptr /\ oc = tcb[c].p_osptr /\ yc = tcb[c].p_ysptr
      OBVIOUS
    <2>2. Related(c)
      BY <1>4, <1>9
    <2>3. /\ There(g) /\ g \in Pages \union {Low} /\ (g = Low <=> c = task'[1])
          /\ oc # Null => oc \in Kids(g) /\ oc \in Pages /\ There(oc) /\ tcb[oc].p_pptr = g /\ tcb[oc].p_ysptr = c
          /\ yc # Null => yc \in Kids(g) /\ yc \in Pages /\ There(yc) /\ tcb[yc].p_pptr = g /\ tcb[yc].p_osptr = c
          /\ yc = Null => tcb[g].p_cptr = c
          /\ c \in Kids(g) /\ c # Null /\ c # Low
      BY <1>4, <1>5, <1>9, <2>1, <2>2 DEF Related
    <2>4. /\ tcb'[c].p_pptr = IF c \in Kids(p) THEN i ELSE g
          /\ tcb'[c].p_osptr = IF c \in Kids(p) /\ oc = Null THEN h ELSE oc
          /\ tcb'[c].p_ysptr = IF c = h /\ some THEN e ELSE yc
      BY <1>3, <2>1
    <2>5. CASE c \in Kids(p)
      <3>1. g = p /\ some /\ c # h /\ There(i)' /\ i # Low /\ c # task'[1]
        BY <1>2, <1>4, <1>5, <1>7, <2>1, <2>5
      <3>2. PICK o : o = IF oc = Null THEN h ELSE oc
        OBVIOUS
      <3>3. o # Null /\ There(o)' /\ o # Low /\ tcb'[o].p_pptr = i /\ tcb'[o].p_ysptr = c
        <4>1. CASE oc = Null
          <5>1. o = h /\ h # Low /\ h # Null /\ c = e
            BY <1>4, <1>5, <1>6, <2>1, <2>5, <3>1, <3>2, <4>1
          <5>2. tcb'[h].p_pptr = i /\ tcb'[h].p_ysptr = e
            BY <1>3, <1>5, <3>1
          <5> QED
            BY <1>2, <1>5, <5>1, <5>2
        <4>2. CASE oc # Null
          <5>1. o = oc /\ oc \in Kids(p) /\ oc # h /\ oc # Low
            BY <1>5, <1>7, <2>3, <3>1, <3>2, <4>2
          <5>2. tcb'[oc].p_pptr = i /\ tcb'[oc].p_ysptr = c
            BY <1>3, <2>3, <4>2, <5>1
          <5> QED
            BY <1>2, <2>3, <4>2, <5>1, <5>2
        <4> QED
          BY <4>1, <4>2
      <3>4. ASSUME yc # Null
            PROVE  There(yc)' /\ yc # Low /\ tcb'[yc].p_pptr = i /\ tcb'[yc].p_osptr = c
        <4>1. yc \in Kids(p) /\ yc # Low /\ tcb[yc].p_osptr # Null
          BY <1>7, <2>3, <3>1, <3>4
        <4>2. tcb'[yc].p_pptr = i /\ tcb'[yc].p_osptr = c
          BY <1>3, <2>3, <3>4, <4>1
        <4> QED
          BY <1>2, <2>3, <3>4, <4>1, <4>2
      <3>5. yc = Null => tcb'[i].p_cptr = c
        BY <1>3, <1>5, <2>3, <3>1
      <3>6. tcb'[c].p_pptr = i /\ tcb'[c].p_osptr = o /\ tcb'[c].p_ysptr = yc
        BY <2>4, <2>5, <3>1, <3>2
      <3>7. Stands(c, i, o, yc)
        BY <3>1, <3>3, <3>4, <3>5, <3>6 DEF Stands
      <3> QED
        BY <3>7, StandsIs
    <2>6. CASE c \notin Kids(p)
      <3>1. g # p /\ There(g)' /\ tcb'[c].p_pptr = g /\ tcb'[c].p_osptr = oc
        BY <1>2, <2>3, <2>4, <2>6
      <3>2. ASSUME oc # Null
            PROVE  There(oc)' /\ oc # Low /\ tcb'[oc].p_pptr = g /\ tcb'[oc].p_ysptr = c
        <4>1. oc \notin Kids(p) /\ oc # h /\ oc # Low
          BY <1>4, <1>5, <2>3, <3>1, <3>2
        <4>2. tcb'[oc].p_pptr = g /\ tcb'[oc].p_ysptr = c
          BY <1>3, <2>3, <3>2, <4>1
        <4> QED
          BY <1>2, <2>3, <3>2, <4>1, <4>2
      <3>3. CASE c = h /\ some
        <4>1. /\ e \in Kids(p) /\ tcb[e].p_osptr = Null /\ e # Null /\ e # Low /\ There(e) /\ e \in Pages
              /\ g = i
          BY <1>5, <1>6, <1>7, <2>1, <3>3
        <4>2. There(e)' /\ tcb'[e].p_pptr = i /\ tcb'[e].p_osptr = h
          BY <1>2, <1>3, <4>1
        <4>3. Stands(c, g, oc, e)
          BY <2>3, <2>4, <3>1, <3>2, <3>3, <4>1, <4>2 DEF Stands
        <4> QED
          BY <4>3, StandsIs
      <3>4. CASE ~(c = h /\ some)
        <4>1. ASSUME yc # Null
              PROVE  There(yc)' /\ yc # Low /\ tcb'[yc].p_pptr = g /\ tcb'[yc].p_osptr = c
          <5>1. yc \notin Kids(p) /\ yc # Low
            BY <1>4, <2>3, <3>1, <4>1
          <5>2. tcb'[yc].p_pptr = g /\ tcb'[yc].p_osptr = c
            BY <1>3, <2>3, <4>1, <5>1
          <5> QED
            BY <1>2, <2>3, <4>1, <5>1, <5>2
        <4>2. yc = Null => tcb'[g].p_cptr = c
          <5>1. yc = Null => ~(g = i /\ some)
            BY <1>5, <2>3, <3>4
          <5> QED
            BY <1>3, <2>3, <3>1, <5>1
        <4>3. Stands(c, g, oc, yc)
          BY <2>3, <2>4, <3>1, <3>2, <3>4, <4>1, <4>2 DEF Stands
        <4> QED
          BY <4>3, StandsIs
      <3> QED
        BY <3>3, <3>4
    <2> QED
      BY <2>5, <2>6
  <1>10. ASSUME NEW x \in Pages \union {Low}, There(x) PROVE Headed(x)'
    <2>1. PICK k : k = tcb[x].p_cptr
      OBVIOUS
    <2>2. /\ tcb'[x].at = IF x = p THEN "zombie" ELSE tcb[x].at
          /\ tcb'[x].p_cptr = IF x = p THEN Null ELSE IF x = i /\ some THEN y ELSE k
      BY <1>3, <2>1
    <2>3. /\ k # Null => k \in Pages /\ There(k) /\ tcb[k].p_pptr = x /\ tcb[k].p_ysptr = Null
          /\ tcb[x].at = "zombie" => k = Null
      BY <1>4, <1>10, <2>1 DEF Fathers
    <2>4. CASE x = p
      <3>1. Heads(x, Null)
        BY <2>2, <2>4 DEF Heads
      <3> QED
        BY <3>1, StandsIs
    <2>5. CASE x = i /\ some
      <3>1. y \in Kids(p) /\ tcb[y].p_ysptr = Null /\ y # h /\ y # Low /\ y \in Pages /\ There(y)
        BY <1>5, <1>6, <1>7, <2>5
      <3>2. There(y)' /\ tcb'[y].p_pptr = i /\ tcb'[y].p_ysptr = Null
        BY <1>2, <1>3, <3>1
      <3>3. tcb'[i].p_cptr = y /\ tcb'[i].at # "zombie"
        BY <1>5, <2>2, <2>5
      <3>4. Heads(i, y)
        BY <3>1, <3>2, <3>3 DEF Heads
      <3> QED
        BY <2>5, <3>4, StandsIs
    <2>6. CASE x # p /\ ~(x = i /\ some)
      <3>1. ASSUME k # Null PROVE There(k)' /\ k # Low /\ tcb'[k].p_pptr = x /\ tcb'[k].p_ysptr = Null
        <4>1. k \notin Kids(p) /\ ~(k = h /\ some) /\ k # Low
          BY <1>4, <1>5, <2>3, <2>6, <3>1
        <4>2. tcb'[k].p_pptr = x /\ tcb'[k].p_ysptr = Null
          BY <1>3, <2>3, <3>1, <4>1
        <4> QED
          BY <1>2, <2>3, <3>1, <4>1, <4>2
      <3>2. Heads(x, k)
        BY <2>2, <2>3, <2>6, <3>1 DEF Heads
      <3> QED
        BY <3>2, StandsIs
    <2> QED
      BY <2>4, <2>5, <2>6
  <1> QED
    BY <1>2, <1>8, <1>9, <1>10 DEF Links

(* The ranks, the descent and what is noticed, after it: the children of p  *)
(* come to stand above all others in the list of init.                     *)
LEMMA DepartsRest ==
  ASSUME MInv, FInv, NEW p, NEW i, NEW h, NEW y, NEW e, Departs(p, i, h, y, e)
  PROVE  Ranked' /\ Descends' /\ Noticed'
  <1> DEFINE some == Kids(p) # {}
  <1>1. Parting(p, i, h, y, e) /\ task' = task
    BY DEF Departs
  <1>2. \A x : There(x)' <=> There(x)
    BY <1>1 DEF There
  <1>3. ASSUME NEW x \in Pages \union {Low}
        PROVE  /\ tcb'[x].at = IF x = p THEN "zombie" ELSE tcb[x].at
               /\ tcb'[x].p_pptr = IF x \in Kids(p) THEN i ELSE tcb[x].p_pptr
               /\ tcb'[x].p_cptr = IF x = p THEN Null ELSE IF x = i /\ some THEN y ELSE tcb[x].p_cptr
               /\ tcb'[x].p_osptr = IF x \in Kids(p) /\ tcb[x].p_osptr = Null THEN h ELSE tcb[x].p_osptr
    <2>1. Lapsed(p, i, h, y, e, x)
      BY DEF Departs
    <2> QED
      BY <2>1 DEF Lapsed
  <1>4. /\ Low \notin Pages /\ Null \notin Pages /\ Low # Null /\ Low \in Pages \union {Low}
        /\ \A g, x : x \in Kids(g) <=> x \in Pages /\ There(x) /\ tcb[x].p_pptr = g
        /\ \A c \in Pages : There(c) => Related(c)
        /\ \A x : There(x) => Fathers(x)
    BY Kinship, Constants DEF Kids
  <1>5. /\ p \in Pages /\ i \in Pages /\ p # i /\ There(p) /\ There(i) /\ i = task'[1] /\ i = task[1]
        /\ h = tcb[i].p_cptr /\ h \in Pages /\ There(h) /\ tcb[h].p_pptr = i
        /\ h \notin Kids(p) /\ i \notin Kids(p) /\ p \notin Kids(p)
        /\ y = tcb[p].p_cptr
    BY <1>1, <1>4 DEF Parting
  <1>6. some => y \in Kids(p)
    BY <1>1 DEF Parting
  <1>7. \A c \in Kids(p) : some /\ c \in Pages /\ There(c) /\ tcb[c].p_pptr = p /\ c # Low /\ c # Null
    BY <1>4
  <1> HIDE DEF some
  <1>8. ASSUME NEW c \in Pages, There(c)
        PROVE  /\ tcb[c].p_pptr \in Pages \union {Low}
               /\ tcb'[c].p_pptr = IF c \in Kids(p) THEN i ELSE tcb[c].p_pptr
               /\ tcb'[c].p_osptr = IF c \in Kids(p) /\ tcb[c].p_osptr = Null THEN h ELSE tcb[c].p_osptr
               /\ tcb[c].p_osptr # Null => /\ tcb[c].p_osptr \in Pages
                                           /\ (tcb[c].p_osptr \in Kids(p) <=> c \in Kids(p))
               /\ c \notin Kids(p) =>
                    /\ tcb[c].p_pptr # p /\ tcb[tcb[c].p_pptr].p_cptr \notin Kids(p)
                    /\ tcb[tcb[c].p_pptr].p_cptr \in Pages
                    /\ tcb'[tcb[c].p_pptr].p_cptr = IF tcb[c].p_pptr = i /\ some THEN y
                                                     ELSE tcb[tcb[c].p_pptr].p_cptr
    <2>1. PICK g, o, k : g = tcb[c].p_pptr /\ o = tcb[c].p_osptr /\ k = tcb[g].p_cptr
      OBVIOUS
    <2>2. Related(c)
      BY <1>4, <1>8
    <2>3. /\ There(g) /\ g \in Pages \union {Low} /\ c \in Kids(g) /\ k # Null
          /\ o # Null => o \in Kids(g)
      BY <2>1, <2>2 DEF Related
    <2>4. k \in Kids(g)
      BY <1>4, <2>1, <2>3 DEF Fathers
    <2>5. /\ o # Null => o \in Pages /\ tcb[o].p_pptr = g
          /\ k \in Pages /\ tcb[k].p_pptr = g
          /\ c \in Kids(p) <=> g = p
      BY <1>4, <1>8, <2>1, <2>3, <2>4
    <2>6. /\ o # Null => (o \in Kids(p) <=> c \in Kids(p))
          /\ c \notin Kids(p) => g # p /\ k \notin Kids(p)
      BY <1>4, <2>3, <2>5
    <2>7. g # p => tcb'[g].p_cptr = IF g = i /\ some THEN y ELSE k
      BY <1>3, <2>1, <2>3
    <2> QED
      BY <1>3, <2>1, <2>3, <2>5, <2>6, <2>7
  <1>9. tcb'[i].p_cptr = IF some THEN y ELSE h
    BY <1>3, <1>5
  <1>10. Ranked'
    <2>1. PICK top \in Nat : \E r \in [Pages -> 0 .. top] : Order(r)
      BY DEF FInv, Ranked
    <2>2. PICK r \in [Pages -> 0 .. top] : Order(r)
      BY <2>1
    <2>3. PICK s \in [Pages -> 0 .. top + top + 1] :
            s = [x \in Pages |-> IF x \in Kids(p) THEN r[x] + top + 1 ELSE r[x]]
      <3> DEFINE t == [x \in Pages |-> IF x \in Kids(p) THEN r[x] + top + 1 ELSE r[x]]
      <3>1. t \in [Pages -> 0 .. top + top + 1]
        BY <2>2
      <3> QED
        BY <3>1
    <2>4. \A x \in Pages : /\ r[x] \in Nat /\ r[x] <= top /\ s[x] \in Nat
                           /\ x \in Kids(p) => s[x] = r[x] + top + 1
                           /\ x \notin Kids(p) => s[x] = r[x]
      BY <2>2, <2>3
    <2>5. \A c, d \in Pages : Siblings(c, d) =>
            /\ r[c] = r[d] => c = d
            /\ r[d] < r[c] => tcb[c].p_osptr # Null /\ r[d] <= r[tcb[c].p_osptr]
            /\ tcb[c].p_osptr = d => r[d] < r[c]
            /\ tcb[tcb[c].p_pptr].p_cptr # Null /\ r[c] <= r[tcb[tcb[c].p_pptr].p_cptr]
      BY <2>2 DEF Order
    <2>6. Order(s)'
      <3> SUFFICES ASSUME NEW c \in Pages, NEW d \in Pages, Siblings(c, d)'
                   PROVE  /\ s[c] = s[d] => c = d
                          /\ s[d] < s[c] => tcb'[c].p_osptr # Null /\ s[d] <= s[tcb'[c].p_osptr]
                          /\ tcb'[c].p_osptr = d => s[d] < s[c]
                          /\ tcb'[tcb'[c].p_pptr].p_cptr # Null
                          /\ s[c] <= s[tcb'[tcb'[c].p_pptr].p_cptr]
        BY DEF Order
      <3>1. There(c)' /\ There(d)' /\ tcb'[c].p_pptr = tcb'[d].p_pptr
        BY DEF Siblings
      <3>2. There(c) /\ There(d)
        BY <1>2, <3>1, Zenon
      <3>3. PICK g, o, k : g = tcb[c].p_pptr /\ o = tcb[c].p_osptr /\ k = tcb[g].p_cptr
        OBVIOUS
      <3>4. /\ tcb'[c].p_pptr = IF c \in Kids(p) THEN i ELSE g
            /\ tcb'[c].p_osptr = IF c \in Kids(p) /\ o = Null THEN h ELSE o
            /\ o # Null => o \in Pages /\ (o \in Kids(p) <=> c \in Kids(p))
            /\ c \notin Kids(p) => /\ g # p /\ k \notin Kids(p) /\ k \in Pages
                                   /\ tcb'[g].p_cptr = IF g = i /\ some THEN y ELSE k
            /\ tcb'[d].p_pptr = IF d \in Kids(p) THEN i ELSE tcb[d].p_pptr
        BY <1>8, <3>2, <3>3
      <3>5. c \in Kids(p) => g = p /\ k = y
        BY <1>4, <1>5, <3>3
      <3>6. /\ r[c] \in Nat /\ r[d] \in Nat /\ r[c] <= top /\ r[d] <= top
            /\ c \in Kids(p) => s[c] = r[c] + top + 1
            /\ c \notin Kids(p) => s[c] = r[c]
            /\ d \in Kids(p) => s[d] = r[d] + top + 1
            /\ d \notin Kids(p) => s[d] = r[d]
            /\ some => s[y] = r[y] + top + 1 /\ r[y] \in Nat /\ y # Null
            /\ s[h] = r[h] /\ r[h] \in Nat /\ h # Null
        BY <1>4, <1>5, <1>6, <1>7, <2>4
      <3>7. CASE c \in Kids(p) /\ d \in Kids(p)
        <4>1. Siblings(c, d)
          BY <1>4, <3>2, <3>7 DEF Siblings
        <4>2. /\ r[c] = r[d] => c = d
              /\ r[d] < r[c] => o # Null /\ r[d] <= r[o]
              /\ o = d => r[d] < r[c]
              /\ y # Null /\ r[c] <= r[y]
          BY <2>5, <3>3, <3>5, <3>7, <4>1
        <4>3. some /\ tcb'[c].p_pptr = i /\ tcb'[i].p_cptr = y
          BY <1>7, <1>9, <3>4, <3>7
        <4>4. o # Null => tcb'[c].p_osptr = o /\ s[o] = r[o] + top + 1 /\ r[o] \in Nat
          BY <2>4, <3>4, <3>7
        <4>5. tcb'[c].p_osptr = d => o = d
          BY <1>5, <3>4, <3>7
        <4> QED
          BY <3>6, <3>7, <4>2, <4>3, <4>4, <4>5
      <3>8. CASE c \in Kids(p) /\ d \notin Kids(p)
        <4>1. tcb[d].p_pptr = i /\ Siblings(d, d)
          BY <3>1, <3>2, <3>4, <3>8 DEF Siblings
        <4>2. r[d] <= r[h]
          BY <1>5, <2>5, <4>1
        <4>3. some /\ tcb'[c].p_pptr = i /\ tcb'[i].p_cptr = y
          BY <1>7, <1>9, <3>4, <3>8
        <4>4. Siblings(c, c)
          BY <3>2 DEF Siblings
        <4>5. r[c] <= r[y]
          BY <2>5, <3>3, <3>5, <3>8, <4>4
        <4>6. tcb'[c].p_osptr # Null /\ s[d] <= s[tcb'[c].p_osptr]
          <5>1. CASE o = Null
            BY <3>4, <3>6, <3>8, <4>2, <5>1
          <5>2. CASE o # Null
            <6>1. tcb'[c].p_osptr = o /\ s[o] = r[o] + top + 1 /\ r[o] \in Nat
              BY <2>4, <3>4, <3>8, <5>2
            <6> QED
              BY <3>6, <3>8, <5>2, <6>1
          <5> QED
            BY <5>1, <5>2
        <4> QED
          BY <2>1, <3>6, <3>8, <4>3, <4>5, <4>6
      <3>9. CASE c \notin Kids(p) /\ d \in Kids(p)
        <4>1. g = i /\ some /\ tcb'[c].p_pptr = i /\ tcb'[i].p_cptr = y
          BY <1>7, <1>9, <3>1, <3>4, <3>9
        <4>2. tcb'[c].p_osptr = o /\ o # d
          BY <1>7, <3>4, <3>9
        <4> QED
          BY <2>1, <3>6, <3>9, <4>1, <4>2
      <3>10. CASE c \notin Kids(p) /\ d \notin Kids(p)
        <4>1. Siblings(c, d) /\ tcb'[c].p_pptr = g /\ tcb'[c].p_osptr = o
          BY <3>1, <3>2, <3>3, <3>4, <3>10 DEF Siblings
        <4>2. /\ r[c] = r[d] => c = d
              /\ r[d] < r[c] => o # Null /\ r[d] <= r[o]
              /\ o = d => r[d] < r[c]
              /\ k # Null /\ r[c] <= r[k]
          BY <2>5, <3>3, <4>1
        <4>3. o # Null => s[o] = r[o]
          BY <2>4, <3>4, <3>10
        <4>4. tcb'[g].p_cptr # Null /\ s[c] <= s[tcb'[g].p_cptr]
          <5>1. CASE g = i /\ some
            <6>1. tcb'[g].p_cptr = y
              BY <3>4, <3>10, <5>1
            <6> QED
              BY <2>1, <3>6, <3>10, <5>1, <6>1
          <5>2. CASE ~(g = i /\ some)
            <6>1. tcb'[g].p_cptr = k /\ s[k] = r[k]
              BY <2>4, <3>4, <3>10, <5>2
            <6> QED
              BY <3>6, <3>10, <4>2, <6>1
          <5> QED
            BY <5>1, <5>2
        <4> QED
          BY <3>6, <3>10, <4>1, <4>2, <4>3, <4>4
      <3> QED
        BY <3>7, <3>8, <3>9, <3>10
    <2> QED
      BY <2>6 DEF Ranked
  <1>11. Descends'
    <2>1. PICK d \in [Pages -> Nat] : Descent(d)
      BY DEF FInv, Descends
    <2>2. d[i] = 0 /\ \A x \in Pages : d[x] \in Nat
      BY <1>5, <2>1 DEF Descent
    <2>3. ASSUME NEW c \in Pages, There(c)', c # task'[1] PROVE d[tcb'[c].p_pptr] < d[c]
      <3>1. There(c) /\ c # task[1]
        BY <1>1, <1>2, <2>3, Zenon
      <3>2. d[tcb[c].p_pptr] < d[c]
        BY <2>1, <3>1 DEF Descent
      <3>3. CASE c \in Kids(p)
        <4>1. tcb[c].p_pptr = p /\ tcb'[c].p_pptr = i
          BY <1>7, <1>8, <3>1, <3>3
        <4>2. d[p] \in Nat /\ d[c] \in Nat
          BY <1>5, <2>2
        <4> QED
          BY <2>2, <3>2, <4>1, <4>2
      <3>4. CASE c \notin Kids(p)
        BY <1>8, <3>1, <3>2, <3>4
      <3> QED
        BY <3>3, <3>4
    <2>4. d[task'[1]] = 0
      BY <1>5, <2>2
    <2>5. Descent(d)'
      BY <2>3, <2>4 DEF Descent
    <2> QED
      BY <2>5 DEF Descends
  <1>12. Noticed'
    <2> SUFFICES ASSUME NEW c \in Pages, There(c)', tcb'[c].at = "zombie",
                        tcb'[tcb'[c].p_pptr].at = "waiting"
                 PROVE  tcb'[tcb'[c].p_pptr].sigchld
      BY DEF Noticed
    <2>1. There(c)
      BY <1>2, Zenon
    <2>2. PICK f : f = tcb'[c].p_pptr
      OBVIOUS
    <2>3. f \in Pages \union {Low} /\ f = (IF c \in Kids(p) THEN i ELSE tcb[c].p_pptr)
      BY <1>5, <1>8, <2>1, <2>2
    <2>4. f # p /\ tcb[f].at = "waiting"
      BY <1>3, <2>2, <2>3
    <2>5. Lapsed(p, i, h, y, e, f)
      BY <2>3 DEF Departs
    <2>6. /\ tcb[f].sigchld => tcb'[f].sigchld
          /\ f \in Told(p) => tcb'[f].sigchld
      BY <2>4, <2>5, Zenon DEF Lapsed
    <2>7. CASE c \in Kids(p)
      <3>1. c # p /\ tcb[c].at = "zombie"
        BY <1>3, <1>5, <2>7
      <3>2. c \in Listed(p) /\ f = task[1]
        BY <1>5, <2>3, <2>7, ListedIs
      <3>3. f \in Told(p)
        BY <3>1, <3>2 DEF Told, IsZombie
      <3> QED
        BY <2>2, <2>6, <3>3, Zenon
    <2>8. CASE c \notin Kids(p) /\ c = p
      <3>1. f \in Told(p)
        BY <2>3, <2>8 DEF Told
      <3> QED
        BY <2>2, <2>6, <3>1, Zenon
    <2>9. CASE c \notin Kids(p) /\ c # p
      <3>1. tcb[c].at = "zombie" /\ f = tcb[c].p_pptr
        BY <1>3, <2>3, <2>9
      <3>2. tcb[f].sigchld
        BY <2>1, <2>4, <3>1 DEF FInv, Noticed
      <3> QED
        BY <2>2, <2>6, <3>2, Zenon
    <2> QED
      BY <2>7, <2>8, <2>9
  <1> QED
    BY <1>10, <1>11, <1>12

(* The pages and the family after it. *)
LEMMA ExitDoneKeeps ==
  ASSUME MInv, FInv, NEW nr \in TaskNrs, ExitDone(nr)
  PROVE  MInv' /\ FInv'
  <1>1. Leaves(nr) /\ task[nr] # task[1]
    BY ExitDoneIs
  <1>2. PICK p, i, h, y, e : p = task[nr] /\ i = task[1] /\ h = tcb[i].p_cptr /\ y = tcb[p].p_cptr
                             /\ e = Oldest(p)
    OBVIOUS
  <1>3. /\ tcb' = Gone(p) /\ tcb[p].at = "exiting" /\ retry = NoRetry
        /\ UNCHANGED <<mem_map, content, task, dir, pt, retry, machine, halted>>
        /\ task[nr] # Null /\ p # i
    BY <1>1, <1>2 DEF Leaves, Struct
  <1>4. There(p) /\ p \in Pages
    BY <1>2, <1>3, ThereIs
  <1>5. Parting(p, i, h, y, e)
    BY <1>2, <1>3, <1>4, PartingIs
  <1>6. /\ tcb' \in [Pages \union {Low} -> Structs]
        /\ \A x \in Pages \union {Low} : Lapsed(p, i, h, y, e, x)
    BY <1>2, <1>3, <1>4, <1>5, GoneIs
  <1>7. OnlyStructs
    <2>1. ASSUME NEW n \in TaskNrs, task[n] # Null
          PROVE  Struct(n)'.at \in {"user", "waiting"} <=> Struct(n).at \in {"user", "waiting"}
      <3>1. task[n] \in Pages
        BY <2>1, ThereIs
      <3>2. tcb'[task[n]].at = IF task[n] = p THEN "zombie" ELSE tcb[task[n]].at
        BY <1>6, <3>1 DEF Lapsed
      <3>3. Struct(n)'.at = tcb'[task[n]].at
        BY <1>3 DEF Struct
      <3> QED
        BY <1>3, <3>2, <3>3 DEF Struct
    <2>2. halted' \in BOOLEAN
      BY <1>3 DEF MInv, Types
    <2> QED
      BY <1>3, <1>6, <2>1, <2>2 DEF OnlyStructs
  <1>8. Departs(p, i, h, y, e)
    BY <1>3, <1>5, <1>6 DEF Departs
  <1>9. Links' /\ Ranked' /\ Descends' /\ Noticed'
    BY <1>8, DepartsLinks, DepartsRest
  <1>10. MInv'
    BY <1>7, StructsKeep
  <1> QED
    BY <1>9, <1>10 DEF FInv

-----------------------------------------------------------------------------
(* The first state: one task, its page table, and task 0. *)
LEMMA InitTasks ==
  ASSUME Init
  PROVE  /\ task[0] = Low /\ task[1] = 1 /\ 1 \in Pages /\ 2 \in Pages
         /\ \A n \in TaskNrs : n # 1 => task[n] = Null
         /\ \A n \in TaskNrs : dir[n] = IF n = 1 THEN 2 ELSE Null
         /\ \A n \in TaskNrs, a \in Addrs : pt[n][a].page \notin Pages /\ ~pt[n][a].rw
         /\ \A n \in TaskNrs, a \in Addrs : n # 1 => pt[n][a] = Absent
         /\ pt \in [TaskNrs -> [Addrs -> Entries]]
         /\ task \in [0 .. NrTasks - 1 -> Ptr]
  <1>1. PICK entry \in {[page |-> Low, rw |-> FALSE, dirty |-> FALSE], Absent} :
          pt = [n \in TaskNrs |-> [a \in Addrs |-> IF n = 1 THEN entry ELSE Absent]]
    BY DEF Init
  <1>2. /\ entry.page \notin Pages /\ ~entry.rw /\ Absent.page \notin Pages /\ ~Absent.rw
    BY Constants DEF Absent
  <1>3. entry \in Entries /\ Absent \in Entries
    <2>1. [page |-> Low, rw |-> FALSE, dirty |-> FALSE] \in [page : Pages \union {Low}, rw : BOOLEAN, dirty : BOOLEAN]
      OBVIOUS
    <2> QED
      BY <2>1, Zenon DEF Entries
  <1>4. pt \in [TaskNrs -> [Addrs -> Entries]]
    BY <1>1, <1>3
  <1>5. /\ \A n \in TaskNrs, a \in Addrs : pt[n][a].page \notin Pages /\ ~pt[n][a].rw
        /\ \A n \in TaskNrs, a \in Addrs : n # 1 => pt[n][a] = Absent
    BY <1>1, <1>2
  <1>6. /\ task = [n \in 0 .. NrTasks - 1 |-> CASE n = 0 -> Low [] n = 1 -> 1 [] OTHER -> Null]
        /\ dir = [n \in TaskNrs |-> IF n = 1 THEN 2 ELSE Null]
    BY DEF Init
  <1>7. \A n \in 0 .. NrTasks - 1 :
          (CASE n = 0 -> Low [] n = 1 -> 1 [] OTHER -> Null) = IF n = 0 THEN Low ELSE IF n = 1 THEN 1 ELSE Null
    OBVIOUS
  <1>8. task = [n \in 0 .. NrTasks - 1 |-> IF n = 0 THEN Low ELSE IF n = 1 THEN 1 ELSE Null]
    BY <1>6, <1>7
  <1>9. 1 \in Pages /\ 2 \in Pages /\ 0 \in 0 .. NrTasks - 1 /\ 1 \in 0 .. NrTasks - 1
        /\ \A n \in TaskNrs : n # 0 /\ n \in 0 .. NrTasks - 1
    BY Constants DEF Pages, TaskNrs
  <1>10. task \in [0 .. NrTasks - 1 -> Ptr]
    BY <1>8, <1>9 DEF Ptr
  <1> QED
    BY <1>4, <1>5, <1>6, <1>8, <1>9, <1>10

(* Its structs. *)
LEMMA InitTcb ==
  ASSUME Init
  PROVE  /\ tcb \in [Pages \union {Low} -> Structs]
         /\ \A x \in Pages \union {Low} :
              /\ tcb[x].at = "user" /\ tcb[x].p_ysptr = Null /\ tcb[x].p_osptr = Null
              /\ tcb[x].p_pptr = IF x = 1 THEN Low ELSE Null
              /\ tcb[x].p_cptr = IF x = Low THEN 1 ELSE Null
         /\ \A x : There(x) <=> x = Low \/ x = 1
  <1>1. tcb = [p \in Pages \union {Low} |-> CASE p = Low -> [Blank EXCEPT !.p_cptr = 1]
                                             [] p = 1 -> [Blank EXCEPT !.p_pptr = Low]
                                             [] OTHER -> Blank]
    BY DEF Init
  <1>2. 1 \in Pages /\ Low \notin Pages /\ Low # Null /\ 1 # Null
    BY Constants DEF Pages, Null
  <1>3. \A p \in Pages \union {Low} :
          (CASE p = Low -> [Blank EXCEPT !.p_cptr = 1]
             [] p = 1 -> [Blank EXCEPT !.p_pptr = Low]
             [] OTHER -> Blank) = IF p = Low THEN [Blank EXCEPT !.p_cptr = 1]
                                  ELSE IF p = 1 THEN [Blank EXCEPT !.p_pptr = Low] ELSE Blank
    BY <1>2
  <1> DEFINE b0 == [Blank EXCEPT !.p_cptr = 1]  b1 == [Blank EXCEPT !.p_pptr = Low]
  <1>4. Blank \in Structs
    BY DEF Blank, Structs, Ptr
  <1>5. /\ Blank.at = "user" /\ Blank.p_pptr = Null /\ Blank.p_cptr = Null
        /\ Blank.p_ysptr = Null /\ Blank.p_osptr = Null
    BY DEF Blank
  <1>6. /\ b0 \in Structs /\ b0.at = "user" /\ b0.p_pptr = Null /\ b0.p_cptr = 1
        /\ b0.p_ysptr = Null /\ b0.p_osptr = Null
    BY <1>2, <1>4, <1>5 DEF Structs, Ptr
  <1>7. /\ b1 \in Structs /\ b1.at = "user" /\ b1.p_pptr = Low /\ b1.p_cptr = Null
        /\ b1.p_ysptr = Null /\ b1.p_osptr = Null
    BY <1>2, <1>4, <1>5 DEF Structs, Ptr
  <1>8. tcb = [p \in Pages \union {Low} |-> IF p = Low THEN b0 ELSE IF p = 1 THEN b1 ELSE Blank]
    BY <1>1, <1>3, Zenon
  <1> HIDE DEF b0, b1
  <1>9. tcb \in [Pages \union {Low} -> Structs]
    BY <1>4, <1>6, <1>7, <1>8
  <1>10. \A x \in Pages \union {Low} :
              /\ tcb[x].at = "user" /\ tcb[x].p_ysptr = Null /\ tcb[x].p_osptr = Null
              /\ tcb[x].p_pptr = IF x = 1 THEN Low ELSE Null
              /\ tcb[x].p_cptr = IF x = Low THEN 1 ELSE Null
    BY <1>2, <1>5, <1>6, <1>7, <1>8
  <1>11. \A x : There(x) <=> x = Low \/ x = 1
    <2>1. 0 \in 0 .. NrTasks - 1 /\ 1 \in 0 .. NrTasks - 1
          /\ \A n \in 0 .. NrTasks - 1 : n = 0 \/ n \in TaskNrs
      BY Constants DEF TaskNrs
    <2>2. /\ task[0] = Low /\ task[1] = 1
          /\ \A n \in TaskNrs : n # 1 => task[n] = Null
      BY InitTasks
    <2> QED
      BY <1>2, <2>1, <2>2 DEF There
  <1> QED
    BY <1>9, <1>10, <1>11

(* The pages at first. *)
LEMMA InitPages ==
  ASSUME Init, AtEase
  PROVE  MInv
  <1>1. PICK m \in Machines :
          /\ machine = m
          /\ mem_map = [p \in Pages |-> IF p <= 2 THEN 1 ELSE IF p <= m.pages THEN 0 ELSE USED]
    BY DEF Init
  <1>2. /\ content = [p \in Pages \union {Low} |-> IF p = Low THEN Kernel ELSE Zeroes]
        /\ retry = NoRetry /\ halted = FALSE
    BY DEF Init
  <1>3. /\ task[0] = Low /\ task[1] = 1 /\ 1 \in Pages /\ 2 \in Pages
        /\ \A n \in TaskNrs : n # 1 => task[n] = Null
        /\ \A n \in TaskNrs : dir[n] = IF n = 1 THEN 2 ELSE Null
        /\ \A n \in TaskNrs, a \in Addrs : pt[n][a].page \notin Pages /\ ~pt[n][a].rw
        /\ \A n \in TaskNrs, a \in Addrs : n # 1 => pt[n][a] = Absent
        /\ pt \in [TaskNrs -> [Addrs -> Entries]]
        /\ task \in [0 .. NrTasks - 1 -> Ptr]
    BY InitTasks
  <1>4. 1 \in TaskNrs /\ Low \notin Pages /\ 1 # Null /\ 2 # Null /\ 1 # Low /\ Null \notin Pages
    BY <1>3, Constants DEF Null
  <1>5. machine \in Machines /\ Sound(machine)
    BY <1>1 DEF AtEase
  <1>6. machine.pages \in 2 .. NrPages /\ machine.tasks \in 2 .. NrTasks
    BY <1>5, ProcessesAssumption
  <1>7. Types
    <2>1. mem_map \in [Pages -> Nat]
      BY <1>1 DEF USED
    <2>2. content \in [Pages \union {Low} -> Values]
      BY <1>2 DEF Values
    <2>3. tcb \in [Pages \union {Low} -> Structs]
      BY InitTcb
    <2>4. dir \in [TaskNrs -> Pages \union {Null}]
      <3>1. dir = [n \in TaskNrs |-> IF n = 1 THEN 2 ELSE Null]
        BY DEF Init
      <3> QED
        BY <1>3, <3>1
    <2> QED
      BY <1>2, <1>3, <1>5, <2>1, <2>2, <2>3, <2>4 DEF Types
  <1>8. \A p \in Pages : References(p) = IF p <= 2 THEN 1 ELSE 0
    <2> SUFFICES ASSUME NEW p \in Pages PROVE References(p) = IF p <= 2 THEN 1 ELSE 0
      OBVIOUS
    <2>1. TasksAt(p) = IF p = 1 THEN {1} ELSE {}
      BY <1>3, <1>4 DEF TasksAt
    <2>2. DirsAt(p) = IF p = 2 THEN {1} ELSE {}
      BY <1>3, <1>4 DEF DirsAt
    <2>3. EntriesAt(p) = {}
      BY <1>3 DEF EntriesAt
    <2>4. Cardinality({}) = 0 /\ Cardinality({1}) = 1
      BY FS_EmptySet, FS_Singleton
    <2>5. p \in Nat /\ p >= 1
      BY DEF Pages
    <2>6. References(p) = Cardinality(TasksAt(p)) + Cardinality(DirsAt(p)) + Cardinality(EntriesAt(p))
      BY RefSets
    <2>7. p <= 2 <=> p = 1 \/ p = 2
      BY <2>5
    <2>8. /\ p = 1 => References(p) = 1 + 0 + 0
          /\ p = 2 => References(p) = 0 + 1 + 0
          /\ p # 1 /\ p # 2 => References(p) = 0 + 0 + 0
      BY <2>1, <2>2, <2>3, <2>4, <2>6
    <2> QED
      BY <2>7, <2>8
  <1>9. Counted
    <2>1. ASSUME NEW p \in Pages
          PROVE  IF p <= machine.pages THEN mem_map[p] = References(p)
                 ELSE mem_map[p] = USED /\ References(p) = 0
      <3>1. mem_map[p] = IF p <= 2 THEN 1 ELSE IF p <= machine.pages THEN 0 ELSE USED
        BY <1>1
      <3>2. p \in Nat /\ machine.pages \in Nat /\ machine.pages >= 2
        BY <1>6 DEF Pages
      <3> QED
        BY <1>8, <3>1, <3>2
    <2> QED
      BY <2>1 DEF Counted
  <1>10. mem_map[1] = 1 /\ mem_map[2] = 1
    BY <1>1, <1>3
  <1>11. Owned
    <2>1. 1 < machine.tasks
      BY <1>6
    <2> QED
      BY <1>3, <1>4, <1>10, <2>1 DEF Owned
  <1>12. Once /\ Writable
    BY <1>3 DEF Once, Writable
  <1>13. Lives
    <2>1. tcb[1].at = "user"
      BY <1>3, InitTcb
    <2> QED
      BY <1>3, <1>4, <2>1 DEF Lives, Struct
  <1>14. Forgotten
    BY <1>2, <1>4 DEF Forgotten
  <1>15. Tries
    BY <1>2, Constants DEF Tries, NoRetry
  <1>16. Droppable
    BY <1>3 DEF Droppable, Clean
  <1> QED
    BY <1>7, <1>9, <1>11, <1>12, <1>13, <1>14, <1>15, <1>16 DEF MInv

(* The family at first. *)
LEMMA InitFamily ==
  ASSUME Init
  PROVE  FInv
  <1>1. /\ \A x \in Pages \union {Low} :
             /\ tcb[x].at = "user" /\ tcb[x].p_ysptr = Null /\ tcb[x].p_osptr = Null
             /\ tcb[x].p_pptr = IF x = 1 THEN Low ELSE Null
             /\ tcb[x].p_cptr = IF x = Low THEN 1 ELSE Null
        /\ \A x : There(x) <=> x = Low \/ x = 1
        /\ task[1] = 1 /\ 1 \in Pages
    BY InitTcb, InitTasks
  <1>2. Low \notin Pages /\ Low # Null /\ 1 # Null /\ Low # 1 /\ Null \notin Pages
    BY <1>1, Constants DEF Null
  <1>3. Linked(1)
    BY <1>1, <1>2 DEF Linked
  <1>4. Headed(1) /\ Headed(Low)
    BY <1>1, <1>2 DEF Headed
  <1>5. Links
    BY <1>1, <1>2, <1>3, <1>4 DEF Links
  <1>6. Ranked
    <2> DEFINE r == [x \in Pages |-> 0]
    <2>1. r \in [Pages -> 0 .. 0]
      OBVIOUS
    <2>2. Order(r)
      <3> SUFFICES ASSUME NEW c \in Pages, NEW d \in Pages, Siblings(c, d)
                   PROVE  /\ r[c] = r[d] => c = d
                          /\ r[d] < r[c] => tcb[c].p_osptr # Null /\ r[d] <= r[tcb[c].p_osptr]
                          /\ tcb[c].p_osptr = d => r[d] < r[c]
                          /\ tcb[tcb[c].p_pptr].p_cptr # Null
                          /\ r[c] <= r[tcb[tcb[c].p_pptr].p_cptr]
        BY DEF Order
      <3>1. c = 1 /\ d = 1
        BY <1>1, <1>2 DEF Siblings
      <3>2. tcb[c].p_osptr = Null /\ tcb[c].p_pptr = Low /\ tcb[Low].p_cptr = 1
        BY <1>1, <3>1
      <3>3. r[1] = 0
        BY <1>1
      <3> HIDE DEF r
      <3> QED
        BY <1>2, <3>1, <3>2, <3>3
    <2> HIDE DEF r
    <2> QED
      BY <2>1, <2>2 DEF Ranked
  <1>7. Descends
    <2> DEFINE d == [x \in Pages |-> 0]
    <2>1. d \in [Pages -> Nat] /\ Descent(d)
      BY <1>1, <1>2 DEF Descent
    <2> HIDE DEF d
    <2> QED
      BY <2>1 DEF Descends
  <1>8. Noticed
    BY <1>1 DEF Noticed
  <1> QED
    BY <1>5, <1>6, <1>7, <1>8 DEF FInv

-----------------------------------------------------------------------------
(* What a step is, told by what it does; a panic is not among it.           *)
NoneFree == \A p \in Pages : mem_map[p] # 0
Served(nr) == \E a \in Addrs, S \in SUBSET (TaskNrs \X Addrs), q \in Pages :
  Serves(nr, a, S, q) /\ content'[q] = Seen(pt[nr][a])
Writes(nr) == \E a \in Addrs : Write(nr, a)
Grants(nr) == \E a \in Addrs : Granted(nr, a)
Doubles(nr) == \E child \in TaskNrs, p, q \in Pages : Forks(nr, child, p, q)
Buried(nr) == \E z \in TaskNrs : Buries(nr, z)
Faulted(nr) == (Halt /\ NoneFree) \/ Served(nr) \/ Grants(nr)
Does(nr) == \/ Halt /\ NoneFree
            \/ vars' = vars
            \/ Served(nr) \/ Grants(nr) \/ Writes(nr) \/ Doubles(nr)
            \/ Gives(nr) \/ ExitDone(nr) \/ Buried(nr) \/ Wait(nr)

(* A page fault is served, or memory is full. *)
LEMMA FaultIs ==
  ASSUME MInv, FewTasks, NEW nr \in TaskNrs, NEW a \in Addrs,
         Read(nr, a) \/ WriteNoPage(nr, a) \/ WriteProtected(nr, a)
  PROVE  Faulted(nr)
  <1>1. machine.ticks \in BOOLEAN /\ Sound(machine)
    BY MachineIs DEF MInv
  <1>2. CASE Read(nr, a)
    <2>1. /\ NoPage(nr, a, NoRetry) /\ User(nr) /\ retry = NoRetry /\ "read" \in machine.calls
      BY <1>2 DEF Read, Calls
    <2>2. Enough(machine) \/ "fork" \notin machine.calls
      BY <1>1, <2>1 DEF Sound
    <2>3. \/ Halt /\ \A p \in Pages : mem_map[p] # 0
          \/ \E S \in SUBSET (TaskNrs \X Addrs), q \in Pages :
               Serves(nr, a, S, q) /\ content'[q] = Seen(pt[nr][a])
      BY <2>1, <2>2, NoPageServes
    <2> QED
      BY <2>3, Zenon DEF Faulted, Served, NoneFree
  <1>3. CASE WriteNoPage(nr, a)
    <2>1. /\ NoPage(nr, a, SecondTry(nr, a)) /\ User(nr) /\ retry = NoRetry /\ "write" \in machine.calls
      BY <1>3 DEF WriteNoPage, Calls
    <2>2. PICK again : again = SecondTry(nr, a)
      OBVIOUS
    <2>3. /\ again \in {NoRetry, <<nr, a>>}
          /\ again # NoRetry => ~machine.ticks /\ "write" \in machine.calls
          /\ Enough(machine) \/ again = <<nr, a>>
      BY <1>1, <2>1, <2>2 DEF SecondTry, Sound
    <2>4. \/ Halt /\ \A p \in Pages : mem_map[p] # 0
          \/ \E S \in SUBSET (TaskNrs \X Addrs), q \in Pages :
               Serves(nr, a, S, q) /\ content'[q] = Seen(pt[nr][a])
      BY <2>1, <2>2, <2>3, NoPageServes
    <2> QED
      BY <2>4, Zenon DEF Faulted, Served, NoneFree
  <1>4. CASE WriteProtected(nr, a)
    <2>1. \/ Granted(nr, a)
          \/ Halt /\ \A p \in Pages : mem_map[p] # 0
          \/ \E S \in SUBSET (TaskNrs \X Addrs), q \in Pages :
               Serves(nr, a, S, q) /\ content'[q] = Seen(pt[nr][a])
      BY <1>4, WriteProtectedServes
    <2> QED
      BY <2>1, Zenon DEF Faulted, Served, Grants, NoneFree
  <1> QED
    BY <1>2, <1>3, <1>4

(* Every step is one of them. *)
LEMMA StepIs ==
  ASSUME IInv, FewTasks, NEW nr \in TaskNrs, Step(nr)
  PROVE  Does(nr)
  <1>1. MInv /\ FInv
    BY DEF IInv
  <1>2. CASE \E a \in Addrs : Read(nr, a) \/ WriteNoPage(nr, a) \/ WriteProtected(nr, a) \/ Write(nr, a)
    <2>1. PICK a \in Addrs : Read(nr, a) \/ WriteNoPage(nr, a) \/ WriteProtected(nr, a) \/ Write(nr, a)
      BY <1>2
    <2>2. CASE Write(nr, a)
      BY <2>2, Zenon DEF Does, Writes
    <2> QED
      BY <1>1, <2>1, <2>2, FaultIs, Zenon DEF Faulted, Does
  <1>3. CASE Fork(nr)
    BY <1>1, <1>3, ForkIs, Zenon DEF Does, Doubles
  <1>4. CASE ForkFails(nr)
    BY <1>1, <1>4, ForkFailsIs, Zenon DEF Does
  <1>5. CASE Exit(nr)
    BY <1>1, <1>5, ExitIs, Zenon DEF Does
  <1>6. CASE ExitDone(nr)
    BY <1>6, Zenon DEF Does
  <1>7. CASE Reap(nr)
    BY <1>1, <1>7, ReapIs, Zenon DEF Does, Buried
  <1>8. CASE Wait(nr)
    BY <1>8, Zenon DEF Does
  <1> QED
    BY <1>2, <1>3, <1>4, <1>5, <1>6, <1>7, <1>8, Zenon DEF Step

(* A step that changes nothing. *)
LEMMA SameKeeps ==
  ASSUME IInv, vars' = vars
  PROVE  IInv'
  <1>1. MInv /\ FInv
    BY DEF IInv
  <1>2. UNCHANGED <<mem_map, content, task, tcb, dir, pt, retry, machine, halted>>
    BY DEF vars
  <1>3. OnlyStructs
    BY <1>1, <1>2 DEF OnlyStructs, MInv, Types, Struct
  <1>4. MInv'
    BY <1>1, <1>3, StructsKeep
  <1>5. FInv'
    BY <1>1, <1>2, SameTcb
  <1> QED
    BY <1>4, <1>5 DEF IInv

(* The invariant is inductive. *)
LEMMA DoesKeeps ==
  ASSUME IInv, NEW nr \in TaskNrs, Does(nr)
  PROVE  IInv'
  <1>1. MInv /\ FInv
    BY DEF IInv
  <1>2. CASE Halt /\ NoneFree
    <2>1. MInv'
      BY <1>1, <1>2, HaltIs, StructsKeep
    <2>2. task' = task /\ tcb' = tcb
      BY <1>2 DEF Halt
    <2>3. FInv'
      BY <1>1, <2>2, SameTcb
    <2> QED
      BY <2>1, <2>3 DEF IInv
  <1>3. CASE vars' = vars
    BY <1>3, SameKeeps
  <1>4. CASE Served(nr)
    <2>1. PICK a \in Addrs, S \in SUBSET (TaskNrs \X Addrs), q \in Pages : Serves(nr, a, S, q)
      BY <1>4 DEF Served
    <2>2. MInv'
      BY <1>1, <2>1, ServesKeeps
    <2>3. task' = task /\ tcb' = tcb
      BY <2>1 DEF Serves
    <2>4. FInv'
      BY <1>1, <2>3, SameTcb
    <2> QED
      BY <2>2, <2>4 DEF IInv
  <1>5. ASSUME NEW a \in Addrs, Flagged(nr, a) PROVE IInv'
    <2>1. MInv'
      BY <1>1, <1>5, FlaggedKeeps
    <2>2. task' = task /\ tcb' = tcb
      BY <1>5 DEF Flagged
    <2>3. FInv'
      BY <1>1, <2>2, SameTcb
    <2> QED
      BY <2>1, <2>3 DEF IInv
  <1>6. CASE Grants(nr)
    BY <1>1, <1>5, <1>6, GrantedIs DEF Grants
  <1>7. CASE Writes(nr)
    BY <1>1, <1>5, <1>7, WriteIs DEF Writes
  <1>8. CASE Doubles(nr)
    BY <1>1, <1>8, ForkKeeps, ForkFamily DEF Doubles, IInv
  <1>9. CASE Gives(nr)
    BY <1>1, <1>9, ExitKeeps, ExitFamily DEF IInv
  <1>10. CASE ExitDone(nr)
    BY <1>1, <1>10, ExitDoneKeeps DEF IInv
  <1>11. CASE Buried(nr)
    BY <1>1, <1>11, BuriesKeeps, ReapFamily DEF Buried, IInv
  <1>12. CASE Wait(nr)
    BY <1>1, <1>12, WaitKeeps DEF IInv
  <1> QED
    BY <1>2, <1>3, <1>4, <1>6, <1>7, <1>8, <1>9, <1>10, <1>11, <1>12, Zenon DEF Does

(* The invariant holds, when memory is enough or what can be dropped is not *)
(* shared, and there are no more tasks than mem_map can count.             *)
THEOREM SpecIInv == AtEase /\ FewTasks /\ Spec => []IInv
  <1>1. Init /\ AtEase => IInv
    BY InitPages, InitFamily DEF IInv
  <1>2. FewTasks /\ IInv /\ [Next]_vars => IInv'
    <2> SUFFICES ASSUME FewTasks, IInv, [Next]_vars PROVE IInv'
      OBVIOUS
    <2>1. CASE UNCHANGED vars
      BY <2>1, SameKeeps
    <2>2. CASE Next
      <3>1. PICK nr \in TaskNrs : Step(nr)
        BY <2>2 DEF Next
      <3>2. Does(nr)
        BY <3>1, StepIs
      <3> QED
        BY <3>2, DoesKeeps
    <2> QED
      BY <2>1, <2>2
  <1>3. (AtEase /\ FewTasks) => [](AtEase /\ FewTasks)
    OBVIOUS
  <1> QED
    BY <1>1, <1>2, <1>3, PTL DEF Spec

(* No page is used more often than a char can count: every variable has its *)
(* type.                                                                    *)
THEOREM SpecTypeOK == AtEase /\ FewTasks /\ Spec => []TypeOK
  <1>1. ASSUME IInv, FewTasks PROVE TypeOK
    <2>1. MInv /\ Types
      BY <1>1 DEF IInv, MInv
    <2>2. ASSUME NEW p \in Pages PROVE mem_map[p] \in 0 .. 255
      <3>1. References(p) \in Nat /\ References(p) <= NrTasks - 1
        BY <2>1, Counts, MostRefs
      <3>2. mem_map[p] = References(p) \/ mem_map[p] = USED
        BY <2>1 DEF MInv, Counted
      <3> QED
        BY <1>1, <3>1, <3>2, Constants DEF FewTasks, USED
    <2>3. mem_map \in [Pages -> 0 .. 255]
      BY <2>1, <2>2 DEF Types
    <2> QED
      BY <2>1, <2>3 DEF Types, TypeOK
  <1>2. (AtEase /\ FewTasks) => [](AtEase /\ FewTasks)
    OBVIOUS
  <1> QED
    BY <1>1, <1>2, SpecIInv, PTL

(* mem_map counts the uses of every page, whatever is forked, copied,       *)
(* dropped or given back.                                                   *)
THEOREM SpecPagesAccounted == AtEase /\ FewTasks /\ Spec => []PagesAccounted
  <1>1. ASSUME IInv, FewTasks PROVE PagesAccounted
    <2>1. MInv
      BY <1>1 DEF IInv
    <2>2. ASSUME NEW p \in Pages PROVE mem_map[p] % USED = References(p)
      <3>1. References(p) \in Nat /\ References(p) <= NrTasks - 1
        BY <2>1, Counts, MostRefs
      <3>2. \/ mem_map[p] = References(p)
            \/ mem_map[p] = USED /\ References(p) = 0
        BY <2>1 DEF MInv, Counted
      <3>3. \A x \in 0 .. 99 : x % 100 = x
        OBVIOUS
      <3>4. References(p) \in 0 .. 99
        BY <1>1, <3>1, Constants DEF FewTasks, USED
      <3>5. 100 % 100 = 0
        OBVIOUS
      <3> QED
        BY <3>2, <3>3, <3>4, <3>5 DEF USED
    <2> QED
      BY <2>2 DEF PagesAccounted
  <1>2. (AtEase /\ FewTasks) => [](AtEase /\ FewTasks)
    OBVIOUS
  <1> QED
    BY <1>1, <1>2, SpecIInv, PTL

(* The links of a task fit those of its relatives. *)
LEMMA LinksFitting ==
  ASSUME MInv, FInv, NEW p \in Pages, There(p)
  PROVE  LinksFit(p)
  <1> DEFINE f == tcb[p].p_pptr
             o == tcb[p].p_osptr
             y == tcb[p].p_ysptr
             c == tcb[p].p_cptr
  <1>1. Related(p) /\ Fathers(p) /\ p # Null /\ Null \notin Pages
    BY Kinship, ThereIs
  <1>2. f # p /\ There(f)
    BY <1>1 DEF Related
  <1>3. o # Null => /\ There(o) /\ o # p /\ tcb[o].p_pptr = f /\ tcb[o].p_ysptr = p
    BY <1>1 DEF Related, Kids
  <1>4. y # Null => /\ There(y) /\ y # p /\ tcb[y].p_pptr = f /\ tcb[y].p_osptr = p
    BY <1>1 DEF Related, Kids
  <1>5. c # Null => /\ There(c) /\ c # p /\ tcb[c].p_pptr = p /\ tcb[c].p_ysptr = Null
    <2> SUFFICES ASSUME c # Null PROVE There(c) /\ c # p /\ tcb[c].p_pptr = p /\ tcb[c].p_ysptr = Null
      OBVIOUS
    <2>1. c \in Pages /\ There(c) /\ tcb[c].p_pptr = p /\ tcb[c].p_ysptr = Null
      BY <1>1 DEF Fathers, Kids
    <2>2. Related(c)
      BY <2>1, Kinship
    <2>3. tcb[c].p_pptr # c
      BY <2>2 DEF Related
    <2> QED
      BY <2>1, <2>3
  <1>6. \A q \in {f, c, y, o} : q # p /\ IsTask(q)
    <2>1. \A q : q = Null \/ There(q) => IsTask(q)
      BY DEF IsTask, There
    <2> HIDE DEF f, c, y, o
    <2> QED
      BY <1>1, <1>2, <1>3, <1>4, <1>5, <2>1
  <1> QED
    BY <1>3, <1>4, <1>5, <1>6 DEF LinksFit

(* The links of the family fit, and the list of the children has them all. *)
THEOREM SpecFamilyFits == AtEase /\ FewTasks /\ Spec => []FamilyFits
  <1>1. ASSUME IInv PROVE FamilyFits
    <2>1. MInv /\ FInv
      BY <1>1 DEF IInv
    <2> SUFFICES ASSUME NEW n \in TaskNrs, Present(n)
                 PROVE  /\ LinksFit(task[n])
                        /\ Listed(task[n]) = {task[m] : m \in {k \in TaskNrs : Present(k) /\ tcb[task[k]].p_pptr = task[n]}}
                        /\ IsZombie(task[n]) => Listed(task[n]) = {}
      BY DEF FamilyFits
    <2>2. PICK p : p = task[n]
      OBVIOUS
    <2>3. There(p) /\ p \in Pages
      BY <2>1, <2>2, ThereIs DEF Present
    <2>4. Listed(p) = Kids(p)
      BY <2>1, <2>3, ListedIs
    <2>5. Kids(p) = {task[m] : m \in {k \in TaskNrs : Present(k) /\ tcb[task[k]].p_pptr = p}}
      <3>1. ASSUME NEW x \in Kids(p)
            PROVE  \E m \in TaskNrs : Present(m) /\ tcb[task[m]].p_pptr = p /\ x = task[m]
        <4>1. x \in Pages /\ There(x) /\ tcb[x].p_pptr = p /\ x # Low /\ x # Null
          BY <2>1, <3>1, ThereIs DEF Kids
        <4> QED
          BY <2>1, <4>1, ThereIs DEF Present
      <3>2. ASSUME NEW m \in TaskNrs, Present(m), tcb[task[m]].p_pptr = p PROVE task[m] \in Kids(p)
        BY <2>1, <3>2, ThereIs DEF Kids, Present
      <3> QED
        BY <3>1, <3>2
    <2>6. IsZombie(p) => Kids(p) = {}
      BY <2>1, <2>3, Kinship DEF Fathers, IsZombie
    <2>7. LinksFit(p)
      BY <2>1, <2>3, LinksFitting
    <2> QED
      BY <2>2, <2>4, <2>5, <2>6, <2>7
  <1> QED
    BY <1>1, SpecIInv, PTL

(* A task that sleeps in waitpid has been told of every child that is gone. *)
THEOREM SpecZombieIsNoticed == AtEase /\ FewTasks /\ Spec => []ZombieIsNoticed
  <1>1. ASSUME IInv PROVE ZombieIsNoticed
    <2>1. MInv /\ FInv
      BY <1>1 DEF IInv
    <2> SUFFICES ASSUME NEW n \in TaskNrs, Present(n), Struct(n).at = "waiting",
                        NEW c \in Listed(task[n]), IsZombie(c)
                 PROVE  Struct(n).sigchld
      BY DEF ZombieIsNoticed
    <2>2. PICK p : p = task[n]
      OBVIOUS
    <2>3. There(p)
      BY <2>1, <2>2, ThereIs DEF Present
    <2>4. c \in Pages /\ There(c) /\ tcb[c].p_pptr = p
      BY <2>1, <2>2, <2>3, ListedIs DEF Kids
    <2>5. tcb[c].at = "zombie" /\ tcb[p].at = "waiting"
      BY <2>2 DEF IsZombie, Struct
    <2>6. tcb[p].sigchld
      BY <2>1, <2>4, <2>5, Zenon DEF FInv, Noticed
    <2> QED
      BY <2>2, <2>6, Zenon DEF Struct
  <1> QED
    BY <1>1, SpecIInv, PTL

(* The kernel panics only when no page is free: no page is given back       *)
(* twice, and no task exits while init has no child.                        *)
HaltsWhenFull == [][halted' => halted \/ Free(mem_map) = {}]_vars
(* The panics that are left are those of oom(). *)
THEOREM SpecHaltsWhenFull == AtEase /\ FewTasks /\ Spec => HaltsWhenFull
  <1>1. ASSUME IInv, FewTasks, [Next]_vars PROVE halted' => halted \/ Free(mem_map) = {}
    <2>1. CASE UNCHANGED vars
      BY <2>1 DEF vars
    <2>2. CASE Next
      <3>1. PICK nr \in TaskNrs : Step(nr)
        BY <2>2 DEF Next
      <3>2. Does(nr)
        BY <1>1, <3>1, StepIs
      <3>3. CASE Halt /\ NoneFree
        BY <3>3 DEF NoneFree, Free
      <3>4. CASE vars' = vars
        BY <3>4 DEF vars
      <3>5. CASE Served(nr) \/ Grants(nr) \/ Writes(nr)
        BY <3>5, Zenon DEF Served, Serves, Grants, Granted, Writes, Write
      <3>6. CASE Doubles(nr) \/ Gives(nr) \/ Buried(nr) \/ Wait(nr)
        BY <3>6, Zenon DEF Doubles, Forks, Gives, Buried, Buries, Wait
      <3>7. CASE ExitDone(nr)
        <4>1. Leaves(nr)
          BY <1>1, <3>7, ExitDoneIs DEF IInv
        <4> QED
          BY <4>1 DEF Leaves
      <3> QED
        BY <3>2, <3>3, <3>4, <3>5, <3>6, <3>7, Zenon DEF Does
    <2> QED
      BY <1>1, <2>1, <2>2
  <1>2. (AtEase /\ FewTasks) => [](AtEase /\ FewTasks)
    OBVIOUS
  <1> QED
    BY <1>1, <1>2, SpecIInv, PTL DEF Spec, HaltsWhenFull

-----------------------------------------------------------------------------
(* What a task reads, entry by entry. *)
Sees(n, a) == Seen(pt[n][a])
Memories == \A n \in TaskNrs :
  MemoryOf(n) = IF dir[n] = Null THEN NoMemory ELSE [a \in Addrs |-> Sees(n, a)]
(* A memory is what the entries show. *)
LEMMA MemoryIs == Memories
  BY DEF Memories, MemoryOf, Sees, Seen

(* The same, primed. *)
LEMMA MemoryNext == Memories'
  BY MemoryIs, PTL

(* What a task reads is a value, and no memory is not a memory. *)
LEMMA MemoryType ==
  ASSUME Types, NEW n \in TaskNrs
  PROVE  /\ dir[n] # Null => MemoryOf(n) \in [Addrs -> Values]
         /\ MemoryOf(n) = NoMemory <=> dir[n] = Null
  <1>1. ASSUME NEW a \in Addrs PROVE Sees(n, a) \in Values
    <2>1. pt[n][a] \in Entries /\ content \in [Pages \union {Low} -> Values]
      BY DEF Types
    <2>2. pt[n][a].page = Null \/ pt[n][a].page \in Pages \union {Low}
      BY <2>1 DEF Entries, Absent
    <2> QED
      BY <2>1, <2>2 DEF Sees, Seen, Values
  <1>2. MemoryOf(n) = IF dir[n] = Null THEN NoMemory ELSE [a \in Addrs |-> Sees(n, a)]
    BY MemoryIs DEF Memories
  <1>3. NoMemory \notin [Addrs -> Values]
    <2>1. PICK a \in Addrs : TRUE
      BY ProcessesAssumption
    <2>2. NoMemory[a] = NrTasks + 1
      BY DEF NoMemory
    <2>3. NrTasks + 1 \notin Values
      BY Constants DEF Values, TaskNrs, Zeroes, Kernel
    <2> QED
      BY <2>2, <2>3
  <1> QED
    BY <1>1, <1>2, <1>3

(* The same, primed. *)
MemoriesTyped == \A n \in TaskNrs : MemoryOf(n) = NoMemory <=> dir[n] = Null
LEMMA MemoryTypeNext == Types' => MemoriesTyped'
  <1>1. Types => MemoriesTyped
    BY MemoryType DEF MemoriesTyped
  <1> QED
    BY <1>1, PTL

(* An entry names a page that is counted. *)
EntriesCounted == \A n \in TaskNrs, a \in Addrs :
  pt[n][a].page \in Pages => mem_map[pt[n][a].page] # 0
(* It is so whenever the pages are accounted for. *)
LEMMA EntryCounted == MInv => EntriesCounted
  <1> SUFFICES ASSUME MInv, NEW n \in TaskNrs, NEW a \in Addrs, pt[n][a].page \in Pages
               PROVE  mem_map[pt[n][a].page] # 0
    BY DEF EntriesCounted
  <1>1. ~Nobody(pt[n][a].page)
    BY DEF Nobody
  <1> QED
    BY <1>1, Counts

(* The same, primed. *)
LEMMA EntryCountedNext == MInv' => EntriesCounted'
  BY EntryCounted, PTL

(* A fault that is served is not seen. *)
LEMMA ServedUnseen ==
  ASSUME MInv, MInv', NEW nr \in TaskNrs, Served(nr), NEW n \in TaskNrs, NEW b \in Addrs
  PROVE  Sees(n, b)' = Sees(n, b)
  <1>1. PICK a \in Addrs, S \in SUBSET (TaskNrs \X Addrs), q \in Pages :
          Serves(nr, a, S, q) /\ content'[q] = Seen(pt[nr][a])
    BY DEF Served
  <1>2. Safe(S) /\ (Dropping(S, q) \/ mem_map[q] = 0)
    BY <1>1 DEF Serves
  <1>3. pt'[n][b] = IF n = nr /\ b = a THEN Fresh(q) ELSE IF <<n, b>> \in S THEN Absent ELSE pt[n][b]
    BY <1>1 DEF Serves
  <1>4. Sees(n, b)' = IF pt'[n][b].page = Null THEN Zeroes ELSE content'[pt'[n][b].page]
    BY DEF Sees, Seen
  <1>5. q # Null
    BY Constants
  <1>6. CASE n = nr /\ b = a
    <2>1. pt'[n][b].page = q
      BY <1>3, <1>6 DEF Fresh
    <2> QED
      BY <1>1, <1>4, <1>5, <1>6, <2>1 DEF Sees
  <1>7. CASE ~(n = nr /\ b = a) /\ <<n, b>> \in S
    <2>1. pt'[n][b].page = Null
      BY <1>3, <1>7 DEF Absent
    <2>2. content[pt[n][b].page] = Zeroes
      BY <1>2, <1>7 DEF Safe, Harmless
    <2> QED
      BY <1>4, <2>1, <2>2 DEF Sees, Seen
  <1>8. CASE ~(n = nr /\ b = a) /\ <<n, b>> \notin S
    <2>1. pt'[n][b] = pt[n][b] /\ pt[n][b] \in Entries
      BY <1>3, <1>8 DEF MInv, Types
    <2>2. pt[n][b].page \in Pages \union {Low, Null}
      BY <2>1, EntryIs
    <2>3. CASE pt[n][b].page \in Pages
      <3>1. pt[n][b].page # q
        <4>1. Left(S, q)
          BY <1>2, LeftOver
        <4> QED
          BY <1>8, <4>1 DEF Left
      <3>2. mem_map'[pt[n][b].page] # 0
        BY <2>1, <2>3, EntryCountedNext DEF EntriesCounted
      <3>3. content'[pt[n][b].page] = content[pt[n][b].page]
        BY <1>1, <2>3, <3>1, <3>2 DEF Serves
      <3> QED
        BY <1>4, <2>1, <3>3 DEF Sees, Seen
    <2>4. CASE pt[n][b].page = Low
      <3>1. content'[Low] = content[Low]
        BY <1>1 DEF Serves
      <3> QED
        BY <1>4, <2>1, <2>4, <3>1 DEF Sees, Seen
    <2>5. CASE pt[n][b].page = Null
      BY <1>4, <2>1, <2>5 DEF Sees, Seen
    <2> QED
      BY <2>2, <2>3, <2>4, <2>5
  <1> QED
    BY <1>6, <1>7, <1>8

(* A write is seen where it is made, and nowhere else. *)
LEMMA WriteSeen ==
  ASSUME MInv, NEW nr \in TaskNrs, NEW a \in Addrs, Write(nr, a), NEW n \in TaskNrs, NEW b \in Addrs
  PROVE  Sees(n, b)' = IF n = nr /\ b = a THEN nr ELSE Sees(n, b)
  <1>1. Flagged(nr, a)
    BY WriteIs
  <1>2. pt'[n][b].page = pt[n][b].page /\ pt[nr][a].page \in Pages /\ mem_map[pt[nr][a].page] = 1
    BY <1>1 DEF Flagged
  <1>3. Sees(n, b)' = IF pt'[n][b].page = Null THEN Zeroes ELSE content'[pt'[n][b].page]
    BY DEF Sees, Seen
  <1>4. content' = [content EXCEPT ![pt[nr][a].page] = nr] /\ content \in [Pages \union {Low} -> Values]
    BY DEF Write, MInv, Types
  <1>5. pt[nr][a].page # Null
    BY <1>2, Constants
  <1>6. CASE n = nr /\ b = a
    <2>1. content'[pt[nr][a].page] = nr
      BY <1>2, <1>4
    <2> QED
      BY <1>2, <1>3, <1>5, <1>6, <2>1
  <1>7. CASE ~(n = nr /\ b = a)
    <2>1. Sole(pt[nr][a].page)
      BY <1>2, Counts
    <2>2. pt[n][b].page # pt[nr][a].page
      BY <1>7, <2>1 DEF Sole
    <2>3. pt[n][b] \in Entries
      BY DEF MInv, Types
    <2>4. pt[n][b].page \in Pages \union {Low, Null}
      BY <2>3, EntryIs
    <2>5. pt[n][b].page # Null => content'[pt[n][b].page] = content[pt[n][b].page]
      BY <1>4, <2>2, <2>4
    <2> QED
      BY <1>2, <1>3, <1>7, <2>5 DEF Sees, Seen
  <1> QED
    BY <1>6, <1>7

(* What is given back, nobody else reads. *)
LEMMA GivesUnseen ==
  ASSUME MInv, MInv', NEW nr \in TaskNrs, Gives(nr), NEW n \in TaskNrs, NEW b \in Addrs, n # nr
  PROVE  Sees(n, b)' = Sees(n, b)
  <1>1. pt'[n][b] = pt[n][b] /\ pt[n][b] \in Entries
    BY GivesBack DEF MInv, Types
  <1>2. pt[n][b].page \in Pages \union {Low, Null}
    BY <1>1, EntryIs
  <1>3. content' = Kept(mem_map', content) /\ content \in [Pages \union {Low} -> Values]
    BY DEF Gives, MInv, Types
  <1>4. /\ \A p \in Pages : content'[p] = IF mem_map'[p] = 0 THEN Zeroes ELSE content[p]
        /\ content'[Low] = content[Low]
    BY <1>3, KeptIs
  <1>5. pt[n][b].page \in Pages => mem_map'[pt[n][b].page] # 0
    BY <1>1, EntryCountedNext DEF EntriesCounted
  <1>6. pt[n][b].page # Null => content'[pt[n][b].page] = content[pt[n][b].page]
    BY <1>2, <1>4, <1>5
  <1>7. Sees(n, b)' = IF pt'[n][b].page = Null THEN Zeroes ELSE content'[pt'[n][b].page]
    BY DEF Sees, Seen
  <1> QED
    BY <1>1, <1>6, <1>7 DEF Sees, Seen

(* The memories of the tasks, and what a step does to them: a fork begins   *)
(* one with a copy, a write is seen by who makes it, exit ends one, and     *)
(* nothing else is seen.                                                    *)
SameMemory == \A n \in TaskNrs : MemoryOf(n)' = MemoryOf(n)

(* No memory changes when the tables and the contents do not. *)
LEMMA SameTables == UNCHANGED <<content, dir, pt>> => SameMemory
  <1> SUFFICES ASSUME UNCHANGED <<content, dir, pt>>, NEW n \in TaskNrs PROVE MemoryOf(n)' = MemoryOf(n)
    BY DEF SameMemory
  <1> QED
    BY DEF MemoryOf

(* Nor when every task reads what it has read. *)
LEMMA SameSeen ==
  ASSUME dir' = dir, \A n \in TaskNrs, a \in Addrs : Sees(n, a)' = Sees(n, a)
  PROVE  SameMemory
  <1> SUFFICES ASSUME NEW n \in TaskNrs PROVE MemoryOf(n)' = MemoryOf(n)
    BY DEF SameMemory
  <1>1. MemoryOf(n)' = IF dir'[n] = Null THEN NoMemory' ELSE [a \in Addrs |-> Sees(n, a)']
    BY MemoryNext DEF Memories
  <1>2. MemoryOf(n) = IF dir[n] = Null THEN NoMemory ELSE [a \in Addrs |-> Sees(n, a)]
    BY MemoryIs DEF Memories
  <1>3. [a \in Addrs |-> Sees(n, a)'] = [a \in Addrs |-> Sees(n, a)]
    OBVIOUS
  <1>4. NoMemory' = NoMemory
    BY DEF NoMemory
  <1> QED
    BY <1>1, <1>2, <1>3, <1>4

(* A task that calls the kernel has a memory. *)
LEMMA UserHasMemory ==
  ASSUME MInv, NEW nr \in TaskNrs, task[nr] # Null, Struct(nr).at = "user"
  PROVE  dir[nr] # Null /\ Memory[nr] # NoMemory /\ Memory[nr] = MemoryOf(nr)
  <1>1. dir[nr] # Null
    BY DEF MInv, Lives
  <1> QED
    BY <1>1, MemoryType DEF MInv, Memory

(* A write is a store. *)
LEMMA WriteStores ==
  ASSUME MInv, NEW nr \in TaskNrs, NEW a \in Addrs, Write(nr, a)
  PROVE  Private!Store(nr, a)
  <1>1. task[nr] # Null /\ Struct(nr).at = "user" /\ dir' = dir
    BY DEF Write, User, Present
  <1>2. Memory[nr] # NoMemory /\ dir[nr] # Null
    BY <1>1, UserHasMemory
  <1>3. ASSUME NEW n \in TaskNrs
        PROVE  MemoryOf(n)' = IF n = nr THEN [MemoryOf(nr) EXCEPT ![a] = nr] ELSE MemoryOf(n)
    <2>1. MemoryOf(n)' = IF dir'[n] = Null THEN NoMemory' ELSE [b \in Addrs |-> Sees(n, b)']
      BY MemoryNext DEF Memories
    <2>2. MemoryOf(n) = IF dir[n] = Null THEN NoMemory ELSE [b \in Addrs |-> Sees(n, b)]
      BY MemoryIs DEF Memories
    <2>3. NoMemory' = NoMemory
      BY DEF NoMemory
    <2>4. \A b \in Addrs : Sees(n, b)' = IF n = nr /\ b = a THEN nr ELSE Sees(n, b)
      BY WriteSeen
    <2>5. [b \in Addrs |-> Sees(n, b)'] = [b \in Addrs |-> IF n = nr /\ b = a THEN nr ELSE Sees(n, b)]
      BY <2>4
    <2>6. CASE n = nr
      <3>1. MemoryOf(nr) = [b \in Addrs |-> Sees(nr, b)]
        BY <1>2, <2>2, <2>6
      <3>2. [MemoryOf(nr) EXCEPT ![a] = nr] = [b \in Addrs |-> IF b = a THEN nr ELSE Sees(nr, b)]
        BY <3>1
      <3> QED
        BY <1>1, <1>2, <2>1, <2>5, <2>6, <3>2
    <2>7. CASE n # nr
      BY <1>1, <2>1, <2>2, <2>3, <2>5, <2>7
    <2> QED
      BY <2>6, <2>7
  <1>4. Memory' = [n \in TaskNrs |-> MemoryOf(n)']
    BY DEF Memory
  <1>5. Memory' = [n \in TaskNrs |-> IF n = nr THEN [Memory[nr] EXCEPT ![a] = nr] ELSE Memory[n]]
    BY <1>3, <1>4 DEF Memory
  <1>6. Memory' = [Memory EXCEPT ![nr] = [@ EXCEPT ![a] = nr]]
    BY <1>5 DEF Memory
  <1> QED
    BY <1>2, <1>6 DEF Private!Store, Memory

(* A fork is one. *)
LEMMA ForkCopies ==
  ASSUME MInv, NEW nr \in TaskNrs, NEW child \in TaskNrs, NEW p \in Pages, NEW q \in Pages,
         Forks(nr, child, p, q)
  PROVE  Private!Fork(nr, child)
  <1>1. task[nr] # Null /\ Struct(nr).at = "user" /\ content' = content
    BY DEF Forks
  <1>2. Memory[nr] # NoMemory /\ dir[nr] # Null /\ Memory[nr] = MemoryOf(nr)
    BY <1>1, UserHasMemory
  <1>3. /\ child # nr /\ dir[child] = Null
        /\ \A n \in TaskNrs : dir'[n] = IF n = child THEN q ELSE dir[n]
        /\ \A n \in TaskNrs, a \in Addrs :
             pt'[n][a].page = IF n = child THEN pt[nr][a].page ELSE pt[n][a].page
    BY ForkTables
  <1>4. Memory[child] = NoMemory /\ q # Null
    BY <1>3, MemoryType, Constants DEF Memory, MInv
  <1>5. ASSUME NEW n \in TaskNrs
        PROVE  MemoryOf(n)' = IF n = child THEN MemoryOf(nr) ELSE MemoryOf(n)
    <2>1. MemoryOf(n)' = IF dir'[n] = Null THEN NoMemory' ELSE [b \in Addrs |-> Sees(n, b)']
      BY MemoryNext DEF Memories
    <2>2. /\ MemoryOf(n) = IF dir[n] = Null THEN NoMemory ELSE [b \in Addrs |-> Sees(n, b)]
          /\ MemoryOf(nr) = [b \in Addrs |-> Sees(nr, b)]
      BY <1>2, MemoryIs DEF Memories
    <2>3. NoMemory' = NoMemory
      BY DEF NoMemory
    <2>4. ASSUME NEW b \in Addrs
          PROVE  Sees(n, b)' = IF n = child THEN Sees(nr, b) ELSE Sees(n, b)
      <3>1. Sees(n, b)' = IF pt'[n][b].page = Null THEN Zeroes ELSE content'[pt'[n][b].page]
        BY DEF Sees, Seen
      <3> QED
        BY <1>1, <1>3, <3>1 DEF Sees, Seen
    <2>5. [b \in Addrs |-> Sees(n, b)'] = [b \in Addrs |-> IF n = child THEN Sees(nr, b) ELSE Sees(n, b)]
      BY <2>4
    <2>6. CASE n = child
      BY <1>3, <1>4, <2>1, <2>2, <2>5, <2>6
    <2>7. CASE n # child
      BY <1>3, <2>1, <2>2, <2>3, <2>5, <2>7
    <2> QED
      BY <2>6, <2>7
  <1>6. Memory' = [n \in TaskNrs |-> MemoryOf(n)']
    BY DEF Memory
  <1>7. Memory' = [n \in TaskNrs |-> IF n = child THEN Memory[nr] ELSE Memory[n]]
    BY <1>5, <1>6 DEF Memory
  <1>8. Memory' = [Memory EXCEPT ![child] = Memory[nr]]
    BY <1>7 DEF Memory
  <1> QED
    BY <1>2, <1>4, <1>8 DEF Private!Fork, Memory

(* An exit leaves. *)
LEMMA GivesLeaves ==
  ASSUME MInv, MInv', NEW nr \in TaskNrs, Gives(nr)
  PROVE  Private!Leave(nr)
  <1>1. task[nr] # Null /\ Struct(nr).at = "user"
    BY DEF Gives
  <1>2. Memory[nr] # NoMemory
    BY <1>1, UserHasMemory
  <1>3. ASSUME NEW n \in TaskNrs
        PROVE  MemoryOf(n)' = IF n = nr THEN NoMemory ELSE MemoryOf(n)
    <2>1. MemoryOf(n)' = IF dir'[n] = Null THEN NoMemory' ELSE [b \in Addrs |-> Sees(n, b)']
      BY MemoryNext DEF Memories
    <2>2. MemoryOf(n) = IF dir[n] = Null THEN NoMemory ELSE [b \in Addrs |-> Sees(n, b)]
      BY MemoryIs DEF Memories
    <2>3. NoMemory' = NoMemory
      BY DEF NoMemory
    <2>4. dir'[n] = IF n = nr THEN Null ELSE dir[n]
      BY GivesBack
    <2>5. n # nr => [b \in Addrs |-> Sees(n, b)'] = [b \in Addrs |-> Sees(n, b)]
      BY GivesUnseen
    <2> QED
      BY <2>1, <2>2, <2>3, <2>4, <2>5
  <1>4. Memory' = [n \in TaskNrs |-> MemoryOf(n)']
    BY DEF Memory
  <1>5. Memory' = [n \in TaskNrs |-> IF n = nr THEN NoMemory ELSE Memory[n]]
    BY <1>3, <1>4 DEF Memory
  <1>6. Memory' = [Memory EXCEPT ![nr] = NoMemory]
    BY <1>5 DEF Memory
  <1> QED
    BY <1>2, <1>6 DEF Private!Leave, Memory

(* A fault is not seen, whether it is served or stops the machine. *)
LEMMA FaultHidden ==
  ASSUME IInv, IInv', NEW nr \in TaskNrs, Faulted(nr)
  PROVE  SameMemory
  <1>1. MInv /\ MInv'
    BY DEF IInv
  <1>2. CASE Halt /\ NoneFree
    BY <1>2, SameTables DEF Halt
  <1>3. CASE Served(nr)
    <2>1. dir' = dir
      BY <1>3, Zenon DEF Served, Serves
    <2> QED
      BY <1>1, <1>3, <2>1, ServedUnseen, SameSeen
  <1>4. CASE Grants(nr)
    <2>1. PICK a \in Addrs : Granted(nr, a)
      BY <1>4 DEF Grants
    <2>2. \A n \in TaskNrs, b \in Addrs : pt'[n][b].page = pt[n][b].page
      BY <1>1, <2>1, GrantedIs DEF Flagged
    <2>3. dir' = dir /\ content' = content
      BY <2>1 DEF Granted
    <2>4. \A n \in TaskNrs, b \in Addrs : Sees(n, b)' = Sees(n, b)
      BY <2>2, <2>3 DEF Sees, Seen
    <2> QED
      BY <2>3, <2>4, SameSeen
  <1> QED
    BY <1>2, <1>3, <1>4 DEF Faulted

(* Nor are the other steps that are neither a write nor a fork nor an exit. *)
LEMMA RestHidden ==
  ASSUME IInv, NEW nr \in TaskNrs, ForkFails(nr) \/ ExitDone(nr) \/ Reap(nr) \/ Wait(nr)
  PROVE  SameMemory
  <1>1. MInv /\ FInv
    BY DEF IInv
  <1>2. CASE ForkFails(nr)
    <2>1. vars' = vars
      BY <1>1, <1>2, ForkFailsIs
    <2> QED
      BY <2>1, SameTables DEF vars
  <1>3. CASE ExitDone(nr)
    <2>1. Leaves(nr)
      BY <1>1, <1>3, ExitDoneIs
    <2> QED
      BY <2>1, SameTables DEF Leaves
  <1>4. CASE Reap(nr)
    <2>1. PICK z \in TaskNrs : Buries(nr, z)
      BY <1>1, <1>4, ReapIs
    <2> QED
      BY <2>1, SameTables DEF Buries
  <1>5. CASE Wait(nr)
    BY <1>5, SameTables DEF Wait
  <1> QED
    BY <1>2, <1>3, <1>4, <1>5

(* A fork copies the memory of the task that forks, to a task that was not   *)
(* there, and to no other.                                                   *)
LEMMA ForkIsFork ==
  ASSUME IInv, NEW nr \in TaskNrs, Fork(nr)
  PROVE  \E child \in TaskNrs :
           /\ Private!Fork(nr, child)
           /\ \A n \in TaskNrs : dir[n] = Null /\ dir'[n] # Null => n = child
  <1>1. MInv
    BY DEF IInv
  <1>2. PICK child \in TaskNrs, p \in Pages, q \in Pages : Forks(nr, child, p, q)
    BY <1>1, ForkIs
  <1>3. Private!Fork(nr, child)
    BY <1>1, <1>2, ForkCopies
  <1>4. \A n \in TaskNrs : dir'[n] = IF n = child THEN q ELSE dir[n]
    BY <1>1, <1>2, ForkTables
  <1> QED
    BY <1>3, <1>4

(* A step of the machine, seen in the memories. *)
LEMMA StepItsOwn ==
  ASSUME IInv, IInv', FewTasks, NEW nr \in TaskNrs, Step(nr)
  PROVE  EachItsOwn /\ (SameMemory \/ Private!Step(nr))
  <1>1. MInv /\ MInv' /\ FInv
    BY DEF IInv
  <1>2. \A n \in TaskNrs, a \in Addrs : Write(n, a) => Private!Store(n, a)
    BY <1>1, WriteStores
  <1>3. \A n \in TaskNrs : Exit(n) => Private!Leave(n)
    BY <1>1, ExitIs, GivesLeaves
  <1>4. SameMemory => UNCHANGED Memory
    BY DEF SameMemory, Memory
  <1>5. /\ \A child \in TaskNrs : dir[child] = Null /\ dir'[child] # Null =>
             \E n \in TaskNrs : Private!Fork(n, child) /\ Fork(n)
        /\ \/ SameMemory
           \/ Private!Step(nr) /\ ((\E a \in Addrs : Write(nr, a)) \/ Exit(nr) \/ Fork(nr))
    <2>1. ASSUME SameMemory
          PROVE  \A child \in TaskNrs : ~(dir[child] = Null /\ dir'[child] # Null)
      <3> SUFFICES ASSUME NEW child \in TaskNrs, dir[child] = Null, dir'[child] # Null PROVE FALSE
        OBVIOUS
      <3>1. MemoryOf(child) = NoMemory
        BY MemoryIs DEF Memories
      <3>2. MemoryOf(child)' # NoMemory'
        BY <1>1, MemoryTypeNext DEF MInv, MemoriesTyped
      <3> QED
        BY <2>1, <3>1, <3>2 DEF SameMemory, NoMemory
    <2>2. CASE \E a \in Addrs : Write(nr, a)
      <3>1. PICK a \in Addrs : Write(nr, a)
        BY <2>2
      <3>2. dir' = dir
        BY <3>1 DEF Write
      <3>3. Private!Step(nr)
        BY <1>2, <3>1, Zenon DEF Private!Step
      <3> QED
        BY <2>2, <3>2, <3>3
    <2>3. CASE Exit(nr)
      <3>1. Gives(nr)
        BY <1>1, <2>3, ExitIs
      <3>2. \A n \in TaskNrs : dir'[n] = IF n = nr THEN Null ELSE dir[n]
        BY <1>1, <3>1, GivesBack
      <3>3. Private!Step(nr)
        BY <1>3, <2>3, Zenon DEF Private!Step
      <3> QED
        BY <2>3, <3>2, <3>3
    <2>4. CASE Fork(nr)
      <3>1. PICK child \in TaskNrs :
              /\ Private!Fork(nr, child)
              /\ \A n \in TaskNrs : dir[n] = Null /\ dir'[n] # Null => n = child
        BY <2>4, ForkIsFork
      <3>2. Private!Step(nr)
        BY <3>1, Zenon DEF Private!Step
      <3> QED
        BY <2>4, <3>1, <3>2
    <2>5. CASE \E a \in Addrs : Read(nr, a) \/ WriteNoPage(nr, a) \/ WriteProtected(nr, a)
      <3>1. SameMemory
        BY <1>1, <2>5, FaultIs, FaultHidden
      <3> QED
        BY <2>1, <3>1
    <2>6. CASE ForkFails(nr) \/ ExitDone(nr) \/ Reap(nr) \/ Wait(nr)
      <3>1. SameMemory
        BY <2>6, RestHidden
      <3> QED
        BY <2>1, <3>1
    <2> QED
      BY <2>2, <2>3, <2>4, <2>5, <2>6, Zenon DEF Step
  <1> QED
    BY <1>2, <1>3, <1>4, <1>5 DEF EachItsOwn

(* A step that changes no table and no page. *)
LEMMA BothSame ==
  ASSUME UNCHANGED <<content, dir, pt>> PROVE Memory' = Memory
  BY SameTables DEF SameMemory, Memory

(* The memories at the start. *)
LEMMA StartsPrivate == ASSUME Init, AtEase PROVE Private!Start
  <1>1. Types
    BY InitPages DEF MInv
  <1>2. \A n \in TaskNrs : MemoryOf(n) \in [Addrs -> Values] \union {NoMemory}
    BY <1>1, MemoryType
  <1> QED
    BY <1>2 DEF Private!Start, Memory

(* Copy-on-write is not seen: whatever is shared, copied, dropped and given *)
(* back, a write is a store of the task that writes, a fork copies the       *)
(* memory of the task that forks, an exit ends the memory of the task that  *)
(* exits, and no other step changes what a task reads.                      *)
THEOREM SpecMemoryIsPrivate == AtEase /\ FewTasks /\ Spec => MemoryIsPrivate
  <1>1. Init /\ AtEase => Private!Start
    BY StartsPrivate
  <1>2. ASSUME IInv, IInv', FewTasks, [Next]_vars
        PROVE  [EachItsOwn]_<<content, dir, pt>>
    <2>1. CASE UNCHANGED vars
      BY <2>1 DEF vars
    <2>2. CASE Next
      <3>1. PICK nr \in TaskNrs : Step(nr)
        BY <2>2 DEF Next
      <3> QED
        BY <1>2, <3>1, StepItsOwn
    <2> QED
      BY <1>2, <2>1, <2>2
  <1>3. (AtEase /\ FewTasks) => [](AtEase /\ FewTasks)
    OBVIOUS
  <1> QED
    BY <1>1, <1>2, <1>3, SpecIInv, PTL DEF Spec, MemoryIsPrivate

(* The tasks and their pages implement PrivateMemory. *)
THEOREM SpecImplementsPrivate == AtEase /\ FewTasks /\ Spec => Private!Spec
  <1>1. Init /\ AtEase => Private!Start
    BY StartsPrivate
  <1>2. ASSUME IInv, IInv', FewTasks, [Next]_vars
        PROVE  [\E t \in TaskNrs : Private!Step(t)]_Memory
    <2>1. CASE UNCHANGED vars
      BY <2>1, BothSame DEF vars
    <2>2. CASE Next
      <3>1. PICK nr \in TaskNrs : Step(nr)
        BY <2>2 DEF Next
      <3>2. SameMemory \/ Private!Step(nr)
        BY <1>2, <3>1, StepItsOwn
      <3>3. CASE SameMemory
        BY <3>3 DEF SameMemory, Memory
      <3> QED
        BY <3>2, <3>3
    <2> QED
      BY <1>2, <2>1, <2>2
  <1>3. (AtEase /\ FewTasks) => [](AtEase /\ FewTasks)
    OBVIOUS
  <1> QED
    BY <1>1, <1>2, <1>3, SpecIInv, PTL DEF Spec, Private!Spec
=============================================================================
