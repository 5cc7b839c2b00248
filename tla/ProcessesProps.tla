--------------------------- MODULE ProcessesProps ---------------------------
(* What the pages, the address spaces and the family of the tasks owe each *)
(* other.                                                                  *)
EXTENDS Processes

(* mem_map counts who uses a page: a struct, a page table, or the entries   *)
(* that name it, whatever is forked, copied, dropped or left half-way.      *)
References(p) ==
  Cardinality({n \in TaskNrs : task[n] = p}) + Cardinality({n \in TaskNrs : dir[n] = p})
  + Cardinality({e \in TaskNrs \X Addrs : pt[e[1]][e[2]].page = p})
PagesAccounted == \A p \in Pages : mem_map[p] % USED = References(p)

(* Copy-on-write is not seen: each task has a memory of its own.  A write is *)
(* a store of the task that writes, a fork a copy of the memory of the task  *)
(* that forks, and faults, dropped pages, failed forks and reaping change    *)
(* what no task reads.                                                       *)
NoMemory == [a \in Addrs |-> NrTasks + 1]
MemoryOf(n) ==
  IF dir[n] = Null THEN NoMemory
  ELSE [a \in Addrs |-> IF pt[n][a].page = Null THEN Zeroes ELSE content[pt[n][a].page]]
Memory == [n \in TaskNrs |-> MemoryOf(n)]
Private == INSTANCE PrivateMemory WITH memory <- Memory
EachItsOwn ==
  /\ \A nr \in TaskNrs, a \in Addrs : Write(nr, a) => Private!Store(nr, a)
  /\ \A nr \in TaskNrs : Exit(nr) => Private!Leave(nr)
  /\ \A child \in TaskNrs :
       dir[child] = Null /\ dir'[child] # Null => \E nr \in TaskNrs : Private!Fork(nr, child) /\ Fork(nr)
  /\ \/ UNCHANGED Memory
     \/ \E nr \in TaskNrs : (\E a \in Addrs : Write(nr, a)) \/ Exit(nr) \/ Fork(nr)
MemoryIsPrivate == Private!Start /\ [][EachItsOwn]_<<content, dir, pt>>

(* audit_ptree (exit.c:64-133): the links of a task lead to tasks, and fit. *)
IsTask(p) == p = Null \/ \E n \in 0 .. NrTasks - 1 : task[n] = p
LinksFit(p) ==
  LET s == tcb[p] IN
  /\ \A q \in {s.p_pptr, s.p_cptr, s.p_ysptr, s.p_osptr} : q # p /\ IsTask(q)
  /\ s.p_osptr # Null => tcb[s.p_osptr].p_pptr = s.p_pptr /\ tcb[s.p_osptr].p_ysptr = p
  /\ s.p_ysptr # Null => tcb[s.p_ysptr].p_pptr = s.p_pptr /\ tcb[s.p_ysptr].p_osptr = p
  /\ s.p_cptr # Null => tcb[s.p_cptr].p_pptr = p /\ tcb[s.p_cptr].p_ysptr = Null

(* More than the audit looks at: the list of the children of a task has all *)
(* of them, so that waitpid finds each, and a zombie has none.              *)
FamilyFits ==
  \A n \in TaskNrs : Present(n) =>
    /\ LinksFit(task[n])
    /\ Listed(task[n]) = {task[m] : m \in {k \in TaskNrs : Present(k) /\ tcb[task[k]].p_pptr = task[n]}}
    /\ IsZombie(task[n]) => Listed(task[n]) = {}

(* A task that sleeps in waitpid has been told of every child that is gone, *)
(* its own or inherited (exit.c:298, 312).                                  *)
ZombieIsNoticed ==
  \A n \in TaskNrs :
    Present(n) /\ Struct(n).at = "waiting" /\ (\E c \in Listed(task[n]) : IsZombie(c))
      => Struct(n).sigchld
=============================================================================
