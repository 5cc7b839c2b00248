----------------------------- MODULE Processes -----------------------------
(***************************************************************************)
(* Tasks and the pages they are made of: kernel/fork.c, kernel/exit.c,     *)
(* mm/memory.c and the part of mm/swap.c that takes pages back.            *)
(*                                                                         *)
(* A task is a page with its struct, a page for its page table (the limit  *)
(* of 3 MB makes it one), and the pages the entries name.  The kernel is   *)
(* not preempted, and what runs here sleeps in two places only: in         *)
(* do_exit, which closes files and puts inodes, and in waitpid.            *)
(*                                                                         *)
(* There is no swap device, so that swap_out drops what is clean and       *)
(* leaves what is dirty.  Task 1, init, never leaves its last loop.        *)
(***************************************************************************)
EXTENDS Naturals, FiniteSets, FiniteSetsExt

CONSTANTS
  NrTasks,   \* NR_TASKS
  NrPages,   \* PAGING_PAGES
  Addrs,     \* the pages of an address space
  Machines   \* what the tasks may do, and with how much: a set of records

ASSUME ProcessesAssumption ==
  /\ NrTasks \in Nat /\ NrTasks > 1 /\ NrPages \in Nat /\ NrPages > 1
  /\ IsFiniteSet(Addrs) /\ Addrs # {}
  /\ Machines \subseteq [calls : SUBSET {"read", "write", "fork", "exit", "wait"},
                         tasks : 2 .. NrTasks, pages : 2 .. NrPages, ticks : BOOLEAN]

TaskNrs == 1 .. NrTasks - 1
Pages == 1 .. NrPages
Null == 0
Low == NrPages + 1  \* below LOW_MEM, and not counted: the kernel, task 0's struct
USED == 100

VARIABLES
  mem_map,  \* how often a page is used
  content,  \* what a page holds
  task,     \* task[nr]: the page of its struct
  tcb,      \* the structs, by their page
  dir,      \* dir[nr]: the page of the page table of task nr
  pt,       \* pt[nr]: its entries
  retry,    \* the access that a fault has just been handled for
  machine,  \* what the tasks may do, the tasks and pages there are; chosen once
  halted    \* panic(), or a write through NULL

vars == <<mem_map, content, task, tcb, dir, pt, retry, machine, halted>>

(* The contents: zeroes, what the kernel had, what a task has written. *)
Zeroes == 0
Kernel == NrTasks
Values == TaskNrs \union {Zeroes, Kernel}

Absent == [page |-> Null, rw |-> FALSE, dirty |-> FALSE]
Entries == [page : Pages \union {Low}, rw : BOOLEAN, dirty : BOOLEAN] \union {Absent}
NoRetry == <<0, Null>>

Ptr == Pages \union {Low, Null}
Structs == [at : {"user", "exiting", "waiting", "zombie"}, sigchld : BOOLEAN,
            p_pptr : Ptr, p_cptr : Ptr, p_ysptr : Ptr, p_osptr : Ptr]
Blank == [at |-> "user", sigchld |-> FALSE, p_pptr |-> Null, p_cptr |-> Null,
          p_ysptr |-> Null, p_osptr |-> Null]

TypeOK ==
  /\ mem_map \in [Pages -> 0 .. 255]
  /\ content \in [Pages \union {Low} -> Values]
  /\ task \in [0 .. NrTasks - 1 -> Ptr]
  /\ tcb \in [Pages \union {Low} -> Structs]
  /\ dir \in [TaskNrs -> Pages \union {Null}]
  /\ pt \in [TaskNrs -> [Addrs -> Entries]]
  /\ retry \in (TaskNrs \X Addrs) \union {NoRetry}
  /\ machine \in Machines
  /\ halted \in BOOLEAN

(* Task 0 has forked init, which shares the kernel's pages, or has none     *)
(* after an exec.                                                           *)
Init ==
  \E m \in Machines :
    /\ machine = m
    /\ mem_map = [p \in Pages |-> IF p <= 2 THEN 1 ELSE IF p <= m.pages THEN 0 ELSE USED]
    /\ content = [p \in Pages \union {Low} |-> IF p = Low THEN Kernel ELSE Zeroes]
    /\ task = [n \in 0 .. NrTasks - 1 |-> CASE n = 0 -> Low [] n = 1 -> 1 [] OTHER -> Null]
    /\ tcb = [p \in Pages \union {Low} |-> CASE p = Low -> [Blank EXCEPT !.p_cptr = 1]
                                             [] p = 1 -> [Blank EXCEPT !.p_pptr = Low]
                                             [] OTHER -> Blank]
    /\ dir = [n \in TaskNrs |-> IF n = 1 THEN 2 ELSE Null]
    /\ \E entry \in {[page |-> Low, rw |-> FALSE, dirty |-> FALSE], Absent} :
         pt = [n \in TaskNrs |-> [a \in Addrs |-> IF n = 1 THEN entry ELSE Absent]]
    /\ retry = NoRetry
    /\ halted = FALSE
-----------------------------------------------------------------------------
(* get_free_page takes the last page that is free.  While there is none,   *)
(* swap_out drops an entry that is clean, from where it stopped last time  *)
(* (any): so long that a page is free, or no clean entry is left.          *)
Less(map, S, table) ==
  [p \in Pages |-> map[p] - Cardinality({e \in S : table[e[1]][e[2]].page = p})]

Free(map) == {p \in Pages : map[p] = 0}

Clean(table) ==
  {e \in TaskNrs \X Addrs : table[e[1]][e[2]].page \in Pages /\ ~table[e[1]][e[2]].dirty}

(* What swap_out may have dropped when get_free_page returns. *)
Dropped(map, table) ==
  LET Enough(S) == Free(Less(map, S, table)) # {} IN
  {S \in SUBSET Clean(table) :
     IF Enough(S) THEN S = {} \/ \E e \in S : ~Enough(S \ {e}) ELSE S = Clean(table)}

Got(map, table) ==
  {LET left == Less(map, S, table) IN
   LET page == IF Free(left) = {} THEN Null ELSE Max(Free(left)) IN
   [page |-> page,
    map |-> [p \in Pages |-> IF p = page THEN 1 ELSE left[p]],
    table |-> [n \in TaskNrs |-> [a \in Addrs |-> IF <<n, a>> \in S THEN Absent ELSE table[n][a]]]]
     : S \in Dropped(map, table)}

(* free_page, for each page of a set: FreePanics when one is free already. *)
FreePanics(S) == \E p \in S : mem_map[p] = 0
FreedTwice(S) ==  \* mutant: the second free_page_tables finds the entries still there
  [p \in Pages |-> IF p \in S THEN mem_map[p] - 2 ELSE mem_map[p]]
Freed(S) == [p \in Pages |-> IF p \in S THEN mem_map[p] - 1 ELSE mem_map[p]]

(* get_free_page clears what it takes: what a free page held is forgotten. *)
Kept(map, c) == [p \in DOMAIN c |-> IF p \in Pages /\ map[p] = 0 THEN Zeroes ELSE c[p]]

Halt == halted' = TRUE /\ UNCHANGED <<mem_map, content, task, tcb, dir, pt, retry, machine>>
-----------------------------------------------------------------------------
Struct(nr) == tcb[task[nr]]
Present(nr) == task[nr] # Null
User(nr) == ~halted /\ Present(nr) /\ Struct(nr).at = "user"
Calls(nr, call) == User(nr) /\ call \in machine.calls /\ retry = NoRetry

(* A page fault that cannot be served: oom(). *)
OutOfMemory(g) == g.page = Null /\ Halt

(* do_no_page: there is no executable, and the page is an empty one. *)
NoPage(nr, a, again) ==
  /\ pt[nr][a].page = Null
  /\ \E g \in Got(mem_map, pt) :
       \/ OutOfMemory(g)
       \/ /\ g.page # Null
          /\ mem_map' = g.map
          /\ content' = Kept(mem_map', [content EXCEPT ![g.page] = Zeroes])
          /\ pt' = [g.table EXCEPT ![nr][a] = [page |-> g.page, rw |-> TRUE, dirty |-> FALSE]]
          /\ retry' = again
          /\ UNCHANGED <<task, tcb, dir, machine, halted>>

(* The timer may come between a fault and the second try, or not.           *)
SecondTry(nr, a) == IF machine.ticks THEN NoRetry ELSE <<nr, a>>

Read(nr, a) == Calls(nr, "read") /\ NoPage(nr, a, NoRetry)
WriteNoPage(nr, a) == Calls(nr, "write") /\ NoPage(nr, a, SecondTry(nr, a))

(* do_wp_page.  The old page is uncounted by what mem_map says after the    *)
(* new one has been got.                                                    *)
WriteProtected(nr, a) ==
  LET old == pt[nr][a].page IN
  /\ Calls(nr, "write") /\ old # Null /\ ~pt[nr][a].rw
  /\ \/ /\ old \in Pages /\ mem_map[old] = 1
        /\ pt' = [pt EXCEPT ![nr][a].rw = TRUE]
        /\ retry' = SecondTry(nr, a)
        /\ UNCHANGED <<mem_map, content, task, tcb, dir, machine, halted>>
     \/ /\ ~(old \in Pages /\ mem_map[old] = 1)
        /\ \E g \in Got(mem_map, pt) :
             \/ OutOfMemory(g)
             \/ /\ g.page # Null
                /\ mem_map' = [p \in Pages |-> IF p = old THEN (g.map[p] + 255) % 256 ELSE g.map[p]]
                /\ content' = Kept(mem_map', [content EXCEPT ![g.page] = IF old = g.page THEN Zeroes ELSE content[old]])
                /\ pt' = [g.table EXCEPT ![nr][a] = [page |-> g.page, rw |-> TRUE, dirty |-> FALSE]]
                /\ retry' = SecondTry(nr, a)
                /\ UNCHANGED <<task, tcb, dir, machine, halted>>

(* The access itself, or its second try. *)
Write(nr, a) ==
  /\ User(nr) /\ "write" \in machine.calls /\ retry \in {NoRetry, <<nr, a>>}
  /\ pt[nr][a].rw
  /\ content' = [content EXCEPT ![pt[nr][a].page] = nr]
  /\ pt' = [pt EXCEPT ![nr][a].dirty = TRUE]
  /\ retry' = NoRetry
  /\ UNCHANGED <<mem_map, task, tcb, dir, machine, halted>>
-----------------------------------------------------------------------------
(* copy_page_tables: the page is shared, write-protected on both sides; the *)
(* kernel's own are not counted.                                            *)
Protected(entries) == [a \in Addrs |-> [entries[a] EXCEPT !.rw = FALSE]]

ParentWrites(entries) == entries  \* mutant: *from_page_table = this_page is missing
Parent(entries) == [a \in Addrs |->
  IF entries[a].page \in Pages THEN [entries[a] EXCEPT !.rw = FALSE] ELSE entries[a]]

SharedUncounted(map, entries) == map  \* mutant: mem_map[this_page]++ is missing
Shared(map, entries) ==
  [p \in Pages |-> map[p] + Cardinality({a \in Addrs : entries[a].page = p})]

BornUnlinked(p, q) ==  \* mutant: p->p_osptr->p_ysptr = p is missing
  [x \in DOMAIN tcb |->
     IF x = p THEN [Blank EXCEPT !.p_pptr = q, !.p_osptr = tcb[q].p_cptr]
     ELSE [tcb[x] EXCEPT !.p_cptr = IF x = q THEN p ELSE @]]

(* The links of the family, with a child p for q. *)
Born(p, q) ==
  LET older == tcb[q].p_cptr IN
  [x \in DOMAIN tcb |->
     IF x = p THEN [Blank EXCEPT !.p_pptr = q, !.p_osptr = older]
     ELSE [tcb[x] EXCEPT !.p_cptr = IF x = q THEN p ELSE @,
                         !.p_ysptr = IF x = older THEN p ELSE @]]

EmptySlot(nr) ==
  nr < machine.tasks /\ task[nr] = Null /\ \A n \in TaskNrs : task[n] = Null => nr <= n

(* find_empty_process and copy_process, of a task that is not task 0. *)
Fork(nr) ==
  /\ Calls(nr, "fork")
  /\ \E child \in TaskNrs :
       /\ EmptySlot(child)
       /\ \E g \in Got(mem_map, pt) :
            /\ g.page # Null
            /\ \E h \in Got(g.map, g.table) :
                 /\ h.page # Null
                 /\ task' = [task EXCEPT ![child] = g.page]
                 /\ tcb' = Born(g.page, task[nr])
                 /\ dir' = [dir EXCEPT ![child] = h.page]
                 /\ pt' = [h.table EXCEPT ![child] = Protected(h.table[nr]), ![nr] = Parent(h.table[nr])]
                 /\ mem_map' = Shared(h.map, h.table[nr])
                 /\ content' = Kept(mem_map', content)
  /\ UNCHANGED <<retry, machine, halted>>

(* No page for the struct, or none for the page table. *)
ForkFails(nr) ==
  /\ Calls(nr, "fork")
  /\ \E child \in TaskNrs : EmptySlot(child)
  /\ \E g \in Got(mem_map, pt) :
       \/ /\ g.page = Null
          /\ mem_map' = g.map /\ pt' = g.table
       \/ /\ g.page # Null
          /\ \E h \in Got(g.map, g.table) :
               /\ h.page = Null
               /\ mem_map' = [h.map EXCEPT ![g.page] = @ - 1] /\ pt' = h.table
  /\ content' = Kept(mem_map', content)
  /\ UNCHANGED <<task, tcb, dir, retry, machine, halted>>
-----------------------------------------------------------------------------
(* do_exit, up to where it sleeps (sys_close, iput), and after. *)
Held(nr) == {pt[nr][a].page : a \in Addrs} \intersect Pages

Exit(nr) ==
  /\ nr # 1 /\ Calls(nr, "exit")
  /\ \/ FreePanics(Held(nr)) /\ Halt
     \/ /\ ~FreePanics(Held(nr))
        /\ mem_map' = Freed(Held(nr) \union {dir[nr]})
        /\ content' = Kept(mem_map', content)
        /\ dir' = [dir EXCEPT ![nr] = Null]
        /\ pt' = [pt EXCEPT ![nr] = [a \in Addrs |-> Absent]]
        /\ tcb' = [tcb EXCEPT ![task[nr]].at = "exiting"]
        /\ UNCHANGED <<task, retry, machine, halted>>

(* The list of the children of p, from the youngest on. *)
Child(p) ==
  LET child[k \in 0 .. NrTasks] ==
        IF k = 0 THEN tcb[p].p_cptr
        ELSE IF child[k - 1] = Null THEN Null ELSE tcb[child[k - 1]].p_osptr
  IN child

Listed(p) == {Child(p)[k] : k \in 0 .. NrTasks} \ {Null}
IsZombie(c) == tcb[c].at = "zombie"

(* The rest of do_exit for the task p: the father is told, init inherits. A *)
(* signal to a task in user mode is taken before the task calls again.     *)
ToldFather(p) == {tcb[p].p_pptr}  \* mutant: task[1] is not told of the zombies it inherits
Told(p) == {tcb[p].p_pptr} \union {x \in {task[1]} : \E c \in Listed(p) : IsZombie(c)}

Gone(p) ==
  LET init == task[1]
      children == Listed(p)
      heir(x) == x = init /\ children # {} IN
  [x \in DOMAIN tcb |->
    [at |-> IF x = p THEN "zombie" ELSE tcb[x].at,
     sigchld |-> tcb[x].sigchld \/ (x \in Told(p) /\ tcb[x].at = "waiting"),
     p_pptr |-> IF x \in children THEN init ELSE tcb[x].p_pptr,
     p_cptr |-> IF x = p THEN Null ELSE IF heir(x) THEN tcb[p].p_cptr ELSE tcb[x].p_cptr,
     p_ysptr |-> IF x = tcb[init].p_cptr /\ children # {}
                   THEN CHOOSE c \in children : tcb[c].p_osptr = Null
                   ELSE tcb[x].p_ysptr,
     p_osptr |-> IF x \in children /\ tcb[x].p_osptr = Null THEN tcb[init].p_cptr
                 ELSE tcb[x].p_osptr]]

ExitDone(nr) ==
  /\ ~halted /\ retry = NoRetry /\ Present(nr) /\ Struct(nr).at = "exiting"
  /\ \/ Struct(nr).p_cptr # Null /\ tcb[task[1]].p_cptr = Null /\ Halt
     \/ /\ Struct(nr).p_cptr # Null => tcb[task[1]].p_cptr # Null
        /\ tcb' = Gone(task[nr])
        /\ UNCHANGED <<mem_map, content, task, dir, pt, retry, machine, halted>>
-----------------------------------------------------------------------------
(* release: the links around the struct p, and its page. *)
Released(p) ==
  LET z == tcb[p] IN
  [x \in DOMAIN tcb |->
     IF x = p THEN Blank
     ELSE [tcb[x] EXCEPT !.p_ysptr = IF x = z.p_osptr THEN z.p_ysptr ELSE @,
                         !.p_osptr = IF x = z.p_ysptr THEN z.p_osptr ELSE @,
                         !.p_cptr = IF x = z.p_pptr /\ z.p_ysptr = Null THEN z.p_osptr ELSE @]]

(* waitpid(-1): the first zombie of the list, or sleep until SIGCHLD. *)
Waits(nr) ==
  \/ Calls(nr, "wait")
  \/ ~halted /\ retry = NoRetry /\ Present(nr) /\ Struct(nr).at = "waiting" /\ Struct(nr).sigchld

FirstZombie(p, c) ==
  \E k \in 0 .. NrTasks :
    /\ c = Child(p)[k] /\ c # Null /\ IsZombie(c)
    /\ \A l \in 0 .. k - 1 : ~IsZombie(Child(p)[l])

Reap(nr) ==
  /\ Waits(nr)
  /\ \E z \in TaskNrs :
       /\ Present(z) /\ FirstZombie(task[nr], task[z])
       /\ \/ FreePanics({task[z]}) /\ Halt
          \/ /\ ~FreePanics({task[z]})
             /\ tcb' = [Released(task[z]) EXCEPT ![task[nr]].at = "user", ![task[nr]].sigchld = FALSE]
             /\ task' = [task EXCEPT ![z] = Null]
             /\ mem_map' = Freed({task[z]})
             /\ UNCHANGED <<content, dir, pt, retry, machine, halted>>

Wait(nr) ==
  /\ Calls(nr, "wait") /\ Struct(nr).p_cptr # Null
  /\ \A c \in Listed(task[nr]) : ~IsZombie(c)
  /\ tcb' = [tcb EXCEPT ![task[nr]].at = "waiting"]
  /\ UNCHANGED <<mem_map, content, task, dir, pt, retry, machine, halted>>
-----------------------------------------------------------------------------
Step(nr) ==
  \/ \E a \in Addrs : Read(nr, a) \/ WriteNoPage(nr, a) \/ WriteProtected(nr, a) \/ Write(nr, a)
  \/ Fork(nr) \/ ForkFails(nr)
  \/ Exit(nr) \/ ExitDone(nr)
  \/ Reap(nr) \/ Wait(nr)

Next == \E nr \in TaskNrs : Step(nr)

Spec == Init /\ [][Next]_vars
=============================================================================
