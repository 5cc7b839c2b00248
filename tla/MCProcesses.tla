---------------------------- MODULE MCProcesses ----------------------------
(* Instances of the tasks and their pages for TLC. *)
EXTENDS ProcessesProps

All == {"read", "write", "fork", "exit", "wait"}
Machine(names, t, p, b) == [calls |-> names, tasks |-> t, pages |-> p, ticks |-> b]
(* All that the tasks can do, in enough memory; *)
Roomy == Machine(All, 3, 8, TRUE)
Copies == Machine({"write", "fork", "exit"}, 4, 9, FALSE)
(* the family alone; *)
Family == Machine({"fork", "exit", "wait"}, 5, 8, TRUE)
(* too little memory, and nothing in it that is clean; *)
Small == Machine(All \ {"read"}, 4, 6, FALSE)
(* one task, which loses its clean pages. *)
Alone == Machine({"read", "write"}, 2, 3, FALSE)
Several == {Roomy, Copies, Family, Small, Alone}
=============================================================================
