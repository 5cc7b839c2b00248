---------------------------- MODULE MCInodeCache ----------------------------
(* Instances of the inodes for TLC. *)
EXTENDS InodeCacheProps, TLC

CONSTANTS t1, t2, t3

Calls3(a, b, c) == t1 :> a @@ t2 :> b @@ t3 :> c
Orderly == {Calls3({"chdir", "mkdir"}, {"chdir", "mkdir"}, {}),
            Calls3({"chdir", "mkdir", "rmdir"}, {"mkdir"}, {}),
            Calls3({"chdir", "mkdir"}, {"chdir", "sync"}, {}),
            Calls3({"chdir"}, {"chdir"}, {"chdir"})}
All == {[t \in Tasks |-> {"chdir", "mkdir", "rmdir", "sync"}]}
Interchangeable == Permutations(Slots)
=============================================================================
