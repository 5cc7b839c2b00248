--------------------------- MODULE MCBufferCache ---------------------------
(* Instances of the buffer cache for TLC. *)
EXTENDS BufferCacheSync, TLC

CONSTANTS t1, t2, x, y, z

OneDevice == [id \in Blocks |-> 1]

(* Two tasks that are alike.  Every call with two blocks begins with the   *)
(* same one: with two buffers, two tasks that each hold one and need       *)
(* another would wait for ever.                                            *)
FirstX == [t \in Tasks |-> {ids \in {x} \X Blocks : ids[2] # x}]
Filling == [t \in Tasks |-> {"getblk", "breada", "bread_page", "free_block"}]
Interchangeable == Permutations(Tasks) \union Permutations(Blocks \ {x})

(* One task reads x and z ahead, while the other reads z and y, one each,  *)
(* and syncs.                                                              *)
Meeting == (t1 :> {<<z>>, <<y>>}) @@ (t2 :> {<<x, z>>})
Reading == (t1 :> {"breada", "sync", "sync_dev"}) @@ (t2 :> {"breada"})
=============================================================================
