----------------------------- MODULE MCBlockIO -----------------------------
(***************************************************************************)
(* Instances of the block layer for TLC.  Device 1 is a partition of six   *)
(* sectors, so that the last block it holds, block 2, is out of range for  *)
(* do_hd_request.                                                          *)
(***************************************************************************)
EXTENDS BlockIOProps, TLC

CONSTANTS t1, t2, t3, b1, b2, b3, b4

MCNrSects == [d \in Devices |-> IF d = 1 THEN 6 ELSE 0]
TwoBlocks == {<<1, 0>>, <<1, 1>>}
FirstAndLast == {<<1, 0>>, <<1, 2>>}
OneBlock == {<<1, 0>>}
OnePage == {<<1, 0>>}
NoPages == {}
MCQueues == Buffers \union {WaitForRequest}
EveryWay == {f \in [Buffers -> BlockIds] : \A a, b \in Buffers : f[a] = f[b] => a = b}
(* One way only, for the runs without symmetry: b1 has block 0, and so on. *)
InOrder == {[b \in Buffers |-> CASE b = b1 -> <<1, 0>> [] b = b2 -> <<1, 1>> [] b = b3 -> <<1, 2>>]}
Interchangeable == Permutations(Tasks) \union Permutations(Buffers)
=============================================================================
