------------------------------- MODULE DiskIO -------------------------------
(***************************************************************************)
(* What the block layer promises the buffer cache: each buffer is free, or *)
(* held by a task that asks for its transfer, or queued for the drive.  A  *)
(* transfer that has been queued ends, well or badly; it leaves the buffer *)
(* equal to its block unless it failed or the buffer was changed meanwhile,*)
(* in which case the buffer is dirty.  Who waits for whom, the slots, the  *)
(* elevator, the sectors and the retries do not show.                      *)
(***************************************************************************)
CONSTANTS Buffers, BlockIds

VARIABLE buffer \* use, dirt, uptodate, id, and whether it equals its block

Init ==
  \E f \in [Buffers -> BlockIds] :
    buffer = [b \in Buffers |-> [use |-> "free", dirt |-> FALSE, uptodate |-> FALSE,
                                 id |-> f[b], same |-> FALSE]]

(* The holder changes the buffer, all of it when it is to count as up to date. *)
Modify(b, whole) ==
  /\ whole => buffer[b].use = "free"
  /\ buffer' = [buffer EXCEPT ![b].uptodate = whole \/ buffer[b].uptodate,
                              ![b].dirt = TRUE, ![b].same = FALSE]

Forget(b) ==
  /\ buffer[b].use = "free"
  /\ buffer' = [buffer EXCEPT ![b].uptodate = FALSE, ![b].dirt = FALSE]

Reuse(b, id) ==
  /\ buffer[b].use = "free" /\ ~buffer[b].dirt
  /\ buffer' = [buffer EXCEPT ![b].id = id, ![b].uptodate = FALSE, ![b].same = FALSE]

(* Only a buffer with something to transfer is taken. *)
Take(b) ==
  /\ buffer[b].use = "free" /\ (buffer[b].dirt \/ ~buffer[b].uptodate)
  /\ buffer' = [buffer EXCEPT ![b].use = "held"]

GiveUp(b) ==
  /\ buffer[b].use = "held"
  /\ buffer' = [buffer EXCEPT ![b].use = "free"]

Queue(b) ==
  /\ buffer[b].use = "held"
  /\ buffer' = [buffer EXCEPT ![b].use = "queued", ![b].dirt = FALSE]

(* Some of the sectors. *)
Transfer(b) ==
  /\ buffer[b].use = "queued"
  /\ \E same \in BOOLEAN : buffer' = [buffer EXCEPT ![b].same = same]

End(b) ==
  /\ buffer[b].use = "queued"
  /\ \E ok, same \in BOOLEAN :
       /\ ok /\ ~buffer[b].dirt => same
       /\ buffer' = [buffer EXCEPT ![b].use = "free", ![b].uptodate = ok, ![b].same = same]

Next ==
  \E b \in Buffers :
    \/ Forget(b) \/ Take(b) \/ GiveUp(b) \/ Queue(b) \/ Transfer(b) \/ End(b)
    \/ \E whole \in BOOLEAN : Modify(b, whole)
    \/ \E id \in BlockIds : Reuse(b, id)

Spec == Init /\ [][Next]_buffer
FairSpec == Spec /\ \A b \in Buffers : WF_buffer(End(b))
=============================================================================
