-------------------------- MODULE BufferCacheProps --------------------------
(* What the callers of the buffer cache rely on. *)
EXTENDS BufferCache

(* A block has one buffer at most, although getblk sleeps between looking   *)
(* for the block and taking a buffer for it (buffer.c:220, "this buffer is  *)
(* the only one of it's kind").                                             *)
OneBufferPerBlock ==
  \A a, b \in Buffers : buffer[a].id = buffer[b].id /\ buffer[a].id # NoBlock => a = b

(* b_count is what fs.h:81 says, "users using this block": the buffers that *)
(* tasks hold, in or between calls, and wait for in get_hash_table; so that *)
(* brelse never says "Trying to free free buffer".                          *)
Times(s, b) == Cardinality({n \in DOMAIN s : s[n] = b})
HasAtHand(t, b) == call[t].bh = b /\ call[t].pc \in {"found", "got", "read", "read_ahead", "brelse"}
UsesOf(t, b) == Times(call[t].held, b) + Times(call[t].mine, b) + IF HasAtHand(t, b) THEN 1 ELSE 0
AllUses(b) == UNION {{t} \X (1 .. UsesOf(t, b)) : t \in Tasks}
CountIsUsers == \A b \in Buffers : count[b] = Cardinality(AllUses(b))

(* Nobody's buffer is given to another block: whoever counts a buffer finds *)
(* the same block in it after any sleep, as get_hash_table looks but never  *)
(* has to find (buffer.c:171).                                              *)
FoundIsWanted == \A t \in Tasks : call[t].pc \in {"found", "got"} => buffer[call[t].bh].id = Want(t)

(* A buffer that is given to another block is unused, unlocked and clean    *)
(* (buffer.c:221), and what was in it, when it was up to date, is on the    *)
(* disk.                                                                    *)
TakenIsClean ==
  [][\A b \in Buffers : buffer'[b].id # buffer[b].id =>
       /\ count[b] = 0 /\ ~Locked(b) /\ ~buffer[b].dirt
       /\ buffer[b].uptodate => buffer[b].same]_vars

(* Nobody sleeps on buffer_wait for ever: somebody who does not sleep there *)
(* has a buffer and will brelse() it, with a wake_up, although breada drops *)
(* some counts without one (buffer.c:316).                                  *)
BufferWaitEnds ==
  (\E t \in Tasks : call[t].pc = "buffer_wait")
    => \E u \in Tasks, b \in Buffers : call[u].pc # "buffer_wait" /\ UsesOf(u, b) > 0
-----------------------------------------------------------------------------
(* A task that has the CPU goes on until it has to wait; schedule() gives it *)
(* to any task that can run from time to time; and whoever holds a buffer    *)
(* releases it at last (Brelse between calls, Step in them: never both at    *)
(* once).  Nothing is said of make_request, which may wait for               *)
(* a slot for ever, nor of the drive's interrupt, which may be kept out for  *)
(* ever: see WaitsForARequest and InterruptsEnabledAgain of the block layer. *)
InMakeRequest(t) == call[t].pc \in {"read", "write"}
Fairness ==
  \A t \in Tasks :
    SF_vars(SwitchTo(t)) /\ SF_vars(Brelse(t) \/ (~InMakeRequest(t) /\ Step(t)))

(* When no new calls come, the drive ends its transfers and make_request    *)
(* finds its slots, everyone who is in the cache comes out: no wake-up of    *)
(* buffer_wait is missed, although breada drops counts without one, and      *)
(* nobody waits in a circle.  (While new calls come, wait_on_buffer can find *)
(* the buffer locked each time it looks.)                                    *)
NoNewCalls == <>[][\A t \in Tasks : ~Get(t) /\ ~Sync(t) /\ ~Change(t)]_vars
TransfersEnd == \A b \in Buffers : []<>(buffer[b].use # "queued")
SlotsCome == \A t \in Tasks : []<>~InMakeRequest(t)
CallsReturn ==
  TransfersEnd /\ SlotsCome /\ NoNewCalls => <>[](\A t \in Tasks : call[t].pc = "user")
=============================================================================
