-------------------------- MODULE BufferCacheSync --------------------------
(* The buffer cache with a record of what became dirty during a sync. *)
EXTENDS BufferCacheProps

(* dirtied[t]: the buffers that have become dirty since the sync of t began *)
VARIABLE dirtied

Syncing(t) == call[t].op \in {"sync", "sync_dev"}
History ==
  dirtied' = [t \in Tasks |->
                IF ~Syncing(t) \/ ~Syncing(t)' THEN {}
                ELSE dirtied[t] \union {b \in Buffers : ~buffer[b].dirt /\ buffer'[b].dirt}]
HistoryInit == Init /\ dirtied = [t \in Tasks |-> {}]
HistoryNext == Next /\ History
HistorySpec == HistoryInit /\ [][HistoryNext]_<<vars, dirtied>>
FairHistorySpec == HistorySpec /\ Fairness

(* When a sync is through, what was dirty when it began has been queued for *)
(* writing, whoever wrote it and whatever was given to other blocks.        *)
SyncWritesAll ==
  \A t \in Tasks : Syncing(t) /\ call[t].pc = "sync" /\ Nth(t) > NrBuffers =>
    \A b \in Buffers : Concerns(t, b) /\ buffer[b].dirt => b \in dirtied[t]
=============================================================================
