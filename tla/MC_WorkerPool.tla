--------------------------- MODULE MC_WorkerPool ---------------------------
(***************************************************************************)
(* Small instances of WorkerPool.                                          *)
(***************************************************************************)
EXTENDS WorkerPool

CONSTANTS c1, c2, t1, n1, n2, n3, i1, i2, b1, b2, m1, r1

(* start() computes max_workers as a sum. *)
ASSUME MaxWorkers = general_workers + SumFunction(reserved)

(* Commands: two categories, c1 with one reserved thread, c2 with a queue  *)
(* of one, and nothing reserved for the batch b1 and the reply.            *)
CommandCategory == [t \in Tasks |-> IF t \in {n3, i2} THEN c2 ELSE c1]
CommandReserved == [k \in Classes |-> IF k = c1 THEN 1 ELSE 0]
CommandLimits == [c \in Categories |-> IF c = c2 THEN 1 ELSE -1]
NoThreads == [b \in Batches |-> <<>>]
NoCompletion == [b \in Batches |-> "none"]

(* Batches: b1 in the pool, b2 partly in the tagged thread, a squelched    *)
(* timer in the tagged thread, a reply.                                    *)
MixedThreads == [b \in Batches |->
    CASE b = b1 -> <<"pool", "pool">> [] b = b2 -> <<t1, "pool">>
      [] b = m1 -> <<t1>> [] OTHER -> <<"pool">>]
MixedCompletion == [b \in Batches |->
    CASE b = b1 -> "pool" [] b = b2 -> t1 [] b = m1 -> "proxy" [] OTHER -> "none"]
BatchReserved == [k \in Classes |-> IF k = "batch" THEN 1 ELSE 0]
AllC1 == [t \in Tasks |-> c1]
Unlimited == [c \in Categories |-> -1]
=============================================================================
