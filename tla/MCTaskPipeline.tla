--------------------------- MODULE MCTaskPipeline ---------------------------
(* One order: three kinds of task, whole or compute-only, each with one part *)
(* of the environment that may interfere.                                    *)
EXTENDS TaskPipeline

CONSTANTS b1, b2

Order(k, d, f, e) == [kind |-> k, direct |-> d, formal |-> f, extras |-> e]

MCScenarios ==
  {Order(k, d, TRUE, {}) : k \in Kinds, d \in BOOLEAN}
    \cup {Order("fusion", FALSE, FALSE, {"restart"}), Order("video", TRUE, TRUE, {"receiver"})}
    \cup {Order("matmul", TRUE, TRUE, {"receiver", "restart"}), Order("matmul", TRUE, TRUE, {"baseline", "advance"})}
=============================================================================
