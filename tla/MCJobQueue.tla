----------------------------- MODULE MCJobQueue -----------------------------
(* Model values and bounds for the runs of JobQueue. *)
EXTENDS JobQueue

CONSTANTS b1, b2, c1, c2

(* A single batch of two. *)
OneBatch == {b1}
OneSize == [b \in {b1} |-> 2]
=============================================================================
