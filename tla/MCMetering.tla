----------------------------- MODULE MCMetering -----------------------------
(* One Customer with two server keys and a browser key, served by two       *)
(* isolates, while their plan and fuse change.                              *)
EXTENDS Metering, TLC

CONSTANTS i1, i2, c1, c2, k1, k2, b1

Effort(m, n) == [mutations |-> m, requests |-> n]
MCEfforts == {Effort(3, 0), Effort(1, 2), Effort(0, 3)}

MCSymmetry == Permutations({i1, i2}) \cup Permutations({c1, c2}) \cup Permutations({k1, k2})
=============================================================================
