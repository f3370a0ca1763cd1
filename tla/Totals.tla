------------------------------- MODULE Totals -------------------------------
(* Sums over a set, as a number of units: x counts f[x] times. *)
EXTENDS Naturals, FiniteSets

Units(f, S) == UNION {{x} \X (1 .. f[x]) : x \in S}
Total(f, S) == Cardinality(Units(f, S))
=============================================================================
