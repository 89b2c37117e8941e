------------------------------- MODULE Totals -------------------------------
(* Sums over a finite domain, as the size of a set: one element for each unit. *)
EXTENDS Integers, FiniteSets

Column(x, n) == {x} \X (1 .. n)
Units(f) == UNION {Column(x, f[x]) : x \in DOMAIN f}

\* The sum of f[x] over the domain of f, for values in Nat.
SumOf(f) == Cardinality(Units(f))
=============================================================================
