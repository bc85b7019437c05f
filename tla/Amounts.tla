------------------------------ MODULE Amounts ------------------------------
(***************************************************************************)
(* Sums of natural-number amounts, as the number of units they stand for.  *)
(* An amount f[x] is the set of units <<x, 1>> .. <<x, f[x]>>; the total   *)
(* of f is the number of units.  Unlike a recursive sum, this definition   *)
(* can be reasoned about with the library's facts on cardinality.          *)
(***************************************************************************)
EXTENDS Integers, FiniteSets

Units(f) == UNION {{x} \X (1..f[x]) : x \in DOMAIN f}

Total(f) == Cardinality(Units(f))
=============================================================================
