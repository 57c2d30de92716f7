-------------------------------- MODULE Totals --------------------------------
(***************************************************************************)
(* The sum of a function's natural values over a finite set, written as    *)
(* the cardinality of a disjoint union: one coin <<x, i>> for every unit   *)
(* of f[x].  In this form the facts about sums follow from those about     *)
(* finite sets; a negative value has no coin, so that a sum of integers is *)
(* what the positive ones have less what the negative ones do.             *)
(***************************************************************************)
EXTENDS Integers, FiniteSets

CoinsOf(f, x) == {x} \X (1..f[x])

Coins(f, S) == UNION {CoinsOf(f, x) : x \in S}

Total(f, S) == Cardinality(Coins(f, S))

SumOver(f, S) == Total(f, S) - Total([x \in S |-> -f[x]], S)
===============================================================================
