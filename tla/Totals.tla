-------------------------------- MODULE Totals --------------------------------
(***************************************************************************)
(* Sums of sizes, and the longest prefix of a sequence of sizes that stays *)
(* within a budget.  A sum is stated without recursion, as the number of   *)
(* the bytes themselves, each named by the place of its message and its    *)
(* number there; SequenceProofs shows that this adds the sizes up.         *)
(***************************************************************************)
EXTENDS Naturals, Sequences, FiniteSets

Units(sizes, places) == UNION {{i} \X (1..sizes[i]) : i \in places}

Total(sizes, places) == Cardinality(Units(sizes, places))

\* The first message counts whatever its size, the following ones while the
\* sum stays within the budget.
Fits(sizes, n, budget) == n <= 1 \/ Total(sizes, 1..n) <= budget

Longest(sizes, budget) ==
  CHOOSE n \in 0..Len(sizes) :
    /\ Fits(sizes, n, budget)
    /\ \A m \in (n + 1)..Len(sizes) : ~Fits(sizes, m, budget)
===============================================================================
