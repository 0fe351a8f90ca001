--------------------------- MODULE SequenceFilters ---------------------------
(***************************************************************************)
(* Order-preserving removal from a sequence, the operation behind Redis    *)
(* LREM and behind Array.prototype.filter / splice in the task files.      *)
(* Keep is written without recursion so that its properties can be proved  *)
(* (SequenceProofs).                                                       *)
(***************************************************************************)
EXTENDS Naturals, Sequences, FiniteSets, Functions

\* Indices of the elements of q that belong to S.
Kept(q, S) == {i \in DOMAIN q : q[i] \in S}

\* f enumerates the finite set of naturals K in increasing order.
Enumerates(f, K) ==
  /\ \A i, j \in DOMAIN f : i < j => f[i] < f[j]
  /\ \A k \in K : \E i \in DOMAIN f : f[i] = k

Ascending(K) == CHOOSE f \in [1..Cardinality(K) -> K] : Enumerates(f, K)

\* The subsequence of q made of its elements in S.
Keep(q, S) == LET f == Ascending(Kept(q, S)) IN [i \in DOMAIN f |-> q[f[i]]]
=============================================================================
