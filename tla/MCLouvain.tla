------------------------------ MODULE MCLouvain ------------------------------
(***************************************************************************)
(* best_partition on every unit-weight symmetric graph over V.            *)
(***************************************************************************)
EXTENDS Louvain

CONSTANT V    \* vertex ids held by the store

ASSUME V \subseteq Nat

MCStoreGraphs ==
  LET Pairs == {p \in SUBSET V : Cardinality(p) = 2}
  IN  {[v \in V |-> [u \in {x \in V \ {v} : {v, x} \in es} |-> 1]] : es \in SUBSET Pairs}

(***************************************************************************)
(* The default 1e-7 (any value below 1 / (den_new * den_old) acts alike  *)
(* on these graphs, so 1/1000 stands for it) and a caller's large value.  *)
(***************************************************************************)
MCMinGrowths == {<<1, 1000>>, <<6, 1>>}
=============================================================================
