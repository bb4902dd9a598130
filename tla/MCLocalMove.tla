----------------------------- MODULE MCLocalMove -----------------------------
(***************************************************************************)
(* One local-move phase, started on every symmetric weighted graph over   *)
(* the vertex ids V with weights in 1..MaxWeight and on every visiting    *)
(* order of its vertices.                                                  *)
(***************************************************************************)
EXTENDS LocalMove

CONSTANTS
  V,          \* vertex ids (ustore_key_t values)
  MaxWeight   \* largest edge weight; 1 models the store graph of level 0

ASSUME V \subseteq Nat /\ MaxWeight \in Nat \ {0}

Pairs == {p \in SUBSET V : Cardinality(p) = 2}

(* A graph as graph_t: vertex -> (neighbour -> weight), from pair weights. *)
AsGraph(w) == [v \in V |-> [u \in {x \in V \ {v} : w[{v, x}] > 0} |-> w[{v, u}]]]

Graphs == {AsGraph(w) : w \in [Pairs -> 0..MaxWeight]}

(* Mutant of EdgeCount: E taken as the total edge weight (degree_sum/2). *)
EdgeCountWeighted(g) == SumOver(DOMAIN g, LAMBDA v : WeightedDegree(g, v)) \div 2

(* E as second_phase receives it: count of neighbour entries halved. *)
EdgeCount(g) == SumOver(DOMAIN g, LAMBDA v : Cardinality(DOMAIN g[v])) \div 2

Init ==
  \E g \in Graphs :
    \E ord \in SetToSeqs(DOMAIN g) :
      /\ graph = g
      /\ degrees = [v \in DOMAIN g |-> WeightedDegree(g, v)]
      /\ count_edges = EdgeCount(g)
      /\ partition = [v \in DOMAIN g |-> v]
      /\ community_degrees =
           [v \in DOMAIN g |-> [in_degree |-> 0, tot_degree |-> WeightedDegree(g, v)]]
      /\ order = ord
      /\ pos = 1
      /\ modified = FALSE
      /\ improvement = FALSE
      /\ phaseDone = FALSE

Spec == Init /\ [][LMNext]_lmVars /\ WF_lmVars(LMNext)

(* The graph's edges, each unordered pair once: spec 4.2's "total edge    *)
(* count", the E of the delta whatever the weights.                       *)
Links(g) == Cardinality({p \in Pairs : \A v \in p : p \ {v} \subseteq DOMAIN g[v]})

(* The phase seen as the greedy search of AbstractLocalMove. *)
ALM == INSTANCE AbstractLocalMove
         WITH count_edges <- Links(graph), moved <- improvement, done <- phaseDone

(***************************************************************************)
(* The phase implements the greedy search: every move of the sweep loop   *)
(* (lines 62-89) takes a vertex to a community of largest positive gain   *)
(* on the current partition, the loop returns (line 93) only when no      *)
(* vertex can gain, and it does return.  The incremental stats, the       *)
(* modified flag and the whole-sweep exit test must all be right, and the *)
(* E counted at lines 242-255 must be the number of edges, not their      *)
(* weight, which a unit-weight level could not tell apart.               *)
(***************************************************************************)
ImplementsGreedySearch == ALM!Spec
=============================================================================
