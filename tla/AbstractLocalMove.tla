-------------------------- MODULE AbstractLocalMove --------------------------
(***************************************************************************)
(* What a local-move phase of louvain.cpp promises, with no statistics    *)
(* and no sweep: a greedy local search over the partition.  One vertex at *)
(* a time joins the community of a neighbour whose gain is positive and   *)
(* largest, and the phase returns once no vertex has a positive gain, as  *)
(* it eventually must.                                                     *)
(*                                                                         *)
(* The gain is the delta of lines 67-71 (scaled by 2E^2) evaluated on the *)
(* partition alone: the weight of v's edges into a community, and a       *)
(* community's tot_degree taken as what the code maintains, its members'  *)
(* degree less its internal weight.                                        *)
(***************************************************************************)
EXTENDS Integers, FiniteSets, FiniteSetsExt

VARIABLES
  graph,         \* vertex -> (neighbour -> weight), fixed in a phase
  count_edges,   \* E, fixed in a phase
  partition,     \* vertex -> community
  moved,         \* some vertex has moved in this phase
  done           \* the phase has returned

avars == <<graph, count_edges, partition, moved, done>>

Weight(v, S) == MapThenSumSet(LAMBDA u : graph[v][u], DOMAIN graph[v] \cap S)

Deg(v) == Weight(v, DOMAIN graph)

Community(c) == {u \in DOMAIN graph : partition[u] = c}

(* A community's tot_degree as a function of the partition. *)
Tot(c) ==
  MapThenSumSet(LAMBDA u : Deg(u), Community(c))
    - MapThenSumSet(LAMBDA u : Weight(u, Community(c)), Community(c)) \div 2

Gain(v, c) ==
  LET own == partition[v]
  IN  2 * count_edges * (Weight(v, Community(c)) - Weight(v, Community(own)))
        - Deg(v) * (Deg(v) + Tot(c) - Tot(own))

Candidates(v) == {partition[u] : u \in DOMAIN graph[v]} \ {partition[v]}

(* The communities v may join: a positive gain no other candidate beats. *)
Best(v) ==
  {c \in Candidates(v) :
     Gain(v, c) > 0 /\ \A d \in Candidates(v) : Gain(v, d) <= Gain(v, c)}

LocalOptimum == \A v \in DOMAIN graph : Best(v) = {}

Init ==
  /\ partition = [v \in DOMAIN graph |-> v]
  /\ moved = FALSE
  /\ done = FALSE

(* v joins c, one of Best(v). *)
Move(v, c) ==
  /\ ~done
  /\ partition' = [partition EXCEPT ![v] = c]
  /\ moved' = TRUE
  /\ UNCHANGED <<graph, count_edges, done>>

Return ==
  /\ ~done
  /\ LocalOptimum
  /\ done' = TRUE
  /\ UNCHANGED <<graph, count_edges, partition, moved>>

Next == (\E v \in DOMAIN graph : \E c \in Best(v) : Move(v, c)) \/ Return

Spec == Init /\ [][Next]_avars /\ WF_avars(Return)
=============================================================================
