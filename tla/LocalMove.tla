------------------------------ MODULE LocalMove ------------------------------
(***************************************************************************)
(* The local-move engine of louvain.cpp: first_phase (level 0, the graph  *)
(* read from the store, unit weights) and second_phase (level >= 1, the   *)
(* in-memory coarsened graph).  Both run the same loop: sweep over every  *)
(* vertex, move it to the neighbouring community with the largest         *)
(* positive delta, and repeat sweeps until one sweep moves nothing.       *)
(*                                                                         *)
(* Doubles are modelled as exact rationals.  The delta of line 69         *)
(*   (1/E)(x) - (k / 2E^2)(y)                                             *)
(* is modelled scaled by 2E^2 > 0, which keeps its sign and the order of  *)
(* any two deltas of one vertex.                                          *)
(***************************************************************************)
EXTENDS Integers, Sequences, FiniteSets, SequencesExt

VARIABLES
  graph,              \* vertex -> (neighbour -> weight); read-only in a phase
  degrees,            \* vertex -> weighted degree (vertex_degrees_t)
  count_edges,        \* E of the delta formula
  partition,          \* vertex -> community id (partition_t)
  community_degrees,  \* community -> [in_degree, tot_degree]
  order,              \* the fixed order in which a sweep visits vertices
  pos,                \* index in order of the next vertex of the sweep
  modified,           \* some move happened in the current sweep
  improvement,        \* some move happened in the phase (the return value)
  phaseDone           \* the phase has returned

lmVars == <<graph, degrees, count_edges, partition, community_degrees,
            order, pos, modified, improvement, phaseDone>>

Nbrs(v) == DOMAIN graph[v]

(* Sum of f(x) over the finite set S. *)
SumOver(S, f(_)) == MapThenSumSet(f, S)

(* Weighted degree of v in graph g: sum of its edge weights. *)
WeightedDegree(g, v) == SumOver(DOMAIN g[v], LAMBDA u : g[v][u])

(***************************************************************************)
(* degree_in_coms (lines 56-59, 117-119): for every community, the weight *)
(* of v's edges into it.  operator[] yields 0 for an absent community.    *)
(***************************************************************************)
DegreeIn(v, c) ==
  SumOver({u \in Nbrs(v) : partition[u] = c}, LAMBDA u : graph[v][u])

(* The candidate communities: those of v's neighbours but its own. *)
NeighbourComs(v) == {partition[u] : u \in Nbrs(v)} \ {partition[v]}

(***************************************************************************)
(* The delta of moving v from its community to c (lines 67-71), times    *)
(* 2 * count_edges^2.                                                      *)
(***************************************************************************)
ScaledDelta(v, c) ==
  LET own == partition[v]
      k   == degrees[v]
  IN  2 * count_edges * (DegreeIn(v, c) - DegreeIn(v, own))
        - k * (k + community_degrees[c].tot_degree
                 - community_degrees[own].tot_degree)

(* The test of line 73 against best_mod = 0.0. *)
Improves(v, c) == ScaledDelta(v, c) > 0

(***************************************************************************)
(* The communities the scan of lines 62-77 can end with.  It keeps the    *)
(* first candidate with a strictly larger delta, so it ends on one of the *)
(* candidates of maximal positive delta; which one depends on the order   *)
(* in which neighbours are listed, which is unspecified.                  *)
(***************************************************************************)
BestComs(v) ==
  LET pos_ == {c \in NeighbourComs(v) : Improves(v, c)}
  IN  {c \in pos_ : \A d \in pos_ : ScaledDelta(v, c) >= ScaledDelta(v, d)}

(* Mutant of MoveStats: the old community loses the new one's tally. *)
MoveStatsWrongTally(v, old, best) ==
  [community_degrees EXCEPT
     ![old].tot_degree = @ - (degrees[v] - DegreeIn(v, old)),
     ![best].tot_degree = @ + (degrees[v] - DegreeIn(v, best)),
     ![old].in_degree = @ - DegreeIn(v, best),
     ![best].in_degree = @ + DegreeIn(v, best)]

(* Mutant of MoveStats: the whole degree moves, as spec 3 would have it. *)
MoveStatsWholeDegree(v, old, best) ==
  [community_degrees EXCEPT
     ![old].tot_degree = @ - degrees[v],
     ![best].tot_degree = @ + degrees[v],
     ![old].in_degree = @ - DegreeIn(v, old),
     ![best].in_degree = @ + DegreeIn(v, best)]

(***************************************************************************)
(* The statistics update of an accepted move (lines 80-84).               *)
(***************************************************************************)
MoveStats(v, old, best) ==
  LET k == degrees[v]
      a_old == DegreeIn(v, old)
      a_best == DegreeIn(v, best)
  IN  [community_degrees EXCEPT
         ![old].tot_degree = @ - (k - a_old),
         ![best].tot_degree = @ + (k - a_best),
         ![old].in_degree = @ - a_old,
         ![best].in_degree = @ + a_best]

(***************************************************************************)
(* One iteration of the sweep body (lines 49-89 / 109-148) for the vertex *)
(* at pos: either no candidate improves and nothing changes, or v moves.  *)
(***************************************************************************)
VisitVertex ==
  /\ ~phaseDone
  /\ pos <= Len(order)
  /\ LET v == order[pos] IN
       \/ /\ BestComs(v) = {}
          /\ UNCHANGED <<partition, community_degrees, modified, improvement>>
       \/ \E best \in BestComs(v) :
            /\ community_degrees' = MoveStats(v, partition[v], best)
            /\ partition' = [partition EXCEPT ![v] = best]
            /\ modified' = TRUE
            /\ improvement' = TRUE
  /\ pos' = pos + 1
  /\ UNCHANGED <<graph, degrees, count_edges, order, phaseDone>>

(* Mutant of NextSweep: the loop does not reset modified (line 46). *)
NextSweepKeepsModified ==
  /\ ~phaseDone
  /\ pos > Len(order)
  /\ modified
  /\ pos' = 1
  /\ UNCHANGED <<graph, degrees, count_edges, partition, community_degrees,
                 order, modified, improvement, phaseDone>>

(* End of a sweep that moved a vertex: start again (lines 45-47, 106-108). *)
NextSweep ==
  /\ ~phaseDone
  /\ pos > Len(order)
  /\ modified
  /\ pos' = 1
  /\ modified' = FALSE
  /\ UNCHANGED <<graph, degrees, count_edges, partition, community_degrees,
                 order, improvement, phaseDone>>

(* Mutant of ReturnImprovement: the loop is left before the sweep ends. *)
ReturnImprovementEarly ==
  /\ ~phaseDone
  /\ ~modified
  /\ phaseDone' = TRUE
  /\ UNCHANGED <<graph, degrees, count_edges, partition, community_degrees,
                 order, pos, modified, improvement>>

(* End of a sweep that moved nothing: the loop exits and returns. *)
ReturnImprovement ==
  /\ ~phaseDone
  /\ pos > Len(order)
  /\ ~modified
  /\ phaseDone' = TRUE
  /\ UNCHANGED <<graph, degrees, count_edges, partition, community_degrees,
                 order, pos, modified, improvement>>

LMNext == VisitVertex \/ NextSweep \/ ReturnImprovement

(***************************************************************************)
(* Entry of a phase on graph g with E = e: the caller's fresh identity    *)
(* partition and degree maps (lines 218-228, 236-253), and the first pass *)
(* of the while (modified) loop with modified reset (lines 40-47).        *)
(***************************************************************************)
StartPhase(g, e, ord) ==
  /\ graph' = g
  /\ degrees' = [v \in DOMAIN g |-> WeightedDegree(g, v)]
  /\ count_edges' = e
  /\ partition' = [v \in DOMAIN g |-> v]
  /\ community_degrees' =
       [v \in DOMAIN g |-> [in_degree |-> 0, tot_degree |-> WeightedDegree(g, v)]]
  /\ order' = ord
  /\ pos' = 1
  /\ modified' = FALSE
  /\ improvement' = FALSE
  /\ phaseDone' = FALSE

-----------------------------------------------------------------------------
(* Measures used by the properties. *)

Members(c) == {v \in DOMAIN partition : partition[v] = c}

(* Weight of the edges with both ends in c, each edge counted once. *)
InternalWeight(c) ==
  SumOver(Members(c), LAMBDA v : DegreeIn(v, c)) \div 2

MemberDegree(c) == SumOver(Members(c), LAMBDA v : degrees[v])

(* Total edge weight W of the graph. *)
TotalWeight == SumOver(DOMAIN graph, LAMBDA v : degrees[v]) \div 2

(***************************************************************************)
(* Newman modularity Q = sum_c [ L_c / W - (D_c / 2W)^2 ] times 4 W^2,    *)
(* where L_c is the internal weight and D_c the member degree of c.       *)
(***************************************************************************)
ScaledModularity ==
  SumOver(Range(partition),
          LAMBDA c : 4 * TotalWeight * InternalWeight(c) - MemberDegree(c)^2)
-----------------------------------------------------------------------------
(* Properties. *)

TypeOK ==
  /\ partition \in [DOMAIN graph -> DOMAIN graph]
  /\ community_degrees \in [DOMAIN graph -> [in_degree : Nat, tot_degree : Nat]]
  /\ pos \in 1..(Len(order) + 1)
  /\ modified \in BOOLEAN /\ improvement \in BOOLEAN /\ phaseDone \in BOOLEAN

(***************************************************************************)
(* The statistics updated incrementally by every move (lines 80-84) agree *)
(* at every step with a recomputation from the partition: in_degree is    *)
(* the weight of the community's internal edges (each counted once) and   *)
(* tot_degree is its members' degree minus that.  A move reads the stats  *)
(* of two communities that earlier moves of other vertices have changed,  *)
(* so a wrong term shows only after several moves.                        *)
(***************************************************************************)
StatsMatchPartition ==
  \A c \in DOMAIN community_degrees :
    /\ community_degrees[c].in_degree = InternalWeight(c)
    /\ community_degrees[c].tot_degree = MemberDegree(c) - InternalWeight(c)

(***************************************************************************)
(* The spec's degree conservation (spec 3 and 8): the tot_degree of all   *)
(* communities sums to the sum of the vertex degrees after every move.    *)
(***************************************************************************)
DegreeConservation ==
  SumOver(DOMAIN community_degrees, LAMBDA c : community_degrees[c].tot_degree)
    = SumOver(DOMAIN degrees, LAMBDA v : degrees[v])

(***************************************************************************)
(* The spec's greedy step (spec 4.2): a vertex is moved only when the     *)
(* move has a positive modularity gain, so no move of the sweep loop      *)
(* (lines 79-88) ever lowers the Newman modularity of the partition.      *)
(***************************************************************************)
MoveImprovesModularity ==
  [][partition' # partition => ScaledModularity' >= ScaledModularity]_lmVars

(***************************************************************************)
(* The while (modified) loop returns: sweeps cannot go on moving vertices *)
(* forever.  Nothing in the code caps the number of sweeps.               *)
(***************************************************************************)
Termination == <>phaseDone
=============================================================================
