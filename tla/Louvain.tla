------------------------------- MODULE Louvain -------------------------------
(***************************************************************************)
(* The multilevel driver best_partition of louvain.cpp (lines 203-273),  *)
(* composed with the local-move engine of LocalMove: the initializer,     *)
(* level 0 on the store graph, the modularity check, the graph inducer,   *)
(* the loop over in-memory levels, and the flattening of the partition    *)
(* stack.                                                                 *)
(*                                                                         *)
(* The store graph is a constant of the behaviour: a symmetric graph with *)
(* unit weights, whose neighbors(v) lists each neighbour once and whose   *)
(* degrees() and number_of_edges() agree with those lists.                *)
(***************************************************************************)
EXTENDS Integers, Sequences, FiniteSets, SequencesExt

CONSTANTS
  StoreGraphs,   \* the graphs the store may hold, as vertex -> (nbr -> 1)
  MinGrowths     \* values of min_modularity_growth, as rationals <<num, den>>

ASSUME MinGrowths \subseteq (Nat \ {0}) \X (Nat \ {0})

VARIABLES
  graph, degrees, count_edges, partition, community_degrees,
  order, pos, modified, improvement, phaseDone,
  store,      \* the graph held by graph_collection
  pc,         \* where best_partition is
  induced,    \* the in-memory graph of the current level (graph)
  stack,      \* partitions, coarsest first (partitions)
  mod,        \* modularity of the last accepted level
  result,     \* the returned partition
  min_growth  \* the min_modularity_growth argument

LM == INSTANCE LocalMove

vars == <<graph, degrees, count_edges, partition, community_degrees,
          order, pos, modified, improvement, phaseDone,
          store, pc, induced, stack, mod, result, min_growth>>

(* NaN, as a rational with a zero denominator. *)
NaN == <<0, 0>>

(***************************************************************************)
(* modularity (lines 155-164) with deg_sum = d: the sum over the vertices *)
(* of the partition of (tot - in) / m - d^2 / m^2, m = d / 2, as a        *)
(* rational <<num, den>>.  With d = 0 and a vertex, 1/(m*m) is infinite   *)
(* and d*d*norm is 0 * inf: the result is NaN.                            *)
(***************************************************************************)
Modularity(p, cd, d) ==
  LET n == Cardinality(DOMAIN p)
      a == LM!SumOver(DOMAIN p, LAMBDA v : cd[p[v]].tot_degree - cd[p[v]].in_degree)
  IN  CASE n = 0 -> <<0, 1>>
        [] d = 0 -> NaN
        [] OTHER -> <<2 * a - 4 * n * d, d>>

(***************************************************************************)
(* The break test of line 257: new_mod - mod <= min_modularity_growth.    *)
(* Any comparison with NaN is false.                                      *)
(***************************************************************************)
GrowthTooSmall(new, old) ==
  /\ new # NaN /\ old # NaN
  /\ (new[1] * old[2] - old[1] * new[2]) * min_growth[2]
        <= min_growth[1] * new[2] * old[2]

(* Mutant of Induce: the intra-community continue (lines 177, 194) lost. *)
InduceKeepsInternal(g, p) ==
  [c \in {p[v] : v \in DOMAIN g} |->
    [d \in {p[u] : u \in UNION {DOMAIN g[v] : v \in {x \in DOMAIN g : p[x] = c}}} |->
      LM!SumOver({v \in DOMAIN g : p[v] = c},
        LAMBDA v : LM!SumOver({u \in DOMAIN g[v] : p[u] = d}, LAMBDA u : g[v][u]))]]

(* Mutant of Induce: a row is made for every community, even one whose  *)
(* edges are all internal (induced_graph[vertex_com] taken before the    *)
(* continue of lines 177, 194).                                          *)
InduceEveryCommunity(g, p) ==
  [c \in {p[v] : v \in DOMAIN g} |->
    [d \in {p[u] : u \in UNION {DOMAIN g[v] : v \in {x \in DOMAIN g : p[x] = c}}} \ {c} |->
      LM!SumOver({v \in DOMAIN g : p[v] = c},
        LAMBDA v : LM!SumOver({u \in DOMAIN g[v] : p[u] = d}, LAMBDA u : g[v][u]))]]

(***************************************************************************)
(* induce_community_graph (lines 166-201): one vertex per community that *)
(* has an edge to another community; intra-community edges are dropped,  *)
(* inter-community weights summed.  The store variant adds 1 per edge,   *)
(* which is the weight of a store edge.                                   *)
(***************************************************************************)
Induce(g, p) ==
  LET Cross(c) == {u \in UNION {DOMAIN g[v] : v \in DOMAIN g} :
                     \E v \in DOMAIN g : p[v] = c /\ u \in DOMAIN g[v] /\ p[u] # c}
      Coms == {c \in {p[v] : v \in DOMAIN g} : Cross(c) # {}}
  IN  [c \in Coms |->
        [d \in {p[u] : u \in Cross(c)} |->
          LM!SumOver({v \in DOMAIN g : p[v] = c},
            LAMBDA v : LM!SumOver({u \in DOMAIN g[v] : p[u] = d},
                                  LAMBDA u : g[v][u]))]]

(* count_edges of lines 242-248: the number of neighbour entries. *)
NeighbourEntries(g) == LM!SumOver(DOMAIN g, LAMBDA v : Cardinality(DOMAIN g[v]))

(* The store's number_of_edges(): each undirected edge once. *)
NumberOfEdges(g) == NeighbourEntries(g) \div 2

(***************************************************************************)
(* The flattening loop of lines 265-270.  partition[iter.second] is       *)
(* std::unordered_map::operator[]: a key absent from the coarser          *)
(* partition is inserted with value ustore_key_t{} = 0 and 0 is returned. *)
(***************************************************************************)
Lookup(p, k) == IF k \in DOMAIN p THEN p[k] ELSE 0

RECURSIVE FlattenFrom(_, _)
FlattenFrom(coarse, rest) ==
  IF rest = <<>> THEN coarse
  ELSE FlattenFrom([v \in DOMAIN Head(rest) |-> Lookup(coarse, Head(rest)[v])],
                   Tail(rest))

(* Mutant of Flatten: the composition loop is skipped. *)
FlattenCoarsestOnly(s) == Head(s)

Flatten(s) == FlattenFrom(Head(s), Tail(s))

-----------------------------------------------------------------------------
(***************************************************************************)
(* Lines 206-228 and the entry of first_phase: the identity partition and *)
(* degree maps from the store's batches, then level 0 starts on the      *)
(* store's vertex stream order.                                           *)
(***************************************************************************)
Init ==
  /\ store \in StoreGraphs
  /\ min_growth \in MinGrowths
  /\ graph = store
  /\ degrees = [v \in DOMAIN store |-> LM!WeightedDegree(store, v)]
  /\ count_edges = NumberOfEdges(store)
  /\ partition = [v \in DOMAIN store |-> v]
  /\ community_degrees = [v \in DOMAIN store |->
                           [in_degree |-> 0, tot_degree |-> degrees[v]]]
  /\ order \in SetToSeqs(DOMAIN store)
  /\ pos = 1
  /\ modified = FALSE
  /\ improvement = FALSE
  /\ phaseDone = FALSE
  /\ pc = "level0"
  /\ induced = store
  /\ stack = <<>>
  /\ mod = <<0, 1>>
  /\ result = <<>>

(* A step of first_phase or second_phase. *)
Optimize ==
  /\ pc \in {"level0", "levelN"}
  /\ LM!LMNext
  /\ UNCHANGED <<store, pc, induced, stack, mod, result, min_growth>>

(***************************************************************************)
(* Lines 231-233: after first_phase, the modularity with deg_sum =        *)
(* count_edges, the first induced graph and the first pushed partition.   *)
(***************************************************************************)
EndLevel0 ==
  /\ pc = "level0"
  /\ phaseDone
  /\ mod' = Modularity(partition, community_degrees, count_edges)
  /\ induced' = Induce(graph, partition)
  /\ stack' = <<partition>>
  /\ pc' = "loop"
  /\ UNCHANGED <<graph, degrees, count_edges, partition, community_degrees,
                 order, pos, modified, improvement, phaseDone, store, result,
                 min_growth>>

(***************************************************************************)
(* Lines 235-255: while (improvement), fresh identity partition and      *)
(* degrees of the induced graph, then second_phase with count_edges / 2, *)
(* visiting the vertices in the map's (unspecified, fixed) order.        *)
(***************************************************************************)
EnterLevel ==
  /\ pc = "loop"
  /\ improvement
  /\ \E ord \in SetToSeqs(DOMAIN induced) :
       LM!StartPhase(induced, NeighbourEntries(induced) \div 2, ord)
  /\ pc' = "levelN"
  /\ UNCHANGED <<store, induced, stack, mod, result, min_growth>>

(* Line 235: the loop ends when the last phase moved nothing. *)
ExitLoop ==
  /\ pc = "loop"
  /\ ~improvement
  /\ pc' = "flatten"
  /\ UNCHANGED <<graph, degrees, count_edges, partition, community_degrees,
                 order, pos, modified, improvement, phaseDone,
                 store, induced, stack, mod, result, min_growth>>

(* deg_sum passed at line 256: degree_sum / 2 in int arithmetic. *)
LevelModularity ==
  Modularity(partition, community_degrees,
             LM!SumOver(DOMAIN degrees, LAMBDA v : degrees[v]) \div 2)

(* Lines 256-258: too little growth, the level is dropped. *)
RejectLevel ==
  /\ pc = "levelN"
  /\ phaseDone
  /\ GrowthTooSmall(LevelModularity, mod)
  /\ pc' = "flatten"
  /\ UNCHANGED <<graph, degrees, count_edges, partition, community_degrees,
                 order, pos, modified, improvement, phaseDone,
                 store, induced, stack, mod, result, min_growth>>

(* Lines 260-262: the level is accepted, induced and pushed in front. *)
AcceptLevel ==
  /\ pc = "levelN"
  /\ phaseDone
  /\ ~GrowthTooSmall(LevelModularity, mod)
  /\ induced' = Induce(graph, partition)
  /\ stack' = <<partition>> \o stack
  /\ mod' = LevelModularity
  /\ pc' = "loop"
  /\ UNCHANGED <<graph, degrees, count_edges, partition, community_degrees,
                 order, pos, modified, improvement, phaseDone, store, result,
                 min_growth>>

(* Lines 265-272: compose the stack and return. *)
FlattenStack ==
  /\ pc = "flatten"
  /\ result' = Flatten(stack)
  /\ pc' = "done"
  /\ UNCHANGED <<graph, degrees, count_edges, partition, community_degrees,
                 order, pos, modified, improvement, phaseDone,
                 store, induced, stack, mod, min_growth>>

Next ==
  \/ Optimize \/ EndLevel0 \/ EnterLevel \/ ExitLoop
  \/ RejectLevel \/ AcceptLevel \/ FlattenStack

Spec == Init /\ [][Next]_vars /\ WF_vars(Next)

-----------------------------------------------------------------------------
(***************************************************************************)
(* Reference definitions.  Community(v) is the community of the original *)
(* vertex v at the coarsest accepted level: its id followed up the stack  *)
(* from level 0.  A community with no edge to another one is not a vertex *)
(* of the next level; it stays what it is, and its id is never reused.    *)
(***************************************************************************)
RECURSIVE Up(_, _)
Up(x, s) ==
  IF s = <<>> THEN x
  ELSE Up(IF x \in DOMAIN Last(s) THEN Last(s)[x] ELSE x, Front(s))

Community(v) == Up(v, stack)

StoreEdges == {<<v, u>> \in (DOMAIN store) \X (DOMAIN store) : u \in DOMAIN store[v]}

(* The store graph with each community contracted to one vertex. *)
Contraction ==
  LET Crossing == {e \in StoreEdges : Community(e[1]) # Community(e[2])}
  IN  [c \in {Community(e[1]) : e \in Crossing} |->
        [d \in {Community(e[2]) : e \in {x \in Crossing : Community(x[1]) = c}} |->
          Cardinality({e \in Crossing : Community(e[1]) = c /\ Community(e[2]) = d})]]

TypeOK ==
  /\ pc \in {"level0", "levelN", "loop", "flatten", "done"}
  /\ \A i \in DOMAIN stack :
       /\ DOMAIN stack[i] \subseteq DOMAIN store
       /\ \A v \in DOMAIN stack[i] : stack[i][v] \in DOMAIN stack[i]
  /\ mod \in (Int \X (Nat \ {0})) \cup {NaN}
  /\ pc = "done" => result \in [DOMAIN store -> Nat]

(***************************************************************************)
(* Whenever the loop tests improvement, the in-memory graph is the store *)
(* graph contracted by the partitions pushed so far: every edge between   *)
(* two different communities appears with weight equal to the number of   *)
(* store edges between their members.  Each level builds it from the one *)
(* before, through two different variants of induce_community_graph, so *)
(* an error of either one shows only at the next level.                  *)
(***************************************************************************)
InducedIsContraction == pc = "loop" => induced = Contraction

(***************************************************************************)
(* The growth test of line 257 never compares a NaN: level 0 of an       *)
(* edgeless store moves nothing, so the loop is not entered with the NaN *)
(* of line 231, and every vertex of an induced graph has an edge, so the *)
(* degree_sum of line 256 is never 0 with vertices left.  A NaN there     *)
(* would make the test false and accept any level.                        *)
(***************************************************************************)
GrowthCheckSeesNumbers ==
  pc = "levelN" /\ phaseDone => LevelModularity # NaN /\ mod # NaN

(***************************************************************************)
(* best_partition returns: nothing caps the while (improvement) loop of  *)
(* line 235 or the sweeps inside each level; each accepted level must    *)
(* shrink the graph or fail the growth test.                              *)
(***************************************************************************)
DriverReturns == <>(pc = "done")

(***************************************************************************)
(* The returned mapping is the composition of the stack (spec 4.6): each *)
(* original vertex is mapped to its community at the coarsest accepted   *)
(* level.                                                                 *)
(***************************************************************************)
FlattenIsComposition ==
  pc = "done" => result = [v \in DOMAIN store |-> Community(v)]
=============================================================================
