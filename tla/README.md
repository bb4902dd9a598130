# TLA+ models of ustore's Louvain community detection and config loader

This directory holds TLA+ models of two parts of the repository, and the TLC configurations that check them:
- `louvain.cpp` (`src/unnamed/part_000`) implements multilevel Louvain community detection over a graph held in the ustore graph store.
- `config_loader.hpp` (`src/src/helpers/config_loader.hpp`) loads and saves the DBMS configuration as JSON.

## Inventory

### Components (`src/unnamed/part_000`)

| Component | Code | State | Operations |
|---|---|---|---|
| Degree/Partition Initializer | `best_partition` lines 206-228 | `partition`, `vertex_degrees`, `community_degrees` | identity partition, degrees from the store in batches |
| Local-Move Engine | `first_phase` 34-94 (store graph, unit weights), `second_phase` 96-153 (in-memory graph) | `partition`, `community_degrees` (`in_degree`, `tot_degree`), `modified`, `improvement`, the sweep cursor | visit a vertex: tally `degree_in_coms`, compute each candidate's delta, keep the strictly best positive one, update the stats of two communities, rewrite the partition; restart the sweep while something moved; return `improvement` |
| Modularity Evaluator | `modularity` 155-164 | none (pure) | sum over the *vertices* of `(tot - in)/m - deg_sum^2/m^2` |
| Graph Inducer | `induce_community_graph` 166-185 (store) and 187-201 (memory) | none (pure) | contract each community to a vertex; drop intra-community edges; sum the weights |
| Multilevel Driver | `best_partition` 203-273 | `partitions` (the stack, coarsest first), `graph`, `mod`, `improvement` | level 0; `while (improvement)`: fresh maps, `second_phase`, growth check (break), induce, push; flatten the stack |

There are three other parts:
- The **graph store** is the external collaborator (`vertex_stream`, `neighbors`, `degrees`, `number_of_edges`).
- `src/src/helpers/config_loader.hpp` is the **DBMS config loader**. It is modelled too; see its own section below.
- `src/unnamed/part_001` is a **CI workflow**.

### How the components interact

The whole program is one synchronous thread. The driver owns every map and passes them by reference to the engine, which mutates them in place. The driver then reads them back for modularity and induction. The components interact through calls and shared maps only. There are no callbacks or messages.

### Hard behaviours

There is no concurrency. The difficulty is in long sequences of steps:
- **Stats drift.** The statistics are updated incrementally and are never recomputed. An error shows only after several moves of different vertices.
- **Order dependence.** The visiting order (the store stream, or `unordered_map` order) is arbitrary. So is the tie-breaking order of the neighbour lists.
- **Termination.** Nothing caps the sweep loop or the level loop.
- **Hand-offs between levels.** An inducer keeps only communities that have an edge to another community. The flatten uses `operator[]`, which inserts missing keys.
- **Numeric edges.** Division by zero can produce NaN, `degree_sum` is an `int`, and `count_edges / 2` is integer division.

### What makes each component correct

- **Engine:**
  - The incremental stats equal a recomputation from the partition.
  - Each move raises modularity (spec 4.2).
  - The phase returns.
- **Inducer:** the induced graph is the store graph contracted by the communities.
- **Driver:** the result is the composition of the pushed partitions (spec 4.6).

## Modules

- **`LocalMove.tla`** models `first_phase` and `second_phase`, which share one algorithm.
  - Variables:
    - `graph`, `degrees`, `count_edges`: the phase inputs.
    - `partition`, `community_degrees`.
    - `order`, `pos`: the sweep cursor over a fixed order.
    - `modified`, `improvement`, `phaseDone`.
  - Actions:
    - `VisitVertex`: one whole iteration of the sweep body, lines 49-89. It either does nothing or moves the vertex.
    - `NextSweep`: lines 45-47.
    - `ReturnImprovement`: line 93.
    - `StartPhase`: the entry of a phase.
  - The delta is the exact rational of lines 69-71, multiplied by `2E^2`.
  - The best-community scan keeps the first strictly larger delta. The neighbour order is unspecified, so the model may choose any candidate with the maximal positive delta.
- **`AbstractLocalMove.tla`** is what a phase promises, with no statistics and no sweep.
  - The phase is a greedy local search over the partition. A step moves one vertex to a neighbouring community of largest positive gain.
  - The gain is the delta of lines 67-71, evaluated on the partition alone. A community's `tot_degree` there is what the code maintains: its members' degree less its internal weight.
  - `Return` is allowed only at a local optimum. It is weakly fair, so the phase must return.
- **`MCLocalMove.tla`** starts one phase on every symmetric graph over `V` with weights `1..MaxWeight`, in every visiting order.
  - It instantiates `ALM == INSTANCE AbstractLocalMove WITH count_edges <- Links(graph), moved <- improvement, done <- phaseDone`. `graph` and `partition` map to themselves.
  - `Links(graph)` is the number of the graph's edges, each unordered pair once. This is spec 4.2's "E = total edge count". The engine's `count_edges` is what lines 242-255 compute: the neighbour entries, halved. On a weighted graph this count differs from the weight sum `degree_sum / 2` that modularity receives at line 256, so the mapping checks that the driver hands the engine the edge count and not the weight.
  - It checks `ImplementsGreedySearch == ALM!Spec` as a property. Under this mapping:
    - a visit that moves nothing, and `NextSweep`, are stuttering steps;
    - a move is `Move`;
    - `ReturnImprovement` is `Return`.
- **`Louvain.tla`** models the driver. It composes `LocalMove` through `LM == INSTANCE LocalMove`.
  - `Init` is the initializer.
  - `Optimize` is the engine's steps.
  - `EndLevel0`, `EnterLevel`, `ExitLoop`, `RejectLevel` and `AcceptLevel` are lines 230-263.
  - `FlattenStack` is lines 265-272.
  - `Modularity`, `Induce` and `Flatten` are operators translated from the code. `Flatten` uses `Lookup`, which returns 0 for a missing key, as `operator[]` does.
  - `Community`, `Contraction` and `Up` are reference definitions (RECURSIVE) that the properties compare against.
  - `min_growth` is the caller's `min_modularity_growth`. It is chosen from `MinGrowths`.
- **`MCLouvain.tla`** runs the driver on every unit-weight graph over `V`.

## Runs

| Run | Expect | What it shows |
|---|---|---|
| `localmove_stats` (V = 1..4, weights 1..2) | pass | `StatsMatchPartition`: at every step, `in_degree` is the community's internal weight, each edge counted once, and `tot_degree` is its member degree minus that. `Termination`: every phase returns. `ImplementsGreedySearch`: the phase refines `AbstractLocalMove`, with E the number of edges. Every move goes to a community of largest positive gain on the current partition, so the incremental stats must give the same deltas as a recomputation. The phase returns only at a local optimum, which needs the whole-sweep exit test and the reset of `modified`. An E taken from the weight sum instead fails on the graphs with a weight-2 edge. |
| `localmove_conservation` (3 vertices) | violation | The spec's degree conservation fails on the first move. |
| `localmove_gain` (5 vertices, unit weights) | violation | A move made from the drifted stats strictly lowers Newman modularity. On K4 over {2,3,4,5} plus the edge 1-2, after {1,2} and {3,4,5} form, vertex 2 reads drifted `tot_degree` values (4 and 6 instead of the member degrees 5 and 9). It joins {3,4,5} on a scaled delta of +4, and the scaled modularity falls from 6 to -2. |
| `louvain_levels` (V = 1..4) | pass | `InducedIsContraction`: at every loop test, the in-memory graph equals the store graph contracted by the stack. `GrowthCheckSeesNumbers`: the growth test at line 257 never compares a NaN. An edgeless store moves nothing at level 0, and an induced graph has no vertex without an edge, so `degree_sum` is never 0 with vertices left. `DriverReturns`: `best_partition` returns, though nothing caps the level loop. |
| `louvain_flatten` (V = 1..4) | violation | With edge 3-4 and isolated vertices 1 and 2, the result is `<<0,0,0,0>>`: three communities merged under an id that is not a vertex. |

Each property of a passing run has a mutant in `PROJECT.json` that breaks it:
- a wrong tally;
- the spec's whole-degree update;
- a missing reset of `modified` (which breaks both `Termination` and `DriverReturns`);
- a return before the sweep ends;
- E taken as the total edge weight (`EdgeCount`);
- intra-community edges kept;
- a row made for every community when inducing (which gives the NaN);
- the composition skipped.

### Bounds

- **4 vertices with weights up to 2:** 729 graphs times 24 orders. This covers merges, ties, and moves that change both statistics.
- **5 unit-weight vertices:** these are needed before the stats drift far enough to produce a bad move.
- **Driver thresholds:**
  - 1/1000 stands for the default 1e-7. Modularity differences here are rationals with denominators of at most about 400, so both thresholds give the same decisions.
  - The large value 6 lets `RejectLevel` fire. With the default threshold, every accepted level in these bounds grew by at least 16/3.

### Fairness

The code is a single thread that never blocks, so weak fairness on the whole next-state relation is justified. `AbstractLocalMove` asks for weak fairness of `Return` only. A phase that is at a local optimum must return, and may not sweep forever. `CHECK_DEADLOCK FALSE` is set because the program returns and stops.

### Not modelled

- **Store errors and batching.** The store is assumed consistent: symmetric, unit weights, `degrees() = |neighbors|`.
  - Every function is `noexcept(false)`. A store error throws out of `best_partition` and discards all of its state, which is local, so there is no partial state to check.
  - A neighbour missing from the vertex stream would be given community 0 by `operator[]` (line 59). This is not modelled, because the store keeps its edges' vertices.
- **Numeric edges at full width.** The model's deltas and sums are exact. Three hazards are listed without a property:
  - **IEEE rounding of the delta (line 73).** TLC integers are 32 bits wide, so a 53-bit significand cannot be modelled. The hazard is real: a delta that is exactly 0 can evaluate to +2.2e-16. Replaying `second_phase` in double precision on every graph over 4 vertices with weights up to 3, in every visiting order, gave 4,320 moves (of 105,084) whose exact delta is at most 0. None of those replays looped forever. Letting every zero delta count as positive would admit cycles of zero-gain moves that the doubles never take.
  - **`count_edges * count_edges` in `size_t` (lines 70, 130).** The square wraps from 2^32 edges on.
  - **`degree_sum` is an `int` (lines 241, 250).** The double-to-int conversion is undefined from a total degree of 2^31 on.
- **The spec's E.** Spec 4.2 says E is the total edge count, and the code follows it at every level. The modularity of line 256 uses the weight sum, as textbook Louvain does for both. This is recorded as a hazard and checked by the refinement mapping (`Links`), not reported as a finding, because code and spec agree.
- **The CI workflow** (`part_001`). It is build configuration with no state to check.


## The config loader (`config_loader.hpp`)

`config_loader_t` is a set of static functions. The caller owns a `config_t`, a `json_t` and a string, and passes them by reference:
- `load_from_json` calls `validate_config`, which calls `parse_version`. It then reads the directory, the engine path and each disk. A disk's `max_size` goes through `parse_volume`, which calls `parse_bytes` for a string.
- `load_from_json_string` parses the text, then calls `load_from_json`.
- `save_to_json` and `save_to_json_string` write a config out.

There is no concurrency. The hazards are in the conversions and in the order of writes and checks.

### Modules

- **`ConfigParse.tla`** models `parse_version` and `parse_bytes` as operators.
  - **Strings are lexeme sequences.** A lexeme is a digit run `Num(n)`, `.`, ` `, `-`, an embedded NUL (`Nul`, which a JSON string may hold) or a word. Number formatting is abstracted, but every position the code tests is a lexeme boundary.
  - **`c_str()`** (`CStr`): `parse_version` rebuilds its string with `c_str()` (line 155, as `validate_config` does at line 142), which cuts it at the first NUL.
  - **`std::stoul`** (`Stoul`): white space, a sign, a digit run, the negation modulo 2^64, `out_of_range`, and the end position.
  - **`ss >> number`** (`NumGet`): sign, integer part, fraction, and the index of the first unread lexeme.
  - **`ss >> metric`** (`Metric`): the word, and the eofbit afterwards.
  - **Rounding to double** (`ToDouble`): round half to even at `MantissaBits` significant bits.
  - **Line 225 and the cast** (`MaxDouble`, `Cast`): the conversion of `max()` to double at line 225, and `static_cast<size_t>`. When the cast is undefined, `Cast` gives the set of results the x86-64 builds produce.
  - Each parser is written as a chain of steps. Each step takes the index or value the previous step computed as a parameter.
  - **Reference definitions:** `WrittenVersion`, and `StatedSize` (the size format: spaces, `-`, a literal, and an optional unit) with its exact value. The properties compare the parsers against these.
- **`MCConfigParse.tla`** makes one call of either parser on every lexically valid string of at most `MaxLen` lexemes.
  - The strings are built lexeme by lexeme (`LexStrings`).
  - The actions `CallParseVersion` and `CallParseBytes` are the calls at lines 142 and 189.
- **`ConfigLoader.tla`** models the loader and its caller. It extends `ConfigParse`.
  - `CurrentMajorVersion` and `CurrentMinorVersion` are the constants of lines 52-53 that `ValidateConfig` compares against.
  - **JSON values** are tagged records: absent, string, unsigned, integer, boolean, null, array, object.
  - **nlohmann behaviour** is modelled where the loader depends on it:
    - `value()` on a non-object throws `type_error`.
    - `value<std::string>` on a non-string throws.
    - `value<size_t>` throws on a string or null, wraps a negative integer, and reads a boolean as 0 or 1.
  - `ValidateConfig`, `ParseVolume`, `LoadDisk`, `LoadDisks` (RECURSIVE), `LoadFromJson`, `LoadFromJsonString`, `SaveToJson` and `SaveToJsonString` each return the set of outcomes of one call: the status, and the config left behind.
  - The caller's actions are one call each: `LoadFromJsonCall` (on an input document or the saved `json`), `LoadFromJsonStringCall`, `SaveToJsonCall`, `SaveToJsonStringCall` and `NewConfig`. Together they make up to `MaxCalls` calls in any order.
  - A call that reaches `std::terminate` ends the behaviour.
  - `last` is a history variable: the last call, its document and the config before it.
- **`MCConfigLoader.tla`** builds the documents:
  - every header (4 versions x 3 directories x 3 engine paths) with no disk list, an object, or an empty array;
  - the good header with every list of at most 2 disks, each from 19 (path, max_size) shapes;
  - a non-object document.

### Scaled widths

TLC integers are 32-bit, so the widths are constants:

| Constant | C++ type | Real width | Checked width |
|---|---|---|---|
| `SizeBits` | `size_t` and `unsigned long` | 64 | 16 |
| `IntBits` | `int` | 32 | 12 |
| `ByteBits` | `uint8_t` | 8 | 8 |
| `MantissaBits` | double significand | 53 | 12 |
| `UnitBits` | the power of two in 1024 | 10 | 2 |

The code's boundaries keep their order at these widths:
- A `uint8_t` is narrower than an `int`, which is narrower than a `size_t`.
- `max()` is not representable as a double.
- The unit scales overflow `size_t` for large counts, as 2^40 times a large number does at 64 bits.

The inputs are chosen at these boundaries:
- **Version numbers:** 255, 256, 2^12 + 1 (which wraps to 1 as an int) and 2^16 (out of range for stoul).
- **Sizes:** 65535 (`max()`) and 256 (256 TB = 2^16 overflows).

### Runs

| Run | Expect | What it shows |
|---|---|---|
| `config_parse` (MaxLen 5, about 396k strings) | pass | `ParseVersionComplete`: every version written `A.B` with A, B in 0..255 is read as exactly (A, B). `ParseBytesFaithful`: every string outside the size format is rejected, and every exact, non-negative size that fits `size_t` is read as its integer part in bytes. Together these cover stoul, the separator skip, the stream states after the number and the unit, the unit table, the `.` rules and the eof test. |
| `config_version` | violation | `"0-4097"` is accepted as version 0.1. The `-` is skipped as the separator, and 4097 wraps to 1 in the `int`. (At 64 bits, 2^32 + 1 does the same.) A version with text after an embedded NUL, such as `"1.0\u00009"`, is accepted as 1.0 too. |
| `config_size` | violation | `"65535"` (`SIZE_MAX`) is accepted. `max()` rounds up to 2^16 as a double, so the check at line 225 passes a value the cast cannot convert. The check has no lower bound either, so `"-1"` is accepted and its cast is undefined too. |
| `config_loader` (MaxCalls 3) | pass | `LoadMatchesDocument`: a successful load into a fresh config holds exactly the document's directory (or the default), its engine path, and its disks in order, with `max_size` or `unlimited_space_k`. |
| `config_partial` | violation | A document with a non-array `data_directories` returns an error, yet the config keeps the directory it wrote. |
| `config_terminate` | violation | Loading the caller's default (null) `json_t` throws inside the `noexcept` `validate_config`, and the process ends. |
| `config_stringsize` | violation | A disk with `max_size: "5 KB"` fails with the exception status. Line 86 reads a string as `size_t` and throws, so `parse_bytes` is unreachable from `load_from_json`. |

Mutants that break the passing properties:
- The separator not skipped, in `VersionAfterMajor`.
- The eof test dropped, in `BytesOutcomes`.
- A missing `max_size` reset to 0, in `ParseVolume`.

The loader has no type invariant. The only candidate was that a stored `max_size` is in `0..SIZE_MAX`, and C++ guarantees that for a `size_t` field whatever the code does.

Two behaviours were seen while modelling but have no run:
- `save_to_json` omits `"version"`, so no saved config loads back.
- A successful load into a used config overwrites the directory and engine path but appends its disks to the old ones.

### Not modelled in the loader

Every function of `config_loader_t` that changes state is modelled, so the component counts as modelled. What is abstracted belongs to `nlohmann::json`, not to this file:
- **JSON text.** `dump` and `parse` are taken as inverse, and a text is the document it encodes. On what the loader writes (strings and unsigned numbers in objects and arrays), nlohmann's text round-trips exactly. The caller's initial empty string is not JSON, so loading it escapes with `parse_error`.
- **Paths.** Paths are model values.

## Plan

1. Done (sitting 1): `LocalMove` and the driver `Louvain`, with three findings.
2. Done (sitting 2):
   - `ConfigParse` and `ConfigLoader`, with five findings.
   - The refinement of `AbstractLocalMove`.
   - The NaN and termination properties of the driver.
3. Done (sitting 3):
   - The refinement maps E to the spec's edge count. A weight-sum E now breaks it, which covers the hazard of line 255.
   - The version constants and `disk_config_t` of the loader. The loader component is modelled.
   - Hazards for the `size_t` square (line 70) and the `int` `degree_sum` (line 241). The line 73 rounding hazard has been measured in double precision.
4. Done (sitting 4):
   - The NUL cut of `c_str()` in `parse_version`, with an embedded NUL added to the version strings.
   - Hazards for a negative size (line 228) and an embedded NUL (line 155).
5. Next:
   - Larger driver instances. At 5 vertices there are 245,760 initial states, and the run passed 790,000 states in 5 minutes. A safety-only configuration with symmetry over the vertex ids may fit.
