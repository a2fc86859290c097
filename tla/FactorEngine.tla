---------------------------- MODULE FactorEngine -----------------------------
(***************************************************************************)
(* The incremental operators of the factors over a sliding window          *)
(* (src/src/factor/operators): ring buffers with running sums, Welford     *)
(* states over a window and over everything, their merge, minimum and      *)
(* maximum of a window, RSI.                                               *)
(*                                                                         *)
(* Numbers are whole: inputs are multiples of 12, so that the quotients by *)
(* the counts up to 4 are exact where the code divides f64s.  Moments      *)
(* overall are therefore followed for the first four inputs only.          *)
(*                                                                         *)
(* The dependency graph of factors (src/src/factor/dag.rs) and its         *)
(* executor (ParallelDagExecutor, src/src/factor/engine.rs).  A graph is   *)
(* built, nodes added and removed and perhaps sorted meanwhile; then the   *)
(* executor owns it and nodes stay.  Its registry is made for the finished *)
(* graph: a node without dependencies is defined as a source.              *)
(*                                                                         *)
(* The value of a factor is what it was computed from: pairs of a source   *)
(* and the number of its setting; a value never set, 0.0 in the code, is   *)
(* the empty set.  Maps are iterated in any order.                         *)
(***************************************************************************)
EXTENDS Integers, FiniteSets, SequencesExt

CONSTANTS
    Window,          \* window_size, capacity of the buffers
    Period,          \* period of the RSI
    InputsX, InputsY,\* multiples of 12
    Inputs           \* bound on the inputs

ASSUME OperatorsAssumption ==
    /\ {Window, Period} \subseteq 1..4 /\ Inputs \in Nat
    /\ \A x \in InputsX \cup InputsY : x \in Int /\ x % 12 = 0

Moments0 == [count |-> 0, mean |-> 0, m2 |-> 0, m3 |-> 0, m4 |-> 0]
Covariance0 == [count |-> 0, mean_x |-> 0, mean_y |-> 0, m2_x |-> 0, m2_y |-> 0, c |-> 0]
NoExtremes == [min |-> <<>>, max |-> <<>>]    \* <<m>>: Some(m)
Sums0 == [x |-> 0, y |-> 0, xy |-> 0, x2 |-> 0, y2 |-> 0]
NoPrice == -1
Rsi0 == [prev_price |-> NoPrice, avg_gain |-> 0, avg_loss |-> 0, count |-> 0]

VARIABLES
    inputs,          \* history: the inputs since the last reset, <<x, y>>
    buffer,          \* the ring buffers of x and y: <<x, y>> in the window
    sums,            \* PairedRingBuffer's; sums.x is NumericRingBuffer's too
    windowed,        \* WindowedWelfordState.state
    covariance,      \* WelfordCovarianceState
    welford,         \* WelfordState
    extremes,        \* current_min and current_max of the window
    rsi,
    resets           \* resets so far

operatorVars == <<inputs, buffer, sums, windowed, covariance, welford, extremes, rsi,
                  resets>>

OperatorInit ==
    /\ inputs = <<>> /\ buffer = <<>> /\ sums = Sums0
    /\ windowed = Moments0 /\ covariance = Covariance0 /\ welford = Moments0
    /\ extremes = NoExtremes /\ rsi = Rsi0 /\ resets = 0

IsFull == Len(buffer) >= Window

\* WelfordState::update: m4 reads the old m3 and m2, m3 the old m2.
MomentsWith(s, x) ==
    LET n == s.count + 1
        delta == x - s.mean
        delta_n == delta \div n
        term1 == delta * delta_n * (n - 1)
    IN  [count |-> n, mean |-> s.mean + delta_n,
         m2 |-> s.m2 + term1,
         m3 |-> s.m3 + term1 * delta_n * (n - 2) - 3 * delta_n * s.m2,
         m4 |-> s.m4 + term1 * delta_n * delta_n * (n * n - 3 * n + 3)
                + 6 * delta_n * delta_n * s.m2 - 4 * delta_n * s.m3]

MergeMoments(s, o) ==
    LET left == s.count
        right == o.count
        n == left + right
        delta == o.mean - s.mean
        delta2 == delta * delta
    IN  IF left = 0 THEN o ELSE IF right = 0 THEN s
        ELSE [count |-> n, mean |-> (s.mean * left + o.mean * right) \div n,
              m2 |-> s.m2 + o.m2 + (delta2 * left * right) \div n,
              m3 |-> s.m3 + o.m3 + (delta2 * delta * left * right * (left - right)) \div (n * n)
                     + (3 * delta * (left * o.m2 - right * s.m2)) \div n,
              m4 |-> s.m4 + o.m4
                     + (delta2 * delta2 * left * right * (left * left - left * right + right * right)) \div (n * n * n)
                     + (6 * delta2 * (left * left * o.m2 + right * right * s.m2)) \div (n * n)
                     + (4 * delta * (left * o.m3 - right * s.m3)) \div n]

\* The deviation from the old mean of x times the one from the new mean of y.
CovarianceWith(s, x, y) ==
    LET n == s.count + 1
        dx == x - s.mean_x
        dy == y - s.mean_y
        mean_x == s.mean_x + dx \div n
        mean_y == s.mean_y + dy \div n
    IN  [count |-> n, mean_x |-> mean_x, mean_y |-> mean_y,
         m2_x |-> s.m2_x + dx * (x - mean_x), m2_y |-> s.m2_y + dy * (y - mean_y),
         c |-> s.c + dx * (y - mean_y)]

MergeCovariance(s, o) ==
    LET left == s.count
        right == o.count
        n == left + right
        dx == o.mean_x - s.mean_x
        dy == o.mean_y - s.mean_y
    IN  IF left = 0 THEN o ELSE IF right = 0 THEN s
        ELSE [count |-> n,
              mean_x |-> (s.mean_x * left + o.mean_x * right) \div n,
              mean_y |-> (s.mean_y * left + o.mean_y * right) \div n,
              m2_x |-> s.m2_x + o.m2_x + (dx * dx * left * right) \div n,
              m2_y |-> s.m2_y + o.m2_y + (dy * dy * left * right) \div n,
              c |-> s.c + o.c + (dx * dy * left * right) \div n]

\* A simple average of the first changes.  Wilder's smoothing, which follows,
\* is outside of the bound on the inputs.
RsiWith(s, price) ==
    LET change == price - s.prev_price
        n == s.count + 1
        Average(avg, new) == (avg * (n - 1) + new) \div n
    IN  IF s.prev_price = NoPrice THEN [s EXCEPT !.prev_price = price]
        ELSE [prev_price |-> price, count |-> n,
              avg_gain |-> Average(s.avg_gain, IF change > 0 THEN change ELSE 0),
              avg_loss |-> Average(s.avg_loss, IF change < 0 THEN -change ELSE 0)]

\* PairedRingBuffer::push: what falls out of the window is taken off the sums.
SumsWith(s, sign, x, y) ==
    [x |-> s.x + sign * x, y |-> s.y + sign * y, xy |-> s.xy + sign * x * y,
     x2 |-> s.x2 + sign * x * x, y2 |-> s.y2 + sign * y * y]
Push(x, y) ==
    LET added == SumsWith(sums, 1, x, y)
    IN  IF IsFull
        THEN /\ buffer' = Append(Tail(buffer), <<x, y>>)
             /\ sums' = SumsWith(added, -1, Head(buffer)[1], Head(buffer)[2])
        ELSE buffer' = Append(buffer, <<x, y>>) /\ sums' = added

\* Mutant of WindowedWith: a full window is not computed again.
WindowedWithout(x) == MomentsWith(windowed, x)
WindowedWith(x) ==
    IF IsFull
    THEN FoldLeft(LAMBDA s, p : MomentsWith(s, p[1]), Moments0, Append(Tail(buffer), <<x>>))
    ELSE MomentsWith(windowed, x)

\* A smaller (larger) value is taken as it is; the window is searched when the
\* extreme has fallen out of it.
Extreme(m, x, Before(_, _)) ==
    LET window == IF IsFull THEN Append(Tail(buffer), <<x>>) ELSE Append(buffer, <<x>>)
        Best(a, b) == IF Before(b, a) THEN b ELSE a
    IN  IF m = <<>> \/ Before(x, m[1]) THEN <<x>>
        ELSE IF IsFull /\ Head(buffer)[1] = m[1]
             THEN <<FoldLeft(LAMBDA best, p : Best(best, p[1]), window[1][1], window)>>
             ELSE m

UpdateOperators(x, y) ==
    /\ Len(inputs) < Inputs
    /\ inputs' = Append(inputs, <<x, y>>)
    /\ Push(x, y)
    /\ windowed' = WindowedWith(x)
    /\ extremes' = [min |-> Extreme(extremes.min, x, LAMBDA a, b : a < b),
                    max |-> Extreme(extremes.max, x, LAMBDA a, b : a > b)]
    /\ IF Len(inputs) < 4
       THEN welford' = MomentsWith(welford, x) /\ covariance' = CovarianceWith(covariance, x, y)
       ELSE UNCHANGED <<welford, covariance>>
    /\ rsi' = IF rsi.count < Period THEN RsiWith(rsi, x) ELSE rsi
    /\ UNCHANGED resets

ResetOperators ==
    /\ inputs # <<>> /\ resets = 0 /\ resets' = 1
    /\ inputs' = <<>> /\ buffer' = <<>> /\ sums' = Sums0
    /\ windowed' = Moments0 /\ covariance' = Covariance0 /\ welford' = Moments0
    /\ extremes' = NoExtremes /\ rsi' = Rsi0

OperatorNext ==
    \/ \E x \in InputsX, y \in InputsY : UpdateOperators(x, y)
    \/ ResetOperators

OperatorSpec == OperatorInit /\ [][OperatorNext]_operatorVars
------------------------------------------------------------------------------
(* Properties. *)

LastInputs(n) ==
    SubSeq(inputs, IF Len(inputs) > n THEN Len(inputs) - n + 1 ELSE 1, Len(inputs))
SumOf(s, F(_)) == FoldLeft(LAMBDA sum, p : sum + F(p), 0, s)

\* The central moments of a non-empty sequence by their definition.
MomentsOf(s) ==
    LET mean == SumOf(s, LAMBDA p : p[1]) \div Len(s)
        Dev(p) == p[1] - mean
    IN  [count |-> Len(s), mean |-> mean,
         m2 |-> SumOf(s, LAMBDA p : Dev(p) * Dev(p)),
         m3 |-> SumOf(s, LAMBDA p : Dev(p) * Dev(p) * Dev(p)),
         m4 |-> SumOf(s, LAMBDA p : Dev(p) * Dev(p) * Dev(p) * Dev(p))]
CovarianceOf(s) ==
    LET mean_x == SumOf(s, LAMBDA p : p[1]) \div Len(s)
        mean_y == SumOf(s, LAMBDA p : p[2]) \div Len(s)
    IN  [count |-> Len(s), mean_x |-> mean_x, mean_y |-> mean_y,
         m2_x |-> SumOf(s, LAMBDA p : (p[1] - mean_x) * (p[1] - mean_x)),
         m2_y |-> SumOf(s, LAMBDA p : (p[2] - mean_y) * (p[2] - mean_y)),
         c |-> SumOf(s, LAMBDA p : (p[1] - mean_x) * (p[2] - mean_y))]

MomentsBy(s) == FoldLeft(LAMBDA m, p : MomentsWith(m, p[1]), Moments0, s)
CovarianceBy(s) == FoldLeft(LAMBDA m, p : CovarianceWith(m, p[1], p[2]), Covariance0, s)

\* After any inputs, window by window and across a reset, the sums, moments and
\* extremes kept step by step are those of the last inputs by their definition; parts
\* computed apart and merged give the whole; RSI starts from the plain average
\* of the gains.
OperatorsAgree ==
    LET first == SubSeq(inputs, 1, IF Len(inputs) < 4 THEN Len(inputs) ELSE 4)
        last == LastInputs(Window)
    IN  inputs # <<>> =>
          /\ buffer = last
          /\ sums = [x |-> SumOf(last, LAMBDA p : p[1]), y |-> SumOf(last, LAMBDA p : p[2]),
                     xy |-> SumOf(last, LAMBDA p : p[1] * p[2]),
                     x2 |-> SumOf(last, LAMBDA p : p[1] * p[1]),
                     y2 |-> SumOf(last, LAMBDA p : p[2] * p[2])]
          /\ windowed = MomentsOf(last)
          /\ LET xs == {p[1] : p \in ToSet(last)}
             IN  /\ extremes.min[1] \in xs /\ extremes.max[1] \in xs
                 /\ \A x \in xs : extremes.min[1] <= x /\ x <= extremes.max[1]
          /\ welford = MomentsOf(first) /\ covariance = CovarianceOf(first)
          /\ \A i \in 0..Len(first) :
               LET head == SubSeq(first, 1, i)
                   tail == SubSeq(first, i + 1, Len(first))
               IN  /\ MergeMoments(MomentsBy(head), MomentsBy(tail)) = welford
                   /\ MergeCovariance(CovarianceBy(head), CovarianceBy(tail)) = covariance
          /\ LET gains == [i \in 1..rsi.count |->
                             LET d == inputs[i + 1][1] - inputs[i][1] IN IF d > 0 THEN d ELSE 0]
             IN  rsi.avg_gain * rsi.count = FoldLeft(LAMBDA a, g : a + g, 0, gains)

------------------------------------------------------------------------------
(* The dependency graph and its executor *)

CONSTANTS
    FactorIds,       \* at most four: the orders of iteration are enumerated
    Additions,       \* bound on add_node
    Removals,        \* bound on remove_node
    Settings         \* bound on the settings of sources

ASSUME FactorDagAssumption ==
    IsFiniteSet(FactorIds) /\ {Additions, Removals, Settings} \subseteq Nat

VARIABLES
    nodes,           \* factors in the graph
    dependencies,    \* dependencies[n], as a set
    dependents,
    depth,           \* depth[n] of the last sort since n was added
    topo_order,      \* cached order
    dirty,           \* the cache is out of date
    additions, removals,
    executing,       \* the executor has the graph
    values,          \* values[n]
    version,         \* version[s]: number of the last setting of s, 0 if none
    stale            \* history: sources set and not yet propagated

graphVars == <<nodes, dependencies, dependents, depth, topo_order, dirty, additions, removals>>
dagVars == <<graphVars, executing, values, version, stale>>

Sources == {n \in nodes : dependencies[n] = {}}

NoFactors == [n \in FactorIds |-> {}]
NoVersions == [n \in FactorIds |-> 0]

DagInit ==
    /\ nodes = {} /\ dependencies = NoFactors /\ dependents = NoFactors
    /\ depth = NoVersions /\ topo_order = <<>> /\ dirty = TRUE
    /\ additions = 0 /\ removals = 0
    /\ executing = FALSE /\ values = NoFactors /\ version = NoVersions /\ stale = {}
------------------------------------------------------------------------------
(* The graph. *)

\* add_source, add_derived: an id is new, its dependencies are there.
AddNode(n, deps) ==
    /\ ~executing /\ additions < Additions
    /\ n \notin nodes /\ deps \subseteq nodes
    /\ nodes' = nodes \cup {n}
    /\ dependencies' = [dependencies EXCEPT ![n] = deps]
    /\ dependents' = [d \in FactorIds |->
         IF d = n THEN {} ELSE IF d \in deps THEN dependents[d] \cup {n} ELSE dependents[d]]
    /\ depth' = [depth EXCEPT ![n] = 0]
    /\ dirty' = TRUE /\ additions' = additions + 1
    /\ UNCHANGED <<topo_order, removals, executing, values, version, stale>>

\* Its dependents stay, without it.
RemoveNode(n) ==
    /\ ~executing /\ removals < Removals
    /\ n \in nodes /\ nodes' = nodes \ {n}
    /\ dependencies' = [d \in FactorIds |-> IF d = n THEN {} ELSE dependencies[d] \ {n}]
    /\ dependents' = [d \in FactorIds |-> IF d = n THEN {} ELSE dependents[d] \ {n}]
    /\ depth' = [depth EXCEPT ![n] = 0]
    /\ dirty' = TRUE /\ removals' = removals + 1
    /\ UNCHANGED <<topo_order, additions, executing, values, version, stale>>

\* Mutant of Enqueue: the newest first.
EnqueueFirst(queue, n) == <<n>> \o queue
Enqueue(queue, n) == Append(queue, n)

\* One node of Kahn's algorithm; out lists the nodes as the edges were built.
Relax(kahn, n, d) ==
    [kahn EXCEPT !.in_degree[n] = @ - 1, !.depth[n] = d + 1,
                 !.queue = IF kahn.in_degree[n] = 1 THEN Enqueue(@, n) ELSE @]
Visit(kahn, out) ==
    IF kahn.queue = <<>> THEN kahn
    ELSE LET n == Head(kahn.queue)
         IN  FoldLeft(LAMBDA k, d : Relax(k, d, kahn.depth[n]),
                      [kahn EXCEPT !.queue = Tail(@), !.result = Append(@, n)],
                      SelectSeq(out, LAMBDA d : n \in dependencies[d]))

\* in_degree is iterated in the order first, as far as it is 0; nodes in the
\* order out, as far as they have dependencies.
Kahn(first, out) ==
    FoldLeft(LAMBDA kahn, n : Visit(kahn, out),
             [queue |-> first, result |-> <<>>,
              in_degree |-> [n \in nodes |-> Cardinality(dependencies[n])],
              depth |-> [n \in nodes |-> 0]],
             first \o out)

\* What topological_sort can leave: the cache, or a new order and new depths;
\* a node without dependencies keeps the depth it has.
SortResults ==
    IF ~dirty THEN {[order |-> topo_order, depth |-> depth]}
    ELSE {LET kahn == Kahn(orders[1], orders[2])
          IN  [order |-> kahn.result,
               depth |-> [n \in FactorIds |-> IF n \in nodes \ Sources THEN kahn.depth[n]
                                              ELSE depth[n]]] :
          orders \in SetToSeqs(Sources) \X SetToSeqs(nodes \ Sources)}

StoreSort(sorted) ==
    /\ topo_order' = sorted.order /\ depth' = sorted.depth /\ dirty' = FALSE
    /\ UNCHANGED <<nodes, dependencies, dependents, additions, removals>>

TopologicalSort ==
    /\ ~executing /\ dirty
    /\ \E sorted \in SortResults : StoreSort(sorted)
    /\ UNCHANGED <<executing, values, version, stale>>
------------------------------------------------------------------------------
(* The executor. *)

NewExecutor ==
    /\ ~executing /\ nodes # {} /\ executing' = TRUE
    /\ UNCHANGED <<graphVars, values, version, stale>>

\* A source gives its own value, any other factor computes from the values its
\* dependencies have now.
ComputeFactor(vals, n) ==
    IF dependencies[n] = {} THEN vals[n] ELSE UNION {vals[d] : d \in dependencies[n]}

\* All factors of a level compute in parallel, and then their values are stored.
ExecuteLevel(vals, level) ==
    [n \in FactorIds |-> IF n \in level THEN ComputeFactor(vals, n) ELSE vals[n]]

Levels(depths) ==
    [i \in 1..Cardinality(nodes) |-> {n \in nodes : depths[n] = i - 1}]

SettingOf(s) == [values EXCEPT ![s] = {<<s, version[s] + 1>>}]
CountSetting(s) ==
    /\ executing /\ s \in Sources
    /\ FoldFunction(LAMBDA a, b : a + b, 0, version) < Settings
    /\ version' = [version EXCEPT ![s] = @ + 1]

SetSource(s) ==
    /\ CountSetting(s)
    /\ values' = SettingOf(s) /\ stale' = stale \cup {s}
    /\ UNCHANGED <<graphVars, executing>>

Execute ==
    /\ executing
    /\ \E sorted \in SortResults :
         /\ StoreSort(sorted)
         /\ values' = FoldLeft(ExecuteLevel, values, Levels(sorted.depth))
    /\ stale' = {}
    /\ UNCHANGED <<executing, version>>

\* get_affected_nodes searches along the dependents.
Affected(s) ==
    FoldLeft(LAMBDA found, i : found \cup UNION {dependents[n] : n \in found},
             dependents[s], [i \in 1..Cardinality(nodes) |-> i])

IncrementalUpdate(s) ==
    /\ CountSetting(s)
    /\ \E sorted \in SortResults :
         /\ StoreSort(sorted)
         /\ values' = FoldLeft(LAMBDA vals, n : [vals EXCEPT ![n] = ComputeFactor(vals, n)],
                               SettingOf(s),
                               SelectSeq(sorted.order, LAMBDA n : n \in Affected(s)))
    /\ stale' = stale \ {s}
    /\ UNCHANGED executing

ResetExecutor ==
    /\ executing /\ values # NoFactors
    /\ values' = NoFactors /\ version' = NoVersions /\ stale' = {}
    /\ UNCHANGED <<graphVars, executing>>

DagNext ==
    \/ \E n \in FactorIds :
         \/ \E deps \in SUBSET nodes : AddNode(n, deps)
         \/ RemoveNode(n) \/ SetSource(n) \/ IncrementalUpdate(n)
    \/ TopologicalSort \/ NewExecutor \/ Execute \/ ResetExecutor

DagSpec == DagInit /\ [][DagNext]_dagVars
------------------------------------------------------------------------------
(* Properties. *)

\* The sources that n depends on, by its definition.
SourcesOf ==
    LET sources[n \in nodes] ==
          IF dependencies[n] = {} THEN {n} ELSE UNION {sources[d] : d \in dependencies[n]}
    IN  sources
Current(n) == {<<s, version[s]>> : s \in {r \in SourcesOf[n] : version[r] > 0}}

\* Nodes that lost all their dependencies after a sort gave them a depth.
Orphans == {n \in nodes : dependencies[n] = {} /\ depth[n] > 0}

\* A cached order has every factor once, after what it depends on.  Without
\* orphans a factor is in a later level than what it depends on, so levels
\* computed in parallel, and incremental updates in any mix with them, leave
\* every factor with the values its sources have now, but for sources that
\* were set and not propagated since.
FactorsFollowSources ==
    /\ \A n \in nodes, m \in nodes : m \in dependencies[n] <=> n \in dependents[m]
    /\ ~dirty =>
         /\ Len(topo_order) = Cardinality(nodes) /\ ToSet(topo_order) = nodes
         /\ \A i, j \in DOMAIN topo_order : topo_order[j] \in dependencies[topo_order[i]] => j < i
    /\ Orphans = {} =>
         /\ ~dirty => \A n \in nodes : \A d \in dependencies[n] : depth[d] < depth[n]
         /\ executing => \A n \in nodes :
              SourcesOf[n] \cap stale = {} => values[n] = Current(n)
==============================================================================
