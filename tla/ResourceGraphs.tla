--------------------------- MODULE ResourceGraphs ---------------------------
(***************************************************************************)
(* Two graphs of the resources that a plan touches: that of the plan's     *)
(* dependencies, and that of what is downstream of a resource.             *)
(***************************************************************************)
EXTENDS Integers, SequencesExt

-----------------------------------------------------------------------------
(***************************************************************************)
(* The resource dependency graph of a plan and what is read off it         *)
(* (simulation/resource-dependency-graph.ts).  The nodes are resources,    *)
(* not steps: the first step that touches a resource makes its node, and   *)
(* two steps in a row on one resource make it depend on itself.  Maps and  *)
(* arrays are sequences, for their order shows in the results.             *)
(***************************************************************************)

CONSTANTS
    Resources,
    PlanLength,
    Weights       \* inferCriticality: the weight of each step's risk level

VARIABLES
    graphPlan,    \* the steps: [resource, deps], deps as indexes in the plan
    nodes,        \* the map: [id, dependencies, dependents, weight]
    built         \* steps that buildFromPlan has gone through

graphVars == <<graphPlan, nodes, built>>

GraphSteps == 1 .. PlanLength

\* The dependency arrays of the steps may name them in any order; one is enough.
GraphInit ==
    /\ graphPlan \in [GraphSteps -> [resource : Resources, deps : SUBSET GraphSteps]]
    /\ nodes = <<>> /\ built = 0

-----------------------------------------------------------------------------
(* buildFromPlan                                                           *)

Ids(ns) == [k \in DOMAIN ns |-> ns[k].id]

At(ns, id) == CHOOSE k \in DOMAIN ns : ns[k].id = id

AddNode(ns, id, weight) ==
    IF Contains(Ids(ns), id) THEN ns
    ELSE Append(ns, [id |-> id, dependencies |-> <<>>, dependents |-> <<>>, weight |-> weight])

\* Both ends get each other, once.
AddDependency(ns, from, to) ==
    [[ns EXCEPT ![At(ns, from)].dependencies = IF Contains(@, to) THEN @ ELSE Append(@, to)]
        EXCEPT ![At(ns, to)].dependents = IF Contains(@, from) THEN @ ELSE Append(@, from)]

\* A dependency of a later step finds no node: it gets one of unknown type, with the
\* weight of medium.
Link(ns, from, to) == AddDependency(AddNode(ns, to, 2), from, to)

BuildStep ==
    /\ built < PlanLength
    /\ LET step == graphPlan[built + 1]
           deps == SetToSortSeq(step.deps, <)
       IN nodes' = FoldLeft(LAMBDA ns, d : Link(ns, step.resource, graphPlan[d].resource),
                            AddNode(nodes, step.resource, Weights[built + 1]), deps)
    /\ built' = built + 1
    /\ UNCHANGED graphPlan

GraphNext == BuildStep

GraphSpec == GraphInit /\ [][GraphNext]_graphVars

-----------------------------------------------------------------------------
(* analyze                                                                 *)

Node(id) == nodes[At(nodes, id)]

Present == Range(Ids(nodes))

EdgeWeight(from, to) == Node(from).weight + Node(to).weight

\* topologicalSort: nodes whose dependencies are all in the order, first come first served.
RECURSIVE Kahn(_, _, _)
Kahn(queue, degree, sorted) ==
    IF queue = <<>> THEN sorted
    ELSE LET id == Head(queue)
             ds == Node(id).dependents
             lowered == [n \in Present |-> IF Contains(ds, n) THEN degree[n] - 1 ELSE degree[n]]
         IN Kahn(Tail(queue) \o SelectSeq(ds, LAMBDA d : lowered[d] = 0), lowered,
                 Append(sorted, id))

ExecutionOrder ==
    LET degree == [n \in Present |-> Len(Node(n).dependencies)]
    IN Kahn(SelectSeq(Ids(nodes), LAMBDA n : degree[n] = 0), degree, <<>>)

\* detectCircularDependencies: depth first over all nodes.  A search that found a cycle
\* returns at once, and leaves its nodes on the recursion stack for the searches after it.
RECURSIVE Search(_, _)
Search(id, state) ==
    LET entered == [state EXCEPT !.visited = @ \cup {id}, !.stack = @ \cup {id},
                                 !.path = Append(@, id)]
        look(st, d) ==
            CASE st.found            -> st
              [] d \notin st.visited -> Search(d, st)
              [] d \in st.stack      ->
                   LET from == IF Contains(st.path, d) THEN SelectInSeq(st.path, LAMBDA n : n = d)
                               ELSE Len(st.path)
                   IN [st EXCEPT !.found = TRUE,
                                 !.cycles = Append(@, SubSeq(st.path, from, Len(st.path)))]
              [] OTHER -> st
        left == FoldLeft(look, entered, Node(id).dependencies)
    IN IF left.found THEN left
       ELSE [left EXCEPT !.path = Front(@), !.stack = @ \ {id}]

Cycles ==
    FoldLeft(LAMBDA st, id : IF id \in st.visited THEN st
                             ELSE Search(id, [st EXCEPT !.path = <<>>, !.found = FALSE]),
             [visited |-> {}, stack |-> {}, path |-> <<>>, found |-> FALSE, cycles |-> <<>>],
             Ids(nodes)).cycles

\* findLongestPath: the weight of the heaviest way through dependents that ends in a
\* node without any; the nodes on the way are not entered again.
RECURSIVE Heaviest(_, _, _)
Heaviest(id, way, weight) ==
    IF id \in way THEN 0
    ELSE IF Node(id).dependents = <<>> THEN weight
    ELSE Max({Heaviest(d, way \cup {id}, weight + EdgeWeight(d, id)) :
                 d \in Range(Node(id).dependents)})

\* calculateMaxDepth, and the depths that calculateParallelizationPotential counts.
RECURSIVE Depth(_, _)
Depth(id, seen) ==
    IF id \in seen \/ Node(id).dependencies = <<>> THEN 0
    ELSE 1 + Max({Depth(d, seen \cup {id}) : d \in Range(Node(id).dependencies)})

\* getAffectedNodes: breadth first; a node may be queued twice.
RECURSIVE Affected(_, _)
Affected(queue, found) ==
    IF queue = <<>> THEN found
    ELSE LET now == found \cup {Head(queue)}
         IN Affected(Tail(queue) \o SelectSeq(Node(Head(queue)).dependents,
                                               LAMBDA d : d \notin now), now)

-----------------------------------------------------------------------------
(* What the results should say                                             *)

Depends(a, b) == Contains(Node(a).dependencies, b)

\* The nodes that a depends on, directly or not.
RECURSIVE Closure(_, _)
Closure(found, n) ==
    IF n = 0 THEN found
    ELSE Closure(found \cup {b \in Present : \E a \in found : Depends(a, b)}, n - 1)
Below(a) == Closure({b \in Present : Depends(a, b)}, Len(nodes))

OnCycle(a) == a \in Below(a)

AcyclicGraph == \A a \in Present : ~OnCycle(a)

\* Ways from a node to one that nothing depends on.
Ways(root) ==
    {w \in SeqOf(Present, Len(nodes)) :
        /\ w # <<>> /\ w[1] = root /\ Node(Last(w)).dependents = <<>>
        /\ \A k \in 1 .. Len(w) - 1 : Depends(w[k + 1], w[k])}

WeightOf(w) ==
    FoldLeft(+, 0, [k \in 1 .. Len(w) - 1 |-> EdgeWeight(w[k + 1], w[k])])

\* Type invariant.
GraphTypeOK ==
    /\ built \in 0 .. PlanLength /\ Present \subseteq Resources
    /\ \A n \in Range(nodes) : Range(n.dependencies) \cup Range(n.dependents) \subseteq Present

\* The graph of any plan: dependents mirror dependencies; the order lists exactly the
\* resources that do not depend on a cycle, each once and after its dependencies; a
\* cycle is reported exactly when there is one, and the first that is reported is one.
GraphIsRead ==
    built = PlanLength =>
        /\ \A a, b \in Present : Depends(a, b) <=> Contains(Node(b).dependents, a)
        /\ LET order == ExecutionOrder IN
           /\ Range(order) = {a \in Present : ~OnCycle(a) /\ \A b \in Below(a) : ~OnCycle(b)}
           /\ \A j, k \in DOMAIN order :
                 /\ order[j] = order[k] => j = k
                 /\ Depends(order[j], order[k]) => k < j
        /\ LET cycles == Cycles IN
           /\ cycles = <<>> <=> AcyclicGraph
           /\ cycles # <<>> =>
                 LET c == cycles[1] IN
                 \A k \in DOMAIN c : Depends(c[k], c[IF k = Len(c) THEN 1 ELSE k + 1])

\* The measures: what a change of a resource affects is what depends on it; without a
\* cycle the heaviest path from a root is that, and the depth is that of the longest chain.
MeasuresAreRight ==
    built = PlanLength =>
        /\ \A a \in Present : Affected(<<a>>, {}) = {a} \cup {b \in Present : a \in Below(b)}
        /\ AcyclicGraph => \A a \in Present :
              /\ Node(a).dependencies = <<>> =>
                    Heaviest(a, {}, 0) = Max({WeightOf(w) : w \in Ways(a)})
              /\ Depth(a, {}) <= Cardinality(Below(a))
              /\ \A b \in Present : Depends(a, b) => Depth(a, {}) > Depth(b, {})

-----------------------------------------------------------------------------
(***************************************************************************)
(* What a plan may affect (planner/blast-radius-analyzer.ts): the metadata *)
(* of resources, the graph of what is downstream of them, and the measures *)
(* that are summed up over the targets of a step and the steps of a plan.  *)
(* A target is known under its identifier, or with the environment in      *)
(* front of it; the graph knows identifiers only.                          *)
(***************************************************************************)

CONSTANTS
    Assets,          \* identifiers of resources
    Prefixed,        \* identifier -> the identifier with the environment in front
    Sample,          \* SAMPLE_RESOURCE_METADATA: identifier -> metadata, for some
    Metadata,        \* what may be registered: [deps, users (thousands), sensitivity, criticality]
    Default,         \* metadata of an unknown resource, from the configuration
    MaxDepth,        \* max_dependency_depth
    MaxRegistered    \* bound

ASSUME BlastAssumption ==
    /\ MaxDepth \in Nat /\ MaxRegistered \in Nat /\ DOMAIN Sample \subseteq Assets
    /\ Prefixed \in [Assets -> Assets] /\ Default.deps = <<>>

VARIABLES
    metadata,      \* resourceMetadataStore
    downstream,    \* dependencyGraph
    analyzerReady, registeredCount,
    everSaid       \* history: for each resource, what was ever said to be downstream of it

blastVars == <<metadata, downstream, analyzerReady, registeredCount, everSaid>>

BlastInit ==
    /\ metadata = Sample /\ downstream = <<>>
    /\ analyzerReady = FALSE /\ registeredCount = 0
    /\ everSaid = [i \in Assets |-> IF i \in DOMAIN Sample THEN Range(Sample[i].deps) ELSE {}]

\* initialize builds the graph from what is stored, the first time that it is called.
Initialize ==
    /\ ~analyzerReady /\ analyzerReady' = TRUE
    /\ downstream' = [i \in DOMAIN metadata |-> metadata[i].deps] @@ downstream
    /\ UNCHANGED <<metadata, registeredCount, everSaid>>

\* registerResourceMetadata: when nothing is downstream any more, the graph stays.
RegisterMetadata(i, m) ==
    /\ registeredCount < MaxRegistered /\ registeredCount' = registeredCount + 1
    /\ metadata' = (i :> m) @@ metadata
    /\ downstream' = IF m.deps = <<>> THEN downstream ELSE (i :> m.deps) @@ downstream
    /\ everSaid' = [everSaid EXCEPT ![i] = @ \cup Range(m.deps)]
    /\ UNCHANGED analyzerReady

BlastNext ==
    \/ Initialize
    \/ \E i \in Assets, m \in Metadata : RegisterMetadata(i, m)

BlastSpec == BlastInit /\ [][BlastNext]_blastVars

-----------------------------------------------------------------------------
(* analyzeStep                                                             *)

MetadataOf(target) ==
    CASE target \in DOMAIN metadata           -> metadata[target]
      [] Prefixed[target] \in DOMAIN metadata -> metadata[Prefixed[target]]
      [] OTHER                                -> Default

DownstreamOf(i) == IF i \in DOMAIN downstream THEN downstream[i] ELSE <<>>

TooDeep(i, depth) == depth > MaxDepth

\* analyzeCascadingFailures: depth first, no resource twice; one path for each resource
\* that has something downstream.
RECURSIVE Traverse(_, _, _)
Traverse(i, depth, st) ==
    IF TooDeep(i, depth) \/ i \in st.visited THEN st
    ELSE LET entered == [visited |-> st.visited \cup {i},
                         paths   |-> IF DownstreamOf(i) = <<>> THEN st.paths
                                     ELSE Append(st.paths, Range(DownstreamOf(i)))]
         IN FoldLeft(LAMBDA acc, d : Traverse(d, depth + 1, acc), entered, DownstreamOf(i))

Cascade(target) == Traverse(target, 0, [visited |-> {}, paths |-> <<>>]).paths

-----------------------------------------------------------------------------
(* BlastRadiusMetricsBuilder                                               *)

NoMetrics == [users |-> 0, systems |-> 0, sensitivity |-> 0, criticality |-> 0, paths |-> 0]

\* Tiers are numbered in the order of rollupTier; sums and maxima do not depend on the order.
Both(m, n) ==
    [users       |-> m.users + n.users,
     systems     |-> m.systems + n.systems,
     sensitivity |-> Max({m.sensitivity, n.sensitivity}),
     criticality |-> Max({m.criticality, n.criticality}),
     paths       |-> m.paths + n.paths]

OfTarget(target) ==
    LET m == MetadataOf(target) IN
    [users       |-> m.users,
     systems     |-> 1 + Len(m.deps),
     sensitivity |-> m.sensitivity,
     criticality |-> m.criticality,
     paths       |-> Len(Cascade(target))]

OfStep(targets) == FoldLeft(LAMBDA m, target : Both(m, OfTarget(target)), NoMetrics, targets)

OfPlan(steps) == FoldLeft(LAMBDA m, targets : Both(m, OfStep(targets)), NoMetrics, steps)

\* determineBlastRadiusSize: 0 to 3 for LIMITED to TOTAL.  Users come first, and when
\* they decide, cascades and systems are not looked at.
SizeByUsers(m) ==
    CASE m.users > 100 -> 3 [] m.users > 10 -> 2 [] m.users > 1 -> 1 [] OTHER -> 0

Size(m) ==
    CASE SizeByUsers(m) > 0 -> SizeByUsers(m)
      [] m.paths > 5 -> 2 [] m.paths > 2 -> 1
      [] m.systems > 10 -> 2 [] m.systems > 3 -> 1
      [] OTHER -> 0

\* checkThreshold; a threshold that is not given is out of reach.
Exceeds(m, threshold) ==
    \/ m.users > threshold.users
    \/ m.sensitivity > threshold.sensitivity
    \/ m.criticality > threshold.criticality
    \/ Size(m) > threshold.size

-----------------------------------------------------------------------------
\* Type invariant.
BlastTypeOK ==
    /\ DOMAIN metadata \subseteq Assets /\ DOMAIN downstream \subseteq Assets
    /\ analyzerReady \in BOOLEAN /\ registeredCount \in 0 .. MaxRegistered

Reachable(i, n) ==
    LET more[k \in 0 .. n] ==
            IF k = 0 THEN {i}
            ELSE more[k - 1] \cup UNION {Range(DownstreamOf(j)) : j \in more[k - 1]}
    IN more[n]

Reported(target) == UNION Range(Cascade(target))

\* What is said to be affected by a target: only what can be reached from it, all that is
\* directly downstream, and, where no way is longer than the limit, all that can be
\* reached.  The graph lags behind the metadata only in resources that nothing is
\* downstream of any more, and invents nothing.
CascadesAreTraced ==
    /\ \A target \in Assets :
          /\ Reported(target) \subseteq Reachable(target, Cardinality(Assets))
          /\ Range(DownstreamOf(target)) \subseteq Reported(target)
          /\ MaxDepth + 1 >= Cardinality(Assets) =>
                Reachable(target, Cardinality(Assets)) \subseteq Reported(target) \cup {target}
    /\ \A i \in DOMAIN downstream :
          /\ Range(downstream[i]) \subseteq everSaid[i]
          /\ downstream[i] # metadata[i].deps => metadata[i].deps = <<>>

\* A plan never looks safer than one of its steps: whatever exceeds a threshold of users,
\* sensitivity or criticality in a step exceeds it in the plan.  The size of a plan does
\* so only where users decide on it.
NothingIsHidden ==
    \A s, t \in Assets :
        LET step == OfStep(<<s>>)  plan == OfPlan(<<<<s>>, <<t>>>>) IN
        /\ \A level \in 0 .. 3 :
              LET threshold == [users |-> 10 * (level + 1), sensitivity |-> level,
                                criticality |-> level, size |-> 3]
              IN Exceeds(step, threshold) => Exceeds(plan, threshold)
        /\ SizeByUsers(step) > 0 => Size(plan) >= Size(step)
=============================================================================
