-------------------------- MODULE TopologicalSort --------------------------
(***************************************************************************)
(* topologicalSort of src/src/workflow/index.ts: the depth-first search    *)
(* that turns a plan into the execution order of its steps.  The recursion *)
(* is unfolded: `path' holds the calls of `visit' in progress, outermost   *)
(* first, `left' the dependencies each call has not looked at yet.  Steps  *)
(* are named by their index in the plan; the order within a dependency     *)
(* array is left open, so every one is covered.                            *)
(***************************************************************************)
EXTENDS Naturals, Sequences

CONSTANTS
    N,        \* number of steps of the plan
    Unknown   \* ids in dependency arrays that no step of the plan has

Steps == 1 .. N

ASSUME SortAssumption == N \in Nat /\ Unknown \cap Steps = {}

VARIABLES
    deps,     \* the plan: the dependencies of each step
    root,     \* the step the outer loop visits next
    path,     \* steps whose visit is in progress
    left,     \* dependencies still to be looked at
    visited,  \* the `visited' set
    order     \* the `result' array

vars == <<deps, root, path, left, visited, order>>

Elements(s) == {s[i] : i \in 1 .. Len(s)}

Top == path[Len(path)]

Init ==
    /\ deps \in [Steps -> SUBSET (Steps \cup Unknown)]
    /\ root = 1
    /\ path = <<>>
    /\ left = deps
    /\ visited = {}
    /\ order = <<>>

\* visit(s): a second visit returns at once.
Visit(s) ==
    IF s \in visited
    THEN UNCHANGED <<path, visited>>
    ELSE path' = Append(path, s) /\ visited' = visited \cup {s}

VisitNextStep ==
    /\ path = <<>> /\ root \in Steps
    /\ Visit(root)
    /\ root' = root + 1
    /\ UNCHANGED <<deps, left, order>>

\* Mutation: the search looks at the same dependency again and again.
VisitStuck(d) ==
    /\ path # <<>> /\ d \in left[Top]
    /\ IF d \in Steps THEN Visit(d) ELSE UNCHANGED <<path, visited>>
    /\ UNCHANGED <<deps, root, order, left>>

\* An id that stepMap does not know is passed over.
VisitDependency(d) ==
    /\ path # <<>> /\ d \in left[Top]
    /\ left' = [left EXCEPT ![Top] = @ \ {d}]
    /\ IF d \in Steps THEN Visit(d) ELSE UNCHANGED <<path, visited>>
    /\ UNCHANGED <<deps, root, order>>

\* Mutation: a step is put into the order before its dependencies.
PushEarly ==
    /\ path # <<>>
    /\ order' = Append(order, Top)
    /\ path' = SubSeq(path, 1, Len(path) - 1)
    /\ UNCHANGED <<deps, root, left, visited>>

PushResult ==
    /\ path # <<>> /\ left[Top] = {}
    /\ order' = Append(order, Top)
    /\ path' = SubSeq(path, 1, Len(path) - 1)
    /\ UNCHANGED <<deps, root, left, visited>>

Sorted == path = <<>> /\ root = N + 1

Next == VisitNextStep \/ (\E d \in Steps \cup Unknown : VisitDependency(d)) \/ PushResult

Spec == Init /\ [][Next]_vars

-----------------------------------------------------------------------------
\* A plan is acyclic when its steps can be ranked above their dependencies.
Ranks(rank) == \A s \in Steps : \A d \in deps[s] \cap Steps : rank[d] < rank[s]

Acyclic == \E rank \in [Steps -> Steps] : Ranks(rank)

\* Type invariant.
TypeOK ==
    /\ deps \in [Steps -> SUBSET (Steps \cup Unknown)]
    /\ root \in 1 .. N + 1
    /\ path \in Seq(Steps)
    /\ left \in [Steps -> SUBSET (Steps \cup Unknown)]
    /\ visited \subseteq Steps
    /\ order \in Seq(Steps)

\* No step is put into the order twice, on a cyclic plan either: it would be
\* executed twice.
NoStepTwice == \A i, j \in 1 .. Len(order) : order[i] = order[j] => i = j

\* The order ends up with every step, on a cyclic plan either.
NoStepLost == Sorted => Elements(order) = Steps

\* In the order of an acyclic plan every step comes after all its dependencies
\* (executeWorkflow fails a step that comes before one of them).
DependenciesPrecede ==
    Acyclic => \A i \in 1 .. Len(order) :
                  deps[order[i]] \cap Steps \subseteq {order[j] : j \in 1 .. i - 1}

\* The order that a plan is executed in.
OrderHolds == NoStepTwice /\ NoStepLost /\ DependenciesPrecede

\* The sort ends, on a cyclic plan too.
SortEnds == <>Sorted

-----------------------------------------------------------------------------
(* The inductive invariant behind them                                     *)

\* A visited step is either in progress or in the order, once.
VisitedOnce ==
    /\ visited = Elements(path) \cup Elements(order)
    /\ Elements(path) \cap Elements(order) = {}
    /\ \A i, j \in 1 .. Len(path) : path[i] = path[j] => i = j

\* The outer loop has visited the steps it went past.
RootsVisited == 1 .. root - 1 \subseteq visited

\* What a visit has looked at, and what is left to it, are dependencies.
LookedAt ==
    \A s \in Steps :
        /\ left[s] \subseteq deps[s]
        /\ (deps[s] \ left[s]) \cap Steps \subseteq visited

\* Along the path ranks go down: every visit was made for a dependency.
PathDescends ==
    \A rank \in [Steps -> Steps] : Ranks(rank) =>
        \A i, j \in 1 .. Len(path) : i < j => rank[path[j]] < rank[path[i]]
=============================================================================
