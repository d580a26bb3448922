--------------------------- MODULE AnalysisProofs ---------------------------
(***************************************************************************)
(* Proofs about the order of a plan's steps, for plans of any size, and    *)
(* about who is trusted with what: delegations, access rules, federations, *)
(* families and the table of identities, for any agents, domains and       *)
(* calls; the vote of the models, the gate of the intents and its          *)
(* telemetry; the credentials of a vault, for any number of them and of    *)
(* processes; the migrations of the schema, whoever starts and dies; the   *)
(* conflicts between policy rules, for any tables of them; and the         *)
(* checkers of compensations, for plans of any size and any rules of       *)
(* resources.  The last section brings them together with the guards and   *)
(* the filter of ContentGuardsProofs.                                      *)
(***************************************************************************)
EXTENDS TopologicalSort, Trust, PlanChecks, ContentGuardsProofs

-----------------------------------------------------------------------------
(***************************************************************************)
(* The order of execution.                                                 *)
(***************************************************************************)

\* The part of the invariant that does not speak of ranks.
Bookkeeping == TypeOK /\ VisitedOnce /\ RootsVisited /\ LookedAt /\ NoStepTwice

SortInv == Bookkeeping /\ PathDescends /\ DependenciesPrecede

LEMMA AppendElements ==
    ASSUME NEW S, NEW q \in Seq(S), NEW e \in S
    PROVE  /\ Append(q, e) \in Seq(S)
           /\ Len(Append(q, e)) = Len(q) + 1
           /\ \A i \in 1 .. Len(q) : Append(q, e)[i] = q[i]
           /\ Append(q, e)[Len(q) + 1] = e
           /\ Elements(Append(q, e)) = Elements(q) \cup {e}
<1>1. /\ Append(q, e) \in Seq(S)
      /\ Len(Append(q, e)) = Len(q) + 1
      /\ \A i \in 1 .. Len(q) : Append(q, e)[i] = q[i]
      /\ Append(q, e)[Len(q) + 1] = e
      OBVIOUS
<1>2. Len(q) \in Nat OBVIOUS
<1>3. 1 .. Len(q) + 1 = 1 .. Len(q) \cup {Len(q) + 1} BY <1>2
<1>4. Elements(Append(q, e)) = Elements(q) \cup {e} BY <1>1, <1>3 DEF Elements
<1> QED BY <1>1, <1>4

\* Leaving a visit takes the last element off the path.
LEMMA FrontElements ==
    ASSUME NEW S, NEW q \in Seq(S), q # <<>>
    PROVE  /\ SubSeq(q, 1, Len(q) - 1) \in Seq(S)
           /\ Len(q) \in Nat \ {0} /\ q[Len(q)] \in S
           /\ Len(SubSeq(q, 1, Len(q) - 1)) = Len(q) - 1
           /\ \A i \in 1 .. Len(q) - 1 : SubSeq(q, 1, Len(q) - 1)[i] = q[i]
           /\ Elements(q) = Elements(SubSeq(q, 1, Len(q) - 1)) \cup {q[Len(q)]}
<1>1. Len(q) \in Nat \ {0} OBVIOUS
<1>2. /\ SubSeq(q, 1, Len(q) - 1) \in Seq(S)
      /\ Len(SubSeq(q, 1, Len(q) - 1)) = Len(q) - 1
      /\ \A i \in 1 .. Len(q) - 1 : SubSeq(q, 1, Len(q) - 1)[i] = q[i]
      /\ q[Len(q)] \in S
  <2>1. \A i \in 1 .. Len(q) : q[i] \in S OBVIOUS
  <2>2. 1 \in Int /\ Len(q) - 1 \in Int BY <1>1
  <2>3. \A i \in 1 .. Len(q) - 1 : q[i] \in S BY <1>1, <2>1
  <2>4. /\ SubSeq(q, 1, Len(q) - 1) \in Seq(S)
        /\ Len(SubSeq(q, 1, Len(q) - 1)) = IF 1 <= Len(q) - 1 THEN Len(q) - 1 - 1 + 1 ELSE 0
        /\ \A i \in 1 .. Len(q) - 1 - 1 + 1 : SubSeq(q, 1, Len(q) - 1)[i] = q[1 + i - 1]
        BY <2>2, <2>3, SubSeqProperties
  <2> DEFINE front == SubSeq(q, 1, Len(q) - 1)
  <2> HIDE DEF front
  <2>a. Len(front) = IF 1 <= Len(q) - 1 THEN Len(q) - 1 - 1 + 1 ELSE 0 BY <2>4 DEF front
  <2>5. Len(front) = Len(q) - 1
    <3>1. \A k \in Nat \ {0} : (IF 1 <= k - 1 THEN k - 1 - 1 + 1 ELSE 0) = k - 1 OBVIOUS
    <3> QED BY <1>1, <2>a, <3>1
  <2>6. \A i \in 1 .. Len(q) - 1 : front[i] = q[i]
    <3> TAKE i \in 1 .. Len(q) - 1
    <3>1. i \in 1 .. Len(q) - 1 - 1 + 1 /\ 1 + i - 1 = i BY <1>1
    <3> QED BY <2>4, <3>1 DEF front
  <2> QED BY <1>1, <2>1, <2>4, <2>5, <2>6 DEF front
<1>3. 1 .. Len(q) = 1 .. Len(q) - 1 \cup {Len(q)} BY <1>1
<1>4. Elements(q) = Elements(SubSeq(q, 1, Len(q) - 1)) \cup {q[Len(q)]}
      BY <1>2, <1>3 DEF Elements
<1> QED BY <1>1, <1>2, <1>4

-----------------------------------------------------------------------------
(* Bookkeeping                                                             *)

\* A visit keeps the books, whoever makes it.
LEMMA VisitKeeps ==
    ASSUME Bookkeeping, NEW s \in Steps, Visit(s)
    PROVE  /\ path' \in Seq(Steps) /\ visited' \subseteq Steps
           /\ visited' = visited \cup {s}
           /\ order' = order => VisitedOnce'
<1> USE DEF Bookkeeping, TypeOK, VisitedOnce
<1>1. CASE s \in visited
  <2>1. UNCHANGED <<path, visited>> BY <1>1 DEF Visit
  <2>2. visited = visited \cup {s} BY <1>1
  <2>3. ASSUME order' = order PROVE VisitedOnce'
    <3>1. Elements(path)' = Elements(path) BY <2>1 DEF Elements
    <3>2. Elements(order)' = Elements(order) BY <2>3 DEF Elements
    <3> QED BY <2>1, <2>3, <3>1, <3>2 DEF VisitedOnce
  <2> QED BY <2>1, <2>2, <2>3
<1>2. CASE s \notin visited
  <2>1. path' = Append(path, s) /\ visited' = visited \cup {s} BY <1>2 DEF Visit
  <2>2. /\ path' \in Seq(Steps) /\ Len(path') = Len(path) + 1
        /\ \A i \in 1 .. Len(path) : path'[i] = path[i]
        /\ path'[Len(path) + 1] = s
        /\ Elements(path') = Elements(path) \cup {s}
        BY <2>1, AppendElements
  <2>3. Len(path) \in Nat OBVIOUS
  <2>4. \A i \in 1 .. Len(path) : path[i] # s BY <1>2 DEF Elements
  <2>5. \A i, j \in 1 .. Len(path') : path'[i] = path'[j] => i = j BY <2>2, <2>3, <2>4
  <2>6. Elements(path)' = Elements(path') BY DEF Elements
  <2>7. order' = order => Elements(order)' = Elements(order) BY DEF Elements
  <2>8. order' = order => Elements(path') \cap Elements(order) = {} BY <1>2, <2>2
  <2> QED BY <2>1, <2>2, <2>5, <2>6, <2>7, <2>8
<1> QED BY <1>1, <1>2

LEMMA BookkeepingNext ==
    ASSUME Bookkeeping, Next
    PROVE  Bookkeeping'
<1> USE SortAssumption DEF Bookkeeping
<1>1. CASE VisitNextStep
  <2>0. root \in Steps /\ Visit(root) /\ root' = root + 1 /\ UNCHANGED <<deps, left, order>>
        BY <1>1 DEF VisitNextStep
  <2>1. /\ path' \in Seq(Steps) /\ visited' \subseteq Steps
        /\ visited' = visited \cup {root} /\ VisitedOnce'
        BY <2>0, VisitKeeps
  <2>2. TypeOK' BY <2>0, <2>1 DEF TypeOK, Steps
  <2>3. RootsVisited' BY <2>0, <2>1 DEF RootsVisited, Steps
  <2>4. LookedAt' BY <2>0, <2>1 DEF LookedAt
  <2>5. NoStepTwice' BY <2>0 DEF NoStepTwice
  <2> QED BY <2>1, <2>2, <2>3, <2>4, <2>5
<1>2. ASSUME NEW d \in Steps \cup Unknown, VisitDependency(d) PROVE Bookkeeping'
  <2>0. /\ path # <<>> /\ d \in left[Top] /\ left' = [left EXCEPT ![Top] = left[Top] \ {d}]
        /\ UNCHANGED <<deps, root, order>>
        BY <1>2 DEF VisitDependency
  <2>1. Top \in Steps BY <2>0, FrontElements DEF TypeOK, Top
  <2>2. /\ path' \in Seq(Steps) /\ visited' \subseteq Steps /\ VisitedOnce'
        /\ visited \subseteq visited' /\ (d \in Steps => d \in visited')
    <3>1. CASE d \in Steps
          BY <1>2, <2>0, <3>1, VisitKeeps DEF VisitDependency
    <3>2. CASE d \notin Steps
      <4>1. UNCHANGED <<path, visited>> BY <1>2, <3>2 DEF VisitDependency
      <4>2. VisitedOnce' BY <2>0, <4>1 DEF VisitedOnce, Elements
      <4> QED BY <3>2, <4>1, <4>2 DEF TypeOK
    <3> QED BY <3>1, <3>2
  <2>3. TypeOK' BY <2>0, <2>1, <2>2 DEF TypeOK
  <2>4. RootsVisited' BY <2>0, <2>2 DEF RootsVisited
  <2>5. LookedAt' BY <2>0, <2>1, <2>2 DEF LookedAt, TypeOK
  <2>6. NoStepTwice' BY <2>0 DEF NoStepTwice
  <2> QED BY <2>2, <2>3, <2>4, <2>5, <2>6
<1>3. CASE PushResult
  <2>0. /\ path # <<>> /\ order' = Append(order, Top)
        /\ path' = SubSeq(path, 1, Len(path) - 1)
        /\ UNCHANGED <<deps, root, left, visited>>
        BY <1>3 DEF PushResult
  <2>1. /\ path' \in Seq(Steps) /\ Len(path) \in Nat \ {0} /\ Top \in Steps
        /\ Len(path') = Len(path) - 1
        /\ \A i \in 1 .. Len(path) - 1 : path'[i] = path[i]
        /\ Elements(path) = Elements(path') \cup {Top}
        BY <2>0, FrontElements DEF TypeOK, Top
  <2>2. /\ order' \in Seq(Steps) /\ Len(order') = Len(order) + 1
        /\ \A i \in 1 .. Len(order) : order'[i] = order[i]
        /\ order'[Len(order) + 1] = Top
        /\ Elements(order') = Elements(order) \cup {Top}
        BY <2>0, <2>1, AppendElements DEF TypeOK
  <2>3. Elements(path)' = Elements(path') /\ Elements(order)' = Elements(order') BY DEF Elements
  <2>4. Top \notin Elements(path')
        BY <2>1 DEF VisitedOnce, Elements, Top
  <2>5. Top \notin Elements(order) BY <2>1 DEF VisitedOnce
  <2>6. \A i, j \in 1 .. Len(path') : path'[i] = path'[j] => i = j
        BY <2>1 DEF VisitedOnce
  <2>7. VisitedOnce' BY <2>0, <2>1, <2>2, <2>3, <2>4, <2>5, <2>6 DEF VisitedOnce
  <2>8. NoStepTwice'
    <3>1. Len(order) \in Nat BY DEF TypeOK
    <3>2. \A i \in 1 .. Len(order) : order[i] # Top BY <2>5 DEF Elements
    <3> QED BY <2>2, <3>1, <3>2 DEF NoStepTwice
  <2>9. TypeOK' BY <2>0, <2>1, <2>2 DEF TypeOK
  <2>10. RootsVisited' /\ LookedAt' BY <2>0 DEF RootsVisited, LookedAt
  <2> QED BY <2>7, <2>8, <2>9, <2>10
<1> QED BY <1>1, <1>2, <1>3 DEF Next

-----------------------------------------------------------------------------
(* The order respects the dependencies                                     *)

LEMMA PathDescendsNext ==
    ASSUME Bookkeeping, PathDescends, Next
    PROVE  PathDescends'
<1> USE SortAssumption DEF Bookkeeping
<1>0. deps' = deps BY DEF Next, VisitNextStep, VisitDependency, PushResult
<1> SUFFICES ASSUME NEW rank \in [Steps -> Steps], Ranks(rank),
                    NEW i \in 1 .. Len(path'), NEW j \in 1 .. Len(path'), i < j
             PROVE  rank[path'[j]] < rank[path'[i]]
    BY <1>0 DEF PathDescends, Ranks
<1>1. \A a, b \in 1 .. Len(path) : a < b => rank[path[b]] < rank[path[a]] BY DEF PathDescends
<1>2. path \in Seq(Steps) /\ Len(path) \in Nat BY DEF TypeOK
<1>a. \A s \in Steps : rank[s] \in Nat
  <2>1. Steps \subseteq Nat BY DEF Steps
  <2> QED BY <2>1
<1>3. CASE UNCHANGED path BY <1>1, <1>3
<1>4. CASE VisitNextStep /\ path' # path
  <2>1. path = <<>> /\ root \in Steps /\ path' = Append(path, root)
        BY <1>4 DEF VisitNextStep, Visit
  <2>2. Len(path') = 1 BY <2>1
  <2> QED BY <2>2
<1>5. ASSUME NEW d \in Steps \cup Unknown, VisitDependency(d), path' # path
      PROVE  rank[path'[j]] < rank[path'[i]]
  <2>1. d \in Steps /\ path # <<>> /\ d \in left[Top] /\ path' = Append(path, d)
        BY <1>5 DEF VisitDependency, Visit
  <2>2. /\ Len(path') = Len(path) + 1
        /\ \A a \in 1 .. Len(path) : path'[a] = path[a]
        /\ path'[Len(path) + 1] = d
        BY <1>2, <2>1, AppendElements
  <2>3. Top \in Steps /\ Len(path) \in 1 .. Len(path) BY <1>2, <2>1, FrontElements DEF Top
  <2>4. rank[d] < rank[Top] BY <2>1, <2>3 DEF LookedAt, Ranks
  <2>5. \A a \in 1 .. Len(path) : rank[path[a]] \in Nat /\ (a < Len(path) => rank[Top] < rank[path[a]])
    <3>1. \A a \in 1 .. Len(path) : path[a] \in Steps BY <1>2
    <3> QED BY <1>1, <1>a, <2>3, <3>1 DEF Top
  <2>6. CASE j \in 1 .. Len(path)
    <3>1. i \in 1 .. Len(path) BY <1>2, <2>6
    <3>2. path'[i] = path[i] /\ path'[j] = path[j] BY <2>2, <2>6, <3>1
    <3>3. rank[path[j]] < rank[path[i]] BY <1>1, <2>6, <3>1
    <3> QED BY <3>2, <3>3
  <2>7. CASE j = Len(path) + 1
    <3>1. i \in 1 .. Len(path) BY <1>2, <2>7
    <3>2. path'[i] = path[i] /\ path'[j] = d BY <2>2, <2>7, <3>1
    <3>3. rank[d] \in Nat /\ rank[Top] \in Nat BY <1>a, <2>1, <2>3
    <3>4. i = Len(path) \/ rank[Top] < rank[path[i]] BY <1>2, <2>5, <3>1
    <3>5. i = Len(path) => path[i] = Top BY DEF Top
    <3> QED BY <2>4, <2>5, <3>1, <3>2, <3>3, <3>4, <3>5
  <2> QED BY <1>2, <2>2, <2>6, <2>7
<1>6. CASE PushResult
  <2>1. path # <<>> /\ path' = SubSeq(path, 1, Len(path) - 1) BY <1>6 DEF PushResult
  <2>2. /\ Len(path') = Len(path) - 1
        /\ \A a \in 1 .. Len(path) - 1 : path'[a] = path[a]
        BY <1>2, <2>1, FrontElements
  <2>3. i \in 1 .. Len(path) - 1 /\ j \in 1 .. Len(path) - 1 BY <2>2
  <2>4. i \in 1 .. Len(path) /\ j \in 1 .. Len(path) BY <1>2, <2>3
  <2>5. path'[i] = path[i] /\ path'[j] = path[j] BY <2>2, <2>3
  <2>6. rank[path[j]] < rank[path[i]] BY <1>1, <2>4
  <2> QED BY <2>5, <2>6
<1> QED BY <1>3, <1>4, <1>5, <1>6 DEF Next

\* When a visit ends on an acyclic plan, none of its dependencies is still in
\* progress: they would have to rank above themselves.
LEMMA TopIsReady ==
    ASSUME Bookkeeping, PathDescends, Acyclic, PushResult
    PROVE  deps[Top] \cap Steps \subseteq Elements(order)
<1> USE DEF Bookkeeping
<1>1. PICK rank \in [Steps -> Steps] : Ranks(rank) BY DEF Acyclic
<1>2. path # <<>> /\ left[Top] = {} BY DEF PushResult
<1>3. /\ Top \in Steps /\ Len(path) \in Nat \ {0} /\ path \in Seq(Steps)
      BY <1>2, FrontElements DEF TypeOK, Top
<1> SUFFICES ASSUME NEW d \in deps[Top] \cap Steps PROVE d \notin Elements(path)
    BY <1>2, <1>3 DEF LookedAt, VisitedOnce
<1> SUFFICES ASSUME NEW i \in 1 .. Len(path), path[i] = d PROVE FALSE BY DEF Elements
<1>4. rank[d] < rank[Top] BY <1>1, <1>3 DEF Ranks
<1>5. rank[d] \in Nat /\ rank[Top] \in Nat BY <1>3 DEF Steps
<1>6. i < Len(path) => rank[Top] < rank[d] BY <1>1, <1>3 DEF PathDescends, Top
<1>7. i = Len(path) => d = Top BY DEF Top
<1> QED BY <1>3, <1>4, <1>5, <1>6, <1>7

LEMMA DependenciesPrecedeNext ==
    ASSUME Bookkeeping, PathDescends, DependenciesPrecede, Next
    PROVE  DependenciesPrecede'
<1>0. deps' = deps BY DEF Next, VisitNextStep, VisitDependency, PushResult
<1>1. CASE order' = order
      BY <1>0, <1>1 DEF DependenciesPrecede, Acyclic, Ranks
<1>2. CASE PushResult
  <2> SUFFICES ASSUME Acyclic, NEW i \in 1 .. Len(order')
               PROVE  deps[order'[i]] \cap Steps \subseteq {order'[j] : j \in 1 .. i - 1}
      BY <1>0 DEF DependenciesPrecede, Acyclic, Ranks
  <2>1. order' = Append(order, Top) /\ path # <<>> BY <1>2 DEF PushResult
  <2>2. Top \in Steps /\ order \in Seq(Steps) /\ Len(order) \in Nat
        BY <2>1, FrontElements DEF Bookkeeping, TypeOK, Top
  <2>3. /\ Len(order') = Len(order) + 1
        /\ \A a \in 1 .. Len(order) : order'[a] = order[a]
        /\ order'[Len(order) + 1] = Top
        BY <2>1, <2>2, AppendElements
  <2>4. CASE i \in 1 .. Len(order)
    <3>1. deps[order[i]] \cap Steps \subseteq {order[j] : j \in 1 .. i - 1}
          BY <2>4 DEF DependenciesPrecede
    <3>2. \A j \in 1 .. i - 1 : order'[j] = order[j] BY <2>2, <2>3, <2>4
    <3> QED BY <2>3, <2>4, <3>1, <3>2
  <2>5. CASE i = Len(order) + 1
    <3>1. deps[Top] \cap Steps \subseteq Elements(order) BY <1>2, TopIsReady
    <3>2. i - 1 = Len(order) BY <2>2, <2>5
    <3>3. Elements(order) = {order'[j] : j \in 1 .. i - 1} BY <2>3, <3>2 DEF Elements
    <3> QED BY <2>3, <2>5, <3>1, <3>3
  <2> QED BY <2>2, <2>3, <2>4, <2>5
<1>3. ASSUME ~PushResult PROVE order' = order BY <1>3 DEF Next, VisitNextStep, VisitDependency
<1> QED BY <1>1, <1>2, <1>3

-----------------------------------------------------------------------------
(* The theorems                                                            *)

LEMMA SortInit == Init => SortInv
<1> SUFFICES ASSUME Init PROVE SortInv OBVIOUS
<1> USE SortAssumption
<1>1. Elements(<<>>) = {} BY DEF Elements
<1>2. TypeOK BY DEF Init, TypeOK, Steps
<1>3. VisitedOnce BY <1>1 DEF Init, VisitedOnce
<1>4. RootsVisited /\ LookedAt /\ NoStepTwice
      BY DEF Init, RootsVisited, LookedAt, NoStepTwice
<1>5. PathDescends BY DEF Init, PathDescends
<1>6. DependenciesPrecede BY DEF Init, DependenciesPrecede
<1> QED BY <1>2, <1>3, <1>4, <1>5, <1>6 DEF SortInv, Bookkeeping

LEMMA SortInvNext == SortInv /\ [Next]_vars => SortInv'
<1> SUFFICES ASSUME SortInv, [Next]_vars PROVE SortInv' OBVIOUS
<1>1. CASE Next
      BY <1>1, BookkeepingNext, PathDescendsNext, DependenciesPrecedeNext DEF SortInv
<1>2. CASE UNCHANGED vars
  <2>1. UNCHANGED <<deps, root, path, left, visited, order>> BY <1>2 DEF vars
  <2>2. Bookkeeping'
    <3>1. VisitedOnce' BY <2>1 DEF SortInv, Bookkeeping, VisitedOnce, Elements
    <3>2. NoStepTwice' BY <2>1 DEF SortInv, Bookkeeping, NoStepTwice
    <3> QED BY <2>1, <3>1, <3>2 DEF SortInv, Bookkeeping, TypeOK, RootsVisited, LookedAt
  <2>3. PathDescends' BY <2>1 DEF SortInv, PathDescends, Ranks
  <2>4. DependenciesPrecede' BY <2>1 DEF SortInv, DependenciesPrecede, Acyclic, Ranks
  <2> QED BY <2>2, <2>3, <2>4 DEF SortInv
<1> QED BY <1>1, <1>2

\* No step is executed twice because of the order, for plans of any size and
\* with any dependencies, cyclic or unknown ones included.
THEOREM OrderHasNoDuplicate == Spec => []NoStepTwice
<1>1. SortInv => NoStepTwice BY DEF SortInv, Bookkeeping
<1> QED BY SortInit, SortInvNext, <1>1, PTL DEF Spec

\* The finished order has every step of the plan.
THEOREM OrderIsComplete == Spec => []NoStepLost
<1>1. SortInv => NoStepLost
  <2> SUFFICES ASSUME SortInv, Sorted PROVE Elements(order) = Steps BY DEF NoStepLost
  <2>1. Steps \subseteq visited
        BY SortAssumption DEF SortInv, Bookkeeping, RootsVisited, Sorted, Steps
  <2>2. Elements(path) = {} BY DEF Sorted, Elements
  <2> QED BY <2>1, <2>2 DEF SortInv, Bookkeeping, TypeOK, VisitedOnce
<1> QED BY SortInit, SortInvNext, <1>1, PTL DEF Spec

\* On an acyclic plan of any size, every step comes after its dependencies.
THEOREM OrderRespectsDependencies == Spec => []DependenciesPrecede
<1>1. SortInv => DependenciesPrecede BY DEF SortInv
<1> QED BY SortInit, SortInvNext, <1>1, PTL DEF Spec

\* All that executePlan asks of topologicalSort.
THEOREM OrderAlwaysHolds == Spec => []OrderHolds
BY OrderHasNoDuplicate, OrderIsComplete, OrderRespectsDependencies, PTL DEF OrderHolds

-----------------------------------------------------------------------------
(***************************************************************************)
(* Delegations.  What the manager does not know any more is revoked or has *)
(* lapsed; and each token is within the limit of the one above it, which   *)
(* was issued before it.                                                   *)
(***************************************************************************)

Tokens ==
    [issuer : Delegates, subject : Delegates, flow : DelegationFlows, limit : Nat, depth : Nat,
     above : Nat, expires : Nat]

DelegationTyped ==
    /\ delegationTime \in 0 .. MaxDelegationTime
    /\ delegations \in Seq(Tokens)
    /\ activeTokens \subseteq Issued
    /\ toRevoke \subseteq Issued /\ revokedDelegations \subseteq toRevoke

GoneIsRefused ==
    \A t \in Issued : t \notin activeTokens \/ t \in toRevoke => t \in revokedDelegations \/ Lapsed(t)

UnderIts(ds, t) ==
    ds[t].above # NoToken =>
        /\ ds[t].above \in 1 .. t - 1
        /\ ds[ds[t].above].limit # 0 => ds[t].depth <= ds[ds[t].above].limit

WithinTheParents == \A t \in Issued : UnderIts(delegations, t)

DelegationInv == DelegationTyped /\ GoneIsRefused /\ WithinTheParents

LEMMA DelegationInitially == DelegationInit => DelegationInv
BY DelegationAssumption, EmptySeq
   DEF DelegationInit, DelegationInv, DelegationTyped, GoneIsRefused, WithinTheParents, Issued

LEMMA IssueTokenKeeps ==
    ASSUME DelegationInv, NEW request \in DelegationRequests, NEW parent \in Issued \cup {NoToken},
           IssueDelegationToken(request, parent)
    PROVE  DelegationInv'
<1>1. PICK old, n : old = delegations /\ n = Len(old) /\ n \in Nat
      BY LenProperties DEF DelegationInv, DelegationTyped
<1>2. old \in Seq(Tokens) BY <1>1 DEF DelegationInv, DelegationTyped
<1>3. DOMAIN old = 1 .. n /\ Issued = 1 .. n BY <1>1, <1>2, LenProperties DEF Issued
<1>4. PICK above : above = IF parent \in activeTokens THEN parent ELSE NoToken OBVIOUS
<1>5. PICK e : e = [issuer |-> request.issuer, subject |-> request.subject, flow |-> request.flow,
                    limit |-> request.limit, depth |-> DepthUnder(parent), above |-> above,
                    expires |-> delegationTime + 2 * request.seconds]
      OBVIOUS
<1>6. PICK new : new = delegations' OBVIOUS
<1>7. /\ WithinLimit(parent) /\ new = Append(old, e)
      /\ activeTokens' = activeTokens \cup {n + 1}
      /\ UNCHANGED <<delegationTime, revokedDelegations, toRevoke>>
      BY <1>1, <1>4, <1>5, <1>6 DEF IssueDelegationToken
<1>8. parent \in activeTokens => parent \in 1 .. n /\ old[parent] \in Tokens
  <2>1. activeTokens \subseteq 1 .. n BY <1>3 DEF DelegationInv, DelegationTyped
  <2> QED BY <1>1, <1>2, <2>1, ElementOfSeq
<1>9. DepthUnder(parent) \in Nat BY <1>1, <1>8 DEF DepthUnder, Tokens
<1>10. above \in Nat BY <1>4, <1>8 DEF NoToken
<1>11. e \in Tokens /\ e.above = above /\ e.depth = DepthUnder(parent)
  <2>1. delegationTime \in Nat BY DelegationAssumption DEF DelegationInv, DelegationTyped
  <2>2. request.seconds \in Nat /\ request.limit \in Nat /\ request.issuer \in Delegates
        /\ request.subject \in Delegates /\ request.flow \in DelegationFlows
        BY DelegationAssumption
  <2>3. delegationTime + 2 * request.seconds \in Nat BY <2>1, <2>2
  <2> QED BY <1>5, <1>9, <1>10, <2>2, <2>3 DEF Tokens
<1>12. /\ new \in Seq(Tokens) /\ Len(new) = n + 1 /\ new[n + 1] = e
       /\ \A t \in 1 .. n : new[t] = old[t]
       BY <1>1, <1>2, <1>7, <1>11, AppendProperties
<1>13. Issued' = (1 .. n) \cup {n + 1}
       BY <1>1, <1>6, <1>12, LenProperties DEF Issued
<1>14. DelegationTyped' BY <1>3, <1>6, <1>7, <1>12, <1>13 DEF DelegationInv, DelegationTyped
<1>15. \A t \in 1 .. n : Lapsed(t)' <=> Lapsed(t) BY <1>1, <1>6, <1>7, <1>12 DEF Lapsed
<1>16. GoneIsRefused'
  <2>1. n + 1 \notin toRevoke BY <1>1, <1>3 DEF DelegationInv, DelegationTyped
  <2> QED BY <1>3, <1>7, <1>13, <1>15, <2>1 DEF DelegationInv, GoneIsRefused
<1>17. UnderIts(new, n + 1)
  <2> SUFFICES ASSUME above # NoToken
               PROVE  above \in 1 .. (n + 1) - 1
                      /\ (new[above].limit # 0 => e.depth <= new[above].limit)
      BY <1>11, <1>12 DEF UnderIts
  <2>1. parent \in activeTokens /\ above = parent BY <1>4
  <2>2. new[parent] = old[parent] BY <1>8, <1>12, <2>1
  <2>3. old[parent].limit # 0 => DepthUnder(parent) <= old[parent].limit
        BY <1>1, <1>7, <2>1 DEF WithinLimit
  <2> QED BY <1>1, <1>8, <1>11, <2>1, <2>2, <2>3
<1>18. ASSUME NEW t \in 1 .. n PROVE UnderIts(new, t)
  <2>1. UnderIts(old, t) BY <1>1, <1>3 DEF DelegationInv, WithinTheParents
  <2>2. new[t] = old[t] BY <1>12
  <2>3. ASSUME old[t].above \in 1 .. t - 1 PROVE new[old[t].above] = old[old[t].above]
    <3>1. old[t].above \in 1 .. n BY <1>1, <2>3
    <3> QED BY <1>12, <3>1
  <2> QED BY <2>1, <2>2, <2>3 DEF UnderIts
<1>19. WithinTheParents' BY <1>6, <1>13, <1>17, <1>18 DEF WithinTheParents
<1> QED BY <1>14, <1>16, <1>19 DEF DelegationInv

\* What is asked to be revoked is, if it is active; if not, it was or has lapsed.
LEMMA RevokeActiveKeeps ==
    ASSUME DelegationInv, NEW tokens, NEW asked \in SUBSET Issued, RevokeActive(tokens),
           tokens = asked \cap activeTokens, toRevoke' = toRevoke \cup asked
    PROVE  DelegationInv'
<1>1. /\ revokedDelegations' = revokedDelegations \cup tokens
      /\ activeTokens' = activeTokens \ tokens
      /\ UNCHANGED <<delegationTime, delegations>>
      BY DEF RevokeActive
<1>2. Issued' = Issued BY <1>1 DEF Issued
<1>3. DelegationTyped' BY <1>1, <1>2 DEF DelegationInv, DelegationTyped
<1>4. \A t : Lapsed(t)' <=> Lapsed(t) BY <1>1 DEF Lapsed
<1>5. GoneIsRefused' BY <1>1, <1>2, <1>4 DEF DelegationInv, GoneIsRefused
<1>6. WithinTheParents' BY <1>1, <1>2 DEF DelegationInv, WithinTheParents
<1> QED BY <1>3, <1>5, <1>6 DEF DelegationInv

LEMMA RevokesKeep ==
    ASSUME DelegationInv,
           \/ \E t \in Issued : RevokeDelegation(t)
           \/ \E a \in Delegates : RevokeAllTokensForAgent(a)
           \/ \E f \in DelegationFlows : RevokeWorkflowTokens(f)
    PROVE  DelegationInv'
<1>0. activeTokens \subseteq Issued BY DEF DelegationInv, DelegationTyped
<1>1. ASSUME NEW t \in Issued, RevokeDelegation(t) PROVE DelegationInv'
  <2>1. RevokeActive({t} \cap activeTokens) /\ toRevoke' = toRevoke \cup {t}
        BY <1>1 DEF RevokeDelegation
  <2> QED BY <2>1, RevokeActiveKeeps
<1>2. ASSUME NEW a \in Delegates, RevokeAllTokensForAgent(a) PROVE DelegationInv'
  <2>1. PICK asked : asked = {t \in Issued : delegations[t].subject = a}
                             \cup {t \in Issued : delegations[t].issuer = a}
        OBVIOUS
  <2>2. RevokeActive(TokensOfAgent(a)) /\ toRevoke' = toRevoke \cup asked
        BY <1>2, <2>1 DEF RevokeAllTokensForAgent
  <2>3. TokensOfAgent(a) = asked \cap activeTokens BY <1>0, <2>1 DEF TokensOfAgent
  <2>4. asked \in SUBSET Issued BY <2>1
  <2> QED BY <2>2, <2>3, <2>4, RevokeActiveKeeps
<1>3. ASSUME NEW f \in DelegationFlows, RevokeWorkflowTokens(f) PROVE DelegationInv'
  <2>1. PICK asked : asked = {t \in Issued : delegations[t].flow = f} OBVIOUS
  <2>2. RevokeActive(TokensOfFlow(f)) /\ toRevoke' = toRevoke \cup asked
        BY <1>3, <2>1 DEF RevokeWorkflowTokens
  <2>3. TokensOfFlow(f) = asked \cap activeTokens BY <1>0, <2>1 DEF TokensOfFlow
  <2>4. asked \in SUBSET Issued BY <2>1
  <2> QED BY <2>2, <2>3, <2>4, RevokeActiveKeeps
<1> QED BY <1>1, <1>2, <1>3

LEMMA ForgetKeeps ==
    ASSUME DelegationInv, ForgetExpiredDelegations
    PROVE  DelegationInv'
<1>1. /\ activeTokens' = {t \in activeTokens : ~Lapsed(t)}
      /\ UNCHANGED <<delegationTime, delegations, revokedDelegations, toRevoke>>
      BY DEF ForgetExpiredDelegations
<1>2. Issued' = Issued /\ \A t : Lapsed(t)' <=> Lapsed(t) BY <1>1 DEF Issued, Lapsed
<1>3. DelegationTyped' BY <1>1, <1>2 DEF DelegationInv, DelegationTyped
<1>4. GoneIsRefused' BY <1>1, <1>2 DEF DelegationInv, GoneIsRefused
<1>5. WithinTheParents' BY <1>1, <1>2 DEF DelegationInv, WithinTheParents
<1> QED BY <1>3, <1>4, <1>5 DEF DelegationInv

\* What has lapsed stays so.
LEMMA DelegationTickKeeps ==
    ASSUME DelegationInv, DelegationTick
    PROVE  DelegationInv'
<1>1. /\ delegationTime < MaxDelegationTime /\ delegationTime' = delegationTime + 1
      /\ UNCHANGED <<delegations, activeTokens, revokedDelegations, toRevoke>>
      BY DEF DelegationTick
<1>2. Issued' = Issued BY <1>1 DEF Issued
<1>3. delegationTime \in Nat BY DelegationAssumption DEF DelegationInv, DelegationTyped
<1>4. delegationTime' \in 0 .. MaxDelegationTime BY <1>1, <1>3, DelegationAssumption
<1>5. DelegationTyped' BY <1>1, <1>2, <1>4 DEF DelegationInv, DelegationTyped
<1>6. ASSUME NEW t \in Issued, Lapsed(t) PROVE Lapsed(t)'
  <2>1. delegations[t] \in Tokens BY DEF DelegationInv, DelegationTyped, Issued
  <2>2. delegations[t].expires \in Nat BY <2>1 DEF Tokens
  <2> QED BY <1>1, <1>3, <1>6, <2>2 DEF Lapsed
<1>7. GoneIsRefused' BY <1>1, <1>2, <1>6 DEF DelegationInv, GoneIsRefused
<1>8. WithinTheParents' BY <1>1, <1>2 DEF DelegationInv, WithinTheParents
<1> QED BY <1>5, <1>7, <1>8 DEF DelegationInv

LEMMA DelegationStep == DelegationInv /\ [DelegationNext]_delegationVars => DelegationInv'
<1> SUFFICES ASSUME DelegationInv, [DelegationNext]_delegationVars PROVE DelegationInv' OBVIOUS
<1>1. CASE UNCHANGED delegationVars
      BY <1>1 DEF delegationVars, DelegationInv, DelegationTyped, GoneIsRefused, WithinTheParents,
                  Issued, Lapsed
<1>2. CASE DelegationNext
      BY <1>2, IssueTokenKeeps, RevokesKeep, ForgetKeeps, DelegationTickKeeps DEF DelegationNext
<1> QED BY <1>1, <1>2

LEMMA DelegationAlways == DelegationSpec => []DelegationInv
BY DelegationInitially, DelegationStep, PTL DEF DelegationSpec

LEMMA HalvesAreOrdered == \A i, j \in Nat : i <= j => i \div 2 <= j \div 2
OBVIOUS

LEMMA DelegationFollows == DelegationInv => DelegationTypeOK /\ DelegationsHold
<1> SUFFICES ASSUME DelegationInv PROVE DelegationTypeOK /\ DelegationsHold OBVIOUS
<1>1. DelegationTypeOK BY DEF DelegationInv, DelegationTyped, DelegationTypeOK
<1>2. RevokedIsRefused
      BY DEF DelegationInv, DelegationTyped, GoneIsRefused, RevokedIsRefused, Verifies
<1>3. UnrevokedHolds
  <2> SUFFICES ASSUME NEW t \in Issued \ toRevoke, ~Lapsed(t) PROVE Verifies(t) /\ t \in activeTokens
      BY DEF UnrevokedHolds
  <2>1. t \notin revokedDelegations /\ t \in activeTokens
        BY DEF DelegationInv, DelegationTyped, GoneIsRefused
  <2>2. delegations[t] \in Tokens BY DEF DelegationInv, DelegationTyped, Issued
  <2>3. PICK e \in Nat : e = delegations[t].expires BY <2>2 DEF Tokens
  <2>4. PICK now \in Nat : now = delegationTime
        BY DelegationAssumption DEF DelegationInv, DelegationTyped
  <2>5. now <= e BY <2>3, <2>4 DEF Lapsed
  <2>6. now \div 2 <= e \div 2 BY <2>5, HalvesAreOrdered
  <2>7. now \div 2 \in Int /\ e \div 2 \in Int OBVIOUS
  <2>8. ~(e \div 2 < now \div 2) BY <2>6, <2>7
  <2> QED BY <2>1, <2>3, <2>4, <2>8 DEF Verifies
<1>4. LimitIsHandedDown
  <2> SUFFICES ASSUME NEW t \in Issued, NEW second, NEW first, second = delegations[t].above,
                      first = (IF second = NoToken THEN NoToken ELSE delegations[second].above),
                      first # NoToken, delegations[second].limit \in 1 .. delegations[first].limit
               PROVE  delegations[t].depth <= delegations[first].limit
      BY DEF LimitIsHandedDown
  <2>1. second # NoToken OBVIOUS
  <2>2. second \in 1 .. t - 1 /\ (delegations[second].limit # 0 =>
            delegations[t].depth <= delegations[second].limit)
        BY <2>1 DEF DelegationInv, WithinTheParents, UnderIts
  <2>3. \A u \in Issued : delegations[u] \in Tokens /\ u \in Nat
        BY DEF DelegationInv, DelegationTyped, Issued
  <2>4. second \in Issued
    <3>1. Issued = 1 .. Len(delegations) /\ Len(delegations) \in Nat
          BY LenProperties DEF DelegationInv, DelegationTyped, Issued
    <3> QED BY <2>2, <3>1
  <2>5. first \in 1 .. second - 1
        BY <2>1, <2>4 DEF DelegationInv, WithinTheParents, UnderIts
  <2>6. first \in Issued
    <3>1. Issued = 1 .. Len(delegations) /\ Len(delegations) \in Nat
          BY LenProperties DEF DelegationInv, DelegationTyped, Issued
    <3> QED BY <2>4, <2>5, <3>1
  <2>7. /\ delegations[t].depth \in Nat /\ delegations[second].limit \in Nat
        /\ delegations[first].limit \in Nat
        BY <2>3, <2>4, <2>6 DEF Tokens
  <2> QED BY <2>2, <2>7
<1> QED BY <1>1, <1>2, <1>3, <1>4 DEF DelegationsHold

\* However tokens are issued below others, revoked and forgotten (DelegationTokenManager): one
\* that was revoked, or lies below one that was, is refused; one that was not holds until its
\* end; and the limit of a token is handed down.
THEOREM DelegationsAlwaysHold == DelegationSpec => []DelegationsHold
<1>1. DelegationInv => DelegationsHold BY DelegationFollows
<1> QED BY <1>1, DelegationAlways, PTL

-----------------------------------------------------------------------------
(***************************************************************************)
(* Federation.  Where nothing is federated there is no relationship and no *)
(* handle; and every timer that ticks is the one whose handle its domain   *)
(* holds.                                                                  *)
(***************************************************************************)

FederationTyped ==
    /\ localBundle \in Bundles /\ timersSet \in 0 .. MaxTimers
    /\ federatedDomains \in [RemoteDomains -> Bundles \cup {NoBundle}]
    /\ relationships = [d \in RemoteDomains |-> relationships[d]]
    /\ syncIntervals = [d \in RemoteDomains |-> syncIntervals[d]]

FederatedAlike ==
    /\ federatedWith = {d \in RemoteDomains : federatedDomains[d] # NoBundle}
    /\ \A d \in RemoteDomains \ federatedWith : relationships[d] = NoRelationship
    /\ \A d \in RemoteDomains : HashMatches(federatedDomains[d])

HeldBy(timer, d) == d \in federatedWith /\ timer = <<syncIntervals[d], d>>
TimersHeld == \A timer \in ticking : \E d \in RemoteDomains : HeldBy(timer, d)

FederationInv == FederationTyped /\ FederatedAlike /\ TimersHeld

LEMMA NoBundleIsNone == NoBundle \notin Bundles /\ HashMatches(NoBundle)
BY FederationAssumption DEF NoBundle, HashMatches

LEMMA FederationInitially == FederationInit => FederationInv
<1> SUFFICES ASSUME FederationInit PROVE FederationInv OBVIOUS
<1> USE FederationAssumption
<1>1. FederationTyped BY DEF FederationInit, FederationTyped
<1>2. FederatedAlike BY NoBundleIsNone DEF FederationInit, FederatedAlike
<1>3. TimersHeld BY DEF FederationInit, TimersHeld
<1> QED BY <1>1, <1>2, <1>3 DEF FederationInv

\* A domain that is federated once more stops the timer whose handle it loses.
LEMMA FederateKeeps ==
    ASSUME FederationInv, NEW d \in RemoteDomains, NEW bundle \in Bundles, NEW options,
           FederateWith(d, bundle, options)
    PROVE  FederationInv'
<1> USE FederationAssumption DEF FederationInv, FederationTyped
<1>1. /\ HashMatches(bundle)
      /\ federatedDomains' = [federatedDomains EXCEPT ![d] = bundle]
      /\ federatedWith' = federatedWith \cup {d}
      /\ UNCHANGED localBundle
      BY DEF FederateWith
<1>2. PICK r : relationships' = [relationships EXCEPT ![d] = r] BY DEF FederateWith
<1>3. /\ federatedDomains' \in [RemoteDomains -> Bundles \cup {NoBundle}]
      /\ federatedDomains'[d] = bundle
      /\ \A e \in RemoteDomains \ {d} : federatedDomains'[e] = federatedDomains[e]
      BY <1>1
<1>4. /\ relationships' = [e \in RemoteDomains |-> relationships'[e]]
      /\ \A e \in RemoteDomains \ {d} : relationships'[e] = relationships[e]
      BY <1>2
<1>5. bundle # NoBundle BY NoBundleIsNone
<1>6. FederatedAlike'
  <2>1. federatedWith' = {e \in RemoteDomains : federatedDomains'[e] # NoBundle}
        BY <1>1, <1>3, <1>5 DEF FederatedAlike
  <2>2. \A e \in RemoteDomains \ federatedWith' : relationships'[e] = NoRelationship
        BY <1>1, <1>4 DEF FederatedAlike
  <2>3. \A e \in RemoteDomains : HashMatches(federatedDomains'[e])
        BY <1>1, <1>3 DEF FederatedAlike
  <2> QED BY <2>1, <2>2, <2>3 DEF FederatedAlike, HashMatches
<1>7. CASE UNCHANGED <<syncIntervals, ticking, timersSet>>
  <2>1. FederationTyped' BY <1>1, <1>3, <1>4, <1>7
  <2>2. TimersHeld' BY <1>1, <1>7 DEF TimersHeld, HeldBy
  <2> QED BY <1>6, <2>1, <2>2
<1>8. CASE StartAutoSync(d)
  <2>1. /\ timersSet < MaxTimers /\ timersSet' = timersSet + 1
        /\ syncIntervals' = [syncIntervals EXCEPT ![d] = timersSet + 1]
        /\ ticking' = (ticking \ {<<syncIntervals[d], d>>}) \cup {<<timersSet + 1, d>>}
        BY <1>8 DEF StartAutoSync, WithoutTimer
  <2>2. /\ syncIntervals' = [e \in RemoteDomains |-> syncIntervals'[e]]
        /\ syncIntervals'[d] = timersSet + 1
        /\ \A e \in RemoteDomains \ {d} : syncIntervals'[e] = syncIntervals[e]
        BY <2>1
  <2>3. FederationTyped' BY <1>1, <1>3, <1>4, <2>1, <2>2
  <2>4. ASSUME NEW timer \in ticking' PROVE \E e \in RemoteDomains : HeldBy(timer, e)'
    <3>1. CASE timer = <<timersSet + 1, d>> BY <3>1, <1>1, <2>2 DEF HeldBy
    <3>2. CASE timer # <<timersSet + 1, d>>
      <4>1. timer \in ticking /\ timer # <<syncIntervals[d], d>> BY <2>1, <2>4, <3>2
      <4>2. PICK e \in RemoteDomains : HeldBy(timer, e) BY <4>1 DEF TimersHeld
      <4>3. e # d BY <4>1, <4>2 DEF HeldBy
      <4> QED BY <1>1, <2>2, <4>2, <4>3 DEF HeldBy
    <3> QED BY <3>1, <3>2
  <2> QED BY <1>6, <2>3, <2>4 DEF TimersHeld
<1> QED BY <1>7, <1>8 DEF FederateWith

LEMMA SyncKeeps ==
    ASSUME FederationInv, NEW d \in RemoteDomains, SyncTrustBundle(d)
    PROVE  FederationInv'
<1>1. /\ relationships[d].endpoint
      /\ relationships' = [relationships EXCEPT ![d].synced = TRUE]
      /\ UNCHANGED <<localBundle, federatedDomains, federatedWith, syncIntervals, ticking, timersSet>>
      BY DEF SyncTrustBundle
<1>2. d \in federatedWith
      BY <1>1 DEF FederationInv, FederatedAlike, NoRelationship
<1>3. /\ relationships' = [e \in RemoteDomains |-> relationships'[e]]
      /\ \A e \in RemoteDomains \ {d} : relationships'[e] = relationships[e]
      BY <1>1 DEF FederationInv, FederationTyped
<1>4. FederationTyped' BY <1>1, <1>3 DEF FederationInv, FederationTyped
<1>5. FederatedAlike' BY <1>1, <1>2, <1>3 DEF FederationInv, FederatedAlike, HashMatches
<1>6. TimersHeld' BY <1>1 DEF FederationInv, TimersHeld, HeldBy
<1> QED BY <1>4, <1>5, <1>6 DEF FederationInv

LEMMA UnfederateKeeps ==
    ASSUME FederationInv, NEW d \in RemoteDomains, Unfederate(d)
    PROVE  FederationInv'
<1> USE DEF FederationInv, FederationTyped
<1>1. /\ ticking' = ticking \ {<<syncIntervals[d], d>>}
      /\ syncIntervals' = [syncIntervals EXCEPT ![d] = NoTimer]
      /\ federatedDomains' = [federatedDomains EXCEPT ![d] = NoBundle]
      /\ relationships' = [relationships EXCEPT ![d] = NoRelationship]
      /\ federatedWith' = federatedWith \ {d}
      /\ UNCHANGED <<localBundle, timersSet>>
      BY DEF Unfederate, WithoutTimer
<1>2. FederationTyped' BY <1>1
<1>3. /\ federatedDomains'[d] = NoBundle /\ relationships'[d] = NoRelationship
      /\ \A e \in RemoteDomains \ {d} : /\ federatedDomains'[e] = federatedDomains[e]
                                        /\ relationships'[e] = relationships[e]
                                        /\ syncIntervals'[e] = syncIntervals[e]
      BY <1>1
<1>4. FederatedAlike'
  <2>1. federatedWith' = {e \in RemoteDomains : federatedDomains'[e] # NoBundle}
        BY <1>1, <1>3 DEF FederatedAlike
  <2>2. \A e \in RemoteDomains \ federatedWith' : relationships'[e] = NoRelationship
        BY <1>1, <1>3 DEF FederatedAlike
  <2>3. \A e \in RemoteDomains : HashMatches(federatedDomains'[e])
        BY <1>3, NoBundleIsNone DEF FederatedAlike
  <2> QED BY <2>1, <2>2, <2>3 DEF FederatedAlike, HashMatches
<1>5. ASSUME NEW timer \in ticking' PROVE \E e \in RemoteDomains : HeldBy(timer, e)'
  <2>1. timer \in ticking /\ timer # <<syncIntervals[d], d>> BY <1>1, <1>5
  <2>2. PICK e \in RemoteDomains : HeldBy(timer, e) BY <2>1 DEF TimersHeld
  <2>3. e # d BY <2>1, <2>2 DEF HeldBy
  <2> QED BY <1>1, <1>3, <2>2, <2>3 DEF HeldBy
<1> QED BY <1>2, <1>4, <1>5 DEF TimersHeld

LEMMA UpdateBundleKeeps ==
    ASSUME FederationInv, NEW bundle \in Bundles, UpdateLocalTrustBundle(bundle)
    PROVE  FederationInv'
BY DEF FederationInv, FederationTyped, FederatedAlike, TimersHeld, HeldBy, UpdateLocalTrustBundle,
       HashMatches

\* Every timer that ticks is stopped, as its handle is held.
LEMMA StopTimersKeeps ==
    ASSUME FederationInv, StopTimers
    PROVE  FederationInv'
<1>1. /\ ticking' = ticking \ {<<syncIntervals[d], d>> : d \in RemoteDomains}
      /\ syncIntervals' = [d \in RemoteDomains |-> NoTimer]
      /\ UNCHANGED <<localBundle, federatedDomains, relationships, federatedWith, timersSet>>
      BY DEF StopTimers
<1>2. ticking' = {} BY <1>1 DEF FederationInv, TimersHeld, HeldBy
<1>3. FederationTyped' BY <1>1 DEF FederationInv, FederationTyped
<1>4. FederatedAlike' BY <1>1 DEF FederationInv, FederatedAlike, HashMatches
<1>5. TimersHeld' BY <1>2 DEF TimersHeld
<1> QED BY <1>3, <1>4, <1>5 DEF FederationInv

LEMMA FederationStep == FederationInv /\ [FederationNext]_federationVars => FederationInv'
<1> SUFFICES ASSUME FederationInv, [FederationNext]_federationVars PROVE FederationInv' OBVIOUS
<1>1. CASE UNCHANGED federationVars
      BY <1>1 DEF federationVars, FederationInv, FederationTyped, FederatedAlike, TimersHeld, HeldBy,
                  HashMatches
<1>2. CASE FederationNext
  <2>1. CASE \E d \in RemoteDomains, bundle \in Bundles, options \in FederationOptions :
                 FederateWith(d, bundle, options)
        BY <2>1, FederateKeeps
  <2>2. CASE \E d \in RemoteDomains : SyncTrustBundle(d) BY <2>2, SyncKeeps
  <2>3. CASE \E d \in RemoteDomains : Unfederate(d) BY <2>3, UnfederateKeeps
  <2>4. CASE \E timer \in ticking : TimerSyncs(timer)
    <3>1. PICK timer \in ticking : SyncTrustBundle(timer[2]) BY <2>4 DEF TimerSyncs
    <3>2. timer[2] \in RemoteDomains BY DEF FederationInv, TimersHeld, HeldBy
    <3> QED BY <3>1, <3>2, SyncKeeps
  <2>5. CASE \E bundle \in Bundles : UpdateLocalTrustBundle(bundle) BY <2>5, UpdateBundleKeeps
  <2>6. CASE StopTimers BY <2>6, StopTimersKeeps
  <2> QED BY <1>2, <2>1, <2>2, <2>3, <2>4, <2>5, <2>6 DEF FederationNext
<1> QED BY <1>1, <1>2

LEMMA FederationAlways == FederationSpec => []FederationInv
BY FederationInitially, FederationStep, PTL DEF FederationSpec

LEMMA FederationFollows == FederationInv => FederationTypeOK /\ TablesAgree /\ TimersAreHeld
<1> SUFFICES ASSUME FederationInv PROVE FederationTypeOK /\ TablesAgree /\ TimersAreHeld OBVIOUS
<1>1. FederationTypeOK BY DEF FederationInv, FederationTyped, FederationTypeOK
<1>2. ASSUME NEW d \in RemoteDomains \ {LocalDomain}, NEW name, Accepts(d, name)
      PROVE  d \in federatedWith /\ HashMatches(federatedDomains[d])
      BY <1>2 DEF Accepts, FederationInv, FederatedAlike
<1>3. TablesAgree BY <1>2 DEF FederationInv, FederatedAlike, TablesAgree
<1>4. TimersAreHeld BY DEF FederationInv, TimersHeld, HeldBy, TimersAreHeld
<1> QED BY <1>1, <1>3, <1>4

\* In whatever order domains are federated, synced, updated and left (TrustDomainFederation): the
\* three tables name the same ones, no identity is accepted after its domain has left, and no
\* timer outlives the federation that it serves.
THEOREM FederationAlwaysHolds == FederationSpec => [](TablesAgree /\ TimersAreHeld)
<1>1. FederationInv => TablesAgree /\ TimersAreHeld BY FederationFollows
<1> QED BY <1>1, FederationAlways, PTL

-----------------------------------------------------------------------------
(***************************************************************************)
(* The table of identities.  What a call has read of a row still says what *)
(* the history and the columns that never change say; the history names no *)
(* row that is not there.                                                  *)
(***************************************************************************)

RowStatuses == {"active", "suspended"}
CapabilityLists == SentCapabilities \cup (AgentRoles \X TrustLevels)
IdentityRows ==
    [role : AgentRoles, trust : TrustLevels, capabilities : CapabilityLists,
     serial : Nat, status : RowStatuses]

Rotating == {"read", "updated", "recorded"}
RotationCalls == [at : Rotating, agent : Agents, old : Nat, new : Nat]
TrustCalls ==
    [at : {"trust"}, agent : Agents, trust : TrustLevels, capabilities : AgentRoles \X TrustLevels]
HistoryRecords == [agent : Agents, old : Nat, new : Nat]

\* A record of what was last set is its four fields.
Columns(l) ==
    [trust |-> l.trust, serial |-> l.serial, capabilities |-> l.capabilities, derived |-> l.derived]

RegistryTyped ==
    /\ identities \in [Agents -> IdentityRows \cup {Unregistered}]
    /\ rotationHistory \in Seq(HistoryRecords)
    /\ regCall \in [RegistryCalls -> RotationCalls \cup TrustCalls \cup {NoCall}]
    /\ rotations \in 0 .. MaxRotations
    /\ lastSet = [a \in Agents |-> lastSet[a]]
    /\ \A a \in Agents : lastSet[a] = Columns(lastSet[a])

Registered(a) == identities[a] # Unregistered

\* Serials that the row of an agent has had.
Had(a, serial) == serial = 0 \/ \E k \in RecordsOf(a) : rotationHistory[k].new = serial

ReadIsOfTheRow(c) ==
    regCall[c] # NoCall =>
        /\ Registered(regCall[c].agent)
        /\ regCall[c].at # "trust" => Had(regCall[c].agent, regCall[c].old)
        /\ regCall[c].at = "trust" =>
              regCall[c].capabilities
                  = DefaultCapabilities(identities[regCall[c].agent].role, regCall[c].trust)

ReadsAreOfRows == \A c \in RegistryCalls : ReadIsOfTheRow(c)
NoneIsRecorded == \A a \in Agents : ~Registered(a) => RecordsOf(a) = {}

RegistryInv ==
    RegistryTyped /\ ReadsAreOfRows /\ NoneIsRecorded /\ NoLostColumns /\ HistoryAccountsForSerials

LEMMA UnregisteredIsNone ==
    /\ Unregistered \notin IdentityRows
    /\ NoCall.at = "idle" /\ NoCall \notin RotationCalls \cup TrustCalls
<1>1. Unregistered.serial \notin Nat BY DEF Unregistered
<1>2. Unregistered \notin IdentityRows BY <1>1 DEF IdentityRows
<1>3. NoCall.at = "idle" BY DEF NoCall
<1>4. NoCall \notin RotationCalls \cup TrustCalls BY <1>3 DEF RotationCalls, TrustCalls, Rotating
<1> QED BY <1>2, <1>3, <1>4

LEMMA RegistryInitially == RegistryDbInit => RegistryInv
<1> SUFFICES ASSUME RegistryDbInit PROVE RegistryInv OBVIOUS
<1>1. RegistryTyped
  <2>1. rotationHistory \in Seq(HistoryRecords) BY EmptySeq DEF RegistryDbInit
  <2> QED BY <2>1, RegistryDbAssumption DEF RegistryDbInit, RegistryTyped, Columns
<1>2. \A a \in Agents : ~Registered(a) BY DEF RegistryDbInit, Registered
<1>3. \A a \in Agents : RecordsOf(a) = {} BY DEF RegistryDbInit, RecordsOf
<1>4. ReadsAreOfRows BY DEF RegistryDbInit, ReadsAreOfRows, ReadIsOfTheRow
<1> QED BY <1>1, <1>2, <1>3, <1>4
        DEF RegistryInv, NoneIsRecorded, NoLostColumns, HistoryAccountsForSerials, Registered

\* A step that leaves the history, and of each row its being there, its role and its serial.
LEMMA HistoryKept ==
    ASSUME RegistryInv, UNCHANGED rotationHistory,
           \A a \in Agents : /\ Registered(a) <=> Registered(a)'
                             /\ Registered(a) => identities'[a].serial = identities[a].serial
    PROVE  HistoryAccountsForSerials' /\ NoneIsRecorded'
<1>1. \A a : RecordsOf(a)' = RecordsOf(a) BY DEF RecordsOf
<1>2. NoneIsRecorded' BY <1>1 DEF RegistryInv, NoneIsRecorded
<1>3. HistoryAccountsForSerials'
  <2> SUFFICES ASSUME NEW a \in Agents, Registered(a)'
               PROVE  /\ \/ RecordsOf(a)' = {} /\ identities'[a].serial = 0
                         \/ \E k \in RecordsOf(a)' : /\ LastRecord(k, a)'
                                                     /\ identities'[a].serial = rotationHistory'[k].new
                      /\ \A k \in RecordsOf(a)' :
                            \/ rotationHistory'[k].old = 0
                            \/ \E j \in RecordsOf(a)' : j < k /\ rotationHistory'[j].new = rotationHistory'[k].old
      BY DEF HistoryAccountsForSerials, Registered
  <2>1. Registered(a) /\ identities'[a].serial = identities[a].serial OBVIOUS
  <2>2. \A k : LastRecord(k, a)' <=> LastRecord(k, a) BY <1>1 DEF LastRecord
  <2> QED BY <1>1, <2>1, <2>2 DEF RegistryInv, HistoryAccountsForSerials, Registered
<1> QED BY <1>2, <1>3

LEMMA RegisterKeepsTable ==
    ASSUME RegistryInv, NEW a \in Agents, NEW role \in AgentRoles, NEW trust \in TrustLevels,
           NEW status \in RowStatuses, NEW sent \in SentCapabilities,
           RegisterIdentity(a, role, trust, status, sent)
    PROVE  RegistryInv'
<1>1. PICK row : row = [role |-> role, trust |-> trust, serial |-> 0, status |-> status,
                        capabilities |-> sent]
      OBVIOUS
<1> DEFINE first == [trust |-> trust, serial |-> 0, capabilities |-> sent, derived |-> FALSE]
<1>2. /\ identities[a] = Unregistered
      /\ identities' = [identities EXCEPT ![a] = row]
      /\ lastSet' = [lastSet EXCEPT ![a] = first]
      /\ UNCHANGED <<rotationHistory, regCall, rotations>>
      BY <1>1 DEF RegisterIdentity
<1>3. row \in IdentityRows BY <1>1 DEF IdentityRows, CapabilityLists
<1>4. /\ identities' \in [Agents -> IdentityRows \cup {Unregistered}] /\ identities'[a] = row
      /\ \A b \in Agents \ {a} : identities'[b] = identities[b]
      BY <1>2, <1>3 DEF RegistryInv, RegistryTyped
<1>5. /\ lastSet'[a] = first
      /\ \A b \in Agents \ {a} : lastSet'[b] = lastSet[b]
      /\ lastSet' = [b \in Agents |-> lastSet'[b]]
      BY <1>2 DEF RegistryInv, RegistryTyped
<1>6. Registered(a)' /\ ~Registered(a) BY <1>2, <1>3, <1>4, UnregisteredIsNone DEF Registered
<1>7. \A b \in Agents \ {a} : Registered(b)' <=> Registered(b) BY <1>4 DEF Registered
<1>8. \A b : RecordsOf(b)' = RecordsOf(b) BY <1>2 DEF RecordsOf
<1>9. RegistryTyped'
  <2>1. \A b \in Agents : lastSet'[b] = Columns(lastSet'[b])
        BY <1>5 DEF RegistryInv, RegistryTyped, Columns
  <2> QED BY <1>2, <1>4, <1>5, <2>1 DEF RegistryInv, RegistryTyped
<1>10. ReadsAreOfRows'
  <2> SUFFICES ASSUME NEW c \in RegistryCalls, regCall[c] # NoCall PROVE ReadIsOfTheRow(c)'
      BY <1>2 DEF ReadsAreOfRows, ReadIsOfTheRow
  <2>1. ReadIsOfTheRow(c) BY DEF RegistryInv, ReadsAreOfRows
  <2>2. regCall[c].agent # a BY <1>6, <2>1 DEF ReadIsOfTheRow
  <2>3. regCall[c].agent \in Agents
        BY DEF RegistryInv, RegistryTyped, RotationCalls, TrustCalls
  <2>4. identities'[regCall[c].agent] = identities[regCall[c].agent] BY <1>4, <2>2, <2>3
  <2>5. \A n : Had(regCall[c].agent, n)' <=> Had(regCall[c].agent, n) BY <1>2, <1>8 DEF Had
  <2> QED BY <1>2, <2>1, <2>4, <2>5 DEF ReadIsOfTheRow, Registered
<1>11. NoneIsRecorded' BY <1>6, <1>7, <1>8 DEF RegistryInv, NoneIsRecorded
<1>12. NoLostColumns'
  <2>1. /\ row.trust = trust /\ row.serial = 0 /\ row.role = role
        /\ row.capabilities = sent
        BY <1>1
  <2>2. first.trust = trust /\ first.serial = 0 /\ first.capabilities = sent /\ ~first.derived
        OBVIOUS
  <2> QED BY <1>4, <1>5, <2>1, <2>2 DEF RegistryInv, NoLostColumns
<1>13. HistoryAccountsForSerials'
  <2>1. RecordsOf(a)' = {} BY <1>6, <1>8 DEF RegistryInv, NoneIsRecorded
  <2>2. identities'[a].serial = 0 BY <1>1, <1>4
  <2>3. \A b \in Agents \ {a} : \A k : LastRecord(k, b)' <=> LastRecord(k, b) BY <1>8 DEF LastRecord
  <2>4. ASSUME NEW b \in Agents, b # a, Registered(b)'
        PROVE  /\ \/ RecordsOf(b)' = {} /\ identities'[b].serial = 0
                  \/ \E k \in RecordsOf(b)' : /\ LastRecord(k, b)'
                                              /\ identities'[b].serial = rotationHistory'[k].new
               /\ \A k \in RecordsOf(b)' :
                     \/ rotationHistory'[k].old = 0
                     \/ \E j \in RecordsOf(b)' : j < k /\ rotationHistory'[j].new = rotationHistory'[k].old
    <3>1. identities[b] # Unregistered /\ identities'[b] = identities[b]
          BY <1>4, <1>7, <2>4 DEF Registered
    <3> QED BY <1>2, <1>8, <2>3, <2>4, <3>1 DEF RegistryInv, HistoryAccountsForSerials
  <2> QED BY <2>1, <2>2, <2>4 DEF HistoryAccountsForSerials, Registered
<1> QED BY <1>9, <1>10, <1>11, <1>12, <1>13 DEF RegistryInv

\* A step of a call that changes neither a row nor the history.
LEMMA GoesKeeps ==
    ASSUME RegistryInv, NEW c \in RegistryCalls, NEW to, Goes(c, to),
           to \in RotationCalls \cup TrustCalls \cup {NoCall},
           to # NoCall => /\ Registered(to.agent)
                          /\ to.at # "trust" => Had(to.agent, to.old)
                          /\ to.at = "trust" => to.capabilities
                                = DefaultCapabilities(identities[to.agent].role, to.trust),
           rotations' \in 0 .. MaxRotations, UNCHANGED <<identities, rotationHistory, lastSet>>
    PROVE  RegistryInv'
<1>1. /\ regCall' = [regCall EXCEPT ![c] = to] BY DEF Goes
<1>2. regCall' \in [RegistryCalls -> RotationCalls \cup TrustCalls \cup {NoCall}] /\ regCall'[c] = to
      /\ \A d \in RegistryCalls \ {c} : regCall'[d] = regCall[d]
      BY <1>1 DEF RegistryInv, RegistryTyped
<1>3. \A a : (Registered(a)' <=> Registered(a)) /\ RecordsOf(a)' = RecordsOf(a)
      BY DEF Registered, RecordsOf
<1>4. \A a, n : Had(a, n)' <=> Had(a, n) BY <1>3 DEF Had
<1>5. ReadIsOfTheRow(c)' BY <1>2, <1>3, <1>4 DEF ReadIsOfTheRow
<1>6. \A d \in RegistryCalls \ {c} : ReadIsOfTheRow(d)'
      BY <1>2, <1>3, <1>4 DEF RegistryInv, ReadsAreOfRows, ReadIsOfTheRow
<1>7. ReadsAreOfRows' BY <1>5, <1>6 DEF ReadsAreOfRows
<1>8. RegistryTyped' BY <1>2 DEF RegistryInv, RegistryTyped
<1>9. NoLostColumns' BY DEF RegistryInv, NoLostColumns
<1>10. HistoryAccountsForSerials' /\ NoneIsRecorded' BY <1>3, HistoryKept
<1> QED BY <1>7, <1>8, <1>9, <1>10 DEF RegistryInv

LEMMA RotationReadsKeeps ==
    ASSUME RegistryInv, NEW c \in RegistryCalls, NEW a \in Agents, RotationReads(c, a)
    PROVE  RegistryInv'
<1>1. PICK to : to = [at |-> "read", agent |-> a, old |-> identities[a].serial, new |-> rotations + 1]
      OBVIOUS
<1>2. /\ identities[a] # Unregistered /\ rotations < MaxRotations /\ rotations' = rotations + 1
      /\ Goes(c, to) /\ UNCHANGED <<identities, rotationHistory, lastSet>>
      BY <1>1 DEF RotationReads
<1>3. rotations' \in 0 .. MaxRotations /\ rotations + 1 \in Nat
      BY <1>2, RegistryDbAssumption DEF RegistryInv, RegistryTyped
<1>4. identities[a] \in IdentityRows BY <1>2 DEF RegistryInv, RegistryTyped
<1>5. identities[a].serial \in Nat BY <1>4 DEF IdentityRows
<1>6. to \in RotationCalls /\ to.agent = a /\ to.at = "read" /\ to.old = identities[a].serial
      BY <1>1, <1>3, <1>5 DEF RotationCalls, Rotating
<1>7. Had(a, identities[a].serial)
      BY <1>2 DEF RegistryInv, HistoryAccountsForSerials, Had
<1>8. Registered(a) BY <1>2 DEF Registered
<1> QED BY <1>2, <1>3, <1>6, <1>7, <1>8, GoesKeeps

LEMMA RotationGoesKeeps ==
    ASSUME RegistryInv, NEW c \in RegistryCalls,
           RotationUpdates(c) \/ RotationRecords(c) \/ RotationRollsBack(c)
    PROVE  RegistryInv'
<1>1. regCall[c].at \in Rotating /\ UNCHANGED <<identities, rotationHistory, rotations, lastSet>>
      BY DEF RotationUpdates, RotationRecords, RotationRollsBack, Rotating
<1>2. PICK r : r = regCall[c] OBVIOUS
<1>3. r \in RotationCalls
      BY <1>1, <1>2, UnregisteredIsNone DEF RegistryInv, RegistryTyped, TrustCalls, Rotating
<1>4. r # NoCall BY <1>3, UnregisteredIsNone
<1>5. r.at # "trust" BY <1>1, <1>2 DEF Rotating
<1>6. Registered(r.agent) /\ Had(r.agent, r.old)
      BY <1>2, <1>4, <1>5 DEF RegistryInv, ReadsAreOfRows, ReadIsOfTheRow
<1>7. rotations' \in 0 .. MaxRotations BY <1>1 DEF RegistryInv, RegistryTyped
<1>8. CASE RotationRollsBack(c)
  <2>1. Goes(c, NoCall) BY <1>8 DEF RotationRollsBack
  <2> QED BY <1>1, <1>7, <2>1, GoesKeeps
<1>9. CASE RotationUpdates(c) \/ RotationRecords(c)
  <2>1. PICK s \in Rotating : Goes(c, [r EXCEPT !.at = s])
    <3>1. CASE RotationUpdates(c)
      <4>1. Goes(c, [r EXCEPT !.at = "updated"]) BY <1>2, <3>1 DEF RotationUpdates
      <4> QED BY <4>1 DEF Rotating
    <3>2. CASE RotationRecords(c)
      <4>1. Goes(c, [r EXCEPT !.at = "recorded"]) BY <1>2, <3>2 DEF RotationRecords
      <4> QED BY <4>1 DEF Rotating
    <3> QED BY <1>9, <3>1, <3>2
  <2>3. PICK to : to = [r EXCEPT !.at = s] OBVIOUS
  <2>2. to \in RotationCalls /\ to.agent = r.agent /\ to.old = r.old /\ to.at # "trust"
        BY <1>3, <2>3 DEF RotationCalls, Rotating
  <2> QED BY <1>1, <1>6, <1>7, <2>1, <2>2, <2>3, GoesKeeps
<1> QED BY <1>8, <1>9

LEMMA TrustReadsKeeps ==
    ASSUME RegistryInv, NEW c \in RegistryCalls, NEW a \in Agents, NEW trust \in TrustLevels,
           TrustReads(c, a, trust)
    PROVE  RegistryInv'
<1>1. PICK to : to = [at |-> "trust", agent |-> a, trust |-> trust,
                      capabilities |-> DefaultCapabilities(identities[a].role, trust)]
      OBVIOUS
<1>2. /\ identities[a] # Unregistered /\ Goes(c, to)
      /\ UNCHANGED <<identities, rotationHistory, rotations, lastSet>>
      BY <1>1 DEF TrustReads
<1>3. rotations' \in 0 .. MaxRotations BY <1>2 DEF RegistryInv, RegistryTyped
<1>4. identities[a] \in IdentityRows BY <1>2 DEF RegistryInv, RegistryTyped
<1>5. identities[a].role \in AgentRoles BY <1>4 DEF IdentityRows
<1>6. /\ to \in TrustCalls /\ to.agent = a /\ to.at = "trust" /\ to.trust = trust
      /\ to.capabilities = DefaultCapabilities(identities[a].role, trust)
      BY <1>1, <1>5 DEF TrustCalls, DefaultCapabilities
<1>7. Registered(a) BY <1>2 DEF Registered
<1> QED BY <1>2, <1>3, <1>6, <1>7, GoesKeeps

\* A step that changes columns of one row, but not its role, its being there, or its serial.
LEMMA ColumnsKeep ==
    ASSUME RegistryInv, NEW a \in Agents, NEW row \in IdentityRows, Registered(a),
           identities' = [identities EXCEPT ![a] = row],
           row.role = identities[a].role, row.serial = identities[a].serial,
           UNCHANGED <<rotationHistory, rotations>>,
           regCall' \in [RegistryCalls -> RotationCalls \cup TrustCalls \cup {NoCall}],
           \A c \in RegistryCalls : regCall'[c] = regCall[c] \/ regCall'[c] = NoCall
    PROVE  /\ HistoryAccountsForSerials' /\ NoneIsRecorded' /\ ReadsAreOfRows'
           /\ identities' \in [Agents -> IdentityRows \cup {Unregistered}] /\ identities'[a] = row
           /\ \A b \in Agents \ {a} : identities'[b] = identities[b]
<1>1. /\ identities' \in [Agents -> IdentityRows \cup {Unregistered}] /\ identities'[a] = row
      /\ \A b \in Agents \ {a} : identities'[b] = identities[b]
      BY DEF RegistryInv, RegistryTyped
<1>2. \A b \in Agents : Registered(b)' <=> Registered(b) BY <1>1, UnregisteredIsNone DEF Registered
<1>3. \A b \in Agents : identities'[b].serial = identities[b].serial
                        /\ identities'[b].role = identities[b].role
      BY <1>1
<1>4. HistoryAccountsForSerials' /\ NoneIsRecorded' BY <1>2, <1>3, HistoryKept
<1>5. ASSUME NEW c \in RegistryCalls PROVE ReadIsOfTheRow(c)'
  <2>1. CASE regCall'[c] = NoCall BY <2>1 DEF ReadIsOfTheRow
  <2>2. CASE regCall'[c] # NoCall
    <3>1. regCall'[c] = regCall[c] /\ ReadIsOfTheRow(c) BY <2>2 DEF RegistryInv, ReadsAreOfRows
    <3>2. regCall[c].agent \in Agents
          BY <2>2, <3>1 DEF RegistryInv, RegistryTyped, RotationCalls, TrustCalls
    <3>3. \A b : RecordsOf(b)' = RecordsOf(b) BY DEF RecordsOf
    <3>4. \A b, n : Had(b, n)' <=> Had(b, n) BY <3>3 DEF Had
    <3> QED BY <1>2, <1>3, <2>2, <3>1, <3>2, <3>4 DEF ReadIsOfTheRow
  <2> QED BY <2>1, <2>2
<1> QED BY <1>1, <1>4, <1>5 DEF ReadsAreOfRows

LEMMA TrustUpdatesKeeps ==
    ASSUME RegistryInv, NEW c \in RegistryCalls, TrustUpdates(c)
    PROVE  RegistryInv'
<1>1. PICK r : r = regCall[c] OBVIOUS
<1>2. r.at = "trust" BY <1>1 DEF TrustUpdates
<1>3. r \in TrustCalls /\ r # NoCall
      BY <1>1, <1>2, UnregisteredIsNone DEF RegistryInv, RegistryTyped, RotationCalls, Rotating
<1>4. PICK a \in Agents : a = r.agent BY <1>3 DEF TrustCalls
<1>5. PICK old : old = identities[a] OBVIOUS
<1>6. Registered(a) /\ old \in IdentityRows
      BY <1>1, <1>3, <1>4, <1>5
         DEF RegistryInv, RegistryTyped, ReadsAreOfRows, ReadIsOfTheRow, Registered
<1>7. r.capabilities = DefaultCapabilities(old.role, r.trust)
      BY <1>1, <1>2, <1>3, <1>4, <1>5 DEF RegistryInv, ReadsAreOfRows, ReadIsOfTheRow
<1>8. PICK row : row = [old EXCEPT !.trust = r.trust, !.capabilities = r.capabilities] OBVIOUS
<1>9. /\ row \in IdentityRows /\ row.role = old.role /\ row.serial = old.serial
      /\ row.trust = r.trust /\ row.capabilities = r.capabilities
      BY <1>3, <1>6, <1>8 DEF IdentityRows, TrustCalls, CapabilityLists
<1>10. /\ identities' = [identities EXCEPT ![a] = row]
       /\ lastSet' = [lastSet EXCEPT ![a] =
               [trust |-> r.trust, serial |-> lastSet[a].serial,
                capabilities |-> r.capabilities, derived |-> TRUE]]
       /\ regCall' = [regCall EXCEPT ![c] = NoCall]
       /\ UNCHANGED <<rotationHistory, rotations>>
  <2>1. identities' = [identities EXCEPT ![a].trust = r.trust, ![a].capabilities = r.capabilities]
        BY <1>1, <1>4 DEF TrustUpdates
  <2>2. identities' = [identities EXCEPT ![a] = row]
        BY <1>5, <1>8, <2>1 DEF RegistryInv, RegistryTyped
  <2> QED BY <1>1, <1>4, <2>2 DEF TrustUpdates, Goes
<1>11. /\ regCall' \in [RegistryCalls -> RotationCalls \cup TrustCalls \cup {NoCall}]
       /\ \A d \in RegistryCalls : regCall'[d] = regCall[d] \/ regCall'[d] = NoCall
       BY <1>10 DEF RegistryInv, RegistryTyped
<1>12. /\ HistoryAccountsForSerials' /\ NoneIsRecorded' /\ ReadsAreOfRows'
       /\ identities' \in [Agents -> IdentityRows \cup {Unregistered}] /\ identities'[a] = row
       /\ \A b \in Agents \ {a} : identities'[b] = identities[b]
       BY <1>5, <1>6, <1>9, <1>10, <1>11, ColumnsKeep
<1>13. /\ lastSet' = [b \in Agents |-> lastSet'[b]]
       /\ lastSet'[a] = [trust |-> r.trust, serial |-> lastSet[a].serial,
                          capabilities |-> r.capabilities, derived |-> TRUE]
       /\ \A b \in Agents \ {a} : lastSet'[b] = lastSet[b]
  <2>1. PICK m : m = [trust |-> r.trust, serial |-> lastSet[a].serial,
                      capabilities |-> r.capabilities, derived |-> TRUE]
        OBVIOUS
  <2>2. lastSet' = [lastSet EXCEPT ![a] = m] BY <1>10, <2>1
  <2> QED BY <2>1, <2>2 DEF RegistryInv, RegistryTyped
<1>14. RegistryTyped'
  <2>1. \A b \in Agents : lastSet'[b] = Columns(lastSet'[b])
        BY <1>13 DEF RegistryInv, RegistryTyped, Columns
  <2> QED BY <1>10, <1>11, <1>12, <1>13, <2>1 DEF RegistryInv, RegistryTyped
<1>15. NoLostColumns'
  <2>1. identities[a].serial = lastSet[a].serial
        BY <1>6 DEF RegistryInv, NoLostColumns, Registered
  <2>2. /\ identities'[a].trust = lastSet'[a].trust /\ identities'[a].serial = lastSet'[a].serial
        /\ identities'[a].capabilities = lastSet'[a].capabilities
        /\ identities'[a].capabilities
              = DefaultCapabilities(identities'[a].role, identities'[a].trust)
        BY <1>5, <1>7, <1>9, <1>12, <1>13, <2>1
  <2> QED BY <1>12, <1>13, <2>2 DEF RegistryInv, NoLostColumns
<1> QED BY <1>12, <1>14, <1>15 DEF RegistryInv

LEMMA ReactivateKeeps ==
    ASSUME RegistryInv, NEW a \in Agents, ReactivateIdentity(a)
    PROVE  RegistryInv'
<1>1. PICK old : old = identities[a] OBVIOUS
<1>2. old.status = "suspended" BY <1>1 DEF ReactivateIdentity
<1>3. old \in IdentityRows /\ Registered(a)
  <2>1. Unregistered.status = "none" BY DEF Unregistered
  <2> QED BY <1>1, <1>2, <2>1 DEF RegistryInv, RegistryTyped, Registered
<1>4. PICK row : row = [old EXCEPT !.status = "active"] OBVIOUS
<1>5. /\ row \in IdentityRows /\ row.role = old.role /\ row.serial = old.serial
      /\ row.trust = old.trust /\ row.capabilities = old.capabilities
      BY <1>3, <1>4 DEF IdentityRows, RowStatuses
<1>6. /\ identities' = [identities EXCEPT ![a] = row]
      /\ UNCHANGED <<rotationHistory, regCall, rotations, lastSet>>
      BY <1>1, <1>4 DEF ReactivateIdentity, RegistryInv, RegistryTyped
<1>7. regCall' \in [RegistryCalls -> RotationCalls \cup TrustCalls \cup {NoCall}]
      BY <1>6 DEF RegistryInv, RegistryTyped
<1>8. /\ HistoryAccountsForSerials' /\ NoneIsRecorded' /\ ReadsAreOfRows'
      /\ identities' \in [Agents -> IdentityRows \cup {Unregistered}] /\ identities'[a] = row
      /\ \A b \in Agents \ {a} : identities'[b] = identities[b]
      BY <1>1, <1>3, <1>5, <1>6, <1>7, ColumnsKeep
<1>9. RegistryTyped' BY <1>6, <1>8 DEF RegistryInv, RegistryTyped
<1>10. NoLostColumns'
  <2>1. /\ identities[a].serial = lastSet[a].serial /\ identities[a].trust = lastSet[a].trust
        /\ identities[a].capabilities = lastSet[a].capabilities
        /\ lastSet[a].derived =>
              identities[a].capabilities = DefaultCapabilities(identities[a].role, identities[a].trust)
        BY <1>3 DEF RegistryInv, NoLostColumns, Registered
  <2>2. /\ identities'[a].trust = lastSet'[a].trust /\ identities'[a].serial = lastSet'[a].serial
        /\ identities'[a].capabilities = lastSet'[a].capabilities
        /\ lastSet'[a].derived =>
              identities'[a].capabilities
                  = DefaultCapabilities(identities'[a].role, identities'[a].trust)
        BY <1>1, <1>5, <1>6, <1>8, <2>1
  <2> QED BY <1>6, <1>8, <2>2 DEF RegistryInv, NoLostColumns
<1> QED BY <1>8, <1>9, <1>10 DEF RegistryInv

\* The record and the serial of the row become visible at once.
LEMMA CommitKeeps ==
    ASSUME RegistryInv, NEW c \in RegistryCalls, RotationCommits(c)
    PROVE  RegistryInv'
<1>1. PICK r : r = regCall[c] OBVIOUS
<1>2. r.at = "recorded" BY <1>1 DEF RotationCommits
<1>3. r \in RotationCalls /\ r # NoCall
      BY <1>1, <1>2, UnregisteredIsNone DEF RegistryInv, RegistryTyped, TrustCalls
<1>4. PICK a \in Agents : a = r.agent BY <1>3 DEF RotationCalls
<1>5. Registered(a) /\ Had(a, r.old)
      BY <1>1, <1>2, <1>3, <1>4 DEF RegistryInv, ReadsAreOfRows, ReadIsOfTheRow
<1>6. PICK old \in IdentityRows : old = identities[a]
      BY <1>5 DEF RegistryInv, RegistryTyped, Registered
<1>7. PICK row : row = [old EXCEPT !.serial = r.new] OBVIOUS
<1>8. /\ row \in IdentityRows /\ row.role = old.role /\ row.serial = r.new
      /\ row.trust = old.trust /\ row.capabilities = old.capabilities
      BY <1>3, <1>6, <1>7 DEF IdentityRows, RotationCalls
<1>9. PICK e : e = [agent |-> a, old |-> r.old, new |-> r.new] OBVIOUS
<1>10. e \in HistoryRecords /\ e.agent = a /\ e.old = r.old /\ e.new = r.new
       BY <1>3, <1>4, <1>9 DEF HistoryRecords, RotationCalls
<1>11. PICK h, n : h = rotationHistory /\ n = Len(h) /\ n \in Nat
       BY LenProperties DEF RegistryInv, RegistryTyped
<1>12. h \in Seq(HistoryRecords) BY <1>11 DEF RegistryInv, RegistryTyped
<1>13. PICK g : g = rotationHistory' OBVIOUS
<1>14. /\ identities' = [identities EXCEPT ![a] = row]
       /\ g = Append(h, e)
       /\ lastSet' = [lastSet EXCEPT ![a].serial = r.new]
       /\ regCall' = [regCall EXCEPT ![c] = NoCall]
       /\ rotations' = rotations
       BY <1>1, <1>4, <1>6, <1>7, <1>9, <1>11, <1>13 DEF RotationCommits, Goes, RegistryInv, RegistryTyped
<1>15. /\ g \in Seq(HistoryRecords) /\ Len(g) = n + 1
       /\ (\A k \in 1 .. n : g[k] = h[k]) /\ g[n + 1] = e
       BY <1>10, <1>11, <1>12, <1>14, AppendProperties
<1>16. DOMAIN g = 1 .. n + 1 /\ DOMAIN h = 1 .. n
       BY <1>11, <1>12, <1>15, LenProperties
<1>17. /\ identities' \in [Agents -> IdentityRows \cup {Unregistered}] /\ identities'[a] = row
       /\ \A b \in Agents \ {a} : identities'[b] = identities[b]
       BY <1>8, <1>14 DEF RegistryInv, RegistryTyped
<1>18. \A b \in Agents : Registered(b)' <=> Registered(b)
       BY <1>5, <1>8, <1>17, UnregisteredIsNone DEF Registered
<1>19. /\ RecordsOf(a)' = RecordsOf(a) \cup {n + 1}
       /\ \A b \in Agents \ {a} : RecordsOf(b)' = RecordsOf(b)
       /\ \A b : RecordsOf(b) \subseteq 1 .. n
  <2>1. \A b : RecordsOf(b) = {k \in 1 .. n : h[k].agent = b} BY <1>11, <1>16 DEF RecordsOf
  <2>2. \A b : RecordsOf(b)' = {k \in 1 .. n + 1 : g[k].agent = b} BY <1>13, <1>16 DEF RecordsOf
  <2>3. 1 .. n + 1 = (1 .. n) \cup {n + 1} BY <1>11
  <2>4. \A b : RecordsOf(b)' = {k \in 1 .. n : h[k].agent = b} \cup {k \in {n + 1} : e.agent = b}
        BY <1>15, <2>2, <2>3
  <2> QED BY <1>10, <2>1, <2>4
<1>20. \A b \in Agents : \A k \in RecordsOf(b) : k \in RecordsOf(b)' /\ g[k] = h[k]
       BY <1>15, <1>19
<1>21. ReadsAreOfRows'
  <2> SUFFICES ASSUME NEW d \in RegistryCalls, regCall'[d] # NoCall PROVE ReadIsOfTheRow(d)'
      BY DEF ReadsAreOfRows, ReadIsOfTheRow
  <2>1. regCall'[d] = regCall[d] /\ regCall[d] # NoCall
        BY <1>14 DEF RegistryInv, RegistryTyped
  <2>2. regCall[d].agent \in Agents
        BY <2>1 DEF RegistryInv, RegistryTyped, RotationCalls, TrustCalls
  <2>3. ReadIsOfTheRow(d) BY DEF RegistryInv, ReadsAreOfRows
  <2>4. \A b \in Agents : \A m : Had(b, m) => Had(b, m)' BY <1>11, <1>13, <1>20 DEF Had
  <2>5. \A b \in Agents : identities'[b].role = identities[b].role BY <1>6, <1>8, <1>17
  <2> QED BY <1>18, <2>1, <2>2, <2>3, <2>4, <2>5 DEF ReadIsOfTheRow
<1>22. NoneIsRecorded' BY <1>5, <1>18, <1>19 DEF RegistryInv, NoneIsRecorded
<1>23. /\ lastSet' = [b \in Agents |-> lastSet'[b]]
       /\ lastSet'[a] = [trust |-> lastSet[a].trust, serial |-> r.new,
                          capabilities |-> lastSet[a].capabilities, derived |-> lastSet[a].derived]
       /\ \A b \in Agents \ {a} : lastSet'[b] = lastSet[b]
  <2>1. PICK l : l = lastSet[a] OBVIOUS
  <2>2. l = Columns(l) BY <2>1 DEF RegistryInv, RegistryTyped
  <2>3. [l EXCEPT !.serial = r.new]
            = [trust |-> l.trust, serial |-> r.new, capabilities |-> l.capabilities,
               derived |-> l.derived]
        BY <2>2 DEF Columns
  <2>4. lastSet'[a] = [l EXCEPT !.serial = r.new] /\ lastSet' = [b \in Agents |-> lastSet'[b]]
        /\ \A b \in Agents \ {a} : lastSet'[b] = lastSet[b]
        BY <1>14, <2>1 DEF RegistryInv, RegistryTyped
  <2> QED BY <2>1, <2>3, <2>4
<1>24. RegistryTyped'
  <2>1. \A b \in Agents : lastSet'[b] = Columns(lastSet'[b])
        BY <1>23 DEF RegistryInv, RegistryTyped, Columns
  <2>2. regCall' \in [RegistryCalls -> RotationCalls \cup TrustCalls \cup {NoCall}]
        BY <1>14 DEF RegistryInv, RegistryTyped
  <2> QED BY <1>13, <1>14, <1>15, <1>17, <1>23, <2>1, <2>2 DEF RegistryInv, RegistryTyped
<1>25. NoLostColumns'
  <2>1. /\ identities[a].trust = lastSet[a].trust
        /\ identities[a].capabilities = lastSet[a].capabilities
        /\ lastSet[a].derived =>
              identities[a].capabilities = DefaultCapabilities(identities[a].role, identities[a].trust)
        BY <1>5 DEF RegistryInv, NoLostColumns, Registered
  <2>2. /\ identities'[a].trust = lastSet'[a].trust /\ identities'[a].serial = lastSet'[a].serial
        /\ identities'[a].capabilities = lastSet'[a].capabilities
        /\ lastSet'[a].derived =>
              identities'[a].capabilities
                  = DefaultCapabilities(identities'[a].role, identities'[a].trust)
        BY <1>6, <1>8, <1>17, <1>23, <2>1
  <2> QED BY <1>17, <1>23, <2>2 DEF RegistryInv, NoLostColumns
<1>26. HistoryAccountsForSerials'
  <2>1. n + 1 \in RecordsOf(a)' /\ LastRecord(n + 1, a)' /\ identities'[a].serial = g[n + 1].new
    <3>1. \A j \in RecordsOf(a)' : j <= n + 1 BY <1>11, <1>19
    <3> QED BY <1>8, <1>10, <1>15, <1>17, <1>19, <3>1 DEF LastRecord
  <2>2. ASSUME NEW b \in Agents, NEW k \in RecordsOf(b), Registered(b)
        PROVE  \/ g[k].old = 0
               \/ \E j \in RecordsOf(b)' : j < k /\ g[j].new = g[k].old
    <3>1. \/ h[k].old = 0
          \/ \E j \in RecordsOf(b) : j < k /\ h[j].new = h[k].old
          BY <1>11, <2>2 DEF RegistryInv, HistoryAccountsForSerials, Registered
    <3> QED BY <1>20, <3>1
  <2>3. \/ g[n + 1].old = 0
        \/ \E j \in RecordsOf(a)' : j < n + 1 /\ g[j].new = g[n + 1].old
    <3>1. r.old = 0 \/ \E k \in RecordsOf(a) : h[k].new = r.old BY <1>5, <1>11 DEF Had
    <3>2. \A k \in RecordsOf(a) : k < n + 1 BY <1>11, <1>19
    <3> QED BY <1>10, <1>15, <1>20, <3>1, <3>2
  <2>4. ASSUME NEW b \in Agents, b # a, Registered(b)
        PROVE  \/ RecordsOf(b)' = {} /\ identities'[b].serial = 0
               \/ \E k \in RecordsOf(b)' : LastRecord(k, b)' /\ identities'[b].serial = g[k].new
    <3>1. identities'[b] = identities[b] /\ RecordsOf(b)' = RecordsOf(b) BY <1>17, <1>19, <2>4
    <3>2. \/ RecordsOf(b) = {} /\ identities[b].serial = 0
          \/ \E k \in RecordsOf(b) : LastRecord(k, b) /\ identities[b].serial = h[k].new
          BY <1>11, <2>4 DEF RegistryInv, HistoryAccountsForSerials, Registered
    <3>3. \A k : LastRecord(k, b)' <=> LastRecord(k, b) BY <3>1 DEF LastRecord
    <3> QED BY <1>20, <3>1, <3>2, <3>3
  <2> QED BY <1>5, <1>13, <1>18, <1>19, <2>1, <2>2, <2>3, <2>4
          DEF HistoryAccountsForSerials, Registered
<1> QED BY <1>21, <1>22, <1>24, <1>25, <1>26 DEF RegistryInv

LEMMA RegistryStep == RegistryInv /\ [RegistryDbNext]_registryDbVars => RegistryInv'
<1> SUFFICES ASSUME RegistryInv, [RegistryDbNext]_registryDbVars PROVE RegistryInv' OBVIOUS
<1>1. CASE UNCHANGED registryDbVars
  <2>1. UNCHANGED <<identities, rotationHistory, regCall, rotations, lastSet>>
        BY <1>1 DEF registryDbVars
  <2>2. \A a : (Registered(a)' <=> Registered(a)) /\ RecordsOf(a)' = RecordsOf(a)
        BY <2>1 DEF Registered, RecordsOf
  <2>3. HistoryAccountsForSerials' /\ NoneIsRecorded' BY <2>1, <2>2, HistoryKept
  <2>4. \A a, n : Had(a, n)' <=> Had(a, n) BY <2>1, <2>2 DEF Had
  <2>5. ReadsAreOfRows' BY <2>1, <2>2, <2>4 DEF RegistryInv, ReadsAreOfRows, ReadIsOfTheRow
  <2> QED BY <2>1, <2>3, <2>5 DEF RegistryInv, RegistryTyped, NoLostColumns
<1>2. CASE RegistryDbNext
  <2>1. CASE \E a \in Agents, role \in AgentRoles, trust \in TrustLevels, status \in RowStatuses,
               sent \in SentCapabilities : RegisterIdentity(a, role, trust, status, sent)
        BY <2>1, RegisterKeepsTable
  <2>2. CASE \E a \in Agents : ReactivateIdentity(a) BY <2>2, ReactivateKeeps
  <2>3. CASE \E a \in Agents, c \in RegistryCalls : RotationReads(c, a) BY <2>3, RotationReadsKeeps
  <2>4. CASE \E a \in Agents, c \in RegistryCalls, trust \in TrustLevels : TrustReads(c, a, trust)
        BY <2>4, TrustReadsKeeps
  <2>5. CASE \E c \in RegistryCalls : \/ RotationUpdates(c) \/ RotationRecords(c)
                                      \/ RotationRollsBack(c)
        BY <2>5, RotationGoesKeeps
  <2>6. CASE \E c \in RegistryCalls : RotationCommits(c) BY <2>6, CommitKeeps
  <2>7. CASE \E c \in RegistryCalls : TrustUpdates(c) BY <2>7, TrustUpdatesKeeps
  <2> QED BY <1>2, <2>1, <2>2, <2>3, <2>4, <2>5, <2>6, <2>7 DEF RegistryDbNext, RowStatuses
<1> QED BY <1>1, <1>2

LEMMA RegistryAlways == RegistryDbSpec => []RegistryInv
BY RegistryInitially, RegistryStep, PTL DEF RegistryDbSpec

LEMMA RegistryFollows ==
    RegistryInv => RegistryDbTypeOK /\ NoLostColumns /\ HistoryAccountsForSerials
<1> SUFFICES ASSUME RegistryInv PROVE RegistryDbTypeOK BY DEF RegistryInv
<1>1. \A a \in Agents : identities[a].status \in {"none", "active", "suspended"}
  <2>1. Unregistered.status = "none" BY DEF Unregistered
  <2> QED BY <2>1 DEF RegistryInv, RegistryTyped, IdentityRows, RowStatuses
<1>2. \A c \in RegistryCalls : regCall[c].at \in {"idle", "read", "updated", "recorded", "trust"}
      BY UnregisteredIsNone DEF RegistryInv, RegistryTyped, RotationCalls, TrustCalls, Rotating
<1> QED BY <1>1, <1>2 DEF RegistryInv, RegistryTyped, RegistryDbTypeOK

\* However many calls rotate, suspend and promote the same identity at once
\* (SPIFFEIdentityRegistry): none loses what another wrote, and the history accounts for the
\* serial of every row.
THEOREM RowsStayKept == RegistryDbSpec => [](NoLostColumns /\ HistoryAccountsForSerials)
<1>1. RegistryInv => NoLostColumns /\ HistoryAccountsForSerials BY RegistryFollows
<1> QED BY <1>1, RegistryAlways, PTL

-----------------------------------------------------------------------------
(***************************************************************************)
(* The gate.  Its thresholds stay numbers for each level of risk, whatever *)
(* an update names; and the rejections that are kept are the last of those *)
(* that were recorded.                                                     *)
(***************************************************************************)

ThresholdRecords == [approve : Int, clarify : Int, escalate : Int, autoReject : Int]

GateTyped ==
    /\ thresholds \in [RiskLevels -> ThresholdRecords]
    /\ DOMAIN switches = DOMAIN DefaultSwitches
    /\ gateSteps \in 0 .. MaxGateSteps

\* One list is the end of the other, and all of it if there is room.
EndOf(s, t, n) ==
    /\ Len(s) = IF Len(t) < n THEN Len(t) ELSE n
    /\ \A k \in 1 .. Len(s) : s[k] = t[Len(t) - Len(s) + k]

RejectionsTyped ==
    \E V : rejections \in Seq(V) /\ everRejected \in Seq(V) /\ EndOf(rejections, everRejected, MaxRejections)

GateInv == GateTyped /\ RejectionsTyped

\* What is cut off a list with one more element, of which there is the end already.
LEMMA LastOfHas ==
    ASSUME NEW V, NEW s \in Seq(V), NEW t \in Seq(V), NEW n \in Nat \ {0}, EndOf(s, t, n), NEW e \in V
    PROVE  LastOf(Append(s, e), n) \in Seq(V) /\ EndOf(LastOf(Append(s, e), n), Append(t, e), n)
<1>1. PICK a, b : a = Append(s, e) /\ b = Append(t, e) OBVIOUS
<1>2. PICK l, m : l = Len(s) /\ m = Len(t) /\ l \in Nat /\ m \in Nat BY LenProperties
<1>3. a \in Seq(V) /\ Len(a) = l + 1 /\ a[l + 1] = e /\ \A k \in 1 .. l : a[k] = s[k]
      BY <1>1, <1>2, AppendProperties
<1>4. b \in Seq(V) /\ Len(b) = m + 1 /\ b[m + 1] = e /\ \A k \in 1 .. m : b[k] = t[k]
      BY <1>1, <1>2, AppendProperties
<1>5. PICK p \in Nat \ {0} : p = Len(a) /\ p = l + 1 BY <1>2, <1>3
<1>6. PICK from : from = p - (IF p < n THEN p ELSE n) + 1 OBVIOUS
<1>7. LastOf(a, n) = SubSeq(a, from, p) BY <1>5, <1>6 DEF LastOf
<1>8. from \in 1 .. p /\ from \in Int /\ p \in Int BY <1>5, <1>6
<1>9. PICK c : c = LastOf(a, n) OBVIOUS
<1>10. /\ c \in Seq(V) /\ Len(c) = p - from + 1
       /\ \A k \in 1 .. p - from + 1 : c[k] = a[from + k - 1]
  <2>1. \A k \in from .. p : a[k] \in V BY <1>3, <1>5, <1>8, ElementOfSeq
  <2>2. /\ SubSeq(a, from, p) \in Seq(V)
        /\ Len(SubSeq(a, from, p)) = IF from <= p THEN p - from + 1 ELSE 0
        /\ \A i \in 1 .. p - from + 1 : SubSeq(a, from, p)[i] = a[from + i - 1]
        BY <1>8, <2>1, SubSeqProperties
  <2> QED BY <1>7, <1>8, <1>9, <2>2
<1>11. l = (IF m < n THEN m ELSE n) /\ \A k \in 1 .. l : s[k] = t[m - l + k]
       BY <1>2 DEF EndOf
<1>12. PICK h : h = Len(c) OBVIOUS
<1>13. PICK cut : cut = (IF p < n THEN p ELSE n) OBVIOUS
<1>14. cut \in Nat /\ cut <= p BY <1>5, <1>13
<1>15. from = p - cut + 1 BY <1>6, <1>13
<1>16. h = p - from + 1 BY <1>10, <1>12
<1>17. h = cut BY <1>5, <1>14, <1>15, <1>16
<1>18. (p < n => h = p) /\ (~(p < n) => h = n) /\ h \in Nat BY <1>13, <1>14, <1>17
<1>19. h = IF m + 1 < n THEN m + 1 ELSE n
  <2>1. CASE m < n
    <3>1. l = m BY <1>11, <2>1
    <3>2. p = m + 1 BY <1>5, <3>1
    <3>3. CASE p < n BY <1>18, <3>2, <3>3
    <3>4. CASE ~(p < n) BY <1>18, <3>2, <3>4
    <3> QED BY <3>3, <3>4
  <2>2. CASE ~(m < n)
    <3>1. l = n BY <1>11, <2>2
    <3>2. ~(p < n) BY <1>2, <1>5, <3>1
    <3>3. ~(m + 1 < n) BY <1>2, <2>2
    <3> QED BY <1>18, <3>2, <3>3
  <2> QED BY <2>1, <2>2
<1>20. ASSUME NEW k \in 1 .. h PROVE c[k] = b[m + 1 - h + k]
  <2>1. k \in Nat /\ k <= h /\ 1 <= k BY <1>18
  <2>2. PICK j : j = from + k - 1 OBVIOUS
  <2>3. j = p - h + k BY <1>5, <1>14, <1>15, <1>17, <2>1, <2>2
  <2>4. j \in 1 .. p BY <1>5, <1>18, <1>14, <1>17, <2>1, <2>3
  <2>5. k \in 1 .. p - from + 1 BY <1>16
  <2>6. c[k] = a[j] BY <1>10, <2>2, <2>5
  <2>7. j \in 1 .. p /\ c[k] = a[j] /\ j = p - h + k BY <2>3, <2>4, <2>6
  <2>8. PICK i : i = m + 1 - h + k OBVIOUS
  <2>9. l <= m BY <1>2, <1>11
  <2>10. i = m - l + j BY <1>2, <1>5, <1>18, <2>1, <2>7, <2>8
  <2>11. CASE j = l + 1
    <3>1. i = m + 1 BY <1>2, <2>10, <2>11
    <3> QED BY <1>3, <1>4, <2>7, <2>8, <2>11, <3>1
  <2>12. CASE j # l + 1
    <3>1. j \in 1 .. l BY <1>2, <1>5, <2>7, <2>12
    <3>2. i \in 1 .. m BY <1>2, <2>9, <2>10, <3>1
    <3>3. s[j] = t[i] BY <1>11, <2>10, <3>1
    <3> QED BY <1>3, <1>4, <2>7, <2>8, <3>1, <3>2, <3>3
  <2> QED BY <2>11, <2>12
<1>21. PICK q : q = Len(b) /\ q = m + 1 BY <1>4
<1>22. ASSUME NEW k \in 1 .. h PROVE c[k] = b[q - h + k]
  <2>1. c[k] = b[m + 1 - h + k] BY <1>20
  <2>2. q - h + k = m + 1 - h + k BY <1>2, <1>18, <1>21
  <2> QED BY <2>1, <2>2
<1>23. h = IF q < n THEN q ELSE n BY <1>19, <1>21
<1>24. \A k \in 1 .. Len(c) : c[k] = b[Len(b) - Len(c) + k] BY <1>12, <1>21, <1>22
<1>25. Len(c) = IF Len(b) < n THEN Len(b) ELSE n BY <1>12, <1>21, <1>23
<1>26. EndOf(c, b, n) BY <1>24, <1>25 DEF EndOf
<1> QED BY <1>1, <1>9, <1>10, <1>26

LEMMA GateInitially == GateInit => GateInv
<1> SUFFICES ASSUME GateInit PROVE GateInv OBVIOUS
<1>1. GateTyped BY GateAssumption DEF GateInit, GateTyped, ThresholdRecords, DefaultSwitches
<1>2. rejections \in Seq({}) /\ everRejected \in Seq({}) /\ Len(rejections) = 0 /\ Len(everRejected) = 0
      BY EmptySeq DEF GateInit
<1>3. EndOf(rejections, everRejected, MaxRejections) BY <1>2, GateAssumption DEF EndOf
<1> QED BY <1>1, <1>2, <1>3 DEF GateInv, RejectionsTyped

LEMMA EnforceKeeps ==
    ASSUME GateInv, NEW intent, Enforce(intent)
    PROVE  GateInv'
<1>1. PICK e, n : e = Rejection(intent) /\ n = MaxRejections OBVIOUS
<1>2. /\ gateSteps < MaxGateSteps /\ gateSteps' = gateSteps + 1
      /\ rejections' = LastOf(Append(rejections, e), n)
      /\ everRejected' = Append(everRejected, e)
      /\ UNCHANGED <<thresholds, switches, overrides>>
      BY <1>1 DEF Enforce
<1>3. GateTyped' BY <1>2, GateAssumption DEF GateInv, GateTyped
<1>4. PICK s, t : s = rejections /\ t = everRejected OBVIOUS
<1>5. PICK V : s \in Seq(V) /\ t \in Seq(V) /\ EndOf(s, t, n)
      BY <1>1, <1>4 DEF GateInv, RejectionsTyped
<1>6. PICK W : W = V \cup {e} OBVIOUS
<1>7. e \in W /\ s \in Seq(W) /\ t \in Seq(W)
  <2>1. V \subseteq W BY <1>6
  <2> QED BY <1>5, <1>6, <2>1
<1>8. n \in Nat \ {0} BY <1>1, GateAssumption
<1>9. LastOf(Append(s, e), n) \in Seq(W) /\ EndOf(LastOf(Append(s, e), n), Append(t, e), n)
      BY <1>5, <1>7, <1>8, LastOfHas
<1>10. Append(t, e) \in Seq(W) BY <1>7
<1>11. RejectionsTyped' BY <1>1, <1>2, <1>4, <1>9, <1>10 DEF RejectionsTyped
<1> QED BY <1>3, <1>11 DEF GateInv

\* An update names fields, and they get numbers.
LEMMA UpdateKeeps ==
    ASSUME GateInv, NEW update \in GateUpdates, UpdateThresholds(update)
    PROVE  GateInv'
<1>1. /\ thresholds' = [r \in DOMAIN thresholds |->
            IF r \in DOMAIN update.thresholds THEN Merged(thresholds[r], update.thresholds[r])
            ELSE thresholds[r]]
      /\ switches' = Merged(switches, update.switches)
      /\ UNCHANGED <<rejections, overrides, gateSteps, everRejected>>
      BY DEF UpdateThresholds
<1>2. DOMAIN thresholds = RiskLevels /\ thresholds \in [RiskLevels -> ThresholdRecords]
      BY DEF GateInv, GateTyped
<1>3. ASSUME NEW r \in RiskLevels, r \in DOMAIN update.thresholds
      PROVE  Merged(thresholds[r], update.thresholds[r]) \in ThresholdRecords
  <2>1. PICK old \in ThresholdRecords : old = thresholds[r] BY <1>2
  <2>2. PICK new : new = update.thresholds[r] OBVIOUS
  <2>3. \A k \in DOMAIN new : new[k] \in Int BY <1>3, <2>2, GateAssumption
  <2>4. DOMAIN old = {"approve", "clarify", "escalate", "autoReject"} BY DEF ThresholdRecords
  <2>5. \A k \in DOMAIN old : old[k] \in Int BY DEF ThresholdRecords
  <2>6. PICK m : m = Merged(old, new) OBVIOUS
  <2>7. m = [k \in {"approve", "clarify", "escalate", "autoReject"} |->
                IF k \in DOMAIN new THEN new[k] ELSE old[k]]
        BY <2>4, <2>6 DEF Merged
  <2>8. \A k \in {"approve", "clarify", "escalate", "autoReject"} : m[k] \in Int
        BY <2>3, <2>4, <2>5, <2>7
  <2>9. m \in ThresholdRecords BY <2>7, <2>8 DEF ThresholdRecords
  <2> QED BY <2>1, <2>2, <2>6, <2>9
<1>4. thresholds' \in [RiskLevels -> ThresholdRecords] BY <1>1, <1>2, <1>3
<1>5. DOMAIN switches' = DOMAIN DefaultSwitches BY <1>1 DEF Merged, GateInv, GateTyped
<1>6. RejectionsTyped' BY <1>1 DEF GateInv, RejectionsTyped
<1> QED BY <1>1, <1>4, <1>5, <1>6 DEF GateInv, GateTyped

LEMMA GateStep == GateInv /\ [GateNext]_gateVars => GateInv'
<1> SUFFICES ASSUME GateInv, [GateNext]_gateVars PROVE GateInv' OBVIOUS
<1>1. CASE UNCHANGED gateVars BY <1>1 DEF gateVars, GateInv, GateTyped, RejectionsTyped
<1>2. CASE GateNext
  <2>1. CASE \E intent \in GateIntents : Enforce(intent) BY <2>1, EnforceKeeps
  <2>2. CASE \E id \in GateIds, d \in {"approve", "reject"}, justified \in BOOLEAN :
                 Override(id, d, justified)
    <3>1. /\ gateSteps < MaxGateSteps /\ gateSteps' = gateSteps + 1
          /\ UNCHANGED <<thresholds, switches, rejections, everRejected>>
          BY <2>2 DEF Override
    <3>2. GateTyped' BY <3>1, GateAssumption DEF GateInv, GateTyped
    <3> QED BY <3>1, <3>2 DEF GateInv, RejectionsTyped
  <2>3. CASE \E update \in GateUpdates : UpdateThresholds(update) BY <2>3, UpdateKeeps
  <2> QED BY <1>2, <2>1, <2>2, <2>3 DEF GateNext
<1> QED BY <1>1, <1>2

LEMMA GateAlways == GateSpec => []GateInv
BY GateInitially, GateStep, PTL DEF GateSpec

\* The decision as a number: which thresholds the confidence does not reach.
LEMMA StrictnessIs ==
    ASSUME GateInv, NEW i \in GateIntents
    PROVE  /\ thresholds[i.risk] \in ThresholdRecords /\ i.confidence \in Int
           /\ Strictness[GateDecision(i)] =
                 IF i.confidence >= thresholds[i.risk].approve THEN 0
                 ELSE IF i.confidence >= thresholds[i.risk].clarify THEN 1
                 ELSE IF i.confidence >= thresholds[i.risk].escalate THEN 2 ELSE 3
<1>1. i.risk \in RiskLevels /\ i.confidence \in Int BY GateAssumption
<1>2. thresholds[i.risk] \in ThresholdRecords BY <1>1 DEF GateInv, GateTyped
<1> QED BY <1>1, <1>2 DEF GateDecision, Strictness

LEMMA GateFollows == GateInv => GateTypeOK /\ MoreConfidenceIsNeverWorse /\ RejectionsAreKept
<1> SUFFICES ASSUME GateInv PROVE GateTypeOK /\ MoreConfidenceIsNeverWorse /\ RejectionsAreKept
    OBVIOUS
<1>1. PICK s, t, n : s = rejections /\ t = everRejected /\ n = MaxRejections OBVIOUS
<1>2. PICK V : s \in Seq(V) /\ t \in Seq(V) /\ EndOf(s, t, n)
      BY <1>1 DEF GateInv, RejectionsTyped
<1>3. Len(s) \in Nat /\ Len(t) \in Nat /\ n \in Nat /\ DOMAIN s = 1 .. Len(s)
      /\ DOMAIN t = 1 .. Len(t)
      BY <1>1, <1>2, LenProperties, GateAssumption
<1>4. Len(s) <= n /\ Len(s) <= Len(t) BY <1>2, <1>3 DEF EndOf
<1>5. GateTypeOK
  <2>1. DOMAIN thresholds = DOMAIN GateDefaults BY GateAssumption DEF GateInv, GateTyped
  <2> QED BY <1>1, <1>4, <2>1 DEF GateInv, GateTyped, GateTypeOK, TotalEnforcements
<1>6. RejectionsAreKept
  <2>1. \A k \in DOMAIN s : s[k] = t[Len(t) - Len(s) + k] BY <1>2, <1>3 DEF EndOf
  <2>2. ASSUME Len(s) < n PROVE s = t
    <3>1. Len(s) = Len(t)
      <4>1. Len(s) = IF Len(t) < n THEN Len(t) ELSE n BY <1>2 DEF EndOf
      <4>2. PICK x, y, z \in Nat : x = Len(s) /\ y = Len(t) /\ z = n BY <1>3
      <4>3. x = (IF y < z THEN y ELSE z) /\ x < z BY <2>2, <4>1, <4>2
      <4>4. CASE y < z BY <4>2, <4>3, <4>4
      <4>5. CASE ~(y < z) BY <4>2, <4>3, <4>5
      <4> QED BY <4>4, <4>5
    <3>2. \A k \in 1 .. Len(s) : s[k] = t[k] BY <1>3, <2>1, <3>1
    <3> QED BY <1>2, <3>1, <3>2, SeqEqual
  <2> QED BY <1>1, <2>1, <2>2 DEF RejectionsAreKept
<1>7. ASSUME NEW i \in GateIntents, NEW j \in GateIntents, i.risk = j.risk, i.confidence <= j.confidence
      PROVE  Strictness[GateDecision(j)] <= Strictness[GateDecision(i)]
      BY <1>7, StrictnessIs DEF ThresholdRecords
<1>8. ASSUME NEW i \in GateIntents, NEW j \in GateIntents, InOrder, i.confidence = j.confidence,
             RiskRank[i.risk] < RiskRank[j.risk]
      PROVE  Strictness[GateDecision(i)] <= Strictness[GateDecision(j)]
  <2>1. PICK a, b : a = thresholds[i.risk] /\ b = thresholds[j.risk] OBVIOUS
  <2>2. i.risk \in RiskLevels /\ j.risk \in RiskLevels /\ DOMAIN thresholds = RiskLevels
        BY GateAssumption DEF GateInv, GateTyped
  <2>3. \A k \in {"approve", "clarify", "escalate"} : a[k] <= b[k]
        BY <1>8, <2>1, <2>2 DEF InOrder
  <2>4. a.approve <= b.approve /\ a.clarify <= b.clarify /\ a.escalate <= b.escalate BY <2>3
  <2> QED BY <1>8, <2>1, <2>4, StrictnessIs DEF ThresholdRecords
<1>9. ASSUME NEW i \in GateIntents, GateDecision(i) = "escalate"
      PROVE  NeedsHuman(i) /\ (i.risk = "destructive" => EscalatesTo(i) = "admin")
      BY <1>9 DEF NeedsHuman, EscalatesTo
<1> QED BY <1>5, <1>6, <1>7, <1>8, <1>9 DEF MoreConfidenceIsNeverWorse

\* Whatever updates of the thresholds are made (updateThresholds), an intent that the gate is
\* surer of is not treated more strictly, and with the thresholds in order a riskier one not
\* less strictly; and the rejections on file are the last ones there were (recordRejection).
THEOREM GateAlwaysHolds == GateSpec => [](MoreConfidenceIsNeverWorse /\ RejectionsAreKept)
<1>1. GateInv => MoreConfidenceIsNeverWorse /\ RejectionsAreKept BY GateFollows
<1> QED BY <1>1, GateAlways, PTL

-----------------------------------------------------------------------------
(***************************************************************************)
(* Credentials.  A row says what was issued, and that it is revoked once   *)
(* it was taken back; a row that is gone had expired; and the key of a     *)
(* process that has issued anything is the one it encrypted with.          *)
(***************************************************************************)

Rows == [workflow : WorkflowsOnFile, expires : Int, revoked : BOOLEAN, key : Int]

VaultTyped ==
    /\ keyConfigured \in BOOLEAN
    /\ process \in 1 .. MaxProcesses /\ vaultTime \in 0 .. MaxVaultTime
    /\ \E n \in Nat : IssuedIds = 1 .. n
    /\ \A i \in IssuedIds : issued[i].row \in Rows /\ issued[i].by \in 1 .. process
    /\ \A i \in DOMAIN credentialRows : i \in IssuedIds /\ credentialRows[i] \in Rows
    /\ takenBack \subseteq IssuedIds

KeysAreMade ==
    /\ encryptionKey = KeyAtStart \/ (~keyConfigured /\ encryptionKey = process)
    /\ \A i \in IssuedIds :
          /\ issued[i].row.key = IF keyConfigured THEN 0 ELSE issued[i].by
          /\ issued[i].by = process => encryptionKey # NoKey

SaysWhatWasIssued(i) ==
    /\ credentialRows[i].workflow = issued[i].row.workflow
    /\ credentialRows[i].expires = issued[i].row.expires
    /\ credentialRows[i].key = issued[i].row.key
    /\ credentialRows[i].revoked <=> i \in takenBack

RowsAreIssued == \A i \in DOMAIN credentialRows : SaysWhatWasIssued(i)
GoneHasExpired == \A i \in IssuedIds \ DOMAIN credentialRows : issued[i].row.expires < vaultTime

AnswersAreRight ==
    /\ vaultAnswer.is = "value" =>
          /\ vaultAnswer.id \in IssuedIds \ takenBack
          /\ vaultTime <= issued[vaultAnswer.id].row.expires
    /\ vaultAnswer.is = "statistics" =>
          /\ vaultAnswer.total <= vaultAnswer.active + vaultAnswer.expired + vaultAnswer.revoked
          /\ vaultAnswer.active + vaultAnswer.expired <= vaultAnswer.total
          /\ vaultAnswer.active + vaultAnswer.revoked <= vaultAnswer.total

VaultInv == VaultTyped /\ KeysAreMade /\ RowsAreIssued /\ GoneHasExpired /\ AnswersAreRight

LEMMA VaultInitially == VaultInit => VaultInv
<1> SUFFICES ASSUME VaultInit PROVE VaultInv OBVIOUS
<1>1. IssuedIds = {} /\ DOMAIN credentialRows = {} BY DEF VaultInit, IssuedIds
<1>2. IssuedIds = 1 .. 0 BY <1>1
<1>3. VaultTyped BY <1>1, <1>2, VaultAssumption DEF VaultInit, VaultTyped
<1>4. AnswersAreRight BY DEF VaultInit, NoAnswerYet, AnswersAreRight
<1> QED BY <1>1, <1>3, <1>4 DEF VaultInit, VaultInv, KeysAreMade, RowsAreIssued, GoneHasExpired

\* A record of another credential leaves those there are as they are.
LEMMA IssueKeeps ==
    ASSUME VaultInv, NEW w \in VaultWorkflows, NEW ttl \in Lifetimes, IssueCredential(w, ttl)
    PROVE  VaultInv'
<1> USE DEF VaultInv, VaultTyped
<1>1. PICK n \in Nat : IssuedIds = 1 .. n OBVIOUS
<1>2. Cardinality(IssuedIds) = n BY <1>1, FS_Interval
<1>3. PICK id : id = n + 1 OBVIOUS
<1>4. PICK row : row = [workflow |-> w, expires |-> vaultTime + ttl, revoked |-> FALSE,
                        key |-> EncryptingKey]
      OBVIOUS
<1>5. UNCHANGED <<keyConfigured, process, vaultTime, takenBack>>
      BY DEF IssueCredential
<1>6. encryptionKey' = EncryptingKey BY DEF IssueCredential
<1>11. process \in Nat /\ process # -1 BY VaultAssumption
<1>7. EncryptingKey = (IF keyConfigured THEN 0 ELSE process)
  <2>1. CASE keyConfigured
    <3>1. encryptionKey = 0 BY <2>1 DEF KeysAreMade, KeyAtStart
    <3> QED BY <2>1, <3>1 DEF EncryptingKey, NoKey
  <2>2. CASE ~keyConfigured
    <3>1. encryptionKey = NoKey \/ encryptionKey = process BY <2>2 DEF KeysAreMade, KeyAtStart
    <3> QED BY <1>11, <2>2, <3>1 DEF EncryptingKey, NoKey
  <2> QED BY <2>1, <2>2
<1>8. encryptionKey' # NoKey
      /\ (encryptionKey' = KeyAtStart' \/ (~keyConfigured' /\ encryptionKey' = process'))
      BY <1>5, <1>6, <1>7 DEF KeyAtStart, NoKey
<1>9. CASE w \notin WorkflowsOnFile
  <2>1. UNCHANGED <<credentialRows, issued>> /\ vaultAnswer' = [is |-> "error"]
        BY <1>9 DEF IssueCredential
  <2>2. IssuedIds' = IssuedIds BY <2>1 DEF IssuedIds
  <2>3. VaultTyped' BY <1>5, <2>1, <2>2
  <2>4. KeysAreMade' BY <1>5, <1>8, <2>1, <2>2 DEF KeysAreMade
  <2>5. RowsAreIssued' BY <1>5, <2>1 DEF RowsAreIssued, SaysWhatWasIssued
  <2>6. GoneHasExpired' BY <1>5, <2>1, <2>2 DEF GoneHasExpired
  <2>7. AnswersAreRight' BY <2>1 DEF AnswersAreRight
  <2> QED BY <2>3, <2>4, <2>5, <2>6, <2>7
<1>10. CASE w \in WorkflowsOnFile
  <2>1. /\ credentialRows' = [i \in DOMAIN credentialRows \cup {id} |->
                                 IF i = id THEN row ELSE credentialRows[i]]
        /\ issued' = [i \in IssuedIds \cup {id} |->
                         IF i = id THEN [by |-> process, row |-> row] ELSE issued[i]]
        /\ vaultAnswer' = [is |-> "value", id |-> id]
        BY <1>2, <1>3, <1>4, <1>10 DEF IssueCredential
  <2>2. IssuedIds' = IssuedIds \cup {id} /\ id \notin IssuedIds BY <1>1, <1>3, <2>1 DEF IssuedIds
  <2>3. IssuedIds' = 1 .. n + 1 BY <1>1, <1>3, <2>2
  <2>4. /\ issued'[id].by = process /\ issued'[id].row = row
        /\ \A i \in IssuedIds : issued'[i] = issued[i]
        BY <2>1, <2>2
  <2>5. /\ DOMAIN credentialRows' = DOMAIN credentialRows \cup {id}
        /\ credentialRows'[id] = row
        /\ \A i \in DOMAIN credentialRows : i # id /\ credentialRows'[i] = credentialRows[i]
        BY <2>1, <2>2
  <2>6. vaultTime + ttl \in Int /\ vaultTime <= vaultTime + ttl BY VaultAssumption
  <2>7. EncryptingKey \in Int BY <1>7
  <2>8. row \in Rows /\ row.workflow = w /\ row.expires = vaultTime + ttl /\ ~row.revoked
        /\ row.key = EncryptingKey
        BY <1>4, <1>10, <2>6, <2>7 DEF Rows
  <2>9. VaultTyped'
    <3>1. \A i \in IssuedIds' : issued'[i].row \in Rows /\ issued'[i].by \in 1 .. process'
          BY <1>5, <2>2, <2>4, <2>8
    <3>2. \A i \in DOMAIN credentialRows' : i \in IssuedIds' /\ credentialRows'[i] \in Rows
          BY <2>2, <2>5, <2>8
    <3>3. n + 1 \in Nat OBVIOUS
    <3> QED BY <1>5, <2>2, <2>3, <3>1, <3>2, <3>3
  <2>10. KeysAreMade'
    <3>1. ASSUME NEW i \in IssuedIds' PROVE issued'[i].row.key = IF keyConfigured' THEN 0 ELSE issued'[i].by
      <4>1. CASE i = id BY <4>1, <1>5, <1>7, <2>4, <2>8
      <4>2. CASE i # id BY <4>2, <1>5, <2>2, <2>4 DEF KeysAreMade
      <4> QED BY <4>1, <4>2
    <3> QED BY <1>8, <3>1 DEF KeysAreMade
  <2>11. RowsAreIssued'
    <3>1. SaysWhatWasIssued(id)' BY <1>5, <2>2, <2>4, <2>5, <2>8 DEF SaysWhatWasIssued
    <3>2. \A i \in DOMAIN credentialRows : SaysWhatWasIssued(i)'
          BY <1>5, <2>4, <2>5 DEF SaysWhatWasIssued, RowsAreIssued
    <3> QED BY <2>5, <3>1, <3>2 DEF RowsAreIssued
  <2>12. GoneHasExpired' BY <1>5, <2>2, <2>4, <2>5 DEF GoneHasExpired
  <2>13. AnswersAreRight'
        BY <1>5, <2>1, <2>2, <2>4, <2>6, <2>8 DEF AnswersAreRight
  <2> QED BY <2>9, <2>10, <2>11, <2>12, <2>13
<1> QED BY <1>9, <1>10

\* Who is handed a credential has its nonce, before its end, and nobody has taken it back.
LEMMA GetKeeps ==
    ASSUME VaultInv, NEW id \in IssuedIds, NEW nonce \in IssuedIds, GetCredential(id, nonce)
    PROVE  VaultInv'
<1>1. /\ vaultAnswer' = IF Refusal(id, nonce) = "none" THEN [is |-> "value", id |-> id]
                        ELSE [is |-> "error"]
      /\ UNCHANGED <<keyConfigured, encryptionKey, process, credentialRows, vaultTime, issued,
                     takenBack>>
      BY DEF GetCredential
<1>2. IssuedIds' = IssuedIds BY <1>1 DEF IssuedIds
<1>3. VaultTyped' BY <1>1, <1>2 DEF VaultInv, VaultTyped
<1>4. KeysAreMade' BY <1>1, <1>2 DEF VaultInv, KeysAreMade, KeyAtStart
<1>5. RowsAreIssued' /\ GoneHasExpired'
      BY <1>1, <1>2 DEF VaultInv, RowsAreIssued, SaysWhatWasIssued, GoneHasExpired
<1>6. AnswersAreRight'
  <2>1. CASE Refusal(id, nonce) = "none"
    <3>1. id \in DOMAIN credentialRows /\ ~credentialRows[id].revoked
          /\ ~(credentialRows[id].expires < vaultTime)
          BY <2>1 DEF Refusal
    <3>2. /\ credentialRows[id].expires = issued[id].row.expires /\ id \notin takenBack
          /\ issued[id].row.expires \in Int /\ vaultTime \in Int
          BY <3>1 DEF VaultInv, VaultTyped, RowsAreIssued, SaysWhatWasIssued, Rows
    <3> QED BY <1>1, <1>2, <2>1, <3>1, <3>2 DEF AnswersAreRight
  <2>2. CASE Refusal(id, nonce) # "none" BY <1>1, <2>2 DEF AnswersAreRight
  <2> QED BY <2>1, <2>2
<1> QED BY <1>3, <1>4, <1>5, <1>6 DEF VaultInv

\* What both revocations do to the rows.
LEMMA RevokeKeeps ==
    ASSUME VaultInv, NEW ids, Revoke(ids), takenBack \subseteq takenBack', takenBack' \subseteq IssuedIds,
           \A i \in DOMAIN credentialRows : i \in takenBack' <=> i \in ids \/ i \in takenBack
    PROVE  VaultInv'
<1>1. /\ credentialRows' = [i \in DOMAIN credentialRows |->
                              IF i \in ids THEN [credentialRows[i] EXCEPT !.revoked = TRUE]
                              ELSE credentialRows[i]]
      /\ vaultAnswer' = NoAnswerYet
      /\ UNCHANGED <<keyConfigured, encryptionKey, process, vaultTime, issued>>
      BY DEF Revoke
<1>2. IssuedIds' = IssuedIds BY <1>1 DEF IssuedIds
<1>3. DOMAIN credentialRows' = DOMAIN credentialRows BY <1>1
<1>4. ASSUME NEW i \in DOMAIN credentialRows PROVE credentialRows'[i] \in Rows /\ SaysWhatWasIssued(i)'
  <2>1. PICK r \in Rows : r = credentialRows[i] BY DEF VaultInv, VaultTyped
  <2>2. PICK s : s = credentialRows'[i] OBVIOUS
  <2>3. s = IF i \in ids THEN [r EXCEPT !.revoked = TRUE] ELSE r BY <1>1, <2>1, <2>2
  <2>4. s \in Rows /\ s.workflow = r.workflow /\ s.expires = r.expires /\ s.key = r.key
        BY <2>3 DEF Rows
  <2>5. s.revoked <=> i \in ids \/ r.revoked BY <2>3 DEF Rows
  <2>6. SaysWhatWasIssued(i) BY DEF VaultInv, RowsAreIssued
  <2> QED BY <1>1, <2>1, <2>2, <2>4, <2>5, <2>6 DEF SaysWhatWasIssued
<1>5. VaultTyped' BY <1>1, <1>2, <1>3, <1>4 DEF VaultInv, VaultTyped
<1>6. KeysAreMade' BY <1>1, <1>2 DEF VaultInv, KeysAreMade, KeyAtStart
<1>7. RowsAreIssued' /\ GoneHasExpired'
      BY <1>1, <1>2, <1>3, <1>4 DEF VaultInv, RowsAreIssued, GoneHasExpired
<1>8. AnswersAreRight' BY <1>1 DEF AnswersAreRight, NoAnswerYet
<1> QED BY <1>5, <1>6, <1>7, <1>8 DEF VaultInv

LEMMA RevokeOneKeeps ==
    ASSUME VaultInv, NEW id \in IssuedIds, RevokeCredential(id)
    PROVE  VaultInv'
<1>1. Revoke({id}) /\ takenBack' = takenBack \cup {id} BY DEF RevokeCredential
<1>2. takenBack \subseteq IssuedIds BY DEF VaultInv, VaultTyped
<1> QED BY <1>1, <1>2, RevokeKeeps

LEMMA RevokeAllKeeps ==
    ASSUME VaultInv, NEW w \in VaultWorkflows, RevokeWorkflowCredentials(w)
    PROVE  VaultInv'
<1>1. PICK ids : ids = {i \in DOMAIN credentialRows :
                          credentialRows[i].workflow = w /\ ~credentialRows[i].revoked}
      OBVIOUS
<1>2. Revoke(ids) /\ takenBack' = takenBack \cup {i \in IssuedIds : issued[i].row.workflow = w}
      BY <1>1 DEF RevokeWorkflowCredentials
<1>3. takenBack \subseteq IssuedIds BY DEF VaultInv, VaultTyped
<1>4. ASSUME NEW i \in DOMAIN credentialRows
      PROVE  i \in takenBack' <=> i \in ids \/ i \in takenBack
  <2>1. i \in IssuedIds /\ SaysWhatWasIssued(i) BY DEF VaultInv, VaultTyped, RowsAreIssued
  <2> QED BY <1>1, <1>2, <2>1 DEF SaysWhatWasIssued
<1> QED BY <1>2, <1>3, <1>4, RevokeKeeps

\* A cleanup, also that of the vault of a new process, takes what has expired.
LEMMA CleanupKeeps ==
    ASSUME VaultInv, credentialRows' = [i \in KeptRows |-> credentialRows[i]],
           UNCHANGED <<keyConfigured, vaultTime, issued, takenBack>>
    PROVE  /\ VaultTyped /\ process' \in 1 .. MaxProcesses /\ process <= process' => VaultTyped'
           /\ RowsAreIssued' /\ GoneHasExpired'
<1>1. IssuedIds' = IssuedIds BY DEF IssuedIds
<1>2. /\ DOMAIN credentialRows' = KeptRows /\ KeptRows \subseteq DOMAIN credentialRows
      /\ \A i \in KeptRows : credentialRows'[i] = credentialRows[i]
      BY DEF KeptRows
<1>3. ASSUME process' \in 1 .. MaxProcesses, process <= process' PROVE VaultTyped'
  <2>1. \A i \in IssuedIds : issued[i].by \in 1 .. process'
        BY <1>3, VaultAssumption DEF VaultInv, VaultTyped
  <2> QED BY <1>1, <1>2, <1>3, <2>1 DEF VaultInv, VaultTyped
<1>4. RowsAreIssued' BY <1>2 DEF VaultInv, RowsAreIssued, SaysWhatWasIssued
<1>5. GoneHasExpired'
  <2> SUFFICES ASSUME NEW i \in IssuedIds, i \notin KeptRows PROVE issued[i].row.expires < vaultTime
      BY <1>1, <1>2 DEF GoneHasExpired
  <2>1. CASE i \in DOMAIN credentialRows
    <3>1. ~(credentialRows[i].expires >= vaultTime) BY <2>1 DEF KeptRows
    <3>2. credentialRows[i].expires = issued[i].row.expires
          BY <2>1 DEF VaultInv, RowsAreIssued, SaysWhatWasIssued
    <3>3. issued[i].row.expires \in Int /\ vaultTime \in Int BY DEF VaultInv, VaultTyped, Rows
    <3> QED BY <3>1, <3>2, <3>3
  <2>2. CASE i \notin DOMAIN credentialRows BY <2>2 DEF VaultInv, GoneHasExpired
  <2> QED BY <2>1, <2>2
<1> QED BY <1>3, <1>4, <1>5

LEMMA CleanupCredentialsKeeps ==
    ASSUME VaultInv, CleanupCredentials
    PROVE  VaultInv'
<1>1. /\ credentialRows' = [i \in KeptRows |-> credentialRows[i]]
      /\ vaultAnswer' = NoAnswerYet
      /\ UNCHANGED <<keyConfigured, encryptionKey, process, vaultTime, issued, takenBack>>
      BY DEF CleanupCredentials
<1>2. process' \in 1 .. MaxProcesses /\ process <= process'
      BY <1>1, VaultAssumption DEF VaultInv, VaultTyped
<1>3. VaultTyped' /\ RowsAreIssued' /\ GoneHasExpired'
      BY <1>1, <1>2, CleanupKeeps DEF VaultInv
<1>4. IssuedIds' = IssuedIds BY <1>1 DEF IssuedIds
<1>5. KeysAreMade' BY <1>1, <1>4 DEF VaultInv, KeysAreMade, KeyAtStart
<1>6. AnswersAreRight' BY <1>1 DEF AnswersAreRight, NoAnswerYet
<1> QED BY <1>3, <1>5, <1>6 DEF VaultInv

\* A new process has made no credential yet.
LEMMA VaultRestartKeeps ==
    ASSUME VaultInv, VaultRestart
    PROVE  VaultInv'
<1>1. /\ process < MaxProcesses /\ process' = process + 1 /\ encryptionKey' = KeyAtStart
      /\ credentialRows' = [i \in KeptRows |-> credentialRows[i]]
      /\ vaultAnswer' = NoAnswerYet
      /\ UNCHANGED <<keyConfigured, vaultTime, issued, takenBack>>
      BY DEF VaultRestart
<1>2. process' \in 1 .. MaxProcesses /\ process <= process'
      BY <1>1, VaultAssumption DEF VaultInv, VaultTyped
<1>3. VaultTyped' /\ RowsAreIssued' /\ GoneHasExpired'
      BY <1>1, <1>2, CleanupKeeps DEF VaultInv
<1>4. IssuedIds' = IssuedIds BY <1>1 DEF IssuedIds
<1>5. \A i \in IssuedIds : issued[i].by # process'
  <2>1. \A i \in IssuedIds : issued[i].by \in 1 .. process BY DEF VaultInv, VaultTyped
  <2>2. process \in Nat BY VaultAssumption DEF VaultInv, VaultTyped
  <2> QED BY <1>1, <2>1, <2>2
<1>6. KeysAreMade' BY <1>1, <1>4, <1>5 DEF VaultInv, KeysAreMade, KeyAtStart
<1>7. AnswersAreRight' BY <1>1 DEF AnswersAreRight, NoAnswerYet
<1> QED BY <1>3, <1>6, <1>7 DEF VaultInv

LEMMA VaultTickKeeps ==
    ASSUME VaultInv, VaultTick
    PROVE  VaultInv'
<1>1. /\ vaultTime < MaxVaultTime /\ vaultTime' = vaultTime + 1 /\ vaultAnswer' = NoAnswerYet
      /\ UNCHANGED <<keyConfigured, encryptionKey, process, credentialRows, issued, takenBack>>
      BY DEF VaultTick
<1>2. IssuedIds' = IssuedIds BY <1>1 DEF IssuedIds
<1>3. vaultTime' \in 0 .. MaxVaultTime BY <1>1, VaultAssumption DEF VaultInv, VaultTyped
<1>4. VaultTyped' BY <1>1, <1>2, <1>3 DEF VaultInv, VaultTyped
<1>5. KeysAreMade' BY <1>1, <1>2 DEF VaultInv, KeysAreMade, KeyAtStart
<1>6. RowsAreIssued' BY <1>1, <1>2 DEF VaultInv, RowsAreIssued, SaysWhatWasIssued
<1>7. \A i \in IssuedIds : issued[i].row.expires \in Int BY DEF VaultInv, VaultTyped, Rows
<1>8. vaultTime \in Int BY DEF VaultInv, VaultTyped
<1>9. GoneHasExpired' BY <1>1, <1>2, <1>7, <1>8 DEF VaultInv, GoneHasExpired
<1>10. AnswersAreRight' BY <1>1 DEF AnswersAreRight, NoAnswerYet
<1> QED BY <1>4, <1>5, <1>6, <1>9, <1>10 DEF VaultInv

\* How many of a finite set are in one of its three parts, of which one meets no other.
LEMMA PartsCount ==
    ASSUME NEW D, IsFiniteSet(D), NEW A, NEW E, NEW R, D = A \cup E \cup R,
           A \cap E = {}, A \cap R = {}
    PROVE  /\ Cardinality(D) <= Cardinality(A) + Cardinality(E) + Cardinality(R)
           /\ Cardinality(A) + Cardinality(E) <= Cardinality(D)
           /\ Cardinality(A) + Cardinality(R) <= Cardinality(D)
<1>1. IsFiniteSet(A) /\ IsFiniteSet(E) /\ IsFiniteSet(R) BY FS_Subset
<1>2. Cardinality(A) \in Nat /\ Cardinality(E) \in Nat /\ Cardinality(R) \in Nat
      /\ Cardinality(D) \in Nat
      BY <1>1, FS_CardinalityType
<1>3. IsFiniteSet(A \cup E) /\ Cardinality(A \cup E) = Cardinality(A) + Cardinality(E)
  <2>1. IsFiniteSet(A \cup E)
        /\ Cardinality(A \cup E) = Cardinality(A) + Cardinality(E) - Cardinality(A \cap E)
        BY <1>1, FS_Union
  <2>2. Cardinality(A \cap E) = 0 BY FS_EmptySet
  <2> QED BY <1>2, <2>1, <2>2
<1>4. IsFiniteSet(A \cup R) /\ Cardinality(A \cup R) = Cardinality(A) + Cardinality(R)
  <2>1. IsFiniteSet(A \cup R)
        /\ Cardinality(A \cup R) = Cardinality(A) + Cardinality(R) - Cardinality(A \cap R)
        BY <1>1, FS_Union
  <2>2. Cardinality(A \cap R) = 0 BY FS_EmptySet
  <2> QED BY <1>2, <2>1, <2>2
<1>5. Cardinality(A \cup E) <= Cardinality(D) BY FS_Subset
<1>6. Cardinality(A \cup R) <= Cardinality(D) BY FS_Subset
<1>7. Cardinality(D) = Cardinality(A \cup E) + Cardinality(R) - Cardinality((A \cup E) \cap R)
      BY <1>1, <1>3, FS_Union
<1>8. Cardinality((A \cup E) \cap R) \in Nat
  <2>1. IsFiniteSet((A \cup E) \cap R) BY <1>1, <1>3, FS_Intersection
  <2> QED BY <2>1, FS_CardinalityType
<1> QED BY <1>2, <1>3, <1>4, <1>5, <1>6, <1>7, <1>8

LEMMA GetStatsKeeps ==
    ASSUME VaultInv, GetStats
    PROVE  VaultInv'
<1>1. PICK D, A, E, R : /\ D = DOMAIN credentialRows /\ A = Active
                        /\ E = {i \in DOMAIN credentialRows : credentialRows[i].expires <= vaultTime}
                        /\ R = {i \in DOMAIN credentialRows : credentialRows[i].revoked}
      OBVIOUS
<1>2. /\ vaultAnswer' = [is |-> "statistics", total |-> Cardinality(D), active |-> Cardinality(A),
                         expired |-> Cardinality(E), revoked |-> Cardinality(R)]
      /\ UNCHANGED <<keyConfigured, encryptionKey, process, credentialRows, vaultTime, issued,
                     takenBack>>
      BY <1>1 DEF GetStats
<1>3. IssuedIds' = IssuedIds BY <1>2 DEF IssuedIds
<1>4. VaultTyped' BY <1>2, <1>3 DEF VaultInv, VaultTyped
<1>5. KeysAreMade' BY <1>2, <1>3 DEF VaultInv, KeysAreMade, KeyAtStart
<1>6. RowsAreIssued' /\ GoneHasExpired'
      BY <1>2, <1>3 DEF VaultInv, RowsAreIssued, SaysWhatWasIssued, GoneHasExpired
<1>7. IsFiniteSet(D)
  <2>1. PICK n \in Nat : IssuedIds = 1 .. n BY DEF VaultInv, VaultTyped
  <2>2. IsFiniteSet(1 .. n) BY <2>1, FS_Interval
  <2>3. D \subseteq 1 .. n BY <1>1, <2>1 DEF VaultInv, VaultTyped
  <2> QED BY <2>2, <2>3, FS_Subset
<1>8. D = A \cup E \cup R /\ A \cap E = {} /\ A \cap R = {}
  <2>1. \A i \in D : credentialRows[i].expires \in Int /\ vaultTime \in Int
        BY <1>1 DEF VaultInv, VaultTyped, Rows
  <2>2. \A i \in D : ~(credentialRows[i].expires <= vaultTime) <=> credentialRows[i].expires > vaultTime
        BY <2>1
  <2> QED BY <1>1, <2>2 DEF Active
<1>9. /\ Cardinality(D) <= Cardinality(A) + Cardinality(E) + Cardinality(R)
      /\ Cardinality(A) + Cardinality(E) <= Cardinality(D)
      /\ Cardinality(A) + Cardinality(R) <= Cardinality(D)
      BY <1>7, <1>8, PartsCount
<1>10. AnswersAreRight' BY <1>2, <1>9 DEF AnswersAreRight
<1> QED BY <1>4, <1>5, <1>6, <1>10 DEF VaultInv

LEMMA VaultStep == VaultInv /\ [VaultNext]_vaultVars => VaultInv'
<1> SUFFICES ASSUME VaultInv, [VaultNext]_vaultVars PROVE VaultInv' OBVIOUS
<1>1. CASE UNCHANGED vaultVars
  <2>1. IssuedIds' = IssuedIds BY <1>1 DEF vaultVars, IssuedIds
  <2> QED BY <1>1, <2>1
          DEF vaultVars, VaultInv, VaultTyped, KeysAreMade, KeyAtStart, RowsAreIssued,
              SaysWhatWasIssued, GoneHasExpired, AnswersAreRight
<1>2. CASE VaultNext
  <2>1. CASE CleanupCredentials BY <2>1, CleanupCredentialsKeeps
  <2>2. CASE VaultRestart BY <2>2, VaultRestartKeeps
  <2>3. CASE GetStats BY <2>3, GetStatsKeeps
  <2>4. CASE VaultTick BY <2>4, VaultTickKeeps
  <2>5. CASE \E w \in VaultWorkflows : RevokeWorkflowCredentials(w) BY <2>5, RevokeAllKeeps
  <2>6. CASE \E w \in VaultWorkflows, ttl \in Lifetimes : IssueCredential(w, ttl)
        BY <2>6, IssueKeeps
  <2>7. CASE \E id \in IssuedIds : RevokeCredential(id) BY <2>7, RevokeOneKeeps
  <2>8. CASE \E id, nonce \in IssuedIds : GetCredential(id, nonce) BY <2>8, GetKeeps
  <2> QED BY <1>2, <2>1, <2>2, <2>3, <2>4, <2>5, <2>6, <2>7, <2>8 DEF VaultNext
<1> QED BY <1>1, <1>2

LEMMA VaultAlways == VaultSpec => []VaultInv
BY VaultInitially, VaultStep, PTL DEF VaultSpec

\* Until its end, and as long as it is not taken back, a row is there, and who has its nonce
\* is refused only for want of the key.
LEMMA RefusedForTheKey ==
    ASSUME VaultInv, NEW id \in IssuedIds \ takenBack, vaultTime <= issued[id].row.expires
    PROVE  /\ id \in DOMAIN credentialRows
           /\ Refusal(id, id) = IF Decrypts(credentialRows[id]) THEN "none" ELSE "decrypt"
<1>1. issued[id].row.expires \in Int /\ vaultTime \in Int BY DEF VaultInv, VaultTyped, Rows
<1>2. id \in DOMAIN credentialRows BY <1>1 DEF VaultInv, GoneHasExpired
<1>3. ~credentialRows[id].revoked /\ credentialRows[id].expires = issued[id].row.expires
      BY <1>2 DEF VaultInv, RowsAreIssued, SaysWhatWasIssued
<1> QED BY <1>1, <1>2, <1>3 DEF Refusal

LEMMA CredentialsFollow ==
    VaultInv => VaultTypeOK /\ NothingAfterTheEnd /\ HeldUntilTheEnd /\ StatisticsAreOfRows
<1> SUFFICES ASSUME VaultInv
             PROVE  VaultTypeOK /\ NothingAfterTheEnd /\ HeldUntilTheEnd /\ StatisticsAreOfRows
    OBVIOUS
<1>1. VaultTypeOK
  <2>1. encryptionKey \in NoKey .. process
        BY VaultAssumption DEF VaultInv, VaultTyped, KeysAreMade, KeyAtStart, NoKey
  <2> QED BY <2>1 DEF VaultInv, VaultTyped, VaultTypeOK
<1>2. NothingAfterTheEnd BY DEF VaultInv, VaultTyped, AnswersAreRight, NothingAfterTheEnd, Rows
<1>3. ASSUME NEW id \in IssuedIds \ takenBack, vaultTime <= issued[id].row.expires
      PROVE  Refusal(id, id) = "none" <=> keyConfigured \/ issued[id].by = process
  <2>1. /\ id \in DOMAIN credentialRows
        /\ Refusal(id, id) = IF Decrypts(credentialRows[id]) THEN "none" ELSE "decrypt"
        BY <1>3, RefusedForTheKey
  <2>2. credentialRows[id].key = IF keyConfigured THEN 0 ELSE issued[id].by
        BY <2>1 DEF VaultInv, RowsAreIssued, SaysWhatWasIssued, KeysAreMade
  <2>3. issued[id].by \in 1 .. process /\ process \in Nat
        BY VaultAssumption DEF VaultInv, VaultTyped
  <2>4. CASE keyConfigured
        BY <2>1, <2>2, <2>4 DEF VaultInv, KeysAreMade, KeyAtStart, Decrypts, NoKey
  <2>5. CASE ~keyConfigured
    <3>1. encryptionKey = NoKey \/ encryptionKey = process
          BY <2>5 DEF VaultInv, KeysAreMade, KeyAtStart
    <3>2. issued[id].by = process => encryptionKey # NoKey BY DEF VaultInv, KeysAreMade
    <3> QED BY <2>1, <2>2, <2>3, <2>5, <3>1, <3>2 DEF Decrypts, NoKey
  <2> QED BY <2>4, <2>5
<1>4. ASSUME NEW id \in Active PROVE Refusal(id, id) \in {"none", "decrypt"}
  <2>1. id \in DOMAIN credentialRows /\ ~credentialRows[id].revoked
        /\ credentialRows[id].expires > vaultTime
        BY DEF Active
  <2>2. credentialRows[id].expires \in Int /\ vaultTime \in Int
        BY <2>1 DEF VaultInv, VaultTyped, Rows
  <2> QED BY <2>1, <2>2 DEF Refusal
<1>5. StatisticsAreOfRows BY <1>4 DEF VaultInv, AnswersAreRight, StatisticsAreOfRows
<1> QED BY <1>1, <1>2, <1>3, <1>5 DEF HeldUntilTheEnd

\* Across restarts, cleanups and clocks (SecretsVault): nobody is handed a credential after its
\* end, whoever holds its nonce is handed it until then if the key is there, and the statistics
\* count what is in the table.
THEOREM CredentialsStayKept ==
    VaultSpec => [](NothingAfterTheEnd /\ HeldUntilTheEnd /\ StatisticsAreOfRows)
<1>1. VaultInv => NothingAfterTheEnd /\ HeldUntilTheEnd /\ StatisticsAreOfRows BY CredentialsFollow
<1> QED BY <1>1, VaultAlways, PTL

-----------------------------------------------------------------------------
(***************************************************************************)
(* The migrations of the schema.                                           *)
(***************************************************************************)

\* What the variables hold; where a process is that migrates tells what it has found.
OpeningOK ==
    opening \in [DbProcesses -> [at : {"down", "migrating", "up", "failed"},
                                 start : 0 .. LastVersion, next : 0 .. LastVersion + 1]]

\* The rows are the first versions, without a gap.
Prefix == \E k \in 0 .. LastVersion : schemaVersion = 1 .. k

AppliedOnce ==
    /\ applied \in [Versions -> {0, 1}]
    /\ \A v \in Versions : applied[v] = 1 <=> v \in schemaVersion

\* A process that migrates has behind it what is in the file already.
BehindIsApplied ==
    \A p \in DbProcesses : opening[p].at = "migrating" =>
        /\ opening[p].next >= 1
        /\ 1 .. opening[p].start \subseteq schemaVersion
        /\ 1 .. opening[p].next - 1 \subseteq schemaVersion

\* Two that migrate at once overlap; one that overlaps nobody finds nothing new.
OverlapIsNoted ==
    /\ \A p, q \in DbProcesses :
          p # q /\ opening[p].at = "migrating" /\ opening[q].at = "migrating" => p \in overlapped
    /\ \A p \in DbProcesses : opening[p].at = "migrating" /\ p \notin overlapped =>
          \A v \in schemaVersion : v <= opening[p].start \/ v < opening[p].next

SchemaInv ==
    /\ OpeningOK /\ deaths \in 0 .. MaxDeaths /\ overlapped \subseteq DbProcesses
    /\ Prefix /\ AppliedOnce /\ BehindIsApplied /\ UpFindsAll
    /\ OverlapIsNoted /\ AloneComesUp

-----------------------------------------------------------------------------
\* The version that a process reads is the last row, of any there are.
LEMMA MaxRowIsLast ==
    ASSUME NEW k \in 0 .. LastVersion, schemaVersion = 1 .. k
    PROVE  MaxRow = k
<1> USE MigrationsAssumption
<1>1. CASE k = 0 BY <1>1 DEF MaxRow
<1>2. CASE k # 0
  <2>1. k \in schemaVersion /\ \A w \in schemaVersion : w <= k BY <1>2
  <2>2. \A v \in schemaVersion : (\A w \in schemaVersion : w <= v) => v = k BY <1>2, <2>1
  <2>3. MaxRow = CHOOSE v \in schemaVersion : \A w \in schemaVersion : w <= v
        BY <2>1 DEF MaxRow
  <2> QED BY <2>1, <2>2, <2>3
<1> QED BY <1>1, <1>2

LEMMA SchemaInitially == SchemaInit => SchemaInv
<1> SUFFICES ASSUME SchemaInit PROVE SchemaInv OBVIOUS
<1> USE MigrationsAssumption DEF SchemaInit, Down
<1>1. PICK k \in 0 .. LastVersion :
          schemaVersion = 1 .. k /\ applied = [w \in Versions |-> IF w <= k THEN 1 ELSE 0]
      OBVIOUS
<1>2. Prefix /\ AppliedOnce BY <1>1 DEF Prefix, AppliedOnce, Versions
<1>3. OpeningOK /\ deaths \in 0 .. MaxDeaths /\ overlapped \subseteq DbProcesses BY DEF OpeningOK
<1>4. \A p \in DbProcesses : opening[p].at = "down" OBVIOUS
<1>5. BehindIsApplied /\ UpFindsAll /\ OverlapIsNoted /\ AloneComesUp
      BY <1>4 DEF BehindIsApplied, UpFindsAll, OverlapIsNoted, AloneComesUp
<1> QED BY <1>2, <1>3, <1>5 DEF SchemaInv

\* A step that leaves the file alone keeps what is said of the file.
LEMMA FileKept ==
    ASSUME SchemaInv, UNCHANGED <<schemaVersion, applied>>
    PROVE  Prefix' /\ AppliedOnce'
BY DEF SchemaInv, Prefix, AppliedOnce

\* A process that reads the version knows all rows, and overlaps whoever migrates.
LEMMA ReadVersionKeeps ==
    ASSUME SchemaInv, NEW p \in DbProcesses, ReadVersion(p)
    PROVE  SchemaInv'
<1> USE MigrationsAssumption
<1>1. PICK k \in 0 .. LastVersion : schemaVersion = 1 .. k BY DEF SchemaInv, Prefix
<1>2. MaxRow = k BY <1>1, MaxRowIsLast
<1>3. /\ opening[p].at = "down" /\ UNCHANGED <<schemaVersion, applied, deaths>>
      /\ opening' = [opening EXCEPT ![p] = [at |-> "migrating", start |-> k, next |-> 1]]
      BY <1>2 DEF ReadVersion
<1>4. OpeningOK' BY <1>3 DEF SchemaInv, OpeningOK
<1>5. /\ opening'[p] = [at |-> "migrating", start |-> k, next |-> 1]
      /\ \A q \in DbProcesses \ {p} : opening'[q] = opening[q]
      BY <1>3 DEF SchemaInv, OpeningOK
<1>6. Prefix' /\ AppliedOnce' BY <1>3, FileKept
<1>7. BehindIsApplied' BY <1>1, <1>3, <1>5 DEF SchemaInv, BehindIsApplied
<1>8. UpFindsAll' BY <1>3, <1>5 DEF SchemaInv, UpFindsAll
<1>9. \/ Others(p) = {} /\ overlapped' = overlapped \ {p}
      \/ Others(p) # {} /\ overlapped' = overlapped \cup Others(p) \cup {p}
      BY DEF ReadVersion
<1>10. \A q \in DbProcesses \ {p} : q \in Others(p) <=> opening[q].at = "migrating"
       BY DEF Others
<1>11. overlapped' \subseteq DbProcesses BY <1>9 DEF SchemaInv, Others
<1>12. \A q \in DbProcesses \ {p} : q \in overlapped => q \in overlapped' BY <1>9
<1>13. ASSUME NEW q \in DbProcesses, NEW r \in DbProcesses, q # r,
              opening'[q].at = "migrating", opening'[r].at = "migrating"
       PROVE  q \in overlapped'
  <2>1. CASE q = p BY <2>1, <1>5, <1>9, <1>10, <1>13
  <2>2. CASE q # p /\ r = p BY <2>2, <1>5, <1>9, <1>10, <1>13
  <2>3. CASE q # p /\ r # p BY <2>3, <1>5, <1>12, <1>13 DEF SchemaInv, OverlapIsNoted
  <2> QED BY <2>1, <2>2, <2>3
<1>14. ASSUME NEW q \in DbProcesses, opening'[q].at = "migrating", q \notin overlapped',
              NEW v \in schemaVersion
       PROVE  v <= opening'[q].start \/ v < opening'[q].next
  <2>1. CASE q = p BY <2>1, <1>1, <1>5
  <2>2. CASE q # p BY <2>2, <1>5, <1>12, <1>14 DEF SchemaInv, OverlapIsNoted
  <2> QED BY <2>1, <2>2
<1>15. OverlapIsNoted' BY <1>3, <1>13, <1>14 DEF OverlapIsNoted
<1>16. AloneComesUp' BY <1>5, <1>12 DEF SchemaInv, AloneComesUp
<1> QED BY <1>3, <1>4, <1>6, <1>7, <1>8, <1>11, <1>15, <1>16 DEF SchemaInv

LEMMA SkipKeeps ==
    ASSUME SchemaInv, NEW p \in DbProcesses, Skip(p)
    PROVE  SchemaInv'
<1> USE MigrationsAssumption
<1>1. /\ opening[p].at = "migrating" /\ opening[p].next \in 1 .. LastVersion
      /\ opening[p].next <= opening[p].start
      /\ opening' = [opening EXCEPT ![p].next = opening[p].next + 1]
      /\ UNCHANGED <<schemaVersion, applied, deaths, overlapped>>
      BY DEF Skip, Versions
<1>2. /\ opening[p] \in [at : {"down", "migrating", "up", "failed"},
                         start : 0 .. LastVersion, next : 0 .. LastVersion + 1]
      BY DEF SchemaInv, OpeningOK
<1>3. /\ opening'[p].at = "migrating" /\ opening'[p].start = opening[p].start
      /\ opening'[p].next = opening[p].next + 1
      /\ \A q \in DbProcesses \ {p} : opening'[q] = opening[q]
      BY <1>1 DEF SchemaInv, OpeningOK
<1>4. OpeningOK' BY <1>1, <1>2 DEF SchemaInv, OpeningOK
<1>5. Prefix' /\ AppliedOnce' BY <1>1, FileKept
<1>6. 1 .. opening'[p].next - 1 \subseteq schemaVersion
  <2>1. 1 .. opening[p].start \subseteq schemaVersion BY <1>1 DEF SchemaInv, BehindIsApplied
  <2> QED BY <1>1, <1>2, <1>3, <2>1
<1>7. BehindIsApplied' BY <1>1, <1>3, <1>6 DEF SchemaInv, BehindIsApplied
<1>8. UpFindsAll' BY <1>1, <1>3 DEF SchemaInv, UpFindsAll
<1>9. OverlapIsNoted'
  <2>1. \A q \in DbProcesses : opening'[q].at = opening[q].at BY <1>1, <1>3
  <2>2. ASSUME NEW q \in DbProcesses, opening'[q].at = "migrating", q \notin overlapped,
               NEW v \in schemaVersion
        PROVE  v <= opening'[q].start \/ v < opening'[q].next
    <3>1. v \in Nat BY DEF SchemaInv, Prefix
    <3>2. v <= opening[q].start \/ v < opening[q].next
          BY <2>1, <2>2 DEF SchemaInv, OverlapIsNoted
    <3>3. CASE q = p BY <3>1, <3>2, <3>3, <1>1, <1>2, <1>3
    <3>4. CASE q # p BY <3>2, <3>4, <1>3
    <3> QED BY <3>3, <3>4
  <2> QED BY <1>1, <2>1, <2>2 DEF SchemaInv, OverlapIsNoted
<1>10. AloneComesUp' BY <1>1, <1>3 DEF SchemaInv, AloneComesUp
<1> QED BY <1>1, <1>4, <1>5, <1>7, <1>8, <1>9, <1>10 DEF SchemaInv

\* What is applied is the next version: all before it are in the file, and it is not.
LEMMA ApplyKeeps ==
    ASSUME SchemaInv, NEW p \in DbProcesses, Apply(p)
    PROVE  SchemaInv'
<1> USE MigrationsAssumption
<1> DEFINE v == opening[p].next
<1>1. /\ opening[p].at = "migrating" /\ v \in 1 .. LastVersion /\ v > opening[p].start
      /\ v \notin schemaVersion
      /\ applied' = [applied EXCEPT ![v] = applied[v] + 1]
      /\ schemaVersion' = schemaVersion \cup {v}
      /\ opening' = [opening EXCEPT ![p].next = v + 1]
      /\ UNCHANGED <<deaths, overlapped>>
      BY DEF Apply, Versions, Recorded
<1>2. opening[p] \in [at : {"down", "migrating", "up", "failed"},
                      start : 0 .. LastVersion, next : 0 .. LastVersion + 1]
      BY DEF SchemaInv, OpeningOK
<1>3. /\ opening'[p].at = "migrating" /\ opening'[p].start = opening[p].start
      /\ opening'[p].next = v + 1
      /\ \A q \in DbProcesses \ {p} : opening'[q] = opening[q]
      BY <1>1 DEF SchemaInv, OpeningOK
<1>4. OpeningOK' BY <1>1, <1>2 DEF SchemaInv, OpeningOK
<1>5. PICK k \in 0 .. LastVersion : schemaVersion = 1 .. k BY DEF SchemaInv, Prefix
<1>6. k = v - 1
  <2>1. 1 .. v - 1 \subseteq 1 .. k BY <1>1, <1>5 DEF SchemaInv, BehindIsApplied
  <2>2. v \notin 1 .. k BY <1>1, <1>5
  <2>3. v \in Int /\ 1 <= v /\ k \in Int BY <1>1
  <2>4. k < v BY <2>2, <2>3
  <2>5. v - 1 <= k
    <3>1. CASE v = 1 BY <3>1, <2>3
    <3>2. CASE v > 1
      <4>1. v - 1 \in 1 .. v - 1 BY <3>2, <2>3
      <4> QED BY <2>1, <2>3, <4>1
    <3> QED BY <2>3, <3>1, <3>2
  <2> QED BY <2>3, <2>4, <2>5
<1>7. schemaVersion' = 1 .. v BY <1>1, <1>5, <1>6
<1>8. Prefix' BY <1>1, <1>7 DEF Prefix
<1>9. AppliedOnce'
  <2>1. applied \in [Versions -> {0, 1}] /\ applied[v] = 0 /\ v \in Versions
        BY <1>1 DEF SchemaInv, AppliedOnce, Versions
  <2>2. applied'[v] = 1 /\ \A w \in Versions \ {v} : applied'[w] = applied[w] BY <1>1, <2>1
  <2>3. applied' \in [Versions -> {0, 1}] BY <1>1, <2>1
  <2> QED BY <1>1, <2>2, <2>3 DEF SchemaInv, AppliedOnce
<1>10. BehindIsApplied' BY <1>1, <1>2, <1>3, <1>7 DEF SchemaInv, BehindIsApplied
<1>11. UpFindsAll'
  <2>1. \A q \in DbProcesses : opening'[q].at # "up"
    <3>1. ASSUME NEW q \in DbProcesses, opening[q].at = "up" PROVE FALSE
      <4>1. v \in schemaVersion BY <1>1, <3>1 DEF SchemaInv, UpFindsAll, Versions
      <4> QED BY <1>1, <4>1
    <3> QED BY <1>3, <3>1
  <2> QED BY <2>1 DEF UpFindsAll
<1>12. OverlapIsNoted'
  <2>1. \A q \in DbProcesses : opening'[q].at = opening[q].at BY <1>1, <1>3
  <2>2. ASSUME NEW q \in DbProcesses, opening'[q].at = "migrating", q \notin overlapped,
               NEW w \in schemaVersion'
        PROVE  w <= opening'[q].start \/ w < opening'[q].next
    <3>1. q = p BY <1>1, <2>1, <2>2 DEF SchemaInv, OverlapIsNoted
    <3>2. w \in 1 .. v BY <1>7
    <3> QED BY <1>1, <1>3, <3>1, <3>2
  <2> QED BY <1>1, <2>1, <2>2 DEF SchemaInv, OverlapIsNoted
<1>13. AloneComesUp' BY <1>1, <1>3 DEF SchemaInv, AloneComesUp
<1> QED BY <1>1, <1>4, <1>8, <1>9, <1>10, <1>11, <1>12, <1>13 DEF SchemaInv

\* A start that fails has met another one: alone, it would have found no row that it
\* did not know.
LEMMA ApplyThrowsKeeps ==
    ASSUME SchemaInv, NEW p \in DbProcesses, ApplyThrows(p)
    PROVE  SchemaInv'
<1> USE MigrationsAssumption
<1> DEFINE v == opening[p].next
<1>1. /\ opening[p].at = "migrating" /\ v \in 1 .. LastVersion /\ v > opening[p].start
      /\ v \in schemaVersion \/ Others(p) # {}
      /\ opening' = [opening EXCEPT ![p] = [opening[p] EXCEPT !.at = "failed"]]
      /\ UNCHANGED <<schemaVersion, applied, deaths, overlapped>>
      BY DEF ApplyThrows, Versions, Recorded
<1>2. opening[p] \in [at : {"down", "migrating", "up", "failed"},
                      start : 0 .. LastVersion, next : 0 .. LastVersion + 1]
      BY DEF SchemaInv, OpeningOK
<1>3. /\ opening'[p].at = "failed"
      /\ \A q \in DbProcesses \ {p} : opening'[q] = opening[q]
      BY <1>1 DEF SchemaInv, OpeningOK
<1>4. OpeningOK' BY <1>1, <1>2 DEF SchemaInv, OpeningOK
<1>5. Prefix' /\ AppliedOnce' BY <1>1, FileKept
<1>6. p \in overlapped
  <2>1. CASE v \in schemaVersion
    <3>1. ~(v <= opening[p].start \/ v < opening[p].next) BY <1>1, <1>2
    <3> QED BY <1>1, <2>1, <3>1 DEF SchemaInv, OverlapIsNoted
  <2>2. CASE Others(p) # {} BY <1>1, <2>2 DEF SchemaInv, OverlapIsNoted, Others
  <2> QED BY <1>1, <2>1, <2>2
<1>7. BehindIsApplied' /\ UpFindsAll' BY <1>1, <1>3 DEF SchemaInv, BehindIsApplied, UpFindsAll
<1>8. OverlapIsNoted' BY <1>1, <1>3 DEF SchemaInv, OverlapIsNoted
<1>9. AloneComesUp' BY <1>1, <1>3, <1>6 DEF SchemaInv, AloneComesUp
<1> QED BY <1>1, <1>4, <1>5, <1>7, <1>8, <1>9 DEF SchemaInv

LEMMA OpenedKeeps ==
    ASSUME SchemaInv, NEW p \in DbProcesses, Opened(p)
    PROVE  SchemaInv'
<1> USE MigrationsAssumption
<1>1. /\ opening[p].at = "migrating" /\ opening[p].next > LastVersion
      /\ opening' = [opening EXCEPT ![p].at = "up"]
      /\ UNCHANGED <<schemaVersion, applied, deaths, overlapped>>
      BY DEF Opened
<1>2. opening[p] \in [at : {"down", "migrating", "up", "failed"},
                      start : 0 .. LastVersion, next : 0 .. LastVersion + 1]
      BY DEF SchemaInv, OpeningOK
<1>3. /\ opening'[p].at = "up" /\ \A q \in DbProcesses \ {p} : opening'[q] = opening[q]
      BY <1>1 DEF SchemaInv, OpeningOK
<1>4. OpeningOK' BY <1>1, <1>2 DEF SchemaInv, OpeningOK
<1>5. Prefix' /\ AppliedOnce' BY <1>1, FileKept
<1>6. schemaVersion = Versions
  <2>1. opening[p].next - 1 = LastVersion BY <1>1, <1>2
  <2>2. 1 .. LastVersion \subseteq schemaVersion
        BY <1>1, <2>1 DEF SchemaInv, BehindIsApplied
  <2>3. schemaVersion \subseteq 1 .. LastVersion BY DEF SchemaInv, Prefix
  <2> QED BY <2>2, <2>3 DEF Versions
<1>7. BehindIsApplied' BY <1>1, <1>3 DEF SchemaInv, BehindIsApplied
<1>8. UpFindsAll' BY <1>1, <1>6 DEF UpFindsAll, Versions
<1>9. OverlapIsNoted' BY <1>1, <1>3 DEF SchemaInv, OverlapIsNoted
<1>10. AloneComesUp' BY <1>1, <1>3 DEF SchemaInv, AloneComesUp
<1> QED BY <1>1, <1>4, <1>5, <1>7, <1>8, <1>9, <1>10 DEF SchemaInv

LEMMA DieKeeps ==
    ASSUME SchemaInv, NEW p \in DbProcesses, Die(p)
    PROVE  SchemaInv'
<1> USE MigrationsAssumption
<1>1. /\ opening' = [opening EXCEPT ![p] = Down]
      /\ deaths' \in 0 .. MaxDeaths
      /\ UNCHANGED <<schemaVersion, applied, overlapped>>
      BY DEF Die, SchemaInv
<1>2. /\ opening'[p].at = "down" /\ \A q \in DbProcesses \ {p} : opening'[q] = opening[q]
      BY <1>1 DEF SchemaInv, OpeningOK, Down
<1>3. OpeningOK' BY <1>1 DEF SchemaInv, OpeningOK, Down
<1>4. Prefix' /\ AppliedOnce' BY <1>1, FileKept
<1>5. /\ BehindIsApplied' /\ UpFindsAll' /\ OverlapIsNoted' /\ AloneComesUp'
      BY <1>1, <1>2 DEF SchemaInv, BehindIsApplied, UpFindsAll, OverlapIsNoted, AloneComesUp
<1> QED BY <1>1, <1>3, <1>4, <1>5 DEF SchemaInv

LEMMA SchemaStep == SchemaInv /\ [SchemaNext]_schemaVars => SchemaInv'
<1> SUFFICES ASSUME SchemaInv, [SchemaNext]_schemaVars PROVE SchemaInv' OBVIOUS
<1>1. CASE UNCHANGED schemaVars
      BY <1>1 DEF schemaVars, SchemaInv, OpeningOK, Prefix, AppliedOnce, BehindIsApplied,
                  UpFindsAll, OverlapIsNoted, AloneComesUp
<1>2. CASE SchemaNext
  <2>1. PICK p \in DbProcesses :
            ReadVersion(p) \/ Skip(p) \/ Apply(p) \/ ApplyThrows(p) \/ Opened(p) \/ Die(p)
        BY <1>2 DEF SchemaNext
  <2> QED BY <2>1, ReadVersionKeeps, SkipKeeps, ApplyKeeps, ApplyThrowsKeeps, OpenedKeeps, DieKeeps
<1> QED BY <1>1, <1>2

LEMMA SchemaAlways == SchemaSpec => []SchemaInv
BY SchemaInitially, SchemaStep, PTL DEF SchemaSpec

LEMMA SchemaFollows == SchemaInv => SchemaIsWhole
<1> SUFFICES ASSUME SchemaInv PROVE SchemaIsWhole OBVIOUS
<1> USE MigrationsAssumption
<1>1. \A v \in Versions : applied[v] = IF Recorded(v) THEN 1 ELSE 0
      BY DEF SchemaInv, AppliedOnce, Recorded
<1>2. \A v \in schemaVersion : 1 .. v \subseteq schemaVersion BY DEF SchemaInv, Prefix
<1> QED BY <1>1, <1>2 DEF SchemaIsWhole

\* However many processes start and die at once (runMigrations, and the transactions of its
\* loop): the file has each recorded migration once, in their order and with none left out; a
\* process that has come up finds every one of them, also when another has migrated; and a
\* start fails only where it overlaps another one.
THEOREM SchemaStaysWhole == SchemaSpec => [](SchemaIsWhole /\ UpFindsAll /\ AloneComesUp)
<1>1. SchemaInv => SchemaIsWhole /\ UpFindsAll /\ AloneComesUp BY SchemaFollows DEF SchemaInv
<1> QED BY <1>1, SchemaAlways, PTL

-----------------------------------------------------------------------------
(***************************************************************************)
(* Up and down a family.                                                   *)
(***************************************************************************)

\* What comes of joining lists: what is in any of them, and once if they share nothing.
Joined(q, r) ==
    /\ \A x : x \in Range(r) <=> \E i \in DOMAIN q : x \in Range(q[i])
    /\ (/\ \A i \in DOMAIN q : IsInjective(q[i])
        /\ \A i, j \in DOMAIN q : i # j => Range(q[i]) \cap Range(q[j]) = {})
       => IsInjective(r)

LEMMA FlattenedIs ==
    ASSUME NEW S, NEW q, NEW n \in Nat, q \in [1 .. n -> Seq(S)]
    PROVE  FlattenSeq(q) \in Seq(S) /\ Joined(q, FlattenSeq(q))
<1>1. q \in Seq(Seq(S)) /\ Len(q) = n /\ DOMAIN q = 1 .. n OBVIOUS
<1>2. CASE n = 0
  <2>1. FlattenSeq(q) = q BY <1>1, <1>2 DEF FlattenSeq
  <2>2. q = <<>> BY <1>1, <1>2
  <2>3. DOMAIN q = {} BY <1>1, <1>2
  <2> QED BY <2>1, <2>2, <2>3 DEF Joined, IsInjective, Range
<1>3. CASE n # 0
  <2>1. 1 \in 1 .. n BY <1>3
  <2>2. PICK V : V = Seq(S) OBVIOUS
  <2>3. PICK step : step = [x \in (1 .. n) \X V |-> x[2] \o q[x[1]]] OBVIOUS
  <2>4. ASSUME NEW k \in 1 .. n, NEW s \in V
        PROVE  step[<<k, s>>] = s \o q[k] /\ step[<<k, s>>] \in V
    <3>1. <<k, s>> \in (1 .. n) \X V OBVIOUS
    <3>2. step[<<k, s>>] = s \o q[k] BY <3>1, <2>3
    <3>3. q[k] \in Seq(S) /\ s \in Seq(S) BY <2>2
    <3> QED BY <3>2, <3>3, <2>2
  <2>5. PICK f : StepsFrom(f, n, V, <<>>, step)
    <3>1. PICK e : e = <<>> OBVIOUS
    <3>2. e \in V BY <3>1, <2>2
    <3>3. \A k \in 1 .. n : \A s \in V : step[<<k, s>>] \in V BY <2>4
    <3> QED BY <3>1, <3>2, <3>3, StepsExist
  <2>6. ASSUME NEW k \in 1 .. n PROVE f[k] = f[k - 1] \o q[k] /\ f[k - 1] \in Seq(S) /\ q[k] \in Seq(S)
    <3>1. k - 1 \in 0 .. n OBVIOUS
    <3>2. f[k - 1] \in V BY <3>1, <2>5 DEF StepsFrom
    <3>3. f[k] = step[<<k, f[k - 1]>>] BY <2>5 DEF StepsFrom
    <3> QED BY <3>2, <3>3, <2>2, <2>4
  <2>7. PICK h : h = [k \in 1 .. n |-> f[k]] OBVIOUS
  <2>8. h = [k \in 1 .. n |-> IF k = 1 THEN q[k] ELSE h[k - 1] \o q[k]]
    <3>1. ASSUME NEW k \in 1 .. n PROVE h[k] = IF k = 1 THEN q[k] ELSE h[k - 1] \o q[k]
      <4>1. h[k] = f[k - 1] \o q[k] BY <2>6, <2>7
      <4>2. CASE k = 1
        <5>1. f[k - 1] = <<>> BY <4>2, <2>5 DEF StepsFrom
        <5> QED BY <5>1, <4>1, <4>2, <2>6
      <4>3. CASE k # 1
        <5>1. k - 1 \in 1 .. n BY <4>3
        <5> QED BY <5>1, <4>1, <4>3, <2>7
      <4> QED BY <4>2, <4>3
    <3> QED BY <3>1, <2>7
  <2>9. PICK g : g = CHOOSE w : w = [k \in 1 .. n |-> IF k = 1 THEN q[k] ELSE w[k - 1] \o q[k]]
      OBVIOUS
  <2>10. g = [k \in 1 .. n |-> IF k = 1 THEN q[k] ELSE g[k - 1] \o q[k]] BY <2>8, <2>9
  <2>11. FlattenSeq(q) = g[n] BY <1>1, <1>3, <2>9 DEF FlattenSeq
  <2> DEFINE Part(m) == [i \in 1 .. m |-> q[i]]
             P == {m \in Nat : m + 1 <= n => g[m + 1] \in Seq(S) /\ Joined(Part(m + 1), g[m + 1])}
  <2>12. 0 \in P
    <3>1. g[1] = q[1] /\ q[1] \in Seq(S) BY <2>1, <2>10
    <3>2. DOMAIN Part(1) = {1} /\ Part(1)[1] = q[1] OBVIOUS
    <3> QED BY <3>1, <3>2 DEF Joined
  <2>13. ASSUME NEW m \in Nat, m \in P PROVE m + 1 \in P
    <3> SUFFICES ASSUME m + 2 <= n PROVE g[m + 2] \in Seq(S) /\ Joined(Part(m + 2), g[m + 2])
        OBVIOUS
    <3>1. m + 2 \in 1 .. n /\ m + 2 # 1 /\ (m + 2) - 1 = m + 1 /\ m + 1 <= n OBVIOUS
    <3>2. PICK s \in Seq(S) : s = g[m + 1] /\ Joined(Part(m + 1), s) BY <3>1, <2>13
    <3>3. PICK t \in Seq(S) : t = q[m + 2] BY <3>1
    <3>4. g[m + 2] = s \o t BY <3>1, <3>2, <3>3, <2>10
    <3>5. PICK a : a = Part(m + 1) OBVIOUS
    <3>6. PICK b : b = Part(m + 2) OBVIOUS
    <3>7. /\ DOMAIN a = 1 .. m + 1 /\ DOMAIN b = 1 .. m + 2
          /\ \A i \in 1 .. m + 1 : b[i] = a[i]
          /\ b[m + 2] = t
          BY <3>3, <3>5, <3>6
    <3>8. DOMAIN b = DOMAIN a \cup {m + 2} BY <3>7
    <3>9. Range(s \o t) = Range(s) \cup Range(t) BY JoinTwo
    <3>10. ASSUME NEW x PROVE x \in Range(s \o t) <=> \E i \in DOMAIN b : x \in Range(b[i])
      <4>1. x \in Range(s) <=> \E i \in DOMAIN a : x \in Range(a[i]) BY <3>2, <3>5 DEF Joined
      <4>2. \A i \in DOMAIN a : i \in DOMAIN b /\ b[i] = a[i] BY <3>7
      <4>3. m + 2 \in DOMAIN b BY <3>7
      <4> QED BY <4>1, <4>2, <4>3, <3>7, <3>8, <3>9
    <3>11. ASSUME \A i \in DOMAIN b : IsInjective(b[i]),
                  \A i, j \in DOMAIN b : i # j => Range(b[i]) \cap Range(b[j]) = {}
           PROVE  IsInjective(s \o t)
      <4>1. \A i \in DOMAIN a : i \in DOMAIN b /\ b[i] = a[i] /\ i # m + 2 BY <3>7
      <4>2. m + 2 \in DOMAIN b BY <3>7
      <4>3. IsInjective(s) BY <4>1, <3>2, <3>5, <3>11 DEF Joined
      <4>4. IsInjective(t) BY <4>2, <3>7, <3>11
      <4>5. \A i \in DOMAIN a : Range(a[i]) \cap Range(t) = {} BY <4>1, <4>2, <3>7, <3>11
      <4>6. Range(s) \cap Range(t) = {} BY <4>5, <3>2, <3>5 DEF Joined
      <4> QED BY <4>3, <4>4, <4>6, JoinTwo
    <3>12. Joined(b, s \o t) BY <3>10, <3>11 DEF Joined
    <3> QED BY <3>4, <3>6, <3>12, JoinTwo
  <2> HIDE DEF P
  <2>14. Nat \subseteq P BY <2>12, <2>13, FromZeroOn
  <2>15. n - 1 \in P /\ (n - 1) + 1 = n BY <1>3, <2>14
  <2>16. g[n] \in Seq(S) /\ Joined(Part(n), g[n]) BY <2>15 DEF P
  <2>17. Part(n) = q OBVIOUS
  <2> QED BY <2>11, <2>16, <2>17
<1> QED BY <1>2, <1>3

\* While each is registered once and after its parent: who is listed names who lists it, and
\* the other way about, each once; and depth counts the parents above.
IsForest ==
    \A d \in DOMAIN family :
        /\ family[d].parent = NoParent => family[d].depth = 0
        /\ family[d].parent # NoParent =>
              /\ family[d].parent \in DOMAIN family
              /\ d \in Range(family[family[d].parent].children)
              /\ family[d].depth = family[family[d].parent].depth + 1
        /\ family[d].depth < family[d].born
        /\ IsInjective(family[d].children)
        /\ \A c \in Range(family[d].children) : family[c].parent = d

FamilyInv == FamilyTypeOK /\ ChildrenAreYounger /\ (orderly => IsForest)

LEMMA FamilyInitially == FamilyInit => FamilyInv
<1> SUFFICES ASSUME FamilyInit PROVE FamilyInv OBVIOUS
<1>1. DOMAIN family = {} /\ registrations = 0 /\ orderly = TRUE BY DEF FamilyInit
<1>2. FamilyTypeOK BY <1>1, FamilyAssumption DEF FamilyTypeOK
<1>3. ChildrenAreYounger BY <1>1 DEF ChildrenAreYounger
<1>4. IsForest BY <1>1 DEF IsForest
<1> QED BY <1>2, <1>3, <1>4 DEF FamilyInv

LEMMA AppendedOnce ==
    ASSUME NEW S, NEW q \in Seq(S), NEW e \in S, IsInjective(q), e \notin Range(q)
    PROVE  IsInjective(Append(q, e))
<1>1. PICK r : r = Append(q, e) OBVIOUS
<1>2. PICK n \in Nat : n = Len(q) OBVIOUS
<1>3. DOMAIN r = 1 .. n + 1 /\ r[n + 1] = e /\ \A i \in 1 .. n : r[i] = q[i] BY <1>1, <1>2
<1>4. \A i \in 1 .. n : q[i] # e BY <1>2 DEF Range
<1>5. \A i, j \in 1 .. n : q[i] = q[j] => i = j BY <1>2 DEF IsInjective
<1>6. \A i \in 1 .. n + 1 : i \in 1 .. n \/ i = n + 1 OBVIOUS
<1>7. \A i, j \in 1 .. n + 1 : r[i] = r[j] => i = j BY <1>3, <1>4, <1>5, <1>6
<1> QED BY <1>1, <1>3, <1>7 DEF IsInjective

\* One more, under somebody known or nobody, is listed once more, last, by nobody else.
LEMMA ForestKept ==
    ASSUME FamilyInv, NEW a \in Spawned, NEW p \in Spawned \cup {NoParent}, Register(a, p), orderly'
    PROVE  IsForest'
<1> USE FamilyAssumption
<1>1. orderly /\ a \notin DOMAIN family /\ (p \in DOMAIN family \/ p = NoParent) /\ IsForest
      BY DEF Register, FamilyInv
<1>2. NoParent \notin DOMAIN family /\ a # NoParent /\ p # a BY <1>1 DEF FamilyInv, FamilyTypeOK
<1>3. PICK D : D = DOMAIN family OBVIOUS
<1>4. PICK F : F = family OBVIOUS
<1>5. PICK G : G = family' OBVIOUS
<1>6. PICK depth : depth = IF p \in D THEN F[p].depth + 1 ELSE 0 OBVIOUS
<1>7. /\ DOMAIN G = D \cup {a}
      /\ G[a] = [parent |-> p, children |-> <<>>, depth |-> depth, born |-> registrations + 1]
      /\ \A x \in D : x # p => G[x] = F[x]
      /\ p \in D => G[p] = [F[p] EXCEPT !.children = Append(F[p].children, a)]
      BY <1>1, <1>2, <1>3, <1>4, <1>5, <1>6 DEF Register
<1>8. \A x \in D : /\ x \in Spawned /\ F[x].children \in Seq(Spawned) /\ F[x].depth \in Nat
                   /\ F[x].born \in 1 .. registrations /\ registrations \in Nat
                   /\ F[x].depth < F[x].born
                   /\ Range(F[x].children) \subseteq D
                   /\ F[x] \in [parent : Spawned \cup {NoParent}, children : Seq(Spawned),
                                depth : Nat, born : 1 .. registrations]
      BY <1>1, <1>3, <1>4 DEF FamilyInv, FamilyTypeOK, ChildrenAreYounger, IsForest
<1>9. ASSUME NEW x \in D
      PROVE  /\ F[x].parent = NoParent => F[x].depth = 0
             /\ F[x].parent # NoParent =>
                   /\ F[x].parent \in D /\ x \in Range(F[F[x].parent].children)
                   /\ F[x].depth = F[F[x].parent].depth + 1
             /\ IsInjective(F[x].children)
             /\ \A c \in Range(F[x].children) : F[c].parent = x
      BY <1>1, <1>3, <1>4 DEF IsForest
<1>10. ASSUME NEW x \in D
       PROVE  /\ G[x].parent = F[x].parent /\ G[x].depth = F[x].depth /\ G[x].born = F[x].born
              /\ Range(G[x].children) = Range(F[x].children) \cup (IF x = p THEN {a} ELSE {})
              /\ IsInjective(G[x].children)
  <2>1. CASE x # p BY <2>1, <1>7, <1>9
  <2>2. CASE x = p
    <3>1. PICK q \in Seq(Spawned) : q = F[p].children BY <2>2, <1>8
    <3>2. Range(Append(q, a)) = Range(q) \cup {a} BY AppendedRange
    <3>3. a \notin Range(q) /\ IsInjective(q) BY <2>2, <3>1, <1>1, <1>3, <1>8, <1>9
    <3>4. IsInjective(Append(q, a)) BY <3>3, AppendedOnce
    <3>5. /\ G[p].children = Append(q, a) /\ G[p].parent = F[p].parent
          /\ G[p].depth = F[p].depth /\ G[p].born = F[p].born
          BY <2>2, <3>1, <1>7, <1>8
    <3> QED BY <2>2, <3>1, <3>2, <3>4, <3>5
  <2> QED BY <2>1, <2>2
<1>11. ASSUME NEW d \in DOMAIN G
       PROVE  /\ G[d].parent = NoParent => G[d].depth = 0
              /\ G[d].parent # NoParent =>
                    /\ G[d].parent \in DOMAIN G /\ d \in Range(G[G[d].parent].children)
                    /\ G[d].depth = G[G[d].parent].depth + 1
              /\ G[d].depth < G[d].born
              /\ IsInjective(G[d].children)
              /\ \A c \in Range(G[d].children) : G[c].parent = d
  <2>1. CASE d = a
    <3>1. /\ G[d].parent = p /\ G[d].children = <<>> /\ G[d].depth = depth
          /\ G[d].born = registrations + 1
          BY <2>1, <1>7
    <3>2. IsInjective(G[d].children) /\ Range(G[d].children) = {} BY <3>1 DEF IsInjective, Range
    <3>3. CASE p = NoParent
      <4>1. depth = 0 /\ registrations \in Nat BY <3>3, <1>2, <1>3, <1>6 DEF FamilyInv, FamilyTypeOK
      <4> QED BY <4>1, <3>1, <3>2, <3>3
    <3>4. CASE p \in D
      <4>1. depth = F[p].depth + 1 /\ G[p].depth = F[p].depth /\ a \in Range(G[p].children)
            BY <3>4, <1>6, <1>10
      <4>2. depth < registrations + 1 BY <4>1, <3>4, <1>8
      <4> QED BY <2>1, <4>1, <4>2, <3>1, <3>2, <3>4, <1>2, <1>3, <1>7
    <3> QED BY <3>3, <3>4, <1>1, <1>3
  <2>2. CASE d \in D
    <3>1. /\ G[d].parent = F[d].parent /\ G[d].depth = F[d].depth /\ G[d].born = F[d].born
          /\ IsInjective(G[d].children)
          BY <2>2, <1>10
    <3>2. ASSUME F[d].parent # NoParent
          PROVE  /\ F[d].parent \in DOMAIN G /\ d \in Range(G[F[d].parent].children)
                 /\ G[d].depth = G[F[d].parent].depth + 1
      <4>1. /\ F[d].parent \in D /\ d \in Range(F[F[d].parent].children)
            /\ F[d].depth = F[F[d].parent].depth + 1
            BY <2>2, <3>2, <1>9
      <4> QED BY <4>1, <3>1, <1>7, <1>10
    <3>3. ASSUME NEW c \in Range(G[d].children) PROVE G[c].parent = d
      <4>1. CASE c = a /\ d = p BY <4>1, <1>7
      <4>2. CASE c \in Range(F[d].children)
        <5>1. c \in D /\ F[c].parent = d BY <4>2, <2>2, <1>8, <1>9
        <5> QED BY <5>1, <1>10
      <4> QED BY <4>1, <4>2, <3>3, <2>2, <1>10
    <3>4. G[d].depth < G[d].born BY <3>1, <2>2, <1>8
    <3> QED BY <3>1, <3>2, <3>3, <3>4, <2>2, <1>9
  <2> QED BY <2>1, <2>2, <1>7
<1>12. \A d \in DOMAIN family' :
          /\ family'[d].parent = NoParent => family'[d].depth = 0
          /\ family'[d].parent # NoParent =>
                /\ family'[d].parent \in DOMAIN family'
                /\ d \in Range(family'[family'[d].parent].children)
                /\ family'[d].depth = family'[family'[d].parent].depth + 1
          /\ family'[d].depth < family'[d].born
          /\ IsInjective(family'[d].children)
          /\ \A c \in Range(family'[d].children) : family'[c].parent = d
       BY <1>5, <1>11
<1> QED BY <1>12 DEF IsForest

\* The record of an agent that is registered is the youngest of all, and lists nobody; and
\* with its parent it is the only one that is new.
LEMMA RegisterKeeps ==
    ASSUME FamilyInv, NEW a \in Spawned, NEW p \in Spawned \cup {NoParent}, Register(a, p)
    PROVE  FamilyInv'
<1> USE FamilyAssumption
<1> DEFINE record == [parent |-> p, children |-> <<>>,
                      depth |-> IF p \in DOMAIN family THEN family[p].depth + 1 ELSE 0,
                      born |-> registrations + 1]
<1>1. /\ registrations' = registrations + 1 /\ registrations' \in 1 .. MaxRegistrations
      /\ orderly' \in BOOLEAN
      /\ DOMAIN family' = DOMAIN family \cup {a}
      /\ family'[a] = record
      /\ \A x \in DOMAIN family \ {a} :
            family'[x] = IF x = p THEN [family[x] EXCEPT !.children = Append(family[x].children, a)]
                         ELSE family[x]
      BY DEF Register, FamilyInv, FamilyTypeOK
<1>2. /\ record.parent \in Spawned \cup {NoParent}
      /\ record.children = <<>> /\ record.children \in Seq(Spawned)
      /\ record \in [parent : Spawned \cup {NoParent}, children : Seq(Spawned), depth : Nat,
                     born : 1 .. registrations']
      /\ record.born = registrations' /\ record.born \in 1 .. registrations'
      BY <1>1 DEF FamilyInv, FamilyTypeOK
<1>3. \A x \in DOMAIN family : x \in Spawned /\ family[x].children \in Seq(Spawned)
      BY DEF FamilyInv, FamilyTypeOK
<1> HIDE DEF record
<1>4. ASSUME NEW x \in DOMAIN family \ {a}
      PROVE  /\ family'[x] \in [parent : Spawned \cup {NoParent}, children : Seq(Spawned),
                               depth : Nat, born : 1 .. registrations]
             /\ Range(family'[x].children) \subseteq Range(family[x].children) \cup {a}
             /\ family'[x].born = family[x].born /\ family'[x].born \in 1 .. registrations
  <2>1. family[x] \in [parent : Spawned \cup {NoParent}, children : Seq(Spawned),
                       depth : Nat, born : 1 .. registrations]
        BY DEF FamilyInv, FamilyTypeOK
  <2>2. CASE x # p BY <1>1, <2>1, <2>2
  <2>3. CASE x = p
    <3>1. /\ Append(family[x].children, a) \in Seq(Spawned)
          /\ Range(Append(family[x].children, a)) = Range(family[x].children) \cup {a}
          BY <2>1, AppendedRange
    <3>2. family'[x] = [family[x] EXCEPT !.children = Append(family[x].children, a)]
          BY <1>1, <2>3
    <3> QED BY <2>1, <3>1, <3>2
  <2> QED BY <2>2, <2>3
<1>5. FamilyTypeOK'
  <2>1. DOMAIN family' \subseteq Spawned BY <1>1 DEF FamilyInv, FamilyTypeOK
  <2>2. ASSUME NEW x \in DOMAIN family'
        PROVE  family'[x] \in [parent : Spawned \cup {NoParent}, children : Seq(Spawned),
                              depth : Nat, born : 1 .. registrations']
    <3>1. CASE x = a BY <1>1, <1>2, <3>1
    <3>2. CASE x # a
      <4>1. family'[x] \in [parent : Spawned \cup {NoParent}, children : Seq(Spawned),
                            depth : Nat, born : 1 .. registrations]
            BY <1>1, <1>4, <3>2
      <4>2. 1 .. registrations \subseteq 1 .. registrations' BY <1>1 DEF FamilyInv, FamilyTypeOK
      <4> QED BY <4>1, <4>2
    <3> QED BY <3>1, <3>2
  <2> QED BY <1>1, <2>1, <2>2 DEF FamilyTypeOK
<1>6. ASSUME NEW x \in DOMAIN family', NEW c \in Range(family'[x].children)
      PROVE  c \in DOMAIN family' /\ family'[x].born < family'[c].born
  <2>1. CASE x = a BY <1>1, <1>2, <1>6, <2>1 DEF Range
  <2>2. CASE x # a
    <3>1. x \in DOMAIN family \ {a} BY <1>1, <2>2
    <3>2. family'[x].born = family[x].born /\ family'[x].born \in 1 .. registrations
          BY <1>4, <3>1
    <3>3. CASE c = a BY <1>1, <1>2, <3>2, <3>3 DEF FamilyInv, FamilyTypeOK
    <3>4. CASE c # a
      <4>1. c \in Range(family[x].children) BY <1>4, <1>6, <3>1, <3>4
      <4>2. c \in DOMAIN family \ {a} /\ family[x].born < family[c].born
            BY <3>1, <3>4, <4>1 DEF FamilyInv, ChildrenAreYounger
      <4>3. family'[c].born = family[c].born BY <1>4, <4>2
      <4> QED BY <1>1, <3>2, <4>2, <4>3
    <3> QED BY <3>3, <3>4
  <2> QED BY <2>1, <2>2
<1>7. ChildrenAreYounger' BY <1>6 DEF ChildrenAreYounger
<1> QED BY <1>5, <1>7, ForestKept DEF FamilyInv

LEMMA FamilyStep == FamilyInv /\ [FamilyNext]_familyVars => FamilyInv'
<1> SUFFICES ASSUME FamilyInv, [FamilyNext]_familyVars PROVE FamilyInv' OBVIOUS
<1>1. CASE UNCHANGED familyVars
      BY <1>1 DEF familyVars, FamilyInv, FamilyTypeOK, ChildrenAreYounger, IsForest
<1>2. CASE FamilyNext BY <1>2, RegisterKeeps DEF FamilyNext
<1> QED BY <1>1, <1>2

LEMMA FamilyAlways == FamilySpec => []FamilyInv
BY FamilyInitially, FamilyStep, PTL DEF FamilySpec

\* One generation down.
NextLevel(s) == FlattenSeq([k \in DOMAIN s |-> family[s[k]].children])

LEMMA NextLevelIs ==
    ASSUME FamilyInv, NEW s \in Seq(DOMAIN family)
    PROVE  /\ NextLevel(s) \in Seq(DOMAIN family)
           /\ Joined([k \in DOMAIN s |-> family[s[k]].children], NextLevel(s))
           /\ \A x : x \in Range(NextLevel(s)) <=> \E e \in Range(s) : x \in Range(family[e].children)
<1>1. PICK D : D = DOMAIN family OBVIOUS
<1>2. PICK n \in Nat : n = Len(s) /\ DOMAIN s = 1 .. n OBVIOUS
<1>3. PICK q : q = [k \in 1 .. n |-> family[s[k]].children] OBVIOUS
<1>4. q = [k \in DOMAIN s |-> family[s[k]].children] BY <1>2, <1>3
<1>5. ASSUME NEW k \in 1 .. n PROVE q[k] = family[s[k]].children /\ q[k] \in Seq(D)
  <2>1. s[k] \in DOMAIN family BY <1>2
  <2>2. PICK c \in Seq(Spawned) : c = family[s[k]].children BY <2>1 DEF FamilyInv, FamilyTypeOK
  <2>3. Range(c) \subseteq D BY <1>1, <2>1, <2>2 DEF FamilyInv, ChildrenAreYounger
  <2>4. PICK m \in Nat : c \in [1 .. m -> Spawned] BY <2>2
  <2>5. \A i \in 1 .. m : c[i] \in D BY <2>3, <2>4 DEF Range
  <2>6. c \in [1 .. m -> D] BY <2>4, <2>5
  <2>7. c \in Seq(D) BY <2>6
  <2> QED BY <2>2, <2>7, <1>3
<1>6. q \in [1 .. n -> Seq(D)] BY <1>3, <1>5
<1>7. FlattenSeq(q) \in Seq(D) /\ Joined(q, FlattenSeq(q)) BY <1>6, FlattenedIs
<1>8. NextLevel(s) = FlattenSeq(q) BY <1>4 DEF NextLevel
<1>9. \A x : x \in Range(NextLevel(s)) <=> \E k \in 1 .. n : x \in Range(family[s[k]].children)
      BY <1>3, <1>5, <1>7, <1>8 DEF Joined
<1>10. Range(s) = {s[k] : k \in 1 .. n} BY <1>2 DEF Range
<1> QED BY <1>1, <1>4, <1>7, <1>8, <1>9, <1>10

\* The generations below an agent, and getDescendants, which puts them in a row.
IsDescent(a, level) ==
    /\ level[0] = <<a>>
    /\ \A n \in 0 .. MaxRegistrations : level[n] \in Seq(DOMAIN family)
    /\ \A n \in 1 .. MaxRegistrations : level[n] = NextLevel(level[n - 1])
    /\ Joined([n \in 1 .. MaxRegistrations |-> level[n]], DescendantsOf(a))

LEMMA DescentIs ==
    ASSUME FamilyInv, NEW a \in DOMAIN family
    PROVE  \E level : IsDescent(a, level)
<1>1. PICK D : D = DOMAIN family OBVIOUS
<1>2. PICK M \in Nat : M = MaxRegistrations BY FamilyAssumption
<1>3. PICK V : V = Seq(D) OBVIOUS
<1>4. PICK e : e = <<a>> OBVIOUS
<1>5. PICK step : step = [x \in (1 .. M) \X V |-> NextLevel(x[2])] OBVIOUS
<1>6. ASSUME NEW k \in 1 .. M, NEW s \in V
      PROVE  step[<<k, s>>] = NextLevel(s) /\ NextLevel(s) \in V
  <2>1. s \in Seq(DOMAIN family) BY <1>1, <1>3
  <2>2. NextLevel(s) \in Seq(DOMAIN family) BY <2>1, NextLevelIs
  <2>3. <<k, s>> \in (1 .. M) \X V OBVIOUS
  <2> QED BY <2>2, <2>3, <1>1, <1>3, <1>5
<1>7. PICK f : StepsFrom(f, M, V, e, step)
  <2>1. e \in V BY <1>1, <1>3, <1>4
  <2>2. \A k \in 1 .. M : \A s \in V : step[<<k, s>>] \in V BY <1>6
  <2> QED BY <2>1, <2>2, StepsExist
<1>8. \A k \in 0 .. M : f[k] \in V BY <1>7 DEF StepsFrom
<1>9. f[0] = <<a>> BY <1>4, <1>7 DEF StepsFrom
<1>10. ASSUME NEW k \in 1 .. M PROVE f[k] = NextLevel(f[k - 1])
  <2>1. k - 1 \in 0 .. M OBVIOUS
  <2>2. f[k - 1] \in V BY <2>1, <1>8
  <2>3. f[k] = step[<<k, f[k - 1]>>] BY <1>7 DEF StepsFrom
  <2> QED BY <2>2, <2>3, <1>6
<1> DEFINE Onward(h, n) == IF n = 0 THEN <<a>>
                           ELSE FlattenSeq([k \in DOMAIN h[n - 1] |-> family[h[n - 1][k]].children])
<1>11. f = [n \in 0 .. M |-> Onward(f, n)]
  <2>1. ASSUME NEW n \in 0 .. M PROVE f[n] = Onward(f, n)
    <3>1. CASE n = 0 BY <3>1, <1>9
    <3>2. CASE n # 0
      <4>1. n \in 1 .. M BY <3>2
      <4> QED BY <4>1, <3>2, <1>10 DEF NextLevel
    <3> QED BY <3>1, <3>2
  <2>2. f \in [0 .. M -> V] BY <1>7 DEF StepsFrom
  <2> HIDE DEF Onward
  <2> QED BY <2>1, <2>2
<1>12. PICK g : g = CHOOSE h : h = [n \in 0 .. M |-> Onward(h, n)] OBVIOUS
<1>13. g = [n \in 0 .. M |-> Onward(g, n)]
  <2> HIDE DEF Onward
  <2> QED BY <1>11, <1>12
<1>14. DescendantsOf(a) = FlattenSeq([n \in 1 .. M |-> g[n]]) BY <1>2, <1>12 DEF DescendantsOf
<1> DEFINE P == {m \in Nat : m <= M => g[m] = f[m]}
<1>15. 0 \in P
  <2>1. 0 \in 0 .. M OBVIOUS
  <2>2. g[0] = <<a>> BY <2>1, <1>13
  <2> QED BY <2>2, <1>9
<1>16. ASSUME NEW m \in Nat, m \in P PROVE m + 1 \in P
  <2> SUFFICES ASSUME m + 1 <= M PROVE g[m + 1] = f[m + 1] OBVIOUS
  <2>1. m + 1 \in 0 .. M /\ m + 1 # 0 /\ (m + 1) - 1 = m /\ m + 1 \in 1 .. M OBVIOUS
  <2>2. PICK t : t = g[m] OBVIOUS
  <2>3. g[m + 1] = NextLevel(t) BY <2>1, <2>2, <1>13 DEF NextLevel
  <2>4. f[m + 1] = NextLevel(f[m]) BY <2>1, <1>10
  <2>5. t = f[m] BY <2>2, <1>16
  <2> QED BY <2>3, <2>4, <2>5
<1> HIDE DEF P
<1>17. Nat \subseteq P BY <1>15, <1>16, FromZeroOn
<1>18. \A m \in 0 .. M : g[m] = f[m] BY <1>17 DEF P
<1>19. PICK q : q = [n \in 1 .. M |-> f[n]] OBVIOUS
<1>20. q = [n \in 1 .. M |-> g[n]] BY <1>18, <1>19
<1>21. q \in [1 .. M -> Seq(D)] BY <1>3, <1>8, <1>19
<1>22. Joined(q, FlattenSeq(q)) BY <1>21, FlattenedIs
<1>23. Joined(q, DescendantsOf(a)) BY <1>14, <1>20, <1>22
<1>24. IsDescent(a, f) BY <1>1, <1>2, <1>3, <1>8, <1>9, <1>10, <1>19, <1>23 DEF IsDescent
<1> QED BY <1>24

\* Whoever is met on the way down is younger than who is at its head.
LEMMA DescentGoesOn ==
    ASSUME FamilyInv, NEW a \in DOMAIN family
    PROVE  a \notin Range(DescendantsOf(a))
<1>1. PICK level : IsDescent(a, level) BY DescentIs
<1>2. PICK M \in Nat : M = MaxRegistrations BY FamilyAssumption
<1> DEFINE Younger(x) == x \in DOMAIN family /\ family[x].born > family[a].born
           P == {m \in Nat : m <= M => \A x \in Range(level[m]) : (m = 0 /\ x = a) \/ Younger(x)}
<1>3. 0 \in P BY <1>1 DEF IsDescent, Range
<1>4. ASSUME NEW m \in Nat, m \in P PROVE m + 1 \in P
  <2> SUFFICES ASSUME m + 1 <= M, NEW x \in Range(level[m + 1]) PROVE Younger(x) OBVIOUS
  <2>1. m \in 0 .. M /\ m + 1 \in 1 .. M /\ (m + 1) - 1 = m OBVIOUS
  <2>2. PICK s : s = level[m] OBVIOUS
  <2>3. s \in Seq(DOMAIN family) /\ level[m + 1] = NextLevel(s) BY <2>1, <2>2, <1>1, <1>2 DEF IsDescent
  <2>4. PICK e \in Range(s) : x \in Range(family[e].children) BY <2>3, NextLevelIs
  <2>5. e \in DOMAIN family BY <2>3 DEF Range
  <2>6. x \in DOMAIN family /\ family[e].born < family[x].born
        BY <2>4, <2>5 DEF FamilyInv, ChildrenAreYounger
  <2>7. family[e].born \in Nat /\ family[x].born \in Nat /\ family[a].born \in Nat
        BY <2>5, <2>6 DEF FamilyInv, FamilyTypeOK
  <2>8. e = a \/ Younger(e) BY <2>2, <2>4, <1>4
  <2> QED BY <2>6, <2>7, <2>8
<1> HIDE DEF P
<1>5. Nat \subseteq P BY <1>3, <1>4, FromZeroOn
<1>6. \A m \in 1 .. M : a \notin Range(level[m])
  <2> SUFFICES ASSUME NEW m \in 1 .. M, a \in Range(level[m]) PROVE FALSE OBVIOUS
  <2>1. m \in P /\ m # 0 BY <1>5
  <2>2. Younger(a) BY <2>1 DEF P
  <2>3. family[a].born \in Nat BY DEF FamilyInv, FamilyTypeOK
  <2> QED BY <2>2, <2>3
<1>7. PICK q : q = [m \in 1 .. M |-> level[m]] OBVIOUS
<1>8. Joined(q, DescendantsOf(a)) BY <1>1, <1>2, <1>7 DEF IsDescent
<1> QED BY <1>6, <1>7, <1>8 DEF Joined

\* Where each agent is after n steps up.
IsClimb(up) ==
    /\ \A n \in 0 .. MaxRegistrations : \A d \in DOMAIN family :
          up[n][d] \in DOMAIN family \cup {NoParent}
    /\ \A d \in DOMAIN family : up[0][d] = d
    /\ \A n \in 1 .. MaxRegistrations : \A d \in DOMAIN family :
          up[n][d] = IF up[n - 1][d] \in DOMAIN family THEN family[up[n - 1][d]].parent ELSE NoParent

LEMMA ForestHas ==
    ASSUME FamilyInv, orderly
    PROVE  /\ NoParent \notin DOMAIN family
           /\ \A d \in DOMAIN family :
                 /\ family[d].depth \in Nat /\ family[d].depth < MaxRegistrations
                 /\ IsInjective(family[d].children)
                 /\ family[d].parent = NoParent <=> family[d].depth = 0
                 /\ family[d].parent # NoParent =>
                       /\ family[d].parent \in DOMAIN family
                       /\ family[d].depth = family[family[d].parent].depth + 1
           /\ \A e \in DOMAIN family : \A d :
                 d \in Range(family[e].children) <=> d \in DOMAIN family /\ family[d].parent = e
<1> USE FamilyAssumption
<1>1. NoParent \notin DOMAIN family BY DEF FamilyInv, FamilyTypeOK
<1>2. ASSUME NEW d \in DOMAIN family
      PROVE  /\ family[d].depth \in Nat /\ family[d].depth < MaxRegistrations
             /\ IsInjective(family[d].children)
             /\ family[d].parent = NoParent <=> family[d].depth = 0
             /\ family[d].parent # NoParent =>
                   /\ family[d].parent \in DOMAIN family
                   /\ family[d].depth = family[family[d].parent].depth + 1
  <2>1. /\ family[d].depth \in Nat /\ family[d].born \in 1 .. registrations
        /\ registrations \in 0 .. MaxRegistrations
        BY DEF FamilyInv, FamilyTypeOK
  <2>2. /\ family[d].depth < family[d].born /\ IsInjective(family[d].children)
        /\ family[d].parent = NoParent => family[d].depth = 0
        /\ family[d].parent # NoParent =>
              /\ family[d].parent \in DOMAIN family
              /\ family[d].depth = family[family[d].parent].depth + 1
        BY DEF FamilyInv, IsForest
  <2>3. family[d].parent # NoParent => family[family[d].parent].depth \in Nat
        BY <2>2 DEF FamilyInv, FamilyTypeOK
  <2>4. PICK b \in Nat, r \in Nat, c \in Nat :
           /\ b = family[d].born /\ r = registrations /\ c = family[d].depth
           /\ c < b /\ b <= r /\ r <= MaxRegistrations
        BY <2>1, <2>2
  <2>5. family[d].depth < MaxRegistrations BY <2>4
  <2> QED BY <2>1, <2>2, <2>3, <2>5
<1>3. ASSUME NEW e \in DOMAIN family, NEW d
      PROVE  d \in Range(family[e].children) <=> d \in DOMAIN family /\ family[d].parent = e
      BY <1>1 DEF FamilyInv, ChildrenAreYounger, IsForest
<1> QED BY <1>1, <1>2, <1>3

LEMMA ClimbExists ==
    ASSUME FamilyInv, orderly
    PROVE  \E up : IsClimb(up)
<1>1. PICK D : D = DOMAIN family OBVIOUS
<1>2. PICK M \in Nat : M = MaxRegistrations BY FamilyAssumption
<1>3. PICK V : V = [D -> D \cup {NoParent}] OBVIOUS
<1>4. PICK e : e = [d \in D |-> d] OBVIOUS
<1>5. PICK parent :
          parent = [x \in D \cup {NoParent} |-> IF x \in D THEN family[x].parent ELSE NoParent]
      OBVIOUS
<1>6. \A x \in D \cup {NoParent} : parent[x] \in D \cup {NoParent} BY <1>1, <1>5, ForestHas
<1>7. PICK step : step = [x \in (1 .. M) \X V |-> [d \in D |-> parent[x[2][d]]]] OBVIOUS
<1>8. ASSUME NEW k \in 1 .. M, NEW s \in V
      PROVE  step[<<k, s>>] = [d \in D |-> parent[s[d]]] /\ step[<<k, s>>] \in V
  <2>1. <<k, s>> \in (1 .. M) \X V OBVIOUS
  <2>2. step[<<k, s>>] = [d \in D |-> parent[s[d]]] BY <2>1, <1>7
  <2>3. \A d \in D : s[d] \in D \cup {NoParent} BY <1>3
  <2>4. \A d \in D : parent[s[d]] \in D \cup {NoParent} BY <2>3, <1>6
  <2>5. [d \in D |-> parent[s[d]]] \in [D -> D \cup {NoParent}] BY <2>4
  <2> QED BY <2>2, <2>5, <1>3
<1>9. PICK f : StepsFrom(f, M, V, e, step)
  <2>1. e \in V BY <1>3, <1>4
  <2>2. \A k \in 1 .. M : \A s \in V : step[<<k, s>>] \in V BY <1>8
  <2> QED BY <2>1, <2>2, StepsExist
<1>10. \A n \in 0 .. M : f[n] \in V BY <1>9 DEF StepsFrom
<1>11. ASSUME NEW n \in 1 .. M, NEW d \in D
       PROVE  f[n][d] = IF f[n - 1][d] \in D THEN family[f[n - 1][d]].parent ELSE NoParent
  <2>1. n - 1 \in 0 .. M OBVIOUS
  <2>2. PICK s \in V : s = f[n - 1] BY <2>1, <1>10
  <2>3. f[n] = step[<<n, s>>] BY <2>2, <1>9 DEF StepsFrom
  <2>6. f[n] = [x \in D |-> parent[s[x]]] BY <2>3, <1>8
  <2>4. f[n][d] = parent[s[d]] BY <2>6
  <2>5. s[d] \in D \cup {NoParent} BY <1>3
  <2> QED BY <2>2, <2>4, <2>5, <1>5
<1>12. \A d \in D : f[0][d] = d BY <1>4, <1>9 DEF StepsFrom
<1>13. \A n \in 0 .. M : \A d \in D : f[n][d] \in D \cup {NoParent} BY <1>3, <1>10
<1> QED BY <1>1, <1>2, <1>11, <1>12, <1>13 DEF IsClimb

\* Each step up lowers the depth by one, and there are as many as the depth.
LEMMA ClimbLowers ==
    ASSUME FamilyInv, orderly, NEW up, IsClimb(up), NEW d \in DOMAIN family
    PROVE  \A n \in 0 .. MaxRegistrations :
              /\ up[n][d] \in DOMAIN family <=> n <= family[d].depth
              /\ up[n][d] \in DOMAIN family => family[up[n][d]].depth = family[d].depth - n
<1>1. PICK M \in Nat : M = MaxRegistrations BY FamilyAssumption
<1>2. PICK c \in Nat : c = family[d].depth BY ForestHas
<1> DEFINE Low(n) == /\ up[n][d] \in DOMAIN family <=> n <= c
                     /\ up[n][d] \in DOMAIN family => family[up[n][d]].depth = c - n
           P == {n \in Nat : n <= M => Low(n)}
<1>3. 0 \in P
  <2>1. up[0][d] = d BY DEF IsClimb
  <2> QED BY <2>1, <1>2
<1>4. ASSUME NEW n \in Nat, n \in P PROVE n + 1 \in P
  <2> SUFFICES ASSUME n + 1 <= M PROVE Low(n + 1) OBVIOUS
  <2>1. n + 1 \in 1 .. M /\ (n + 1) - 1 = n /\ n <= M OBVIOUS
  <2>2. Low(n) BY <2>1, <1>4
  <2>3. PICK e : e = up[n][d] OBVIOUS
  <2>4. up[n + 1][d] = IF e \in DOMAIN family THEN family[e].parent ELSE NoParent
        BY <2>1, <2>3, <1>1 DEF IsClimb
  <2>5. CASE e \notin DOMAIN family
    <3>1. up[n + 1][d] = NoParent /\ ~(n <= c) BY <2>2, <2>3, <2>4, <2>5
    <3>2. ~(n + 1 <= c) BY <3>1
    <3> QED BY <3>1, <3>2, ForestHas
  <2>6. CASE e \in DOMAIN family
    <3>1. family[e].depth = c - n /\ n <= c BY <2>2, <2>3, <2>6
    <3>2. up[n + 1][d] = family[e].parent BY <2>4, <2>6
    <3>3. CASE family[e].parent = NoParent
      <4>1. c - n = 0 BY <3>1, <3>3, <2>6, ForestHas
      <4>2. ~(n + 1 <= c) BY <4>1
      <4> QED BY <4>2, <3>2, <3>3, ForestHas
    <3>4. CASE family[e].parent # NoParent
      <4>1. PICK p \in DOMAIN family : p = family[e].parent /\ c - n = family[p].depth + 1
            BY <3>1, <3>4, <2>6, ForestHas
      <4>2. family[p].depth \in Nat BY ForestHas
      <4> QED BY <4>1, <4>2, <3>2
    <3> QED BY <3>3, <3>4
  <2> QED BY <2>5, <2>6
<1> HIDE DEF P
<1>5. Nat \subseteq P BY <1>3, <1>4, FromZeroOn
<1>6. \A n \in 0 .. M : Low(n) BY <1>5 DEF P
<1> QED BY <1>1, <1>2, <1>6

\* The way up goes on as that of the parent.
LEMMA ClimbShifts ==
    ASSUME FamilyInv, orderly, NEW up, IsClimb(up), NEW d \in DOMAIN family,
           family[d].parent \in DOMAIN family
    PROVE  \A n \in 1 .. MaxRegistrations : up[n][d] = up[n - 1][family[d].parent]
<1>1. PICK M \in Nat : M = MaxRegistrations BY FamilyAssumption
<1>2. PICK p \in DOMAIN family : p = family[d].parent OBVIOUS
<1> DEFINE P == {n \in Nat : n + 1 <= M => up[n + 1][d] = up[n][p]}
<1>3. 0 \in P
  <2> SUFFICES ASSUME 1 <= M PROVE up[1][d] = up[0][p] OBVIOUS
  <2>1. 1 \in 1 .. M /\ 1 - 1 = 0 OBVIOUS
  <2> QED BY <2>1, <1>1, <1>2 DEF IsClimb
<1>4. ASSUME NEW n \in Nat, n \in P PROVE n + 1 \in P
  <2> SUFFICES ASSUME (n + 1) + 1 <= M PROVE up[(n + 1) + 1][d] = up[n + 1][p] OBVIOUS
  <2>1. /\ (n + 1) + 1 \in 1 .. M /\ ((n + 1) + 1) - 1 = n + 1
        /\ n + 1 \in 1 .. M /\ (n + 1) - 1 = n
        OBVIOUS
  <2>2. PICK e : e = up[n][p] OBVIOUS
  <2>3. up[n + 1][d] = e BY <2>1, <2>2, <1>4
  <2>4. up[(n + 1) + 1][d] = IF e \in DOMAIN family THEN family[e].parent ELSE NoParent
        BY <2>1, <2>3, <1>1 DEF IsClimb
  <2>5. up[n + 1][p] = IF e \in DOMAIN family THEN family[e].parent ELSE NoParent
        BY <2>1, <2>2, <1>1 DEF IsClimb
  <2> QED BY <2>4, <2>5
<1> HIDE DEF P
<1>5. Nat \subseteq P BY <1>3, <1>4, FromZeroOn
<1>6. ASSUME NEW n \in 1 .. M PROVE up[n][d] = up[n - 1][p]
  <2>1. n - 1 \in P /\ (n - 1) + 1 = n BY <1>5
  <2> QED BY <2>1 DEF P
<1> QED BY <1>1, <1>2, <1>6

\* The n-th generation below an agent is made up of those who are n steps below it, each once.
LEMMA LevelIsBelow ==
    ASSUME FamilyInv, orderly, NEW up, IsClimb(up), NEW a \in DOMAIN family,
           NEW level, IsDescent(a, level)
    PROVE  \A n \in 0 .. MaxRegistrations :
              /\ IsInjective(level[n])
              /\ \A d : d \in Range(level[n]) <=> d \in DOMAIN family /\ up[n][d] = a
<1>1. PICK M \in Nat : M = MaxRegistrations BY FamilyAssumption
<1> DEFINE Below(n) == /\ IsInjective(level[n])
                       /\ \A d : d \in Range(level[n]) <=> d \in DOMAIN family /\ up[n][d] = a
           P == {n \in Nat : n <= M => Below(n)}
<1>2. 0 \in P
  <2>1. level[0] = <<a>> BY DEF IsDescent
  <2>2. DOMAIN level[0] = {1} /\ level[0][1] = a BY <2>1
  <2>3. IsInjective(level[0]) BY <2>2 DEF IsInjective
  <2>4. Range(level[0]) = {a} BY <2>2 DEF Range
  <2>5. \A d \in DOMAIN family : up[0][d] = d BY DEF IsClimb
  <2> QED BY <2>3, <2>4, <2>5
<1>3. ASSUME NEW n \in Nat, n \in P PROVE n + 1 \in P
  <2> SUFFICES ASSUME n + 1 <= M PROVE Below(n + 1) OBVIOUS
  <2>1. n + 1 \in 1 .. M /\ (n + 1) - 1 = n /\ n \in 0 .. M OBVIOUS
  <2>2. Below(n) BY <2>1, <1>3
  <2>3. PICK s : s = level[n] OBVIOUS
  <2>4. s \in Seq(DOMAIN family) /\ level[n + 1] = NextLevel(s) BY <2>1, <2>3, <1>1 DEF IsDescent
  <2>5. \A d : d \in Range(s) <=> d \in DOMAIN family /\ up[n][d] = a BY <2>2, <2>3
  <2>6. ASSUME NEW d PROVE d \in Range(NextLevel(s)) <=> d \in DOMAIN family /\ up[n + 1][d] = a
    <3>1. d \in Range(NextLevel(s)) <=> \E e \in Range(s) : d \in Range(family[e].children)
          BY <2>4, NextLevelIs
    <3>2. d \in Range(NextLevel(s)) <=>
             \E e \in Range(s) : d \in DOMAIN family /\ family[d].parent = e
          BY <3>1, <2>5, ForestHas
    <3>3. CASE d \in DOMAIN family /\ family[d].parent \in DOMAIN family
      <4>1. up[n + 1][d] = up[n][family[d].parent] BY <3>3, <2>1, <1>1, ClimbShifts
      <4> QED BY <4>1, <3>2, <3>3, <2>5
    <3>4. CASE d \in DOMAIN family /\ family[d].parent \notin DOMAIN family
      <4>1. family[d].depth = 0 BY <3>4, ForestHas
      <4>2. ~(n + 1 <= family[d].depth) BY <4>1
      <4>3. up[n + 1][d] \notin DOMAIN family BY <4>2, <3>4, <2>1, <1>1, ClimbLowers
      <4> QED BY <4>3, <3>2, <3>4, <2>5
    <3>5. CASE d \notin DOMAIN family BY <3>2, <3>5
    <3> QED BY <3>3, <3>4, <3>5
  <2>7. IsInjective(NextLevel(s))
    <3>1. PICK q : q = [k \in DOMAIN s |-> family[s[k]].children] OBVIOUS
    <3>2. \A k \in DOMAIN s : s[k] \in DOMAIN family BY <2>4
    <3>3. \A k \in DOMAIN s : IsInjective(q[k]) BY <3>1, <3>2, ForestHas
    <3>4. ASSUME NEW i \in DOMAIN s, NEW j \in DOMAIN s, i # j PROVE Range(q[i]) \cap Range(q[j]) = {}
      <4>1. s[i] # s[j] BY <3>4, <2>2, <2>3 DEF IsInjective
      <4>2. \A d \in Range(q[i]) : family[d].parent = s[i] BY <3>1, <3>2, ForestHas
      <4>3. \A d \in Range(q[j]) : family[d].parent = s[j] BY <3>1, <3>2, ForestHas
      <4> QED BY <4>1, <4>2, <4>3
    <3>5. Joined(q, NextLevel(s)) BY <3>1, <2>4, NextLevelIs
    <3>6. DOMAIN q = DOMAIN s BY <3>1
    <3> QED BY <3>3, <3>4, <3>5, <3>6 DEF Joined
  <2> QED BY <2>4, <2>6, <2>7
<1> HIDE DEF P
<1>4. Nat \subseteq P BY <1>2, <1>3, FromZeroOn
<1>5. \A n \in 0 .. M : Below(n) BY <1>4 DEF P
<1> QED BY <1>1, <1>5

\* getDescendants lists each of those below an agent once.
LEMMA DescendantsAre ==
    ASSUME FamilyInv, orderly, NEW up, IsClimb(up), NEW a \in DOMAIN family
    PROVE  /\ IsInjective(DescendantsOf(a))
           /\ \A d \in DOMAIN family :
                 d \in Range(DescendantsOf(a)) <=> \E n \in 1 .. MaxRegistrations : up[n][d] = a
<1>1. PICK M \in Nat : M = MaxRegistrations BY FamilyAssumption
<1>2. PICK level : IsDescent(a, level) BY DescentIs
<1>3. PICK q : q = [n \in 1 .. M |-> level[n]] OBVIOUS
<1>4. Joined(q, DescendantsOf(a)) /\ DOMAIN q = 1 .. M BY <1>1, <1>2, <1>3 DEF IsDescent
<1>5. ASSUME NEW n \in 1 .. M
      PROVE  /\ IsInjective(q[n])
             /\ \A d : d \in Range(q[n]) <=> d \in DOMAIN family /\ up[n][d] = a
  <2>1. n \in 0 .. MaxRegistrations BY <1>1
  <2> QED BY <2>1, <1>2, <1>3, LevelIsBelow
<1>6. ASSUME NEW i \in 1 .. M, NEW j \in 1 .. M, NEW d, d \in Range(q[i]), d \in Range(q[j]) PROVE i = j
  <2>1. d \in DOMAIN family /\ up[i][d] = a /\ up[j][d] = a BY <1>5, <1>6
  <2>2. family[a].depth = family[d].depth - i /\ family[a].depth = family[d].depth - j
    <3>1. i \in 0 .. MaxRegistrations /\ j \in 0 .. MaxRegistrations BY <1>1
    <3> QED BY <3>1, <2>1, ClimbLowers
  <2>3. family[d].depth \in Nat BY <2>1, ForestHas
  <2> QED BY <2>2, <2>3
<1>7. \A i, j \in 1 .. M : i # j => Range(q[i]) \cap Range(q[j]) = {} BY <1>6
<1>8. IsInjective(DescendantsOf(a)) BY <1>4, <1>5, <1>7 DEF Joined
<1>9. \A d : d \in Range(DescendantsOf(a)) <=> \E n \in 1 .. M : d \in Range(q[n]) BY <1>4 DEF Joined
<1> QED BY <1>1, <1>5, <1>8, <1>9

\* getAncestors lists the steps up, one after the other.
LEMMA AncestorsAre ==
    ASSUME FamilyInv, orderly, NEW up, IsClimb(up), NEW d \in DOMAIN family
    PROVE  Ancestors(d) = [i \in 1 .. family[d].depth |-> up[i][d]]
<1>1. PICK M \in Nat : M = MaxRegistrations BY FamilyAssumption
<1>2. PICK c \in Nat : c = family[d].depth /\ c < M BY <1>1, ForestHas
<1>3. PICK D : D = DOMAIN family OBVIOUS
<1> DEFINE Upto(m) == IF m <= c THEN m + 1 ELSE c + 1
           Way(m) == [i \in 1 .. Upto(m) |-> up[i - 1][d]]
           Onward(h, m) == IF m = 0 THEN <<d>>
                           ELSE IF family[Last(h[m - 1])].parent \in DOMAIN family
                                THEN Append(h[m - 1], family[Last(h[m - 1])].parent) ELSE h[m - 1]
<1>4. Way(0) = <<d>>
  <2>1. up[0][d] = d BY DEF IsClimb
  <2>2. Upto(0) = 1 OBVIOUS
  <2>3. Way(0) = [i \in 1 .. 1 |-> up[i - 1][d]] BY <2>2
  <2>4. \A i \in 1 .. 1 : up[i - 1][d] = d
    <3> SUFFICES ASSUME NEW i \in 1 .. 1 PROVE up[i - 1][d] = d OBVIOUS
    <3>1. i - 1 = 0 OBVIOUS
    <3> QED BY <3>1, <2>1
  <2>5. Way(0) = [i \in 1 .. 1 |-> d] BY <2>3, <2>4
  <2> HIDE DEF Way
  <2> QED BY <2>5
<1>5. ASSUME NEW m \in Nat, m + 1 <= M
      PROVE  Way(m + 1) = IF family[Last(Way(m))].parent \in DOMAIN family
                          THEN Append(Way(m), family[Last(Way(m))].parent) ELSE Way(m)
  <2>1. m + 1 \in 1 .. M /\ (m + 1) - 1 = m /\ m \in 0 .. M
    <3> HIDE DEF Way
    <3> QED BY <1>5
  <2>2. PICK n \in Nat : n = Upto(m) /\ n >= 1 OBVIOUS
  <2>3. Len(Way(m)) = n /\ DOMAIN Way(m) = 1 .. n BY <2>2
  <2>4. Last(Way(m)) = up[n - 1][d]
    <3>1. Way(m)[n] = up[n - 1][d] BY <2>2
    <3> QED BY <3>1, <2>3 DEF Last
  <2>5. CASE m <= c
    <3>1. n = m + 1 /\ n - 1 = m BY <2>2, <2>5
    <3>2. up[m][d] \in DOMAIN family /\ family[up[m][d]].depth = c - m
          BY <2>1, <2>5, <1>1, <1>2, ClimbLowers
    <3>3. PICK p : p = family[Last(Way(m))].parent OBVIOUS
    <3>4. up[m + 1][d] = p BY <2>1, <2>4, <3>1, <3>2, <3>3, <1>1 DEF IsClimb
    <3>5. p \in DOMAIN family <=> m + 1 <= c
      <4>1. m + 1 \in 0 .. MaxRegistrations BY <2>1, <1>1
      <4> QED BY <4>1, <3>4, <1>2, ClimbLowers
    <3>6. CASE m + 1 <= c
      <4>1. Upto(m + 1) = n + 1 BY <3>1, <3>6
      <4>2. PICK s : s = Way(m) OBVIOUS
      <4>3. /\ DOMAIN s = 1 .. n /\ Len(s) = n /\ s = [i \in 1 .. n |-> up[i - 1][d]]
            BY <2>2, <2>3, <4>2
      <4>8. s \in Seq(D \cup {NoParent})
        <5>1. \A i \in 1 .. n : i - 1 \in 0 .. MaxRegistrations BY <3>1, <2>1, <1>1
        <5>2. \A i \in 1 .. n : s[i] \in D \cup {NoParent} BY <5>1, <4>3, <1>3 DEF IsClimb
        <5>3. s \in [1 .. n -> D \cup {NoParent}] BY <4>3, <5>2
        <5> QED BY <5>3
      <4>4. Append(s, p) = [i \in 1 .. n + 1 |-> IF i = n + 1 THEN p ELSE s[i]]
        <5>1. p \in D \cup {NoParent} BY <3>5, <3>6, <1>3
        <5>2. PICK r : r = Append(s, p) OBVIOUS
        <5>3. /\ r \in Seq(D \cup {NoParent}) /\ Len(r) = n + 1
              /\ \A i \in 1 .. n : r[i] = s[i]
              /\ r[n + 1] = p
              BY <5>1, <5>2, <4>3, <4>8, AppendProperties
        <5>4. r \in [1 .. n + 1 -> D \cup {NoParent}] BY <5>3
        <5>5. \A i \in 1 .. n + 1 : r[i] = IF i = n + 1 THEN p ELSE s[i] BY <5>3
        <5> QED BY <5>2, <5>4, <5>5
      <4>5. ASSUME NEW i \in 1 .. n + 1 PROVE up[i - 1][d] = IF i = n + 1 THEN p ELSE s[i]
        <5>1. CASE i = n + 1
          <6>1. i - 1 = m + 1 BY <5>1, <3>1
          <6> QED BY <5>1, <6>1, <3>4
        <5>2. CASE i # n + 1
          <6>1. i \in 1 .. n BY <5>2
          <6> QED BY <5>2, <6>1, <4>3
        <5> QED BY <5>1, <5>2
      <4>6. Append(s, p) = [i \in 1 .. n + 1 |-> up[i - 1][d]] BY <4>4, <4>5
      <4>7. Way(m + 1) = Append(s, p) BY <4>1, <4>6
      <4> QED BY <4>2, <4>7, <3>3, <3>5, <3>6
    <3>7. CASE ~(m + 1 <= c)
      <4>1. Upto(m + 1) = n BY <3>1, <3>7, <2>5
      <4>2. Way(m + 1) = Way(m) BY <4>1, <2>2
      <4> QED BY <4>2, <3>3, <3>5, <3>7
    <3> QED BY <3>6, <3>7
  <2>6. CASE ~(m <= c)
    <3>1. n = c + 1 /\ n - 1 = c /\ Upto(m + 1) = n BY <2>2, <2>6
    <3>2. c \in 0 .. MaxRegistrations BY <1>1, <1>2
    <3>3. up[c][d] \in DOMAIN family /\ family[up[c][d]].depth = c - c BY <3>2, <1>2, ClimbLowers
    <3>4. c - c = 0 OBVIOUS
    <3>5. family[up[c][d]].parent = NoParent BY <3>3, <3>4, ForestHas
    <3>6. family[Last(Way(m))].parent \notin DOMAIN family BY <3>1, <3>5, <2>4, ForestHas
    <3>7. Way(m + 1) = Way(m) BY <3>1, <2>2
    <3> QED BY <3>6, <3>7
  <2> QED BY <2>5, <2>6
<1> HIDE DEF Way
<1>6. PICK h : h = [m \in 0 .. M |-> Way(m)] OBVIOUS
<1>7. h = [m \in 0 .. M |-> Onward(h, m)]
  <2>1. ASSUME NEW m \in 0 .. M PROVE h[m] = Onward(h, m)
    <3>1. CASE m = 0 BY <3>1, <1>4, <1>6
    <3>2. CASE m # 0
      <4>1. PICK l \in Nat : l = m - 1 /\ l + 1 = m /\ l + 1 <= M /\ l \in 0 .. M BY <3>2
      <4>2. h[m] = Way(l + 1) /\ h[m - 1] = Way(l) BY <4>1, <1>6
      <4> QED BY <3>2, <4>1, <4>2, <1>5
    <3> QED BY <3>1, <3>2
  <2> HIDE DEF Onward
  <2> QED BY <2>1, <1>6
<1>8. PICK g : g = CHOOSE w : w = [m \in 0 .. M |-> Onward(w, m)] OBVIOUS
<1>9. g = [m \in 0 .. M |-> Onward(g, m)]
  <2> HIDE DEF Onward
  <2> QED BY <1>7, <1>8
<1>10. Ancestors(d) = Tail(g[M]) BY <1>1, <1>8 DEF Ancestors, Ascent
<1> DEFINE P == {m \in Nat : m <= M => g[m] = Way(m)}
<1>11. 0 \in P
  <2>1. 0 \in 0 .. M OBVIOUS
  <2>2. g[0] = <<d>> BY <2>1, <1>9
  <2> QED BY <2>2, <1>4
<1>12. ASSUME NEW m \in Nat, m \in P PROVE m + 1 \in P
  <2> SUFFICES ASSUME m + 1 <= M PROVE g[m + 1] = Way(m + 1) OBVIOUS
  <2>1. m + 1 \in 0 .. M /\ m + 1 # 0 /\ (m + 1) - 1 = m OBVIOUS
  <2>2. PICK t : t = g[m] OBVIOUS
  <2>3. g[m + 1] = IF family[Last(t)].parent \in DOMAIN family
                   THEN Append(t, family[Last(t)].parent) ELSE t
        BY <2>1, <2>2, <1>9
  <2>4. t = Way(m) BY <2>2, <1>12
  <2> QED BY <2>3, <2>4, <1>5
<1> HIDE DEF P
<1>13. Nat \subseteq P BY <1>11, <1>12, FromZeroOn
<1>14. g[M] = Way(M) BY <1>13 DEF P
<1>15. Way(M) = [i \in 1 .. c + 1 |-> up[i - 1][d]]
  <2>1. Upto(M) = c + 1 BY <1>2
  <2> QED BY <2>1 DEF Way
<1>16. PICK t : t = Way(M) OBVIOUS
<1>17. /\ Len(t) = c + 1 /\ DOMAIN t = 1 .. c + 1
       /\ \A i \in 1 .. c + 1 : t[i] = up[i - 1][d]
       BY <1>15, <1>16
<1>18. Tail(t) = [i \in 1 .. c |-> t[i + 1]]
  <2>1. \A i \in 1 .. c + 1 : i - 1 \in 0 .. MaxRegistrations BY <1>1, <1>2
  <2>2. \A i \in 1 .. c + 1 : t[i] \in D \cup {NoParent} BY <2>1, <1>3, <1>17 DEF IsClimb
  <2>3. t \in [1 .. c + 1 -> D \cup {NoParent}] BY <2>2, <1>15, <1>16
  <2>4. t \in Seq(D \cup {NoParent}) /\ t # <<>> BY <2>3, <1>17
  <2>5. PICK r : r = Tail(t) OBVIOUS
  <2>6. /\ r \in Seq(D \cup {NoParent}) /\ Len(r) = c
        /\ \A i \in 1 .. c : r[i] = t[i + 1]
        BY <2>4, <2>5, <1>17, HeadTailProperties
  <2>7. r \in [1 .. c -> D \cup {NoParent}] BY <2>6
  <2> QED BY <2>5, <2>6, <2>7
<1>19. ASSUME NEW i \in 1 .. c PROVE t[i + 1] = up[i][d]
  <2>1. i + 1 \in 1 .. c + 1 /\ (i + 1) - 1 = i OBVIOUS
  <2> QED BY <2>1, <1>17
<1>20. Tail(t) = [i \in 1 .. c |-> up[i][d]] BY <1>18, <1>19
<1> QED BY <1>2, <1>10, <1>14, <1>16, <1>20

\* Depth counts the steps up to a root.
LEMMA RootsAreReached ==
    ASSUME FamilyInv, orderly, NEW up, IsClimb(up), NEW a \in DOMAIN family
    PROVE  /\ Len(Ancestors(a)) = family[a].depth
           /\ RootOf(a) \in Roots /\ Head(Lineage(a)) = RootOf(a)
<1>1. PICK c \in Nat : c = family[a].depth /\ c < MaxRegistrations BY ForestHas
<1>2. PICK s : s = Ancestors(a) OBVIOUS
<1>3. s = [i \in 1 .. c |-> up[i][a]] BY <1>1, <1>2, AncestorsAre
<1>4. Len(s) = c /\ DOMAIN s = 1 .. c BY <1>3
<1>5. CASE c = 0
  <2>1. s = <<>> BY <1>3, <1>5
  <2>2. RootOf(a) = a BY <2>1, <1>2 DEF RootOf
  <2>3. family[a].parent = NoParent BY <1>1, <1>5, ForestHas
  <2>4. Reverse(s) = <<>> BY <1>4, <1>5 DEF Reverse
  <2>5. Head(Lineage(a)) = a BY <2>4, <1>2 DEF Lineage
  <2> QED BY <2>2, <2>3, <2>5, <1>1, <1>2, <1>4 DEF Roots
<1>6. CASE c # 0
  <2>1. c \in 1 .. c /\ c \in 0 .. MaxRegistrations BY <1>1, <1>6, FamilyAssumption
  <2>2. s[c] = up[c][a] BY <2>1, <1>3
  <2>3. up[c][a] \in DOMAIN family /\ family[up[c][a]].depth = c - c BY <2>1, <1>1, ClimbLowers
  <2>4. c - c = 0 OBVIOUS
  <2>5. family[up[c][a]].parent = NoParent BY <2>3, <2>4, ForestHas
  <2>6. s # <<>> BY <1>4, <1>6
  <2>7. RootOf(a) = s[c] BY <2>6, <1>2, <1>4 DEF RootOf, Last
  <2>8. PICK r : r = Reverse(s) OBVIOUS
  <2>9. r = [i \in 1 .. c |-> s[(c - i) + 1]] BY <2>8, <1>4 DEF Reverse
  <2>10. Len(r) = c /\ DOMAIN r = 1 .. c /\ r[1] = s[c]
    <3>1. 1 \in 1 .. c /\ (c - 1) + 1 = c BY <2>1
    <3>2. r[1] = s[(c - 1) + 1] BY <3>1, <2>9
    <3> QED BY <3>1, <3>2, <2>9
  <2>11. r \in Seq(DOMAIN family \cup {NoParent})
    <3>1. \A i \in 1 .. c : (c - i) + 1 \in 1 .. c /\ (c - i) + 1 \in 0 .. MaxRegistrations
      <4>1. PICK M \in Nat : M = MaxRegistrations BY FamilyAssumption
      <4>2. c \in Nat /\ c < M BY <4>1, <1>1
      <4> QED BY <4>1, <4>2
    <3>2. \A i \in 1 .. c : s[(c - i) + 1] \in DOMAIN family \cup {NoParent} BY <3>1, <1>3 DEF IsClimb
    <3>3. r \in [1 .. c -> DOMAIN family \cup {NoParent}] BY <3>2, <2>9
    <3> QED BY <3>3
  <2>12. Head(Lineage(a)) = s[c]
    <3>1. PICK l : l = Append(r, a) OBVIOUS
    <3>2. l[1] = r[1] /\ l \in Seq(DOMAIN family \cup {NoParent}) /\ Len(l) = c + 1
      <4>1. 1 \in 1 .. c BY <2>1
      <4> QED BY <4>1, <3>1, <2>10, <2>11, AppendProperties
    <3>3. l # <<>> BY <3>2
    <3>4. Head(l) = l[1] BY <3>2, <3>3, HeadTailProperties
    <3> QED BY <3>1, <3>2, <3>4, <2>8, <2>10, <1>2 DEF Lineage
  <2> QED BY <2>2, <2>3, <2>5, <2>7, <2>12, <1>1, <1>2, <1>4 DEF Roots
<1> QED BY <1>5, <1>6

LEMMA FamilyFollows == FamilyInv => ChildrenAreYounger /\ DescentEnds /\ OrderlyFamiliesAgree
<1> SUFFICES ASSUME FamilyInv PROVE ChildrenAreYounger /\ DescentEnds /\ OrderlyFamiliesAgree OBVIOUS
<1>1. DescentEnds BY DescentGoesOn DEF DescentEnds
<1>2. ASSUME orderly PROVE OrderlyFamiliesAgree
  <2>1. PICK up : IsClimb(up) BY <1>2, ClimbExists
  <2>2. PICK M \in Nat : M = MaxRegistrations BY FamilyAssumption
  <2>3. ASSUME NEW a \in DOMAIN family, NEW d \in DOMAIN family
        PROVE  IsAncestor(a, d) <=> d \in Range(DescendantsOf(a))
    <3>1. PICK c \in Nat : c = family[d].depth /\ c < M BY <1>2, <2>2, ForestHas
    <3>2. Ancestors(d) = [i \in 1 .. c |-> up[i][d]] BY <3>1, <1>2, <2>1, AncestorsAre
    <3>3. IsAncestor(a, d) <=> \E i \in 1 .. c : up[i][d] = a BY <3>2 DEF IsAncestor, Range
    <3>4. d \in Range(DescendantsOf(a)) <=> \E n \in 1 .. M : up[n][d] = a
          BY <1>2, <2>1, <2>2, DescendantsAre
    <3>5. ASSUME NEW n \in 1 .. M, up[n][d] = a PROVE n \in 1 .. c
      <4>1. n \in 0 .. MaxRegistrations /\ up[n][d] \in DOMAIN family BY <3>5, <2>2
      <4>2. n <= c BY <4>1, <3>1, <1>2, <2>1, ClimbLowers
      <4> QED BY <4>2
    <3>6. \A i \in 1 .. c : i \in 1 .. M BY <3>1
    <3> QED BY <3>3, <3>4, <3>5, <3>6
  <2>4. ASSUME NEW a \in DOMAIN family
        PROVE  /\ ~ClimbsForEver(a) /\ IsInjective(DescendantsOf(a))
               /\ family[a].depth = Len(Ancestors(a))
               /\ RootOf(a) \in Roots /\ Head(Lineage(a)) = RootOf(a)
    <3>1. family[a].depth \in Nat /\ family[a].depth < M BY <1>2, <2>2, ForestHas
    <3>2. Len(Ancestors(a)) = family[a].depth BY <1>2, <2>1, RootsAreReached
    <3>3. ~ClimbsForEver(a) BY <3>1, <3>2, <2>2 DEF ClimbsForEver
    <3> QED BY <3>2, <3>3, <1>2, <2>1, RootsAreReached, DescendantsAre
  <2>5. ASSUME NEW d \in DOMAIN family, family[d].depth = DeepestOf(DOMAIN family)
        PROVE  family[d].children = <<>>
    <3>1. PICK S : S = {family[a].depth : a \in DOMAIN family} \cup {0} OBVIOUS
    <3>2. S \in SUBSET (0 .. M) /\ S # {}
      <4>1. \A a \in DOMAIN family : family[a].depth \in 0 .. M BY <1>2, <2>2, ForestHas
      <4> QED BY <4>1, <3>1
    <3>3. family[d].depth = Max(S) BY <3>1, <2>5 DEF DeepestOf
    <3>4. \A y \in S : Max(S) >= y BY <3>2, GreatestOf
    <3>5. PICK s \in Seq(Spawned) : s = family[d].children BY DEF FamilyInv, FamilyTypeOK
    <3>6. SUFFICES ASSUME s # <<>> PROVE FALSE BY <3>5
    <3>7. 1 \in DOMAIN s BY <3>6
    <3>8. PICK x : x = s[1] OBVIOUS
    <3>9. x \in Range(s) BY <3>7, <3>8 DEF Range
    <3>10. x \in DOMAIN family /\ family[x].parent = d BY <3>5, <3>9, <1>2, ForestHas
    <3>11. d # NoParent BY <1>2, ForestHas
    <3>12. family[x].depth = family[d].depth + 1 BY <3>10, <3>11, <1>2, ForestHas
    <3>13. family[x].depth \in S BY <3>10, <3>1
    <3>14. family[d].depth \in Nat BY <1>2, ForestHas
    <3> QED BY <3>3, <3>4, <3>12, <3>13, <3>14
  <2> QED BY <2>3, <2>4, <2>5 DEF OrderlyFamiliesAgree
<1>3. OrderlyFamiliesAgree BY <1>2 DEF OrderlyFamiliesAgree
<1> QED BY <1>1, <1>3 DEF FamilyInv

\* In whatever order agents are registered, again or under parents that nobody knows, a child
\* is on record, with a younger record than that which lists it, and nobody is below itself; and
\* while each is registered once and after its parent, the ways up and down agree
\* (registerAgent, getAncestors, getDescendants).
THEOREM FamiliesDescend ==
    FamilySpec => [](ChildrenAreYounger /\ DescentEnds /\ OrderlyFamiliesAgree)
<1>1. FamilyInv => ChildrenAreYounger /\ DescentEnds /\ OrderlyFamiliesAgree BY FamilyFollows
<1> QED BY <1>1, FamilyAlways, PTL

\* So no child is above itself: whoever is listed with an agent does not list it.
THEOREM NobodyListsItsParent ==
    FamilySpec => [](\A a, c \in DOMAIN family :
                        c \in Range(family[a].children) => a \notin Range(family[c].children))
<1>1. FamilyInv => \A a, c \in DOMAIN family :
                      c \in Range(family[a].children) => a \notin Range(family[c].children)
  <2> SUFFICES ASSUME FamilyInv, NEW a \in DOMAIN family, NEW c \in DOMAIN family,
                      c \in Range(family[a].children), a \in Range(family[c].children)
               PROVE  FALSE
      OBVIOUS
  <2>1. family[a].born < family[c].born /\ family[c].born < family[a].born
        BY DEF FamilyInv, ChildrenAreYounger
  <2>2. family[a].born \in Int /\ family[c].born \in Int BY DEF FamilyInv, FamilyTypeOK
  <2> QED BY <2>1, <2>2
<1> QED BY <1>1, FamilyInitially, FamilyStep, PTL DEF FamilySpec

-----------------------------------------------------------------------------
(***************************************************************************)
(* Conflicts between policy rules.  A rule in force is a rule of the       *)
(* analysis but for its priority; and what an enabled rule of the analysis *)
(* says, an enabled rule in force says too: of two copies one stays.       *)
(***************************************************************************)
LEMMA AboveIsOrder ==
    ASSUME NEW t, IsRuleTable(t)
    PROVE  /\ \A j, k \in DOMAIN t : j # k => Above(t, j, k) \/ Above(t, k, j)
           /\ \A j \in DOMAIN t : ~Above(t, j, j)
           /\ \A i, j, k \in DOMAIN t : Above(t, i, j) /\ Above(t, j, k) => Above(t, i, k)
<1>1. PICK S : t \in Seq(S) BY DEF IsRuleTable
<1>2. \A k \in DOMAIN t : k \in Nat /\ t[k].priority \in Int BY <1>1 DEF IsRuleTable
<1> QED BY <1>2 DEF Above

LEMMA RanksAreApart ==
    ASSUME NEW t, IsRuleTable(t)
    PROVE  /\ \A k \in DOMAIN t : RankOf(t, k) \in DOMAIN t
           /\ \A j, k \in DOMAIN t : j # k => RankOf(t, j) # RankOf(t, k)
           /\ \A n \in DOMAIN t : \E k \in DOMAIN t : RankOf(t, k) = n
<1>1. PICK S : t \in Seq(S) BY DEF IsRuleTable
<1>2. DOMAIN t = 1 .. Len(t) /\ Len(t) \in Nat BY <1>1
<1>3. PICK B : B = [k \in 1 .. Len(t) |-> {j \in DOMAIN t : Above(t, j, k)}] OBVIOUS
<1>4. \A k \in DOMAIN t : B[k] = {j \in DOMAIN t : Above(t, j, k)} BY <1>2, <1>3
<1>10. /\ \A j, k \in DOMAIN t : j # k => Above(t, j, k) \/ Above(t, k, j)
       /\ \A j \in DOMAIN t : ~Above(t, j, j)
       /\ \A i, j, k \in DOMAIN t : Above(t, i, j) /\ Above(t, j, k) => Above(t, i, k)
       BY AboveIsOrder
<1>11. \A j, k \in DOMAIN t : j \in B[k] <=> Above(t, j, k) BY <1>4
<1>12. \A k \in DOMAIN t : B[k] \subseteq DOMAIN t BY <1>4
<1>5. /\ \A k \in 1 .. Len(t) : B[k] \subseteq 1 .. Len(t) /\ k \notin B[k]
      /\ \A j, k \in 1 .. Len(t) : j # k => j \in B[k] \/ k \in B[j]
      /\ \A i, j, k \in 1 .. Len(t) : i \in B[j] /\ j \in B[k] => i \in B[k]
      BY <1>2, <1>10, <1>11, <1>12
<1>6. /\ \A k \in 1 .. Len(t) : Cardinality(B[k]) + 1 \in 1 .. Len(t)
      /\ \A j, k \in 1 .. Len(t) : j \in B[k] => Cardinality(B[j]) < Cardinality(B[k])
      /\ \A j, k \in 1 .. Len(t) : j # k => Cardinality(B[j]) # Cardinality(B[k])
      /\ \A m \in 1 .. Len(t) : \E k \in 1 .. Len(t) : Cardinality(B[k]) + 1 = m
      BY <1>2, <1>5, CountingOrders
<1>7. \A k \in DOMAIN t : RankOf(t, k) = Cardinality(B[k]) + 1 BY <1>4 DEF RankOf
<1>8. \A j, k \in DOMAIN t : j # k => RankOf(t, j) # RankOf(t, k)
  <2> SUFFICES ASSUME NEW j \in DOMAIN t, NEW k \in DOMAIN t, j # k
               PROVE  RankOf(t, j) # RankOf(t, k)
      OBVIOUS
  <2>1. Cardinality(B[j]) # Cardinality(B[k]) BY <1>2, <1>6
  <2>2. Cardinality(B[j]) + 1 \in 1 .. Len(t) /\ Cardinality(B[k]) + 1 \in 1 .. Len(t)
        BY <1>2, <1>6
  <2>3. IsFiniteSet(B[j]) /\ IsFiniteSet(B[k])
    <3>1. IsFiniteSet(1 .. Len(t)) BY <1>2, FS_Interval
    <3> QED BY <3>1, <1>2, <1>5, FS_Subset
  <2>4. Cardinality(B[j]) \in Nat /\ Cardinality(B[k]) \in Nat BY <2>3, FS_CardinalityType
  <2> QED BY <2>1, <2>4, <1>7
<1> QED BY <1>2, <1>6, <1>7, <1>8

\* The sort loses no rule and doubles none.
LEMMA SortedIsTheTable ==
    ASSUME NEW t, IsRuleTable(t)
    PROVE  /\ IsRuleTable(SortedRules(t))
           /\ \A n \in DOMAIN SortedRules(t) : \E k \in DOMAIN t : SortedRules(t)[n] = t[k]
           /\ \A k \in DOMAIN t : \E n \in DOMAIN SortedRules(t) : SortedRules(t)[n] = t[k]
<1> DEFINE D == DOMAIN t
           W(n) == CHOOSE k \in D : RankOf(t, k) = n
           s == SortedRules(t)
<1>1. PICK S : t \in Seq(S) BY DEF IsRuleTable
<1>2. D = 1 .. Len(t) /\ Len(t) \in Nat BY <1>1
<1>6. \A n \in D : \E k \in D : RankOf(t, k) = n BY RanksAreApart
<1>7. \A n \in D : W(n) \in D /\ RankOf(t, W(n)) = n BY <1>6
<1>8. \A k \in D : RankOf(t, k) \in D /\ W(RankOf(t, k)) = k
      BY <1>7, RanksAreApart
<1>9. s = [n \in D |-> t[W(n)]] BY DEF SortedRules
<1> HIDE DEF D, W, s
<1>10. DOMAIN s = D /\ \A n \in D : s[n] = t[W(n)] BY <1>9
<1>11. s \in Seq(Range(s)) BY <1>2, <1>9, <1>10 DEF Range
<1>12. IsRuleTable(s)
  <2>1. \A k \in DOMAIN s : /\ DOMAIN s[k] = RuleFields
                            /\ s[k].priority \in Int /\ s[k].enabled \in BOOLEAN
        BY <1>7, <1>10 DEF IsRuleTable, D
  <2>2. ASSUME NEW i \in DOMAIN s, NEW j \in DOMAIN s, i # j PROVE s[i].id # s[j].id
    <3>1. W(i) # W(j) BY <2>2, <1>7, <1>10
    <3> QED BY <3>1, <1>7, <1>10 DEF IsRuleTable, D
  <2> QED BY <1>11, <2>1, <2>2 DEF IsRuleTable
<1> QED BY <1>7, <1>8, <1>10, <1>12 DEF s, D

LEMMA OneRuleLess ==
    ASSUME NEW t, IsRuleTable(t), NEW k \in DOMAIN t
    PROVE  /\ IsRuleTable(RemoveAt(t, k))
           /\ \A i \in DOMAIN RemoveAt(t, k) :
                 \E j \in DOMAIN t : j # k /\ RemoveAt(t, k)[i] = t[j]
           /\ \A j \in DOMAIN t : j # k =>
                 \E i \in DOMAIN RemoveAt(t, k) : RemoveAt(t, k)[i] = t[j]
<1> DEFINE u == RemoveAt(t, k)
           From(i) == IF i < k THEN i ELSE i + 1
<1>1. PICK S : t \in Seq(S) BY DEF IsRuleTable
<1>2. DOMAIN t = 1 .. Len(t) /\ Len(t) \in Nat /\ k \in 1 .. Len(t) BY <1>1
<1>8. /\ u \in Seq(S) /\ Len(u) = Len(t) - 1
      /\ \A i \in 1 .. Len(t) - 1 : u[i] = IF i < k THEN t[i] ELSE t[i + 1]
      BY <1>1, <1>2, OneTakenOut
<1> HIDE DEF u
<1>9. DOMAIN u = 1 .. Len(t) - 1 /\ \A i \in 1 .. Len(t) - 1 : u[i] = t[From(i)]
      BY <1>2, <1>8
<1>10. \A i \in 1 .. Len(t) - 1 : From(i) \in DOMAIN t /\ From(i) # k BY <1>2
<1>11. \A i, j \in 1 .. Len(t) - 1 : i # j => From(i) # From(j) BY <1>2
<1>12. \A j \in DOMAIN t : j # k => \E i \in 1 .. Len(t) - 1 : From(i) = j
  <2> SUFFICES ASSUME NEW j \in DOMAIN t, j # k PROVE \E i \in 1 .. Len(t) - 1 : From(i) = j
      OBVIOUS
  <2>1. CASE j < k BY <2>1, <1>2
  <2>2. CASE j > k
    <3>1. j - 1 \in 1 .. Len(t) - 1 /\ From(j - 1) = j BY <2>2, <1>2
    <3> QED BY <3>1
  <2> QED BY <2>1, <2>2, <1>2
<1> HIDE DEF From
<1>13. IsRuleTable(u)
  <2>1. u \in Seq(Range(u)) BY <1>8, <1>9 DEF Range
  <2>2. \A i \in DOMAIN u : /\ DOMAIN u[i] = RuleFields
                            /\ u[i].priority \in Int /\ u[i].enabled \in BOOLEAN
        BY <1>9, <1>10 DEF IsRuleTable
  <2>3. ASSUME NEW i \in DOMAIN u, NEW j \in DOMAIN u, i # j PROVE u[i].id # u[j].id
        BY <2>3, <1>9, <1>10, <1>11 DEF IsRuleTable
  <2> QED BY <2>1, <2>2, <2>3 DEF IsRuleTable
<1>14. \A i \in DOMAIN u : \E j \in DOMAIN t : j # k /\ u[i] = t[j] BY <1>9, <1>10
<1>15. \A j \in DOMAIN t : j # k => \E i \in DOMAIN u : u[i] = t[j] BY <1>9, <1>12
<1> QED BY <1>13, <1>14, <1>15 DEF u

Says(t, r) == \E k \in DOMAIN t : t[k].enabled = TRUE /\ Signature(t[k]) = Signature(r)
SaysAll(t, u) == \A k \in DOMAIN u : u[k].enabled = TRUE => Says(t, u[k])
AlikeRules(r, s) == r.id = s.id /\ Signature(r) = Signature(s) /\ r.enabled = s.enabled
FromAnalysis == \A k \in DOMAIN policyRules : \E n \in DOMAIN analysed : AlikeRules(policyRules[k], analysed[n])

ConflictsInv ==
    /\ IsRuleTable(policyRules) /\ IsRuleTable(analysed)
    /\ conflicts = ConflictsOf(analysed)
    /\ analysed # <<>> => FromAnalysis
    /\ CopiesAreAlike => SaysAll(policyRules, analysed)

LEMMA NothingConflicts == IsRuleTable(<<>>) /\ ConflictsOf(<<>>) = {}
BY DEF IsRuleTable, Range, ConflictsOf, Pairs, Redundancies, Unreachables

LEMMA ConflictsInitially == ConflictsInit => ConflictsInv
<1> SUFFICES ASSUME ConflictsInit PROVE ConflictsInv OBVIOUS
<1>1. IsRuleTable(policyRules) BY ConflictsAssumption DEF ConflictsInit
<1>2. analysed = <<>> /\ conflicts = {} BY DEF ConflictsInit
<1> QED BY <1>1, <1>2, NothingConflicts DEF ConflictsInv, SaysAll

LEMMA AnalyzeKeeps ==
    ASSUME ConflictsInv, Analyze
    PROVE  ConflictsInv'
<1>1. PICK t : t = SortedRules(policyRules) OBVIOUS
<1>2. analysed' = t /\ conflicts' = ConflictsOf(t) /\ policyRules' = policyRules
      BY <1>1 DEF Analyze
<1>3. /\ IsRuleTable(policyRules) /\ IsRuleTable(t)
      /\ \A n \in DOMAIN t : \E k \in DOMAIN policyRules : t[n] = policyRules[k]
      /\ \A k \in DOMAIN policyRules : \E n \in DOMAIN t : t[n] = policyRules[k]
      BY <1>1, SortedIsTheTable DEF ConflictsInv
<1>4. FromAnalysis' BY <1>2, <1>3 DEF FromAnalysis, AlikeRules
<1>5. SaysAll(policyRules, t) BY <1>3 DEF SaysAll, Says
<1> QED BY <1>2, <1>3, <1>4, <1>5 DEF ConflictsInv

LEMMA ReportedHow ==
    ASSUME NEW t, NEW c \in ConflictsOf(t)
    PROVE  \/ \E p \in Pairs(t) : c \in PairConflicts(t[p[1]], t[p[2]])
           \/ c \in Redundancies(t)
           \/ c \in Unreachables(t)
<1>1. PICK A : A = {PairConflicts(t[p[1]], t[p[2]]) : p \in Pairs(t)} OBVIOUS
<1>2. c \in UNION A \/ c \in Redundancies(t) \/ c \in Unreachables(t) BY <1>1 DEF ConflictsOf
<1>3. \A S \in A : \E p \in Pairs(t) : S = PairConflicts(t[p[1]], t[p[2]]) BY <1>1
<1> QED BY <1>2, <1>3

\* What is reported, by its type.
LEMMA WhatIsRedundant ==
    ASSUME NEW t, NEW c \in ConflictsOf(t), c.type = "redundant"
    PROVE  \E i, j \in DOMAIN t : /\ i < j /\ c.ids = <<t[i].id, t[j].id>>
                                  /\ Signature(t[i]) = Signature(t[j])
<1>1. \A p \in Pairs(t) : c \notin PairConflicts(t[p[1]], t[p[2]]) BY DEF PairConflicts, Conflict
<1>2. c \notin Unreachables(t) BY DEF Unreachables, Conflict
<1>3. c \in Redundancies(t) BY <1>1, <1>2, ReportedHow
<1> QED BY <1>3 DEF Redundancies, Conflict, Pairs

LEMMA WhatIsUnreachable ==
    ASSUME NEW t, NEW c \in ConflictsOf(t), c.type = "unreachable", c.auto
    PROVE  \E k \in DOMAIN t : c.ids = <<t[k].id>> /\ ~t[k].enabled
<1>1. \A p \in Pairs(t) : c \notin PairConflicts(t[p[1]], t[p[2]]) BY DEF PairConflicts, Conflict
<1>2. c \notin Redundancies(t) BY DEF Redundancies, Conflict
<1>3. c \in Unreachables(t) BY <1>1, <1>2, ReportedHow
<1> QED BY <1>3 DEF Unreachables, Conflict

LEMMA WhatIsShadowed ==
    ASSUME NEW t, NEW c \in ConflictsOf(t), c.type = "shadowed"
    PROVE  \E i, j \in DOMAIN t : c.ids = <<t[i].id, t[j].id>> /\ Words(t[j]) \subseteq Words(t[i])
<1>1. c \notin Redundancies(t) BY DEF Redundancies, Conflict
<1>2. c \notin Unreachables(t) BY DEF Unreachables, Conflict
<1>3. PICK p \in Pairs(t) : c \in PairConflicts(t[p[1]], t[p[2]]) BY <1>1, <1>2, ReportedHow
<1> QED BY <1>3 DEF PairConflicts, Conflict, Pairs

\* A rule that is taken out leaves the rest as it was, and what the rest does not say was
\* said by that rule.
LEMMA WithoutOne ==
    ASSUME IsRuleTable(policyRules), NEW id
    PROVE  /\ IsRuleTable(Without(id))
           /\ \A i \in DOMAIN Without(id) :
                 \E j \in DOMAIN policyRules : policyRules[j].id # id /\ Without(id)[i] = policyRules[j]
           /\ \A j \in DOMAIN policyRules : policyRules[j].id # id =>
                 \E i \in DOMAIN Without(id) : Without(id)[i] = policyRules[j]
<1>1. CASE ~Known(id) BY <1>1 DEF Without, Known
<1>2. CASE Known(id)
  <2>1. PICK k : k = PlaceOf(id) OBVIOUS
  <2>2. k \in DOMAIN policyRules /\ policyRules[k].id = id BY <1>2, <2>1 DEF Known, PlaceOf
  <2>3. \A j \in DOMAIN policyRules : policyRules[j].id = id <=> j = k
        BY <2>2 DEF IsRuleTable
  <2>4. Without(id) = RemoveAt(policyRules, k) BY <1>2, <2>1 DEF Without
  <2> QED BY <2>2, <2>3, <2>4, OneRuleLess
<1> QED BY <1>1, <1>2

\* A rule may be taken out if it is disabled, or if a rule that stays says the same.
LEMMA TakingOutKeeps ==
    ASSUME ConflictsInv, NEW id, policyRules' = Without(id), UNCHANGED <<analysed, conflicts>>,
           CopiesAreAlike =>
               \A k \in DOMAIN policyRules : policyRules[k].id = id /\ policyRules[k].enabled = TRUE =>
                   \E j \in DOMAIN policyRules :
                       /\ policyRules[j].id # id /\ policyRules[j].enabled = TRUE
                       /\ Signature(policyRules[j]) = Signature(policyRules[k])
    PROVE  ConflictsInv'
<1>1. PICK t, u : t = policyRules /\ u = Without(id) OBVIOUS
<1>2. /\ IsRuleTable(t) /\ IsRuleTable(u)
      /\ \A i \in DOMAIN u : \E j \in DOMAIN t : t[j].id # id /\ u[i] = t[j]
      /\ \A j \in DOMAIN t : t[j].id # id => \E i \in DOMAIN u : u[i] = t[j]
      BY <1>1, WithoutOne DEF ConflictsInv
<1>3. policyRules' = u /\ analysed' = analysed /\ conflicts' = conflicts BY <1>1
<1>4. ASSUME analysed # <<>> PROVE FromAnalysis'
      BY <1>1, <1>2, <1>3, <1>4 DEF ConflictsInv, FromAnalysis
<1>5. ASSUME CopiesAreAlike, NEW n \in DOMAIN analysed, analysed[n].enabled = TRUE
      PROVE  Says(u, analysed[n])
  <2>1. PICK k \in DOMAIN t : t[k].enabled = TRUE /\ Signature(t[k]) = Signature(analysed[n])
        BY <1>1, <1>5 DEF ConflictsInv, SaysAll, Says
  <2>2. \E j \in DOMAIN t : t[j].id # id /\ t[j].enabled = TRUE
                             /\ Signature(t[j]) = Signature(t[k])
        BY <1>1, <1>5, <2>1
  <2> QED BY <1>2, <2>1, <2>2 DEF Says
<1> QED BY <1>2, <1>3, <1>4, <1>5 DEF ConflictsInv, CopiesAreAlike, SaysAll

LEMMA ReprioritisedIsAlike ==
    ASSUME IsRuleTable(policyRules), NEW f, \A id \in DOMAIN f : f[id] \in Int
    PROVE  /\ IsRuleTable(Reprioritised(f)) /\ DOMAIN Reprioritised(f) = DOMAIN policyRules
           /\ \A k \in DOMAIN policyRules : AlikeRules(Reprioritised(f)[k], policyRules[k])
<1>1. PICK t, u : t = policyRules /\ u = Reprioritised(f) OBVIOUS
<1>2. PICK S : t \in Seq(S) BY <1>1 DEF IsRuleTable
<1>3. DOMAIN t = 1 .. Len(t) /\ Len(t) \in Nat BY <1>2
<1>4. u = [k \in 1 .. Len(t) |-> [t[k] EXCEPT !.priority =
                IF t[k].id \in DOMAIN f THEN f[t[k].id] ELSE @]]
      BY <1>1, <1>3 DEF Reprioritised
<1>5. DOMAIN u = DOMAIN t /\ u \in Seq(Range(u)) BY <1>3, <1>4 DEF Range
<1>6. ASSUME NEW k \in DOMAIN t
      PROVE  /\ DOMAIN u[k] = RuleFields /\ u[k].priority \in Int /\ u[k].enabled = t[k].enabled
             /\ u[k].id = t[k].id /\ u[k].condition = t[k].condition
             /\ u[k].action = t[k].action /\ u[k].risk = t[k].risk
  <2>1. DOMAIN t[k] = RuleFields /\ t[k].priority \in Int BY <1>1 DEF IsRuleTable
  <2>2. u[k] = [t[k] EXCEPT !.priority = IF t[k].id \in DOMAIN f THEN f[t[k].id] ELSE @]
        BY <1>3, <1>4
  <2>3. PICK p : p = IF t[k].id \in DOMAIN f THEN f[t[k].id] ELSE t[k].priority OBVIOUS
  <2>4. p \in Int BY <2>1, <2>3
  <2>5. u[k] = [x \in RuleFields |-> IF x = "priority" THEN p ELSE t[k][x]] BY <2>1, <2>2, <2>3
  <2> QED BY <2>4, <2>5 DEF RuleFields
<1>7. IsRuleTable(u) BY <1>1, <1>5, <1>6 DEF IsRuleTable
<1> QED BY <1>1, <1>5, <1>6, <1>7 DEF AlikeRules, Signature

LEMMA ReprioritisingKeeps ==
    ASSUME ConflictsInv, NEW f, \A id \in DOMAIN f : f[id] \in Int,
           policyRules' = Reprioritised(f), UNCHANGED <<analysed, conflicts>>
    PROVE  ConflictsInv'
<1>1. PICK t, u : t = policyRules /\ u = Reprioritised(f) OBVIOUS
<1>2. /\ IsRuleTable(t) /\ IsRuleTable(u) /\ DOMAIN u = DOMAIN t
      /\ \A k \in DOMAIN t : AlikeRules(u[k], t[k])
      BY <1>1, ReprioritisedIsAlike DEF ConflictsInv
<1>3. policyRules' = u /\ analysed' = analysed /\ conflicts' = conflicts BY <1>1
<1>4. ASSUME analysed # <<>> PROVE FromAnalysis'
      BY <1>1, <1>2, <1>3, <1>4 DEF ConflictsInv, FromAnalysis, AlikeRules
<1>5. ASSUME CopiesAreAlike PROVE SaysAll(u, analysed)
      BY <1>1, <1>2, <1>5 DEF ConflictsInv, SaysAll, Says, AlikeRules
<1> QED BY <1>2, <1>3, <1>4, <1>5 DEF ConflictsInv, CopiesAreAlike, SaysAll

\* In force is what the analysis says under an identifier.
LEMMA InForceIsAnalysed ==
    ASSUME ConflictsInv, NEW n \in DOMAIN analysed, NEW k \in DOMAIN policyRules,
           policyRules[k].id = analysed[n].id
    PROVE  AlikeRules(policyRules[k], analysed[n])
<1>1. analysed # <<>> OBVIOUS
<1>2. PICK m \in DOMAIN analysed : AlikeRules(policyRules[k], analysed[m])
      BY <1>1 DEF ConflictsInv, FromAnalysis
<1>3. m = n BY <1>2 DEF ConflictsInv, IsRuleTable, AlikeRules
<1> QED BY <1>2, <1>3

\* Either copy may go.
LEMMA CopyMayGo ==
    ASSUME ConflictsInv, NEW i \in DOMAIN analysed, NEW j \in DOMAIN analysed, i # j,
           Signature(analysed[i]) = Signature(analysed[j]), Known(analysed[j].id), CopiesAreAlike,
           NEW k \in DOMAIN policyRules, policyRules[k].id = analysed[i].id,
           policyRules[k].enabled = TRUE
    PROVE  \E m \in DOMAIN policyRules :
               /\ policyRules[m].id # analysed[i].id /\ policyRules[m].enabled = TRUE
               /\ Signature(policyRules[m]) = Signature(policyRules[k])
<1>1. PICK m \in DOMAIN policyRules : policyRules[m].id = analysed[j].id BY DEF Known
<1>2. AlikeRules(policyRules[m], analysed[j]) /\ AlikeRules(policyRules[k], analysed[i])
      BY <1>1, InForceIsAnalysed
<1>3. analysed[i].enabled = analysed[j].enabled BY DEF CopiesAreAlike, Range
<1>4. analysed[i].id # analysed[j].id BY DEF ConflictsInv, IsRuleTable
<1> QED BY <1>1, <1>2, <1>3, <1>4 DEF AlikeRules

LEMMA ResolveKeeps ==
    ASSUME ConflictsInv, NEW c \in conflicts, Resolve(c)
    PROVE  ConflictsInv'
<1>1. c \in ConflictsOf(analysed) BY DEF ConflictsInv
<1>2. UNCHANGED <<analysed, conflicts>> BY DEF Resolve
<1>3. CASE c.type = "redundant"
  <2>1. PICK i \in DOMAIN analysed, j \in DOMAIN analysed :
            /\ i < j /\ c.ids = <<analysed[i].id, analysed[j].id>>
            /\ Signature(analysed[i]) = Signature(analysed[j])
        BY <1>1, <1>3, WhatIsRedundant
  <2>2. PICK x, y : x = analysed[i].id /\ y = analysed[j].id OBVIOUS
  <2>3. c.ids[1] = x /\ c.ids[2] = y BY <2>1, <2>2
  <2>4. Known(x) /\ Known(y) /\ (policyRules' = Without(x) \/ policyRules' = Without(y))
        BY <1>3, <2>3 DEF Resolve
  <2>5. i # j
    <3>1. i \in Nat /\ j \in Nat
      <4>1. PICK S : analysed \in Seq(S) BY DEF ConflictsInv, IsRuleTable
      <4> QED BY <4>1
    <3> QED BY <2>1, <3>1
  <2>6. CASE policyRules' = Without(x)
        BY <1>2, <2>1, <2>2, <2>4, <2>5, <2>6, TakingOutKeeps, CopyMayGo
  <2>7. CASE policyRules' = Without(y)
        BY <1>2, <2>1, <2>2, <2>4, <2>5, <2>7, TakingOutKeeps, CopyMayGo
  <2> QED BY <2>4, <2>6, <2>7
<1>4. CASE c.type = "unreachable"
  <2>1. c.auto BY DEF Resolve
  <2>2. PICK n \in DOMAIN analysed : c.ids = <<analysed[n].id>> /\ ~analysed[n].enabled
        BY <1>1, <1>4, <2>1, WhatIsUnreachable
  <2>3. PICK x : x = analysed[n].id OBVIOUS
  <2>4. c.ids[1] = x /\ policyRules' = Without(x) BY <1>4, <2>2, <2>3 DEF Resolve
  <2>5. ASSUME NEW k \in DOMAIN policyRules, policyRules[k].id = x PROVE policyRules[k].enabled # TRUE
        BY <2>2, <2>3, <2>5, InForceIsAnalysed DEF AlikeRules
  <2> QED BY <1>2, <2>4, <2>5, TakingOutKeeps
<1>5. CASE c.type = "priority_conflict"
  <2>1. PICK f : f = [id \in Range(c.ids) |-> IF id = c.ids[1] THEN 90 ELSE 95] OBVIOUS
  <2>2. policyRules' = Reprioritised(f) BY <1>5, <2>1 DEF Resolve
  <2>3. \A id \in DOMAIN f : f[id] \in Int BY <2>1
  <2> QED BY <1>2, <2>2, <2>3, ReprioritisingKeeps
<1> QED BY <1>3, <1>4, <1>5 DEF Resolve

LEMMA ConflictsStep == ConflictsInv /\ [ConflictsNext]_conflictVars => ConflictsInv'
<1> SUFFICES ASSUME ConflictsInv, [ConflictsNext]_conflictVars PROVE ConflictsInv' OBVIOUS
<1>1. CASE UNCHANGED conflictVars
      BY <1>1 DEF conflictVars, ConflictsInv, FromAnalysis, CopiesAreAlike, SaysAll, Says
<1>2. CASE ConflictsNext BY <1>2, AnalyzeKeeps, ResolveKeeps DEF ConflictsNext
<1> QED BY <1>1, <1>2

\* Tables that say the same decide the same.
LEMMA SameIsDecided ==
    ASSUME NEW t, NEW u, NEW intent, IsRuleTable(t), IsRuleTable(u), SaysAll(t, u), SaysAll(u, t)
    PROVE  Decision(t, intent) = Decision(u, intent)
<1> DEFINE M(v) == {k \in DOMAIN v : v[k].enabled /\ Holds(v[k], intent)}
<1>1. ASSUME NEW v, NEW w, IsRuleTable(v), IsRuleTable(w), SaysAll(w, v), NEW k \in M(v)
      PROVE  \E n \in M(w) : w[n].action = v[k].action /\ w[n].risk = v[k].risk
  <2>1. v[k].enabled = TRUE BY <1>1 DEF IsRuleTable
  <2>2. PICK n \in DOMAIN w : w[n].enabled = TRUE /\ Signature(w[n]) = Signature(v[k])
        BY <1>1, <2>1 DEF SaysAll, Says
  <2>3. /\ w[n].condition = v[k].condition /\ w[n].action = v[k].action /\ w[n].risk = v[k].risk
        BY <2>2 DEF Signature
  <2>4. Words(w[n]) = Words(v[k]) BY <2>3 DEF Words
  <2>5. Holds(w[n], intent) BY <2>4 DEF Holds
  <2> QED BY <2>2, <2>3, <2>5
<1> DEFINE Risks(v) == {v[k].risk : k \in {i \in M(v) : v[i].action = "require_approval"}}
<1> HIDE DEF M
<1>2. Risks(t) = Risks(u) BY <1>1
<1>3. (\A k \in M(t) : t[k].action # "deny") = (\A k \in M(u) : u[k].action # "deny") BY <1>1
<1>4. (\E k \in M(t) : t[k].action = "require_approval")
          = (\E k \in M(u) : u[k].action = "require_approval")
      BY <1>1
<1> QED BY <1>2, <1>3, <1>4 DEF Decision, M

LEMMA ConflictsFollow == ConflictsInv => ResolutionsDecideNothing /\ ShadowedIsWider
<1> SUFFICES ASSUME ConflictsInv PROVE ResolutionsDecideNothing /\ ShadowedIsWider OBVIOUS
<1>1. ASSUME analysed # <<>>, CopiesAreAlike, NEW intent \in JudgedIntents
      PROVE  Decision(policyRules, intent) = Decision(analysed, intent)
  <2>1. SaysAll(policyRules, analysed) BY <1>1 DEF ConflictsInv
  <2>2. SaysAll(analysed, policyRules)
        BY <1>1 DEF ConflictsInv, FromAnalysis, AlikeRules, SaysAll, Says
  <2> QED BY <2>1, <2>2, SameIsDecided DEF ConflictsInv
<1>2. ASSUME NEW c \in conflicts, c.type = "shadowed",
             NEW h \in Range(analysed), NEW l \in Range(analysed), h.id = c.ids[1], l.id = c.ids[2],
             NEW intent \in JudgedIntents, Holds(h, intent)
      PROVE  Holds(l, intent)
  <2>1. PICK i \in DOMAIN analysed, j \in DOMAIN analysed :
            c.ids = <<analysed[i].id, analysed[j].id>> /\ Words(analysed[j]) \subseteq Words(analysed[i])
        BY <1>2, WhatIsShadowed DEF ConflictsInv
  <2>2. h = analysed[i] /\ l = analysed[j]
        BY <1>2, <2>1 DEF ConflictsInv, IsRuleTable, Range
  <2>3. Words(l) \subseteq Words(h) BY <2>1, <2>2
  <2> QED BY <1>2, <2>3 DEF Holds
<1> QED BY <1>1, <1>2 DEF ResolutionsDecideNothing, ShadowedIsWider

LEMMA ConflictsAlways == ConflictsSpec => []ConflictsInv
BY ConflictsInitially, ConflictsStep, PTL DEF ConflictsSpec

\* For any tables of rules and however many suggestions are taken, of however old an analysis:
\* what is resolved without a human changes no verdict, if copies of a rule are enabled alike;
\* and a rule reported as shadowed matches all that the rule above it does
\* (PolicyConflictDetector.analyze, suggestResolution).
THEOREM ResolutionsStayNeutral ==
    ConflictsSpec => [](ResolutionsDecideNothing /\ ShadowedIsWider)
BY ConflictsAlways, ConflictsFollow, PTL

-----------------------------------------------------------------------------
(***************************************************************************)
(* Scopes and the rules over them.                                         *)
(***************************************************************************)

AccessRules == ExtraRules \cup Range(DefaultIamRules)
RuleEntries == [rule : AccessRules, n : Nat]
Grants ==
    [scopes : Seq([resource : DOMAIN Matches, level : DOMAIN LevelRank]),
     expiry : {"none", "never", "later", "past"}]

EntryBefore(e, f) ==
    \/ e.rule.priority < f.rule.priority
    \/ e.rule.priority = f.rule.priority /\ e.n < f.n

Ascend(list) == \A j, k \in DOMAIN list : j < k => EntryBefore(list[j], list[k])

AreThose(list, added, gone) ==
    /\ \A k \in DOMAIN list :
          list[k].n \in DOMAIN added \ gone /\ list[k].rule = added[list[k].n]
    /\ \A n \in DOMAIN added \ gone : \E k \in DOMAIN list : list[k].n = n

\* The list is the rules that were registered and not removed, by priority, then by age.
RulesInv ==
    /\ registered \in Seq(AccessRules) /\ removed \subseteq DOMAIN registered
    /\ iamRules \in Seq(RuleEntries) /\ Ascend(iamRules)
    /\ AreThose(iamRules, registered, removed)

AccessInv == RulesInv /\ scopeGrants \in [Holders -> Grants]

LEMMA PrioritiesAreNumbers == \A r \in AccessRules : r.priority \in Int
BY AccessAssumption DEF AccessRules

\* A sort by priority takes every entry to one place, and entries of one priority in their order.
LEMMA SortPlaces ==
    ASSUME NEW t \in Seq(RuleEntries)
    PROVE  \E W \in [1 .. Len(t) -> 1 .. Len(t)] :
              /\ SortedByPriority(t) = [m \in 1 .. Len(t) |-> t[W[m]]]
              /\ \A k \in 1 .. Len(t) : \E m \in 1 .. Len(t) : W[m] = k
              /\ \A l, m \in 1 .. Len(t) : l < m => SortsBefore(t, W[l], W[m])
<1> DEFINE D == 1 .. Len(t)
<1>1. DOMAIN t = D /\ Len(t) \in Nat OBVIOUS
<1>2. \A k \in D : t[k].rule.priority \in Int /\ k \in Int
  <2>1. \A k \in D : t[k] \in RuleEntries BY <1>1
  <2>2. \A e \in RuleEntries : e.rule.priority \in Int BY PrioritiesAreNumbers DEF RuleEntries
  <2> QED BY <2>1, <2>2, <1>1
<1>3. PICK B : B = [k \in D |-> {j \in D : SortsBefore(t, j, k)}] OBVIOUS
<1>4. \A k \in D : B[k] = {j \in D : SortsBefore(t, j, k)} BY <1>3
<1>5. \A j, k \in D : j \in B[k] <=> SortsBefore(t, j, k) BY <1>4
<1>6. \A k \in D : B[k] \subseteq D BY <1>4
<1>7. /\ \A k \in D : ~SortsBefore(t, k, k)
      /\ \A j, k \in D : j # k => SortsBefore(t, j, k) \/ SortsBefore(t, k, j)
      /\ \A i, j, k \in D : SortsBefore(t, i, j) /\ SortsBefore(t, j, k) => SortsBefore(t, i, k)
      BY <1>2 DEF SortsBefore
<1>8. /\ \A k \in 1 .. Len(t) : B[k] \subseteq 1 .. Len(t) /\ k \notin B[k]
      /\ \A j, k \in 1 .. Len(t) : j # k => j \in B[k] \/ k \in B[j]
      /\ \A i, j, k \in 1 .. Len(t) : i \in B[j] /\ j \in B[k] => i \in B[k]
      BY <1>5, <1>6, <1>7
<1>9. /\ \A k \in 1 .. Len(t) : Cardinality(B[k]) + 1 \in 1 .. Len(t)
      /\ \A j, k \in 1 .. Len(t) : j \in B[k] => Cardinality(B[j]) < Cardinality(B[k])
      /\ \A j, k \in 1 .. Len(t) : j # k => Cardinality(B[j]) # Cardinality(B[k])
      /\ \A m \in 1 .. Len(t) : \E k \in 1 .. Len(t) : Cardinality(B[k]) + 1 = m
      BY <1>1, <1>8, CountingOrders
<1>10. \A k \in D : SortedPlace(t, k) = Cardinality(B[k]) + 1 BY <1>1, <1>4 DEF SortedPlace
<1>11. PICK W : W = [m \in D |-> CHOOSE k \in D : SortedPlace(t, k) = m] OBVIOUS
<1>12. \A m \in D : W[m] \in D /\ SortedPlace(t, W[m]) = m BY <1>9, <1>10, <1>11
<1>13. W \in [D -> D] BY <1>11, <1>12
<1>14. SortedByPriority(t) = [m \in D |-> t[W[m]]] BY <1>1, <1>11 DEF SortedByPriority
<1>15. \A k \in D : Cardinality(B[k]) \in Nat
  <2>1. IsFiniteSet(D) BY <1>1, FS_Interval
  <2> QED BY <2>1, <1>6, FS_Subset, FS_CardinalityType
<1>16. ASSUME NEW k \in D PROVE \E m \in D : W[m] = k
  <2>1. PICK m \in D : m = SortedPlace(t, k) BY <1>9, <1>10
  <2>2. Cardinality(B[W[m]]) + 1 = Cardinality(B[k]) + 1 BY <2>1, <1>10, <1>12
  <2>3. Cardinality(B[W[m]]) = Cardinality(B[k]) BY <2>2, <1>12, <1>15
  <2> QED BY <2>3, <1>9, <1>12
<1>17. ASSUME NEW l \in D, NEW m \in D, l < m PROVE SortsBefore(t, W[l], W[m])
  <2>1. W[l] # W[m] BY <1>12, <1>17
  <2>2. ASSUME W[m] \in B[W[l]] PROVE FALSE
    <3>1. Cardinality(B[W[m]]) < Cardinality(B[W[l]]) BY <2>2, <1>9, <1>12
    <3>2. Cardinality(B[W[m]]) + 1 = m /\ Cardinality(B[W[l]]) + 1 = l BY <1>10, <1>12
    <3>3. Cardinality(B[W[m]]) \in Nat /\ Cardinality(B[W[l]]) \in Nat BY <1>12, <1>15
    <3> QED BY <3>1, <3>2, <3>3, <1>17
  <2> QED BY <2>1, <2>2, <1>5, <1>7, <1>12
<1> QED BY <1>13, <1>14, <1>16, <1>17

\* Rules that are pushed and sorted in come behind those of their priority, all of which are older.
LEMMA RulesComeIn ==
    ASSUME NEW list \in Seq(RuleEntries), NEW old \in Seq(AccessRules), NEW added \in Seq(AccessRules),
           NEW gone, gone \subseteq DOMAIN old, Ascend(list), AreThose(list, old, gone)
    PROVE  /\ WithRules(list, added, Len(old)) \in Seq(RuleEntries)
           /\ Ascend(WithRules(list, added, Len(old)))
           /\ old \o added \in Seq(AccessRules) /\ gone \subseteq DOMAIN (old \o added)
           /\ AreThose(WithRules(list, added, Len(old)), old \o added, gone)
<1>1. PICK L \in Nat, K \in Nat, M \in Nat : L = Len(list) /\ K = Len(old) /\ M = Len(added) OBVIOUS
<1>2. PICK new : new = [k \in DOMAIN added |-> [rule |-> added[k], n |-> K + k]] OBVIOUS
<1>3. PICK t : t = list \o new OBVIOUS
<1>4. PICK all : all = old \o added OBVIOUS
<1>5. /\ DOMAIN list = 1 .. L /\ DOMAIN old = 1 .. K /\ DOMAIN added = 1 .. M BY <1>1
<1>6. /\ DOMAIN new = 1 .. M
      /\ \A k \in 1 .. M : new[k].rule = added[k] /\ new[k].n = K + k /\ new[k] \in RuleEntries
  <2>1. \A k \in 1 .. M : added[k] \in AccessRules BY <1>5
  <2>2. \A k \in 1 .. M : K + k \in Nat BY <1>1
  <2> QED BY <1>2, <1>5, <2>1, <2>2 DEF RuleEntries
<1>7. new \in Seq(RuleEntries) /\ Len(new) = M
  <2>1. new \in [1 .. M -> RuleEntries] BY <1>2, <1>5, <1>6
  <2> QED BY <2>1, <1>1
<1>8. /\ t \in Seq(RuleEntries) /\ Len(t) = L + M
      /\ \A i \in 1 .. L + M : t[i] = IF i <= L THEN list[i] ELSE new[i - L]
  <2>1. /\ list \o new \in Seq(RuleEntries) /\ Len(list \o new) = Len(list) + Len(new)
        /\ \A i \in 1 .. Len(list) + Len(new) :
              (list \o new)[i] = IF i <= Len(list) THEN list[i] ELSE new[i - Len(list)]
        BY <1>7, ConcatProperties
  <2> QED BY <2>1, <1>1, <1>3, <1>7
<1>9. /\ all \in Seq(AccessRules) /\ Len(all) = K + M
      /\ \A i \in 1 .. K + M : all[i] = IF i <= K THEN old[i] ELSE added[i - K]
      BY <1>1, <1>4, ConcatProperties
<1>10. DOMAIN t = 1 .. L + M /\ DOMAIN all = 1 .. K + M BY <1>1, <1>8, <1>9
<1>11. gone \subseteq DOMAIN all BY <1>1, <1>5, <1>10
<1>12. \A i \in 1 .. L : t[i] = list[i] BY <1>1, <1>8
<1>13. \A i \in L + 1 .. L + M : i - L \in 1 .. M /\ t[i] = new[i - L] BY <1>1, <1>8
<1>14. \A i \in 1 .. L : t[i].n \in 1 .. K \ gone /\ t[i].rule = old[t[i].n]
       BY <1>5, <1>12 DEF AreThose
<1>15. \A i \in L + 1 .. L + M : t[i].n = K + (i - L) /\ t[i].rule = added[i - L]
       BY <1>6, <1>13
<1>16. ASSUME NEW i \in 1 .. L + M, NEW j \in 1 .. L + M, i < j,
              t[i].rule.priority = t[j].rule.priority
       PROVE  t[i].n < t[j].n
  <2>1. CASE j <= L
    <3>1. i \in 1 .. L /\ j \in 1 .. L BY <2>1, <1>1, <1>16
    <3>2. EntryBefore(t[i], t[j]) BY <3>1, <1>5, <1>12, <1>16 DEF Ascend
    <3>3. t[i].rule.priority \in Int
      <4>1. t[i] \in RuleEntries BY <1>8
      <4> QED BY <4>1, PrioritiesAreNumbers DEF RuleEntries
    <3> QED BY <3>2, <3>3, <1>16 DEF EntryBefore
  <2>2. CASE i <= L /\ j > L
    <3>1. i \in 1 .. L /\ j \in L + 1 .. L + M BY <2>2, <1>1
    <3>2. t[i].n \in 1 .. K /\ t[j].n = K + (j - L) BY <3>1, <1>14, <1>15
    <3> QED BY <3>1, <3>2, <1>1
  <2>3. CASE i > L
    <3>1. i \in L + 1 .. L + M /\ j \in L + 1 .. L + M BY <2>3, <1>1, <1>16
    <3>2. t[i].n = K + (i - L) /\ t[j].n = K + (j - L) BY <3>1, <1>15
    <3> QED BY <3>1, <3>2, <1>1, <1>16
  <2> QED BY <2>1, <2>2, <2>3, <1>1
<1>17. AreThose(t, all, gone)
  <2>1. ASSUME NEW k \in DOMAIN t
        PROVE  t[k].n \in DOMAIN all \ gone /\ t[k].rule = all[t[k].n]
    <3>1. CASE k <= L
      <4>1. k \in 1 .. L BY <3>1, <2>1, <1>10
      <4>2. PICK n \in 1 .. K : n = t[k].n BY <4>1, <1>14
      <4>3. n \notin gone /\ t[k].rule = old[n] BY <4>1, <4>2, <1>14
      <4>4. n \in 1 .. K + M /\ all[n] = old[n] BY <1>1, <1>9
      <4> QED BY <4>2, <4>3, <4>4, <1>10
    <3>2. CASE k > L
      <4>1. k \in L + 1 .. L + M BY <3>2, <2>1, <1>1, <1>10
      <4>2. PICK m \in 1 .. M : m = k - L BY <4>1, <1>13
      <4>3. t[k].n = K + m /\ t[k].rule = added[m] BY <4>1, <4>2, <1>15
      <4>4. K + m \in 1 .. K + M /\ K + m \notin 1 .. K /\ K + m - K = m BY <1>1
      <4>6. PICK x \in 1 .. K + M : x = K + m BY <4>4
      <4>7. ~(x <= K) /\ x - K = m BY <4>4, <4>6, <1>1
      <4>5. all[K + m] = added[m] BY <4>6, <4>7, <1>9
      <4> QED BY <4>3, <4>4, <4>5, <1>5, <1>10
    <3> QED BY <3>1, <3>2, <2>1, <1>1, <1>10
  <2>2. ASSUME NEW n \in DOMAIN all \ gone PROVE \E k \in DOMAIN t : t[k].n = n
    <3>1. CASE n <= K
      <4>1. n \in DOMAIN old \ gone BY <3>1, <2>2, <1>1, <1>5, <1>10
      <4>2. PICK k \in DOMAIN list : list[k].n = n BY <4>1 DEF AreThose
      <4>3. k \in 1 .. L /\ k \in 1 .. L + M BY <4>2, <1>1, <1>5
      <4> QED BY <4>2, <4>3, <1>10, <1>12
    <3>2. CASE n > K
      <4>1. PICK k \in L + 1 .. L + M : k = L + (n - K)
        <5>1. n \in 1 .. K + M BY <2>2, <1>10
        <5>2. L + (n - K) \in L + 1 .. L + M BY <5>1, <3>2, <1>1
        <5> QED BY <5>2
      <4>2. n \in 1 .. K + M BY <2>2, <1>10
      <4>3. t[k].n = K + (k - L) BY <1>15
      <4>4. K + (k - L) = n /\ k \in 1 .. L + M BY <4>1, <4>2, <1>1
      <4> QED BY <4>3, <4>4, <1>10
    <3> QED BY <3>1, <3>2, <2>2, <1>1, <1>10
  <2> QED BY <2>1, <2>2 DEF AreThose
<1>18. PICK W \in [1 .. Len(t) -> 1 .. Len(t)] :
              /\ SortedByPriority(t) = [m \in 1 .. Len(t) |-> t[W[m]]]
              /\ \A k \in 1 .. Len(t) : \E m \in 1 .. Len(t) : W[m] = k
              /\ \A l, m \in 1 .. Len(t) : l < m => SortsBefore(t, W[l], W[m])
       BY <1>8, SortPlaces
<1>19. PICK s : s = SortedByPriority(t) OBVIOUS
<1>20. PICK P \in Nat : P = Len(t) /\ P = L + M BY <1>1, <1>8
<1>21. DOMAIN s = 1 .. P /\ \A m \in 1 .. P : W[m] \in 1 .. P /\ s[m] = t[W[m]]
       BY <1>18, <1>19, <1>20
<1>22. s \in Seq(RuleEntries)
  <2>1. \A m \in 1 .. P : t[m] \in RuleEntries BY <1>8, <1>20
  <2>2. s \in [1 .. P -> RuleEntries] BY <2>1, <1>18, <1>19, <1>20, <1>21
  <2> QED BY <2>2
<1>23. Ascend(s)
  <2> SUFFICES ASSUME NEW l \in 1 .. P, NEW m \in 1 .. P, l < m PROVE EntryBefore(s[l], s[m])
      BY <1>21 DEF Ascend
  <2>1. SortsBefore(t, W[l], W[m]) BY <1>18, <1>20
  <2>2. W[l] \in 1 .. L + M /\ W[m] \in 1 .. L + M BY <1>20, <1>21
  <2>3. s[l] = t[W[l]] /\ s[m] = t[W[m]] BY <1>21
  <2> QED BY <2>1, <2>2, <2>3, <1>16 DEF SortsBefore, EntryBefore
<1>24. AreThose(s, all, gone)
  <2>1. ASSUME NEW k \in DOMAIN s
        PROVE  s[k].n \in DOMAIN all \ gone /\ s[k].rule = all[s[k].n]
    <3>1. PICK m \in DOMAIN t : s[k] = t[m] BY <1>10, <1>20, <1>21
    <3>2. t[m].n \in DOMAIN all \ gone /\ t[m].rule = all[t[m].n] BY <1>17 DEF AreThose
    <3> QED BY <3>1, <3>2
  <2>2. ASSUME NEW n \in DOMAIN all \ gone PROVE \E k \in DOMAIN s : s[k].n = n
    <3>1. PICK k \in DOMAIN t : t[k].n = n BY <1>17 DEF AreThose
    <3>2. PICK m \in 1 .. P : W[m] = k BY <3>1, <1>10, <1>18, <1>20
    <3> QED BY <3>1, <3>2, <1>21
  <2> QED BY <2>1, <2>2 DEF AreThose
<1>25. s = WithRules(list, added, Len(old))
       BY <1>1, <1>2, <1>3, <1>19 DEF WithRules
<1> QED BY <1>4, <1>9, <1>11, <1>22, <1>23, <1>24, <1>25

\* Taking an entry out leaves the rest as it was.
LEMMA RuleGoes ==
    ASSUME RulesInv, NEW k \in DOMAIN iamRules
    PROVE  /\ RemoveAt(iamRules, k) \in Seq(RuleEntries) /\ Ascend(RemoveAt(iamRules, k))
           /\ AreThose(RemoveAt(iamRules, k), registered, removed \cup {iamRules[k].n})
           /\ iamRules[k].n \in DOMAIN registered
<1>1. PICK L \in Nat : L = Len(iamRules) /\ DOMAIN iamRules = 1 .. L BY DEF RulesInv
<1>2. k \in 1 .. L /\ iamRules \in Seq(RuleEntries) BY <1>1 DEF RulesInv
<1>3. PICK u : u = RemoveAt(iamRules, k) OBVIOUS
<1>4. PICK gone : gone = iamRules[k].n OBVIOUS
<1>5. /\ u \in Seq(RuleEntries) /\ Len(u) = L - 1
      /\ \A i \in 1 .. L - 1 : u[i] = IF i < k THEN iamRules[i] ELSE iamRules[i + 1]
      BY <1>1, <1>2, <1>3, OneTakenOut
<1>6. PICK From : From = [i \in 1 .. L - 1 |-> IF i < k THEN i ELSE i + 1] OBVIOUS
<1>7. \A i \in 1 .. L - 1 : From[i] \in 1 .. L /\ From[i] # k BY <1>2, <1>6
<1>8. \A i \in 1 .. L - 1 : u[i] = iamRules[From[i]] BY <1>5, <1>6
<1>9. \A i, j \in 1 .. L - 1 : i < j => From[i] < From[j] BY <1>2, <1>6
<1>10. \A j \in 1 .. L : j # k => \E i \in 1 .. L - 1 : From[i] = j
  <2> SUFFICES ASSUME NEW j \in 1 .. L, j # k PROVE \E i \in 1 .. L - 1 : From[i] = j OBVIOUS
  <2>1. CASE j < k
    <3>1. j \in 1 .. L - 1 /\ From[j] = j BY <2>1, <1>2, <1>6
    <3> QED BY <3>1
  <2>2. CASE j > k
    <3>1. j - 1 \in 1 .. L - 1 /\ ~(j - 1 < k) /\ j - 1 + 1 = j BY <2>2, <1>2
    <3>2. From[j - 1] = j BY <3>1, <1>6
    <3> QED BY <3>1, <3>2
  <2> QED BY <2>1, <2>2, <1>2
<1>11. DOMAIN u = 1 .. L - 1 BY <1>2, <1>5
<1>12. \A i, j \in 1 .. L : i < j => EntryBefore(iamRules[i], iamRules[j])
       BY <1>1 DEF RulesInv, Ascend
<1>13. Ascend(u) BY <1>7, <1>8, <1>9, <1>11, <1>12 DEF Ascend
<1>14. \A i \in 1 .. L : /\ iamRules[i].n \in DOMAIN registered \ removed
                         /\ iamRules[i].rule = registered[iamRules[i].n]
       BY <1>1 DEF RulesInv, AreThose
<1>15. ASSUME NEW j \in 1 .. L, j # k PROVE iamRules[j].n # gone
  <2>1. EntryBefore(iamRules[j], iamRules[k]) \/ EntryBefore(iamRules[k], iamRules[j])
        BY <1>2, <1>12, <1>15
  <2>2. iamRules[j] \in RuleEntries /\ iamRules[k] \in RuleEntries BY <1>1, <1>2
  <2>3. /\ iamRules[j].n \in Nat /\ iamRules[k].n \in Nat
        /\ iamRules[j].rule.priority \in Int /\ iamRules[k].rule.priority \in Int
        BY <2>2, PrioritiesAreNumbers DEF RuleEntries
  <2>4. iamRules[j].n = iamRules[k].n => iamRules[j].rule = iamRules[k].rule BY <1>2, <1>14
  <2> QED BY <2>1, <2>3, <2>4, <1>4 DEF EntryBefore
<1>16. AreThose(u, registered, removed \cup {gone})
  <2>1. ASSUME NEW i \in DOMAIN u
        PROVE  /\ u[i].n \in DOMAIN registered \ (removed \cup {gone})
               /\ u[i].rule = registered[u[i].n]
    <3>1. PICK j \in 1 .. L : j # k /\ u[i] = iamRules[j] BY <1>7, <1>8, <1>11
    <3> QED BY <3>1, <1>14, <1>15
  <2>2. ASSUME NEW n \in DOMAIN registered \ (removed \cup {gone})
        PROVE  \E i \in DOMAIN u : u[i].n = n
    <3>1. PICK j \in 1 .. L : iamRules[j].n = n BY <1>1 DEF RulesInv, AreThose
    <3>2. j # k BY <3>1, <1>4
    <3>3. PICK i \in 1 .. L - 1 : From[i] = j BY <3>2, <1>10
    <3> QED BY <3>1, <3>3, <1>8, <1>11
  <2> QED BY <2>1, <2>2 DEF AreThose
<1> QED BY <1>2, <1>3, <1>4, <1>5, <1>13, <1>14, <1>16

LEMMA AccessInitially == AccessInit => AccessInv
<1> SUFFICES ASSUME AccessInit PROVE AccessInv OBVIOUS
<1>1. DefaultIamRules \in Seq(AccessRules)
  <2>1. DefaultIamRules \in Seq(Range(DefaultIamRules)) BY AccessAssumption
  <2>2. \A k \in DOMAIN DefaultIamRules : DefaultIamRules[k] \in AccessRules
        BY <2>1 DEF AccessRules, Range
  <2> QED BY <2>1, <2>2
<1>2. PICK none : none = <<>> OBVIOUS
<1>3. none \in Seq(RuleEntries) /\ none \in Seq(AccessRules) /\ Len(none) = 0 /\ DOMAIN none = {}
      BY <1>2
<1>4. Ascend(none) /\ AreThose(none, none, {}) BY <1>3 DEF Ascend, AreThose
<1>5. none \o DefaultIamRules = DefaultIamRules BY <1>1, <1>2
<1>6. /\ WithRules(none, DefaultIamRules, 0) \in Seq(RuleEntries)
      /\ Ascend(WithRules(none, DefaultIamRules, 0))
      /\ AreThose(WithRules(none, DefaultIamRules, 0), DefaultIamRules, {})
      BY <1>1, <1>3, <1>4, <1>5, RulesComeIn
<1>7. RulesInv BY <1>1, <1>2, <1>6 DEF AccessInit, RulesInv
<1>8. NoGrant \in Grants
  <2>1. <<>> \in Seq([resource : DOMAIN Matches, level : DOMAIN LevelRank]) OBVIOUS
  <2> QED BY <2>1 DEF NoGrant, Grants
<1> QED BY <1>7, <1>8 DEF AccessInit, AccessInv

LEMMA RegisteringKeeps ==
    ASSUME RulesInv, NEW added \in Seq(AccessRules),
           registered' = registered \o added, removed' = removed,
           iamRules' = WithRules(iamRules, added, Len(registered))
    PROVE  RulesInv'
<1>1. /\ iamRules \in Seq(RuleEntries) /\ registered \in Seq(AccessRules)
      /\ removed \subseteq DOMAIN registered /\ Ascend(iamRules)
      /\ AreThose(iamRules, registered, removed)
      BY DEF RulesInv
<1>2. PICK list, all : list = WithRules(iamRules, added, Len(registered)) /\ all = registered \o added
      OBVIOUS
<1>3. /\ list \in Seq(RuleEntries) /\ Ascend(list)
      /\ all \in Seq(AccessRules) /\ removed \subseteq DOMAIN all
      /\ AreThose(list, all, removed)
      BY <1>1, <1>2, RulesComeIn
<1> QED BY <1>2, <1>3 DEF RulesInv, Ascend, AreThose

LEMMA RemovingKeeps ==
    ASSUME RulesInv, NEW id, RemovePolicy(id)
    PROVE  RulesInv'
<1>1. PICK I : I = {i \in 1 .. Len(iamRules) : iamRules[i].rule.id = id} OBVIOUS
<1>2. PICK k : k = IF I # {} THEN Min(I) ELSE 0 OBVIOUS
<1>3. k = SelectInSeq(iamRules, LAMBDA e : e.rule.id = id) BY <1>1, <1>2 DEF SelectInSeq
<1>4. /\ k # 0 /\ registered' = registered
      /\ removed' = removed \cup {iamRules[k].n} /\ iamRules' = RemoveAt(iamRules, k)
      BY <1>3 DEF RemovePolicy
<1>5. k \in DOMAIN iamRules
  <2>1. I # {} BY <1>2, <1>4
  <2>2. I \subseteq Nat BY <1>1
  <2>3. Min(I) \in I BY <2>1, <2>2, LeastOf
  <2>4. DOMAIN iamRules = 1 .. Len(iamRules) BY DEF RulesInv
  <2> QED BY <2>1, <2>3, <2>4, <1>1, <1>2
<1>6. PICK list, gone : list = RemoveAt(iamRules, k) /\ gone = removed \cup {iamRules[k].n} OBVIOUS
<1>7. /\ list \in Seq(RuleEntries) /\ Ascend(list) /\ AreThose(list, registered, gone)
      /\ iamRules[k].n \in DOMAIN registered
      BY <1>5, <1>6, RuleGoes
<1>8. registered \in Seq(AccessRules) /\ gone \subseteq DOMAIN registered
      BY <1>6, <1>7 DEF RulesInv
<1> QED BY <1>4, <1>6, <1>7, <1>8 DEF RulesInv, Ascend, AreThose

LEMMA AccessStep == AccessInv /\ [AccessNext]_accessVars => AccessInv'
<1> SUFFICES ASSUME AccessInv, [AccessNext]_accessVars PROVE AccessInv' OBVIOUS
<1>0. RulesInv /\ scopeGrants \in [Holders -> Grants] BY DEF AccessInv
<1>1. ASSUME UNCHANGED <<iamRules, registered, removed>> PROVE RulesInv'
      BY <1>0, <1>1 DEF RulesInv, Ascend, AreThose
<1>a. NoGrant \in Grants
  <2>1. <<>> \in Seq([resource : DOMAIN Matches, level : DOMAIN LevelRank]) OBVIOUS
  <2> QED BY <2>1 DEF NoGrant, Grants
<1>2. ASSUME NEW h \in Holders, NEW scopes \in ScopeLists, NEW expiry \in {"never", "later"},
             GrantScopes(h, scopes, expiry)
      PROVE  AccessInv'
  <2>1. [scopes |-> scopes, expiry |-> expiry] \in Grants BY AccessAssumption DEF Grants
  <2> QED BY <2>1, <1>0, <1>1, <1>2 DEF GrantScopes, AccessInv
<1>3. ASSUME NEW h \in Holders, RevokeScopes(h) PROVE AccessInv'
      BY <1>0, <1>1, <1>3, <1>a DEF RevokeScopes, AccessInv
<1>4. ASSUME NEW h \in Holders, GrantExpires(h) PROVE AccessInv'
  <2>1. [scopeGrants[h] EXCEPT !.expiry = "past"] \in Grants BY <1>0 DEF Grants
  <2> QED BY <2>1, <1>0, <1>1, <1>4 DEF GrantExpires, AccessInv
<1>5. CASE CleanupExpired BY <1>0, <1>1, <1>5, <1>a DEF CleanupExpired, WithoutExpired, AccessInv
<1>6. ASSUME NEW r \in ExtraRules, RegisterPolicy(r) PROVE AccessInv'
  <2>1. <<r>> \in Seq(AccessRules) BY DEF AccessRules
  <2>2. /\ registered' = registered \o <<r>> /\ removed' = removed
        /\ iamRules' = WithRules(iamRules, <<r>>, Len(registered)) /\ scopeGrants' = scopeGrants
        BY <1>6 DEF RegisterPolicy
  <2>3. RulesInv' BY <1>0, <2>1, <2>2, RegisteringKeeps
  <2> QED BY <1>0, <2>2, <2>3 DEF AccessInv
<1>7. CASE InitializeDefaultPolicies
  <2>1. DefaultIamRules \in Seq(AccessRules)
    <3>1. DefaultIamRules \in Seq(Range(DefaultIamRules)) BY AccessAssumption
    <3>2. \A k \in DOMAIN DefaultIamRules : DefaultIamRules[k] \in AccessRules
          BY <3>1 DEF AccessRules, Range
    <3> QED BY <3>1, <3>2
  <2>2. /\ registered' = registered \o DefaultIamRules /\ removed' = removed
        /\ iamRules' = WithRules(iamRules, DefaultIamRules, Len(registered))
        /\ scopeGrants' = scopeGrants
        BY <1>7 DEF InitializeDefaultPolicies
  <2>3. RulesInv' BY <1>0, <2>1, <2>2, RegisteringKeeps
  <2> QED BY <1>0, <2>2, <2>3 DEF AccessInv
<1>8. ASSUME NEW id \in RemovableIds, RemovePolicy(id) PROVE AccessInv'
  <2>1. RulesInv' BY <1>0, <1>8, RemovingKeeps
  <2> QED BY <1>0, <1>8, <2>1 DEF RemovePolicy, AccessInv
<1>9. CASE UNCHANGED accessVars BY <1>0, <1>1, <1>9 DEF accessVars, AccessInv
<1> QED BY <1>2, <1>3, <1>4, <1>5, <1>6, <1>7, <1>8, <1>9 DEF AccessNext

\* The greatest level is reached by a scope, and by none is more allowed.
LEMMA GreatestLevel ==
    ASSUME NEW S, S \subseteq 0 .. 4, 0 \in S, NEW x \in 1 .. 4
    PROVE  Max(S) >= x <=> \E y \in S : y >= x
<1>1. \E m \in S : \A y \in S : m >= y
  <2>1. CASE 4 \in S BY <2>1
  <2>2. CASE 4 \notin S /\ 3 \in S
    <3>1. \A y \in S : 3 >= y BY <2>2
    <3> QED BY <2>2, <3>1
  <2>3. CASE 4 \notin S /\ 3 \notin S /\ 2 \in S
    <3>1. \A y \in S : 2 >= y BY <2>3
    <3> QED BY <2>3, <3>1
  <2>4. CASE 4 \notin S /\ 3 \notin S /\ 2 \notin S /\ 1 \in S
    <3>1. \A y \in S : 1 >= y BY <2>4
    <3> QED BY <2>4, <3>1
  <2>5. CASE 4 \notin S /\ 3 \notin S /\ 2 \notin S /\ 1 \notin S
    <3>1. \A y \in S : 0 >= y BY <2>5
    <3> QED BY <3>1
  <2> QED BY <2>1, <2>2, <2>3, <2>4, <2>5
<1>2. Max(S) \in S /\ \A y \in S : Max(S) >= y BY <1>1 DEF Max
<1>3. PICK m : m = Max(S) OBVIOUS
<1>4. m \in 0 .. 4 /\ \A y \in S : y \in 0 .. 4 BY <1>2, <1>3
<1> QED BY <1>2, <1>3, <1>4

LEMMA GrantsFollow == AccessInv => GrantsAreRead
<1> SUFFICES ASSUME AccessInv, NEW h \in Holders, NEW resource \in AskedFor,
                    NEW level \in DOMAIN LevelRank
             PROVE  ScopeAllows(h, resource.type, level) <=>
                        /\ scopeGrants[h].expiry # "past"
                        /\ \E s \in Range(scopeGrants[h].scopes) :
                               /\ resource.type \in Matches[s.resource]
                               /\ LevelRank[s.level] >= LevelRank[level]
    BY DEF GrantsAreRead
<1> DEFINE type == resource.type
           Fit == {s \in Range(GetScopes(h)) : type \in Matches[s.resource]}
           S == {LevelRank[s.level] : s \in Fit} \cup {0}
<1>1. \A l \in DOMAIN LevelRank : LevelRank[l] \in 1 .. 4
  <2>1. DOMAIN LevelRank = {"read", "write", "execute", "admin"} BY DEF LevelRank
  <2>2. /\ LevelRank["read"] = 1 /\ LevelRank["write"] = 2
        /\ LevelRank["execute"] = 3 /\ LevelRank["admin"] = 4 BY DEF LevelRank
  <2> QED BY <2>1, <2>2
<1>2. PICK g \in Grants : g = scopeGrants[h] BY DEF AccessInv
<1>3. Range(<<>>) = {} BY DEF Range
<1>4. Range(GetScopes(h)) = IF g.expiry = "past" THEN {} ELSE Range(g.scopes)
      BY <1>2, <1>3 DEF GetScopes
<1>5. \A s \in Range(g.scopes) : s.level \in DOMAIN LevelRank
  <2>1. PICK T : T = [resource : DOMAIN Matches, level : DOMAIN LevelRank] OBVIOUS
  <2>2. g.scopes \in Seq(T) BY <1>2, <2>1 DEF Grants
  <2>3. \A k \in DOMAIN g.scopes : g.scopes[k] \in T BY <2>2
  <2>4. \A s \in T : s.level \in DOMAIN LevelRank BY <2>1
  <2> QED BY <2>3, <2>4 DEF Range
<1>6. \A s \in Fit : LevelRank[s.level] \in 1 .. 4 BY <1>1, <1>4, <1>5
<1>7. S \subseteq 0 .. 4 /\ 0 \in S BY <1>6
<1>8. LevelRank[level] \in 1 .. 4 BY <1>1
<1>9. ScopeAllows(h, type, level) <=> Max(S) >= LevelRank[level] BY DEF ScopeAllows, BestMatch
<1>10. (\E y \in S : y >= LevelRank[level]) <=> \E s \in Fit : LevelRank[s.level] >= LevelRank[level]
       BY <1>6, <1>8
<1> HIDE DEF S
<1>11. ScopeAllows(h, type, level) <=> \E s \in Fit : LevelRank[s.level] >= LevelRank[level]
       BY <1>7, <1>8, <1>9, <1>10, GreatestLevel
<1> QED BY <1>2, <1>4, <1>11

LEMMA RulesFollow == AccessInv => RulesDecide
<1> SUFFICES ASSUME AccessInv, NEW h \in Holders, NEW resource \in AskedFor,
                    NEW level \in DOMAIN LevelRank, NEW context \in Contexts
             PROVE  LET matching == {n \in DOMAIN registered \ removed :
                                        Applies(registered[n], h, resource, context)}
                        first == CHOOSE n \in matching : \A k \in matching :
                                     \/ registered[n].priority < registered[k].priority
                                     \/ registered[n].priority = registered[k].priority /\ n <= k
                    IN Evaluate(h, resource, level, context) =
                           IF ~ScopeAllows(h, resource.type, level) THEN "deny"
                           ELSE IF matching = {} THEN "allow" ELSE registered[first].decision
    BY DEF RulesDecide
<1> DEFINE Fits(rule) == Applies(rule, h, resource, context)
           matching == {n \in DOMAIN registered \ removed : Fits(registered[n])}
           Foremost(n) == \A k \in matching :
                            \/ registered[n].priority < registered[k].priority
                            \/ registered[n].priority = registered[k].priority /\ n <= k
           first == CHOOSE n \in matching : Foremost(n)
           I == {i \in 1 .. Len(iamRules) : Fits(iamRules[i].rule)}
<1>1. /\ registered \in Seq(AccessRules) /\ iamRules \in Seq(RuleEntries) /\ Ascend(iamRules)
      /\ AreThose(iamRules, registered, removed)
      BY DEF AccessInv, RulesInv
<1>2. Evaluate(h, resource, level, context) =
          IF ~ScopeAllows(h, resource.type, level) THEN "deny"
          ELSE IF I = {} THEN "allow" ELSE iamRules[Min(I)].rule.decision
  <2>1. SelectInSeq(iamRules, LAMBDA e : Applies(e.rule, h, resource, context))
            = IF I # {} THEN Min(I) ELSE 0
        BY DEF SelectInSeq
  <2>2. I # {} => Min(I) # 0
    <3>1. I \subseteq Nat /\ 0 \notin I OBVIOUS
    <3> QED BY <3>1, LeastOf
  <2> QED BY <2>1, <2>2 DEF Evaluate
<1> HIDE DEF Fits
<1>3. DOMAIN iamRules = 1 .. Len(iamRules) /\ Len(iamRules) \in Nat BY <1>1
<1>4. \A i \in DOMAIN iamRules : /\ iamRules[i].n \in DOMAIN registered \ removed
                                 /\ iamRules[i].rule = registered[iamRules[i].n]
      BY <1>1 DEF AreThose
<1>5. \A n \in DOMAIN registered \ removed : \E i \in DOMAIN iamRules : iamRules[i].n = n
      BY <1>1 DEF AreThose
<1>6. \A i \in I : iamRules[i].n \in matching BY <1>3, <1>4
<1>7. \A n \in matching : \E i \in I : iamRules[i].n = n BY <1>3, <1>4, <1>5
<1>8. I = {} <=> matching = {} BY <1>6, <1>7
<1>9. ASSUME I # {} PROVE iamRules[Min(I)].rule = registered[first]
  <2>1. PICK m : m = Min(I) OBVIOUS
  <2>2. I \subseteq Nat BY <1>3
  <2>3. m \in I /\ \A i \in I : m <= i BY <2>1, <2>2, <1>9, LeastOf
  <2>4. PICK n : n = iamRules[m].n OBVIOUS
  <2>5. n \in matching /\ iamRules[m].rule = registered[n] BY <2>3, <2>4, <1>3, <1>4, <1>6
  <2>6. \A k \in matching : k \in Nat /\ registered[k].priority \in Int
    <3>1. \A k \in matching : k \in DOMAIN registered OBVIOUS
    <3>2. \A k \in DOMAIN registered : k \in Nat /\ registered[k] \in AccessRules BY <1>1
    <3> QED BY <3>1, <3>2, PrioritiesAreNumbers
  <2>7. Foremost(n)
    <3> SUFFICES ASSUME NEW k \in matching
                 PROVE  \/ registered[n].priority < registered[k].priority
                        \/ registered[n].priority = registered[k].priority /\ n <= k
        OBVIOUS
    <3>1. PICK i \in I : iamRules[i].n = k BY <1>7
    <3>2. iamRules[i].rule = registered[k] BY <3>1, <1>3, <1>4
    <3>3. m = i \/ m < i BY <2>2, <2>3
    <3>4. CASE m = i BY <3>1, <3>4, <2>4, <2>6
    <3>5. CASE m < i
      <4>1. EntryBefore(iamRules[m], iamRules[i]) BY <3>5, <2>3, <1>1, <1>3 DEF Ascend
      <4> QED BY <4>1, <3>1, <3>2, <2>4, <2>5, <2>6 DEF EntryBefore
    <3> QED BY <3>3, <3>4, <3>5
  <2>8. \A j \in matching : Foremost(j) => j = n
    <3> SUFFICES ASSUME NEW j \in matching, Foremost(j) PROVE j = n OBVIOUS
    <3>1. \/ registered[j].priority < registered[n].priority
          \/ registered[j].priority = registered[n].priority /\ j <= n BY <2>5
    <3>2. \/ registered[n].priority < registered[j].priority
          \/ registered[n].priority = registered[j].priority /\ n <= j BY <2>7
    <3> QED BY <3>1, <3>2, <2>5, <2>6
  <2> HIDE DEF matching, Foremost
  <2>9. first = n BY <2>5, <2>7, <2>8
  <2> QED BY <2>1, <2>5, <2>9
<1>10. Evaluate(h, resource, level, context) =
          IF ~ScopeAllows(h, resource.type, level) THEN "deny"
          ELSE IF matching = {} THEN "allow" ELSE registered[first].decision
  <2> HIDE DEF I, matching, first
  <2> QED BY <1>2, <1>8, <1>9
<1> QED BY <1>10 DEF Fits

LEMMA AccessAlways == AccessSpec => []AccessInv
BY AccessInitially, AccessStep, PTL DEF AccessSpec

\* However scopes are granted, revoked, forgotten, and rules registered, once more by the
\* start-up too, and removed: an identity may do what a scope of its grant allows, and among the
\* rules in force the first by priority, then by age, decides (ScopeManager, WorkloadIAM).
THEOREM RulesAlwaysDecide == AccessSpec => [](GrantsAreRead /\ RulesDecide)
BY AccessAlways, GrantsFollow, RulesFollow, PTL

-----------------------------------------------------------------------------
(***************************************************************************)
(* The vote of the models.                                                 *)
(***************************************************************************)

Padded(L, S, of) == [k \in 1 .. L |-> IF k \in S THEN of[k] ELSE 0]

\* A sum over places is that of a list with zeros at the others.
LEMMA TotalAddsUp ==
    ASSUME NEW L \in Nat, NEW S, NEW of, \A k \in S : of[k] \in Nat
    PROVE  \E f : /\ Padded(L, S, of) \in [1 .. L -> Nat]
                  /\ AddsUp(f, Padded(L, S, of), L) /\ SumOver(L, S, of) = f[L]
<1>1. PICK d : d = [k \in 1 .. L |-> IF k \in S THEN of[k] ELSE 0] OBVIOUS
<1>2. d \in [1 .. L -> Nat] BY <1>1
<1>3. d = Padded(L, S, of) BY <1>1 DEF Padded
<1>4. PICK g : AddsUp(g, d, L) BY <1>2, SumsExist
<1>5. g = [k \in 0 .. L |-> IF k = 0 THEN 0 ELSE g[k - 1] + (IF k \in S THEN of[k] ELSE 0)]
  <2>1. g \in [0 .. L -> Nat] /\ g[0] = 0 BY <1>4 DEF AddsUp
  <2>2. ASSUME NEW k \in 0 .. L, k # 0 PROVE g[k] = g[k - 1] + (IF k \in S THEN of[k] ELSE 0)
    <3>1. k \in 1 .. L BY <2>2
    <3> QED BY <3>1, <1>1, <1>4 DEF AddsUp
  <2> QED BY <2>1, <2>2
<1>6. PICK f : f = CHOOSE h : h = [k \in 0 .. L |->
                       IF k = 0 THEN 0 ELSE h[k - 1] + (IF k \in S THEN of[k] ELSE 0)]
      OBVIOUS
<1>7. f = [k \in 0 .. L |-> IF k = 0 THEN 0 ELSE f[k - 1] + (IF k \in S THEN of[k] ELSE 0)]
      BY <1>5, <1>6
<1>8. SumOver(L, S, of) = f[L] BY <1>6 DEF SumOver
<1>9. AddsUp(f, d, L)
  <2>1. f[0] = 0
    <3>1. 0 \in 0 .. L OBVIOUS
    <3> QED BY <3>1, <1>7
  <2>2. ASSUME NEW k \in 1 .. L PROVE f[k] = f[k - 1] + d[k]
    <3>1. k \in 0 .. L /\ k # 0 OBVIOUS
    <3>2. f[k] = f[k - 1] + (IF k \in S THEN of[k] ELSE 0) BY <3>1, <1>7
    <3> QED BY <3>2, <1>1
  <2> DEFINE P == {m \in Nat : m <= L => f[m] \in Nat}
  <2>3. 0 \in P BY <2>1
  <2>4. ASSUME NEW m \in Nat, m \in P PROVE m + 1 \in P
    <3> SUFFICES ASSUME m + 1 <= L PROVE f[m + 1] \in Nat OBVIOUS
    <3>1. m + 1 \in 1 .. L /\ (m + 1) - 1 = m OBVIOUS
    <3>2. f[m] \in Nat BY <2>4
    <3>3. f[m + 1] = f[m] + d[m + 1] BY <2>2, <3>1
    <3> QED BY <3>1, <3>2, <3>3, <1>2
  <2> HIDE DEF P
  <2>5. Nat \subseteq P BY <2>3, <2>4, FromZeroOn
  <2>6. \A m \in 0 .. L : f[m] \in Nat BY <2>5 DEF P
  <2>7. f \in [0 .. L -> Nat] BY <2>6, <1>7
  <2> QED BY <2>1, <2>2, <2>7 DEF AddsUp
<1> QED BY <1>2, <1>3, <1>8, <1>9

LEMMA TotalsCompare ==
    ASSUME NEW S, NEW a, NEW b, NEW lo \in Nat, NEW hi \in Nat,
           \A k \in S : a[k] \in Nat /\ b[k] \in Nat /\ lo * b[k] <= a[k] /\ a[k] <= hi * b[k]
    PROVE  /\ VoteTotal(S, a) \in Nat /\ VoteTotal(S, b) \in Nat
           /\ lo * VoteTotal(S, b) <= VoteTotal(S, a) /\ VoteTotal(S, a) <= hi * VoteTotal(S, b)
<1>1. PICK L \in Nat : L = Len(Providers) BY VoteAssumption
<1>2. PICK f : /\ Padded(L, S, a) \in [1 .. L -> Nat] /\ AddsUp(f, Padded(L, S, a), L)
               /\ VoteTotal(S, a) = f[L]
      BY <1>1, TotalAddsUp DEF VoteTotal
<1>3. PICK g : /\ Padded(L, S, b) \in [1 .. L -> Nat] /\ AddsUp(g, Padded(L, S, b), L)
               /\ VoteTotal(S, b) = g[L]
      BY <1>1, TotalAddsUp DEF VoteTotal
<1>4. ASSUME NEW k \in 1 .. L
      PROVE  lo * Padded(L, S, b)[k] <= Padded(L, S, a)[k] /\ Padded(L, S, a)[k] <= hi * Padded(L, S, b)[k]
  <2>1. CASE k \in S
    <3>1. Padded(L, S, b)[k] = b[k] /\ Padded(L, S, a)[k] = a[k] BY <2>1, <1>1 DEF Padded
    <3> QED BY <3>1, <2>1
  <2>2. CASE k \notin S
    <3>1. Padded(L, S, b)[k] = 0 /\ Padded(L, S, a)[k] = 0 BY <2>2, <1>1 DEF Padded
    <3> QED BY <3>1
  <2> QED BY <2>1, <2>2
<1>5. /\ f[L] \in Nat /\ g[L] \in Nat /\ lo * g[L] <= f[L] /\ f[L] <= hi * g[L]
      BY <1>2, <1>3, <1>4, SumsCompare
<1> QED BY <1>2, <1>3, <1>5

LEMMA TotalOfOnes ==
    ASSUME NEW S, S \subseteq 1 .. Len(Providers)
    PROVE  VoteTotal(S, [k \in S |-> 1]) = Cardinality(S)
<1>1. PICK L \in Nat : L = Len(Providers) BY VoteAssumption
<1>2. PICK f : AddsUp(f, Padded(L, S, [k \in S |-> 1]), L) /\ VoteTotal(S, [k \in S |-> 1]) = f[L]
  <2>1. \A k \in S : [j \in S |-> 1][k] \in Nat OBVIOUS
  <2> QED BY <1>1, <2>1, TotalAddsUp DEF VoteTotal
<1>3. Padded(L, S, [k \in S |-> 1]) = [k \in 1 .. L |-> IF k \in S THEN 1 ELSE 0] BY <1>1 DEF Padded
<1>4. f[L] = Cardinality(S) BY <1>1, <1>2, <1>3, OnesAddUp
<1> QED BY <1>2, <1>4

\* Of the things that places name, one has the highest score and among those was named first.
LEMMA BestExists ==
    ASSUME NEW L \in Nat, NEW T, T \subseteq 1 .. L, T # {}, NEW act, NEW sc, NEW fi,
           \A k \in T : sc[act[k]] \in Nat /\ fi[act[k]] \in Nat
    PROVE  \E w \in T : \A k \in T :
              \/ sc[act[w]] > sc[act[k]]
              \/ sc[act[w]] = sc[act[k]] /\ fi[act[w]] <= fi[act[k]]
<1> DEFINE Better(w, k) == \/ sc[act[w]] > sc[act[k]]
                           \/ sc[act[w]] = sc[act[k]] /\ fi[act[w]] <= fi[act[k]]
           Best(m) == T \cap 1 .. m = {} \/ \E w \in T \cap 1 .. m : \A k \in T \cap 1 .. m : Better(w, k)
           S == {m \in Nat : Best(m)}
<1>1. ASSUME NEW i \in T, NEW j \in T, NEW k \in T, Better(i, j), Better(j, k) PROVE Better(i, k)
  <2>1. PICK si \in Nat, sj \in Nat, sk \in Nat : si = sc[act[i]] /\ sj = sc[act[j]] /\ sk = sc[act[k]]
        OBVIOUS
  <2>2. PICK fa \in Nat, fb \in Nat, fc \in Nat : fa = fi[act[i]] /\ fb = fi[act[j]] /\ fc = fi[act[k]]
        OBVIOUS
  <2>3. si > sj \/ (si = sj /\ fa <= fb) BY <1>1, <2>1, <2>2
  <2>4. sj > sk \/ (sj = sk /\ fb <= fc) BY <1>1, <2>1, <2>2
  <2>5. si > sk \/ (si = sk /\ fa <= fc) BY <2>3, <2>4
  <2> QED BY <2>1, <2>2, <2>5
<1>2. ASSUME NEW i \in T, NEW j \in T PROVE Better(i, i) /\ (Better(i, j) \/ Better(j, i))
  <2>1. PICK si \in Nat, sj \in Nat : si = sc[act[i]] /\ sj = sc[act[j]] OBVIOUS
  <2>2. PICK fa \in Nat, fb \in Nat : fa = fi[act[i]] /\ fb = fi[act[j]] OBVIOUS
  <2>3. \/ si > sj \/ (si = sj /\ fa <= fb)
        \/ sj > si \/ (sj = si /\ fb <= fa)
        OBVIOUS
  <2> QED BY <2>1, <2>2, <2>3
<1> HIDE DEF Better
<1>3. 0 \in S OBVIOUS
<1>4. ASSUME NEW m \in Nat, m \in S PROVE m + 1 \in S
  <2> SUFFICES Best(m + 1) OBVIOUS
  <2>1. CASE m + 1 \notin T
    <3>1. T \cap 1 .. m + 1 = T \cap 1 .. m BY <2>1
    <3> QED BY <3>1, <1>4
  <2>2. CASE m + 1 \in T
    <3>1. \A k \in T \cap 1 .. m + 1 : k = m + 1 \/ k \in T \cap 1 .. m OBVIOUS
    <3>2. m + 1 \in T \cap 1 .. m + 1 /\ T \cap 1 .. m \subseteq T \cap 1 .. m + 1 BY <2>2
    <3>3. CASE T \cap 1 .. m = {}
      <4>1. \A k \in T \cap 1 .. m + 1 : Better(m + 1, k) BY <3>1, <3>3, <2>2, <1>2
      <4> QED BY <4>1, <3>2
    <3>4. CASE T \cap 1 .. m # {}
      <4>1. PICK w \in T \cap 1 .. m : \A k \in T \cap 1 .. m : Better(w, k) BY <3>4, <1>4
      <4>2. CASE Better(w, m + 1)
        <5>1. \A k \in T \cap 1 .. m + 1 : Better(w, k) BY <3>1, <4>1, <4>2
        <5> QED BY <5>1, <4>1, <3>2
      <4>3. CASE Better(m + 1, w)
        <5>1. \A k \in T \cap 1 .. m : Better(m + 1, k) BY <4>1, <4>3, <1>1, <2>2
        <5>2. \A k \in T \cap 1 .. m + 1 : Better(m + 1, k) BY <5>1, <3>1, <1>2, <2>2
        <5> QED BY <5>2, <3>2
      <4> QED BY <4>1, <4>2, <4>3, <1>2, <2>2
    <3> QED BY <3>3, <3>4
  <2> QED BY <2>1, <2>2
<1> HIDE DEF S
<1>5. Nat \subseteq S BY <1>3, <1>4, FromZeroOn
<1>6. Best(L) BY <1>5 DEF S
<1>7. T \cap 1 .. L = T OBVIOUS
<1> QED BY <1>6, <1>7 DEF Better

\* Answers have confidences, and none is awaited once the vote is taken.
AnswersAreRead ==
    /\ DOMAIN answers = Enabled
    /\ \A k \in Enabled : answers[k].is = "answer" => answers[k].confidence \in 0 .. 10
    /\ vote.is # "waiting" => \A k \in Enabled : answers[k] # Asked

LEMMA PlacesAreFinite ==
    ASSUME AnswersAreRead
    PROVE  /\ Successful \subseteq 1 .. Len(Providers) /\ Len(Providers) \in Nat
           /\ IsFiniteSet(Enabled) /\ IsFiniteSet(Successful)
           /\ Cardinality(Enabled) \in Nat /\ Cardinality(Successful) \in Nat
           /\ \A k \in Successful : answers[k].confidence \in 0 .. 10
<1>1. Len(Providers) \in Nat /\ DOMAIN Providers = 1 .. Len(Providers) BY VoteAssumption
<1>2. Enabled \subseteq 1 .. Len(Providers) /\ Successful \subseteq Enabled
      BY <1>1 DEF Enabled, Successful
<1>3. IsFiniteSet(1 .. Len(Providers)) BY <1>1, FS_Interval
<1>4. IsFiniteSet(Enabled) BY <1>2, <1>3, FS_Subset
<1>5. IsFiniteSet(Successful) BY <1>2, <1>4, FS_Subset
<1>6. \A k \in Successful : answers[k].confidence \in 0 .. 10 BY DEF AnswersAreRead, Successful
<1> QED BY <1>1, <1>2, <1>4, <1>5, <1>6, FS_CardinalityType

LEMMA WeightsArePositive == \A k \in Enabled : ProviderWeight[k] \in Nat \ {0}
<1> SUFFICES ASSUME NEW k \in Enabled PROVE ProviderWeight[k] \in Nat \ {0} OBVIOUS
<1>1. PICK S : S = {p \in DOMAIN Providers : Providers[p].id = Providers[k].id} OBVIOUS
<1>2. k \in S BY <1>1 DEF Enabled
<1>3. S \subseteq Nat BY <1>1, VoteAssumption
<1>4. Min(S) \in S BY <1>2, <1>3, LeastOf
<1>5. ProviderWeight[k] = Providers[Min(S)].weight BY <1>1 DEF ProviderWeight
<1> QED BY <1>1, <1>4, <1>5, VoteAssumption

\* The mean of what an action's backers say is between the least and the most of it, weighted or not.
LEMMA ConfidenceIsMean ==
    ASSUME AnswersAreRead, NEW action \in NamedActions
    PROVE  LET given == {answers[k].confidence : k \in BackersOf(action)}
               c == VoteConfidence(action)
           IN /\ c.num \in Nat /\ c.den \in Nat
              /\ Min(given) * c.den <= c.num /\ c.num <= Max(given) * c.den
              /\ VoteScore(action) \in Nat
              /\ strategy # "majority" => c.num = VoteScore(action)
<1>1. PICK B : B = BackersOf(action) OBVIOUS
<1>2. B \subseteq Successful /\ B # {} BY <1>1 DEF BackersOf, NamedActions
<1>3. PICK given : given = {answers[k].confidence : k \in B} OBVIOUS
<1>4. given \subseteq 0 .. 10 /\ given # {} BY <1>2, <1>3, PlacesAreFinite
<1>5. PICK lo \in 0 .. 10 : lo = Min(given) /\ \A x \in given : lo <= x
  <2>1. given \subseteq Nat BY <1>4
  <2>2. Min(given) \in given /\ \A x \in given : Min(given) <= x BY <1>4, <2>1, LeastOf
  <2> QED BY <2>2, <1>4
<1>6. PICK hi \in 0 .. 10 : hi = Max(given) /\ \A x \in given : x <= hi
  <2>1. given \in SUBSET (0 .. 10) BY <1>4
  <2>2. Max(given) \in given /\ \A x \in given : Max(given) >= x BY <1>4, <2>1, GreatestOf
  <2>3. PICK m \in 0 .. 10 : m = Max(given) BY <2>1, <2>2
  <2>4. \A x \in given : x \in 0 .. 10 BY <1>4
  <2>5. \A x \in given : x <= m BY <2>2, <2>3, <2>4
  <2> QED BY <2>3, <2>5
<1>7. \A k \in B : /\ answers[k].confidence \in 0 .. 10
                   /\ lo <= answers[k].confidence /\ answers[k].confidence <= hi
      BY <1>2, <1>3, <1>5, <1>6, PlacesAreFinite
<1>8. \A k \in B : /\ AnswerConfidence[k] = answers[k].confidence
                   /\ WeightedConfidence[k] = answers[k].confidence * ProviderWeight[k]
                   /\ ProviderWeight[k] \in Nat \ {0}
  <2>1. \A k \in B : k \in Enabled BY <1>2 DEF Successful
  <2> QED BY <2>1, <1>2, WeightsArePositive DEF AnswerConfidence, WeightedConfidence
<1>9. /\ VoteTotal(B, AnswerConfidence) \in Nat /\ Cardinality(B) \in Nat
      /\ lo * Cardinality(B) <= VoteTotal(B, AnswerConfidence)
      /\ VoteTotal(B, AnswerConfidence) <= hi * Cardinality(B)
  <2>1. PICK ones : ones = [k \in B |-> 1] OBVIOUS
  <2>2. \A k \in B : ones[k] = 1 BY <2>1
  <2>3. PICK own : own = AnswerConfidence OBVIOUS
  <2>4. \A k \in B : /\ own[k] \in Nat /\ ones[k] \in Nat
                     /\ lo * ones[k] <= own[k] /\ own[k] <= hi * ones[k]
        BY <2>2, <2>3, <1>5, <1>6, <1>7, <1>8
  <2>5. lo \in Nat /\ hi \in Nat OBVIOUS
  <2>6. /\ VoteTotal(B, own) \in Nat /\ VoteTotal(B, ones) \in Nat
        /\ lo * VoteTotal(B, ones) <= VoteTotal(B, own)
        /\ VoteTotal(B, own) <= hi * VoteTotal(B, ones)
        BY <2>4, <2>5, TotalsCompare
  <2>7. B \subseteq 1 .. Len(Providers) BY <1>2, PlacesAreFinite
  <2>8. VoteTotal(B, ones) = Cardinality(B) BY <2>1, <2>7, TotalOfOnes
  <2> QED BY <2>3, <2>6, <2>8
<1>10. /\ VoteTotal(B, WeightedConfidence) \in Nat /\ VoteTotal(B, ProviderWeight) \in Nat
       /\ lo * VoteTotal(B, ProviderWeight) <= VoteTotal(B, WeightedConfidence)
       /\ VoteTotal(B, WeightedConfidence) <= hi * VoteTotal(B, ProviderWeight)
  <2>1. PICK by : by = WeightedConfidence OBVIOUS
  <2>2. PICK weight : weight = ProviderWeight OBVIOUS
  <2>3. ASSUME NEW k \in B
        PROVE  /\ by[k] \in Nat /\ weight[k] \in Nat
               /\ lo * weight[k] <= by[k] /\ by[k] <= hi * weight[k]
    <3>1. PICK c \in Nat, w \in Nat :
             c = answers[k].confidence /\ w = ProviderWeight[k] /\ lo <= c /\ c <= hi
          BY <1>7, <1>8
    <3>2. by[k] = c * w /\ weight[k] = w BY <2>1, <2>2, <3>1, <1>8
    <3>3. lo * w <= c * w BY <3>1
    <3>4. c * w <= hi * w BY <3>1
    <3>5. c * w \in Nat OBVIOUS
    <3> QED BY <3>2, <3>3, <3>4, <3>5
  <2>4. \A k \in B : /\ by[k] \in Nat /\ weight[k] \in Nat
                     /\ lo * weight[k] <= by[k] /\ by[k] <= hi * weight[k]
        BY <2>3
  <2>5. lo \in Nat /\ hi \in Nat OBVIOUS
  <2>6. /\ VoteTotal(B, by) \in Nat /\ VoteTotal(B, weight) \in Nat
        /\ lo * VoteTotal(B, weight) <= VoteTotal(B, by)
        /\ VoteTotal(B, by) <= hi * VoteTotal(B, weight)
        BY <2>4, <2>5, TotalsCompare
  <2> QED BY <2>1, <2>2, <2>6
<1>11. PICK c : c = VoteConfidence(action) OBVIOUS
<1>12. CASE strategy = "majority"
  <2>1. c.num = VoteTotal(B, AnswerConfidence) /\ c.den = Cardinality(B)
        BY <1>1, <1>11, <1>12 DEF VoteConfidence
  <2>2. VoteScore(action) = Cardinality(B) BY <1>1, <1>12 DEF VoteScore
  <2> QED BY <2>1, <2>2, <1>1, <1>3, <1>5, <1>6, <1>9, <1>11, <1>12
<1>13. CASE strategy # "majority"
  <2>1. c.num = VoteTotal(B, WeightedConfidence) /\ c.den = VoteTotal(B, ProviderWeight)
        BY <1>1, <1>11, <1>13 DEF VoteConfidence
  <2>2. VoteScore(action) = VoteTotal(B, WeightedConfidence) BY <1>1, <1>13 DEF VoteScore
  <2> QED BY <2>1, <2>2, <1>1, <1>3, <1>5, <1>6, <1>10, <1>11
<1> QED BY <1>12, <1>13

\* Where some answer came, there is a winner: nothing scores more, and of what scores as
\* much it was named first.
LEMMA WinnerIsBest ==
    ASSUME AnswersAreRead, Successful # {}
    PROVE  /\ Winner \in NamedActions
           /\ \A a \in NamedActions : VoteScore(a) \in Nat /\ VoteScore(a) <= VoteScore(Winner)
<1>1. PICK L \in Nat : L = Len(Providers) BY PlacesAreFinite
<1>2. PICK T : T = Successful OBVIOUS
<1>3. T \subseteq 1 .. L /\ T # {} BY <1>1, <1>2, PlacesAreFinite
<1>4. PICK act : act = [k \in T |-> answers[k].action] OBVIOUS
<1>5. PICK sc : sc = [a \in NamedActions |-> VoteScore(a)] OBVIOUS
<1>6. PICK fi : fi = [a \in NamedActions |-> FirstNamed(a)] OBVIOUS
<1>7. \A a \in NamedActions : VoteScore(a) \in Nat BY ConfidenceIsMean
<1>8. ASSUME NEW a \in NamedActions PROVE FirstNamed(a) \in Nat
  <2>1. PICK B : B = BackersOf(a) OBVIOUS
  <2>2. B # {} BY <2>1 DEF BackersOf, NamedActions
  <2>3. B \subseteq Nat
    <3>1. B \subseteq T BY <2>1, <1>2 DEF BackersOf
    <3>2. T \subseteq Nat BY <1>3
    <3> QED BY <3>1, <3>2
  <2>4. Min(B) \in B BY <2>2, <2>3, LeastOf
  <2> QED BY <2>1, <2>3, <2>4 DEF FirstNamed
<1>9. \A k \in T : act[k] \in NamedActions BY <1>2, <1>4 DEF NamedActions
<1>10. \A a \in NamedActions : \E k \in T : act[k] = a BY <1>2, <1>4 DEF NamedActions
<1>11. \A a \in NamedActions : sc[a] = VoteScore(a) /\ fi[a] = FirstNamed(a) BY <1>5, <1>6
<1>12. \A k \in T : sc[act[k]] \in Nat /\ fi[act[k]] \in Nat BY <1>7, <1>8, <1>9, <1>11
<1>13. PICK w \in T : \A k \in T :
              \/ sc[act[w]] > sc[act[k]]
              \/ sc[act[w]] = sc[act[k]] /\ fi[act[w]] <= fi[act[k]]
       BY <1>3, <1>12, BestExists
<1>14. \A b \in NamedActions : \/ VoteScore(act[w]) > VoteScore(b)
                               \/ VoteScore(act[w]) = VoteScore(b) /\ FirstNamed(act[w]) <= FirstNamed(b)
       BY <1>9, <1>10, <1>11, <1>13
<1>15. /\ Winner \in NamedActions
       /\ \A b \in NamedActions : \/ VoteScore(Winner) > VoteScore(b)
                                  \/ VoteScore(Winner) = VoteScore(b) /\ FirstNamed(Winner) <= FirstNamed(b)
       BY <1>9, <1>14 DEF Winner
<1> QED BY <1>7, <1>15

LEMMA BackersAreSuccessful ==
    \A a \in NamedActions : BackersOf(a) \subseteq Successful /\ BackersOf(a) # {}
BY DEF BackersOf, NamedActions

\* An action that everybody backs is the only one; so where several are named, the
\* majority is not everybody.
LEMMA MajorityIsSome ==
    ASSUME AnswersAreRead, Successful # {}, Cardinality(NamedActions) # 1
    PROVE  Majority # Cardinality(Successful)
<1>1. PICK T : T = Successful OBVIOUS
<1>2. IsFiniteSet(T) /\ Cardinality(T) \in Nat BY <1>1, PlacesAreFinite
<1>3. PICK S : S = {Cardinality(BackersOf(a)) : a \in NamedActions} OBVIOUS
<1>4. ASSUME NEW a \in NamedActions
      PROVE  /\ Cardinality(BackersOf(a)) \in 0 .. Cardinality(T)
             /\ Cardinality(BackersOf(a)) = Cardinality(T) => BackersOf(a) = T
  <2>1. PICK B : B = BackersOf(a) OBVIOUS
  <2>2. B \subseteq T BY <2>1, <1>1, BackersAreSuccessful
  <2>3. IsFiniteSet(B) /\ Cardinality(B) <= Cardinality(T) /\ (Cardinality(B) = Cardinality(T) => B = T)
        BY <2>2, <1>2, FS_Subset
  <2>4. Cardinality(B) \in Nat BY <2>3, FS_CardinalityType
  <2> QED BY <2>1, <2>3, <2>4, <1>2
<1>5. S \in SUBSET (0 .. Cardinality(T)) BY <1>3, <1>4
<1>6. S # {}
  <2>1. PICK k \in Successful : TRUE OBVIOUS
  <2>2. answers[k].action \in NamedActions BY <2>1 DEF NamedActions
  <2> QED BY <2>2, <1>3
<1>7. Max(S) \in S
  <2>1. PICK n \in Nat : n = Cardinality(T) BY <1>2
  <2>2. S \in SUBSET (0 .. n) BY <2>1, <1>5
  <2> QED BY <2>2, <1>6, GreatestOf
<1>8. PICK a \in NamedActions : Max(S) = Cardinality(BackersOf(a)) BY <1>3, <1>7
<1>9. Majority = Max(S) BY <1>3 DEF Majority
<1>10. SUFFICES ASSUME Majority = Cardinality(Successful) PROVE FALSE OBVIOUS
<1>11. BackersOf(a) = Successful BY <1>1, <1>4, <1>8, <1>9, <1>10
<1>12. NamedActions = {a} BY <1>8, <1>11 DEF NamedActions, BackersOf
<1>13. PICK x : x = a OBVIOUS
<1>14. Cardinality({x}) = 1 BY FS_Singleton
<1> QED BY <1>12, <1>13, <1>14

\* What is said of the vote, of any record r in its place.
ResultIsBacked(r) ==
    r.is = "result" =>
        /\ r.participating >= MinModels
        /\ \E k \in Successful : answers[k].action = r.action /\ answers[k].risk = r.risk
        /\ LET given == {answers[k].confidence : k \in BackersOf(r.action)} IN
               /\ Min(given) * r.confidence.den <= r.confidence.num
               /\ r.confidence.num <= Max(given) * r.confidence.den
        /\ strategy # "majority" => r.confidence.num > 0

ResultIsReported(r) ==
    r.is = "result" =>
        /\ (r.agreement.num = r.agreement.den) <=> (Cardinality(NamedActions) = 1)
        /\ (\E d \in r.disagreements : d.about = "action_type") <=> (Cardinality(NamedActions) > 1)
        /\ r.participating + r.failed = Cardinality(Enabled)

LEMMA CountIsRight ==
    ASSUME AnswersAreRead, CountVote, NEW r, r = vote'
    PROVE  r.is \in {"throws", "result"} /\ ResultIsBacked(r) /\ ResultIsReported(r)
<1>1. CASE Cardinality(Successful) < MinModels \/ NobodyScores
  <2>1. r = [is |-> "throws"] BY <1>1 DEF CountVote
  <2>2. r.is = "throws" BY <2>1
  <2> QED BY <2>2 DEF ResultIsBacked, ResultIsReported
<1>2. CASE ~ (Cardinality(Successful) < MinModels \/ NobodyScores)
  <2>1. /\ r.is = "result" /\ r.action = Winner /\ r.confidence = VoteConfidence(Winner)
        /\ r.risk = answers[FirstNamed(Winner)].risk
        /\ r.agreement = IF Cardinality(NamedActions) = 1 THEN [num |-> 1, den |-> 1]
                         ELSE [num |-> Majority, den |-> Cardinality(Successful)]
        /\ r.participating = Cardinality(Successful)
        /\ r.failed = Cardinality(Enabled) - Cardinality(Successful)
        /\ r.disagreements = Disagreements
        BY <1>2 DEF CountVote
  <2>2. PICK n \in Nat, m \in Nat : n = Cardinality(Successful) /\ m = Cardinality(Enabled)
        BY PlacesAreFinite
  <2>3. n >= MinModels /\ n # 0 BY <1>2, <2>2, VoteAssumption
  <2>4. Successful # {} BY <2>2, <2>3, FS_EmptySet
  <2>5. Winner \in NamedActions BY <2>4, WinnerIsBest
  <2>6. PICK w : w = Winner OBVIOUS
  <2>7. w \in NamedActions BY <2>5, <2>6
  <2>8. ResultIsBacked(r)
    <3>1. PICK B : B = BackersOf(w) OBVIOUS
    <3>2. B \subseteq Successful /\ B # {} BY <2>7, <3>1, BackersAreSuccessful
    <3>3. B \subseteq Nat BY <3>2, PlacesAreFinite
    <3>4. FirstNamed(w) \in B
      <4>1. Min(B) \in B BY <3>2, <3>3, LeastOf
      <4> QED BY <4>1, <3>1 DEF FirstNamed
    <3>5. answers[FirstNamed(w)].action = w BY <3>1, <3>4 DEF BackersOf
    <3>6. \E k \in Successful : answers[k].action = r.action /\ answers[k].risk = r.risk
          BY <2>1, <2>6, <3>2, <3>4, <3>5
    <3>7. /\ Min({answers[k].confidence : k \in BackersOf(w)}) * r.confidence.den <= r.confidence.num
          /\ r.confidence.num <= Max({answers[k].confidence : k \in BackersOf(w)}) * r.confidence.den
          /\ r.confidence.num \in Nat /\ VoteScore(w) \in Nat
          /\ strategy # "majority" => r.confidence.num = VoteScore(w)
          BY <2>1, <2>6, <2>7, ConfidenceIsMean
    <3>8. ASSUME strategy # "majority" PROVE r.confidence.num > 0
      <4>1. PICK a \in NamedActions : VoteScore(a) # 0 BY <1>2, <3>8 DEF NobodyScores
      <4>2. VoteScore(a) \in Nat /\ VoteScore(a) <= VoteScore(w) BY <2>4, <2>6, WinnerIsBest
      <4> QED BY <4>1, <4>2, <3>7, <3>8
    <3>9. r.participating >= MinModels BY <2>1, <2>2, <2>3
    <3>10. r.action = w BY <2>1, <2>6
    <3> QED BY <3>6, <3>7, <3>8, <3>9, <3>10 DEF ResultIsBacked
  <2>9. ResultIsReported(r)
    <3>1. (r.agreement.num = r.agreement.den) <=> (Cardinality(NamedActions) = 1)
      <4>1. CASE Cardinality(NamedActions) = 1
        <5>1. r.agreement = [num |-> 1, den |-> 1] BY <2>1, <4>1
        <5> QED BY <5>1, <4>1
      <4>2. CASE Cardinality(NamedActions) # 1
        <5>1. r.agreement = [num |-> Majority, den |-> Cardinality(Successful)] BY <2>1, <4>2
        <5>2. Majority # Cardinality(Successful) BY <4>2, <2>4, MajorityIsSome
        <5> QED BY <5>1, <5>2, <4>2
      <4> QED BY <4>1, <4>2
    <3>2. (\E d \in r.disagreements : d.about = "action_type") <=> (Cardinality(NamedActions) > 1)
      <4>1. PICK of : of = [about |-> "action_type",
                            severity |-> IF Cardinality(NamedActions) > 2 THEN "high" ELSE "medium"]
            OBVIOUS
      <4>2. PICK no : no = [about |-> "confidence", severity |-> IF SpreadAbove(20) THEN "high" ELSE "medium"]
            OBVIOUS
      <4>3. of.about = "action_type" /\ no.about # "action_type" BY <4>1, <4>2
      <4>4. Disagreements = {d \in {of} : Cardinality(NamedActions) > 1} \cup {d \in {no} : SpreadAbove(10)}
            BY <4>1, <4>2, Zenon DEF Disagreements
      <4> QED BY <2>1, <4>3, <4>4
    <3>3. r.participating + r.failed = Cardinality(Enabled) BY <2>1, <2>2
    <3> QED BY <3>1, <3>2, <3>3 DEF ResultIsReported
  <2> QED BY <2>1, <2>8, <2>9
<1> QED BY <1>1, <1>2

VoteInv == /\ AnswersAreRead
           /\ ResultIsBacked(vote) /\ ResultIsReported(vote)
           /\ vote.is \in {"waiting", "throws", "result"}

LEMMA VoteFollows == VoteInv => VoteIsBacked /\ DissentIsReported
BY DEF VoteInv, ResultIsBacked, ResultIsReported, VoteIsBacked, DissentIsReported

LEMMA VoteInitially == VoteInit => VoteInv
<1> SUFFICES ASSUME VoteInit PROVE VoteInv OBVIOUS
<1>1. vote.is = "waiting" BY DEF VoteInit, NoVote
<1>2. AnswersAreRead BY <1>1 DEF AnswersAreRead, VoteInit, Asked
<1> QED BY <1>1, <1>2 DEF VoteInv, ResultIsBacked, ResultIsReported

\* What the models answer is a confidence of theirs or that of the heuristic.
LEMMA AnswersHaveConfidences ==
    ASSUME NEW provider, NEW answer \in AnswersOf(provider), answer.is = "answer"
    PROVE  answer.confidence \in 0 .. 10 /\ answer # Asked
<1>1. answer.confidence \in 0 .. 10
  <2>1. CASE provider.id = "heuristic"
    <3>1. answer \in HeuristicAnswers BY <2>1 DEF AnswersOf
    <3> QED BY <3>1 DEF HeuristicAnswers, AnswerOf
  <2>2. CASE provider.id = "anthropic"
    <3>1. answer \in {AnswerOf(a, c, r) : a \in VoteActions, c \in Confidences, r \in VoteRisks} \cup {NoAnswer}
          BY <2>2 DEF AnswersOf
    <3>2. answer # NoAnswer BY DEF NoAnswer
    <3>3. PICK a \in VoteActions, c \in Confidences, r \in VoteRisks : answer = AnswerOf(a, c, r)
          BY <3>1, <3>2
    <3> QED BY <3>3, VoteAssumption DEF AnswerOf
  <2>3. CASE provider.id # "heuristic" /\ provider.id # "anthropic"
    <3>1. answer = NoAnswer BY <2>3 DEF AnswersOf
    <3> QED BY <3>1 DEF NoAnswer
  <2> QED BY <2>1, <2>2, <2>3
<1> QED BY <1>1 DEF Asked

LEMMA VoteStep == VoteInv /\ [VoteNext]_voteVars => VoteInv'
<1> SUFFICES ASSUME VoteInv, [VoteNext]_voteVars PROVE VoteInv' OBVIOUS
<1>1. AnswersAreRead BY DEF VoteInv
<1>2. ASSUME NEW k \in DOMAIN answers, ProviderAnswers(k) PROVE VoteInv'
  <2>1. k \in Enabled /\ answers[k] = Asked /\ vote' = vote BY <1>1, <1>2 DEF AnswersAreRead, ProviderAnswers
  <2>2. vote.is = "waiting" BY <2>1, <1>1 DEF AnswersAreRead
  <2>3. PICK answer \in AnswersOf(Providers[k]) : answers' = [answers EXCEPT ![k] = answer]
        BY <1>2 DEF ProviderAnswers
  <2>4. DOMAIN answers' = Enabled BY <2>3, <1>1 DEF AnswersAreRead
  <2>5. ASSUME NEW j \in Enabled, answers'[j].is = "answer" PROVE answers'[j].confidence \in 0 .. 10
    <3>1. CASE j = k
      <4>1. answers'[j] = answer BY <3>1, <2>3, <1>1 DEF AnswersAreRead
      <4> QED BY <4>1, <2>5, AnswersHaveConfidences
    <3>2. CASE j # k
      <4>1. answers'[j] = answers[j] BY <3>2, <2>3, <1>1 DEF AnswersAreRead
      <4> QED BY <4>1, <2>5, <1>1 DEF AnswersAreRead
    <3> QED BY <3>1, <3>2
  <2>6. AnswersAreRead' BY <2>1, <2>2, <2>4, <2>5 DEF AnswersAreRead
  <2>7. vote'.is = "waiting" BY <2>1, <2>2
  <2> QED BY <2>6, <2>7 DEF VoteInv, ResultIsBacked, ResultIsReported
<1>3. ASSUME answers' = answers, strategy' = strategy, NEW r, r = vote',
             r.is \in {"waiting", "throws", "result"}, ResultIsBacked(r), ResultIsReported(r),
             r.is # "waiting" => \A k \in Enabled : answers[k] # Asked
      PROVE  VoteInv'
  <2>1. AnswersAreRead' BY <1>1, <1>3 DEF AnswersAreRead
  <2>2. Successful' = Successful BY <1>3 DEF Successful
  <2>3. NamedActions' = NamedActions BY <1>3, <2>2 DEF NamedActions
  <2>4. ResultIsBacked(vote)'
    <3>1. PICK a : a = r.action OBVIOUS
    <3>2. BackersOf(a)' = BackersOf(a) BY <1>3, <2>2 DEF BackersOf
    <3>3. {answers'[k].confidence : k \in BackersOf(a)'} = {answers[k].confidence : k \in BackersOf(a)}
          BY <3>2, <1>3
    <3> QED BY <3>1, <3>2, <3>3, <2>2, <1>3 DEF ResultIsBacked
  <2>5. ResultIsReported(vote)' BY <2>3, <1>3 DEF ResultIsReported
  <2> QED BY <2>1, <2>4, <2>5, <1>3 DEF VoteInv
<1>4. CASE CountVote
  <2>1. PICK r : r = vote' OBVIOUS
  <2>2. r.is \in {"throws", "result"} /\ ResultIsBacked(r) /\ ResultIsReported(r)
        BY <1>1, <1>4, <2>1, CountIsRight
  <2>3. answers' = answers /\ strategy' = strategy BY <1>4 DEF CountVote
  <2>4. \A k \in Enabled : answers[k] # Asked BY <1>1, <1>4 DEF AnswersAreRead, CountVote
  <2> QED BY <1>3, <2>1, <2>2, <2>3, <2>4
<1>5. CASE UNCHANGED voteVars
  <2>1. PICK r : r = vote OBVIOUS
  <2>2. r = vote' /\ answers' = answers /\ strategy' = strategy BY <2>1, <1>5 DEF voteVars
  <2>3. /\ r.is \in {"waiting", "throws", "result"} /\ ResultIsBacked(r) /\ ResultIsReported(r)
        /\ r.is # "waiting" => \A k \in Enabled : answers[k] # Asked
        BY <2>1 DEF VoteInv, AnswersAreRead
  <2> QED BY <1>3, <2>2, <2>3
<1> QED BY <1>2, <1>4, <1>5 DEF VoteNext

LEMMA VoteAlways == VoteSpec => []VoteInv
<1>1. VoteInit => VoteInv BY VoteInitially
<1>2. VoteInv /\ [VoteNext]_voteVars => VoteInv' BY VoteStep
<1> QED BY <1>1, <1>2, PTL DEF VoteSpec

\* What the vote says is backed by enough answers, one of which named the action and its
\* risk, with a confidence between the least and the most that its backers have; it says
\* whether there was dissent, and who did not answer.
THEOREM VotesAreBacked == VoteSpec => [](VoteIsBacked /\ DissentIsReported)
<1>1. VoteInv => VoteIsBacked /\ DissentIsReported BY VoteFollows
<1> QED BY <1>1, VoteAlways, PTL

-----------------------------------------------------------------------------
(***************************************************************************)
(* The telemetry: its timer, the lists that it bounds, and what a snapshot *)
(* says of the window.                                                     *)
(***************************************************************************)

MetricRecords == [what : Metrics, at : Nat]

\* Fewer than two values have no slope.
LEMMA SlopeOfFew == ASSUME NEW v, Len(v) < 2 PROVE Slope(v) = 0
BY DEF Slope

ConfidenceAt(k) == metrics[k].what.confidence

LEMMA PlacesHaveMetrics ==
    ASSUME metrics \in Seq(MetricRecords), NEW K, K \subseteq DOMAIN metrics
    PROVE  /\ IsFiniteSet(K) /\ Cardinality(K) \in Nat /\ IsFiniteSet(DOMAIN metrics)
           /\ \A k \in K : metrics[k] \in MetricRecords /\ ConfidenceAt(k) \in 0 .. 10
<1>1. PICK l \in Nat : DOMAIN metrics = 1 .. l OBVIOUS
<1>2. IsFiniteSet(1 .. l) BY <1>1, FS_Interval
<1>3. IsFiniteSet(K) /\ Cardinality(K) \in Nat BY <1>1, <1>2, FS_Subset, FS_CardinalityType
<1>4. ASSUME NEW k \in K PROVE metrics[k] \in MetricRecords /\ ConfidenceAt(k) \in 0 .. 10
  <2>1. metrics[k] \in MetricRecords OBVIOUS
  <2>2. metrics[k].what \in Metrics BY <2>1 DEF MetricRecords
  <2> QED BY <2>1, <2>2, TelemetryAssumption DEF ConfidenceAt
<1> QED BY <1>1, <1>2, <1>3, <1>4

\* The list is as long as there are places, and ascends.
LEMMA SortedConfidencesAscend ==
    ASSUME metrics \in Seq(MetricRecords), NEW K, K \subseteq DOMAIN metrics,
           NEW n, n = Cardinality(K), NEW v, v = SortedConfidences(K)
    PROVE  /\ n \in Nat /\ v \in [1 .. n -> Nat]
           /\ \A i, j \in 1 .. n : i <= j => v[i] <= v[j]
<1>1. IsFiniteSet(K) /\ n \in Nat /\ \A k \in K : ConfidenceAt(k) \in 0 .. 10 BY PlacesHaveMetrics
<1>2. PICK C : C = {ConfidenceAt(k) : k \in K} OBVIOUS
<1>3. C \in SUBSET (0 .. 10) /\ \A c \in C : c \in Nat BY <1>1, <1>2
<1>4. PICK many : many = [c \in C |-> Cardinality({k \in K : ConfidenceAt(k) <= c})] OBVIOUS
<1>5. \A c \in C : many[c] \in Nat
  <2> SUFFICES ASSUME NEW c \in C PROVE many[c] \in Nat OBVIOUS
  <2>1. PICK T : T = {k \in K : ConfidenceAt(k) <= c} OBVIOUS
  <2>2. T \subseteq K BY <2>1
  <2>3. Cardinality(T) \in Nat BY <1>1, <2>2, FS_Subset, FS_CardinalityType
  <2> QED BY <1>4, <2>1, <2>3
<1>6. PICK from : from = [i \in 1 .. n |-> {c \in C : many[c] >= i}] OBVIOUS
<1>7. v = [i \in 1 .. n |-> Min(from[i])]
  <2>1. v = [i \in 1 .. Cardinality(K) |->
              Min({c \in {metrics[k].what.confidence : k \in K} :
                      Cardinality({k \in K : metrics[k].what.confidence <= c}) >= i})]
        BY DEF SortedConfidences
  <2>2. ASSUME NEW i \in 1 .. n
        PROVE  from[i] = {c \in {metrics[k].what.confidence : k \in K} :
                             Cardinality({k \in K : metrics[k].what.confidence <= c}) >= i}
    <3>1. C = {metrics[k].what.confidence : k \in K} BY <1>2 DEF ConfidenceAt
    <3>2. \A c \in C : many[c] = Cardinality({k \in K : metrics[k].what.confidence <= c})
          BY <1>4 DEF ConfidenceAt
    <3>3. from[i] = {c \in C : many[c] >= i} BY <1>6
    <3> QED BY <3>1, <3>2, <3>3
  <2> QED BY <2>1, <2>2
<1>8. \A i \in 1 .. n : from[i] \subseteq Nat /\ from[i] # {}
  <2> SUFFICES ASSUME NEW i \in 1 .. n PROVE from[i] \subseteq Nat /\ from[i] # {} OBVIOUS
  <2>1. K # {} BY <1>1, FS_EmptySet
  <2>2. C # {} BY <1>2, <2>1
  <2>3. Max(C) \in C /\ \A c \in C : Max(C) >= c BY <1>3, <2>2, GreatestOf
  <2>4. {k \in K : ConfidenceAt(k) <= Max(C)} = K
    <3>1. \A k \in K : ConfidenceAt(k) \in C BY <1>2
    <3>2. PICK top \in Nat : top = Max(C)
      <4>1. \A c \in C : c \in Nat BY <1>3
      <4>2. Max(C) \in Nat BY <4>1, <2>3, Zenon
      <4> QED BY <4>2
    <3>3. \A k \in K : ConfidenceAt(k) <= top BY <1>1, <2>3, <3>1, <3>2
    <3> QED BY <3>2, <3>3
  <2>5. many[Max(C)] = n BY <1>4, <2>3, <2>4
  <2>6. Max(C) \in from[i] BY <1>1, <1>6, <2>3, <2>5
  <2>7. from[i] \subseteq Nat
    <3>1. from[i] \subseteq C BY <1>6
    <3> QED BY <3>1, <1>3
  <2> QED BY <2>6, <2>7
<1>9. \A i \in 1 .. n : Min(from[i]) \in from[i] /\ \A c \in from[i] : Min(from[i]) <= c
      BY <1>8, LeastOf
<1>10. v \in [1 .. n -> Nat] BY <1>7, <1>8, <1>9
<1>11. ASSUME NEW i \in 1 .. n, NEW j \in 1 .. n, i <= j PROVE v[i] <= v[j]
  <2>1. Min(from[j]) \in C /\ many[Min(from[j])] >= j BY <1>6, <1>9
  <2>2. many[Min(from[j])] >= i BY <1>1, <1>5, <1>11, <2>1
  <2>3. Min(from[j]) \in from[i] BY <1>6, <2>1, <2>2
  <2> QED BY <1>7, <1>9, <2>3
<1> QED BY <1>1, <1>10, <1>11

\* The median is not above the 95th percentile.
LEMMA PercentilesAscend ==
    ASSUME NEW n \in Nat, NEW v \in [1 .. n -> Nat], \A i, j \in 1 .. n : i <= j => v[i] <= v[j]
    PROVE  Percentile(v, 50) <= Percentile(v, 95)
<1>1. Len(v) = n OBVIOUS
<1>2. CASE n = 0
  <2>1. v = <<>> BY <1>2
  <2> QED BY <2>1 DEF Percentile
<1>3. CASE n # 0
  <2>1. v # <<>> BY <1>1, <1>3
  <2>2. PICK i \in Int : i = (50 * n + 99) \div 100 /\ 100 * i <= 50 * n + 99 /\ 50 * n + 99 < 100 * i + 100
    <3>1. PICK a \in Nat : a = 50 * n + 99 OBVIOUS
    <3>2. a \div 100 \in Int /\ 100 * (a \div 100) <= a /\ a < 100 * (a \div 100) + 100 OBVIOUS
    <3> QED BY <3>1, <3>2
  <2>3. PICK j \in Int : j = (95 * n + 99) \div 100 /\ 100 * j <= 95 * n + 99 /\ 95 * n + 99 < 100 * j + 100
    <3>1. PICK a \in Nat : a = 95 * n + 99 OBVIOUS
    <3>2. a \div 100 \in Int /\ 100 * (a \div 100) <= a /\ a < 100 * (a \div 100) + 100 OBVIOUS
    <3> QED BY <3>1, <3>2
  <2>4. i \in 1 .. n /\ j \in 1 .. n /\ i <= j BY <1>3, <2>2, <2>3
  <2>5. Percentile(v, 50) = v[i] /\ Percentile(v, 95) = v[j]
    <3>1. Percentile(v, 50) = v[IF i < 1 THEN 1 ELSE i] BY <1>1, <2>1, <2>2 DEF Percentile
    <3>2. Percentile(v, 95) = v[IF j < 1 THEN 1 ELSE j] BY <1>1, <2>1, <2>3 DEF Percentile
    <3>3. ~(i < 1) /\ ~(j < 1) BY <2>4
    <3> QED BY <3>1, <3>2, <3>3
  <2> QED BY <2>4, <2>5
<1> QED BY <1>2, <1>3

LEMMA NothingAddsUpToNothing == \A L \in Nat : \A of : SumOver(L, {}, of) = 0
<1> SUFFICES ASSUME NEW L \in Nat, NEW of PROVE SumOver(L, {}, of) = 0 OBVIOUS
<1>1. PICK f : AddsUp(f, Padded(L, {}, of), L) /\ SumOver(L, {}, of) = f[L] BY TotalAddsUp
<1>2. Padded(L, {}, of) = [k \in 1 .. L |-> IF k \in {} THEN 1 ELSE 0] BY DEF Padded
<1>3. f[L] = Cardinality({}) BY <1>1, <1>2, OnesAddUp
<1> QED BY <1>1, <1>3, FS_EmptySet

\* Where nothing was measured, nothing is called an anomaly.
LEMMA NothingIsNoAnomaly ==
    ASSUME metrics \in Seq(MetricRecords)
    PROVE  Anomalies({}) = {}
<1>1. PICK L \in Nat : L = Len(metrics) OBVIOUS
<1>2. \A of : SumOver(Len(metrics), {}, of) = 0 BY <1>1, NothingAddsUpToNothing
<1>3. Cardinality({}) = 0 BY FS_EmptySet
<1> QED BY <1>2, <1>3 DEF Anomalies

\* The places of all that was recorded of the window before a time.
RecordedSince(time) == {i \in DOMAIN recordedSoFar : recordedSoFar[i].at >= time - TelemetryWindow}

SnapshotIsRight(s) ==
    /\ s.count \in Nat /\ s.count <= Cardinality(RecordedSince(s.at))
    /\ s.count = 0 => s.anomalies = {} /\ s.drift = 0
    /\ s.median <= s.p95

MetricsAreTyped ==
    /\ metrics \in Seq(MetricRecords) /\ recordedSoFar \in Seq(MetricRecords)
    /\ EndOf(metrics, recordedSoFar, MaxMetricsStored)

TelemetryInv ==
    /\ TelemetryTypeOK /\ OneTimerTicks /\ interval \in Nat
    /\ MetricsAreTyped
    /\ \E V : snapshots \in Seq(V) /\ \A s \in V : SnapshotIsRight(s)

\* What is kept of the window was recorded in it: each place has its own in what was recorded.
LEMMA WindowWasRecorded ==
    ASSUME MetricsAreTyped
    PROVE  Cardinality(MetricsInWindow) <= Cardinality(RecordedSince(telemetryTime))
<1>1. PICK l \in Nat, m \in Nat : l = Len(metrics) /\ m = Len(recordedSoFar)
      BY DEF MetricsAreTyped
<1>2. DOMAIN metrics = 1 .. l /\ DOMAIN recordedSoFar = 1 .. m BY <1>1 DEF MetricsAreTyped
<1>3. PICK n \in Nat : n = MaxMetricsStored BY TelemetryAssumption
<1>4. l <= m /\ \A k \in 1 .. l : metrics[k] = recordedSoFar[m - l + k]
  <2>1. l = IF m < n THEN m ELSE n BY <1>1, <1>3 DEF MetricsAreTyped, EndOf
  <2>2. l <= m
    <3>1. CASE m < n BY <2>1, <3>1
    <3>2. CASE ~(m < n) BY <2>1, <3>2
    <3> QED BY <3>1, <3>2
  <2> QED BY <2>2, <1>1 DEF MetricsAreTyped, EndOf
<1>5. PICK W, R : W = MetricsInWindow /\ R = RecordedSince(telemetryTime) OBVIOUS
<1>6. PICK f : f = [k \in W |-> m - l + k] OBVIOUS
<1>7. W \subseteq 1 .. l BY <1>2, <1>5 DEF MetricsInWindow
<1>8. ASSUME NEW k \in W PROVE f[k] \in R
  <2>1. k \in 1 .. l /\ f[k] = m - l + k BY <1>6, <1>7
  <2>2. f[k] \in 1 .. m BY <1>4, <2>1
  <2>3. metrics[k].at >= telemetryTime - TelemetryWindow BY <1>5 DEF MetricsInWindow
  <2>4. metrics[k] = recordedSoFar[f[k]] BY <1>4, <2>1
  <2> QED BY <1>2, <1>5, <2>2, <2>3, <2>4 DEF RecordedSince
<1>9. \A j, k \in W : f[j] = f[k] => j = k
  <2> SUFFICES ASSUME NEW j \in W, NEW k \in W, f[j] = f[k] PROVE j = k OBVIOUS
  <2>1. f[j] = m - l + j /\ f[k] = m - l + k BY <1>6
  <2>2. j \in Int /\ k \in Int BY <1>7
  <2>3. m - l + j = m - l + k BY <2>1
  <2> QED BY <2>2, <2>3
<1>10. f \in [W -> R] BY <1>6, <1>8
<1>11. f \in Injection(W, R) BY <1>9, <1>10 DEF Injection, IsInjective
<1>12. IsFiniteSet(R)
  <2>1. IsFiniteSet(1 .. m) BY FS_Interval
  <2>2. R \subseteq 1 .. m BY <1>2, <1>5 DEF RecordedSince
  <2> QED BY <2>1, <2>2, FS_Subset
<1> QED BY <1>5, <1>11, <1>12, FS_Injection

LEMMA SnapshotsAreTaken ==
    ASSUME MetricsAreTyped
    PROVE  SnapshotIsRight(SnapshotOf(MetricsInWindow))
<1>1. PICK K : K = MetricsInWindow OBVIOUS
<1>2. PICK n : n = Cardinality(K) OBVIOUS
<1>3. PICK v : v = SortedConfidences(K) OBVIOUS
<1>4. metrics \in Seq(MetricRecords) /\ K \subseteq DOMAIN metrics
      BY <1>1 DEF MetricsAreTyped, MetricsInWindow
<1>5. n \in Nat /\ v \in [1 .. n -> Nat] /\ \A i, j \in 1 .. n : i <= j => v[i] <= v[j]
      BY <1>2, <1>3, <1>4, SortedConfidencesAscend
<1>7. Percentile(v, 50) <= Percentile(v, 95) BY <1>5, PercentilesAscend
<1>8. n <= Cardinality(RecordedSince(telemetryTime)) BY <1>1, <1>2, WindowWasRecorded
<1>9. n = 0 => Anomalies(K) = {}
  <2> SUFFICES ASSUME n = 0 PROVE Anomalies(K) = {} OBVIOUS
  <2>1. IsFiniteSet(K) BY <1>4, PlacesHaveMetrics
  <2>2. K = {} BY <1>2, <2>1, FS_EmptySet
  <2> QED BY <1>4, <2>2, NothingIsNoAnomaly
<1>10. n = 0 => Slope(v) = 0
  <2>1. Len(v) = n BY <1>5
  <2> QED BY <2>1, SlopeOfFew
<1>11. PICK s : s = SnapshotOf(K) OBVIOUS
<1>12. s = [at |-> telemetryTime, count |-> n, median |-> Percentile(v, 50),
            p95 |-> Percentile(v, 95), drift |-> Slope(v), anomalies |-> Anomalies(K)]
       BY <1>2, <1>3, <1>11 DEF SnapshotOf
<1>13. /\ s.at = telemetryTime /\ s.count = n /\ s.median = Percentile(v, 50)
       /\ s.p95 = Percentile(v, 95) /\ s.drift = Slope(v) /\ s.anomalies = Anomalies(K)
       BY <1>12
<1>14. SnapshotIsRight(s) BY <1>5, <1>7, <1>8, <1>9, <1>10, <1>13 DEF SnapshotIsRight
<1> QED BY <1>1, <1>11, <1>14

\* What was recorded stays so, and more may come.
LEMMA SnapshotsStayRight ==
    ASSUME recordedSoFar \in Seq(MetricRecords), NEW e \in MetricRecords,
           recordedSoFar' = Append(recordedSoFar, e), NEW s, SnapshotIsRight(s)
    PROVE  SnapshotIsRight(s)'
<1>1. PICK m \in Nat : m = Len(recordedSoFar) OBVIOUS
<1>2. /\ DOMAIN recordedSoFar = 1 .. m /\ DOMAIN recordedSoFar' = 1 .. m + 1
      /\ \A i \in 1 .. m : recordedSoFar'[i] = recordedSoFar[i]
  <2>1. /\ recordedSoFar' \in Seq(MetricRecords) /\ Len(recordedSoFar') = m + 1
        /\ \A i \in 1 .. m : recordedSoFar'[i] = recordedSoFar[i]
        BY <1>1, AppendProperties
  <2> QED BY <1>1, <2>1
<1>3. PICK R, Q : R = RecordedSince(s.at) /\ Q = RecordedSince(s.at)' OBVIOUS
<1>4. R \subseteq Q
  <2>1. 1 .. m \subseteq 1 .. m + 1 OBVIOUS
  <2> QED BY <2>1, <1>2, <1>3 DEF RecordedSince
<1>5. IsFiniteSet(Q)
  <2>1. IsFiniteSet(1 .. m + 1) BY FS_Interval
  <2>2. Q \subseteq 1 .. m + 1 BY <1>2, <1>3 DEF RecordedSince
  <2> QED BY <2>1, <2>2, FS_Subset
<1>6. PICK x \in Nat, y \in Nat : x = Cardinality(R) /\ y = Cardinality(Q) /\ x <= y
  <2>1. IsFiniteSet(R) /\ Cardinality(R) <= Cardinality(Q) BY <1>4, <1>5, FS_Subset
  <2> QED BY <2>1, <1>5, FS_CardinalityType
<1>7. s.count \in Nat /\ s.count <= x BY <1>3, <1>6 DEF SnapshotIsRight
<1>8. s.count <= y BY <1>6, <1>7
<1> QED BY <1>3, <1>6, <1>7, <1>8 DEF SnapshotIsRight

LEMMA TelemetryInitially == TelemetryInit => TelemetryInv
<1> SUFFICES ASSUME TelemetryInit PROVE TelemetryInv OBVIOUS
<1>1. metrics = <<>> /\ recordedSoFar = <<>> /\ snapshots = <<>> BY DEF TelemetryInit
<1>2. Len(metrics) = 0 /\ Len(snapshots) = 0 /\ Len(recordedSoFar) = 0 BY <1>1
<1>3. MetricsAreTyped
  <2>1. metrics \in Seq(MetricRecords) /\ recordedSoFar \in Seq(MetricRecords) BY <1>1
  <2>2. PICK n \in Nat \ {0} : n = MaxMetricsStored BY TelemetryAssumption
  <2>3. EndOf(metrics, recordedSoFar, n) BY <1>2 DEF EndOf
  <2> QED BY <2>1, <2>2, <2>3 DEF MetricsAreTyped
<1>4. \E V : snapshots \in Seq(V) /\ \A s \in V : SnapshotIsRight(s)
  <2>1. snapshots \in Seq({}) BY <1>1
  <2> QED BY <2>1
<1>5. TelemetryTypeOK BY <1>2, TelemetryAssumption DEF TelemetryInit, TelemetryTypeOK
<1>6. OneTimerTicks /\ interval \in Nat BY DEF TelemetryInit, OneTimerTicks
<1> QED BY <1>3, <1>4, <1>5, <1>6 DEF TelemetryInv

LEMMA UnchangedStayRight ==
    ASSUME UNCHANGED recordedSoFar, NEW s, SnapshotIsRight(s)
    PROVE  SnapshotIsRight(s)'
BY DEF SnapshotIsRight, RecordedSince

\* What happens to neither list leaves the lists right.
LEMMA ListsStayRight ==
    ASSUME TelemetryInv, UNCHANGED <<metrics, snapshots, recordedSoFar>>
    PROVE  MetricsAreTyped' /\ (\E V : snapshots \in Seq(V) /\ \A s \in V : SnapshotIsRight(s))'
<1>1. MetricsAreTyped' BY DEF TelemetryInv, MetricsAreTyped
<1>2. PICK V : snapshots \in Seq(V) /\ \A s \in V : SnapshotIsRight(s) BY DEF TelemetryInv
<1>3. \A s \in V : SnapshotIsRight(s)' BY <1>2, UnchangedStayRight
<1> QED BY <1>1, <1>2, <1>3

LEMMA RecordKeeps ==
    ASSUME TelemetryInv, NEW m \in Metrics, NEW at \in 0 .. telemetryTime, Record(m, at)
    PROVE  TelemetryInv'
<1>1. PICK e : e = [what |-> m, at |-> at] OBVIOUS
<1>2. /\ metrics' = LastOnes(Append(metrics, e), MaxMetricsStored)
      /\ recordedSoFar' = Append(recordedSoFar, e)
      /\ UNCHANGED <<telemetryTime, snapshots, interval, intervals, intervalsSet>>
      BY <1>1 DEF Record
<1>3. e \in MetricRecords
  <2>1. at \in Nat OBVIOUS
  <2> QED BY <1>1, <2>1 DEF MetricRecords
<1>4. PICK s, t : s = metrics /\ t = recordedSoFar OBVIOUS
<1>5. PICK n \in Nat \ {0} : n = MaxMetricsStored BY TelemetryAssumption
<1>6. s \in Seq(MetricRecords) /\ t \in Seq(MetricRecords) /\ EndOf(s, t, n)
      BY <1>4, <1>5 DEF TelemetryInv, MetricsAreTyped
<1>7. PICK c : c = LastOf(Append(s, e), n) OBVIOUS
<1>8. c \in Seq(MetricRecords) /\ EndOf(c, Append(t, e), n) BY <1>3, <1>6, <1>7, LastOfHas
<1>9. metrics' = c BY <1>2, <1>4, <1>5, <1>7 DEF LastOnes, LastOf
<1>10. Append(t, e) \in Seq(MetricRecords) BY <1>3, <1>6
<1>11. MetricsAreTyped' BY <1>2, <1>4, <1>5, <1>8, <1>9, <1>10 DEF MetricsAreTyped
<1>12. Len(metrics') <= MaxMetricsStored
  <2>1. PICK p \in Nat, q \in Nat : p = Len(c) /\ q = Len(Append(t, e)) BY <1>8, <1>10
  <2>2. p = IF q < n THEN q ELSE n BY <1>8, <2>1 DEF EndOf
  <2>3. p <= n
    <3>1. CASE q < n BY <2>2, <3>1
    <3>2. CASE ~(q < n) BY <2>2, <3>2
    <3> QED BY <3>1, <3>2
  <2> QED BY <1>5, <1>9, <2>1, <2>3
<1>13. TelemetryTypeOK' BY <1>2, <1>12 DEF TelemetryInv, TelemetryTypeOK
<1>14. PICK V : snapshots \in Seq(V) /\ \A x \in V : SnapshotIsRight(x) BY DEF TelemetryInv
<1>15. \A x \in V : SnapshotIsRight(x)'
       BY <1>2, <1>3, <1>4, <1>6, <1>14, SnapshotsStayRight
<1>16. OneTimerTicks' /\ interval' \in Nat BY <1>2 DEF TelemetryInv, OneTimerTicks
<1> QED BY <1>2, <1>11, <1>13, <1>14, <1>15, <1>16 DEF TelemetryInv

LEMMA CaptureKeeps ==
    ASSUME TelemetryInv, NEW timer \in intervals, CaptureSnapshot(timer)
    PROVE  TelemetryInv'
<1>1. PICK e : e = SnapshotOf(MetricsInWindow) OBVIOUS
<1>2. /\ snapshots' = LastOnes(Append(snapshots, e), MaxSnapshots)
      /\ UNCHANGED <<telemetryTime, metrics, interval, intervals, intervalsSet, recordedSoFar>>
      BY <1>1 DEF CaptureSnapshot
<1>3. SnapshotIsRight(e) BY <1>1, SnapshotsAreTaken DEF TelemetryInv
<1>4. PICK V : snapshots \in Seq(V) /\ \A x \in V : SnapshotIsRight(x) BY DEF TelemetryInv
<1>5. PICK W : W = V \cup {e} OBVIOUS
<1>6. e \in W /\ V \subseteq W /\ \A x \in W : SnapshotIsRight(x) BY <1>3, <1>4, <1>5
<1>7. PICK s : s = snapshots OBVIOUS
<1>8. s \in Seq(W) BY <1>4, <1>6, <1>7
<1>9. PICK n \in Nat \ {0} : n = MaxSnapshots BY TelemetryAssumption
<1>10. Len(s) \in Nat /\ Len(s) <= n BY <1>7, <1>8, <1>9 DEF TelemetryInv, TelemetryTypeOK
<1>11. EndOf(s, s, n)
  <2>1. PICK l \in Nat : l = Len(s) /\ l <= n BY <1>10
  <2>2. l = IF l < n THEN l ELSE n
    <3>1. CASE l < n BY <3>1
    <3>2. CASE ~(l < n) BY <2>1, <3>2
    <3> QED BY <3>1, <3>2
  <2>3. \A k \in 1 .. l : s[k] = s[l - l + k]
    <3>1. \A k \in 1 .. l : l - l + k = k OBVIOUS
    <3> QED BY <3>1
  <2> QED BY <2>1, <2>2, <2>3 DEF EndOf
<1>12. PICK c : c = LastOf(Append(s, e), n) OBVIOUS
<1>13. c \in Seq(W) /\ EndOf(c, Append(s, e), n) BY <1>6, <1>8, <1>11, <1>12, LastOfHas
<1>14. snapshots' = c BY <1>2, <1>7, <1>9, <1>12 DEF LastOnes, LastOf
<1>15. Len(c) <= n
  <2>1. Append(s, e) \in Seq(W) BY <1>6, <1>8
  <2>2. PICK p \in Nat, q \in Nat : p = Len(c) /\ q = Len(Append(s, e)) BY <1>13, <2>1
  <2>3. p = IF q < n THEN q ELSE n BY <1>13, <2>2 DEF EndOf
  <2>4. p <= n
    <3>1. CASE q < n BY <2>3, <3>1
    <3>2. CASE ~(q < n) BY <2>3, <3>2
    <3> QED BY <3>1, <3>2
  <2> QED BY <2>2, <2>4
<1>16. TelemetryTypeOK' BY <1>2, <1>9, <1>14, <1>15 DEF TelemetryInv, TelemetryTypeOK
<1>17. \A x \in W : SnapshotIsRight(x)' BY <1>2, <1>6, UnchangedStayRight
<1>18. (\E X : snapshots \in Seq(X) /\ \A x \in X : SnapshotIsRight(x))' BY <1>13, <1>14, <1>17
<1>19. MetricsAreTyped' BY <1>2 DEF TelemetryInv, MetricsAreTyped
<1>20. OneTimerTicks' /\ interval' \in Nat BY <1>2 DEF TelemetryInv, OneTimerTicks
<1> QED BY <1>16, <1>18, <1>19, <1>20 DEF TelemetryInv

LEMMA TelemetryStep == TelemetryInv /\ [TelemetryNext]_telemetryVars => TelemetryInv'
<1> SUFFICES ASSUME TelemetryInv, [TelemetryNext]_telemetryVars PROVE TelemetryInv' OBVIOUS
<1> USE TelemetryAssumption
<1>1. CASE UNCHANGED telemetryVars
  <2>1. UNCHANGED <<metrics, snapshots, recordedSoFar>> BY <1>1 DEF telemetryVars
  <2>2. TelemetryTypeOK' /\ OneTimerTicks' /\ interval' \in Nat
        BY <1>1 DEF telemetryVars, TelemetryInv, TelemetryTypeOK, OneTimerTicks
  <2> QED BY <2>1, <2>2, ListsStayRight DEF TelemetryInv
<1>2. CASE StartTelemetry
  <2>1. /\ interval = 0 /\ intervalsSet < MaxIntervals /\ intervalsSet' = intervalsSet + 1
        /\ interval' = intervalsSet + 1 /\ intervals' = intervals \cup {intervalsSet + 1}
        /\ UNCHANGED <<telemetryTime, metrics, snapshots, recordedSoFar>>
        BY <1>2 DEF StartTelemetry
  <2>2. intervalsSet \in Nat /\ intervals = {} BY <2>1 DEF TelemetryInv, TelemetryTypeOK, OneTimerTicks
  <2>3. interval' \in Nat \ {0} /\ intervals' = {interval'} BY <2>1, <2>2
  <2>4. TelemetryTypeOK' /\ OneTimerTicks'
        BY <2>1, <2>2, <2>3 DEF TelemetryInv, TelemetryTypeOK, OneTimerTicks
  <2> QED BY <2>1, <2>3, <2>4, ListsStayRight DEF TelemetryInv
<1>3. CASE StopTelemetry
  <2>1. /\ interval # 0 /\ intervals' = intervals \ {interval} /\ interval' = 0
        /\ UNCHANGED <<telemetryTime, metrics, snapshots, intervalsSet, recordedSoFar>>
        BY <1>3 DEF StopTelemetry
  <2>2. intervals' = {} BY <2>1 DEF TelemetryInv, OneTimerTicks
  <2>3. TelemetryTypeOK' /\ OneTimerTicks' BY <2>1, <2>2 DEF TelemetryInv, TelemetryTypeOK, OneTimerTicks
  <2> QED BY <2>1, <2>3, ListsStayRight DEF TelemetryInv
<1>4. CASE TelemetryTick
  <2>1. /\ telemetryTime < MaxTelemetryTime /\ telemetryTime' = telemetryTime + 1
        /\ UNCHANGED <<metrics, snapshots, interval, intervals, intervalsSet, recordedSoFar>>
        BY <1>4 DEF TelemetryTick
  <2>2. TelemetryTypeOK' /\ OneTimerTicks' /\ interval' \in Nat
        BY <2>1 DEF TelemetryInv, TelemetryTypeOK, OneTimerTicks
  <2> QED BY <2>1, <2>2, ListsStayRight DEF TelemetryInv
<1>5. ASSUME NEW m \in Metrics, NEW at \in 0 .. telemetryTime, Record(m, at) PROVE TelemetryInv'
      BY <1>5, RecordKeeps
<1>6. ASSUME NEW timer \in intervals, CaptureSnapshot(timer) PROVE TelemetryInv'
      BY <1>6, CaptureKeeps
<1> QED BY <1>1, <1>2, <1>3, <1>4, <1>5, <1>6 DEF TelemetryNext

LEMMA TelemetryAlways == TelemetrySpec => []TelemetryInv
BY TelemetryInitially, TelemetryStep, PTL DEF TelemetrySpec

LEMMA TelemetryFollows ==
    TelemetryInv => OneTimerTicks /\ SnapshotsAreOfTheWindow
<1> SUFFICES ASSUME TelemetryInv PROVE OneTimerTicks /\ SnapshotsAreOfTheWindow
    OBVIOUS
<1>1. PICK V : snapshots \in Seq(V) /\ \A s \in V : SnapshotIsRight(s) BY DEF TelemetryInv
<1>2. \A k \in DOMAIN snapshots : SnapshotIsRight(snapshots[k]) BY <1>1
<1>3. SnapshotsAreOfTheWindow BY <1>2 DEF SnapshotsAreOfTheWindow, SnapshotIsRight, RecordedSince
<1> QED BY <1>3 DEF TelemetryInv

\* However often the telemetry is started and stopped, one timer at most ticks, and it is the
\* one that a stop would clear; and each snapshot that it takes counts no more than was recorded
\* in its window and calls nothing an anomaly where nothing was measured (ConfidenceTelemetry).
THEOREM TelemetryAlwaysMeasures ==
    TelemetrySpec => [](OneTimerTicks /\ SnapshotsAreOfTheWindow)
<1>1. TelemetryInv => OneTimerTicks /\ SnapshotsAreOfTheWindow BY TelemetryFollows
<1> QED BY <1>1, TelemetryAlways, PTL

-----------------------------------------------------------------------------
(***************************************************************************)
(* The checkers of compensations.                                          *)
(***************************************************************************)

\* Finitely many finite sets together are finite.
LEMMA TogetherAreFinite ==
    ASSUME NEW l \in Nat, NEW F, \A k \in 1 .. l : IsFiniteSet(F[k])
    PROVE  IsFiniteSet(UNION {F[k] : k \in 1 .. l})
<1> DEFINE S == {m \in Nat : m <= l => IsFiniteSet(UNION {F[k] : k \in 1 .. m})}
<1>1. 0 \in S
  <2>1. UNION {F[k] : k \in 1 .. 0} = {} OBVIOUS
  <2> QED BY <2>1, FS_EmptySet
<1>2. ASSUME NEW m \in Nat, m \in S PROVE m + 1 \in S
  <2> SUFFICES ASSUME m + 1 <= l PROVE IsFiniteSet(UNION {F[k] : k \in 1 .. m + 1}) OBVIOUS
  <2>1. PICK U : U = UNION {F[k] : k \in 1 .. m} OBVIOUS
  <2>2. PICK V : V = F[m + 1] OBVIOUS
  <2>3. IsFiniteSet(U) /\ IsFiniteSet(V) BY <1>2, <2>1, <2>2
  <2>4. UNION {F[k] : k \in 1 .. m + 1} = U \cup V
    <3>1. \A k : k \in 1 .. m + 1 <=> k \in 1 .. m \/ k = m + 1 OBVIOUS
    <3> QED BY <2>1, <2>2, <3>1
  <2> QED BY <2>3, <2>4, FS_Union
<1> HIDE DEF S
<1>3. Nat \subseteq S BY <1>1, <1>2, FromZeroOn
<1>4. l \in S BY <1>3
<1> QED BY <1>4 DEF S

LEMMA IssuesOfAStepAreFinite ==
    ASSUME CheckTypeOK, NEW step
    PROVE  IsFiniteSet(StepIssues(step))
<1>1. PICK S : S = StepIssues(step) OBVIOUS
<1>2. CASE Has(step)
  <2>1. PICK a, b, c, d : /\ a = Issue("missing_idempotency", 0, "error") /\ b = Issue("timeout_issue", 0, "warning")
                          /\ c = Issue("parameter_issue", 0, "warning")
                          /\ d = Issue("invalid_compensation", 0, "error")
        OBVIOUS
  <2>2. IsFiniteSet({a} \cup {b}) /\ IsFiniteSet({c} \cup {d}) BY FS_Singleton, FS_AddElement
  <2>3. IsFiniteSet(({a} \cup {b}) \cup ({c} \cup {d})) BY <2>2, FS_Union
  <2>4. S \subseteq ({a} \cup {b}) \cup ({c} \cup {d})
        BY <1>1, <1>2, <2>1, Zenon DEF StepIssues, CompensationIssues
  <2> QED BY <1>1, <2>3, <2>4, FS_Subset
<1>3. CASE ~Has(step)
  <2>1. PICK a : a = Issue("missing_compensation", 0, MissingSeverity(step)) OBVIOUS
  <2>2. PICK l \in Nat : DOMAIN rules = 1 .. l BY DEF CheckTypeOK
  <2>3. PICK f : f = [n \in 1 .. l |-> Issue("rule", n, rules[n])] OBVIOUS
  <2>4. IsFiniteSet({f[n] : n \in 1 .. l})
    <3>1. IsFiniteSet(1 .. l) BY FS_Interval
    <3>2. f \in [1 .. l -> {f[n] : n \in 1 .. l}] BY <2>3
    <3> QED BY <3>1, <3>2, ImageIsFinite
  <2>5. IsFiniteSet({f[n] : n \in 1 .. l} \cup {a}) BY <2>4, FS_AddElement
  <2>6. {Issue("rule", n, rules[n]) : n \in DOMAIN rules} = {f[n] : n \in 1 .. l} BY <2>2, <2>3
  <2>7. S \subseteq {f[n] : n \in 1 .. l} \cup {a} BY <1>1, <1>3, <2>1, <2>6, Zenon DEF StepIssues
  <2> QED BY <1>1, <2>5, <2>7, FS_Subset
<1> QED BY <1>2, <1>3

LEMMA IssuesAreFinite ==
    ASSUME CheckTypeOK, NEW plan \in Seq(PlanSteps)
    PROVE  IsFiniteSet(Issues(plan)) /\ IsFiniteSet(DOMAIN plan)
<1>1. PICK l \in Nat : DOMAIN plan = 1 .. l OBVIOUS
<1>2. IsFiniteSet(1 .. l) BY FS_Interval
<1>3. IsFiniteSet(StepsIssues(plan))
  <2>1. PICK F : F = [k \in 1 .. l |-> {IssueFrom(k, k, i) : i \in StepIssues(plan[k])}] OBVIOUS
  <2>2. ASSUME NEW k \in 1 .. l PROVE IsFiniteSet(F[k])
    <3>1. PICK S : S = StepIssues(plan[k]) OBVIOUS
    <3>2. PICK f : f = [i \in S |-> IssueFrom(k, k, i)] OBVIOUS
    <3>3. IsFiniteSet(S) BY <3>1, IssuesOfAStepAreFinite
    <3>4. f \in [S -> {f[i] : i \in S}] BY <3>2
    <3>5. F[k] = {f[i] : i \in S} BY <2>1, <3>1, <3>2
    <3> QED BY <3>3, <3>4, <3>5, ImageIsFinite
  <2>3. IsFiniteSet(UNION {F[k] : k \in 1 .. l}) BY <2>2, TogetherAreFinite
  <2>4. StepsIssues(plan) = UNION {F[k] : k \in 1 .. l} BY <1>1, <2>1 DEF StepsIssues
  <2> QED BY <2>3, <2>4
<1>4. IsFiniteSet(CircularIssues(plan))
  <2>1. PICK C : C = CircularPairs(plan) OBVIOUS
  <2>2. IsFiniteSet(C)
    <3>1. IsFiniteSet((1 .. l) \X (1 .. l)) BY <1>2, FS_Product
    <3>2. C \subseteq (1 .. l) \X (1 .. l) BY <1>1, <2>1 DEF CircularPairs, Compensated
    <3> QED BY <3>1, <3>2, FS_Subset
  <2>3. PICK g : g = [p \in C |-> IssueFrom(p[1], p[2], Issue("circular_dependency", 0, "error"))] OBVIOUS
  <2>4. g \in [C -> {g[p] : p \in C}] BY <2>3
  <2>5. CircularIssues(plan) = {g[p] : p \in C} BY <2>1, <2>3 DEF CircularIssues
  <2> QED BY <2>2, <2>4, <2>5, ImageIsFinite
<1>5. IsFiniteSet(Issues(plan)) BY <1>3, <1>4, FS_Union DEF Issues
<1> QED BY <1>1, <1>2, <1>5

\* What a step lacks is an issue of the plan.
LEMMA WhatIsMissingIsAnIssue ==
    ASSUME NEW plan, NEW k \in DOMAIN plan, NEW i \in StepIssues(plan[k])
    PROVE  \E f \in Issues(plan) : f.issue = i
<1>1. PICK f : f = IssueFrom(k, k, i) OBVIOUS
<1>2. f \in StepsIssues(plan) BY <1>1 DEF StepsIssues
<1>3. f \in Issues(plan) BY <1>2 DEF Issues
<1>4. f.issue = i BY <1>1 DEF IssueFrom
<1> QED BY <1>3, <1>4

\* A share is a percentage; it is all only of what is compensated.
LEMMA SharesAreCovered ==
    ASSUME NEW plan, NEW which, IsFiniteSet(which), which \subseteq DOMAIN plan
    PROVE  /\ Covered(plan, which) \in Int
           /\ which \subseteq Compensated(plan) <=> Covered(plan, which) >= 100
           /\ which \subseteq Compensated(plan) => Covered(plan, which) = 100
<1>1. CASE which = {} BY <1>1 DEF Covered
<1>2. CASE which # {}
  <2>1. PICK piece : piece = which \cap Compensated(plan) OBVIOUS
  <2>2. /\ IsFiniteSet(piece) /\ Cardinality(piece) <= Cardinality(which)
        /\ Cardinality(which) = Cardinality(piece) => which = piece
        BY <2>1, FS_Subset
  <2>3. PICK n \in Nat, m \in Nat : n = Cardinality(which) /\ m = Cardinality(piece)
        BY <2>2, FS_CardinalityType
  <2>4. n # 0 BY <1>2, <2>3, FS_EmptySet
  <2>5. Covered(plan, which) = (100 * m) \div n BY <1>2, <2>1, <2>3 DEF Covered
  <2>6. PICK q : q = (100 * m) \div n OBVIOUS
  <2>7. q \in Int /\ n * q <= 100 * m /\ 100 * m < n * q + n
    <3>1. PICK b \in Nat : b = 100 * m OBVIOUS
    <3>2. q = b \div n /\ n > 0 BY <3>1, <2>4, <2>6
    <3>3. q \in Int BY <3>2
    <3>4. n * q <= b BY <3>2
    <3>5. b < n * q + n BY <3>2
    <3> QED BY <3>1, <3>3, <3>4, <3>5
  <2>8. m <= n BY <2>2, <2>3
  <2>9. m = n => q = 100
    <3> SUFFICES ASSUME m = n PROVE q = 100 OBVIOUS
    <3>1. q <= 100
      <4> SUFFICES ASSUME q >= 101 PROVE FALSE BY <2>7
      <4>1. n * q >= n * 101 BY <2>4, <2>7
      <4> QED BY <4>1, <2>4, <2>7
    <3>2. q >= 100
      <4> SUFFICES ASSUME q <= 99 PROVE FALSE BY <2>7
      <4>1. n * q <= n * 99 BY <2>4, <2>7
      <4> QED BY <4>1, <2>4, <2>7
    <3> QED BY <3>1, <3>2, <2>7
  <2>10. q >= 100 => m = n
    <3> SUFFICES ASSUME q >= 100 PROVE m = n OBVIOUS
    <3>1. n * q >= n * 100 BY <2>7
    <3> QED BY <3>1, <2>7, <2>8
  <2>11. which \subseteq Compensated(plan) <=> which = piece BY <2>1
  <2> QED BY <2>2, <2>3, <2>5, <2>6, <2>7, <2>9, <2>10, <2>11
<1> QED BY <1>1, <1>2

\* What lies below 0 or above 100 is brought there.
LEMMA ScoresAreClamped ==
    ASSUME NEW raw \in Int
    PROVE  /\ Max({0, Min({100, raw})}) \in 0 .. 100
           /\ raw >= 100 => Max({0, Min({100, raw})}) = 100
<1>1. PICK m \in {100, raw} : \A x \in {100, raw} : m <= x OBVIOUS
<1>2. Min({100, raw}) \in {100, raw} /\ \A x \in {100, raw} : Min({100, raw}) <= x BY <1>1 DEF Min
<1>3. PICK l : l = Min({100, raw}) OBVIOUS
<1>4. l \in Int /\ l <= 100 /\ l <= raw /\ (l = 100 \/ l = raw) BY <1>2, <1>3
<1>5. PICK g \in {0, l} : \A x \in {0, l} : g >= x BY <1>4
<1>6. Max({0, l}) \in {0, l} /\ \A x \in {0, l} : Max({0, l}) >= x BY <1>5 DEF Max
<1>7. PICK h : h = Max({0, l}) OBVIOUS
<1>8. h \in Int /\ h >= 0 /\ h >= l /\ (h = 0 \/ h = l) BY <1>4, <1>6, <1>7
<1> QED BY <1>3, <1>4, <1>7, <1>8

\* A plan that a check does not find fault with lacks nothing that the check looks at.
LEMMA ValidPlans ==
    ASSUME CheckTypeOK, NEW plan \in Seq(PlanSteps)
    PROVE  LET issues == Issues(plan) IN
           /\ IsValid(issues, FALSE) =>
                 \A k \in DOMAIN plan :
                    /\ HighRisk(plan[k]) => Has(plan[k])
                    /\ Has(plan[k]) => plan[k].comp.undoes /\ plan[k].comp.key
           /\ IsValid(issues, TRUE) => Gaps(plan) = {} /\ IsValid(issues, FALSE) /\ issues = {}
<1>1. ASSUME IsValid(Issues(plan), FALSE), NEW k \in DOMAIN plan
      PROVE  /\ HighRisk(plan[k]) => Has(plan[k])
             /\ Has(plan[k]) => plan[k].comp.undoes /\ plan[k].comp.key
  <2>1. \A i \in StepIssues(plan[k]) : i.severity \notin {"critical", "error"}
        BY <1>1, WhatIsMissingIsAnIssue DEF IsValid
  <2>2. HighRisk(plan[k]) => Has(plan[k])
    <3> SUFFICES ASSUME HighRisk(plan[k]), ~Has(plan[k]) PROVE FALSE OBVIOUS
    <3>1. PICK i : i = Issue("missing_compensation", 0, MissingSeverity(plan[k])) OBVIOUS
    <3>2. i \in StepIssues(plan[k]) BY <3>1 DEF StepIssues, NeedsCompensation
    <3>3. MissingSeverity(plan[k]) \in {"critical", "error"} BY DEF MissingSeverity, HighRisk
    <3>4. i.severity = MissingSeverity(plan[k]) BY <3>1 DEF Issue
    <3> QED BY <2>1, <3>2, <3>3, <3>4
  <2>3. ASSUME Has(plan[k]) PROVE plan[k].comp.undoes /\ plan[k].comp.key
    <3>1. PICK i : i = Issue("missing_idempotency", 0, "error") OBVIOUS
    <3>2. PICK j : j = Issue("invalid_compensation", 0, "error") OBVIOUS
    <3>3. i.severity = "error" /\ j.severity = "error" BY <3>1, <3>2 DEF Issue
    <3>4. ~plan[k].comp.key => i \in StepIssues(plan[k])
          BY <2>3, <3>1 DEF StepIssues, CompensationIssues
    <3>5. ~plan[k].comp.undoes => j \in StepIssues(plan[k])
          BY <2>3, <3>2 DEF StepIssues, CompensationIssues
    <3> QED BY <2>1, <3>3, <3>4, <3>5
  <2> QED BY <2>2, <2>3
<1>2. ASSUME IsValid(Issues(plan), TRUE)
      PROVE  Gaps(plan) = {} /\ IsValid(Issues(plan), FALSE) /\ Issues(plan) = {}
  <2>1. Issues(plan) = {} BY <1>2 DEF IsValid
  <2>2. ASSUME NEW k \in Gaps(plan) PROVE FALSE
    <3>1. k \in DOMAIN plan /\ NeedsCompensation(plan[k]) /\ ~Has(plan[k]) BY <2>2 DEF Gaps
    <3>2. Issue("missing_compensation", 0, MissingSeverity(plan[k])) \in StepIssues(plan[k])
          BY <3>1 DEF StepIssues
    <3> QED BY <2>1, <3>1, <3>2, WhatIsMissingIsAnIssue
  <2> QED BY <2>1, <2>2 DEF IsValid
<1> QED BY <1>1, <1>2

\* Coverages are percentages of what is to be covered, and full only with everything in it.
LEMMA CoverageIsOfGaps ==
    ASSUME CheckTypeOK, NEW plan \in Seq(PlanSteps)
    PROVE  LET c == Coverage(plan) IN
           /\ c.effects \in Int /\ c.high \in Int /\ c.destructive \in Int
           /\ c.high >= 100 => \A k \in Gaps(plan) : ~HighRisk(plan[k])
           /\ Gaps(plan) = {} => c.effects = 100 /\ c.high = 100 /\ c.destructive = 100
           /\ Gaps(plan) = {} => c = [effects |-> 100, high |-> 100, destructive |-> 100]
<1>1. PICK E, H, D : /\ E = {k \in DOMAIN plan : plan[k].sideEffect}
                     /\ H = {k \in DOMAIN plan : HighRisk(plan[k])}
                     /\ D = {k \in DOMAIN plan : plan[k].risk = "destructive"}
      OBVIOUS
<1>2. E \subseteq DOMAIN plan /\ H \subseteq DOMAIN plan /\ D \subseteq DOMAIN plan BY <1>1
<1>3. IsFiniteSet(E) /\ IsFiniteSet(H) /\ IsFiniteSet(D) BY <1>2, IssuesAreFinite, FS_Subset
<1>4. Coverage(plan) = [effects |-> Covered(plan, E), high |-> Covered(plan, H),
                        destructive |-> Covered(plan, D)]
      BY <1>1 DEF Coverage
<1>5. Covered(plan, E) \in Int /\ (E \subseteq Compensated(plan) => Covered(plan, E) = 100)
      BY <1>2, <1>3, SharesAreCovered
<1>6. /\ Covered(plan, H) \in Int /\ (H \subseteq Compensated(plan) => Covered(plan, H) = 100)
      /\ Covered(plan, H) >= 100 => H \subseteq Compensated(plan)
      BY <1>2, <1>3, SharesAreCovered
<1>7. Covered(plan, D) \in Int /\ (D \subseteq Compensated(plan) => Covered(plan, D) = 100)
      BY <1>2, <1>3, SharesAreCovered
<1>8. Gaps(plan) = {} => /\ E \subseteq Compensated(plan) /\ H \subseteq Compensated(plan)
                         /\ D \subseteq Compensated(plan)
      BY <1>1 DEF Gaps, NeedsCompensation, Compensated, HighRisk
<1>9. H \subseteq Compensated(plan) => \A k \in Gaps(plan) : ~HighRisk(plan[k])
      BY <1>1 DEF Gaps, Compensated
<1> QED BY <1>4, <1>5, <1>6, <1>7, <1>8, <1>9

LEMMA PointsAreWhole ==
    ASSUME CheckTypeOK, NEW plan \in Seq(PlanSteps)
    PROVE  /\ GapPoints(plan) \in Nat /\ IssuePoints(Issues(plan)) \in Nat /\ Bonus(Coverage(plan)) \in Nat
           /\ Gaps(plan) = {} => GapPoints(plan) = 0 /\ Bonus(Coverage(plan)) = 15
           /\ Issues(plan) = {} => IssuePoints(Issues(plan)) = 0
<1>1. IsFiniteSet(DOMAIN plan) /\ IsFiniteSet(Issues(plan)) BY IssuesAreFinite
<1>2. /\ GapPoints(plan) \in Nat
      /\ Gaps(plan) = {} => GapPoints(plan) = 0
  <2>1. PICK G : G = [risk \in {"destructive", "high", "medium", "low"} |->
                         {k \in Gaps(plan) : plan[k].risk = risk}]
        OBVIOUS
  <2>2. ASSUME NEW risk \in {"destructive", "high", "medium", "low"}
        PROVE  /\ Cardinality(G[risk]) \in Nat
               /\ Gaps(plan) = {} => Cardinality(G[risk]) = 0
    <3>1. PICK S : S = G[risk] OBVIOUS
    <3>2. S \subseteq DOMAIN plan BY <2>1, <3>1 DEF Gaps
    <3>3. Gaps(plan) = {} => S = {} BY <2>1, <3>1
    <3>4. Cardinality(S) \in Nat BY <3>2, <1>1, FS_Subset, FS_CardinalityType
    <3> QED BY <3>1, <3>3, <3>4, FS_EmptySet
  <2>3. GapPoints(plan) = 20 * Cardinality(G["destructive"]) + 10 * Cardinality(G["high"])
                              + 5 * Cardinality(G["medium"]) + 2 * Cardinality(G["low"])
        BY <2>1 DEF GapPoints
  <2>4. PICK d \in Nat, h \in Nat, m \in Nat, l \in Nat :
           /\ d = Cardinality(G["destructive"]) /\ h = Cardinality(G["high"])
           /\ m = Cardinality(G["medium"]) /\ l = Cardinality(G["low"])
        BY <2>2
  <2>5. Gaps(plan) = {} => d = 0 /\ h = 0 /\ m = 0 /\ l = 0 BY <2>2, <2>4
  <2>6. GapPoints(plan) = 20 * d + 10 * h + 5 * m + 2 * l BY <2>3, <2>4
  <2> QED BY <2>5, <2>6
<1>3. /\ IssuePoints(Issues(plan)) \in Nat
      /\ Issues(plan) = {} => IssuePoints(Issues(plan)) = 0
  <2>1. PICK I : I = Issues(plan) OBVIOUS
  <2>2. PICK G : G = [severity \in {"critical", "error", "warning"} |->
                         {f \in I : f.issue.severity = severity}]
        OBVIOUS
  <2>3. ASSUME NEW severity \in {"critical", "error", "warning"}
        PROVE  /\ Cardinality(G[severity]) \in Nat
               /\ I = {} => Cardinality(G[severity]) = 0
    <3>1. PICK S : S = G[severity] OBVIOUS
    <3>2. S \subseteq I BY <2>2, <3>1
    <3>3. I = {} => S = {} BY <3>2
    <3>4. Cardinality(S) \in Nat BY <2>1, <3>2, <1>1, FS_Subset, FS_CardinalityType
    <3> QED BY <3>1, <3>3, <3>4, FS_EmptySet
  <2>4. IssuePoints(I) = 15 * Cardinality(G["critical"]) + 8 * Cardinality(G["error"])
                              + 3 * Cardinality(G["warning"])
        BY <2>2 DEF IssuePoints
  <2>5. PICK c \in Nat, e \in Nat, w \in Nat :
           /\ c = Cardinality(G["critical"]) /\ e = Cardinality(G["error"])
           /\ w = Cardinality(G["warning"])
        BY <2>3
  <2>6. I = {} => c = 0 /\ e = 0 /\ w = 0 BY <2>3, <2>5
  <2>7. IssuePoints(I) = 15 * c + 8 * e + 3 * w BY <2>4, <2>5
  <2> QED BY <2>1, <2>6, <2>7
<1>4. PICK b : b = Bonus(Coverage(plan)) OBVIOUS
<1>5. b \in Nat /\ (Gaps(plan) = {} => b = 15)
  <2>1. PICK e \in Int, h \in Int, d \in Int :
           /\ e = Coverage(plan).effects /\ h = Coverage(plan).high /\ d = Coverage(plan).destructive
           /\ Gaps(plan) = {} => e = 100 /\ h = 100 /\ d = 100
        BY CoverageIsOfGaps
  <2>2. b = (IF e >= 90 THEN 5 ELSE 0) + (IF h >= 100 THEN 5 ELSE 0) + (IF d >= 100 THEN 5 ELSE 0)
        BY <1>4, <2>1 DEF Bonus
  <2> QED BY <2>1, <2>2
<1> QED BY <1>2, <1>3, <1>4, <1>5

\* A plan with nothing to complain about bears no risk.
LEMMA FaultlessIsRiskless ==
    ASSUME CheckTypeOK, NEW plan \in Seq(PlanSteps), IsValid(Issues(plan), TRUE)
    PROVE  RiskScore(plan) = 0
<1>1. Gaps(plan) = {} /\ IsValid(Issues(plan), FALSE) BY ValidPlans
<1>2. Coverage(plan).effects = 100 /\ Coverage(plan).high = 100 /\ Coverage(plan).destructive = 100
      BY <1>1, CoverageIsOfGaps
<1>3. PICK poor : poor = {k \in Compensated(plan) : ~plan[k].comp.undoes \/ ~plan[k].comp.key} OBVIOUS
<1>4. poor = {} BY <1>1, <1>3, ValidPlans DEF Compensated
<1>5. PICK quality : quality = IF Compensated(plan) = {} THEN 0
                               ELSE (100 * Cardinality(poor)) \div Cardinality(Compensated(plan))
      OBVIOUS
<1>6. quality = 0
  <2>1. CASE Compensated(plan) = {} BY <2>1, <1>5
  <2>2. CASE Compensated(plan) # {}
    <3>1. PICK S : S = Compensated(plan) OBVIOUS
    <3>2. IsFiniteSet(S) BY <3>1, IssuesAreFinite, FS_Subset DEF Compensated
    <3>3. PICK n \in Nat : n = Cardinality(S) BY <3>2, FS_CardinalityType
    <3>4. n # 0 BY <2>2, <3>1, <3>2, <3>3, FS_EmptySet
    <3>5. Cardinality(poor) = 0 BY <1>4, FS_EmptySet
    <3>6. quality = 0 \div n BY <1>5, <2>2, <3>1, <3>3, <3>5
    <3> QED BY <3>4, <3>6
  <2> QED BY <2>1, <2>2
<1>7. RiskScore(plan) = 25 * (100 - Coverage(plan).effects) + 30 * (100 - Coverage(plan).high)
                            + 30 * (100 - Coverage(plan).destructive) + 15 * quality
      BY <1>3, <1>5 DEF RiskScore
<1> QED BY <1>2, <1>6, <1>7

LEMMA CheckersFollow == CheckTypeOK => CheckersAgree
<1> SUFFICES ASSUME CheckTypeOK PROVE CheckersAgree OBVIOUS
<1>1. PICK plan \in Seq(PlanSteps) : plan = checkedPlan BY DEF CheckTypeOK
<1>2. IsValid(Issues(plan), strict) =>
         \A k \in DOMAIN plan :
            /\ HighRisk(plan[k]) => Has(plan[k])
            /\ Has(plan[k]) => plan[k].comp.undoes /\ plan[k].comp.key
  <2>1. strict \in BOOLEAN BY DEF CheckTypeOK
  <2>2. IsValid(Issues(plan), strict) => IsValid(Issues(plan), FALSE)
    <3>1. CASE strict = TRUE BY <3>1, ValidPlans
    <3>2. CASE strict = FALSE BY <3>2
    <3> QED BY <2>1, <3>1, <3>2
  <2> QED BY <2>2, ValidPlans
<1>3. /\ IsValid(Issues(plan), TRUE) => Gaps(plan) = {} /\ EffectsHaveCompensation(plan)
      /\ IsValid(Issues(plan), TRUE) => IsValid(Issues(plan), FALSE)
  <2>1. Gaps(plan) = {} => EffectsHaveCompensation(plan)
        BY DEF Gaps, EffectsHaveCompensation, NeedsCompensation
  <2> QED BY <2>1, ValidPlans
<1>4. AllFeasible(plan) => EffectsHaveCompensation(plan)
  <2> SUFFICES ASSUME AllFeasible(plan), NEW k \in DOMAIN plan, plan[k].sideEffect, ~Has(plan[k])
               PROVE FALSE
      BY DEF EffectsHaveCompensation
  <2>1. Failure(plan[k]) = "NO_COMPENSATION_DEFINED" BY DEF Failure
  <2>2. Failure(plan[k]) = "none" BY DEF AllFeasible
  <2> QED BY <2>1, <2>2
<1>5. OverallRisk(plan) = "low" => \A k \in Gaps(plan) : ~HighRisk(plan[k])
  <2> SUFFICES ASSUME OverallRisk(plan) = "low" PROVE \A k \in Gaps(plan) : ~HighRisk(plan[k]) OBVIOUS
  <2>1. PICK h \in Int : h = Coverage(plan).high BY CoverageIsOfGaps
  <2>2. ~(h < 100) BY <2>1 DEF OverallRisk
  <2> QED BY <2>1, <2>2, CoverageIsOfGaps
<1>6. Gaps(plan) = {} => Coverage(plan) = [effects |-> 100, high |-> 100, destructive |-> 100]
      BY CoverageIsOfGaps
<1>7. /\ Score(plan) \in 0 .. 100
      /\ (IsValid(Issues(plan), TRUE) /\ plan # <<>>) => Score(plan) = 100 /\ RiskScore(plan) = 0
  <2>1. PICK g \in Nat, i \in Nat, b \in Nat :
           /\ g = GapPoints(plan) /\ i = IssuePoints(Issues(plan)) /\ b = Bonus(Coverage(plan))
           /\ Gaps(plan) = {} => g = 0 /\ b = 15
           /\ Issues(plan) = {} => i = 0
        BY PointsAreWhole
  <2>2. PICK raw \in Int : raw = 100 - g - i + b OBVIOUS
  <2>3. Score(plan) = Max({0, Min({100, raw})}) BY <2>1, <2>2 DEF Score
  <2>4. Score(plan) \in 0 .. 100 /\ (raw >= 100 => Score(plan) = 100) BY <2>3, ScoresAreClamped
  <2>5. IsValid(Issues(plan), TRUE) => Gaps(plan) = {} /\ Issues(plan) = {} BY ValidPlans
  <2>6. IsValid(Issues(plan), TRUE) => raw = 115 BY <2>1, <2>2, <2>5
  <2>7. IsValid(Issues(plan), TRUE) => Score(plan) = 100 BY <2>4, <2>6
  <2> QED BY <2>4, <2>7, FaultlessIsRiskless
<1> QED BY <1>1, <1>2, <1>3, <1>4, <1>5, <1>6, <1>7 DEF CheckersAgree

LEMMA CheckInitially == CheckInit => CheckTypeOK
<1> SUFFICES ASSUME CheckInit PROVE CheckTypeOK OBVIOUS
<1>1. checkedPlan \in Seq(PlanSteps)
  <2>1. checkedPlan \in UNION {[1 .. m -> PlanSteps] : m \in 0 .. MaxPlanSteps}
        BY DEF CheckInit, BoundedSeq, SeqOf
  <2>2. PICK m \in 0 .. MaxPlanSteps : checkedPlan \in [1 .. m -> PlanSteps] BY <2>1
  <2>3. m \in Nat BY <2>2
  <2> QED BY <2>2, <2>3
<1>2. rules \in Seq({"warning", "error"}) BY DEF CheckInit
<1> QED BY <1>1, <1>2 DEF CheckTypeOK, CheckInit

LEMMA CheckStep == CheckTypeOK /\ [CheckNext]_checkVars => CheckTypeOK'
<1> SUFFICES ASSUME CheckTypeOK, [CheckNext]_checkVars PROVE CheckTypeOK' OBVIOUS
<1>1. CASE UpdateConfig BY <1>1 DEF CheckTypeOK, UpdateConfig
<1>2. CASE AddRule
  <2>1. PICK severity \in {"warning", "error"} : rules' = Append(rules, severity) BY <1>2 DEF AddRule
  <2>2. rules' \in Seq({"warning", "error"}) BY <2>1 DEF CheckTypeOK
  <2> QED BY <1>2, <2>2 DEF CheckTypeOK, AddRule
<1>3. CASE LoadPairs BY <1>3 DEF CheckTypeOK, LoadPairs
<1>4. CASE UNCHANGED checkVars BY <1>4 DEF CheckTypeOK, checkVars
<1> QED BY <1>1, <1>2, <1>3, <1>4 DEF CheckNext

LEMMA CheckTypes == CheckSpec => []CheckTypeOK
BY CheckInitially, CheckStep, PTL DEF CheckSpec

\* The verifier and the validator of compensations never contradict each other where they
\* ask the same of a plan, whatever the plan, the rules and the mode (CompensationVerifier,
\* CompensationFeasibilityValidator, validatePlan).
THEOREM CheckersNeverDisagree == CheckSpec => []CheckersAgree
BY CheckersFollow, CheckTypes, PTL

\* A validator that is made less strict passes what it passed before, and one that is strict
\* passes no compensation before its pairs are loaded (verifySemantics).
THEOREM StrictnessOnlyTakesAway == CheckSpec => StrictnessTakesAway
<1>1. ASSUME UpdateConfig, strict, NEW k \in DOMAIN checkedPlan
      PROVE  /\ Failure(checkedPlan[k]) = "none" => Failure(checkedPlan[k])' = "none"
             /\ ~pairsLoaded /\ Has(checkedPlan[k]) => Failure(checkedPlan[k]) # "none"
  <2>1. PICK step : step = checkedPlan[k] OBVIOUS
  <2>2. checkedPlan' = checkedPlan /\ strict' = FALSE /\ pairsLoaded' = pairsLoaded
        BY <1>1 DEF UpdateConfig
  <2>3. Failure(step) = "none" => Failure(step)' = "none"
    <3> SUFFICES ASSUME Failure(step) = "none" PROVE Failure(step)' = "none" OBVIOUS
    <3>1. CASE ~Has(step)
      <4>1. ~step.sideEffect BY <3>1 DEF Failure
      <4> QED BY <3>1, <4>1, <2>2 DEF Failure
    <3>2. CASE Has(step)
      <4>1. SemanticsVerified(step.comp) /\ step.comp.sameIds BY <3>2, <1>1 DEF Failure
      <4>2. step.comp.permitted /\ step.comp.runs BY <3>2, <4>1 DEF Failure
      <4> QED BY <3>2, <4>2, <2>2 DEF Failure
    <3> QED BY <3>1, <3>2
  <2>4. ~pairsLoaded /\ Has(step) => Failure(step) # "none"
    <3> SUFFICES ASSUME ~pairsLoaded, Has(step) PROVE Failure(step) = "SEMANTIC_MISMATCH" OBVIOUS
    <3>1. ~SemanticsVerified(step.comp) BY <1>1 DEF SemanticsVerified
    <3> QED BY <3>1, <1>1 DEF Failure
  <2>5. checkedPlan[k]' = step BY <2>1, <2>2
  <2> QED BY <2>1, <2>3, <2>4, <2>5
<1>2. ASSUME UpdateConfig /\ strict
      PROVE  \A k \in DOMAIN checkedPlan :
                /\ Failure(checkedPlan[k]) = "none" => Failure(checkedPlan[k])' = "none"
                /\ ~pairsLoaded /\ Has(checkedPlan[k]) => Failure(checkedPlan[k]) # "none"
      BY <1>1, <1>2
<1> QED BY <1>2, PTL DEF StrictnessTakesAway

\* Both, whatever the plan, its rules and the configuration.
THEOREM CompensationsStayChecked == CheckSpec => CompensationsAreChecked
BY CheckersNeverDisagree, StrictnessOnlyTakesAway, PTL DEF CompensationsAreChecked

-----------------------------------------------------------------------------
(***************************************************************************)
(* The scores of risk.                                                     *)
(***************************************************************************)

\* f picks out the actions of one user, as Of does.
IsTheirs(f, h, user, A) ==
    /\ \A m \in 0 .. Len(h) : f[m] \in Seq(A)
    /\ f[0] = <<>>
    /\ \A m \in 1 .. Len(h) :
          f[m] = IF h[m].user = user THEN Append(f[m - 1], h[m]) ELSE f[m - 1]

\* What Of builds up, element after element.
LEMMA TheirsIs ==
    ASSUME NEW A, NEW h \in Seq(A), NEW user
    PROVE  \E f : IsTheirs(f, h, user, A) /\ Of(h, user) = f[Len(h)]
<1>1. PICK n \in Nat : n = Len(h) OBVIOUS
<1>2. PICK V : V = Seq(A) OBVIOUS
<1>3. \A k \in 1 .. n : h[k] \in A BY <1>1
<1>4. <<>> \in V BY <1>2
<1> DEFINE Picked(s, k) == IF h[k].user = user THEN Append(s, h[k]) ELSE s
<1>5. PICK step : step = [x \in (1 .. n) \X V |-> Picked(x[2], x[1])] OBVIOUS
<1>6. ASSUME NEW k \in 1 .. n, NEW s \in V PROVE step[<<k, s>>] = Picked(s, k) /\ Picked(s, k) \in V
  <2>1. <<k, s>> \in (1 .. n) \X V OBVIOUS
  <2>2. step[<<k, s>>] = Picked(s, k) BY <2>1, <1>5
  <2>3. Append(s, h[k]) \in Seq(A) BY <1>2, <1>3
  <2> QED BY <2>2, <2>3, <1>2
<1>7. PICK f : StepsFrom(f, n, V, <<>>, step)
  <2>1. \A k \in 1 .. n : \A s \in V : step[<<k, s>>] \in V BY <1>6
  <2> QED BY <2>1, <1>4, StepsExist
<1>8. f \in [0 .. n -> V] /\ f[0] = <<>> BY <1>7 DEF StepsFrom
<1>9. ASSUME NEW k \in 1 .. n PROVE f[k] = Picked(f[k - 1], k)
  <2>1. k - 1 \in 0 .. n OBVIOUS
  <2>2. f[k - 1] \in V BY <2>1, <1>8
  <2>3. f[k] = step[<<k, f[k - 1]>>] BY <1>7 DEF StepsFrom
  <2> QED BY <2>2, <2>3, <1>6
<1> DEFINE Onward(g, k) == IF k = 0 THEN <<>>
                           ELSE IF h[k].user = user THEN Append(g[k - 1], h[k])
                           ELSE g[k - 1]
<1>10. f = [k \in 0 .. n |-> Onward(f, k)]
  <2>1. ASSUME NEW k \in 0 .. n PROVE f[k] = Onward(f, k)
    <3>1. CASE k = 0 BY <3>1, <1>8
    <3>2. CASE k # 0
      <4>1. k \in 1 .. n BY <3>2
      <4> QED BY <4>1, <3>2, <1>9
    <3> QED BY <3>1, <3>2
  <2> HIDE DEF Onward
  <2> QED BY <2>1, <1>8
<1>11. PICK g : g = CHOOSE j : j = [k \in 0 .. n |-> Onward(j, k)] OBVIOUS
<1>12. g = [k \in 0 .. n |-> Onward(g, k)]
  <2> HIDE DEF Onward
  <2> QED BY <1>10, <1>11
<1>13. Of(h, user) = g[n] BY <1>1, <1>11 DEF Of
<1>14. g[0] = <<>>
  <2>1. 0 \in 0 .. n OBVIOUS
  <2> QED BY <2>1, <1>12
<1>15. ASSUME NEW k \in 1 .. n PROVE g[k] = Picked(g[k - 1], k)
  <2>1. k \in 0 .. n /\ k # 0 OBVIOUS
  <2> QED BY <2>1, <1>12
<1> DEFINE Z == {m \in Nat : m <= n => g[m] \in V}
<1>16. 0 \in Z BY <1>4, <1>14
<1>17. ASSUME NEW m \in Nat, m \in Z PROVE m + 1 \in Z
  <2> SUFFICES ASSUME m + 1 <= n PROVE g[m + 1] \in V OBVIOUS
  <2>1. m + 1 \in 1 .. n /\ (m + 1) - 1 = m OBVIOUS
  <2>2. g[m] \in V BY <1>17
  <2> HIDE DEF Picked
  <2>3. g[m + 1] = Picked(g[m], m + 1) BY <2>1, <1>15
  <2> QED BY <2>1, <2>2, <2>3, <1>6
<1> HIDE DEF Z
<1>18. Nat \subseteq Z BY <1>16, <1>17, FromZeroOn
<1>19. \A m \in 0 .. n : g[m] \in Seq(A) BY <1>18, <1>2 DEF Z
<1>20. IsTheirs(g, h, user, A) BY <1>1, <1>14, <1>15, <1>19 DEF IsTheirs
<1> QED BY <1>1, <1>13, <1>20

\* An action of somebody else may as well not be there.
LEMMA OthersDoNotMatter ==
    ASSUME NEW A, NEW h \in Seq(A), NEW user, NEW k \in 1 .. Len(h), h[k].user # user
    PROVE  Of(RemoveAt(h, k), user) = Of(h, user)
<1>1. PICK r : r = RemoveAt(h, k) OBVIOUS
<1>2. PICK n \in Nat \ {0} : n = Len(h) /\ k \in 1 .. n OBVIOUS
<1>3. r \in Seq(A) /\ Len(r) = n - 1 /\ \A i \in 1 .. n - 1 : r[i] = IF i < k THEN h[i] ELSE h[i + 1]
      BY <1>1, <1>2, OneTakenOut
<1>4. PICK f : IsTheirs(f, h, user, A) /\ Of(h, user) = f[n] BY <1>2, TheirsIs
<1>5. PICK g : IsTheirs(g, r, user, A) /\ Of(r, user) = g[n - 1] BY <1>3, TheirsIs
<1> DEFINE Z == {m \in Nat : m <= n => f[m] = g[IF m < k THEN m ELSE m - 1]}
<1>6. 0 \in Z BY <1>2, <1>4, <1>5 DEF IsTheirs
<1>7. ASSUME NEW m \in Nat, m \in Z PROVE m + 1 \in Z
  <2> SUFFICES ASSUME m + 1 <= n PROVE f[m + 1] = g[IF m + 1 < k THEN m + 1 ELSE (m + 1) - 1]
      OBVIOUS
  <2>1. f[m] = g[IF m < k THEN m ELSE m - 1] BY <1>7
  <2>2. m + 1 \in 1 .. n /\ (m + 1) - 1 = m OBVIOUS
  <2>3. f[m + 1] = IF h[m + 1].user = user THEN Append(f[m], h[m + 1]) ELSE f[m]
        BY <2>2, <1>2, <1>4 DEF IsTheirs
  <2>4. CASE m + 1 = k
    <3>1. f[m + 1] = f[m] BY <2>3, <2>4
    <3> QED BY <3>1, <2>1, <2>2, <2>4
  <2>5. CASE m + 1 < k
    <3>1. m + 1 \in 1 .. n - 1 /\ r[m + 1] = h[m + 1] BY <2>5, <1>2, <1>3
    <3>2. g[m + 1] = IF r[m + 1].user = user THEN Append(g[m], r[m + 1]) ELSE g[m]
          BY <3>1, <2>2, <1>3, <1>5 DEF IsTheirs
    <3> QED BY <3>1, <3>2, <2>1, <2>3, <2>5
  <2>6. CASE m + 1 > k
    <3>1. m \in 1 .. n - 1 /\ ~(m < k) /\ ~(m + 1 < k) BY <2>6, <1>2
    <3>2. r[m] = h[m + 1] BY <3>1, <1>3
    <3>3. g[m] = IF r[m].user = user THEN Append(g[m - 1], r[m]) ELSE g[m - 1]
          BY <3>1, <1>3, <1>5 DEF IsTheirs
    <3> QED BY <3>1, <3>2, <3>3, <2>1, <2>2, <2>3
  <2> QED BY <2>4, <2>5, <2>6, <1>2
<1> HIDE DEF Z
<1>8. Nat \subseteq Z BY <1>6, <1>7, FromZeroOn
<1>9. f[n] = g[n - 1] BY <1>2, <1>8 DEF Z
<1> QED BY <1>1, <1>4, <1>5, <1>9

\* The same actions, of which at most as many succeeded.
Worse(us, ws) ==
    /\ Len(us) = Len(ws)
    /\ \A k \in 1 .. Len(us) :
          /\ us[k].user = ws[k].user /\ us[k].level = ws[k].level /\ us[k].at = ws[k].at
          /\ ws[k].success => us[k].success

\* Going on with two actions of the same kind.
LEMMA WorseTogether ==
    ASSUME NEW A, NEW s \in Seq(A), NEW t \in Seq(A), NEW a \in A, NEW b \in A, Worse(s, t),
           a.user = b.user, a.level = b.level, a.at = b.at, b.success => a.success
    PROVE  Worse(Append(s, a), Append(t, b))
<1>1. PICK m \in Nat : m = Len(s) /\ m = Len(t) BY DEF Worse
<1>2. PICK u : u = Append(s, a) OBVIOUS
<1>3. PICK v : v = Append(t, b) OBVIOUS
<1>4. Len(u) = m + 1 /\ (\A k \in 1 .. m : u[k] = s[k]) /\ u[m + 1] = a
  <2>1. /\ Len(Append(s, a)) = Len(s) + 1 /\ Append(s, a)[Len(s) + 1] = a
        /\ \A k \in 1 .. Len(s) : Append(s, a)[k] = s[k]
        BY AppendProperties
  <2> QED BY <2>1, <1>1, <1>2
<1>5. Len(v) = m + 1 /\ (\A k \in 1 .. m : v[k] = t[k]) /\ v[m + 1] = b
  <2>1. /\ Len(Append(t, b)) = Len(t) + 1 /\ Append(t, b)[Len(t) + 1] = b
        /\ \A k \in 1 .. Len(t) : Append(t, b)[k] = t[k]
        BY AppendProperties
  <2> QED BY <2>1, <1>1, <1>3
<1>6. ASSUME NEW k \in 1 .. m + 1
      PROVE  /\ u[k].user = v[k].user /\ u[k].level = v[k].level /\ u[k].at = v[k].at
             /\ v[k].success => u[k].success
  <2>1. CASE k = m + 1 BY <2>1, <1>4, <1>5
  <2>2. CASE k # m + 1
    <3>1. k \in 1 .. m BY <2>2
    <3> QED BY <3>1, <1>1, <1>4, <1>5 DEF Worse
  <2> QED BY <2>1, <2>2
<1> QED BY <1>2, <1>3, <1>4, <1>5, <1>6 DEF Worse

\* What is worse of everybody is worse of each.
LEMMA WorseOfOne ==
    ASSUME NEW A, NEW h \in Seq(A), NEW w \in Seq(A), Worse(h, w), NEW user
    PROVE  /\ Worse(Of(h, user), Of(w, user))
           /\ Of(h, user) \in Seq(A) /\ Of(w, user) \in Seq(A)
<1>1. PICK n \in Nat : n = Len(h) /\ n = Len(w) BY DEF Worse
<1>2. PICK f : IsTheirs(f, h, user, A) /\ Of(h, user) = f[n]
  <2>1. \E f : IsTheirs(f, h, user, A) /\ Of(h, user) = f[Len(h)] BY TheirsIs
  <2> QED BY <2>1, <1>1
<1>3. PICK g : IsTheirs(g, w, user, A) /\ Of(w, user) = g[n] BY <1>1, TheirsIs
<1> DEFINE Z == {m \in Nat : m <= n => Worse(f[m], g[m])}
<1>4. 0 \in Z
  <2>1. f[0] = <<>> /\ g[0] = <<>> BY <1>2, <1>3 DEF IsTheirs
  <2>2. Worse(<<>>, <<>>) BY DEF Worse
  <2> QED BY <2>1, <2>2
<1>5. ASSUME NEW m \in Nat, m \in Z PROVE m + 1 \in Z
  <2> SUFFICES ASSUME m + 1 <= n PROVE Worse(f[m + 1], g[m + 1]) OBVIOUS
  <2>1. m + 1 \in 1 .. n /\ (m + 1) - 1 = m /\ m \in 0 .. n OBVIOUS
  <2>2. Worse(f[m], g[m]) BY <1>5, <2>1
  <2>3. f[m + 1] = IF h[m + 1].user = user THEN Append(f[m], h[m + 1]) ELSE f[m]
        BY <2>1, <1>1, <1>2 DEF IsTheirs
  <2>4. g[m + 1] = IF w[m + 1].user = user THEN Append(g[m], w[m + 1]) ELSE g[m]
        BY <2>1, <1>1, <1>3 DEF IsTheirs
  <2>5. f[m] \in Seq(A) /\ g[m] \in Seq(A) BY <2>1, <1>1, <1>2, <1>3 DEF IsTheirs
  <2>6. PICK a \in A, b \in A : a = h[m + 1] /\ b = w[m + 1]
    <3>1. h[m + 1] \in A BY <2>1, <1>1, ElementOfSeq
    <3>2. w[m + 1] \in A BY <2>1, <1>1, ElementOfSeq
    <3> QED BY <3>1, <3>2
  <2>7. a.user = b.user /\ a.level = b.level /\ a.at = b.at /\ (b.success => a.success)
        BY <2>1, <2>6, <1>1 DEF Worse
  <2>8. Worse(Append(f[m], a), Append(g[m], b)) BY <2>2, <2>5, <2>7, WorseTogether
  <2> QED BY <2>2, <2>3, <2>4, <2>6, <2>7, <2>8
<1> HIDE DEF Z
<1>6. Nat \subseteq Z BY <1>4, <1>5, FromZeroOn
<1>7. Worse(f[n], g[n]) BY <1>6 DEF Z
<1>8. f[n] \in Seq(A) /\ g[n] \in Seq(A) BY <1>1, <1>2, <1>3 DEF IsTheirs
<1> QED BY <1>2, <1>3, <1>7, <1>8

\* What may be scored, and an action on record.
Things ==
    [kind : {"intent", "plan", "step"}, action : {e.action : e \in Scored},
     verb : 0 .. 100, sensitivity : 0 .. 100, count : Nat, effects : Nat, compensated : Nat,
     depth : Nat, destructive : Nat, risk : {"low", "medium", "high", "destructive"},
     caps : SUBSET (0 .. 100), approval : BOOLEAN]

ScoredActions ==
    [user : ScorerUsers, action : {e.action : e \in Scored} \cup {"unknown"},
     level : {"low", "medium", "high", "destructive"}, at : Nat, success : BOOLEAN]

Environments == {"development", "staging", "production"}

\* What is read of the thing itself is a number.
LEMMA FactorsAreNumbers ==
    ASSUME NEW e \in Things, e.kind = "plan" => e.count > 0
    PROVE  /\ ActionRisk(e) \in Int /\ DataRisk(e) \in Int /\ CountRisk(e) \in Int
           /\ BlastRisk(e) \in Int /\ Irreversible(e) \in Int /\ CapabilityRisk(e) \in Int
<1>1. /\ e.kind \in {"intent", "plan", "step"} /\ e.verb \in Int /\ e.sensitivity \in Int
      /\ e.count \in Nat /\ e.effects \in Nat /\ e.compensated \in Nat
      /\ e.depth \in Nat /\ e.destructive \in Nat /\ e.caps \in SUBSET (0 .. 100)
      BY DEF Things
<1>2. ActionRisk(e) \in Int BY <1>1 DEF ActionRisk, AtLeast
<1>3. DataRisk(e) \in Int BY <1>1 DEF DataRisk
<1>4. CountRisk(e) \in Int BY DEF CountRisk
<1>5. BlastRisk(e) \in Int
  <2>1. CASE e.kind = "plan"
    <3>1. PICK q \in Int : q = (50 * e.effects) \div e.count BY <2>1, <1>1
    <3>2. BlastRisk(e) = AtMost(100, 10 * e.depth + 20 * e.destructive + q)
          BY <2>1, <3>1 DEF BlastRisk
    <3>3. 10 * e.depth + 20 * e.destructive + q \in Int BY <1>1
    <3> QED BY <3>2, <3>3 DEF AtMost
  <2>2. CASE e.kind = "step" BY <2>2 DEF BlastRisk, RiskOf
  <2>3. CASE e.kind = "intent" BY <2>3 DEF BlastRisk, RiskOf
  <2> QED BY <2>1, <2>2, <2>3, <1>1
<1>6. Irreversible(e) \in Int
  <2>1. CASE e.effects = 0 BY <2>1 DEF Irreversible
  <2>2. CASE e.effects # 0 /\ e.kind = "plan"
    <3>1. PICK q \in Int : q = (80 * e.compensated) \div e.effects BY <2>2, <1>1
    <3>2. Irreversible(e) = 100 - q BY <2>2, <3>1 DEF Irreversible
    <3> QED BY <3>2
  <2>3. CASE e.effects # 0 /\ e.kind # "plan" BY <2>3 DEF Irreversible
  <2> QED BY <2>1, <2>2, <2>3
<1>7. CapabilityRisk(e) \in Int
  <2>1. CASE e.caps = {} BY <2>1 DEF CapabilityRisk
  <2>2. CASE e.caps # {}
    <3>1. Max(e.caps) \in e.caps BY <2>2, <1>1, GreatestOf
    <3> QED BY <2>2, <3>1, <1>1 DEF CapabilityRisk
  <2> QED BY <2>1, <2>2
<1> QED BY <1>2, <1>3, <1>4, <1>5, <1>6, <1>7

\* So is what is read of the actions on record, of which the fewer succeed the worse.
LEMMA SuccessesAre ==
    ASSUME NEW A, NEW us \in Seq(A)
    PROVE  Successes(us) \in 0 .. Len(us)
<1>1. PICK n \in Nat : n = Len(us) OBVIOUS
<1>2. PICK S : S = {k \in DOMAIN us : us[k].success} OBVIOUS
<1>3. S \subseteq 1 .. n BY <1>1, <1>2
<1>4. IsFiniteSet(1 .. n) /\ Cardinality(1 .. n) = n
  <2>1. Cardinality(1 .. n) = IF 1 > n THEN 0 ELSE n - 1 + 1 BY FS_Interval
  <2> QED BY <2>1, FS_Interval
<1>5. Cardinality(S) <= n /\ IsFiniteSet(S) BY <1>3, <1>4, FS_Subset
<1>6. Cardinality(S) \in Nat BY <1>5, FS_CardinalityType
<1> QED BY <1>1, <1>2, <1>5, <1>6 DEF Successes

\* Of what is worse, fewer succeeded.
LEMMA FewerSucceed ==
    ASSUME NEW A, NEW us \in Seq(A), NEW ws \in Seq(A), Worse(us, ws)
    PROVE  Successes(ws) <= Successes(us)
<1>1. PICK n \in Nat : n = Len(us) /\ n = Len(ws) BY DEF Worse
<1>2. PICK S : S = {k \in DOMAIN us : us[k].success} OBVIOUS
<1>3. PICK T : T = {k \in DOMAIN ws : ws[k].success} OBVIOUS
<1>4. DOMAIN us = 1 .. n /\ DOMAIN ws = 1 .. n
  <2>1. DOMAIN us = 1 .. Len(us) OBVIOUS
  <2>2. DOMAIN ws = 1 .. Len(ws) OBVIOUS
  <2> QED BY <2>1, <2>2, <1>1
<1>5. T \subseteq S
  <2>1. ASSUME NEW k \in T PROVE k \in S
    <3>1. k \in 1 .. n /\ ws[k].success BY <1>3, <1>4
    <3>2. us[k].success BY <3>1, <1>1 DEF Worse
    <3> QED BY <3>1, <3>2, <1>2, <1>4
  <2> QED BY <2>1
<1>6. IsFiniteSet(S)
  <2>1. IsFiniteSet(1 .. n) BY FS_Interval
  <2> QED BY <2>1, <1>2, <1>4, FS_Subset
<1>7. Cardinality(T) <= Cardinality(S) BY <1>5, <1>6, FS_Subset
<1> QED BY <1>2, <1>3, <1>7 DEF Successes

\* Shares of more are not less, rounded as they are.
LEMMA SharesAscend ==
    ASSUME NEW a \in Nat, NEW b \in Nat, NEW n \in Nat \ {0}, a <= b
    PROVE  a \div n \in Int /\ b \div n \in Int /\ a \div n <= b \div n
<1>1. PICK p \in Nat : p = a \div n /\ n * p <= a /\ a < n * p + n BY RoundedDown
<1>2. PICK q \in Nat : q = b \div n /\ n * q <= b /\ b < n * q + n BY RoundedDown
<1>3. ASSUME p > q PROVE FALSE
  <2>1. p - (q + 1) \in Nat BY <1>3
  <2>2. n * (p - (q + 1)) >= 0 BY <2>1
  <2>3. n * (p - (q + 1)) = n * p - n * q - n OBVIOUS
  <2>4. n * p \in Int /\ n * q \in Int OBVIOUS
  <2> QED BY <2>2, <2>3, <2>4, <1>1, <1>2
<1> QED BY <1>1, <1>2, <1>3

\* Points for the past, of a trend and of an anomaly whatever they are.
LEMMA PastIsANumber ==
    ASSUME NEW A, NEW us \in Seq(A), NEW ws \in Seq(A), Worse(us, ws)
    PROVE  /\ HistoryRisk(us) \in Int /\ HistoryRisk(ws) \in Int
           /\ HistoryRisk(us) <= HistoryRisk(ws)
<1>1. PICK n \in Nat : n = Len(us) /\ n = Len(ws) BY DEF Worse
<1>2. CASE n = 0
  <2>1. us = <<>> /\ ws = <<>> BY <1>1, <1>2, EmptySeq
  <2> QED BY <2>1 DEF HistoryRisk
<1>3. CASE n # 0
  <2>1. us # <<>> /\ ws # <<>> BY <1>1, <1>3
  <2>2. PICK levels : levels = Levels(us) OBVIOUS
  <2>3. Levels(ws) = levels
    <3>1. DOMAIN us = 1 .. n /\ DOMAIN ws = 1 .. n
      <4>1. DOMAIN us = 1 .. Len(us) OBVIOUS
      <4>2. DOMAIN ws = 1 .. Len(ws) OBVIOUS
      <4> QED BY <4>1, <4>2, <1>1
    <3>2. \A k \in 1 .. n : us[k].level = ws[k].level BY <1>1 DEF Worse
    <3> QED BY <3>1, <3>2, <2>2 DEF Levels
  <2>4. PICK c \in Int : c = 30 + TrendPoints(levels) + (IF Anomalous(levels) THEN 60 ELSE 0)
    <3>1. TrendPoints(levels) \in {20, -10, 0} BY DEF TrendPoints
    <3>2. TrendPoints(levels) \in Int BY <3>1
    <3>3. (IF Anomalous(levels) THEN 60 ELSE 0) \in Int OBVIOUS
    <3> QED BY <3>2, <3>3
  <2>5. PICK s \in 0 .. n : s = Successes(us) BY <1>1, SuccessesAre
  <2>6. PICK t \in 0 .. n : t = Successes(ws) BY <1>1, SuccessesAre
  <2>7. t <= s BY <2>5, <2>6, FewerSucceed
  <2>8. 30 * (n - s) \in Nat /\ 30 * (n - t) \in Nat /\ 30 * (n - s) <= 30 * (n - t) BY <2>7
  <2>9. PICK p \in Int, q \in Int : /\ p = (30 * (n - s)) \div n /\ q = (30 * (n - t)) \div n
                                    /\ p <= q
        BY <2>8, <1>3, SharesAscend
  <2>10. HistoryRisk(us) = AtMost(100, c + p)
         BY <2>1, <2>2, <2>4, <2>5, <2>9, <1>1 DEF HistoryRisk
  <2>11. HistoryRisk(ws) = AtMost(100, c + q)
         BY <2>1, <2>3, <2>4, <2>6, <2>9, <1>1 DEF HistoryRisk
  <2> QED BY <2>9, <2>10, <2>11 DEF AtMost
<1> QED BY <1>2, <1>3

\* Trust is lost with success.
LEMMA TrustIsANumber ==
    ASSUME NEW user, NEW roles, NEW A, NEW h \in Seq(A), NEW w \in Seq(A), Worse(h, w)
    PROVE  /\ Trust(user, roles, h) \in Int /\ Trust(user, roles, w) \in Int
           /\ Trust(user, roles, h) <= Trust(user, roles, w)
<1>1. PICK us \in Seq(A), ws \in Seq(A) : us = Of(h, user) /\ ws = Of(w, user) /\ Worse(us, ws)
      BY WorseOfOne
<1>2. PICK n \in Nat : n = Len(us) /\ n = Len(ws) BY <1>1 DEF Worse
<1>3. PICK s \in 0 .. n : s = Successes(us) BY <1>2, SuccessesAre
<1>4. PICK t \in 0 .. n : t = Successes(ws) BY <1>2, SuccessesAre
<1>5. t <= s BY <1>3, <1>4, <1>1, FewerSucceed
<1>6. PICK base :
          base = IF roles \cap {"system", "admin"} # {} THEN 20
                 ELSE IF roles \cap {"operator", "developer"} # {} THEN 40
                 ELSE IF "user" \in roles THEN 60
                 ELSE IF roles = {} \/ "guest" \in roles THEN 80 ELSE 50
      OBVIOUS
<1>7. base \in Int /\ base >= 20 /\ base <= 80
  <2>1. base \in {20, 40, 50, 60, 80} BY <1>6
  <2> QED BY <2>1
<1> DEFINE Judged(x) == CASE 100 * x > 95 * n /\ n > TrustAfter -> AtLeast(10, base - 20)
                          [] 100 * x < 70 * n /\ n > DoubtAfter -> AtMost(100, base + 20)
                          [] OTHER -> base
<1>8. Trust(user, roles, h) = Judged(s) BY <1>1, <1>2, <1>3, <1>6 DEF Trust
<1>9. Trust(user, roles, w) = Judged(t) BY <1>1, <1>2, <1>4, <1>6 DEF Trust
<1>10. TrustAfter \in Nat /\ DoubtAfter \in Nat BY ScorerAssumption
<1>11. AtLeast(10, base - 20) \in Int /\ AtLeast(10, base - 20) <= base BY <1>7 DEF AtLeast
<1>12. AtMost(100, base + 20) \in Int /\ base <= AtMost(100, base + 20) BY <1>7 DEF AtMost
<1>13. PICK low \in Int, high \in Int : low = AtLeast(10, base - 20) /\ high = AtMost(100, base + 20)
       BY <1>11, <1>12
<1>14. low <= base /\ base <= high BY <1>11, <1>12, <1>13
<1>15. ASSUME NEW x \in 0 .. n
       PROVE  /\ 100 * x > 95 * n /\ n > TrustAfter => Judged(x) = low
              /\ 100 * x < 70 * n /\ n > DoubtAfter => Judged(x) = high
              /\ ~(100 * x > 95 * n /\ n > TrustAfter) /\ ~(100 * x < 70 * n /\ n > DoubtAfter)
                    => Judged(x) = base
  <2>1. ~(100 * x > 95 * n /\ 100 * x < 70 * n) OBVIOUS
  <2>2. Judged(x) = CASE 100 * x > 95 * n /\ n > TrustAfter -> low
                      [] 100 * x < 70 * n /\ n > DoubtAfter -> high
                      [] OTHER -> base
        BY <1>13
  <2> HIDE DEF Judged
  <2> QED BY <2>1, <2>2
<1> HIDE DEF Judged
<1>16. Judged(s) \in {low, base, high} /\ Judged(t) \in {low, base, high} BY <1>15
<1>17. Judged(s) <= Judged(t)
  <2>1. 100 * t > 95 * n => 100 * s > 95 * n BY <1>5
  <2>2. 100 * s < 70 * n => 100 * t < 70 * n BY <1>5
  <2>3. CASE 100 * s > 95 * n /\ n > TrustAfter
    <3>1. Judged(s) = low BY <2>3, <1>15
    <3>2. low <= base /\ low <= high BY <1>7, <1>13, <1>14
    <3> QED BY <3>1, <3>2, <1>16, <1>13
  <2>4. CASE 100 * t < 70 * n /\ n > DoubtAfter
    <3>1. Judged(t) = high BY <2>4, <1>15
    <3>2. base <= high /\ low <= high BY <1>7, <1>13, <1>14
    <3> QED BY <3>1, <3>2, <1>16, <1>13
  <2>5. CASE /\ ~(100 * s > 95 * n /\ n > TrustAfter)
             /\ ~(100 * t < 70 * n /\ n > DoubtAfter)
    <3>1. /\ ~(100 * t > 95 * n /\ n > TrustAfter)
          /\ ~(100 * s < 70 * n /\ n > DoubtAfter)
          BY <2>5, <2>1, <2>2
    <3>2. Judged(s) = base BY <2>5, <3>1, <1>15
    <3>3. Judged(t) = base BY <2>5, <3>1, <1>15
    <3> QED BY <3>2, <3>3, <1>7
  <2> QED BY <2>3, <2>4, <2>5
<1>18. Judged(s) \in Int /\ Judged(t) \in Int BY <1>7, <1>13, <1>16
<1> QED BY <1>8, <1>9, <1>17, <1>18

\* Adjustments look at levels and times only.
LEMMA AdjustmentsAreNumbers ==
    ASSUME NEW e, NEW call, NEW A, NEW h \in Seq(A), NEW w \in Seq(A), Worse(h, w)
    PROVE  /\ Adjustments(e, call, h) \in Int
           /\ Adjustments(e, call, h) = Adjustments(e, call, w)
<1>1. PICK us \in Seq(A), ws \in Seq(A) : /\ us = Of(h, call.user) /\ ws = Of(w, call.user)
                                          /\ Worse(us, ws)
      BY WorseOfOne
<1>2. PICK n \in Nat : n = Len(us) /\ n = Len(ws) BY <1>1 DEF Worse
<1>3. DOMAIN us = 1 .. n /\ DOMAIN ws = 1 .. n
  <2>1. DOMAIN us = 1 .. Len(us) OBVIOUS
  <2>2. DOMAIN ws = 1 .. Len(ws) OBVIOUS
  <2> QED BY <2>1, <2>2, <1>2
<1>4. PICK P : P = Previous(e, call.user, us) OBVIOUS
<1>5. Previous(e, call.user, ws) = P
  <2>1. \A k \in 1 .. n : us[k].at = ws[k].at BY <1>1, <1>2 DEF Worse
  <2> QED BY <2>1, <1>3, <1>4 DEF Previous
<1>6. PICK R : R = Risky(us, P) OBVIOUS
<1>7. Risky(ws, P) = R
  <2>1. \A k \in 1 .. n : us[k].level = ws[k].level BY <1>1, <1>2 DEF Worse
  <2>2. P \subseteq 1 .. n BY <1>3, <1>4 DEF Previous
  <2> QED BY <2>1, <2>2, <1>6 DEF Risky
<1>8. Adjustments(e, call, h) =
         (IF P = {} THEN -5 ELSE 0) + (IF Cardinality(R) >= RapidAfter THEN 15 ELSE 0)
            + (IF call.environment = "production" /\ HasDestructive(e) THEN 20 ELSE 0)
            + (IF e.kind = "intent" /\ e.risk = "high" /\ ~e.approval THEN 10 ELSE 0)
      BY <1>1, <1>4, <1>6 DEF Adjustments
<1>9. Adjustments(e, call, w) =
         (IF P = {} THEN -5 ELSE 0) + (IF Cardinality(R) >= RapidAfter THEN 15 ELSE 0)
            + (IF call.environment = "production" /\ HasDestructive(e) THEN 20 ELSE 0)
            + (IF e.kind = "intent" /\ e.risk = "high" /\ ~e.approval THEN 10 ELSE 0)
      BY <1>1, <1>5, <1>7 DEF Adjustments
<1>10. Adjustments(e, call, h) \in Int BY <1>8
<1> QED BY <1>8, <1>9, <1>10

\* Who scores: the fields of a call.
Calls == [user : ScorerUsers, roles : Roles, environment : Environments, time : Nat]

\* The limits of a score.
Clamped(x) == AtLeast(0, AtMost(10000, x))

\* Neither do the limits of a score turn two scores around.
LEMMA ClampedAscends ==
    ASSUME NEW x \in Int, NEW y \in Int, x <= y
    PROVE  Clamped(x) \in Int /\ Clamped(y) \in Int /\ Clamped(x) <= Clamped(y)
BY DEF Clamped, AtLeast, AtMost

\* A score is a clamped sum, and that of a worse record is not smaller.
LEMMA ScoresAre ==
    ASSUME NEW e \in Things, e.kind = "plan" => e.count > 0, NEW call \in Calls,
           NEW A, NEW h \in Seq(A), NEW w \in Seq(A), Worse(h, w)
    PROVE  \E x \in Int, y \in Int :
              /\ x <= y /\ ScoreOf(e, call, h) = Clamped(x) /\ ScoreOf(e, call, w) = Clamped(y)
<1>1. PICK a \in Int, b \in Int, c \in Int, d \in Int, i \in Int, k \in Int :
          /\ a = ActionRisk(e) /\ b = DataRisk(e) /\ c = CountRisk(e)
          /\ d = BlastRisk(e) /\ i = Irreversible(e) /\ k = CapabilityRisk(e)
      BY FactorsAreNumbers
<1>2. PICK p \in Int, q \in Int :
          p = Trust(call.user, call.roles, h) /\ q = Trust(call.user, call.roles, w) /\ p <= q
      BY TrustIsANumber
<1>3. PICK r \in Int, s \in Int :
          r = HistoryRisk(Of(h, call.user)) /\ s = HistoryRisk(Of(w, call.user)) /\ r <= s
      BY WorseOfOne, PastIsANumber
<1>4. PICK m \in Int : m = Adjustments(e, call, h) /\ m = Adjustments(e, call, w)
      BY AdjustmentsAreNumbers
<1>5. PICK v \in Int : v = EnvironmentRisk[call.environment]
  <2>1. call.environment \in {"development", "staging", "production"} BY DEF Calls, Environments
  <2>2. EnvironmentRisk[call.environment] \in {20, 50, 90} BY <2>1 DEF EnvironmentRisk
  <2> QED BY <2>2
<1>6. call.time \in Int BY DEF Calls
<1>7. PICK t \in Int : t = call.time BY <1>6
<1>8. PICK f \in Int : f = 20 * a + 15 * b + 10 * c + 15 * d + 10 * i + 10 * v + 5 * t + 5 * k OBVIOUS
<1>9. RawScore(e, call, h) = f + 10 * p + 5 * r
  <2>1. RawScore(e, call, h) = 20 * a + 15 * b + 10 * c + 15 * d + 10 * i + 10 * p
                                  + 10 * v + 5 * t + 5 * r + 5 * k
        BY <1>1, <1>2, <1>3, <1>5, <1>7 DEF RawScore
  <2> QED BY <2>1, <1>8
<1>10. RawScore(e, call, w) = f + 10 * q + 5 * s
  <2>1. RawScore(e, call, w) = 20 * a + 15 * b + 10 * c + 15 * d + 10 * i + 10 * q
                                  + 10 * v + 5 * t + 5 * s + 5 * k
        BY <1>1, <1>2, <1>3, <1>5, <1>7 DEF RawScore
  <2> QED BY <2>1, <1>8
<1>11. PICK x \in Int, y \in Int : /\ x = f + 10 * p + 5 * r + 100 * m
                                   /\ y = f + 10 * q + 5 * s + 100 * m
       OBVIOUS
<1>12. x <= y
  <2>1. 10 * p <= 10 * q BY <1>2
  <2>2. 5 * r <= 5 * s BY <1>3
  <2>3. PICK pp \in Int, qq \in Int : pp = 10 * p /\ qq = 10 * q OBVIOUS
  <2>4. PICK rr \in Int, ss \in Int : rr = 5 * r /\ ss = 5 * s OBVIOUS
  <2>5. pp <= qq /\ rr <= ss BY <2>1, <2>2, <2>3, <2>4
  <2>6. x = f + pp + rr + 100 * m /\ y = f + qq + ss + 100 * m BY <1>11, <2>3, <2>4
  <2> QED BY <2>5, <2>6
<1>13. ScoreOf(e, call, h) = Clamped(x) BY <1>4, <1>9, <1>11 DEF ScoreOf, Clamped
<1>14. ScoreOf(e, call, w) = Clamped(y) BY <1>4, <1>10, <1>11 DEF ScoreOf, Clamped
<1> QED BY <1>12, <1>13, <1>14

\* A thing that differs in its risk only.
Destructively(e) == [e EXCEPT !.risk = "destructive"]

\* In production, being destructive never lowers a score.
LEMMA DestructiveScoresMore ==
    ASSUME NEW e \in Things, e.kind # "plan", NEW call \in Calls, call.environment = "production",
           NEW A, NEW h \in Seq(A)
    PROVE  ScoreOf(e, call, h) <= ScoreOf(Destructively(e), call, h)
<1>1. PICK g \in Things : g = Destructively(e) BY DEF Things, Destructively
<1>2. /\ g.kind = e.kind /\ g.verb = e.verb /\ g.sensitivity = e.sensitivity /\ g.count = e.count
      /\ g.effects = e.effects /\ g.compensated = e.compensated /\ g.caps = e.caps
      /\ g.approval = e.approval /\ g.risk = "destructive"
      BY <1>1 DEF Things, Destructively
<1>3. e.kind \in {"intent", "step"} BY DEF Things
<1>4. Worse(h, h) BY DEF Worse
<1>5. PICK a \in Int, b \in Int, c \in Int, d \in Int, i \in Int, k \in Int :
          /\ a = ActionRisk(e) /\ b = DataRisk(e) /\ c = CountRisk(e)
          /\ d = BlastRisk(e) /\ i = Irreversible(e) /\ k = CapabilityRisk(e)
      BY <1>3, FactorsAreNumbers
<1>6. a = ActionRisk(g) /\ b = DataRisk(g) /\ c = CountRisk(g) /\ k = CapabilityRisk(g)
      BY <1>2, <1>5 DEF ActionRisk, DataRisk, CountRisk, CapabilityRisk
<1>7. PICK dd \in Int : dd = BlastRisk(g) /\ d <= dd
  <2>1. CASE e.kind = "step"
    <3>1. BlastRisk(g) = 90 BY <2>1, <1>2 DEF BlastRisk, RiskOf
    <3>2. BlastRisk(e) \in {20, 40, 70, 90} BY <2>1 DEF BlastRisk, RiskOf
    <3> QED BY <3>1, <3>2, <1>5
  <2>2. CASE e.kind = "intent"
    <3>1. BlastRisk(g) = 85 BY <2>2, <1>2 DEF BlastRisk, RiskOf
    <3>2. BlastRisk(e) \in {15, 35, 65, 85} BY <2>2 DEF BlastRisk, RiskOf
    <3> QED BY <3>1, <3>2, <1>5
  <2> QED BY <2>1, <2>2, <1>3
<1>8. PICK ii \in Int : ii = Irreversible(g) /\ i <= ii
  <2>1. Irreversible(e) <= Irreversible(g) /\ Irreversible(g) \in Int BY <1>2, <1>3 DEF Irreversible
  <2> QED BY <2>1, <1>5
<1>9. PICK m \in Int, mm \in Int :
          m = Adjustments(e, call, h) /\ mm = Adjustments(g, call, h) /\ m <= mm
  <2>1. Adjustments(e, call, h) \in Int /\ Adjustments(g, call, h) \in Int
        BY <1>4, AdjustmentsAreNumbers
  <2>2. PICK P : P = Previous(e, call.user, Of(h, call.user)) OBVIOUS
  <2>3. Previous(g, call.user, Of(h, call.user)) = P BY <2>2, <1>2 DEF Previous
  <2>4. PICK z \in Int : z = (IF P = {} THEN -5 ELSE 0)
                          + (IF Cardinality(Risky(Of(h, call.user), P)) >= RapidAfter THEN 15 ELSE 0)
    <3>1. PICK u \in Int : u = IF P = {} THEN -5 ELSE 0
      <4>1. CASE P = {} BY <4>1
      <4>2. CASE P # {} BY <4>2
      <4> QED BY <4>1, <4>2
    <3>2. PICK w \in Int :
              w = IF Cardinality(Risky(Of(h, call.user), P)) >= RapidAfter THEN 15 ELSE 0
          OBVIOUS
    <3>3. u + w \in Int OBVIOUS
    <3> QED BY <3>1, <3>2, <3>3
  <2>5. Adjustments(g, call, h) = z + 20
    <3>1. HasDestructive(g) BY <1>2, <1>3 DEF HasDestructive
    <3> QED BY <3>1, <2>3, <2>4, <1>2 DEF Adjustments
  <2>6. Adjustments(e, call, h) <= z + 20
    <3>1. HasDestructive(e) <=> e.risk = "destructive" BY <1>3 DEF HasDestructive
    <3>2. CASE e.risk = "destructive"
      <4>1. Adjustments(e, call, h) = z + 20 BY <3>1, <3>2, <2>2, <2>4 DEF Adjustments
      <4> QED BY <4>1
    <3>3. CASE e.risk # "destructive"
      <4>1. Adjustments(e, call, h) = z + (IF e.kind = "intent" /\ e.risk = "high" /\ ~e.approval THEN 10 ELSE 0)
            BY <3>1, <3>3, <2>2, <2>4 DEF Adjustments
      <4> QED BY <4>1
    <3> QED BY <3>2, <3>3
  <2> QED BY <2>1, <2>5, <2>6
<1>10. PICK p \in Int : p = Trust(call.user, call.roles, h) BY <1>4, TrustIsANumber
<1>11. PICK r \in Int : r = HistoryRisk(Of(h, call.user)) BY <1>4, WorseOfOne, PastIsANumber
<1>12. PICK v \in Int : v = EnvironmentRisk[call.environment]
  <2>1. EnvironmentRisk[call.environment] = 90 BY DEF EnvironmentRisk
  <2> QED BY <2>1
<1>13. PICK t \in Int : t = call.time
  <2>1. call.time \in Int BY DEF Calls
  <2> QED BY <2>1
<1>14. RawScore(e, call, h) = 20 * a + 15 * b + 10 * c + 15 * d + 10 * i + 10 * p
                                  + 10 * v + 5 * t + 5 * r + 5 * k
       BY <1>5, <1>10, <1>11, <1>12, <1>13 DEF RawScore
<1>15. RawScore(g, call, h) = 20 * a + 15 * b + 10 * c + 15 * dd + 10 * ii + 10 * p
                                  + 10 * v + 5 * t + 5 * r + 5 * k
       BY <1>6, <1>7, <1>8, <1>10, <1>11, <1>12, <1>13 DEF RawScore
<1>16. PICK x \in Int, y \in Int :
           x = RawScore(e, call, h) + 100 * m /\ y = RawScore(g, call, h) + 100 * mm /\ x <= y
  <2>1. RawScore(e, call, h) \in Int /\ RawScore(g, call, h) \in Int BY <1>14, <1>15
  <2>2. RawScore(e, call, h) <= RawScore(g, call, h)
    <3>1. 15 * d <= 15 * dd BY <1>7
    <3>2. 10 * i <= 10 * ii BY <1>8
    <3>3. PICK z \in Int : z = 20 * a + 15 * b + 10 * c + 10 * p + 10 * v + 5 * t + 5 * r + 5 * k
          OBVIOUS
    <3>4. RawScore(e, call, h) = z + 15 * d + 10 * i BY <3>3, <1>14
    <3>5. RawScore(g, call, h) = z + 15 * dd + 10 * ii BY <3>3, <1>15
    <3> QED BY <3>1, <3>2, <3>4, <3>5
  <2> QED BY <2>1, <2>2, <1>9
<1>17. ScoreOf(e, call, h) = Clamped(x) BY <1>9, <1>16 DEF ScoreOf, Clamped
<1>18. ScoreOf(g, call, h) = Clamped(y) BY <1>9, <1>16 DEF ScoreOf, Clamped
<1> QED BY <1>1, <1>16, <1>17, <1>18, ClampedAscends

\* Of one call in several environments, what does not depend on the environment is the same.
LEMMA ScoresByEnvironment ==
    ASSUME NEW e \in Things, e.kind = "plan" => e.count > 0, NEW call \in Calls,
           NEW A, NEW h \in Seq(A)
    PROVE  \E b \in Int : \A env \in Environments :
              ScoreOf(e, In(call, env), h) =
                 Clamped(b + 10 * EnvironmentRisk[env]
                           + (IF env = "production" /\ HasDestructive(e) THEN 2000 ELSE 0))
<1>1. Worse(h, h) BY DEF Worse
<1>2. PICK a \in Int, b \in Int, c \in Int, d \in Int, i \in Int, k \in Int :
          /\ a = ActionRisk(e) /\ b = DataRisk(e) /\ c = CountRisk(e)
          /\ d = BlastRisk(e) /\ i = Irreversible(e) /\ k = CapabilityRisk(e)
      BY FactorsAreNumbers
<1>3. PICK p \in Int : p = Trust(call.user, call.roles, h) BY <1>1, TrustIsANumber
<1>4. PICK r \in Int : r = HistoryRisk(Of(h, call.user)) BY <1>1, WorseOfOne, PastIsANumber
<1>5. PICK t \in Int : t = call.time
  <2>1. call.time \in Int BY DEF Calls
  <2> QED BY <2>1
<1>6. PICK P : P = Previous(e, call.user, Of(h, call.user)) OBVIOUS
<1>7. PICK u \in Int : u = IF P = {} THEN -5 ELSE 0 OBVIOUS
<1>8. PICK w \in Int : w = IF Cardinality(Risky(Of(h, call.user), P)) >= RapidAfter THEN 15 ELSE 0
      OBVIOUS
<1>9. PICK z \in Int : z = IF e.kind = "intent" /\ e.risk = "high" /\ ~e.approval THEN 10 ELSE 0
      OBVIOUS
<1>10. PICK f \in Int : f = 20 * a + 15 * b + 10 * c + 15 * d + 10 * i + 10 * p + 5 * t + 5 * r + 5 * k
       OBVIOUS
<1>11. PICK g \in Int : g = f + 100 * u + 100 * w + 100 * z OBVIOUS
<1>12. ASSUME NEW env \in Environments
       PROVE  ScoreOf(e, In(call, env), h) =
                 Clamped(g + 10 * EnvironmentRisk[env]
                           + (IF env = "production" /\ HasDestructive(e) THEN 2000 ELSE 0))
  <2>1. PICK at \in Calls : at = In(call, env) BY DEF In, Calls
  <2>2. /\ at.user = call.user /\ at.roles = call.roles /\ at.time = call.time
        /\ at.environment = env
        BY <2>1 DEF In, Calls
  <2>3. PICK v \in Int : v = EnvironmentRisk[env]
    <3>1. EnvironmentRisk[env] \in {20, 50, 90} BY DEF EnvironmentRisk, Environments
    <3> QED BY <3>1
  <2>4. PICK y \in Int : y = IF env = "production" /\ HasDestructive(e) THEN 20 ELSE 0 OBVIOUS
  <2>5. RawScore(e, at, h) = 20 * a + 15 * b + 10 * c + 15 * d + 10 * i + 10 * p
                                + 10 * v + 5 * t + 5 * r + 5 * k
        BY <2>2, <2>3, <1>2, <1>3, <1>4, <1>5 DEF RawScore
  <2>6. RawScore(e, at, h) = f + 10 * v BY <2>5, <1>10
  <2>7. Adjustments(e, at, h) = u + w + y + z
        BY <2>2, <2>4, <1>6, <1>7, <1>8, <1>9 DEF Adjustments
  <2>8. PICK x \in Int : x = IF env = "production" /\ HasDestructive(e) THEN 2000 ELSE 0 OBVIOUS
  <2>9. x = 100 * y BY <2>4, <2>8
  <2>10. RawScore(e, at, h) + 100 * Adjustments(e, at, h) = g + 10 * v + x
         BY <2>6, <2>7, <2>9, <1>11
  <2>11. ScoreOf(e, at, h) = Clamped(g + 10 * v + x) BY <2>10 DEF ScoreOf, Clamped
  <2> QED BY <2>1, <2>3, <2>8, <2>11
<1> QED BY <1>12

\* More is allowed where less is at stake.
LEMMA ThresholdsDescend ==
    ASSUME NEW call \in Calls, NEW points \in Nat, NEW top \in BOOLEAN
    PROVE  LET T(env) == Threshold(points, In(call, env), top) IN
           /\ T("development") \in Int /\ T("staging") \in Int /\ T("production") \in Int
           /\ T("development") >= T("staging") /\ T("staging") >= T("production")
<1> DEFINE T(env) == Threshold(points, In(call, env), top)
<1> SUFFICES /\ T("development") \in Int /\ T("staging") \in Int /\ T("production") \in Int
             /\ T("development") >= T("staging") /\ T("staging") >= T("production")
    OBVIOUS
<1>1. CASE ~adaptive BY <1>1 DEF Threshold
<1>2. CASE adaptive
  <2>1. PICK f \in Nat : f = IF top \/ call.roles \cap {"admin", "operator"} # {} THEN 100 ELSE 90
        OBVIOUS
  <2>2. PICK d \in Nat : d = IF top THEN 110 ELSE 120 OBVIOUS
  <2>3. ASSUME NEW env \in Environments
        PROVE  In(call, env).environment = env /\ In(call, env).roles = call.roles
        BY DEF In, Calls
  <2>4. T("development") = (points * d * f) \div 100
    <3>1. Stretch("development", top) = d BY <2>2 DEF Stretch
    <3> QED BY <3>1, <2>1, <2>3, <1>2 DEF Threshold, Environments
  <2>5. T("staging") = (points * 100 * f) \div 100
    <3>1. Stretch("staging", top) = 100 BY DEF Stretch
    <3> QED BY <3>1, <2>1, <2>3, <1>2 DEF Threshold, Environments
  <2>6. T("production") = (points * 80 * f) \div 100
    <3>1. Stretch("production", top) = 80 BY DEF Stretch
    <3> QED BY <3>1, <2>1, <2>3, <1>2 DEF Threshold, Environments
  <2>7. PICK z \in Nat : z = points * f OBVIOUS
  <2>8. /\ points * d * f = d * z /\ points * 100 * f = 100 * z /\ points * 80 * f = 80 * z
        BY <2>7
  <2>9. d * z \in Nat /\ 100 * z \in Nat /\ 80 * z \in Nat OBVIOUS
  <2>10. 80 * z <= 100 * z OBVIOUS
  <2>11. 100 * z <= d * z BY <2>2
  <2>12. PICK m \in Nat, n \in Nat, o \in Nat : m = d * z /\ n = 100 * z /\ o = 80 * z BY <2>9
  <2>13. n <= m /\ o <= n BY <2>10, <2>11, <2>12
  <2>14. m \div 100 \in Int /\ n \div 100 \in Int /\ n \div 100 <= m \div 100
         BY <2>13, SharesAscend
  <2>15. o \div 100 \in Int /\ o \div 100 <= n \div 100 BY <2>13, SharesAscend
  <2>16. T("development") = m \div 100 /\ T("staging") = n \div 100 /\ T("production") = o \div 100
         BY <2>4, <2>5, <2>6, <2>8, <2>12
  <2> HIDE DEF T
  <2> QED BY <2>14, <2>15, <2>16
<1> QED BY <1>1, <1>2

\* A score that is not lower, among thresholds that are not higher, is of no lower level.
LEMMA LevelsAscend ==
    ASSUME NEW e, NEW one, NEW other, NEW h, ~(e.kind = "plan" /\ e.count = 0),
           ScoreOf(e, one, h) \in Int, ScoreOf(e, other, h) \in Int,
           ScoreOf(e, one, h) <= ScoreOf(e, other, h),
           \A points \in Nat, top \in BOOLEAN :
              /\ Threshold(points, one, top) \in Int /\ Threshold(points, other, top) \in Int
              /\ Threshold(points, one, top) >= Threshold(points, other, top)
    PROVE  Rank[Level(e, one, h)] <= Rank[Level(e, other, h)]
<1> DEFINE W(call, points, top) == ScoreOf(e, call, h) <= Threshold(points, call, top)
<1>1. ASSUME NEW points \in Nat, NEW top \in BOOLEAN
      PROVE  W(other, points, top) => W(one, points, top)
      OBVIOUS
<1>2. ASSUME NEW call
      PROVE  Level(e, call, h) = IF W(call, 25, FALSE) THEN "low"
                                 ELSE IF W(call, 50, FALSE) THEN "medium"
                                 ELSE IF W(call, 75, TRUE) THEN "high" ELSE "destructive"
      BY DEF Level
<1> HIDE DEF W
<1>3. /\ W(other, 25, FALSE) => W(one, 25, FALSE)
      /\ W(other, 50, FALSE) => W(one, 50, FALSE)
      /\ W(other, 75, TRUE) => W(one, 75, TRUE)
      BY <1>1
<1>4. /\ Rank["low"] = 1 /\ Rank["medium"] = 2 /\ Rank["high"] = 3 /\ Rank["destructive"] = 4
      BY DEF Rank
<1>5. CASE W(one, 25, FALSE)
  <2>1. Level(e, one, h) = "low" BY <1>2, <1>5
  <2>2. Level(e, other, h) \in {"low", "medium", "high", "destructive"} BY <1>2
  <2> QED BY <2>1, <2>2, <1>4
<1>6. CASE ~W(one, 25, FALSE) /\ W(one, 50, FALSE)
  <2>1. Level(e, one, h) = "medium" BY <1>2, <1>6
  <2>2. Level(e, other, h) \in {"medium", "high", "destructive"} BY <1>2, <1>3, <1>6
  <2> QED BY <2>1, <2>2, <1>4
<1>7. CASE ~W(one, 25, FALSE) /\ ~W(one, 50, FALSE) /\ W(one, 75, TRUE)
  <2>1. Level(e, one, h) = "high" BY <1>2, <1>7
  <2>2. Level(e, other, h) \in {"high", "destructive"} BY <1>2, <1>3, <1>7
  <2> QED BY <2>1, <2>2, <1>4
<1>8. CASE ~W(one, 25, FALSE) /\ ~W(one, 50, FALSE) /\ ~W(one, 75, TRUE)
  <2>1. Level(e, one, h) = "destructive" BY <1>2, <1>8
  <2>2. Level(e, other, h) = "destructive" BY <1>2, <1>3, <1>8
  <2> QED BY <2>1, <2>2, <1>4
<1> QED BY <1>5, <1>6, <1>7, <1>8

\* The record is one of actions, and of bounded length: all that the scores need of it.
ScorerInv ==
    /\ history \in Seq(ScoredActions) /\ Len(history) <= MaxHistory
    /\ adaptive \in BOOLEAN /\ scorings \in 0 .. MaxScorings /\ scorerClock \in 0 .. MaxScorerTime

\* What the assumption says of a thing that is scored.
LEMMA SomethingsAre ==
    ASSUME NEW e \in Somethings
    PROVE  e \in Things /\ (e.kind = "plan" => e.count > 0)
BY ScorerAssumption DEF Somethings, Things

\* And of a call.
LEMMA CallsAre == ScoringCalls \subseteq Calls
<1> SUFFICES ASSUME NEW call \in ScoringCalls PROVE call \in Calls OBVIOUS
<1>1. Times \subseteq Nat BY ScorerAssumption
<1> QED BY <1>1 DEF ScoringCalls, Calls, Environments

\* Scores rise and thresholds fall from development to production.
LEMMA StricterInProduction ==
    ASSUME ScorerInv
    PROVE  ProductionIsStricter
<1> SUFFICES ASSUME NEW e \in Somethings, NEW call \in ScoringCalls, call.environment = "production"
             PROVE  LET R(environment) == Rank[Level(e, In(call, environment), history)] IN
                    /\ R("development") <= R("staging") /\ R("staging") <= R("production")
                    /\ e.kind # "plan" =>
                          ScoreOf(e, call, history)
                              <= ScoreOf([e EXCEPT !.risk = "destructive"], call, history)
    BY DEF ProductionIsStricter
<1>1. e \in Things /\ (e.kind = "plan" => e.count > 0) BY SomethingsAre
<1>2. call \in Calls BY CallsAre
<1>3. PICK A : A = ScoredActions OBVIOUS
<1>4. PICK h \in Seq(A) : h = history BY <1>3 DEF ScorerInv
<1>5. PICK b \in Int : \A env \in Environments :
          ScoreOf(e, In(call, env), h) =
             Clamped(b + 10 * EnvironmentRisk[env]
                       + (IF env = "production" /\ HasDestructive(e) THEN 2000 ELSE 0))
      BY <1>1, <1>2, ScoresByEnvironment
<1>6. PICK y \in Nat : y = IF HasDestructive(e) THEN 2000 ELSE 0 OBVIOUS
<1>7. /\ ScoreOf(e, In(call, "development"), h) = Clamped(b + 200)
      /\ ScoreOf(e, In(call, "staging"), h) = Clamped(b + 500)
      /\ ScoreOf(e, In(call, "production"), h) = Clamped(b + 900 + y)
      BY <1>5, <1>6 DEF Environments, EnvironmentRisk
<1>8. b + 200 \in Int /\ b + 500 \in Int /\ b + 900 + y \in Int OBVIOUS
<1>9. /\ ScoreOf(e, In(call, "development"), h) \in Int /\ ScoreOf(e, In(call, "staging"), h) \in Int
      /\ ScoreOf(e, In(call, "development"), h) <= ScoreOf(e, In(call, "staging"), h)
      BY <1>7, <1>8, ClampedAscends
<1>10. /\ ScoreOf(e, In(call, "production"), h) \in Int
       /\ ScoreOf(e, In(call, "staging"), h) <= ScoreOf(e, In(call, "production"), h)
       BY <1>7, <1>8, ClampedAscends
<1>11. ASSUME NEW points \in Nat, NEW top \in BOOLEAN
       PROVE  /\ Threshold(points, In(call, "development"), top) \in Int
              /\ Threshold(points, In(call, "staging"), top) \in Int
              /\ Threshold(points, In(call, "production"), top) \in Int
              /\ Threshold(points, In(call, "development"), top) >= Threshold(points, In(call, "staging"), top)
              /\ Threshold(points, In(call, "staging"), top) >= Threshold(points, In(call, "production"), top)
       BY <1>2, ThresholdsDescend
<1>12. ~(e.kind = "plan" /\ e.count = 0) BY <1>1
<1>13. Rank[Level(e, In(call, "development"), h)] <= Rank[Level(e, In(call, "staging"), h)]
       BY <1>9, <1>11, <1>12, LevelsAscend
<1>14. Rank[Level(e, In(call, "staging"), h)] <= Rank[Level(e, In(call, "production"), h)]
       BY <1>9, <1>10, <1>11, <1>12, LevelsAscend
<1>15. ASSUME e.kind # "plan"
       PROVE  ScoreOf(e, call, h) <= ScoreOf([e EXCEPT !.risk = "destructive"], call, h)
       BY <1>1, <1>2, <1>15, DestructiveScoresMore DEF Destructively
<1> QED BY <1>4, <1>13, <1>14, <1>15

\* A record with a failure is worse, and one of others is not looked at.
LEMMA FailureCannotHelp ==
    ASSUME ScorerInv
    PROVE  FailuresNeverHelp
<1> SUFFICES ASSUME NEW k \in DOMAIN history, NEW e \in Somethings, NEW call \in ScoringCalls
             PROVE  /\ ScoreOf(e, call, [history EXCEPT ![k].success = TRUE])
                           <= ScoreOf(e, call, [history EXCEPT ![k].success = FALSE])
                    /\ history[k].user # call.user =>
                          ScoreOf(e, call, history) = ScoreOf(e, call, RemoveAt(history, k))
    BY DEF FailuresNeverHelp
<1>1. e \in Things /\ (e.kind = "plan" => e.count > 0) BY SomethingsAre
<1>2. call \in Calls BY CallsAre
<1>3. PICK A : A = ScoredActions OBVIOUS
<1>4. PICK h \in Seq(A) : h = history BY <1>3 DEF ScorerInv
<1>5. k \in 1 .. Len(h)
  <2>1. DOMAIN h = 1 .. Len(h) OBVIOUS
  <2> QED BY <2>1, <1>4
<1>6. PICK a \in A : a = h[k] BY <1>5, ElementOfSeq
<1>7. PICK good \in A : good = [a EXCEPT !.success = TRUE]
  <2>1. [a EXCEPT !.success = TRUE] \in ScoredActions BY <1>3, <1>6 DEF ScoredActions
  <2> QED BY <2>1, <1>3
<1>8. PICK bad \in A : bad = [a EXCEPT !.success = FALSE]
  <2>1. [a EXCEPT !.success = FALSE] \in ScoredActions BY <1>3, <1>6 DEF ScoredActions
  <2> QED BY <2>1, <1>3
<1>9. good.user = bad.user /\ good.level = bad.level /\ good.at = bad.at /\ ~bad.success
  <2>1. a \in ScoredActions BY <1>3
  <2> QED BY <2>1, <1>7, <1>8 DEF ScoredActions
<1>10. PICK g : g = [h EXCEPT ![k] = good] OBVIOUS
<1>11. PICK w : w = [h EXCEPT ![k] = bad] OBVIOUS
<1>12. g \in Seq(A) /\ Len(g) = Len(h) /\ \A j \in 1 .. Len(h) : g[j] = IF j = k THEN good ELSE h[j]
       BY <1>5, <1>10, ExceptSeq
<1>13. w \in Seq(A) /\ Len(w) = Len(h) /\ \A j \in 1 .. Len(h) : w[j] = IF j = k THEN bad ELSE h[j]
       BY <1>5, <1>11, ExceptSeq
<1>14. Worse(g, w) BY <1>9, <1>12, <1>13 DEF Worse
<1>15. [history EXCEPT ![k].success = TRUE] = g BY <1>4, <1>6, <1>7, <1>10
<1>16. [history EXCEPT ![k].success = FALSE] = w BY <1>4, <1>6, <1>8, <1>11
<1>17. ScoreOf(e, call, g) <= ScoreOf(e, call, w)
  <2>1. PICK x \in Int, y \in Int :
            x <= y /\ ScoreOf(e, call, g) = Clamped(x) /\ ScoreOf(e, call, w) = Clamped(y)
        BY <1>1, <1>2, <1>12, <1>13, <1>14, ScoresAre
  <2> QED BY <2>1, ClampedAscends
<1>18. ASSUME h[k].user # call.user
       PROVE  ScoreOf(e, call, h) = ScoreOf(e, call, RemoveAt(h, k))
  <2>1. PICK r : r = RemoveAt(h, k) OBVIOUS
  <2>2. Of(r, call.user) = Of(h, call.user) BY <2>1, <1>5, <1>18, OthersDoNotMatter
  <2>3. Trust(call.user, call.roles, r) = Trust(call.user, call.roles, h) BY <2>2 DEF Trust
  <2>4. Adjustments(e, call, r) = Adjustments(e, call, h) BY <2>2 DEF Adjustments
  <2>5. RawScore(e, call, r) = RawScore(e, call, h) BY <2>2, <2>3 DEF RawScore
  <2> QED BY <2>1, <2>4, <2>5 DEF ScoreOf
<1> QED BY <1>4, <1>15, <1>16, <1>17, <1>18

LEMMA ScorerInitially == ScorerInit => ScorerInv
<1>1. {MaxHistory} \subseteq Nat /\ MaxScorings \in Nat /\ MaxScorerTime \in Nat BY ScorerAssumption
<1>2. <<>> \in Seq(ScoredActions) /\ Len(<<>>) = 0 OBVIOUS
<1> QED BY <1>1, <1>2 DEF ScorerInit, ScorerInv

\* Trimming keeps actions, and no more than it may.
LEMMA TrimmedIs ==
    ASSUME NEW A, NEW h \in Seq(A)
    PROVE  Trim(h) \in Seq(A) /\ Len(Trim(h)) <= MaxHistory
<1>1. MaxHistory \in Nat BY ScorerAssumption
<1>2. PICK n \in Nat : n = Len(h) OBVIOUS
<1>3. PICK m \in Nat : m = AtLeast(0, n - MaxHistory)
  <2>1. AtLeast(0, n - MaxHistory) \in Nat BY <1>1 DEF AtLeast
  <2> QED BY <2>1
<1>4. n - m <= MaxHistory /\ m <= n BY <1>1, <1>3 DEF AtLeast
<1>5. PICK t : t = SubSeq(h, m + 1, n) OBVIOUS
<1>6. Trim(h) = t BY <1>2, <1>3, <1>5 DEF Trim
<1>7. \A i \in m + 1 .. n : h[i] \in A BY <1>2
<1>8. t \in Seq(A) /\ Len(t) = IF m + 1 <= n THEN n - (m + 1) + 1 ELSE 0
      BY <1>5, <1>7, SubSeqProperties
<1> QED BY <1>1, <1>4, <1>6, <1>8

LEMMA LevelIsOne ==
    ASSUME NEW e, NEW call, NEW h
    PROVE  Level(e, call, h) \in {"low", "medium", "high", "destructive"}
BY DEF Level

LEMMA ScorerStep == ScorerInv /\ [ScorerNext]_scorerVars => ScorerInv'
<1> SUFFICES ASSUME ScorerInv, [ScorerNext]_scorerVars PROVE ScorerInv' OBVIOUS
<1>1. PICK A : A = ScoredActions OBVIOUS
<1>2. PICK h \in Seq(A) : h = history BY <1>1 DEF ScorerInv
<1>3. /\ Len(h) <= MaxHistory /\ adaptive \in BOOLEAN /\ scorings \in 0 .. MaxScorings
      /\ scorerClock \in 0 .. MaxScorerTime
      BY <1>2 DEF ScorerInv
<1>4. MaxScorings \in Nat /\ MaxScorerTime \in Nat /\ MaxHistory \in Nat BY ScorerAssumption
<1>5. ASSUME NEW g \in Seq(A), Len(g) <= MaxHistory, history' = g,
             adaptive' \in BOOLEAN, scorings' \in 0 .. MaxScorings,
             scorerClock' \in 0 .. MaxScorerTime
      PROVE  ScorerInv'
  <2>1. (Len(history) <= MaxHistory)' BY <1>5
  <2>2. (history \in Seq(ScoredActions))' BY <1>1, <1>5 DEF ScoredActions
  <2> QED BY <2>1, <2>2, <1>5 DEF ScorerInv
<1>6. CASE \E e \in Scored, call \in ScoringCalls : ScoreIt(e, call)
  <2>1. PICK e \in Scored, call \in ScoringCalls : ScoreIt(e, call) BY <1>6
  <2>2. PICK a : a = [user |-> call.user,
                      action |-> IF e.kind = "plan" THEN "unknown" ELSE e.action,
                      level |-> Level(e, call, history), at |-> scorerClock, success |-> TRUE]
        OBVIOUS
  <2>3. a \in ScoredActions
    <3>1. call.user \in ScorerUsers BY DEF ScoringCalls
    <3>2. Level(e, call, history) \in {"low", "medium", "high", "destructive"} BY LevelIsOne
    <3>3. scorerClock \in Nat BY <1>3
    <3>4. (IF e.kind = "plan" THEN "unknown" ELSE e.action)
             \in {f.action : f \in Scored} \cup {"unknown"}
          OBVIOUS
    <3> QED BY <3>1, <3>2, <3>3, <3>4, <2>2 DEF ScoredActions
  <2>4. a \in A BY <2>3, <1>1
  <2>5. Append(h, a) \in Seq(A) BY <2>4
  <2>6. Trim(Append(h, a)) \in Seq(A) /\ Len(Trim(Append(h, a))) <= MaxHistory BY <2>5, TrimmedIs
  <2>7. history' = Trim(Append(h, a)) BY <2>1, <2>2, <1>2 DEF ScoreIt
  <2>8. /\ adaptive' = adaptive /\ scorerClock' = scorerClock
        /\ scorings < MaxScorings /\ scorings' = scorings + 1
        BY <2>1 DEF ScoreIt
  <2>9. scorings' \in 0 .. MaxScorings BY <2>8, <1>3, <1>4
  <2> QED BY <2>6, <2>7, <2>8, <2>9, <1>3, <1>5
<1>7. CASE \E k \in DOMAIN history, success \in BOOLEAN :
              ReportOutcome(history[k].user, history[k].action, success)
  <2>1. PICK k \in DOMAIN history, success \in BOOLEAN :
            ReportOutcome(history[k].user, history[k].action, success)
        BY <1>7
  <2>2. PICK fits : fits = {j \in DOMAIN history : /\ history[j].user = history[k].user
                                                   /\ history[j].action = history[k].action}
        OBVIOUS
  <2>3. PICK m : m = Max(fits) OBVIOUS
  <2>4. m \in 1 .. Len(h)
    <3>1. DOMAIN h = 1 .. Len(h) OBVIOUS
    <3>2. fits \subseteq 1 .. Len(h) BY <3>1, <2>2, <1>2
    <3>3. fits # {} BY <2>1, <2>2 DEF ReportOutcome
    <3>4. PICK n \in Nat : n = Len(h) OBVIOUS
    <3>5. fits \in SUBSET (0 .. n) BY <3>2, <3>4
    <3>6. Max(fits) \in fits BY <3>3, <3>5, GreatestOf
    <3> QED BY <3>2, <3>6, <2>3
  <2>5. PICK a \in A : a = h[m] BY <2>4, ElementOfSeq
  <2>6. PICK b \in A : b = [a EXCEPT !.success = success]
    <3>1. [a EXCEPT !.success = success] \in ScoredActions BY <1>1 DEF ScoredActions
    <3> QED BY <3>1, <1>1
  <2>7. PICK g : g = [h EXCEPT ![m] = b] OBVIOUS
  <2>8. g \in Seq(A) /\ Len(g) = Len(h) BY <2>4, <2>7, ExceptSeq
  <2>9. history' = [history EXCEPT ![m].success = success]
    <3>1. history' = [history EXCEPT ![Max(fits)].success = success]
          BY <2>1, <2>2 DEF ReportOutcome
    <3> QED BY <3>1, <2>3
  <2>10. history' = g BY <2>9, <2>5, <2>6, <2>7, <1>2
  <2>11. adaptive' = adaptive /\ scorings' = scorings /\ scorerClock' = scorerClock
         BY <2>1 DEF ReportOutcome
  <2> QED BY <2>8, <2>10, <2>11, <1>3, <1>5
<1>8. CASE ClearHistory
  <2>1. /\ history' = <<>> /\ adaptive' = adaptive /\ scorings' = scorings
        /\ scorerClock' = scorerClock
        BY <1>8 DEF ClearHistory
  <2>2. PICK g \in Seq(A) : g = <<>> BY EmptySeq
  <2>3. Len(g) <= MaxHistory BY <2>2, <1>4
  <2> QED BY <2>1, <2>2, <2>3, <1>3, <1>5
<1>9. CASE SetAdaptive
  <2>1. history' = h /\ adaptive' = ~adaptive /\ scorings' = scorings /\ scorerClock' = scorerClock
        BY <1>9, <1>2 DEF SetAdaptive
  <2> QED BY <2>1, <1>3, <1>5
<1>10. CASE ScorerTick
  <2>1. /\ history' = h /\ adaptive' = adaptive /\ scorings' = scorings
        /\ scorerClock < MaxScorerTime /\ scorerClock' = scorerClock + 1
        BY <1>10, <1>2 DEF ScorerTick
  <2>2. scorerClock' \in 0 .. MaxScorerTime BY <2>1, <1>3, <1>4
  <2> QED BY <2>1, <2>2, <1>3, <1>5
<1>11. CASE UNCHANGED scorerVars
  <2>1. history' = h /\ adaptive' = adaptive /\ scorings' = scorings /\ scorerClock' = scorerClock
        BY <1>11, <1>2 DEF scorerVars
  <2> QED BY <2>1, <1>3, <1>5
<1> QED BY <1>6, <1>7, <1>8, <1>9, <1>10, <1>11 DEF ScorerNext

LEMMA ScorerTypes ==
    ASSUME ScorerInv
    PROVE  ScorerTypeOK
<1>1. PICK A : A = ScoredActions OBVIOUS
<1>2. PICK h \in Seq(A) : h = history BY <1>1 DEF ScorerInv
<1>3. DOMAIN h = 1 .. Len(h) OBVIOUS
<1>4. ASSUME NEW k \in DOMAIN history
      PROVE  history[k].user \in ScorerUsers /\ history[k].level \in DOMAIN LevelScore
  <2>1. history[k] \in A BY <1>2, <1>3, ElementOfSeq
  <2>2. history[k] \in ScoredActions BY <2>1, <1>1
  <2>3. DOMAIN LevelScore = {"low", "medium", "high", "destructive"} BY DEF LevelScore
  <2> QED BY <2>2, <2>3 DEF ScoredActions
<1> QED BY <1>4 DEF ScorerTypeOK, ScorerInv

\* Whatever is on record and however it came there, production is never judged more leniently
\* than staging or staging than development, a failure never lowers a score, and what others
\* did changes none (DynamicRiskScorer's calculateScore, analyzeHistory, getAdaptiveThresholds).
THEOREM ScoresStayFair == ScorerSpec => [](ScorerTypeOK /\ ScoresAreFair)
<1>1. ScorerInv => ScorerTypeOK /\ ScoresAreFair
      BY ScorerTypes, StricterInProduction, FailureCannotHelp DEF ScoresAreFair
<1> QED BY <1>1, ScorerInitially, ScorerStep, PTL DEF ScorerSpec

\* What checks a plan before it runs can be relied on: the compensations and the risk.
THEOREM ChecksAlwaysHold == CheckSpec /\ ScorerSpec => ChecksHold
BY CompensationsStayChecked, CheckTypes, ScoresStayFair, PTL DEF ChecksHold

-----------------------------------------------------------------------------
(***************************************************************************)
(* What the variables hold, where the invariants do not say it.            *)
(***************************************************************************)

\* The list of the rules is as long as what was registered and not removed.
LEMMA AccessTypes == AccessInv => AccessTypeOK
<1> SUFFICES ASSUME AccessInv PROVE AccessTypeOK OBVIOUS
<1>1. /\ registered \in Seq(AccessRules) /\ removed \subseteq DOMAIN registered
      /\ iamRules \in Seq(RuleEntries) /\ Ascend(iamRules)
      /\ AreThose(iamRules, registered, removed)
      BY DEF AccessInv, RulesInv
<1>2. PICK l \in Nat, m \in Nat : /\ l = Len(registered) /\ DOMAIN registered = 1 .. l
                                  /\ m = Len(iamRules) /\ DOMAIN iamRules = 1 .. m
      BY <1>1
<1>3. ASSUME NEW j \in 1 .. m, NEW k \in 1 .. m, j < k PROVE iamRules[j].n # iamRules[k].n
  <2> SUFFICES ASSUME iamRules[j].n = iamRules[k].n PROVE FALSE OBVIOUS
  <2>1. PICK e \in RuleEntries, f \in RuleEntries : e = iamRules[j] /\ f = iamRules[k] BY <1>1, <1>2
  <2>2. EntryBefore(e, f) BY <2>1, <1>1, <1>2, <1>3 DEF Ascend
  <2>3. e.rule = f.rule /\ e.n = f.n BY <2>1, <1>1, <1>2 DEF AreThose
  <2>4. e.rule \in AccessRules /\ e.n \in Nat BY DEF RuleEntries
  <2>5. e.rule.priority \in Int BY <2>4, PrioritiesAreNumbers
  <2> QED BY <2>2, <2>3, <2>4, <2>5 DEF EntryBefore
<1>4. PICK D : D = (1 .. l) \ removed OBVIOUS
<1>5. PICK g : g = [k \in 1 .. m |-> iamRules[k].n] OBVIOUS
<1>6. g \in Bijection(1 .. m, D)
  <2>1. \A k \in 1 .. m : g[k] \in D BY <1>1, <1>2, <1>4, <1>5 DEF AreThose
  <2>2. \A d \in D : \E k \in 1 .. m : g[k] = d BY <1>1, <1>2, <1>4, <1>5 DEF AreThose
  <2>3. \A j, k \in 1 .. m : j # k => g[j] # g[k]
    <3> SUFFICES ASSUME NEW j \in 1 .. m, NEW k \in 1 .. m, j # k PROVE g[j] # g[k] OBVIOUS
    <3>1. j < k \/ k < j OBVIOUS
    <3> QED BY <3>1, <1>3, <1>5
  <2>4. g \in [1 .. m -> D] BY <2>1, <1>5
  <2> QED BY <2>2, <2>3, <2>4 DEF Bijection, Injection, Surjection, IsInjective
<1>7. IsFiniteSet(1 .. m) /\ Cardinality(1 .. m) = m /\ IsFiniteSet(1 .. l) /\ Cardinality(1 .. l) = l
  <2>1. IsFiniteSet(1 .. m) /\ Cardinality(1 .. m) = m BY FS_Interval
  <2>2. IsFiniteSet(1 .. l) /\ Cardinality(1 .. l) = l BY FS_Interval
  <2> QED BY <2>1, <2>2
<1>8. Cardinality(D) = m
  <2>1. ExistsBijection(1 .. m, D) BY <1>6 DEF ExistsBijection
  <2> QED BY <2>1, <1>7, FS_Bijection
<1>9. PICK Q, R : Q = 1 .. l /\ R = removed OBVIOUS
<1>10. Cardinality(D) = l - Cardinality(R)
  <2>1. IsFiniteSet(Q) /\ Cardinality(Q) = l BY <1>7, <1>9
  <2>2. Q \cap R = R /\ Q \ R = D BY <1>1, <1>2, <1>4, <1>9
  <2>3. Cardinality(Q \ R) = Cardinality(Q) - Cardinality(Q \cap R) BY <2>1, FS_Difference
  <2> QED BY <2>1, <2>2, <2>3
<1>11. Cardinality(removed) \in Nat BY <1>1, <1>2, <1>7, FS_Subset, FS_CardinalityType
<1>12. \A h \in Holders : scopeGrants[h].expiry \in {"none", "never", "later", "past"}
       BY DEF AccessInv, Grants
<1> QED BY <1>1, <1>2, <1>8, <1>9, <1>10, <1>11, <1>12 DEF AccessTypeOK

LEMMA SchemaTypes == SchemaInv => SchemaTypeOK
<1> SUFFICES ASSUME SchemaInv PROVE SchemaTypeOK OBVIOUS
<1>1. PICK k \in 0 .. LastVersion : schemaVersion = 1 .. k BY DEF SchemaInv, Prefix
<1>2. LastVersion \in Nat BY MigrationsAssumption
<1>3. schemaVersion \subseteq Versions BY <1>1, <1>2 DEF Versions
<1>4. \A p \in DbProcesses : opening[p].at \in {"down", "migrating", "up", "failed"}
      BY DEF SchemaInv, OpeningOK
<1> QED BY <1>3, <1>4 DEF SchemaTypeOK, SchemaInv

VoteTyped ==
    /\ strategy \in Strategies /\ DOMAIN answers = Enabled
    /\ \A k \in Enabled : answers[k] \in {Asked} \cup AnswersOf(Providers[k])

LEMMA VoteIsTyped == VoteSpec => []VoteTyped
<1>1. VoteInit => VoteTyped BY DEF VoteInit, VoteTyped
<1>2. VoteTyped /\ [VoteNext]_voteVars => VoteTyped'
  <2> SUFFICES ASSUME VoteTyped, [VoteNext]_voteVars PROVE VoteTyped' OBVIOUS
  <2>1. CASE CountVote BY <2>1 DEF CountVote, VoteTyped, Enabled
  <2>2. ASSUME NEW k \in DOMAIN answers, ProviderAnswers(k) PROVE VoteTyped'
    <3>1. PICK answer \in AnswersOf(Providers[k]) : answers' = [answers EXCEPT ![k] = answer]
          BY <2>2 DEF ProviderAnswers
    <3>2. strategy' = strategy /\ DOMAIN answers' = DOMAIN answers
          BY <2>2, <3>1 DEF ProviderAnswers
    <3>3. ASSUME NEW j \in Enabled PROVE answers'[j] \in {Asked} \cup AnswersOf(Providers[j])
      <4>1. CASE j = k BY <4>1, <3>1, <2>2
      <4>2. CASE j # k BY <4>2, <3>1 DEF VoteTyped
      <4> QED BY <4>1, <4>2
    <3> QED BY <3>2, <3>3 DEF VoteTyped, Enabled
  <2>3. CASE UNCHANGED voteVars BY <2>3 DEF voteVars, VoteTyped, Enabled
  <2> QED BY <2>1, <2>2, <2>3 DEF VoteNext
<1> QED BY <1>1, <1>2, PTL DEF VoteSpec

LEMMA VoteTypes == VoteInv /\ VoteTyped => VoteTypeOK
BY DEF VoteInv, VoteTyped, VoteTypeOK

\* An analysis finds finitely many conflicts, each of one rule or of two.
LEMMA ConflictsAreFinite ==
    ASSUME NEW list, IsRuleTable(list)
    PROVE  /\ IsFiniteSet(ConflictsOf(list))
           /\ \A c \in ConflictsOf(list) : Len(c.ids) \in 1 .. 2
<1>1. PICK n \in Nat : DOMAIN list = 1 .. n BY DEF IsRuleTable
<1>2. PICK D : D = 1 .. n OBVIOUS
<1>3. IsFiniteSet(D) BY <1>2, FS_Interval
<1>4. IsFiniteSet(D \X D) BY <1>3, FS_Product
<1>5. PICK P : P = Pairs(list) OBVIOUS
<1>6. P \subseteq D \X D BY <1>1, <1>2, <1>5 DEF Pairs
<1>7. IsFiniteSet(P) BY <1>4, <1>6, FS_Subset
<1>8. PICK F : F = [p \in P |-> PairConflicts(list[p[1]], list[p[2]])] OBVIOUS
<1>9. PICK S : S = {F[p] : p \in P} OBVIOUS
<1>10. IsFiniteSet(S)
  <2>1. F \in [P -> {F[p] : p \in P}] BY <1>8
  <2> QED BY <2>1, <1>7, <1>9, ImageIsFinite
<1>11. \A h, l : /\ IsFiniteSet(PairConflicts(h, l))
                 /\ \A c \in PairConflicts(h, l) : c.ids = <<h.id, l.id>>
  <2> SUFFICES ASSUME NEW h, NEW l
               PROVE  /\ IsFiniteSet(PairConflicts(h, l))
                      /\ \A c \in PairConflicts(h, l) : c.ids = <<h.id, l.id>>
      OBVIOUS
  <2>1. PICK v, w, x, y : /\ v = Conflict("contradictory", "critical", <<h.id, l.id>>, FALSE)
                          /\ w = Conflict("shadowed", "high", <<h.id, l.id>>, FALSE)
                          /\ x = Conflict("overlapping", "medium", <<h.id, l.id>>, FALSE)
                          /\ y = Conflict("priority_conflict", "high", <<h.id, l.id>>, TRUE)
        OBVIOUS
  <2>2. PairConflicts(h, l) \subseteq {v, w, x, y} BY <2>1 DEF PairConflicts
  <2>3. \A c \in {v, w, x, y} : c.ids = <<h.id, l.id>> BY <2>1 DEF Conflict
  <2>4. IsFiniteSet({v, w, x, y}) BY FourAreFinite
  <2> QED BY <2>2, <2>3, <2>4, FS_Subset
<1>12. IsFiniteSet(UNION S)
  <2>1. \A T \in S : IsFiniteSet(T) BY <1>8, <1>9, <1>11
  <2> QED BY <2>1, <1>10, FS_UNION
<1>13. ASSUME NEW c \in UNION S PROVE Len(c.ids) = 2
  <2>1. PICK p \in P : c \in PairConflicts(list[p[1]], list[p[2]]) BY <1>8, <1>9
  <2>2. c.ids = <<list[p[1]].id, list[p[2]].id>> BY <2>1, <1>11
  <2> QED BY <2>2
<1>14. UNION {PairConflicts(list[p[1]], list[p[2]]) : p \in P} = UNION S BY <1>8, <1>9
<1>15. IsFiniteSet(Redundancies(list)) /\ \A c \in Redundancies(list) : Len(c.ids) = 2
  <2>1. PICK G : G = [p \in P |-> Conflict("redundant", "medium",
                                         <<list[p[1]].id, list[p[2]].id>>, TRUE)]
        OBVIOUS
  <2>2. G \in [P -> {G[p] : p \in P}] BY <2>1
  <2>3. IsFiniteSet({G[p] : p \in P}) BY <2>2, <1>7, ImageIsFinite
  <2>4. Redundancies(list) \subseteq {G[p] : p \in P} BY <2>1, <1>5 DEF Redundancies
  <2>5. \A p \in P : Len(G[p].ids) = 2 BY <2>1 DEF Conflict
  <2> QED BY <2>3, <2>4, <2>5, FS_Subset
<1>16. IsFiniteSet(Unreachables(list)) /\ \A c \in Unreachables(list) : Len(c.ids) = 1
  <2>1. PICK G, H : /\ G = [k \in D |-> Conflict("unreachable", "low", <<list[k].id>>, TRUE)]
                    /\ H = [k \in D |-> Conflict("unreachable", "medium", <<list[k].id>>, FALSE)]
        OBVIOUS
  <2>2. G \in [D -> {G[k] : k \in D}] /\ H \in [D -> {H[k] : k \in D}] BY <2>1
  <2>3. IsFiniteSet({G[k] : k \in D}) /\ IsFiniteSet({H[k] : k \in D})
        BY <2>2, <1>3, ImageIsFinite
  <2>4. IsFiniteSet({G[k] : k \in D} \cup {H[k] : k \in D}) BY <2>3, FS_Union
  <2>5. Unreachables(list) \subseteq {G[k] : k \in D} \cup {H[k] : k \in D}
        BY <2>1, <1>1, <1>2 DEF Unreachables
  <2>6. \A k \in D : Len(G[k].ids) = 1 /\ Len(H[k].ids) = 1 BY <2>1 DEF Conflict
  <2> QED BY <2>4, <2>5, <2>6, FS_Subset
<1>17. PICK A, B, C : A = UNION S /\ B = Redundancies(list) /\ C = Unreachables(list) OBVIOUS
<1>18. ConflictsOf(list) = (A \cup B) \cup C BY <1>5, <1>14, <1>17 DEF ConflictsOf
<1>19. IsFiniteSet(A \cup B) BY <1>12, <1>15, <1>17, FS_Union
<1>20. IsFiniteSet((A \cup B) \cup C) BY <1>16, <1>17, <1>19, FS_Union
<1> QED BY <1>13, <1>15, <1>16, <1>17, <1>18, <1>20

LEMMA ScoreOfConflicts ==
    ASSUME NEW found, IsFiniteSet(found)
    PROVE  HealthScore(found) \in 0 .. 100
<1>1. \A s : Cardinality({c \in found : c.severity = s}) \in Nat
  <2> TAKE s
  <2>1. {c \in found : c.severity = s} \in SUBSET found OBVIOUS
  <2> QED BY <2>1, FS_Subset, FS_CardinalityType
<1>2. PICK a \in Nat, b \in Nat, m \in Nat, l \in Nat :
         /\ a = Cardinality({c \in found : c.severity = "critical"})
         /\ b = Cardinality({c \in found : c.severity = "high"})
         /\ m = Cardinality({c \in found : c.severity = "medium"})
         /\ l = Cardinality({c \in found : c.severity = "low"})
      BY <1>1
<1>3. PICK lost \in Nat : lost = 20 * a + 10 * b + 4 * m + l OBVIOUS
<1>4. PICK x : x = Max({0, 200 - lost}) OBVIOUS
<1>5. x \in 0 .. 200
  <2>1. \E e \in {0, 200 - lost} : \A f \in {0, 200 - lost} : e >= f OBVIOUS
  <2>2. x \in {0, 200 - lost} /\ \A f \in {0, 200 - lost} : x >= f BY <2>1, <1>4 DEF Max
  <2> QED BY <2>2
<1>6. HealthScore(found) = (x + 1) \div 2 BY <1>2, <1>3, <1>4 DEF HealthScore
<1> QED BY <1>5, <1>6

ConflictsTyped == resolutions \in 0 .. MaxResolutions

LEMMA ConflictsAreTyped == ConflictsSpec => []ConflictsTyped
<1>1. ConflictsInit => ConflictsTyped BY ConflictsAssumption DEF ConflictsInit, ConflictsTyped
<1>2. ConflictsTyped /\ [ConflictsNext]_conflictVars => ConflictsTyped'
  <2> SUFFICES ASSUME ConflictsTyped, [ConflictsNext]_conflictVars PROVE ConflictsTyped' OBVIOUS
  <2>1. \/ resolutions < MaxResolutions /\ resolutions' = resolutions + 1
        \/ resolutions' = resolutions
    <3>1. CASE Analyze BY <3>1 DEF Analyze
    <3>2. ASSUME NEW c \in conflicts, Resolve(c)
          PROVE  resolutions < MaxResolutions /\ resolutions' = resolutions + 1
          BY <3>2 DEF Resolve
    <3>3. CASE UNCHANGED conflictVars BY <3>3 DEF conflictVars
    <3> QED BY <3>1, <3>2, <3>3 DEF ConflictsNext
  <2> QED BY <2>1, ConflictsAssumption DEF ConflictsTyped
<1> QED BY <1>1, <1>2, PTL DEF ConflictsSpec

LEMMA ConflictTypes == ConflictsInv /\ ConflictsTyped => ConflictsTypeOK
BY ConflictsAreFinite, ScoreOfConflicts DEF ConflictsInv, ConflictsTyped, ConflictsTypeOK

-----------------------------------------------------------------------------
(***************************************************************************)
(* The parts together.  No part reads what another one writes, so each one *)
(* keeps its invariant.                                                    *)
(***************************************************************************)
LEMMA TrustDelegation == TrustSpec => []DelegationInv
<1>1. TrustInit => DelegationInit BY DEF TrustInit
<1>2. [TrustNext]_trustVars => [DelegationNext]_delegationVars BY DEF TrustNext, trustVars
<1> QED BY <1>1, <1>2, DelegationAlways, PTL DEF TrustSpec, DelegationSpec

LEMMA TrustAccess == TrustSpec => []AccessInv
<1>1. TrustInit => AccessInit BY DEF TrustInit
<1>2. [TrustNext]_trustVars => [AccessNext]_accessVars BY DEF TrustNext, trustVars
<1> QED BY <1>1, <1>2, AccessAlways, PTL DEF TrustSpec, AccessSpec

LEMMA TrustFederation == TrustSpec => []FederationInv
<1>1. TrustInit => FederationInit BY DEF TrustInit
<1>2. [TrustNext]_trustVars => [FederationNext]_federationVars BY DEF TrustNext, trustVars
<1> QED BY <1>1, <1>2, FederationAlways, PTL DEF TrustSpec, FederationSpec

LEMMA TrustRegistry == TrustSpec => []RegistryInv
<1>1. TrustInit => RegistryDbInit BY DEF TrustInit
<1>2. [TrustNext]_trustVars => [RegistryDbNext]_registryDbVars BY DEF TrustNext, trustVars
<1> QED BY <1>1, <1>2, RegistryAlways, PTL DEF TrustSpec, RegistryDbSpec

LEMMA TrustFamily == TrustSpec => []FamilyInv
<1>1. TrustInit => FamilyInit BY DEF TrustInit
<1>2. [TrustNext]_trustVars => [FamilyNext]_familyVars BY DEF TrustNext, trustVars
<1> QED BY <1>1, <1>2, FamilyAlways, PTL DEF TrustSpec, FamilySpec

LEMMA TrustVault == TrustSpec => []VaultInv
<1>1. TrustInit => VaultInit BY DEF TrustInit
<1>2. [TrustNext]_trustVars => [VaultNext]_vaultVars BY DEF TrustNext, trustVars
<1> QED BY <1>1, <1>2, VaultAlways, PTL DEF TrustSpec, VaultSpec

LEMMA TrustSchema == TrustSpec => []SchemaInv
<1>1. TrustInit => SchemaInit BY DEF TrustInit
<1>2. [TrustNext]_trustVars => [SchemaNext]_schemaVars BY DEF TrustNext, trustVars
<1> QED BY <1>1, <1>2, SchemaAlways, PTL DEF TrustSpec, SchemaSpec

LEMMA TrustVote == TrustSpec => []VoteInv
<1>1. TrustInit => VoteInit BY DEF TrustInit
<1>2. [TrustNext]_trustVars => [VoteNext]_voteVars BY DEF TrustNext, trustVars
<1> QED BY <1>1, <1>2, VoteAlways, PTL DEF TrustSpec, VoteSpec

LEMMA TrustGate == TrustSpec => []GateInv
<1>1. TrustInit => GateInit BY DEF TrustInit
<1>2. [TrustNext]_trustVars => [GateNext]_gateVars BY DEF TrustNext, trustVars
<1> QED BY <1>1, <1>2, GateAlways, PTL DEF TrustSpec, GateSpec

LEMMA TrustTelemetry == TrustSpec => []TelemetryInv
<1>1. TrustInit => TelemetryInit BY DEF TrustInit
<1>2. [TrustNext]_trustVars => [TelemetryNext]_telemetryVars BY DEF TrustNext, trustVars
<1> QED BY <1>1, <1>2, TelemetryAlways, PTL DEF TrustSpec, TelemetrySpec

LEMMA TrustGuards == TrustSpec => []GuardsInv
<1>1. TrustInit => GuardsInit BY DEF TrustInit
<1>2. [TrustNext]_trustVars => [GuardsNext]_screenVars BY DEF TrustNext, trustVars
<1> QED BY <1>1, <1>2, GuardsAlways, PTL DEF TrustSpec, GuardsSpec

LEMMA TrustConflicts == TrustSpec => []ConflictsInv
<1>1. TrustInit => ConflictsInit BY DEF TrustInit
<1>2. [TrustNext]_trustVars => [ConflictsNext]_conflictVars BY DEF TrustNext, trustVars
<1> QED BY <1>1, <1>2, ConflictsAlways, PTL DEF TrustSpec, ConflictsSpec

LEMMA TrustDlp == TrustSpec => []DlpInv
<1>1. TrustInit => DlpInit BY DEF TrustInit
<1>2. [TrustNext]_trustVars => [DlpNext]_dlpVars BY DEF TrustNext, trustVars
<1> QED BY <1>1, <1>2, DlpAlways, PTL DEF TrustSpec, DlpSpec

LEMMA TrustVoteTyped == TrustSpec => []VoteTyped
<1>1. TrustInit => VoteInit BY DEF TrustInit
<1>2. [TrustNext]_trustVars => [VoteNext]_voteVars BY DEF TrustNext, trustVars
<1> QED BY <1>1, <1>2, VoteIsTyped, PTL DEF TrustSpec, VoteSpec

LEMMA TrustGuardsTyped == TrustSpec => []GuardsTyped
<1>1. TrustInit => GuardsInit BY DEF TrustInit
<1>2. [TrustNext]_trustVars => [GuardsNext]_screenVars BY DEF TrustNext, trustVars
<1> QED BY <1>1, <1>2, GuardsAreTyped, PTL DEF TrustSpec, GuardsSpec

LEMMA TrustConflictsTyped == TrustSpec => []ConflictsTyped
<1>1. TrustInit => ConflictsInit BY DEF TrustInit
<1>2. [TrustNext]_trustVars => [ConflictsNext]_conflictVars BY DEF TrustNext, trustVars
<1> QED BY <1>1, <1>2, ConflictsAreTyped, PTL DEF TrustSpec, ConflictsSpec

\* Tokens, scopes, rules, federations, rows, families, credentials and the schema, in whatever
\* order their handlers, timers and processes run: what is granted was given and not taken back,
\* and what is on file is what was written (DelegationManager, ScopeManager, WorkloadIAM,
\* TrustDomainManager, SPIFFERegistry, GenealogyTracker, SecretsVault, runMigrations).
THEOREM GrantsAlwaysHold == TrustSpec => []GrantsHold
<1>1. DelegationInv => DelegationsHold BY DelegationFollows
<1>2. FederationInv => TablesAgree /\ TimersAreHeld BY FederationFollows
<1>3. RegistryInv => NoLostColumns /\ HistoryAccountsForSerials BY RegistryFollows
<1>4. FamilyInv => ChildrenAreYounger /\ DescentEnds /\ OrderlyFamiliesAgree
      BY FamilyFollows
<1>5. VaultInv => NothingAfterTheEnd /\ HeldUntilTheEnd /\ StatisticsAreOfRows
      BY CredentialsFollow
<1>6. SchemaInv => SchemaIsWhole /\ UpFindsAll /\ AloneComesUp BY SchemaFollows DEF SchemaInv
<1>7. /\ DelegationInv /\ FederationInv /\ RegistryInv
      /\ FamilyInv /\ VaultInv /\ SchemaInv
      /\ AccessInv
      => GrantsHold
      BY <1>1, <1>2, <1>3, <1>4, <1>5, <1>6, GrantsFollow, RulesFollow DEF GrantsHold
<1> QED
    BY <1>7, TrustDelegation, TrustAccess, TrustFederation, TrustRegistry, TrustFamily, TrustVault,
       TrustSchema, PTL

\* Under whatever thresholds are set, whatever the models answer and in whatever order: a vote
\* is backed, a confident intent is not held back where a less confident one passes, the last
\* rejections stay on file, at most one timer takes snapshots and each is of its window, no
\* attack that was seen passes, and resolving conflicts between rules changes no verdict
\* (EnsembleVoter, ConfidenceGate, ConfidenceTelemetry, PromptInjectionDetector, LLMGuardrails,
\* PolicyConflictDetector).
THEOREM JudgementsAlwaysHold == TrustSpec => []JudgementsHold
<1>1. VoteInv /\ GateInv /\ TelemetryInv /\ GuardsInv /\ ConflictsInv => JudgementsHold
      BY VoteFollows, GateFollows, TelemetryFollows, GuardsFollow, ConflictsFollow
         DEF JudgementsHold
<1> QED BY <1>1, TrustVote, TrustGate, TrustTelemetry, TrustGuards, TrustConflicts, PTL

\* Every part keeps to its types, and what the filter reports as redacted is gone, with no more
\* than that, where offsets hold (all the classes of the parts, and DLPFilter).
THEOREM TrustAlwaysRight == TrustSpec => []TrustIsRight
<1>1. DelegationInv /\ FederationInv /\ RegistryInv =>
         DelegationTypeOK /\ FederationTypeOK /\ RegistryDbTypeOK
      BY DelegationFollows, FederationFollows, RegistryFollows
<1>2. FamilyInv /\ VaultInv /\ SchemaInv => FamilyTypeOK /\ VaultTypeOK /\ SchemaTypeOK
      BY CredentialsFollow, SchemaTypes DEF FamilyInv
<1>3. GateInv /\ TelemetryInv /\ AccessInv => GateTypeOK /\ TelemetryTypeOK /\ AccessTypeOK
      BY GateFollows, AccessTypes DEF TelemetryInv
<1>4. /\ VoteInv /\ VoteTyped /\ GuardsTyped /\ ConflictsInv /\ ConflictsTyped
      => VoteTypeOK /\ GuardsTypeOK /\ ConflictsTypeOK
      BY VoteTypes, GuardTypes, ConflictTypes
<1>5. DlpInv => DlpTypeOK /\ RedactedIsGone /\ VerdictIsOfTheScan /\ PatternsFollowConfig
      BY DlpFollows
<1>6. /\ DelegationInv /\ FederationInv /\ RegistryInv /\ FamilyInv /\ VaultInv /\ SchemaInv
      /\ GateInv /\ TelemetryInv /\ AccessInv /\ VoteInv /\ VoteTyped /\ GuardsTyped
      /\ ConflictsInv /\ ConflictsTyped /\ DlpInv
      => TrustIsRight
      BY <1>1, <1>2, <1>3, <1>4, <1>5 DEF TrustIsRight
<1> QED
    BY <1>6, TrustDelegation, TrustAccess, TrustFederation, TrustRegistry, TrustFamily, TrustVault,
       TrustSchema, TrustGate, TrustTelemetry, TrustVote, TrustVoteTyped, TrustGuardsTyped,
       TrustConflicts, TrustConflictsTyped, TrustDlp, PTL
=============================================================================
