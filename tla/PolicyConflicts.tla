-------------------------- MODULE PolicyConflicts ---------------------------
(***************************************************************************)
(* Conflicts between policy rules, and what is suggested about them        *)
(* (gateway/policy-conflict-detector.ts), next to what the rules decide    *)
(* (gateway/policy-engine.ts, evaluateIntent).  A condition is the words   *)
(* of a conjunction; an intent is what is true of it.  Whoever asks for an *)
(* analysis takes the suggestions that can be taken without a human, one   *)
(* after the other, while the analysis grows old.                          *)
(***************************************************************************)
EXTENDS Integers, FiniteSets, SequencesExt

CONSTANTS
    RuleTables,      \* tables of rules: [id, condition, action, risk, priority, enabled]
    JudgedIntents,   \* sets of words that are true of an intent
    MaxResolutions   \* bound

RuleFields == {"id", "condition", "action", "risk", "priority", "enabled"}

\* A table has one rule of an identifier.
IsRuleTable(table) ==
    /\ table \in Seq(Range(table))
    /\ \A k \in DOMAIN table :
          /\ DOMAIN table[k] = RuleFields
          /\ table[k].priority \in Int /\ table[k].enabled \in BOOLEAN
    /\ \A i, j \in DOMAIN table : i # j => table[i].id # table[j].id

ASSUME ConflictsAssumption == MaxResolutions \in Nat /\ \A table \in RuleTables : IsRuleTable(table)

VARIABLES
    policyRules,     \* the rules as they are
    analysed,        \* the rules of the analysis, in its order
    conflicts,
    resolutions

conflictVars == <<policyRules, analysed, conflicts, resolutions>>

And == "&&"
AlwaysTrue == "1===1"
NeverTrue == "true===false"

\* sort is stable: of one priority, what came first stays first.
Above(list, j, k) ==
    \/ list[j].priority > list[k].priority
    \/ list[j].priority = list[k].priority /\ j < k

RankOf(list, k) == Cardinality({j \in DOMAIN list : Above(list, j, k)}) + 1
SortedRules(list) == [n \in DOMAIN list |-> list[CHOOSE k \in DOMAIN list : RankOf(list, k) = n]]

Words(r) == Range(r.condition)
Common(r, s) == Len(SelectSeq(r.condition, LAMBDA w : w \in Words(s)))
AllWords(r, s) == Len(r.condition) + Len(s.condition)

\* Twice the common words over all words: more than 0.7, and between 0.3 and 0.7.
Similar(r, s) == 20 * Common(r, s) > 7 * AllWords(r, s)
Overlap(r, s) == /\ 20 * Common(r, s) > 3 * AllWords(r, s)
                 /\ 20 * Common(r, s) < 7 * AllWords(r, s)

\* A number compared with itself passes for impossible, as if it were false.
LooksImpossible(r) == {AlwaysTrue, NeverTrue} \cap Words(r) # {}

Signature(r) == <<r.condition, r.action, r.risk>>

Conflict(type, severity, ids, auto) ==
    [type |-> type, severity |-> severity, ids |-> ids, auto |-> auto]

Pairs(list) == {p \in (DOMAIN list) \X DOMAIN list : p[1] < p[2]}

\* What each pair, the rule of higher priority first, is reported for.
PairConflicts(h, l) ==
    {c \in {Conflict("contradictory", "critical", <<h.id, l.id>>, FALSE)} :
        Similar(h, l) /\ {h.action, l.action} = {"allow", "deny"}}
    \cup {c \in {Conflict("shadowed", "high", <<h.id, l.id>>, FALSE)} : Words(l) \subseteq Words(h)}
    \cup {c \in {Conflict("overlapping", "medium", <<h.id, l.id>>, FALSE)} :
            Overlap(h, l) /\ h.action # l.action}
    \cup {c \in {Conflict("priority_conflict", "high", <<h.id, l.id>>, TRUE)} :
            Similar(h, l) /\ h.action = "allow" /\ l.action = "deny"}

\* Each copy is reported with the first of them.
Redundancies(list) ==
    {Conflict("redundant", "medium", <<list[p[1]].id, list[p[2]].id>>, TRUE) :
        p \in {q \in Pairs(list) :
            /\ Signature(list[q[1]]) = Signature(list[q[2]])
            /\ \A k \in 1 .. q[1] - 1 : Signature(list[k]) # Signature(list[q[1]])}}

Unreachables(list) ==
    {Conflict("unreachable", "low", <<list[k].id>>, TRUE) :
        k \in {i \in DOMAIN list : ~list[i].enabled}}
    \cup {Conflict("unreachable", "medium", <<list[k].id>>, FALSE) :
        k \in {i \in DOMAIN list : LooksImpossible(list[i])}}

ConflictsOf(list) ==
    (UNION {PairConflicts(list[p[1]], list[p[2]]) : p \in Pairs(list)})
        \cup Redundancies(list) \cup Unreachables(list)

\* In halves, as a disabled rule costs one half; and rounded.
HealthScore(found) ==
    LET Of(severity) == Cardinality({c \in found : c.severity = severity})
        lost == 20 * Of("critical") + 10 * Of("high") + 4 * Of("medium") + Of("low")
    IN (Max({0, 200 - lost}) + 1) \div 2

ConflictsInit ==
    /\ policyRules \in RuleTables
    /\ analysed = <<>> /\ conflicts = {} /\ resolutions = 0

Analyze ==
    /\ resolutions < MaxResolutions /\ resolutions' = resolutions + 1
    /\ analysed' = SortedRules(policyRules)
    /\ conflicts' = ConflictsOf(SortedRules(policyRules))
    /\ UNCHANGED policyRules

Known(id) == \E k \in DOMAIN policyRules : policyRules[k].id = id
PlaceOf(id) == CHOOSE k \in DOMAIN policyRules : policyRules[k].id = id
RuleOf(id) == policyRules[PlaceOf(id)]
Without(id) == IF Known(id) THEN RemoveAt(policyRules, PlaceOf(id)) ELSE policyRules

Reprioritised(priorities) ==
    [k \in DOMAIN policyRules |->
        [policyRules[k] EXCEPT !.priority =
            IF policyRules[k].id \in DOMAIN priorities THEN priorities[policyRules[k].id] ELSE @]]

\* suggestResolution, with the rules as they are now, and what it suggests is done.
Resolve(c) ==
    /\ c.auto /\ resolutions < MaxResolutions /\ resolutions' = resolutions + 1
    /\ \/ /\ c.type = "redundant" /\ Known(c.ids[1]) /\ Known(c.ids[2])
          /\ policyRules' = IF RuleOf(c.ids[1]).priority < RuleOf(c.ids[2]).priority
                      THEN Without(c.ids[1]) ELSE Without(c.ids[2])
       \/ /\ c.type = "priority_conflict"
          /\ policyRules' = Reprioritised([id \in Range(c.ids) |-> IF id = c.ids[1] THEN 90 ELSE 95])
       \/ /\ c.type = "unreachable"
          /\ policyRules' = Without(c.ids[1])
    /\ UNCHANGED <<analysed, conflicts>>

ConflictsNext == Analyze \/ \E c \in conflicts : Resolve(c)

ConflictsSpec == ConflictsInit /\ [][ConflictsNext]_conflictVars

\* evaluateIntent: every rule that is enabled and matches counts, whatever its priority.
Holds(r, intent) ==
    \A w \in Words(r) \ {And} : w = AlwaysTrue \/ (w # NeverTrue /\ w \in intent)

Decision(list, intent) ==
    LET matching == {k \in DOMAIN list : list[k].enabled /\ Holds(list[k], intent)} IN
    [allowed |-> \A k \in matching : list[k].action # "deny",
     requiresApproval |-> \E k \in matching : list[k].action = "require_approval",
     risks |-> {list[k].risk : k \in {i \in matching : list[i].action = "require_approval"}}]

-----------------------------------------------------------------------------
ConflictsTypeOK ==
    /\ resolutions \in 0 .. MaxResolutions
    /\ HealthScore(conflicts) \in 0 .. 100
    /\ \A c \in conflicts : Len(c.ids) \in 1 .. 2
    /\ IsRuleTable(policyRules)

\* A copy of a rule is enabled like the rule.
CopiesAreAlike ==
    \A r, s \in Range(analysed) : Signature(r) = Signature(s) => r.enabled = s.enabled

\* What is resolved without a human decides nothing anew, however many suggestions are
\* taken, of however old an analysis: as long as copies are alike.  (The copy that is
\* enabled can be taken for the redundant one, and the one that is not for unreachable.)
ResolutionsDecideNothing ==
    analysed # <<>> /\ CopiesAreAlike =>
        \A intent \in JudgedIntents : Decision(policyRules, intent) = Decision(analysed, intent)

\* What is said never to execute, as a rule above it shadows it, matches whatever that rule
\* matches: what is found is a rule at least as wide, and never a dead one.
ShadowedIsWider ==
    \A c \in {x \in conflicts : x.type = "shadowed"} :
        \A h, l \in Range(analysed) : h.id = c.ids[1] /\ l.id = c.ids[2] =>
            \A intent \in JudgedIntents : Holds(h, intent) => Holds(l, intent)
=============================================================================
