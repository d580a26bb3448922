---------------------------- MODULE AccessRights ----------------------------
(***************************************************************************)
(* What an identity may do: what others have delegated to it, and the      *)
(* scopes and rules of its own; and which others it has spawned.           *)
(***************************************************************************)
EXTENDS Integers, FiniteSets, SequencesExt

-----------------------------------------------------------------------------
(***************************************************************************)
(* Delegation tokens (identity/delegation.ts).  A token is a signed        *)
(* statement that its bearer keeps; the manager remembers in memory which  *)
(* tokens are active and which are revoked.  Two clocks meet: the manager  *)
(* forgets tokens to the millisecond, and verifies them to the second.     *)
(* delegationTime counts half seconds, so that both can be told apart.     *)
(* Signatures, audiences, scopes, resources and actions are left out:      *)
(* nothing compares those of a token with those of its parent.             *)
(***************************************************************************)

CONSTANTS
    Delegates,          \* agents
    DelegationFlows,    \* workflows that a token may be issued for
    DelegationRequests, \* what an issuer asks for, without the parent
    MaxDelegations,     \* bound: tokens issued
    MaxDelegationTime   \* bound: half seconds

ASSUME DelegationAssumption ==
    /\ MaxDelegations \in Nat /\ MaxDelegationTime \in Nat
    /\ DelegationRequests \subseteq
           [issuer : Delegates, subject : Delegates, flow : DelegationFlows,
            limit : Nat, seconds : Nat]

VARIABLES
    delegationTime,
    delegations,        \* what each token ever issued says, in the order of issue
    activeTokens,       \* keys of activeTokens
    revokedDelegations, \* revokedTokens
    toRevoke            \* history: tokens whose revocation was asked for

delegationVars == <<delegationTime, delegations, activeTokens, revokedDelegations, toRevoke>>

DelegationInit ==
    /\ delegationTime = 0 /\ delegations = <<>>
    /\ activeTokens = {} /\ revokedDelegations = {} /\ toRevoke = {}

Issued == DOMAIN delegations
NoToken == 0

\* A parent that is not active any more counts as none.
DepthUnder(parent) == IF parent \in activeTokens THEN delegations[parent].depth + 1 ELSE 0

\* A limit of 0 is none, as one that is not given.
WithinLimit(parent) ==
    parent \in activeTokens /\ delegations[parent].limit # 0 =>
        DepthUnder(parent) <= delegations[parent].limit

\* Nobody looks at who issues, or compares the lifetime with the parent's.
IssueDelegationToken(request, parent) ==
    /\ Len(delegations) < MaxDelegations
    /\ WithinLimit(parent)
    /\ delegations' = Append(delegations,
            [issuer |-> request.issuer, subject |-> request.subject, flow |-> request.flow,
             limit |-> request.limit, depth |-> DepthUnder(parent),
             above |-> IF parent \in activeTokens THEN parent ELSE NoToken,
             expires |-> delegationTime + 2 * request.seconds])
    /\ activeTokens' = activeTokens \cup {Len(delegations) + 1}
    /\ UNCHANGED <<delegationTime, revokedDelegations, toRevoke>>

\* To the second: the claims carry the floor of the expiry.
Verifies(t) ==
    /\ t \notin revokedDelegations
    /\ ~ (delegations[t].expires \div 2 < delegationTime \div 2)

\* To the millisecond.
Lapsed(t) == delegations[t].expires < delegationTime

TokensOfAgent(a) == {t \in activeTokens : a \in {delegations[t].subject, delegations[t].issuer}}
TokensOfFlow(f) == {t \in activeTokens : delegations[t].flow = f}

\* Only what is still active can be revoked.
RevokeActive(tokens) ==
    /\ revokedDelegations' = revokedDelegations \cup tokens
    /\ activeTokens' = activeTokens \ tokens
    /\ UNCHANGED <<delegationTime, delegations>>

RevokeDelegation(t) ==
    /\ RevokeActive({t} \cap activeTokens)
    /\ toRevoke' = toRevoke \cup {t}

RevokeAllTokensForAgent(a) ==
    /\ RevokeActive(TokensOfAgent(a))
    /\ toRevoke' = toRevoke \cup {t \in Issued : delegations[t].subject = a}
                            \cup {t \in Issued : delegations[t].issuer = a}

RevokeWorkflowTokens(f) ==
    /\ RevokeActive(TokensOfFlow(f))
    /\ toRevoke' = toRevoke \cup {t \in Issued : delegations[t].flow = f}

ForgetExpiredDelegations ==
    /\ activeTokens' = {t \in activeTokens : ~Lapsed(t)}
    /\ UNCHANGED <<delegationTime, delegations, revokedDelegations, toRevoke>>

DelegationTick ==
    /\ delegationTime < MaxDelegationTime
    /\ delegationTime' = delegationTime + 1
    /\ UNCHANGED <<delegations, activeTokens, revokedDelegations, toRevoke>>

DelegationNext ==
    \/ \E request \in DelegationRequests, parent \in Issued \cup {NoToken} :
           IssueDelegationToken(request, parent)
    \/ \E t \in Issued : RevokeDelegation(t)
    \/ \E a \in Delegates : RevokeAllTokensForAgent(a)
    \/ \E f \in DelegationFlows : RevokeWorkflowTokens(f)
    \/ ForgetExpiredDelegations
    \/ DelegationTick

DelegationSpec == DelegationInit /\ [][DelegationNext]_delegationVars

-----------------------------------------------------------------------------
DelegationTypeOK ==
    /\ delegationTime \in 0 .. MaxDelegationTime
    /\ activeTokens \subseteq Issued /\ revokedDelegations \subseteq toRevoke

\* A token that was to be revoked is refused from then on.  The manager knows no token
\* that the cleanup has forgotten, but such a token lives for the rest of its second only.
RevokedIsRefused == \A t \in toRevoke : Verifies(t) => Lapsed(t)

\* Nobody but who asked for it, or time, takes a token away.
UnrevokedHolds == \A t \in Issued \ toRevoke : Lapsed(t) \/ (Verifies(t) /\ t \in activeTokens)

\* Where limits do not grow from token to token, the first one holds for what is issued
\* under the second, although only the direct parent is looked at when a token is issued.
LimitIsHandedDown ==
    \A t \in Issued :
        LET second == delegations[t].above
            first == IF second = NoToken THEN NoToken ELSE delegations[second].above
        IN first # NoToken /\ delegations[second].limit \in 1 .. delegations[first].limit
               => delegations[t].depth <= delegations[first].limit

DelegationsHold == RevokedIsRefused /\ UnrevokedHolds /\ LimitIsHandedDown

-----------------------------------------------------------------------------
(***************************************************************************)
(* What an identity may do: the scopes it was granted (identity/scopes.ts) *)
(* and the rules over them (identity/workload-iam.ts), which the start-up  *)
(* of the identity system registers (identity/initialization.ts).  Who     *)
(* asks, and which resources a pattern matches, are data; so are           *)
(* locations, tags and identity patterns, which work as environments do.   *)
(***************************************************************************)

CONSTANTS
    Holders,       \* identities
    ScopeLists,    \* lists of [resource, level] that may be granted
    AskedFor,     \* [type, sensitivity] of what is asked for
    Contexts,      \* [environment, risk, blast, hours] of a request
    ExtraRules,    \* rules that somebody registers beside the default ones
    DefaultIamRules, \* what registerDefaultPolicies registers, in its order
    RemovableIds,  \* identifiers of rules that somebody removes
    Matches,       \* Matches[pattern]: the resource types that it matches
    MaxExtra,      \* bound: extra rules registered
    MaxIamRules    \* bound: rules registered

LevelRank == [read |-> 1, write |-> 2, execute |-> 3, admin |-> 4]

ASSUME AccessAssumption ==
    /\ ScopeLists \subseteq Seq([resource : DOMAIN Matches, level : DOMAIN LevelRank])
    /\ DefaultIamRules \in Seq(Range(DefaultIamRules))
    /\ \A rule \in ExtraRules \cup Range(DefaultIamRules) : rule.priority \in Int

VARIABLES
    scopeGrants,        \* the grant of each identity, or NoGrant
    iamRules,      \* policies, each with the number of its registration
    registered,    \* history: the rules registered so far, in that order
    removed        \* history: the numbers of those that were removed

accessVars == <<scopeGrants, iamRules, registered, removed>>

NoGrant == [scopes |-> <<>>, expiry |-> "none"]
Sensitivity == [public |-> 1, internal |-> 2, confidential |-> 3, restricted |-> 4]

\* The place of a rule in a stable sort by priority.
SortsBefore(list, j, k) ==
    \/ list[j].rule.priority < list[k].rule.priority
    \/ list[j].rule.priority = list[k].rule.priority /\ j < k

SortedPlace(list, k) == Cardinality({j \in DOMAIN list : SortsBefore(list, j, k)}) + 1

SortedByPriority(list) ==
    [m \in DOMAIN list |-> list[CHOOSE k \in DOMAIN list : SortedPlace(list, k) = m]]

\* registerPolicy, rule by rule: each is pushed, and the list sorted, which comes to sorting
\* once.  The rules get the numbers after n.
WithRules(list, rules, n) ==
    SortedByPriority(list \o [k \in DOMAIN rules |-> [rule |-> rules[k], n |-> n + k]])

\* getWorkloadIAM registers the default rules.
AccessInit ==
    /\ scopeGrants = [h \in Holders |-> NoGrant]
    /\ iamRules = WithRules(<<>>, DefaultIamRules, 0)
    /\ registered = DefaultIamRules
    /\ removed = {}

\* One grant per identity; a new one replaces it.
GrantScopes(h, scopes, expiry) ==
    /\ scopeGrants' = [scopeGrants EXCEPT ![h] = [scopes |-> scopes, expiry |-> expiry]]
    /\ UNCHANGED <<iamRules, registered, removed>>

RevokeScopes(h) ==
    /\ scopeGrants' = [scopeGrants EXCEPT ![h] = NoGrant]
    /\ UNCHANGED <<iamRules, registered, removed>>

GrantExpires(h) ==
    /\ scopeGrants[h].expiry = "later"
    /\ scopeGrants' = [scopeGrants EXCEPT ![h].expiry = "past"]
    /\ UNCHANGED <<iamRules, registered, removed>>

\* On a timer, and for one identity whenever its scopes are read.
WithoutExpired(gs) == [h \in Holders |-> IF gs[h].expiry = "past" THEN NoGrant ELSE gs[h]]

CleanupExpired ==
    /\ scopeGrants' = WithoutExpired(scopeGrants)
    /\ UNCHANGED <<iamRules, registered, removed>>

GetScopes(h) == IF scopeGrants[h].expiry = "past" THEN <<>> ELSE scopeGrants[h].scopes

\* The highest level that a scope for the resource has, or 0.
BestMatch(h, type) ==
    Max({LevelRank[s.level] : s \in {s \in Range(GetScopes(h)) : type \in Matches[s.resource]}} \cup {0})

ScopeAllows(h, type, level) == BestMatch(h, type) >= LevelRank[level]

\* Each condition that the rule has must be met; what a request does not know meets it.
\* The maxima are conditions as the others are: a rule decides what is not above them.
PolicyMatches(rule, h, resource, context) ==
    /\ rule.scope # <<>> => ScopeAllows(h, rule.scope[1], rule.scope[2])
    /\ context.environment \in rule.environments
    /\ context.risk <= rule.maxRisk /\ context.blast <= rule.maxBlast
    /\ rule.hoursOnly => context.hours
    /\ Sensitivity[resource.sensitivity] \in rule.sensitivities

Applies(rule, h, resource, context) ==
    rule.enabled /\ PolicyMatches(rule, h, resource, context)

\* The first rule that applies decides.
Evaluate(h, resource, level, context) ==
    IF ~ScopeAllows(h, resource.type, level) THEN "deny"
    ELSE LET k == SelectInSeq(iamRules, LAMBDA e : Applies(e.rule, h, resource, context))
         IN IF k = 0 THEN "allow" ELSE iamRules[k].rule.decision

RegisterPolicy(rule) ==
    /\ Len(SelectSeq(registered, LAMBDA r : r \in ExtraRules)) < MaxExtra
    /\ registered' = registered \o <<rule>>
    /\ iamRules' = WithRules(iamRules, <<rule>>, Len(registered))
    /\ UNCHANGED <<scopeGrants, removed>>

\* The start-up registers the default rules once more.
InitializeDefaultPolicies ==
    /\ Len(registered) + Len(DefaultIamRules) <= MaxIamRules
    /\ registered' = registered \o DefaultIamRules
    /\ iamRules' = WithRules(iamRules, DefaultIamRules, Len(registered))
    /\ UNCHANGED <<scopeGrants, removed>>

\* The first of those that have the identifier.
RemovePolicy(id) ==
    LET k == SelectInSeq(iamRules, LAMBDA e : e.rule.id = id) IN
    /\ k # 0
    /\ removed' = removed \cup {iamRules[k].n}
    /\ iamRules' = RemoveAt(iamRules, k)
    /\ UNCHANGED <<scopeGrants, registered>>

AccessNext ==
    \/ \E h \in Holders :
          \/ \E scopes \in ScopeLists, expiry \in {"never", "later"} : GrantScopes(h, scopes, expiry)
          \/ RevokeScopes(h) \/ GrantExpires(h)
    \/ CleanupExpired
    \/ \E r \in ExtraRules : RegisterPolicy(r)
    \/ InitializeDefaultPolicies
    \/ \E id \in RemovableIds : RemovePolicy(id)

AccessSpec == AccessInit /\ [][AccessNext]_accessVars

-----------------------------------------------------------------------------
AccessTypeOK ==
    /\ \A h \in Holders : scopeGrants[h].expiry \in {"none", "never", "later", "past"}
    /\ removed \subseteq DOMAIN registered
    /\ Len(iamRules) = Len(registered) - Cardinality(removed)

\* An identity may do what some scope of its grant allows, in whatever order the scopes
\* were given; and whether the cleanup has been there already makes no difference.
GrantsAreRead ==
    \A h \in Holders, resource \in AskedFor, level \in DOMAIN LevelRank :
        ScopeAllows(h, resource.type, level) <=>
            /\ scopeGrants[h].expiry # "past"
            /\ \E s \in Range(scopeGrants[h].scopes) :
                   resource.type \in Matches[s.resource] /\ LevelRank[s.level] >= LevelRank[level]

\* What decides is the matching rule that comes first by priority, then by age, of those
\* registered and not removed, whenever they were registered and removed.
RulesDecide ==
    \A h \in Holders, resource \in AskedFor, level \in DOMAIN LevelRank, context \in Contexts :
        LET matching == {n \in DOMAIN registered \ removed : Applies(registered[n], h, resource, context)}
            first == CHOOSE n \in matching : \A k \in matching :
                         \/ registered[n].priority < registered[k].priority
                         \/ registered[n].priority = registered[k].priority /\ n <= k
        IN Evaluate(h, resource, level, context) =
               IF ~ScopeAllows(h, resource.type, level) THEN "deny"
               ELSE IF matching = {} THEN "allow" ELSE registered[first].decision

-----------------------------------------------------------------------------
(***************************************************************************)
(* Who spawned whom (identity/genealogy.ts).  Registering an agent again   *)
(* replaces its record, without the children it had, and notes it once     *)
(* more with its parent; a parent that is not registered is named, and     *)
(* counts as none.                                                         *)
(***************************************************************************)

CONSTANTS
    Spawned,          \* agents
    NoParent,
    MaxRegistrations  \* bound

ASSUME FamilyAssumption == NoParent \notin Spawned /\ MaxRegistrations \in Nat

VARIABLES
    family,           \* agent -> [parent, children, depth, born], of those registered; born,
                      \* the number of the registration, is history
    registrations,
    orderly           \* history: each was registered once, after the parent that it names

familyVars == <<family, registrations, orderly>>

FamilyInit == family = <<>> /\ registrations = 0 /\ orderly = TRUE

\* An agent that names itself finds the record that is about to be replaced.
Register(a, p) ==
    LET known == p \in DOMAIN family
        record == [parent |-> p, children |-> <<>>,
                   depth |-> IF known THEN family[p].depth + 1 ELSE 0,
                   born |-> registrations + 1]
    IN
    /\ registrations < MaxRegistrations /\ registrations' = registrations + 1
    /\ orderly' = (orderly /\ a \notin DOMAIN family /\ (known \/ p = NoParent))
    /\ family' = [x \in DOMAIN family \cup {a} |->
                    IF x = a THEN record
                    ELSE IF x = p THEN [family[x] EXCEPT !.children = Append(@, a)]
                    ELSE family[x]]

FamilyNext == \E a \in Spawned, p \in Spawned \cup {NoParent} : Register(a, p)

FamilySpec == FamilyInit /\ [][FamilyNext]_familyVars

\* getAncestors, of the first n steps up.
Ascent(a, n) ==
    LET up[m \in 0 .. n] ==
            IF m = 0 THEN <<a>>
            ELSE LET p == family[Last(up[m - 1])].parent
                 IN IF p \in DOMAIN family THEN Append(up[m - 1], p) ELSE up[m - 1]
    IN Tail(up[n])

Ancestors(a) == Ascent(a, MaxRegistrations)

\* Whoever goes up comes back, and the loop never ends.
ClimbsForEver(a) == Len(Ancestors(a)) = MaxRegistrations

\* getDescendants, breadth first: whoever is listed twice comes twice.
DescendantsOf(a) ==
    LET level[n \in 0 .. MaxRegistrations] ==
            IF n = 0 THEN <<a>>
            ELSE FlattenSeq([k \in DOMAIN level[n - 1] |-> family[level[n - 1][k]].children])
    IN FlattenSeq([n \in 1 .. MaxRegistrations |-> level[n]])

RootOf(a) == IF Ancestors(a) = <<>> THEN a ELSE Last(Ancestors(a))

Lineage(a) == Append(Reverse(Ancestors(a)), a)

IsAncestor(a, d) == a \in Range(Ancestors(d))

Roots == {a \in DOMAIN family : family[a].parent = NoParent}

DeepestOf(agents) == Max({family[a].depth : a \in agents} \cup {0})

-----------------------------------------------------------------------------
FamilyTypeOK ==
    /\ registrations \in 0 .. MaxRegistrations /\ orderly \in BOOLEAN
    /\ DOMAIN family \subseteq Spawned
    /\ \A a \in DOMAIN family :
          family[a] \in [parent : Spawned \cup {NoParent}, children : Seq(Spawned),
                         depth : Nat, born : 1 .. registrations]

\* Whatever is registered in whatever order, a child's record is younger than the record
\* that lists it: so the way down, unlike the way up, never comes back, and getDescendants
\* ends.
ChildrenAreYounger ==
    \A a \in DOMAIN family : \A c \in Range(family[a].children) :
        c \in DOMAIN family /\ family[a].born < family[c].born

\* And nobody is its own descendant.
DescentEnds == \A a \in DOMAIN family : a \notin Range(DescendantsOf(a))

\* While each is registered once, and after its parent, the way up and the way down agree:
\* the radius of a blast counts each of those that would name the agent above it, once;
\* depth is the length of the way up, which leads to a root.
OrderlyFamiliesAgree ==
    orderly =>
        /\ \A a, d \in DOMAIN family : IsAncestor(a, d) <=> d \in Range(DescendantsOf(a))
        /\ \A a \in DOMAIN family :
              /\ ~ClimbsForEver(a)
              /\ IsInjective(DescendantsOf(a))
              /\ family[a].depth = Len(Ancestors(a))
              /\ RootOf(a) \in Roots /\ Head(Lineage(a)) = RootOf(a)
        /\ \A d \in DOMAIN family :
              family[d].depth = DeepestOf(DOMAIN family) => family[d].children = <<>>
=============================================================================
