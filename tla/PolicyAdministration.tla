------------------------ MODULE PolicyAdministration ------------------------
(***************************************************************************)
(* Who may change a policy, and what becomes of its earlier versions.      *)
(***************************************************************************)
EXTENDS Naturals, FiniteSets, Sequences

-----------------------------------------------------------------------------
(***************************************************************************)
(* The gateway's policy versioning manager: per rule, a list of versions   *)
(* that is only appended to, semantic version numbers computed from the    *)
(* last entry, and a pointer to the current number.  Rolling back copies   *)
(* an old rule into a new version; rejecting a version rolls back to the   *)
(* one before the last.  Rules keep apart, so the model has one of them.   *)
(***************************************************************************)

CONSTANTS
    Contents,       \* what a rule may say
    MaxHistory      \* bound on the versions of the rule

ASSUME PolicyVersioningAssumption == MaxHistory \in Nat

VARIABLES
    ruleVersions,    \* the versions, oldest first
    currentVersion   \* number of the current one, <<>> when there is none

versioningVars == <<ruleVersions, currentVersion>>

VersioningInit == ruleVersions = <<>> /\ currentVersion = <<>>

LastVersion == ruleVersions[Len(ruleVersions)]

First == <<1, 0, 0>>

CalculateNextVersion(changeType) ==
    IF ruleVersions = <<>> \/ changeType = "created" THEN First
    ELSE LET n == LastVersion.version IN
         CASE changeType = "updated"  -> <<n[1], n[2] + 1, 0>>
           [] changeType = "rollback" -> <<n[1], n[2], n[3] + 1>>
           [] changeType = "deleted"  -> <<n[1] + 1, 0, 0>>

\* createVersion; every change may be of any type, at the caller's word.
CreateVersion(content, changeType) ==
    LET next == CalculateNextVersion(changeType) IN
    /\ Len(ruleVersions) < MaxHistory
    /\ ruleVersions' = Append(ruleVersions,
           [version |-> next, content |-> content, changeType |-> changeType,
            approved |-> FALSE])
    /\ currentVersion' = next

\* getVersion: the first of that number.
Named(n) == {k \in DOMAIN ruleVersions : ruleVersions[k].version = n}
GetVersion(n) == CHOOSE k \in Named(n) : \A j \in Named(n) : k <= j

Rollback(n) ==
    /\ Named(n) # {}
    /\ CreateVersion(ruleVersions[GetVersion(n)].content, "rollback")

\* approveVersion, of any version that exists.
ApproveVersion(n) ==
    /\ Named(n) # {}
    /\ ruleVersions' = [ruleVersions EXCEPT ![GetVersion(n)].approved = TRUE]
    /\ UNCHANGED currentVersion

RejectVersion(n) ==
    /\ Named(n) # {}
    /\ Len(ruleVersions) >= 2
    /\ Rollback(ruleVersions[Len(ruleVersions) - 1].version)

VersioningNext ==
    \/ \E content \in Contents, changeType \in {"created", "updated", "deleted"} :
          CreateVersion(content, changeType)
    \/ \E k \in DOMAIN ruleVersions :
          LET n == ruleVersions[k].version IN
          Rollback(n) \/ ApproveVersion(n) \/ RejectVersion(n)

VersioningSpec == VersioningInit /\ [][VersioningNext]_versioningVars

-----------------------------------------------------------------------------
\* Type correctness of the version history.
VersioningTypeOK ==
    /\ Len(ruleVersions) <= MaxHistory
    /\ \A k \in DOMAIN ruleVersions : ruleVersions[k].content \in Contents

Older(m, n) ==
    \/ m[1] < n[1]
    \/ m[1] = n[1] /\ m[2] < n[2]
    \/ m[1] = n[1] /\ m[2] = n[2] /\ m[3] < n[3]

\* As long as a rule is created once, numbers only grow, whatever is rolled back,
\* rejected and deleted in between: a number names one version, so that what is
\* approved, tagged, compared or rolled back to is the one that was meant, and the
\* current version is the last.
NumberNamesOneVersion ==
    (\A k \in DOMAIN ruleVersions : k > 1 => ruleVersions[k].changeType # "created") =>
        /\ \A j, k \in DOMAIN ruleVersions :
              j < k => Older(ruleVersions[j].version, ruleVersions[k].version)
        /\ ruleVersions # <<>> => currentVersion = LastVersion.version

-----------------------------------------------------------------------------
(***************************************************************************)
(* Role-based access to policies in the gateway: roles with permissions    *)
(* and parents, bindings of roles to identities that may expire, kept in a *)
(* table by identifier and in an index by identity.  An identifier is      *)
(* made of the identity, the role and the millisecond, so that two         *)
(* bindings may share one.  Nobody asks the index for an order, or how     *)
(* often a binding is there.  A permission is its resource and actions,    *)
(* one value; resources and actions match by it.                           *)
(***************************************************************************)

CONSTANTS
    SpiffeIds,
    BuiltInRoles,      \* roles with permissions that exist from the start
    CustomRoles,
    MaxRbacTime,       \* bound on the clock
    MaxBindings        \* bound on the bindings of an identity

ASSUME RbacAssumption ==
    /\ MaxRbacTime \in Nat /\ MaxBindings \in Nat
    /\ BuiltInRoles \cap CustomRoles = {} /\ IsFiniteSet(BuiltInRoles)

VARIABLES
    inheritsFrom,        \* table of roles: each with its parents
    bindings,            \* table: the binding of each identifier
    spiffeIdToBindings,  \* index: the bindings of each identity
    ended,               \* bindings that were unbound, in the index or not
    rbacClock

rbacVars == <<inheritsFrom, bindings, spiffeIdToBindings, ended, rbacClock>>

Roles == BuiltInRoles \cup CustomRoles
Never == MaxRbacTime + 1

IdOf(b) == <<b.spiffeId, b.roleId, b.grantedAt>>

RbacInit ==
    /\ inheritsFrom = [r \in BuiltInRoles |-> {}]
    /\ bindings = {}
    /\ spiffeIdToBindings = [i \in SpiffeIds |-> {}]
    /\ ended = {}
    /\ rbacClock = 0

\* createRole, also of a role that exists; its parents must.
CreateRole(r, parents) ==
    /\ parents \subseteq DOMAIN inheritsFrom
    /\ inheritsFrom' = [q \in DOMAIN inheritsFrom \cup {r} |->
                           IF q = r THEN parents ELSE inheritsFrom[q]]
    /\ UNCHANGED <<bindings, spiffeIdToBindings, ended, rbacClock>>

\* bindRole: the table keeps the later of two with one identifier, the index both.
BindRole(i, r, expiresAt) ==
    LET b == [spiffeId |-> i, roleId |-> r, grantedAt |-> rbacClock, expiresAt |-> expiresAt] IN
    /\ r \in DOMAIN inheritsFrom
    /\ Cardinality(spiffeIdToBindings[i]) < MaxBindings
    /\ bindings' = {x \in bindings : IdOf(x) # IdOf(b)} \cup {b}
    /\ spiffeIdToBindings' = [spiffeIdToBindings EXCEPT ![i] = @ \cup {b}]
    /\ ended' = ended \ {b}
    /\ UNCHANGED <<inheritsFrom, rbacClock>>

\* The bindings of the index that unbinding those of B removes.
Removed(x, B) == \E b \in B : IdOf(x) = IdOf(b)

\* The bindings B are taken back, one unbindRole each.
Unbind(B) ==
    /\ bindings' = bindings \ B
    /\ spiffeIdToBindings' = [i \in SpiffeIds |->
           {x \in spiffeIdToBindings[i] : ~Removed(x, B)}]
    /\ ended' = ended \cup {x \in UNION {spiffeIdToBindings[i] : i \in SpiffeIds} : Removed(x, B)}
    /\ UNCHANGED <<inheritsFrom, rbacClock>>

UnbindRole(b) == b \in bindings /\ Unbind({b})

CleanupExpiredBindings ==
    LET expired == {b \in bindings : b.expiresAt <= rbacClock} IN
    expired # {} /\ Unbind(expired)

RbacTick ==
    /\ rbacClock < MaxRbacTime
    /\ rbacClock' = rbacClock + 1
    /\ UNCHANGED <<inheritsFrom, bindings, spiffeIdToBindings, ended>>

\* getRBACContext: the bindings of the index that have not expired.
ActiveBindings(i) == {b \in spiffeIdToBindings[i] : b.expiresAt > rbacClock}

\* collectPermissions: a walk over parents that visits a role once, and skips one
\* that is not there; roles may inherit from each other.
WithParents(R) ==
    R \cup UNION {inheritsFrom[r] : r \in R}
CollectPermissions(i) ==
    LET rounds == Cardinality(DOMAIN inheritsFrom)
        reached[n \in 0 .. rounds] ==
            IF n = 0 THEN {b.roleId : b \in ActiveBindings(i)} ELSE WithParents(reached[n - 1])
    IN reached[rounds]

RbacNext ==
    \/ \E r \in CustomRoles, parents \in SUBSET DOMAIN inheritsFrom : CreateRole(r, parents)
    \/ \E i \in SpiffeIds, r \in DOMAIN inheritsFrom, e \in {rbacClock + 1, Never} :
          BindRole(i, r, e)
    \/ \E b \in bindings : UnbindRole(b)
    \/ CleanupExpiredBindings \/ RbacTick

RbacSpec == RbacInit /\ [][RbacNext]_rbacVars

-----------------------------------------------------------------------------
\* Type correctness of the roles and bindings.
RbacTypeOK ==
    /\ DOMAIN inheritsFrom \in SUBSET Roles
    /\ \A i \in SpiffeIds : \A b \in spiffeIdToBindings[i] : b.spiffeId = i
    /\ bindings \cap ended = {}

\* An identity has no permission but through a binding that has neither expired
\* nor been taken back, also when two bindings share an identifier, when a role is
\* made anew with other parents and when roles inherit in a circle; and every
\* binding that grants something has its identifier in the table, where it can be
\* taken back.
PermissionsAreBacked ==
    \A i \in SpiffeIds :
        /\ \A b \in ActiveBindings(i) : b \notin ended
        /\ {IdOf(b) : b \in spiffeIdToBindings[i]}
               = {IdOf(b) : b \in {x \in bindings : x.spiffeId = i}}
        /\ WithParents(CollectPermissions(i)) = CollectPermissions(i)
=============================================================================
