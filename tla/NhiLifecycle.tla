---------------------------- MODULE NhiLifecycle ----------------------------
(***************************************************************************)
(* Machine identities (identity/nhi-lifecycle.ts) with their scope grants  *)
(* (identity/scopes.ts) and the emergency revocation                       *)
(* (identity/revocation.ts).  An operation runs up to its first await and  *)
(* goes on later, when other callers may have come in between; what        *)
(* follows the await of a rotation and of a decommissioning changes the    *)
(* identity again.  Every identity has a SPIFFE ID of its own.             *)
(***************************************************************************)
EXTENDS FiniteSets

CONSTANT Identities   \* identities that may be provisioned

VARIABLES
    state,       \* NHIState of each identity, or "none"
    grants,      \* identities whose SPIFFE ID has an entry in the scope manager
    expires,     \* expiresAt, of the record and of its grant: "never", "later" or "past"
    rotationDue, \* identities last rotated more than rotationPolicyDays ago
    resuming,    \* awaits to come back from: <<operation, identity>>
    killing,     \* identities that the kill switch has still to revoke
    monitoring   \* the interval timer is set

nhiVars == <<state, grants, expires, rotationDue, resuming, killing, monitoring>>

NhiStates == {"active", "rotating", "suspended", "revoked", "decommissioned"}
Operations == {"rotate", "decommission", "revokeIdentity"}

NhiInit ==
    /\ state = [i \in Identities |-> "none"]
    /\ grants = {} /\ rotationDue = {} /\ resuming = {} /\ killing = {}
    /\ expires = [i \in Identities |-> "never"]
    /\ monitoring = TRUE

Known(i) == state[i] # "none"
MovesTo(i, s) == state' = [state EXCEPT ![i] = s]

\* Granted and active before anyone else sees the record.
Provision(i) ==
    /\ ~Known(i)
    /\ MovesTo(i, "active")
    /\ grants' = grants \cup {i}
    /\ \E e \in {"never", "later"} : expires' = [expires EXCEPT ![i] = e]
    /\ UNCHANGED <<rotationDue, resuming, killing, monitoring>>

\* Other states throw.  Nothing but the state changes before the await.
Rotate(i) ==
    /\ state[i] = "active"
    /\ MovesTo(i, "rotating")
    /\ resuming' = resuming \cup {<<"rotate", i>>}
    /\ UNCHANGED <<grants, expires, rotationDue, killing, monitoring>>

\* Whatever has become of the identity, it is active when its rotation ends.
FinishRotation(i) ==
    /\ <<"rotate", i>> \in resuming
    /\ resuming' = resuming \ {<<"rotate", i>>}
    /\ grants' = grants \cup {i}
    /\ MovesTo(i, "active")
    /\ rotationDue' = rotationDue \ {i}
    /\ \E e \in {expires[i], "later"} : expires' = [expires EXCEPT ![i] = e]
    /\ UNCHANGED <<killing, monitoring>>

\* In any state.
Suspend(i) ==
    /\ Known(i)
    /\ grants' = grants \ {i}
    /\ MovesTo(i, "suspended")
    /\ UNCHANGED <<expires, rotationDue, resuming, killing, monitoring>>

Resume(i) ==
    /\ state[i] = "suspended"
    /\ grants' = grants \cup {i}
    /\ MovesTo(i, "active")
    /\ UNCHANGED <<expires, rotationDue, resuming, killing, monitoring>>

Revoke(i) ==
    /\ Known(i)
    /\ grants' = grants \ {i}
    /\ MovesTo(i, "revoked")
    /\ UNCHANGED <<expires, rotationDue, resuming, killing, monitoring>>

\* Revoked first, which has an await, unless it is revoked already.
Decommission(i) ==
    /\ Known(i)
    /\ IF state[i] = "revoked"
       THEN MovesTo(i, "decommissioned") /\ UNCHANGED <<grants, resuming>>
       ELSE /\ MovesTo(i, "revoked")
            /\ grants' = grants \ {i}
            /\ resuming' = resuming \cup {<<"decommission", i>>}
    /\ UNCHANGED <<expires, rotationDue, killing, monitoring>>

FinishDecommission(i) ==
    /\ <<"decommission", i>> \in resuming
    /\ resuming' = resuming \ {<<"decommission", i>>}
    /\ MovesTo(i, "decommissioned")
    /\ UNCHANGED <<grants, expires, rotationDue, killing, monitoring>>

\* EmergencyRevocationSystem.revokeIdentity: through the manager, and once more
\* in the scope manager when that has come back.
RevokeIdentity(i) ==
    /\ Known(i)
    /\ grants' = grants \ {i}
    /\ MovesTo(i, "revoked")
    /\ resuming' = resuming \cup {<<"revokeIdentity", i>>}
    /\ UNCHANGED <<expires, rotationDue, killing, monitoring>>

FinishRevokeIdentity(i) ==
    /\ <<"revokeIdentity", i>> \in resuming
    /\ resuming' = resuming \ {<<"revokeIdentity", i>>}
    /\ grants' = grants \ {i}
    /\ UNCHANGED <<state, expires, rotationDue, killing, monitoring>>

\* The identities listed at the start, one after the other.
KillSwitch ==
    /\ killing = {}
    /\ killing' = {i \in Identities : Known(i)}
    /\ UNCHANGED <<state, grants, expires, rotationDue, resuming, monitoring>>

KillNext(i) ==
    /\ i \in killing
    /\ killing' = killing \ {i}
    /\ grants' = grants \ {i}
    /\ MovesTo(i, "revoked")
    /\ UNCHANGED <<expires, rotationDue, resuming, monitoring>>

Overdue == {i \in Identities : state[i] = "active" /\ expires[i] = "past"}

\* Mutation. Rotations are looked at first, so what is due is not active any more.
ToExpireUnrotated == {i \in Overdue : i \notin rotationDue}

ToExpire == Overdue

\* checkExpirations, then checkRotations, in one timer callback: no await is left
\* to come back from when a timer fires.
Monitor ==
    /\ monitoring /\ resuming = {} /\ killing = {}
    /\ LET rotated == {i \in rotationDue : state[i] = "active"} \ ToExpire IN
       /\ state' = [i \in Identities |-> IF i \in ToExpire THEN "revoked"
                                         ELSE IF i \in rotated THEN "rotating" ELSE state[i]]
       /\ resuming' = {<<"rotate", i>> : i \in rotated}
    /\ grants' = grants \ ToExpire
    /\ UNCHANGED <<expires, rotationDue, killing, monitoring>>

\* startMonitoring and stopMonitoring.
SetMonitoring(on) ==
    /\ monitoring' = on
    /\ UNCHANGED <<state, grants, expires, rotationDue, resuming, killing>>

\* A grant past its time goes at the next look or at the five-minute cleanup.
DropExpiredGrant(i) ==
    /\ i \in grants /\ expires[i] = "past"
    /\ grants' = grants \ {i}
    /\ UNCHANGED <<state, expires, rotationDue, resuming, killing, monitoring>>

TimePasses(i) ==
    /\ Known(i) /\ resuming = {} /\ killing = {}
    /\ \/ expires[i] = "later" /\ expires' = [expires EXCEPT ![i] = "past"]
          /\ UNCHANGED rotationDue
       \/ rotationDue' = rotationDue \cup {i} /\ UNCHANGED expires
    /\ UNCHANGED <<state, grants, resuming, killing, monitoring>>

NhiNext ==
    \/ \E i \in Identities :
          \/ Provision(i) \/ Rotate(i) \/ Suspend(i) \/ Resume(i) \/ Revoke(i)
          \/ Decommission(i) \/ RevokeIdentity(i)
          \/ FinishRotation(i) \/ FinishDecommission(i) \/ FinishRevokeIdentity(i)
          \/ KillNext(i) \/ DropExpiredGrant(i) \/ TimePasses(i)
    \/ KillSwitch \/ Monitor
    \/ \E on \in BOOLEAN : SetMonitoring(on)

\* Awaits come back; they are promise callbacks, which the event loop drains before
\* it looks at its timers, and the interval timer fires again and again.
NhiFairness ==
    /\ \A i \in Identities :
          /\ WF_nhiVars(FinishRotation(i)) /\ WF_nhiVars(FinishDecommission(i))
          /\ WF_nhiVars(FinishRevokeIdentity(i)) /\ WF_nhiVars(KillNext(i))
    /\ []<>(resuming = {} /\ killing = {})
    /\ SF_nhiVars(Monitor)

NhiSpec == NhiInit /\ [][NhiNext]_nhiVars /\ NhiFairness

-----------------------------------------------------------------------------
NhiTypeOK ==
    /\ state \in [Identities -> NhiStates \cup {"none"}]
    /\ grants \subseteq Identities /\ rotationDue \subseteq Identities
    /\ killing \subseteq Identities
    /\ expires \in [Identities -> {"never", "later", "past"}]
    /\ resuming \subseteq Operations \X Identities
    /\ monitoring \in BOOLEAN

\* An identity that is suspended or revoked has no scopes, also when it became so in
\* the middle of a rotation, which grants them again.
SuspendedHoldsNothing ==
    \A i \in Identities : state[i] \in {"suspended", "revoked"} => i \notin grants

\* An identity does not stay active past its time, however often it is rotated.
ExpiredIsRevoked ==
    \A i \in Identities :
        state[i] = "active" /\ expires[i] = "past" ~>
            \/ state[i] \in {"suspended", "revoked", "decommissioned"}
            \/ expires[i] # "past" \/ ~monitoring
=============================================================================
