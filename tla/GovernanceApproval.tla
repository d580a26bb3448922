------------------------- MODULE GovernanceApproval -------------------------
(***************************************************************************)
(* Human approval of single actions (ApprovalService.ts of src/src/        *)
(* governance/approval).  A request is voted on until enough approve or    *)
(* one denies, its timer fires or it is cancelled; an approval yields an   *)
(* override token that admits the action once.  Handlers run to their      *)
(* first wait, which is the sending of notifications.  Durations are       *)
(* abstract: a timer that is set may fire at any later moment, a token may *)
(* run out at any moment after it was made.                                *)
(***************************************************************************)
EXTENDS Naturals, FiniteSets

CONSTANTS
    Requests,             \* bound: requests ever made
    Requesters,           \* agents
    Approvers,
    MaxPendingPerAgent,   \* max_pending_per_agent
    MinApprovals          \* values of approval_config.min_approvals

ASSUME GovernanceApprovalAssumption ==
    /\ MaxPendingPerAgent \in Nat /\ Requesters # {}
    /\ MinApprovals \subseteq Nat \ {0}
    /\ IsFiniteSet(Requests) /\ IsFiniteSet(Approvers)

VARIABLES
    request,      \* status of each request; `unused' and `deleted' are not in the Map
    requester,    \* agent and min_approvals of each request
    needed,
    notifying,    \* requests whose creation waits for the notifications
    votes,        \* votes[r]: approver -> "approve" or "deny", for those who voted
    timers,       \* keys of timeoutTimers
    override,     \* state of the override token of each request
    uses          \* history: how often each override token was accepted

approvalVars == <<request, requester, needed, notifying, votes, timers, override, uses>>

Decided  == {"approved", "denied", "expired", "cancelled"}
Decision == {"approve", "deny"}

ApprovalInit ==
    /\ request = [r \in Requests |-> "unused"]
    /\ requester = [r \in Requests |-> CHOOSE a \in Requesters : TRUE]
    /\ needed = [r \in Requests |-> 1]
    /\ notifying = {}
    /\ votes = [r \in Requests |-> [v \in {} |-> "deny"]]
    /\ timers = {}
    /\ override = [r \in Requests |-> "none"]
    /\ uses = [r \in Requests |-> 0]

\* countPendingForAgent
Pending(a) == {r \in Requests : request[r] = "pending" /\ requester[r] = a}

\* createApprovalRequest up to its wait: limit, entry and timer in one go.
CreateApprovalRequest(r, a, n) ==
    /\ request[r] = "unused"
    /\ Cardinality(Pending(a)) < MaxPendingPerAgent
    /\ request' = [request EXCEPT ![r] = "pending"]
    /\ requester' = [requester EXCEPT ![r] = a]
    /\ needed' = [needed EXCEPT ![r] = n]
    /\ timers' = timers \cup {r}
    /\ notifying' = notifying \cup {r}
    /\ UNCHANGED <<votes, override, uses>>

\* The notifications were sent or failed, and the id is returned.
NotificationsSent(r) ==
    /\ r \in notifying
    /\ notifying' = notifying \ {r}
    /\ UNCHANGED <<request, requester, needed, votes, timers, override, uses>>

Vote(r, v, d) ==
    votes' = [votes EXCEPT ![r] = [w \in DOMAIN @ \cup {v} |-> IF w = v THEN d ELSE @[w]]]

Approvals(r) == Cardinality({v \in DOMAIN votes[r] : votes[r][v] = "approve"})

\* Mutation: every vote clears the timer, not only the last one.
ClearsOnAnyVote(r, status) == timers' = timers \ {r}

\* finalizeRequest clears the timer; a vote that leaves the request pending does not.
ClearTimer(r, status) == timers' = IF status = "pending" THEN timers ELSE timers \ {r}

\* A denial decides at once, an approval when there are enough.
Outcome(r, d) ==
    IF d = "deny" THEN "denied"
    ELSE IF Approvals(r) + 1 >= needed[r] THEN "approved" ELSE "pending"

\* recordApproval with finalizeRequest and generateOverrideToken; it has no real wait.
RecordApproval(r, v, d) ==
    /\ request[r] = "pending"
    /\ v \notin DOMAIN votes[r]
    /\ Vote(r, v, d)
    /\ request' = [request EXCEPT ![r] = Outcome(r, d)]
    /\ ClearTimer(r, Outcome(r, d))
    /\ override' = [override EXCEPT ![r] = IF Outcome(r, d) = "approved" THEN "live" ELSE @]
    /\ UNCHANGED <<requester, needed, notifying, uses>>

HandleTimeout(r) ==
    /\ r \in timers
    /\ timers' = timers \ {r}
    /\ request' = [request EXCEPT ![r] = IF @ = "pending" THEN "expired" ELSE @]
    /\ UNCHANGED <<requester, needed, notifying, votes, override, uses>>

CancelRequest(r) ==
    /\ request[r] = "pending"
    /\ request' = [request EXCEPT ![r] = "cancelled"]
    /\ timers' = timers \ {r}
    /\ UNCHANGED <<requester, needed, notifying, votes, override, uses>>

-----------------------------------------------------------------------------
(* Override tokens                                                         *)

Usable(r) == override[r] = "live" /\ uses[r] < 1

\* validateOverrideToken when it answers `valid'; its other answers change nothing.
ValidateOverrideToken(r) ==
    /\ Usable(r)
    /\ uses' = [uses EXCEPT ![r] = @ + 1]
    /\ UNCHANGED <<request, requester, needed, notifying, votes, timers, override>>

RevokeOverrideToken(r) ==
    /\ override[r] \in {"live", "expired"}
    /\ override' = [override EXCEPT ![r] = "revoked"]
    /\ UNCHANGED <<request, requester, needed, notifying, votes, timers, uses>>

OverrideTokenExpires(r) ==
    /\ override[r] = "live"
    /\ override' = [override EXCEPT ![r] = "expired"]
    /\ UNCHANGED <<request, requester, needed, notifying, votes, timers, uses>>

\* cleanupExpired: decided requests of more than 24 hours ago, and dead tokens.
CleanupExpired ==
    \E old \in SUBSET {r \in Requests : request[r] \in Decided} :
        /\ request' = [r \in Requests |-> IF r \in old THEN "deleted" ELSE request[r]]
        /\ override' = [r \in Requests |->
                          IF override[r] \in {"expired", "revoked"} THEN "gone" ELSE override[r]]
        /\ UNCHANGED <<requester, needed, notifying, votes, timers, uses>>

ApprovalNext ==
    \/ \E r \in Requests :
          \/ \E a \in Requesters, n \in MinApprovals : CreateApprovalRequest(r, a, n)
          \/ NotificationsSent(r)
          \/ \E v \in Approvers, d \in Decision : RecordApproval(r, v, d)
          \/ HandleTimeout(r) \/ CancelRequest(r)
          \/ ValidateOverrideToken(r) \/ RevokeOverrideToken(r) \/ OverrideTokenExpires(r)
    \/ CleanupExpired

\* A timer that is set fires, unless it is cleared.
TimersFire == \A r \in Requests : WF_approvalVars(HandleTimeout(r))

ApprovalSpec == ApprovalInit /\ [][ApprovalNext]_approvalVars /\ TimersFire

-----------------------------------------------------------------------------
\* Types of the approval service's state.
ApprovalTypeOK ==
    /\ request \in [Requests -> Decided \cup {"unused", "pending", "deleted"}]
    /\ requester \in [Requests -> Requesters]
    /\ needed \in [Requests -> Nat \ {0}]
    /\ notifying \subseteq Requests
    /\ \A r \in Requests : /\ DOMAIN votes[r] \subseteq Approvers
                           /\ \A v \in DOMAIN votes[r] : votes[r][v] \in Decision
    /\ timers \subseteq Requests
    /\ override \in [Requests -> {"none", "live", "expired", "revoked", "gone"}]
    /\ uses \in [Requests -> Nat]

\* An override token that was accepted belongs to a request that enough people
\* approved and none denied, whatever raced with the votes, and it was accepted once.
OverrideIsEarned ==
    \A r \in Requests : uses[r] > 0 =>
        /\ uses[r] = 1
        /\ Approvals(r) >= needed[r]
        /\ \A v \in DOMAIN votes[r] : votes[r][v] = "approve"
        /\ request[r] \in {"approved", "deleted"}

\* No request stays pending: somebody decides or the timer does, since only what
\* decides a request clears its timer.
RequestsSettle == \A r \in Requests : request[r] = "pending" ~> request[r] # "pending"
=============================================================================
