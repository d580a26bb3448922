---------------------------- MODULE TokenService ----------------------------
(***************************************************************************)
(* Agent tokens (src/src/governance/token/TokenService.ts).  A token is a  *)
(* signed statement that its holder keeps; the service only remembers      *)
(* metadata, revocations and refresh tokens, in memory, and forgets them   *)
(* on a timer.  Access token and refresh token of one issue share a number *)
(* here; numbers stand for the jti in the order of issue, which is the     *)
(* order in which the Map of metadata is walked.                           *)
(***************************************************************************)
EXTENDS Integers, FiniteSets

CONSTANTS
    Agents,
    MaxTokens,    \* bound: tokens issued
    Ttls,         \* lifetimes that a request may ask for
    RefreshTtl,   \* refresh_ttl_seconds
    Retention,    \* the 24 hours that metadata outlives its token
    MaxTime       \* bound: the tokenTime

ASSUME TokenAssumption ==
    /\ MaxTokens \in Nat /\ RefreshTtl \in Nat /\ Retention \in Nat /\ MaxTime \in Nat
    /\ Ttls \subseteq Nat /\ Agents # {}

VARIABLES
    tokenTime,
    issued,       \* number of tokens issued so far
    holder,       \* holder[j], expiry[j]: what token j states
    expiry,
    metadata,     \* keys of tokenMetadata
    revokedTokens,
    refreshTokens,\* keys of refreshTokens, with their expiry
    walk,        \* per group of agents, the last token that a revokeAll has visited
    told          \* history: tokens that this process was told to revoke

tokenVars == <<tokenTime, issued, holder, expiry, metadata, revokedTokens, refreshTokens, walk, told>>

Jtis   == 1 .. MaxTokens
NotWalking   == -1
\* revokeAllAgentTokens is about one agent, revokeAllTenantTokens about all of a tenant.
Groups == {{a} : a \in Agents} \cup {Agents}

TokenInit ==
    /\ tokenTime = 0
    /\ issued = 0
    /\ holder \in [Jtis -> {CHOOSE a \in Agents : TRUE}]
    /\ expiry = [j \in Jtis |-> 0]
    /\ metadata = {}
    /\ revokedTokens = {}
    /\ refreshTokens = [j \in {} |-> 0]
    /\ walk = [g \in Groups |-> NotWalking]
    /\ told = {}

\* validateToken: the signature and the expiry of the token itself, then the revocations.
Validates(j) == j <= issued /\ tokenTime < expiry[j] /\ j \notin revokedTokens

\* issueToken, also at the end of refreshAccessToken.
Issue(a, ttl) ==
    /\ issued < MaxTokens
    /\ LET j == issued + 1 IN
        /\ issued' = j
        /\ holder' = [holder EXCEPT ![j] = a]
        /\ expiry' = [expiry EXCEPT ![j] = tokenTime + ttl]
        /\ metadata' = metadata \cup {j}
        /\ refreshTokens' = [i \in DOMAIN refreshTokens \cup {j} |->
                               IF i = j THEN tokenTime + RefreshTtl ELSE refreshTokens[i]]
    /\ UNCHANGED <<tokenTime, revokedTokens, walk, told>>

\* refreshAccessToken: the refresh token is checked on its own, and stays usable.
RefreshAccessToken(j, ttl) ==
    /\ j \in DOMAIN refreshTokens
    /\ tokenTime < refreshTokens[j]
    /\ Issue(holder[j], ttl)

\* revokeToken: also of a token whose metadata is gone.
Revoke(j) ==
    /\ revokedTokens' = revokedTokens \cup {j}
    /\ told' = told \cup {j}

RevokeToken(j) ==
    /\ j <= issued
    /\ Revoke(j)
    /\ UNCHANGED <<tokenTime, issued, holder, expiry, metadata, refreshTokens, walk>>

-----------------------------------------------------------------------------
(* revokeAllAgentTokens, revokeAllTenantTokens: a walk over the live Map   *)
(* that waits after each revocation.                                       *)

\* The tokens that the walk has still to revoke, as the Map now stands.
Ahead(g) == {j \in metadata : j > walk[g] /\ holder[j] \in g /\ j \notin revokedTokens}

RevokeAllBegins(g) ==
    /\ walk[g] = NotWalking
    /\ walk' = [walk EXCEPT ![g] = 0]
    /\ UNCHANGED <<tokenTime, issued, holder, expiry, metadata, revokedTokens, refreshTokens, told>>

RevokeAllVisits(g) ==
    /\ walk[g] # NotWalking
    /\ \E j \in Ahead(g) :
        /\ \A i \in Ahead(g) : j <= i
        /\ Revoke(j)
        /\ walk' = [walk EXCEPT ![g] = j]
    /\ UNCHANGED <<tokenTime, issued, holder, expiry, metadata, refreshTokens>>

RevokeAllReturns(g) ==
    /\ walk[g] # NotWalking
    /\ Ahead(g) = {}
    /\ walk' = [walk EXCEPT ![g] = NotWalking]
    /\ UNCHANGED <<tokenTime, issued, holder, expiry, metadata, revokedTokens, refreshTokens, told>>

-----------------------------------------------------------------------------
\* Mutation: the retention is counted to the wrong side.
ForgettableEarly(j) == expiry[j] < tokenTime + Retention

Forgettable(j) == expiry[j] < tokenTime - Retention

CleanupExpiredTokens ==
    LET old == {j \in metadata : Forgettable(j)} IN
    /\ metadata' = metadata \ old
    /\ revokedTokens' = revokedTokens \ old
    /\ refreshTokens' = [j \in {i \in DOMAIN refreshTokens : refreshTokens[i] >= tokenTime} |->
                           refreshTokens[j]]
    /\ UNCHANGED <<tokenTime, issued, holder, expiry, walk, told>>

\* The maps are in memory; the keys, and so the tokens, outlive the process.
TokenRestart ==
    /\ metadata' = {} /\ revokedTokens' = {} /\ told' = {}
    /\ refreshTokens' = [j \in {} |-> 0]
    /\ walk' = [g \in Groups |-> NotWalking]
    /\ UNCHANGED <<tokenTime, issued, holder, expiry>>

TokenTick ==
    /\ tokenTime < MaxTime
    /\ tokenTime' = tokenTime + 1
    /\ UNCHANGED <<issued, holder, expiry, metadata, revokedTokens, refreshTokens, walk, told>>

TokenNext ==
    \/ \E a \in Agents, ttl \in Ttls : Issue(a, ttl)
    \/ \E j \in Jtis, ttl \in Ttls : RefreshAccessToken(j, ttl)
    \/ \E j \in Jtis : RevokeToken(j)
    \/ \E g \in Groups : RevokeAllBegins(g) \/ RevokeAllVisits(g) \/ RevokeAllReturns(g)
    \/ CleanupExpiredTokens \/ TokenRestart \/ TokenTick

TokenSpec == TokenInit /\ [][TokenNext]_tokenVars

-----------------------------------------------------------------------------
\* Types of the token service's state.
TokenTypeOK ==
    /\ tokenTime \in 0 .. MaxTime
    /\ issued \in 0 .. MaxTokens
    /\ holder \in [Jtis -> Agents]
    /\ expiry \in [Jtis -> Nat]
    /\ metadata \subseteq 1 .. issued
    /\ revokedTokens \subseteq 1 .. issued
    /\ DOMAIN refreshTokens \subseteq 1 .. issued
    /\ \A j \in DOMAIN refreshTokens : refreshTokens[j] \in Nat
    /\ walk \in [Groups -> {NotWalking} \cup 0 .. MaxTokens]
    /\ told \subseteq 1 .. issued

\* While the process lives, a token that it was told to revoke never validates
\* again: the cleanup may forget the revocation only of a token that has expired.
RevokedNeverValidates == \A j \in told : ~Validates(j)
=============================================================================
