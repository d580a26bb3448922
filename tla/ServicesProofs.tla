--------------------------- MODULE ServicesProofs ---------------------------
(***************************************************************************)
(* Proofs about the governance services and the intent pipeline, for any   *)
(* agents, requests, calls and limits, and then about the run that puts    *)
(* them side by side: a behaviour of that run is one of each of them.      *)
(***************************************************************************)
EXTENDS MCServices, FiniteSetTheorems, SequenceTheorems, WellFoundedInduction, TLAPS

-----------------------------------------------------------------------------
(***************************************************************************)
(* Tokens. A revocation stays as long as the token would: what the cleanup *)
(* drops from the list has expired, because an entry is forgotten some     *)
(* time after the token's end, never before.                               *)
(***************************************************************************)

\* A token that was to be revoked is on the list, unless it has expired meanwhile.
RevocationsAreKept == \A j \in told : j \in revokedTokens \/ expiry[j] <= tokenTime

TokenInv ==
    /\ TokenTypeOK
    /\ refreshTokens = [j \in DOMAIN refreshTokens |-> refreshTokens[j]]
    /\ RevocationsAreKept

LEMMA TokenInitially == TokenInit => TokenInv
<1> SUFFICES ASSUME TokenInit PROVE TokenInv OBVIOUS
<1>1. (CHOOSE a \in Agents : TRUE) \in Agents BY TokenAssumption
<1>2. holder \in [Jtis -> Agents]
  <2>1. {CHOOSE a \in Agents : TRUE} \subseteq Agents BY <1>1
  <2> DEFINE chosen == {CHOOSE a \in Agents : TRUE}
  <2>2. holder \in [Jtis -> chosen] BY DEF TokenInit
  <2> HIDE DEF chosen
  <2>3. chosen \subseteq Agents BY <2>1 DEF chosen
  <2> QED BY <2>2, <2>3
<1>3. tokenTime \in 0 .. MaxTime /\ issued \in 0 .. MaxTokens BY TokenAssumption DEF TokenInit
<1>4. walk \in [Groups -> {NotWalking} \cup 0 .. MaxTokens]
  <2> DEFINE G == Groups  n == NotWalking
  <2>1. walk = [g \in G |-> n] BY DEF TokenInit
  <2> HIDE DEF G, n
  <2> QED BY <2>1 DEF G, n
<1>5. expiry \in [Jtis -> Nat] BY DEF TokenInit
<1>6. TokenTypeOK BY <1>2, <1>3, <1>4, <1>5 DEF TokenInit, TokenTypeOK
<1>7. refreshTokens = [j \in DOMAIN refreshTokens |-> refreshTokens[j]] BY DEF TokenInit
<1>8. RevocationsAreKept BY DEF TokenInit, RevocationsAreKept
<1> QED BY <1>6, <1>7, <1>8 DEF TokenInv

LEMMA IssueKeeps ==
    ASSUME TokenInv, NEW a \in Agents, NEW ttl \in Ttls, Issue(a, ttl)
    PROVE  TokenInv'
<1> USE TokenAssumption
<1>1. PICK j \in Jtis : j = issued + 1
      BY DEF Issue, TokenInv, TokenTypeOK, Jtis
<1>2. /\ issued' = j /\ holder' = [holder EXCEPT ![j] = a]
      /\ expiry' = [expiry EXCEPT ![j] = tokenTime + ttl]
      /\ metadata' = metadata \cup {j}
      /\ refreshTokens' = [i \in DOMAIN refreshTokens \cup {j} |->
                               IF i = j THEN tokenTime + RefreshTtl ELSE refreshTokens[i]]
      /\ UNCHANGED <<tokenTime, revokedTokens, walk, told>>
      BY <1>1 DEF Issue
<1>3. /\ tokenTime \in 0 .. MaxTime /\ issued \in 0 .. MaxTokens
      /\ holder \in [Jtis -> Agents] /\ expiry \in [Jtis -> Nat]
      /\ metadata \subseteq 1 .. issued /\ revokedTokens \subseteq 1 .. issued
      /\ DOMAIN refreshTokens \subseteq 1 .. issued /\ told \subseteq 1 .. issued
      /\ \A i \in DOMAIN refreshTokens : refreshTokens[i] \in Nat
      /\ walk \in [Groups -> {NotWalking} \cup 0 .. MaxTokens]
      BY DEF TokenInv, TokenTypeOK
<1>4. 1 .. issued \subseteq 1 .. issued' /\ j \in 1 .. issued' /\ issued' \in 0 .. MaxTokens
      /\ j \notin 1 .. issued /\ 1 .. issued \subseteq Jtis
      BY <1>1, <1>2, <1>3 DEF Jtis
<1>5. tokenTime + ttl \in Nat /\ tokenTime + RefreshTtl \in Nat BY <1>3
<1>6. holder' \in [Jtis -> Agents] /\ expiry' \in [Jtis -> Nat] BY <1>2, <1>3, <1>5
<1>7. /\ DOMAIN refreshTokens' \subseteq 1 .. issued'
      /\ \A i \in DOMAIN refreshTokens' : refreshTokens'[i] \in Nat
      BY <1>2, <1>3, <1>4, <1>5
<1>8. TokenTypeOK' BY <1>2, <1>3, <1>4, <1>6, <1>7 DEF TokenTypeOK
<1>9. RevocationsAreKept'
      BY <1>2, <1>3, <1>4 DEF RevocationsAreKept, TokenInv
<1>10. refreshTokens' = [i \in DOMAIN refreshTokens' |-> refreshTokens'[i]] BY <1>2
<1> QED BY <1>8, <1>9, <1>10 DEF TokenInv

\* A revocation that is repeated does nothing new.
LEMMA RevokeKeeps ==
    ASSUME TokenInv, NEW j \in 1 .. issued, Revoke(j),
           UNCHANGED <<tokenTime, issued, holder, expiry, metadata, refreshTokens>>,
           walk' \in [Groups -> {NotWalking} \cup 0 .. MaxTokens]
    PROVE  TokenInv'
BY DEF Revoke, TokenInv, TokenTypeOK, RevocationsAreKept

LEMMA WalkKeeps ==
    ASSUME TokenInv, NEW g \in Groups,
           RevokeAllBegins(g) \/ RevokeAllVisits(g) \/ RevokeAllReturns(g)
    PROVE  TokenInv'
<1> USE TokenAssumption
<1>1. walk \in [Groups -> {NotWalking} \cup 0 .. MaxTokens] /\ issued \in 0 .. MaxTokens
      /\ metadata \subseteq 1 .. issued
      BY DEF TokenInv, TokenTypeOK
<1>2. CASE RevokeAllBegins(g)
  <2>1. 0 \in 0 .. MaxTokens OBVIOUS
  <2>2. walk' \in [Groups -> {NotWalking} \cup 0 .. MaxTokens]
        BY <1>1, <1>2, <2>1 DEF RevokeAllBegins
  <2> QED BY <1>2, <2>2 DEF RevokeAllBegins, TokenInv, TokenTypeOK, RevocationsAreKept
<1>3. CASE RevokeAllVisits(g)
  <2>1. PICK j \in Ahead(g) : Revoke(j) /\ walk' = [walk EXCEPT ![g] = j]
        BY <1>3 DEF RevokeAllVisits
  <2>2. j \in 1 .. issued /\ j \in 0 .. MaxTokens BY <1>1, <2>1 DEF Ahead
  <2>3. walk' \in [Groups -> {NotWalking} \cup 0 .. MaxTokens] BY <1>1, <2>1, <2>2
  <2> QED BY <1>3, <2>1, <2>2, <2>3, RevokeKeeps DEF RevokeAllVisits
<1>4. CASE RevokeAllReturns(g)
  <2>1. walk' \in [Groups -> {NotWalking} \cup 0 .. MaxTokens]
        BY <1>1, <1>4 DEF RevokeAllReturns
  <2> QED BY <1>4, <2>1 DEF RevokeAllReturns, TokenInv, TokenTypeOK, RevocationsAreKept
<1> QED BY <1>2, <1>3, <1>4

\* What the cleanup forgets has expired: it keeps entries for a while longer.
LEMMA CleanupKeeps ==
    ASSUME TokenInv, CleanupExpiredTokens
    PROVE  TokenInv'
<1> USE TokenAssumption
<1> DEFINE old == {j \in metadata : Forgettable(j)}
<1>1. /\ tokenTime \in Nat /\ expiry \in [Jtis -> Nat] /\ 1 .. issued \subseteq Jtis
      /\ metadata \subseteq 1 .. issued /\ told \subseteq 1 .. issued
      BY DEF TokenInv, TokenTypeOK, Jtis
<1>2. /\ metadata' = metadata \ old /\ revokedTokens' = revokedTokens \ old
      /\ refreshTokens' = [j \in {i \in DOMAIN refreshTokens : refreshTokens[i] >= tokenTime} |->
                             refreshTokens[j]]
      /\ UNCHANGED <<tokenTime, issued, holder, expiry, walk, told>>
      BY DEF CleanupExpiredTokens
<1>3. \A j \in old : expiry[j] <= tokenTime BY <1>1 DEF Forgettable
<1> HIDE DEF old
<1>4. TokenTypeOK' BY <1>2 DEF TokenInv, TokenTypeOK
<1>5. RevocationsAreKept' BY <1>2, <1>3 DEF TokenInv, RevocationsAreKept
<1>6. refreshTokens' = [j \in DOMAIN refreshTokens' |-> refreshTokens'[j]] BY <1>2
<1> QED BY <1>4, <1>5, <1>6 DEF TokenInv

LEMMA RestartKeeps ==
    ASSUME TokenInv, TokenRestart \/ TokenTick
    PROVE  TokenInv'
<1>1. CASE TokenRestart
  <2> DEFINE G == Groups  n == NotWalking
  <2>1. walk' = [g \in G |-> n] BY <1>1 DEF TokenRestart
  <2> HIDE DEF G, n
  <2>2. walk' \in [Groups -> {NotWalking} \cup 0 .. MaxTokens] BY <2>1 DEF G, n
  <2> QED BY <1>1, <2>2 DEF TokenRestart, TokenInv, TokenTypeOK, RevocationsAreKept
<1>2. CASE TokenTick
  <2>0. told \subseteq Jtis
    <3>1. told \subseteq 1 .. issued /\ issued \in 0 .. MaxTokens BY DEF TokenInv, TokenTypeOK
    <3> QED BY <3>1, TokenAssumption DEF Jtis
  <2>1. tokenTime \in 0 .. MaxTime /\ tokenTime < MaxTime /\ tokenTime' = tokenTime + 1
        /\ expiry \in [Jtis -> Nat] /\ told \subseteq Jtis
        BY <1>2, <2>0 DEF TokenTick, TokenInv, TokenTypeOK
  <2>2. tokenTime' \in 0 .. MaxTime BY <2>1, TokenAssumption
  <2>3. TokenTypeOK' BY <1>2, <2>2 DEF TokenTick, TokenInv, TokenTypeOK
  <2>4. ASSUME NEW j \in told PROVE expiry[j] <= tokenTime => expiry[j] <= tokenTime'
        BY <2>1
  <2>5. RevocationsAreKept' BY <1>2, <2>4 DEF TokenTick, TokenInv, RevocationsAreKept
  <2> QED BY <1>2, <2>3, <2>5 DEF TokenTick, TokenInv
<1> QED BY <1>1, <1>2

LEMMA TokenStep == TokenInv /\ [TokenNext]_tokenVars => TokenInv'
<1> SUFFICES ASSUME TokenInv, [TokenNext]_tokenVars PROVE TokenInv' OBVIOUS
<1>1. CASE UNCHANGED tokenVars
      BY <1>1 DEF tokenVars, TokenInv, TokenTypeOK, RevocationsAreKept
<1>2. ASSUME NEW j \in Jtis, NEW ttl \in Ttls, RefreshAccessToken(j, ttl) PROVE TokenInv'
  <2>1. holder[j] \in Agents BY DEF TokenInv, TokenTypeOK
  <2> QED BY <1>2, <2>1, IssueKeeps DEF RefreshAccessToken
<1>3. ASSUME NEW j \in Jtis, RevokeToken(j) PROVE TokenInv'
  <2>1. j \in 1 .. issued BY <1>3 DEF RevokeToken, Jtis, TokenInv, TokenTypeOK
  <2>2. walk' \in [Groups -> {NotWalking} \cup 0 .. MaxTokens]
        BY <1>3 DEF RevokeToken, TokenInv, TokenTypeOK
  <2> QED BY <1>3, <2>1, <2>2, RevokeKeeps DEF RevokeToken
<1> QED BY <1>1, <1>2, <1>3, IssueKeeps, WalkKeeps, CleanupKeeps, RestartKeeps DEF TokenNext

LEMMA TokenAlways == TokenInit /\ [][TokenNext]_tokenVars => []TokenInv
BY TokenInitially, TokenStep, PTL

LEMMA RevokedStaysSo == TokenInv => RevokedNeverValidates
<1> SUFFICES ASSUME TokenInv, NEW j \in told PROVE ~Validates(j)
    BY DEF RevokedNeverValidates
<1>1. /\ expiry \in [Jtis -> Nat] /\ told \subseteq Jtis /\ tokenTime \in Nat
      BY TokenAssumption DEF TokenInv, TokenTypeOK, Jtis
<1> QED BY <1>1, TokenAssumption DEF Validates, TokenInv, RevocationsAreKept

-----------------------------------------------------------------------------
(***************************************************************************)
(* Approvals and override tokens. Votes are only added while a request is  *)
(* undecided, so the votes behind a token stay what they were when it was  *)
(* issued; a token is issued where the last vote is counted.               *)
(***************************************************************************)

\* Votes are functions from those who voted.
VotesTyped == \A r \in Requests : votes[r] \in [DOMAIN votes[r] -> Decision]

AllApprove(r) == \A v \in DOMAIN votes[r] : votes[r][v] = "approve"
Earned(r) == Approvals(r) >= needed[r] /\ AllApprove(r) /\ request[r] \in {"approved", "deleted"}

\* Before a decision nobody has denied and there is no token; there is none without
\* the votes, and what was used once is there.
Undecided == \A r \in Requests :
    request[r] \in {"unused", "pending"} => AllApprove(r) /\ override[r] = "none"
TokensAreEarned == \A r \in Requests : override[r] # "none" => Earned(r)
UsedIsIssued == \A r \in Requests : uses[r] > 0 => uses[r] = 1 /\ override[r] # "none"

ApprovalInv ==
    /\ ApprovalTypeOK
    /\ votes \in [Requests -> {votes[r] : r \in Requests}] /\ VotesTyped
    /\ Undecided /\ TokensAreEarned /\ UsedIsIssued

LEMMA ApprovalInitially == ApprovalInit => ApprovalInv
<1> SUFFICES ASSUME ApprovalInit PROVE ApprovalInv OBVIOUS
<1>1. (CHOOSE a \in Requesters : TRUE) \in Requesters BY GovernanceApprovalAssumption
<1>2. requester \in [Requests -> Requesters] BY <1>1, Zenon DEF ApprovalInit
<1>3. \A r \in Requests : votes[r] = [v \in {} |-> "deny"] /\ DOMAIN votes[r] = {}
      BY DEF ApprovalInit
<1>4. needed \in [Requests -> Nat \ {0}] /\ uses \in [Requests -> Nat] BY DEF ApprovalInit
<1>5. ApprovalTypeOK
      BY <1>2, <1>3, <1>4 DEF ApprovalInit, ApprovalTypeOK, Decided, Decision
<1>6. VotesTyped BY <1>3 DEF VotesTyped
<1>7. Undecided BY <1>3 DEF Undecided, AllApprove, ApprovalInit
<1>8. TokensAreEarned /\ UsedIsIssued BY DEF ApprovalInit, TokensAreEarned, UsedIsIssued
<1>9. votes \in [Requests -> {votes[r] : r \in Requests}] BY DEF ApprovalInit
<1> QED BY <1>5, <1>6, <1>7, <1>8, <1>9 DEF ApprovalInv

\* A step that leaves the votes alone.
LEMMA VotesStay ==
    ASSUME ApprovalInv, votes' = votes, ApprovalTypeOK',
           \A r \in Requests :
              /\ needed'[r] = needed[r] \/ override'[r] = "none"
              /\ request'[r] \in {"unused", "pending"} =>
                    request[r] \in {"unused", "pending"} /\ override'[r] = override[r]
              /\ override'[r] # "none" =>
                    override[r] # "none" /\ (request[r] \in {"approved", "deleted"}
                                                => request'[r] \in {"approved", "deleted"})
              /\ override[r] # "none" => override'[r] # "none"
              /\ uses'[r] > 0 => uses[r] = uses'[r] \/ (override'[r] # "none" /\ uses'[r] = 1)
    PROVE  ApprovalInv'
<1>1. VotesTyped' /\ (votes \in [Requests -> {votes[r] : r \in Requests}])'
      BY DEF ApprovalInv, VotesTyped
<1>2. Undecided' BY DEF ApprovalInv, Undecided, AllApprove
<1>3. TokensAreEarned' BY DEF ApprovalInv, TokensAreEarned, Earned, AllApprove, Approvals
<1>4. UsedIsIssued' BY DEF ApprovalInv, UsedIsIssued
<1> QED BY <1>1, <1>2, <1>3, <1>4 DEF ApprovalInv

LEMMA CreateKeeps ==
    ASSUME ApprovalInv, NEW r \in Requests, NEW a \in Requesters, NEW n \in MinApprovals,
           CreateApprovalRequest(r, a, n)
    PROVE  ApprovalInv'
<1>1. n \in Nat \ {0} BY GovernanceApprovalAssumption
<1>2. ApprovalTypeOK'
      BY <1>1 DEF CreateApprovalRequest, ApprovalInv, ApprovalTypeOK, Decided
<1>3. override[r] = "none" BY DEF CreateApprovalRequest, ApprovalInv, Undecided
<1> QED BY <1>2, <1>3, VotesStay DEF CreateApprovalRequest, ApprovalInv, ApprovalTypeOK

\* The vote of v is counted once.
LEMMA OneMoreVote ==
    ASSUME ApprovalInv, NEW r \in Requests, NEW v \in Approvers, NEW d \in Decision,
           v \notin DOMAIN votes[r], Vote(r, v, d)
    PROVE  /\ DOMAIN votes'[r] = DOMAIN votes[r] \cup {v}
           /\ votes'[r] \in [DOMAIN votes'[r] -> Decision]
           /\ votes'[r][v] = d /\ \A w \in DOMAIN votes[r] : votes'[r][w] = votes[r][w]
           /\ \A s \in Requests : s # r => votes'[s] = votes[s]
           /\ votes' = [s \in Requests |-> votes'[s]]
           /\ d = "approve" => Approvals(r)' = Approvals(r) + 1
           /\ Approvals(r) \in Nat
<1> DEFINE now == [w \in DOMAIN votes[r] \cup {v} |-> IF w = v THEN d ELSE votes[r][w]]
           for == {w \in DOMAIN votes[r] : votes[r][w] = "approve"}
<1>1. votes[r] \in [DOMAIN votes[r] -> Decision] /\ DOMAIN votes[r] \subseteq Approvers
      /\ votes = [s \in Requests |-> votes[s]]
      BY DEF ApprovalInv, ApprovalTypeOK, VotesTyped
<1>2. votes' = [votes EXCEPT ![r] = now] BY <1>1 DEF Vote
<1>3. votes'[r] = now /\ (\A s \in Requests : s # r => votes'[s] = votes[s])
      /\ votes' = [s \in Requests |-> votes'[s]]
      BY <1>1, <1>2
<1>4. now \in [DOMAIN votes[r] \cup {v} -> Decision] /\ DOMAIN now = DOMAIN votes[r] \cup {v}
      /\ now[v] = d /\ \A w \in DOMAIN votes[r] : now[w] = votes[r][w]
      BY <1>1
<1>5. IsFiniteSet(for) /\ v \notin for
  <2>1. for \subseteq Approvers BY <1>1
  <2> QED BY <2>1, GovernanceApprovalAssumption, FS_Subset
<1>6. Cardinality(for) \in Nat /\ Cardinality(for \cup {v}) = Cardinality(for) + 1
      BY <1>5, FS_AddElement, FS_CardinalityType
<1>7. ASSUME d = "approve" PROVE Approvals(r)' = Approvals(r) + 1
  <2>1. {w \in DOMAIN votes'[r] : votes'[r][w] = "approve"} = for \cup {v}
        BY <1>3, <1>4, <1>7
  <2>2. Approvals(r) = Cardinality(for) BY DEF Approvals
  <2>3. Approvals(r)' = Cardinality(for \cup {v}) BY <2>1 DEF Approvals
  <2> QED BY <1>6, <2>2, <2>3
<1> HIDE DEF now
<1> QED BY <1>3, <1>4, <1>6, <1>7 DEF Approvals

LEMMA RecordKeeps ==
    ASSUME ApprovalInv, NEW r \in Requests, NEW v \in Approvers, NEW d \in Decision,
           RecordApproval(r, v, d)
    PROVE  ApprovalInv'
<1>1. /\ request[r] = "pending" /\ v \notin DOMAIN votes[r] /\ Vote(r, v, d)
      /\ request' = [request EXCEPT ![r] = Outcome(r, d)]
      /\ override' = [override EXCEPT ![r] = IF Outcome(r, d) = "approved" THEN "live" ELSE @]
      /\ timers' \in {timers, timers \ {r}}
      /\ UNCHANGED <<requester, needed, notifying, uses>>
      BY DEF RecordApproval, ClearTimer
<1>2. /\ request \in [Requests -> Decided \cup {"unused", "pending", "deleted"}]
      /\ override \in [Requests -> {"none", "live", "expired", "revoked", "gone"}]
      /\ needed \in [Requests -> Nat \ {0}]
      BY DEF ApprovalInv, ApprovalTypeOK
<1>3. Outcome(r, d) \in {"denied", "approved", "pending"} BY DEF Outcome
<1>4. override[r] = "none" /\ AllApprove(r) BY <1>1 DEF ApprovalInv, Undecided
<1>5. /\ DOMAIN votes'[r] = DOMAIN votes[r] \cup {v}
      /\ votes'[r] \in [DOMAIN votes'[r] -> Decision]
      /\ votes'[r][v] = d /\ \A w \in DOMAIN votes[r] : votes'[r][w] = votes[r][w]
      /\ \A s \in Requests : s # r => votes'[s] = votes[s]
      /\ votes' = [s \in Requests |-> votes'[s]]
      /\ d = "approve" => Approvals(r)' = Approvals(r) + 1
      /\ Approvals(r) \in Nat
      BY <1>1, OneMoreVote
<1>6. /\ request'[r] = Outcome(r, d)
      /\ override'[r] = IF Outcome(r, d) = "approved" THEN "live" ELSE "none"
      /\ \A s \in Requests : s # r => request'[s] = request[s] /\ override'[s] = override[s]
      BY <1>1, <1>2, <1>4
<1>7. ApprovalTypeOK'
  <2>1. request' \in [Requests -> Decided \cup {"unused", "pending", "deleted"}]
        BY <1>1, <1>2, <1>3 DEF Decided
  <2>2. override' \in [Requests -> {"none", "live", "expired", "revoked", "gone"}]
        BY <1>1, <1>2
  <2>3. ASSUME NEW s \in Requests
        PROVE  /\ DOMAIN votes'[s] \subseteq Approvers
               /\ \A w \in DOMAIN votes'[s] : votes'[s][w] \in Decision
    <3>1. CASE s = r BY <1>5, <3>1 DEF ApprovalInv, ApprovalTypeOK
    <3>2. CASE s # r BY <1>5, <3>2 DEF ApprovalInv, ApprovalTypeOK
    <3> QED BY <3>1, <3>2
  <2>4. timers' \subseteq Requests BY <1>1 DEF ApprovalInv, ApprovalTypeOK
  <2> QED BY <1>1, <2>1, <2>2, <2>3, <2>4 DEF ApprovalInv, ApprovalTypeOK
<1>8. VotesTyped' /\ (votes \in [Requests -> {votes[s] : s \in Requests}])'
  <2>1. VotesTyped' BY <1>5 DEF ApprovalInv, VotesTyped
  <2> QED BY <1>5, <2>1
<1>9. Undecided'
  <2>1. ASSUME request'[r] \in {"unused", "pending"} PROVE AllApprove(r)' /\ override'[r] = "none"
    <3>1. d = "approve" BY <1>6, <2>1 DEF Outcome, Decision
    <3> QED BY <1>4, <1>5, <1>6, <2>1, <3>1 DEF AllApprove
  <2>2. ASSUME NEW s \in Requests, s # r, request'[s] \in {"unused", "pending"}
        PROVE AllApprove(s)' /\ override'[s] = "none"
        BY <1>5, <1>6, <2>2 DEF AllApprove, ApprovalInv, Undecided
  <2> QED BY <2>1, <2>2 DEF Undecided
<1>10. TokensAreEarned'
  <2>1. ASSUME override'[r] # "none" PROVE Earned(r)'
    <3>1. Outcome(r, d) = "approved" BY <1>6, <2>1
    <3>2. d = "approve" /\ Approvals(r) + 1 >= needed[r] BY <3>1 DEF Outcome, Decision
    <3>3. AllApprove(r)' BY <1>4, <1>5, <3>2 DEF AllApprove
    <3>4. Approvals(r)' >= needed'[r] BY <1>1, <1>5, <3>2
    <3> QED BY <1>6, <3>1, <3>3, <3>4 DEF Earned
  <2>2. ASSUME NEW s \in Requests, s # r, override'[s] # "none" PROVE Earned(s)'
        BY <1>1, <1>5, <1>6, <2>2
        DEF Earned, AllApprove, Approvals, ApprovalInv, TokensAreEarned
  <2> QED BY <2>1, <2>2 DEF TokensAreEarned
<1>11. UsedIsIssued'
  <2>1. uses[r] \in Nat /\ ~(uses[r] > 0)
        BY <1>4 DEF ApprovalInv, ApprovalTypeOK, UsedIsIssued
  <2> QED BY <1>1, <1>6, <2>1 DEF ApprovalInv, UsedIsIssued
<1> QED BY <1>7, <1>8, <1>9, <1>10, <1>11 DEF ApprovalInv

\* What ends a request otherwise, and what becomes of its token.
LEMMA TokenKeeps ==
    ASSUME ApprovalInv, NEW r \in Requests,
           \/ NotificationsSent(r) \/ HandleTimeout(r) \/ CancelRequest(r)
           \/ ValidateOverrideToken(r) \/ RevokeOverrideToken(r) \/ OverrideTokenExpires(r)
    PROVE  ApprovalInv'
<1>1. /\ request \in [Requests -> Decided \cup {"unused", "pending", "deleted"}]
      /\ override \in [Requests -> {"none", "live", "expired", "revoked", "gone"}]
      /\ uses \in [Requests -> Nat]
      /\ \A s \in Requests : request[s] \in {"unused", "pending"} => override[s] = "none"
      /\ \A s \in Requests : uses[s] > 0 => uses[s] = 1 /\ override[s] # "none"
      BY DEF ApprovalInv, ApprovalTypeOK, Undecided, UsedIsIssued
<1>2. CASE NotificationsSent(r)
  <2>1. ApprovalTypeOK' BY <1>2 DEF NotificationsSent, ApprovalInv, ApprovalTypeOK
  <2> QED BY <1>2, <2>1, VotesStay DEF NotificationsSent
<1>3. CASE HandleTimeout(r)
  <2>1. ApprovalTypeOK' BY <1>3 DEF HandleTimeout, ApprovalInv, ApprovalTypeOK, Decided
  <2> QED BY <1>1, <1>3, <2>1, VotesStay DEF HandleTimeout
<1>4. CASE CancelRequest(r)
  <2>1. ApprovalTypeOK' BY <1>4 DEF CancelRequest, ApprovalInv, ApprovalTypeOK, Decided
  <2> QED BY <1>1, <1>4, <2>1, VotesStay DEF CancelRequest
<1>5. CASE ValidateOverrideToken(r)
  <2>1. ApprovalTypeOK'
    <3>1. uses' \in [Requests -> Nat] BY <1>1, <1>5 DEF ValidateOverrideToken
    <3> QED BY <1>5, <3>1 DEF ValidateOverrideToken, ApprovalInv, ApprovalTypeOK
  <2>2. uses'[r] = uses[r] + 1 /\ uses[r] < 1 /\ override[r] = "live"
        /\ \A s \in Requests : s # r => uses'[s] = uses[s]
        BY <1>1, <1>5 DEF ValidateOverrideToken, Usable
  <2>3. uses'[r] = 1 BY <1>1, <2>2
  <2> QED BY <1>5, <2>1, <2>2, <2>3, VotesStay DEF ValidateOverrideToken
<1>6. CASE RevokeOverrideToken(r)
  <2>1. ApprovalTypeOK' BY <1>6 DEF RevokeOverrideToken, ApprovalInv, ApprovalTypeOK
  <2> QED BY <1>1, <1>6, <2>1, VotesStay DEF RevokeOverrideToken
<1>7. CASE OverrideTokenExpires(r)
  <2>1. ApprovalTypeOK' BY <1>7 DEF OverrideTokenExpires, ApprovalInv, ApprovalTypeOK
  <2> QED BY <1>1, <1>7, <2>1, VotesStay DEF OverrideTokenExpires
<1> QED BY <1>2, <1>3, <1>4, <1>5, <1>6, <1>7

LEMMA ApprovalCleanupKeeps ==
    ASSUME ApprovalInv, CleanupExpired
    PROVE  ApprovalInv'
<1>1. PICK old \in SUBSET {r \in Requests : request[r] \in Decided} :
        /\ request' = [r \in Requests |-> IF r \in old THEN "deleted" ELSE request[r]]
        /\ override' = [r \in Requests |->
                          IF override[r] \in {"expired", "revoked"} THEN "gone" ELSE override[r]]
        /\ UNCHANGED <<requester, needed, notifying, votes, timers, uses>>
      BY DEF CleanupExpired
<1>2. ApprovalTypeOK'
  <2>1. request' \in [Requests -> Decided \cup {"unused", "pending", "deleted"}]
        BY <1>1 DEF ApprovalInv, ApprovalTypeOK
  <2>2. override' \in [Requests -> {"none", "live", "expired", "revoked", "gone"}]
        BY <1>1 DEF ApprovalInv, ApprovalTypeOK
  <2> QED BY <1>1, <2>1, <2>2 DEF ApprovalInv, ApprovalTypeOK
<1>3. \A r \in Requests : request[r] \in {"unused", "pending"} => override[r] = "none"
      BY DEF ApprovalInv, Undecided
<1> QED BY <1>1, <1>2, <1>3, VotesStay

LEMMA ApprovalStep == ApprovalInv /\ [ApprovalNext]_approvalVars => ApprovalInv'
<1> SUFFICES ASSUME ApprovalInv, [ApprovalNext]_approvalVars PROVE ApprovalInv' OBVIOUS
<1>1. CASE UNCHANGED approvalVars
  <2>1. ApprovalTypeOK' BY <1>1 DEF approvalVars, ApprovalInv, ApprovalTypeOK
  <2> QED BY <1>1, <2>1, VotesStay DEF approvalVars
<1> QED BY <1>1, CreateKeeps, RecordKeeps, TokenKeeps, ApprovalCleanupKeeps DEF ApprovalNext

LEMMA ApprovalAlways == ApprovalInit /\ [][ApprovalNext]_approvalVars => []ApprovalInv
BY ApprovalInitially, ApprovalStep, PTL

LEMMA UsedIsEarned == ApprovalInv => OverrideIsEarned
BY DEF ApprovalInv, TokensAreEarned, UsedIsIssued, Earned, AllApprove, OverrideIsEarned

-----------------------------------------------------------------------------
(***************************************************************************)
(* The action proxy and the policy cache. A call that was admitted and is  *)
(* not yet recorded will add one to the window's count: what the limit can *)
(* be overrun by is the number of such calls, and it falls by one with     *)
(* each that is recorded.                                                  *)
(***************************************************************************)

\* A stage is reached with the decisions that lead to it, and the call has no answer yet.
StagesFollow == \A c \in Calls :
    /\ stage[c] # "idle" => answer[c] = "none"
    /\ config.failClosed /\ ~config.shadow =>
          /\ stage[c] = "record" => decision[c] \in {"ALLOW", "MODIFY"}
          /\ stage[c] = "audit" => decision[c] \in {"ALLOW", "MODIFY", "AWAIT_APPROVAL"}
    /\ stage[c] = "approval" => decision[c] = "AWAIT_APPROVAL"

ProxyInv == ProxyTypeOK /\ StagesFollow /\ OverrunIsBounded /\ AllowedIsDecided

LEMMA AdmittedIsFinite ==
    /\ IsFiniteSet(Admitted) /\ Cardinality(Admitted) \in Nat
    /\ Cardinality(Admitted) <= Cardinality(Calls) /\ Cardinality(Calls) \in Nat
    /\ IsFiniteSet(Admitted') /\ Cardinality(Admitted') \in Nat
    /\ Cardinality(Admitted') <= Cardinality(Calls)
<1>1. Admitted \subseteq Calls /\ Admitted' \subseteq Calls BY DEF Admitted
<1> QED BY <1>1, ProxyAssumption, FS_Subset, FS_CardinalityType

LEMMA ProxyInitially == ProxyInit => ProxyInv
<1> SUFFICES ASSUME ProxyInit PROVE ProxyInv OBVIOUS
<1>1. ProxyTypeOK BY ProxyAssumption DEF ProxyInit, ProxyTypeOK, Stage
<1>2. StagesFollow BY DEF ProxyInit, StagesFollow
<1>3. AllowedIsDecided BY DEF ProxyInit, AllowedIsDecided
<1>4. OverrunIsBounded
  <2>1. count = 0 BY DEF ProxyInit
  <2> QED BY <2>1, AdmittedIsFinite, ProxyAssumption DEF OverrunIsBounded
<1> QED BY <1>1, <1>2, <1>3, <1>4 DEF ProxyInv

\* A step of one call: what the others have stays, and the window is not overrun if the
\* call is admitted below the limit, or already was.
LEMMA OneCall ==
    ASSUME ProxyInv, NEW c \in Calls, NEW s \in Stage, NEW d, NEW a,
           d \in PolicyDecision \cup
               {"none", "unknown", "unauthenticated", "override", "rate", "budget", "error"},
           a \in {"none", "allowed", "denied", "awaiting"},
           stage' = [stage EXCEPT ![c] = s], decision' = [decision EXCEPT ![c] = d],
           answer' = [answer EXCEPT ![c] = a],
           audited' \subseteq Calls, \A x \in Calls \ {c} : x \in audited => x \in audited',
           UNCHANGED <<proxyTime, config, usage>>,
           windowStart' \in 0 .. proxyTime, count' \in Nat,
           s # "idle" => a = "none",
           config.failClosed /\ ~config.shadow =>
              /\ s = "record" => d \in {"ALLOW", "MODIFY"}
              /\ s = "audit" => d \in {"ALLOW", "MODIFY", "AWAIT_APPROVAL"}
              /\ a = "allowed" => d = "override" \/ (d \in {"ALLOW", "MODIFY"} /\ c \in audited'),
           s = "approval" => d = "AWAIT_APPROVAL",
           OverrunIsBounded'
    PROVE  ProxyInv'
<1>1. /\ \A x \in Calls : /\ stage'[x] = IF x = c THEN s ELSE stage[x]
                          /\ decision'[x] = IF x = c THEN d ELSE decision[x]
                          /\ answer'[x] = IF x = c THEN a ELSE answer[x]
      /\ config' = config
      BY DEF ProxyInv, ProxyTypeOK
<1>2. ProxyTypeOK' BY DEF ProxyInv, ProxyTypeOK
<1>3. StagesFollow' BY <1>1 DEF ProxyInv, StagesFollow
<1>4. AllowedIsDecided' BY <1>1 DEF ProxyInv, AllowedIsDecided
<1> QED BY <1>2, <1>3, <1>4 DEF ProxyInv

\* The number of admitted calls: it does not grow when a call goes on or answers, ...
LEMMA AdmittedShrinks ==
    ASSUME ProxyInv, Admitted' \subseteq Admitted, count' = count \/ count' = 0
    PROVE  OverrunIsBounded'
<1>1. Cardinality(Admitted') <= Cardinality(Admitted) BY AdmittedIsFinite, FS_Subset
<1>2. count \in Nat BY DEF ProxyInv, ProxyTypeOK
<1> QED BY <1>1, <1>2, AdmittedIsFinite, ProxyAssumption DEF ProxyInv, OverrunIsBounded

\* ... and is one less when one is recorded.
LEMMA RecordedIsBounded ==
    ASSUME ProxyInv, NEW c \in Admitted, Admitted' = Admitted \ {c}, count' = count + 1
    PROVE  OverrunIsBounded'
<1>1. Cardinality(Admitted') = Cardinality(Admitted) - 1
      BY AdmittedIsFinite, FS_RemoveElement
<1>2. count \in Nat BY DEF ProxyInv, ProxyTypeOK
<1> QED BY <1>1, <1>2, AdmittedIsFinite, ProxyAssumption DEF ProxyInv, OverrunIsBounded

\* Where a step takes a call in the set of those admitted.
LEMMA AdmittedMoves ==
    ASSUME ProxyInv, NEW c \in Calls, NEW s \in Stage, stage' = [stage EXCEPT ![c] = s]
    PROVE  /\ s \in {"budget", "policy", "approval", "record"} /\ c \in Admitted
                => Admitted' = Admitted
           /\ s \notin {"budget", "policy", "approval", "record"} => Admitted' = Admitted \ {c}
<1>1. \A x \in Calls : stage'[x] = IF x = c THEN s ELSE stage[x] BY DEF ProxyInv, ProxyTypeOK
<1> QED BY <1>1 DEF Admitted

LEMMA ProcessKeeps ==
    ASSUME ProxyInv, NEW c \in Calls, ProcessAction(c)
    PROVE  ProxyInv'
<1>1. /\ stage \in [Calls -> Stage] /\ stage[c] = "idle" /\ audited \subseteq Calls
      /\ windowStart \in 0 .. proxyTime /\ count \in Nat
      /\ UNCHANGED <<proxyTime, config, windowStart, count, usage>>
      /\ audited' = audited \ {c}
      BY DEF ProcessAction, ProxyInv, ProxyTypeOK
<1>2. PICK s \in {"idle", "rate"}, d \in {"unauthenticated", "override", "none"},
           a \in {"denied", "allowed", "none"} :
         /\ stage' = [stage EXCEPT ![c] = s] /\ decision' = [decision EXCEPT ![c] = d]
         /\ answer' = [answer EXCEPT ![c] = a]
         /\ s = "rate" => a = "none"
         /\ a = "allowed" => d = "override"
  <2>1. stage = [stage EXCEPT ![c] = "idle"] BY <1>1
  <2>2. \/ stage' = stage /\ decision' = [decision EXCEPT ![c] = "unauthenticated"]
           /\ answer' = [answer EXCEPT ![c] = "denied"]
        \/ stage' = stage /\ decision' = [decision EXCEPT ![c] = "override"]
           /\ answer' = [answer EXCEPT ![c] = "allowed"]
        \/ stage' = [stage EXCEPT ![c] = "rate"] /\ decision' = [decision EXCEPT ![c] = "none"]
           /\ answer' = [answer EXCEPT ![c] = "none"]
        BY DEF ProcessAction, GoTo
  <2> QED BY <2>1, <2>2
<1>3. s \in Stage BY DEF Stage
<1>4. Admitted' \subseteq Admitted BY <1>2, <1>3, AdmittedMoves
<1>5. OverrunIsBounded' BY <1>1, <1>4, AdmittedShrinks
<1> QED BY <1>1, <1>2, <1>3, <1>5, OneCall

LEMMA RateKeeps ==
    ASSUME ProxyInv, NEW c \in Calls, CheckRate(c)
    PROVE  ProxyInv'
<1> USE ProxyAssumption
<1>1. /\ stage \in [Calls -> Stage] /\ stage[c] = "rate" /\ audited \subseteq Calls
      /\ windowStart \in 0 .. proxyTime /\ count \in Nat /\ proxyTime \in Nat
      /\ decision \in [Calls -> PolicyDecision \cup
             {"none", "unknown", "unauthenticated", "override", "rate", "budget", "error"}]
      /\ answer \in [Calls -> {"none", "allowed", "denied", "awaiting"}]
      /\ UNCHANGED <<proxyTime, config, usage, audited>>
      BY DEF CheckRate, ProxyInv, ProxyTypeOK
<1>2. answer[c] = "none" BY <1>1 DEF ProxyInv, StagesFollow
<1>3. windowStart' \in 0 .. proxyTime /\ count' \in {count, 0}
      /\ count' = IF WindowIsOver THEN 0 ELSE count
  <2>1. CASE WindowIsOver BY <1>1, <2>1 DEF CheckRate, RestartWindow
  <2>2. CASE ~WindowIsOver BY <1>1, <2>2 DEF CheckRate
  <2> QED BY <2>1, <2>2
<1>4. CASE UnderLimit(count')
  <2>1. stage' = [stage EXCEPT ![c] = "budget"] /\ UNCHANGED <<answer, decision>>
        BY <1>3, <1>4 DEF CheckRate, GoTo
  <2>2. OverrunIsBounded'
    <3>1. count' < EffectiveLimit /\ count' \in Nat BY <1>1, <1>3, <1>4 DEF UnderLimit
    <3> QED BY <3>1, AdmittedIsFinite DEF OverrunIsBounded
  <2>3. decision' = [decision EXCEPT ![c] = decision[c]]
        /\ answer' = [answer EXCEPT ![c] = "none"] BY <1>1, <1>2, <2>1
  <2>4. "budget" \in Stage BY DEF Stage
  <2>5. PICK d \in PolicyDecision \cup
             {"none", "unknown", "unauthenticated", "override", "rate", "budget", "error"} :
           decision' = [decision EXCEPT ![c] = d]
        BY <1>1, <2>3
  <2>6. /\ windowStart' \in 0 .. proxyTime /\ count' \in Nat /\ audited' \subseteq Calls
        /\ \A x \in Calls \ {c} : x \in audited => x \in audited'
        /\ UNCHANGED <<proxyTime, config, usage>>
        BY <1>1, <1>3
  <2> QED BY <2>1, <2>2, <2>3, <2>4, <2>5, <2>6, OneCall
<1>5. CASE ~UnderLimit(count')
  <2>1. /\ stage' = [stage EXCEPT ![c] = "idle"] /\ answer' = [answer EXCEPT ![c] = "denied"]
        /\ decision' = [decision EXCEPT ![c] = "rate"]
        BY <1>3, <1>5 DEF CheckRate, GoTo, Answer
  <2>2. "idle" \in Stage BY DEF Stage
  <2>3. Admitted' \subseteq Admitted BY <2>1, <2>2, AdmittedMoves
  <2>4. OverrunIsBounded' BY <1>3, <2>3, AdmittedShrinks
  <2> QED BY <1>1, <1>3, <2>1, <2>2, <2>4, OneCall
<1> QED BY <1>4, <1>5

\* A call among those admitted that goes on to stage s, or answers a.
LEMMA AdmittedKeeps ==
    ASSUME ProxyInv, NEW c \in Admitted, NEW s \in Stage, NEW d, NEW a,
           d \in PolicyDecision \cup
               {"none", "unknown", "unauthenticated", "override", "rate", "budget", "error"},
           a \in {"none", "allowed", "denied", "awaiting"},
           stage' = [stage EXCEPT ![c] = s], decision' = [decision EXCEPT ![c] = d],
           answer' = [answer EXCEPT ![c] = a],
           UNCHANGED <<proxyTime, config, windowStart, count, usage, audited>>,
           s # "idle" => a = "none",
           config.failClosed /\ ~config.shadow =>
              /\ s = "record" => d \in {"ALLOW", "MODIFY"}
              /\ s = "audit" => d \in {"ALLOW", "MODIFY", "AWAIT_APPROVAL"}
              /\ a # "allowed",
           s = "approval" => d = "AWAIT_APPROVAL"
    PROVE  ProxyInv'
<1>1. c \in Calls BY DEF Admitted
<1>2. Admitted' \subseteq Admitted BY <1>1, AdmittedMoves
<1>3. OverrunIsBounded' BY <1>2, AdmittedShrinks
<1>4. windowStart \in 0 .. proxyTime /\ count \in Nat /\ audited \subseteq Calls
      BY DEF ProxyInv, ProxyTypeOK
<1> QED BY <1>1, <1>3, <1>4, OneCall

LEMMA StageKeeps ==
    ASSUME ProxyInv, NEW c \in Calls,
           \/ CheckBudget(c) \/ EvaluationFails(c) \/ ApprovalRequested(c) \/ ApprovalRefused(c)
           \/ \E d \in PolicyDecision \cup {"unknown"} : HandleDecision(c, d)
    PROVE  ProxyInv'
<1>1. /\ c \in Admitted /\ answer[c] = "none"
      /\ decision = [decision EXCEPT ![c] = decision[c]]
      /\ answer = [answer EXCEPT ![c] = answer[c]]
      /\ decision[c] \in PolicyDecision \cup
             {"none", "unknown", "unauthenticated", "override", "rate", "budget", "error"}
      BY DEF CheckBudget, EvaluationFails, ApprovalRequested, ApprovalRefused, HandleDecision,
             Pass, Admitted, ProxyInv, ProxyTypeOK, StagesFollow
<1>2. {"idle", "policy", "record", "approval", "audit"} \subseteq Stage BY DEF Stage
<1>3. CASE CheckBudget(c)
  <2>1. CASE usage < BudgetLimit
        BY <1>1, <1>2, <1>3, <2>1, AdmittedKeeps DEF CheckBudget, GoTo
  <2>2. CASE ~(usage < BudgetLimit)
        BY <1>1, <1>2, <1>3, <2>2, AdmittedKeeps DEF CheckBudget, GoTo, Answer
  <2> QED BY <2>1, <2>2
<1>4. OnUnknownError \in {"denied", "allowed"}
      /\ (config.failClosed => OnUnknownError = "denied")
      BY DEF OnUnknownError
<1>5. CASE EvaluationFails(c)
      BY <1>1, <1>2, <1>4, <1>5, AdmittedKeeps DEF EvaluationFails, GoTo, Answer
<1>6. CASE ApprovalRefused(c)
      BY <1>1, <1>2, <1>4, <1>6, AdmittedKeeps DEF ApprovalRefused, GoTo, Answer
<1>7. CASE ApprovalRequested(c)
  <2>1. decision[c] = "AWAIT_APPROVAL"
        BY <1>7 DEF ApprovalRequested, Pass, ProxyInv, StagesFollow
  <2> QED BY <1>1, <1>2, <1>7, <2>1, AdmittedKeeps DEF ApprovalRequested, Pass, GoTo
<1>8. ASSUME NEW d \in PolicyDecision \cup {"unknown"}, HandleDecision(c, d) PROVE ProxyInv'
  <2>1. decision' = [decision EXCEPT ![c] = d] BY <1>8 DEF HandleDecision
  <2>5. /\ d \in PolicyDecision \cup
               {"none", "unknown", "unauthenticated", "override", "rate", "budget", "error"}
        /\ UNCHANGED <<proxyTime, config, windowStart, count, usage, audited>>
        BY <1>8 DEF HandleDecision
  <2>6. c \in Admitted /\ answer = [answer EXCEPT ![c] = "none"] BY <1>1
  <2>2. CASE Proceeds(d) /\ GoTo(c, "record") /\ UNCHANGED answer
    <3>1. config.failClosed /\ ~config.shadow => d \in {"ALLOW", "MODIFY"}
          BY <2>2 DEF Proceeds
    <3>2. stage' = [stage EXCEPT ![c] = "record"] BY <2>2 DEF GoTo
    <3> QED BY <1>2, <2>1, <2>2, <2>5, <2>6, <3>1, <3>2, AdmittedKeeps
  <2>3. CASE d = "AWAIT_APPROVAL" /\ GoTo(c, "approval") /\ UNCHANGED answer
    <3>1. stage' = [stage EXCEPT ![c] = "approval"] BY <2>3 DEF GoTo
    <3> QED BY <1>2, <2>1, <2>3, <2>5, <2>6, <3>1, AdmittedKeeps
  <2>4. CASE Answer(c, "denied")
    <3>1. stage' = [stage EXCEPT ![c] = "idle"] /\ answer' = [answer EXCEPT ![c] = "denied"]
          BY <2>4 DEF Answer, GoTo
    <3> QED BY <1>1, <1>2, <2>1, <2>5, <2>6, <3>1, AdmittedKeeps
  <2> QED BY <1>8, <2>2, <2>3, <2>4 DEF HandleDecision
<1> QED BY <1>3, <1>5, <1>6, <1>7, <1>8

LEMMA RecordRequestKeeps ==
    ASSUME ProxyInv, NEW c \in Calls, RecordRequest(c)
    PROVE  ProxyInv'
<1>1. /\ c \in Admitted /\ answer[c] = "none" /\ stage[c] = "record"
      /\ decision = [decision EXCEPT ![c] = decision[c]]
      /\ answer = [answer EXCEPT ![c] = answer[c]]
      /\ decision[c] \in PolicyDecision \cup
             {"none", "unknown", "unauthenticated", "override", "rate", "budget", "error"}
      BY DEF RecordRequest, Pass, Admitted, ProxyInv, ProxyTypeOK, StagesFollow
<1>2. /\ stage' = [stage EXCEPT ![c] = "audit"] /\ count' = count + 1
      /\ UNCHANGED <<proxyTime, config, windowStart, usage, decision, audited, answer>>
      BY DEF RecordRequest, Pass, GoTo
<1>3. "audit" \in Stage BY DEF Stage
<1>4. Admitted' = Admitted \ {c} BY <1>2, <1>3, AdmittedMoves
<1>5. OverrunIsBounded' BY <1>1, <1>2, <1>4, RecordedIsBounded
<1>6. windowStart \in 0 .. proxyTime /\ count' \in Nat /\ audited \subseteq Calls
      BY <1>2 DEF ProxyInv, ProxyTypeOK
<1>7. config.failClosed /\ ~config.shadow => decision[c] \in {"ALLOW", "MODIFY"}
      BY <1>1 DEF ProxyInv, StagesFollow
<1> QED BY <1>1, <1>2, <1>3, <1>5, <1>6, <1>7, OneCall

LEMMA AuditKeeps ==
    ASSUME ProxyInv, NEW c \in Calls, LogAuditEvent(c)
    PROVE  ProxyInv'
<1>1. /\ decision = [decision EXCEPT ![c] = decision[c]] /\ stage[c] = "audit"
      /\ decision[c] \in PolicyDecision \cup
             {"none", "unknown", "unauthenticated", "override", "rate", "budget", "error"}
      /\ windowStart \in 0 .. proxyTime /\ count \in Nat /\ audited \subseteq Calls
      BY DEF LogAuditEvent, ProxyInv, ProxyTypeOK
<1>2. PICK a \in {"awaiting", "allowed"} :
         /\ answer' = [answer EXCEPT ![c] = a]
         /\ decision[c] = "AWAIT_APPROVAL" /\ ~config.shadow => a = "awaiting"
      BY DEF LogAuditEvent, Answer
<1>3. /\ stage' = [stage EXCEPT ![c] = "idle"] /\ audited' = audited \cup {c}
      /\ UNCHANGED <<proxyTime, config, windowStart, count, usage, decision>>
      BY DEF LogAuditEvent, Answer, GoTo
<1>4. "idle" \in Stage BY DEF Stage
<1>5. Admitted' \subseteq Admitted BY <1>3, <1>4, AdmittedMoves
<1>6. OverrunIsBounded' BY <1>3, <1>5, AdmittedShrinks
<1>7. config.failClosed /\ ~config.shadow /\ a = "allowed" => decision[c] \in {"ALLOW", "MODIFY"}
      BY <1>1, <1>2 DEF ProxyInv, StagesFollow
<1> QED BY <1>1, <1>2, <1>3, <1>4, <1>6, <1>7, OneCall

LEMMA BudgetKeeps ==
    ASSUME ProxyInv, UNCHANGED <<config, stage, decision, answer, audited>>,
           \/ \E units \in 1 .. MaxUsage : RecordUsage(units)
           \/ ResetBudget \/ RenewRateLimit \/ ProxyTick
    PROVE  ProxyInv'
<1> USE ProxyAssumption
<1>1. StagesFollow' /\ AllowedIsDecided'
      BY DEF ProxyInv, StagesFollow, AllowedIsDecided
<1>2. Admitted' = Admitted BY DEF Admitted
<1>3. proxyTime \in 0 .. MaxProxyTime /\ windowStart \in 0 .. proxyTime /\ usage \in 0 .. MaxUsage
      /\ count \in Nat
      BY DEF ProxyInv, ProxyTypeOK
<1>4. /\ proxyTime' \in 0 .. MaxProxyTime /\ windowStart' \in 0 .. proxyTime'
      /\ usage' \in 0 .. MaxUsage /\ count' \in {count, 0}
  <2>1. ASSUME NEW units \in 1 .. MaxUsage, RecordUsage(units)
        PROVE  /\ proxyTime' = proxyTime /\ windowStart' = windowStart
               /\ usage' \in 0 .. MaxUsage /\ count' = count
        BY <1>3, <2>1 DEF RecordUsage
  <2>2. CASE ResetBudget BY <1>3, <2>2 DEF ResetBudget
  <2>3. CASE RenewRateLimit BY <1>3, <2>3 DEF RenewRateLimit, RestartWindow
  <2>4. CASE ProxyTick BY <1>3, <2>4 DEF ProxyTick
  <2> QED BY <1>3, <2>1, <2>2, <2>3, <2>4
<1>5. ProxyTypeOK' BY <1>3, <1>4 DEF ProxyInv, ProxyTypeOK
<1>6. OverrunIsBounded' BY <1>2, <1>4, AdmittedShrinks
<1> QED BY <1>1, <1>5, <1>6 DEF ProxyInv

LEMMA ProxyStep == ProxyInv /\ [ProxyNext]_proxyVars => ProxyInv'
<1> SUFFICES ASSUME ProxyInv, [ProxyNext]_proxyVars PROVE ProxyInv' OBVIOUS
<1>1. CASE UNCHANGED proxyVars
      BY <1>1 DEF proxyVars, ProxyInv, ProxyTypeOK, StagesFollow, OverrunIsBounded, Admitted,
                  AllowedIsDecided
<1>2. CASE \/ \E units \in 1 .. MaxUsage : RecordUsage(units)
           \/ ResetBudget \/ RenewRateLimit \/ ProxyTick
      BY <1>2, BudgetKeeps DEF RecordUsage, ResetBudget, RenewRateLimit, ProxyTick
<1> QED BY <1>1, <1>2, ProcessKeeps, RateKeeps, StageKeeps, RecordRequestKeeps, AuditKeeps
        DEF ProxyNext

LEMMA ProxyAlways == ProxyInit /\ [][ProxyNext]_proxyVars => []ProxyInv
BY ProxyInitially, ProxyStep, PTL

-----------------------------------------------------------------------------
CacheRecords == [basis : Versions, stored : 0 .. MaxPolicyTime]

\* The policy engine.  Versions are replaced in the past, ...
PolicyShape == PolicyTypeOK /\ \A v \in Versions : replaced[v] <= policyTime

\* ... an answer that is waited for is about a version that was in effect when it was asked for,
\* not longer ago than the timeout, ...
AnswersAreTimely == \A e \in Evaluations : asking[e] # NotAsking =>
    /\ asking[e].basis \in 1 .. version
    /\ asking[e].since <= policyTime /\ policyTime <= asking[e].since + OpaTimeout
    /\ asking[e].basis # version => replaced[asking[e].basis] >= asking[e].since

\* ... what is cached was in effect no longer than the timeout before it was stored, ...
CacheIsTimely == cache # NoEntry =>
    /\ cache.basis \in 1 .. version /\ cache.stored <= policyTime
    /\ cache.basis # version => replaced[cache.basis] + OpaTimeout >= cache.stored

\* ... and what is served was no longer ago than that and the life of an entry.
ServedIsTimely == \A e \in Evaluations : served[e] # 0 =>
    /\ served[e] \in 1 .. version
    /\ served[e] # version => replaced[served[e]] + CacheTtl + OpaTimeout >= policyTime

PolicyInv == PolicyShape /\ AnswersAreTimely /\ CacheIsTimely /\ ServedIsTimely

LEMMA PolicyInitially == PolicyInit => PolicyInv
<1> SUFFICES ASSUME PolicyInit PROVE PolicyInv OBVIOUS
<1>1. 1 \in Versions /\ 0 \in 0 .. MaxPolicyTime /\ 0 \in 0 .. MaxVersions
      BY PolicyAssumption DEF Versions
<1>2. NotAsking \in [since : 0 .. MaxPolicyTime, basis : 0 .. MaxVersions]
      BY <1>1 DEF NotAsking
<1>3. PolicyTypeOK BY <1>1, <1>2 DEF PolicyInit, PolicyTypeOK
<1>4. PolicyShape BY <1>3 DEF PolicyShape, PolicyInit
<1> QED BY <1>4 DEF PolicyInv, PolicyInit, AnswersAreTimely, CacheIsTimely, ServedIsTimely

\* The numbers behind the invariant, as the provers need them.
LEMMA PolicyNumbers ==
    ASSUME PolicyInv
    PROVE  /\ policyTime \in Nat /\ policyTime \in 0 .. MaxPolicyTime
           /\ version \in Nat /\ version \in Versions /\ 1 .. version \subseteq Versions
           /\ \A v \in Versions : replaced[v] \in Nat /\ replaced[v] <= policyTime
           /\ \A e \in Evaluations : asking[e].since \in Nat /\ asking[e].basis \in Nat
           /\ cache # NoEntry => cache.basis \in Nat /\ cache.stored \in Nat
           /\ \A e \in Evaluations : served[e] \in Nat
           /\ CacheTtl \in Nat /\ OpaTimeout \in Nat
<1>1. PolicyTypeOK /\ \A v \in Versions : replaced[v] <= policyTime BY DEF PolicyInv, PolicyShape
<1>2. 1 .. version \subseteq Versions BY <1>1, PolicyAssumption DEF PolicyTypeOK, Versions
<1>3. policyTime \in Nat /\ version \in Nat BY <1>1, PolicyAssumption DEF PolicyTypeOK, Versions
<1>4. \A v \in Versions : replaced[v] \in Nat BY <1>1, PolicyAssumption DEF PolicyTypeOK
<1>5. cache # NoEntry => cache.basis \in Nat /\ cache.stored \in Nat
      BY <1>1, PolicyAssumption DEF PolicyTypeOK, Versions
<1>6. \A e \in Evaluations : asking[e].since \in Nat /\ asking[e].basis \in Nat
                             /\ served[e] \in Nat
      BY <1>1, PolicyAssumption DEF PolicyTypeOK
<1> QED BY <1>1, <1>2, <1>3, <1>4, <1>5, <1>6, PolicyAssumption DEF PolicyTypeOK

\* A result is served, and perhaps stored.
LEMMA ResultKeeps ==
    ASSUME PolicyInv, NEW e \in Evaluations, NEW v \in 1 .. version, Serve(e, v),
           v # version => replaced[v] + CacheTtl + OpaTimeout >= policyTime,
           \/ cache' = cache
           \/ Store(v) /\ (v # version => replaced[v] + OpaTimeout >= policyTime),
           \/ asking' = asking \/ asking' = [asking EXCEPT ![e] = NotAsking],
           UNCHANGED <<policyTime, version, replaced>>
    PROVE  PolicyInv'
<1>1. PolicyTypeOK BY DEF PolicyInv, PolicyShape
<1>2. v \in Versions /\ v \in 0 .. MaxVersions
      BY PolicyNumbers, PolicyAssumption DEF Versions
<1>3. served' = [served EXCEPT ![e] = v] BY DEF Serve
<1>4. served' \in [Evaluations -> 0 .. MaxVersions] BY <1>1, <1>2, <1>3 DEF PolicyTypeOK
<1>5. cache' \in CacheRecords \cup {NoEntry} /\ CacheIsTimely'
  <2>1. CASE cache' = cache
        BY <1>1, <2>1 DEF PolicyTypeOK, PolicyInv, CacheIsTimely, CacheRecords
  <2>2. CASE Store(v) /\ (v # version => replaced[v] + OpaTimeout >= policyTime)
    <3>1. cache' = [basis |-> v, stored |-> policyTime] BY <2>2 DEF Store
    <3>2. cache' \in CacheRecords BY <1>2, <3>1, PolicyNumbers DEF CacheRecords
    <3>3. cache'.basis = v /\ cache'.stored = policyTime BY <3>1
    <3>4. CacheIsTimely' BY <2>2, <3>3, PolicyNumbers DEF CacheIsTimely
    <3> QED BY <3>2, <3>4
  <2> QED BY <2>1, <2>2
<1>6. asking' \in [Evaluations -> [since : 0 .. MaxPolicyTime, basis : 0 .. MaxVersions]]
      /\ AnswersAreTimely'
  <2>1. NotAsking \in [since : 0 .. MaxPolicyTime, basis : 0 .. MaxVersions]
        BY PolicyAssumption DEF NotAsking
  <2>2. \A f \in Evaluations : asking'[f] \in {asking[f], NotAsking} BY <1>1 DEF PolicyTypeOK
  <2>3. AnswersAreTimely' BY <2>2 DEF PolicyInv, AnswersAreTimely
  <2> QED BY <1>1, <2>1, <2>3 DEF PolicyTypeOK
<1>7. PolicyShape' BY <1>1, <1>4, <1>5, <1>6 DEF PolicyInv, PolicyShape, PolicyTypeOK, CacheRecords
<1>8. ServedIsTimely'
  <2>1. \A f \in Evaluations : served'[f] = IF f = e THEN v ELSE served[f]
        BY <1>1, <1>3 DEF PolicyTypeOK
  <2> QED BY <2>1 DEF PolicyInv, ServedIsTimely
<1> QED BY <1>5, <1>6, <1>7, <1>8 DEF PolicyInv

LEMMA EvaluateKeeps ==
    ASSUME PolicyInv, NEW e \in Evaluations,
           EvaluateFromCache(e) \/ EvaluateLocally(e) \/ OPAReturns(e)
    PROVE  PolicyInv'
<1>1. version \in 1 .. version BY PolicyNumbers, PolicyAssumption DEF Versions
<1>2. CASE EvaluateFromCache(e)
  <2>1. /\ cache # NoEntry /\ policyTime - cache.stored <= CacheTtl /\ Serve(e, cache.basis)
        /\ UNCHANGED <<policyTime, version, replaced, cache, asking>>
        BY <1>2 DEF EvaluateFromCache, CacheIsFresh
  <2>2. /\ cache.basis \in 1 .. version /\ cache.stored <= policyTime
        /\ cache.basis # version => replaced[cache.basis] + OpaTimeout >= cache.stored
        BY <2>1 DEF PolicyInv, CacheIsTimely
  <2>3. cache.basis \in Versions BY <2>2, PolicyNumbers
  <2>4. replaced[cache.basis] \in Nat /\ cache.stored \in Nat BY <2>1, <2>3, PolicyNumbers
  <2>5. cache.basis # version => replaced[cache.basis] + CacheTtl + OpaTimeout >= policyTime
        BY <2>1, <2>2, <2>4, PolicyNumbers
  <2> QED BY <2>1, <2>2, <2>5, ResultKeeps
<1>3. CASE EvaluateLocally(e) BY <1>1, <1>3, ResultKeeps DEF EvaluateLocally
<1>4. CASE OPAReturns(e)
  <2>1. PICK v \in {asking[e].basis, version} : Store(v) /\ Serve(e, v)
        BY <1>4 DEF OPAReturns
  <2>2. /\ asking[e] # NotAsking /\ asking' = [asking EXCEPT ![e] = NotAsking]
        /\ UNCHANGED <<policyTime, version, replaced>>
        BY <1>4 DEF OPAReturns
  <2>3. /\ asking[e].basis \in 1 .. version
        /\ policyTime <= asking[e].since + OpaTimeout
        /\ asking[e].basis # version => replaced[asking[e].basis] >= asking[e].since
        BY <2>2 DEF PolicyInv, AnswersAreTimely
  <2>4. v \in 1 .. version BY <1>1, <2>1, <2>3
  <2>5. replaced[asking[e].basis] \in Nat /\ asking[e].since \in Nat BY <2>3, PolicyNumbers
  <2>6. asking[e].basis # version =>
            /\ replaced[asking[e].basis] + OpaTimeout >= policyTime
            /\ replaced[asking[e].basis] + CacheTtl + OpaTimeout >= policyTime
        BY <2>3, <2>5, PolicyNumbers
  <2> QED BY <2>1, <2>2, <2>4, <2>6, ResultKeeps
<1> QED BY <1>2, <1>3, <1>4

LEMMA AskKeeps ==
    ASSUME PolicyInv, NEW e \in Evaluations, EvaluateWithOPA(e)
    PROVE  PolicyInv'
<1> DEFINE asked == [since |-> policyTime, basis |-> version]
<1>1. PolicyTypeOK BY DEF PolicyInv, PolicyShape
<1>2. asked \in [since : 0 .. MaxPolicyTime, basis : 0 .. MaxVersions]
      BY PolicyNumbers, PolicyAssumption DEF Versions
<1>3. /\ asking' = [asking EXCEPT ![e] = asked]
      /\ UNCHANGED <<policyTime, version, replaced, cache, served>>
      BY DEF EvaluateWithOPA
<1>4. asked.since = policyTime /\ asked.basis = version OBVIOUS
<1> HIDE DEF asked
<1>5. PolicyShape' BY <1>1, <1>2, <1>3 DEF PolicyInv, PolicyShape, PolicyTypeOK
<1>6. AnswersAreTimely'
  <2>1. \A f \in Evaluations : asking'[f] = IF f = e THEN asked ELSE asking[f]
        BY <1>1, <1>3 DEF PolicyTypeOK
  <2>2. version \in 1 .. version /\ policyTime <= policyTime /\ policyTime <= policyTime + OpaTimeout
        BY PolicyNumbers, PolicyAssumption DEF Versions
  <2> QED BY <1>3, <1>4, <2>1, <2>2 DEF PolicyInv, AnswersAreTimely
<1> QED BY <1>3, <1>5, <1>6 DEF PolicyInv, CacheIsTimely, ServedIsTimely

\* Another version: what was in effect is replaced now.
LEMMA ReplaceKeeps ==
    ASSUME PolicyInv, Replace, cache' \in {cache, NoEntry},
           UNCHANGED <<policyTime, asking, served>>
    PROVE  PolicyInv'
<1>1. PolicyTypeOK BY DEF PolicyInv, PolicyShape
<1>2. PICK next : next = version + 1 OBVIOUS
<1>3. /\ next \in Versions /\ version' = next /\ next \in Nat
      /\ 1 .. version \subseteq 1 .. next /\ next \notin 1 .. version
      BY <1>2, PolicyNumbers, PolicyAssumption DEF Replace, Versions
<1>4. replaced' = [replaced EXCEPT ![version] = policyTime] BY DEF Replace
<1>5. \A v \in Versions : replaced'[v] = IF v = version THEN policyTime ELSE replaced[v]
      BY <1>1, <1>4 DEF PolicyTypeOK
<1>6. PolicyShape'
  <2>1. replaced' \in [Versions -> 0 .. MaxPolicyTime]
        BY <1>1, <1>4, PolicyNumbers DEF PolicyTypeOK
  <2> QED BY <1>1, <1>3, <1>5, <2>1, PolicyNumbers DEF PolicyInv, PolicyShape, PolicyTypeOK
<1>7. AnswersAreTimely'
  <2>1. ASSUME NEW e \in Evaluations, asking[e] # NotAsking
        PROVE  /\ asking[e].basis \in 1 .. next
               /\ replaced'[asking[e].basis] >= asking[e].since
    <3>1. /\ asking[e].basis \in 1 .. version /\ asking[e].since <= policyTime
          /\ asking[e].basis # version => replaced[asking[e].basis] >= asking[e].since
          BY <2>1 DEF PolicyInv, AnswersAreTimely
    <3>2. asking[e].basis \in Versions BY <3>1, PolicyNumbers
    <3>3. CASE asking[e].basis = version BY <1>3, <1>5, <3>1, <3>2, <3>3, PolicyNumbers
    <3>4. CASE asking[e].basis # version BY <1>3, <1>5, <3>1, <3>2, <3>4
    <3> QED BY <3>3, <3>4
  <2> QED BY <1>3, <2>1 DEF PolicyInv, AnswersAreTimely
<1>8. CacheIsTimely'
  <2>1. ASSUME cache # NoEntry
        PROVE  /\ cache.basis \in 1 .. next
               /\ replaced'[cache.basis] + OpaTimeout >= cache.stored
    <3>1. /\ cache.basis \in 1 .. version /\ cache.stored <= policyTime
          /\ cache.basis # version => replaced[cache.basis] + OpaTimeout >= cache.stored
          BY <2>1 DEF PolicyInv, CacheIsTimely
    <3>2. cache.basis \in Versions BY <3>1, PolicyNumbers
    <3>3. CASE cache.basis = version
      <4>1. replaced'[cache.basis] = policyTime BY <1>5, <3>2, <3>3
      <4>2. policyTime + OpaTimeout >= cache.stored BY <2>1, <3>1, PolicyNumbers
      <4> QED BY <1>3, <3>1, <4>1, <4>2
    <3>4. CASE cache.basis # version BY <1>3, <1>5, <3>1, <3>2, <3>4
    <3> QED BY <3>3, <3>4
  <2> QED BY <1>3, <2>1 DEF PolicyInv, CacheIsTimely
<1>9. ServedIsTimely'
  <2>1. ASSUME NEW e \in Evaluations, served[e] # 0
        PROVE  /\ served[e] \in 1 .. next
               /\ replaced'[served[e]] + CacheTtl + OpaTimeout >= policyTime
    <3>1. /\ served[e] \in 1 .. version
          /\ served[e] # version => replaced[served[e]] + CacheTtl + OpaTimeout >= policyTime
          BY <2>1 DEF PolicyInv, ServedIsTimely
    <3>2. served[e] \in Versions BY <3>1, PolicyNumbers
    <3>3. CASE served[e] = version
      <4>1. replaced'[served[e]] = policyTime BY <1>5, <3>2, <3>3
      <4>2. policyTime + CacheTtl + OpaTimeout >= policyTime BY PolicyNumbers
      <4> QED BY <1>3, <3>1, <4>1, <4>2
    <3>4. CASE served[e] # version BY <1>3, <1>5, <3>1, <3>2, <3>4
    <3> QED BY <3>3, <3>4
  <2> QED BY <1>3, <2>1 DEF PolicyInv, ServedIsTimely
<1> QED BY <1>6, <1>7, <1>8, <1>9 DEF PolicyInv

LEMMA PolicyTimeKeeps ==
    ASSUME PolicyInv, CleanCache \/ PolicyTick
    PROVE  PolicyInv'
<1>1. PolicyTypeOK BY DEF PolicyInv, PolicyShape
<1>2. CASE CleanCache
      BY <1>2 DEF CleanCache, PolicyInv, PolicyShape, PolicyTypeOK, AnswersAreTimely,
                  CacheIsTimely, ServedIsTimely
<1>3. CASE PolicyTick
  <2>1. /\ policyTime < MaxPolicyTime /\ policyTime' = policyTime + 1
        /\ served' = [e \in Evaluations |-> 0]
        /\ \A e \in Evaluations : asking[e] # NotAsking => policyTime < asking[e].since + OpaTimeout
        /\ UNCHANGED <<version, replaced, cache, asking>>
        BY <1>3 DEF PolicyTick
  <2>2. policyTime' \in 0 .. MaxPolicyTime /\ policyTime <= policyTime' /\ policyTime' \in Nat
        BY <2>1, PolicyNumbers, PolicyAssumption
  <2>3. served' \in [Evaluations -> 0 .. MaxVersions] BY <2>1, PolicyAssumption
  <2>4. \A v \in Versions : replaced[v] <= policyTime' BY <2>2, PolicyNumbers
  <2>5. PolicyShape' BY <1>1, <2>1, <2>2, <2>3, <2>4 DEF PolicyShape, PolicyTypeOK
  <2>6. ASSUME NEW e \in Evaluations, asking[e] # NotAsking
        PROVE  asking[e].since <= policyTime' /\ policyTime' <= asking[e].since + OpaTimeout
    <3>1. asking[e].since <= policyTime /\ policyTime < asking[e].since + OpaTimeout
          BY <2>1, <2>6 DEF PolicyInv, AnswersAreTimely
    <3> QED BY <2>1, <3>1, PolicyNumbers
  <2>7. AnswersAreTimely' BY <2>1, <2>6 DEF PolicyInv, AnswersAreTimely
  <2>8. cache # NoEntry => cache.stored <= policyTime'
        BY <2>2, PolicyNumbers DEF PolicyInv, CacheIsTimely
  <2>9. CacheIsTimely' BY <2>1, <2>8 DEF PolicyInv, CacheIsTimely
  <2>10. ServedIsTimely' BY <2>1 DEF ServedIsTimely
  <2> QED BY <2>5, <2>7, <2>9, <2>10 DEF PolicyInv
<1> QED BY <1>2, <1>3

LEMMA PolicyStep == PolicyInv /\ [PolicyNext]_policyVars => PolicyInv'
<1> SUFFICES ASSUME PolicyInv, [PolicyNext]_policyVars PROVE PolicyInv' OBVIOUS
<1>1. CASE UNCHANGED policyVars
      BY <1>1 DEF policyVars, PolicyInv, PolicyShape, PolicyTypeOK, AnswersAreTimely,
                  CacheIsTimely, ServedIsTimely
<1>2. CASE ChangeBundle \/ HotReload BY <1>2, ReplaceKeeps DEF ChangeBundle, HotReload
<1> QED BY <1>1, <1>2, EvaluateKeeps, AskKeeps, PolicyTimeKeeps DEF PolicyNext

LEMMA PolicyAlways == PolicyInit /\ [][PolicyNext]_policyVars => []PolicyInv
BY PolicyInitially, PolicyStep, PTL

LEMMA ServedIsBounded == PolicyInv => StalenessIsBounded
<1> SUFFICES ASSUME PolicyInv, NEW e \in Evaluations, served[e] # 0, served[e] # version
             PROVE  policyTime - replaced[served[e]] <= CacheTtl + OpaTimeout
    BY DEF StalenessIsBounded
<1>1. /\ served[e] \in 1 .. version
      /\ replaced[served[e]] + CacheTtl + OpaTimeout >= policyTime
      BY DEF PolicyInv, ServedIsTimely
<1>2. replaced[served[e]] \in Nat BY <1>1, PolicyNumbers
<1> QED BY <1>1, <1>2, PolicyNumbers

-----------------------------------------------------------------------------
(***************************************************************************)
(* From a request to a started workflow. An intent that was denied is      *)
(* never named to anyone, and a plan is made of what is named: so a plan's *)
(* intent was allowed, and its need for an approval covers the intent's.   *)
(***************************************************************************)

PipelineRows ==
    [interpretation : Interpretations, environment : Environments,
     policyStatus : {"denied", "pending", "approved"}, approvalRequired : BOOLEAN]
PipelinePlanRows ==
    [intent : Nat, risk : {p.risk : p \in PlanAnswers}, approvalRequired : BOOLEAN]
PipelineCallStates ==
    [at : {"resting", "parsing", "planning"}, text : Texts \cup {Nothing},
     environment : Environments \cup {Nothing}, direct : BOOLEAN, intent : Nat]

\* The intents that may be planned for: stored, and not denied.
Plannable == {k \in DOMAIN intents : intents[k].policyStatus # "denied"}

PipelineShape ==
    /\ intents \in Seq(PipelineRows) /\ Len(intents) <= MaxIntents
    /\ plans \in Seq(PipelinePlanRows) /\ Len(plans) <= MaxPlans
    /\ calls \in [PipelineCalls -> PipelineCallStates]
    /\ \A t \in DOMAIN readings : readings[t] \in Interpretations
    /\ \A k \in DOMAIN drafts : drafts[k] \in PlanAnswers

RowsAreEvaluated ==
    \A k \in DOMAIN intents :
        /\ intents[k].policyStatus = PolicyStatus(intents[k].interpretation, intents[k].environment)
        /\ intents[k].approvalRequired
               <=> RequiresApproval(intents[k].interpretation, intents[k].environment)

OnlyAllowedIsNamed ==
    /\ \A k \in toldIntents : k \in Plannable
    /\ \A c \in PipelineCalls :
          /\ calls[c].at = "parsing" => calls[c].environment \in Environments /\ calls[c].text \in Texts
          /\ calls[c].at = "planning" => calls[c].intent \in Plannable

PlansAreCovered ==
    \A id \in DOMAIN plans :
        /\ plans[id].intent \in Plannable
        /\ ~plans[id].approvalRequired
              => plans[id].risk = "low" /\ ~intents[plans[id].intent].approvalRequired

StartedNeedNone ==
    /\ toldPlans \subseteq DOMAIN plans /\ awaiting \subseteq DOMAIN plans
    /\ \A id \in started : id \in DOMAIN plans /\ ~plans[id].approvalRequired

PipelineInv ==
    PipelineShape /\ RowsAreEvaluated /\ OnlyAllowedIsNamed /\ PlansAreCovered /\ StartedNeedNone

LEMMA PipelineSound == PipelineInv => PipelineTypeOK /\ NothingRunsAgainstPolicy
<1> SUFFICES ASSUME PipelineInv PROVE PipelineTypeOK /\ NothingRunsAgainstPolicy OBVIOUS
<1>1. PipelineTypeOK
  <2>1. \A k \in DOMAIN intents : intents[k].interpretation \in Interpretations
    <3>1. \A k \in DOMAIN intents : intents[k] \in PipelineRows BY DEF PipelineInv, PipelineShape
    <3> QED BY <3>1 DEF PipelineRows
  <2>2. \A c \in PipelineCalls : calls[c].at \in {"resting", "parsing", "planning"}
        BY DEF PipelineInv, PipelineShape, PipelineCallStates
  <2> QED BY <2>1, <2>2 DEF PipelineTypeOK, PipelineInv, PipelineShape, OnlyAllowedIsNamed, Plannable,
                            StartedNeedNone
<1>2. ASSUME NEW id \in started
      PROVE  /\ id \in DOMAIN plans /\ plans[id].risk = "low"
             /\ plans[id].intent \in DOMAIN intents
             /\ ~intents[plans[id].intent].approvalRequired
      BY DEF PipelineInv, StartedNeedNone, PlansAreCovered, Plannable
<1>3. ASSUME NEW k \in DOMAIN intents, ~intents[k].approvalRequired
      PROVE  ~RequiresApproval(intents[k].interpretation, intents[k].environment)
      BY <1>3 DEF PipelineInv, RowsAreEvaluated
<1>4. \A id \in DOMAIN plans : intents[plans[id].intent].policyStatus # "denied"
      BY DEF PipelineInv, PlansAreCovered, Plannable
<1> QED BY <1>1, <1>2, <1>3, <1>4 DEF NothingRunsAgainstPolicy, RequiresApproval

LEMMA PipelineInitially == PipelineInit => PipelineInv
<1> SUFFICES ASSUME PipelineInit PROVE PipelineInv OBVIOUS
<1>1. Resting \in PipelineCallStates BY DEF Resting, PipelineCallStates
<1>2. PipelineShape BY <1>1, PipelineAssumption DEF PipelineInit, PipelineShape
<1>3. \A c \in PipelineCalls : calls[c].at = "resting" BY DEF PipelineInit, Resting
<1> QED BY <1>2, <1>3 DEF PipelineInit, PipelineInv, RowsAreEvaluated, OnlyAllowedIsNamed,
                          PlansAreCovered, StartedNeedNone

\* What a call may turn into.
GoodCall(x) ==
    /\ x \in PipelineCallStates
    /\ x.at = "parsing" => x.environment \in Environments /\ x.text \in Texts
    /\ x.at = "planning" => x.intent \in Plannable

LEMMA RestingIsGood == GoodCall(Resting)
BY DEF GoodCall, Resting, PipelineCallStates

\* A call changes and nothing is stored.
LEMMA CallMoves ==
    ASSUME PipelineInv, NEW c \in PipelineCalls, NEW x, GoodCall(x),
           calls' = [calls EXCEPT ![c] = x], UNCHANGED <<intents, toldIntents>>
    PROVE  calls' \in [PipelineCalls -> PipelineCallStates] /\ OnlyAllowedIsNamed'
<1>1. calls \in [PipelineCalls -> PipelineCallStates] BY DEF PipelineInv, PipelineShape
<1>2. calls' \in [PipelineCalls -> PipelineCallStates] BY <1>1 DEF GoodCall
<1>3. Plannable \subseteq Plannable' BY DEF Plannable
<1>4. ASSUME NEW d \in PipelineCalls
      PROVE  /\ calls'[d].at = "parsing" => calls'[d].environment \in Environments /\ calls'[d].text \in Texts
             /\ calls'[d].at = "planning" => calls'[d].intent \in Plannable
  <2>1. CASE d = c
    <3>1. calls'[d] = x BY <1>1, <2>1
    <3> QED BY <3>1 DEF GoodCall
  <2>2. CASE d # c
    <3>1. calls'[d] = calls[d] BY <1>1, <2>2
    <3> QED BY <3>1 DEF PipelineInv, OnlyAllowedIsNamed
  <2> QED BY <2>1, <2>2
<1>5. \A k \in toldIntents' : k \in Plannable BY DEF PipelineInv, OnlyAllowedIsNamed
<1>6. \A d \in PipelineCalls : calls'[d].at = "planning" => calls'[d].intent \in Plannable' BY <1>3, <1>4
<1>7. \A k \in toldIntents' : k \in Plannable' BY <1>3, <1>5
<1> QED BY <1>2, <1>4, <1>6, <1>7 DEF OnlyAllowedIsNamed

\* The caches keep what they must hold.
CachesHold == /\ \A t \in DOMAIN readings : readings[t] \in Interpretations
              /\ \A k \in DOMAIN drafts : drafts[k] \in PlanAnswers

\* A plan is made, or not, for an intent that may be planned for.
LEMMA PlanKeeps ==
    ASSUME PipelineInv, NEW c \in PipelineCalls, NEW k, k \in Plannable, NEW p \in PlanAnswers,
           NEW direct \in BOOLEAN, Plan(c, k, p, direct), UNCHANGED <<intents, toldIntents>>,
           CachesHold'
    PROVE  PipelineInv'
<1>1. intents \in Seq(PipelineRows) /\ plans \in Seq(PipelinePlanRows) BY DEF PipelineInv, PipelineShape
<1>2. calls' \in [PipelineCalls -> PipelineCallStates] /\ OnlyAllowedIsNamed'
  <2>1. calls' = [calls EXCEPT ![c] = Resting] BY DEF Plan, Rests
  <2> QED BY <2>1, RestingIsGood, CallMoves
<1>3. RowsAreEvaluated' BY DEF PipelineInv, RowsAreEvaluated
<1>4. Plannable \subseteq Plannable' BY DEF Plannable
<1>5. CASE UNCHANGED <<plans, toldPlans, started, awaiting>>
  <2>1. PipelineShape' BY <1>2, <1>5 DEF PipelineInv, PipelineShape, CachesHold
  <2>2. PlansAreCovered' BY <1>4, <1>5 DEF PipelineInv, PlansAreCovered
  <2>3. StartedNeedNone' BY <1>5 DEF PipelineInv, StartedNeedNone
  <2> QED BY <1>2, <1>3, <2>1, <2>2, <2>3 DEF PipelineInv
<1>6. CASE p.wellFormed
  <2>1. PICK approval \in BOOLEAN : approval = PlanApprovalRequired(p, intents[k])
        BY DEF PlanApprovalRequired
  <2>2. PICK row : row = [intent |-> k, risk |-> p.risk, approvalRequired |-> approval] OBVIOUS
  <2>3. plans' = Append(plans, row) /\ Len(plans) < MaxPlans BY <1>6, <2>1, <2>2, Zenon DEF Plan
  <2>4. k \in Nat BY <1>1 DEF Plannable
  <2>5. row \in PipelinePlanRows BY <2>2, <2>4 DEF PipelinePlanRows
  <2>6. /\ plans' \in Seq(PipelinePlanRows) /\ Len(plans') = Len(plans) + 1
        /\ \A id \in DOMAIN plans' : IF id = Len(plans) + 1 THEN plans'[id] = row
                                     ELSE id \in DOMAIN plans /\ plans'[id] = plans[id]
        /\ DOMAIN plans \subseteq DOMAIN plans' /\ Len(plans) + 1 \in DOMAIN plans'
        /\ Len(plans) + 1 \notin DOMAIN plans
        BY <1>1, <2>3, <2>5
  <2>7. PipelineShape'
        BY <1>2, <2>3, <2>6, PipelineAssumption DEF PipelineInv, PipelineShape, CachesHold
  <2>8. ~approval => p.risk = "low" /\ ~intents[k].approvalRequired
        BY <2>1 DEF PlanApprovalRequired
  <2>9. ASSUME NEW id \in DOMAIN plans'
        PROVE  /\ plans'[id].intent \in Plannable
               /\ ~plans'[id].approvalRequired
                     => plans'[id].risk = "low" /\ ~intents[plans'[id].intent].approvalRequired
    <3>1. CASE id = Len(plans) + 1
      <4>1. plans'[id] = row BY <2>6, <3>1
      <4>2. row.intent = k /\ row.risk = p.risk /\ row.approvalRequired = approval BY <2>2
      <4> QED BY <2>8, <4>1, <4>2
    <3>2. CASE id # Len(plans) + 1
      <4>1. id \in DOMAIN plans /\ plans'[id] = plans[id] BY <2>6, <3>2
      <4> QED BY <4>1 DEF PipelineInv, PlansAreCovered
    <3> QED BY <3>1, <3>2
  <2>10. \A id \in DOMAIN plans' : plans'[id].intent \in Plannable' BY <1>4, <2>9
  <2>11. PlansAreCovered' BY <2>9, <2>10 DEF PlansAreCovered
  <2>12. /\ started' \subseteq started \cup (IF approval THEN {} ELSE {Len(plans) + 1})
         /\ awaiting' \subseteq awaiting \cup {Len(plans) + 1}
         /\ toldPlans' \subseteq toldPlans \cup {Len(plans) + 1}
    <3>1. /\ \E goesOn \in {FALSE, direct} :
               /\ started' = IF goesOn /\ ~approval THEN started \cup {Len(plans) + 1} ELSE started
               /\ awaiting' = IF goesOn /\ approval THEN awaiting \cup {Len(plans) + 1} ELSE awaiting
          /\ \E recorded \in RecordAnswers :
               toldPlans' = IF ~direct /\ recorded THEN toldPlans \cup {Len(plans) + 1} ELSE toldPlans
          BY <1>6, <2>1, Zenon DEF Plan
    <3> QED BY <3>1
  <2>13. StartedNeedNone'
    <3>1. toldPlans' \subseteq DOMAIN plans' /\ awaiting' \subseteq DOMAIN plans'
          BY <2>6, <2>12 DEF PipelineInv, StartedNeedNone
    <3>2. ASSUME NEW id \in started' PROVE id \in DOMAIN plans' /\ ~plans'[id].approvalRequired
      <4>1. CASE id \in started
        <5>1. id \in DOMAIN plans /\ ~plans[id].approvalRequired BY <4>1 DEF PipelineInv, StartedNeedNone
        <5>2. plans'[id] = plans[id] /\ id \in DOMAIN plans' BY <2>6, <5>1
        <5> QED BY <5>1, <5>2
      <4>2. CASE id \notin started
        <5>1. ~approval /\ id = Len(plans) + 1 BY <2>12, <4>2
        <5>2. plans'[id] = row /\ id \in DOMAIN plans' BY <2>6, <5>1
        <5> QED BY <2>2, <5>1, <5>2
      <4> QED BY <4>1, <4>2
    <3> QED BY <3>1, <3>2 DEF StartedNeedNone
  <2> QED BY <1>2, <1>3, <2>7, <2>11, <2>13 DEF PipelineInv
<1> QED BY <1>5, <1>6 DEF Plan

LEMMA BeginKeeps ==
    ASSUME PipelineInv, NEW c \in PipelineCalls, NEW k, k \in Plannable, NEW direct \in BOOLEAN,
           BeginPlan(c, k, direct), UNCHANGED <<intents, toldIntents, readings, drafts>>
    PROVE  PipelineInv'
<1>1. CachesHold' BY DEF CachesHold, PipelineInv, PipelineShape
<1>2. CASE k \in DOMAIN drafts
  <2>1. drafts[k] \in PlanAnswers BY <1>2 DEF PipelineInv, PipelineShape
  <2>2. Plan(c, k, drafts[k], direct) BY <1>2 DEF BeginPlan
  <2> QED BY <1>1, <2>1, <2>2, PlanKeeps
<1>3. CASE k \notin DOMAIN drafts
  <2>1. PICK x : x = [Resting EXCEPT !.at = "planning", !.intent = k, !.direct = direct] OBVIOUS
  <2>2. calls' = [calls EXCEPT ![c] = x] /\ UNCHANGED <<plans, toldPlans, started, awaiting>>
        BY <1>3, <2>1, Zenon DEF BeginPlan
  <2>3. k \in Nat BY DEF Plannable, PipelineInv, PipelineShape
  <2>4. GoodCall(x) BY <2>1, <2>3 DEF GoodCall, Resting, PipelineCallStates
  <2>5. calls' \in [PipelineCalls -> PipelineCallStates] /\ OnlyAllowedIsNamed' BY <2>2, <2>4, CallMoves
  <2>6. PipelineShape' BY <2>2, <2>5 DEF PipelineInv, PipelineShape
  <2> QED BY <2>2, <2>5, <2>6
          DEF PipelineInv, RowsAreEvaluated, PlansAreCovered, StartedNeedNone, Plannable
<1> QED BY <1>2, <1>3

LEMMA ProcessIntentKeeps ==
    ASSUME PipelineInv, NEW c \in PipelineCalls, NEW i \in Interpretations,
           NEW environment \in Environments, NEW direct \in BOOLEAN,
           Process(c, i, environment, direct), CachesHold'
    PROVE  PipelineInv'
<1>1. intents \in Seq(PipelineRows) /\ calls \in [PipelineCalls -> PipelineCallStates]
      BY DEF PipelineInv, PipelineShape
<1>2. CASE Rests(c) /\ UNCHANGED <<intents, plans, toldIntents, toldPlans, started, awaiting>>
  <2>1. calls' \in [PipelineCalls -> PipelineCallStates] /\ OnlyAllowedIsNamed'
        BY <1>2, RestingIsGood, CallMoves DEF Rests
  <2>2. PipelineShape' BY <1>2, <2>1 DEF PipelineInv, PipelineShape, CachesHold
  <2> QED BY <1>2, <2>1, <2>2
          DEF PipelineInv, RowsAreEvaluated, PlansAreCovered, StartedNeedNone, Plannable
<1>3. CASE ~(Rests(c) /\ UNCHANGED <<intents, plans, toldIntents, toldPlans, started, awaiting>>)
  <2>1. PICK k \in Nat : k = Len(intents) + 1 BY <1>1
  <2>2. PICK b \in BOOLEAN : b = RequiresApproval(i, environment) BY DEF RequiresApproval
  <2>3. PICK row : row = [interpretation |-> i, environment |-> environment,
                          policyStatus |-> PolicyStatus(i, environment), approvalRequired |-> b]
        OBVIOUS
  <2>4. /\ Len(intents) < MaxIntents /\ intents' = Append(intents, row)
        /\ IF direct /\ IsAllowed(i)
           THEN /\ calls' = [calls EXCEPT ![c] = [Resting EXCEPT !.at = "planning", !.intent = k,
                                                                 !.direct = TRUE]]
                /\ UNCHANGED toldIntents
           ELSE /\ Rests(c)
                /\ \E recorded \in RecordAnswers :
                      toldIntents' = IF ~direct /\ ToldIntent(IsAllowed(i), recorded)
                                     THEN toldIntents \cup {k} ELSE toldIntents
        /\ UNCHANGED <<plans, toldPlans, started, awaiting>>
        BY <1>3, <2>1, <2>2, <2>3, Zenon DEF Process
  <2>5. row \in PipelineRows /\ (IsAllowed(i) => row.policyStatus # "denied")
    <3>1. PolicyStatus(i, environment) \in {"denied", "pending", "approved"}
          /\ (IsAllowed(i) => PolicyStatus(i, environment) # "denied")
          BY DEF PolicyStatus
    <3> QED BY <2>3, <3>1 DEF PipelineRows
  <2>6. /\ intents' \in Seq(PipelineRows) /\ Len(intents') = k
        /\ k \in DOMAIN intents' /\ intents'[k] = row
        /\ \A j \in DOMAIN intents : j \in DOMAIN intents' /\ intents'[j] = intents[j]
        /\ \A j \in DOMAIN intents' : j = k \/ j \in DOMAIN intents
        BY <1>1, <2>1, <2>4, <2>5
  <2>7. Plannable \subseteq Plannable' BY <2>6 DEF Plannable
  <2>8. IsAllowed(i) => k \in Plannable' BY <2>5, <2>6 DEF Plannable
  <2>9. PICK x \in PipelineCallStates :
           /\ calls' = [calls EXCEPT ![c] = x]
           /\ x.at # "parsing" /\ (x.at = "planning" => IsAllowed(i) /\ x.intent = k)
    <3>1. CASE direct /\ IsAllowed(i)
      <4>1. PICK x : x = [Resting EXCEPT !.at = "planning", !.intent = k, !.direct = TRUE] OBVIOUS
      <4>2. calls' = [calls EXCEPT ![c] = x] BY <2>4, <3>1, <4>1, Zenon
      <4>3. x \in PipelineCallStates /\ x.at = "planning" /\ x.intent = k
            BY <2>1, <4>1 DEF Resting, PipelineCallStates
      <4> QED BY <3>1, <4>2, <4>3
    <3>2. CASE ~(direct /\ IsAllowed(i))
      <4>1. calls' = [calls EXCEPT ![c] = Resting] BY <2>4, <3>2 DEF Rests
      <4> QED BY <4>1, RestingIsGood DEF GoodCall, Resting
    <3> QED BY <3>1, <3>2
  <2>10. \A j \in toldIntents' : j \in Plannable'
    <3>1. \A j \in toldIntents' : j \in toldIntents \/ (j = k /\ IsAllowed(i))
          BY <2>4 DEF ToldIntent
    <3> QED BY <2>7, <2>8, <3>1 DEF PipelineInv, OnlyAllowedIsNamed
  <2>11. calls' \in [PipelineCalls -> PipelineCallStates] BY <1>1, <2>9
  <2>12. ASSUME NEW d \in PipelineCalls
         PROVE  /\ calls'[d].at = "parsing" => calls'[d].environment \in Environments /\ calls'[d].text \in Texts
                /\ calls'[d].at = "planning" => calls'[d].intent \in Plannable'
    <3>1. CASE d = c
      <4>1. calls'[d] = x BY <1>1, <2>9, <3>1
      <4> QED BY <2>8, <2>9, <4>1
    <3>2. CASE d # c
      <4>1. calls'[d] = calls[d] BY <1>1, <2>9, <3>2
      <4> QED BY <2>7, <4>1 DEF PipelineInv, OnlyAllowedIsNamed
    <3> QED BY <3>1, <3>2
  <2>13. OnlyAllowedIsNamed' BY <2>10, <2>12 DEF OnlyAllowedIsNamed
  <2>14. PipelineShape'
        BY <2>1, <2>4, <2>6, <2>11, PipelineAssumption DEF PipelineInv, PipelineShape, CachesHold
  <2>15. RowsAreEvaluated'
    <3>1. ASSUME NEW j \in DOMAIN intents'
          PROVE  /\ intents'[j].policyStatus
                        = PolicyStatus(intents'[j].interpretation, intents'[j].environment)
                 /\ intents'[j].approvalRequired
                        <=> RequiresApproval(intents'[j].interpretation, intents'[j].environment)
      <4>1. CASE j = k
        <5>1. intents'[j] = row BY <2>6, <4>1
        <5>2. /\ row.interpretation = i /\ row.environment = environment /\ row.approvalRequired = b
              /\ row.policyStatus = PolicyStatus(i, environment)
              BY <2>3
        <5>3. b <=> RequiresApproval(i, environment) BY <2>2
        <5> QED BY <5>1, <5>2, <5>3
      <4>2. CASE j # k
        <5>1. j \in DOMAIN intents /\ intents'[j] = intents[j] BY <2>6, <4>2
        <5> QED BY <5>1 DEF PipelineInv, RowsAreEvaluated
      <4> QED BY <4>1, <4>2
    <3> QED BY <3>1 DEF RowsAreEvaluated, PolicyStatus, RequiresApproval, IsAllowed
  <2>16. PlansAreCovered'
    <3>1. \A id \in DOMAIN plans : plans[id].intent \in Plannable' BY <2>7 DEF PipelineInv, PlansAreCovered
    <3>2. \A id \in DOMAIN plans : intents'[plans[id].intent] = intents[plans[id].intent]
          BY <2>6 DEF PipelineInv, PlansAreCovered, Plannable
    <3> QED BY <2>4, <3>1, <3>2 DEF PipelineInv, PlansAreCovered
  <2>17. StartedNeedNone' BY <2>4 DEF PipelineInv, StartedNeedNone
  <2> QED BY <2>13, <2>14, <2>15, <2>16, <2>17 DEF PipelineInv
<1> QED BY <1>2, <1>3

LEMMA SubmitKeeps ==
    ASSUME PipelineInv, NEW c \in PipelineCalls, NEW t \in Texts, NEW e \in Environments,
           NEW direct \in BOOLEAN, Submit(c, t, e, direct)
    PROVE  PipelineInv'
<1>1. CachesHold' BY DEF CachesHold, PipelineInv, PipelineShape, Submit
<1>2. CASE t \in DOMAIN readings
  <2>1. readings[t] \in Interpretations /\ Process(c, readings[t], e, direct)
        BY <1>2 DEF PipelineInv, PipelineShape, Submit
  <2> QED BY <1>1, <2>1, ProcessIntentKeeps
<1>3. CASE t \notin DOMAIN readings
  <2>1. PICK x : x = [at |-> "parsing", text |-> t, environment |-> e, direct |-> direct, intent |-> 0]
        OBVIOUS
  <2>2. /\ calls' = [calls EXCEPT ![c] = x]
        /\ UNCHANGED <<intents, plans, toldIntents, toldPlans, started, awaiting>>
        BY <1>3, <2>1 DEF Submit
  <2>3. GoodCall(x) BY <2>1 DEF GoodCall, PipelineCallStates
  <2>4. calls' \in [PipelineCalls -> PipelineCallStates] /\ OnlyAllowedIsNamed' BY <2>2, <2>3, CallMoves
  <2>5. PipelineShape' BY <1>1, <2>2, <2>4 DEF PipelineInv, PipelineShape, CachesHold
  <2> QED BY <2>2, <2>4, <2>5
          DEF PipelineInv, RowsAreEvaluated, PlansAreCovered, StartedNeedNone, Plannable
<1> QED BY <1>2, <1>3

LEMMA InterpretedKeeps ==
    ASSUME PipelineInv, NEW c \in PipelineCalls, NEW i \in Interpretations, Interpreted(c, i)
    PROVE  PipelineInv'
<1>1. CachesHold' BY DEF CachesHold, PipelineInv, PipelineShape, Interpreted
<1>2. calls[c].direct \in BOOLEAN /\ calls[c].environment \in Environments
      BY DEF PipelineInv, PipelineShape, PipelineCallStates, OnlyAllowedIsNamed, Interpreted
<1> QED BY <1>1, <1>2, ProcessIntentKeeps DEF Interpreted

LEMMA PlannedKeeps ==
    ASSUME PipelineInv, NEW c \in PipelineCalls, NEW p \in PlanAnswers, Planned(c, p)
    PROVE  PipelineInv'
<1>1. CachesHold' BY DEF CachesHold, PipelineInv, PipelineShape, Planned
<1>2. calls[c].direct \in BOOLEAN /\ calls[c].intent \in Plannable
      BY DEF PipelineInv, PipelineShape, PipelineCallStates, OnlyAllowedIsNamed, Planned
<1> QED BY <1>1, <1>2, PlanKeeps DEF Planned

\* What changes neither a table nor what is known: the calls give up, or come to their end.
LEMMA CallsEnd ==
    ASSUME PipelineInv, UNCHANGED <<intents, plans, toldIntents, toldPlans, started, awaiting>>,
           CachesHold', OnlyAllowedIsNamed', calls' \in [PipelineCalls -> PipelineCallStates]
    PROVE  PipelineInv'
<1>1. PipelineShape' BY DEF PipelineInv, PipelineShape, CachesHold
<1> QED BY <1>1 DEF PipelineInv, RowsAreEvaluated, PlansAreCovered, StartedNeedNone, Plannable

LEMMA ModelFailsKeeps ==
    ASSUME PipelineInv, NEW c \in PipelineCalls, ModelFails(c) PROVE PipelineInv'
<1>1. CachesHold' BY DEF CachesHold, PipelineInv, PipelineShape, ModelFails
<1>2. calls' \in [PipelineCalls -> PipelineCallStates] /\ OnlyAllowedIsNamed'
      BY RestingIsGood, CallMoves DEF ModelFails, Rests
<1> QED BY <1>1, <1>2, CallsEnd DEF ModelFails

LEMMA RestrictIs ==
    ASSUME NEW f, NEW S \in SUBSET DOMAIN f
    PROVE  DOMAIN Restrict(f, S) = S /\ \A x \in S : Restrict(f, S)[x] = f[x]
BY DEF Restrict

LEMMA CacheExpiresKeeps == ASSUME PipelineInv, CacheExpires PROVE PipelineInv'
<1>1. PICK T \in SUBSET DOMAIN readings : readings' = Restrict(readings, T) BY DEF CacheExpires
<1>2. PICK K \in SUBSET DOMAIN drafts : drafts' = Restrict(drafts, K) BY DEF CacheExpires
<1>3. CachesHold' BY <1>1, <1>2, RestrictIs DEF CachesHold, PipelineInv, PipelineShape
<1>4. calls' \in [PipelineCalls -> PipelineCallStates] /\ OnlyAllowedIsNamed'
      BY DEF CacheExpires, PipelineInv, PipelineShape, OnlyAllowedIsNamed, Plannable
<1> QED BY <1>3, <1>4, CallsEnd DEF CacheExpires

LEMMA PipelineRestartKeeps == ASSUME PipelineInv, PipelineRestart PROVE PipelineInv'
<1>1. CachesHold' BY DEF CachesHold, PipelineRestart
<1>2. calls' \in [PipelineCalls -> PipelineCallStates]
      BY RestingIsGood DEF PipelineRestart, GoodCall
<1>3. \A c \in PipelineCalls : calls'[c].at = "resting" BY DEF PipelineRestart, Resting
<1>4. OnlyAllowedIsNamed'
      BY <1>3 DEF PipelineRestart, PipelineInv, OnlyAllowedIsNamed, Plannable
<1> QED BY <1>1, <1>2, <1>4, CallsEnd DEF PipelineRestart

LEMMA ExecutePlanKeeps ==
    ASSUME PipelineInv, NEW id \in toldPlans, ExecutePlan(id) PROVE PipelineInv'
<1>1. PipelineShape' /\ RowsAreEvaluated' /\ OnlyAllowedIsNamed' /\ PlansAreCovered'
      BY DEF PipelineInv, PipelineShape, RowsAreEvaluated, OnlyAllowedIsNamed, PlansAreCovered,
             Plannable, ExecutePlan
<1>2. id \in DOMAIN plans BY DEF PipelineInv, StartedNeedNone
<1>3. StartedNeedNone'
  <2>1. CASE plans[id].approvalRequired
        BY <1>2, <2>1 DEF PipelineInv, StartedNeedNone, ExecutePlan
  <2>2. CASE ~plans[id].approvalRequired
        BY <1>2, <2>2 DEF PipelineInv, StartedNeedNone, ExecutePlan
  <2> QED BY <2>1, <2>2
<1> QED BY <1>1, <1>3 DEF PipelineInv

LEMMA PipelineStep == PipelineInv /\ [PipelineNext]_pipelineVars => PipelineInv'
<1> SUFFICES ASSUME PipelineInv, [PipelineNext]_pipelineVars PROVE PipelineInv' OBVIOUS
<1>1. CASE UNCHANGED pipelineVars
      BY <1>1 DEF pipelineVars, PipelineInv, PipelineShape, RowsAreEvaluated, OnlyAllowedIsNamed,
                  PlansAreCovered, StartedNeedNone, Plannable
<1>2. ASSUME NEW c \in PipelineCalls, NEW k \in toldIntents, RequestPlan(c, k) PROVE PipelineInv'
  <2>1. k \in Plannable BY DEF PipelineInv, OnlyAllowedIsNamed
  <2> QED BY <1>2, <2>1, BeginKeeps DEF RequestPlan
<1> QED BY <1>1, <1>2, SubmitKeeps, InterpretedKeeps, PlannedKeeps, ModelFailsKeeps, ExecutePlanKeeps,
           CacheExpiresKeeps, PipelineRestartKeeps DEF PipelineNext

LEMMA PipelineAlways == PipelineInit /\ [][PipelineNext]_pipelineVars => []PipelineInv
BY PipelineInitially, PipelineStep, PTL

-----------------------------------------------------------------------------
(***************************************************************************)
(* Builds. A build without a process has no container; one that has failed *)
(* never got one, and one that got it is noted as soon as docker run has   *)
(* returned.                                                               *)
(***************************************************************************)

BuildStatuses == {"none", "pending", "generating", "building", "completed", "failed"}
BuildPlaces == {"none", "importing", "generating", "building", "starting", "started",
                "falling back", "ended"}

\* Where a container comes from: its build has passed docker run.
ContainersFollow ==
    \A x \in containers :
        /\ x.build \in BuildIds /\ x.image \in BuildIds
        /\ processes[x.build] \in {"started", "ended"}
        /\ processes[x.build] = "ended" => activeBuilds[x.build].containerId

BuildInv ==
    /\ BuildTypeOK
    /\ activeBuilds \in [BuildIds -> [status : BuildStatuses, containerId : BOOLEAN]]
    /\ processes \in [BuildIds -> BuildPlaces]
    /\ stops \in [StopCalls -> BuildIds \cup {NoBuild}]
    /\ ContainersFollow
    /\ \A b \in BuildIds :
          /\ activeBuilds[b].containerId => processes[b] = "ended"
          /\ activeBuilds[b].status = "failed" =>
                processes[b] = "ended" /\ \A x \in containers : x.build # b
          /\ processes[b] = "ended" => activeBuilds[b].status \in {"completed", "failed"}
    /\ \A c \in StopCalls : stops[c] # NoBuild => activeBuilds[stops[c]].containerId

LEMMA BuildInitially == BuildInit => BuildInv
BY DEF BuildInit, BuildInv, BuildTypeOK, ContainersFollow, BuildStatuses, BuildPlaces

LEMMA MarkIs ==
    ASSUME BuildInv, NEW b \in BuildIds, NEW status \in BuildStatuses, Mark(b, status)
    PROVE  /\ activeBuilds' \in [BuildIds -> [status : BuildStatuses, containerId : BOOLEAN]]
           /\ activeBuilds'[b].status = status
           /\ \A d \in BuildIds : activeBuilds'[d].containerId = activeBuilds[d].containerId
           /\ \A d \in BuildIds \ {b} : activeBuilds'[d].status = activeBuilds[d].status
BY DEF BuildInv, Mark

LEMMA ProcessSteps ==
    ASSUME BuildInv, NEW b \in BuildIds,
           RequestBuild(b) \/ Imported(b) \/ FilesWritten(b) \/ BuildFails(b) \/ ImageBuilt(b)
               \/ ContainerStarts(b) \/ RunFails(b) \/ RunReturns(b) \/ FellBack(b)
    PROVE  BuildInv'
<1> USE DEF BuildInv, BuildTypeOK, ContainersFollow, BuildStatuses, BuildPlaces, Mark, Awaits
<1>1. CASE RequestBuild(b) BY <1>1 DEF RequestBuild
<1>2. CASE Imported(b) BY <1>2 DEF Imported
<1>3. CASE FilesWritten(b) BY <1>3 DEF FilesWritten
<1>4. CASE BuildFails(b)
  <2>1. /\ Mark(b, "failed") /\ processes' = [processes EXCEPT ![b] = "ended"]
        /\ processes[b] \in {"importing", "generating", "falling back"}
        /\ UNCHANGED <<image, containers, stops>>
        BY <1>4 DEF BuildFails
  <2>2. \A x \in containers : x.build # b BY <2>1
  <2>3. /\ activeBuilds' \in [BuildIds -> [status : BuildStatuses, containerId : BOOLEAN]]
        /\ activeBuilds'[b].status = "failed"
        /\ \A d \in BuildIds : activeBuilds'[d].containerId = activeBuilds[d].containerId
        /\ \A d \in BuildIds \ {b} : activeBuilds'[d].status = activeBuilds[d].status
        BY <2>1, MarkIs
  <2> HIDE DEF Mark, BuildStatuses, BuildPlaces
  <2>4. processes'[b] = "ended" /\ \A d \in BuildIds \ {b} : processes'[d] = processes[d]
        BY <2>1
  <2>5. processes' \in [BuildIds -> BuildPlaces] BY <2>1 DEF BuildPlaces
  <2>6. BuildTypeOK' /\ ContainersFollow' BY <2>1, <2>2, <2>3, <2>4 DEF BuildStatuses
  <2>7. \A d \in BuildIds :
          /\ activeBuilds'[d].containerId => processes'[d] = "ended"
          /\ activeBuilds'[d].status = "failed" =>
                processes'[d] = "ended" /\ \A x \in containers' : x.build # d
          /\ processes'[d] = "ended" => activeBuilds'[d].status \in {"completed", "failed"}
    <3> TAKE d \in BuildIds
    <3>1. CASE d = b BY <2>1, <2>2, <2>3, <2>4, <3>1
    <3>2. CASE d # b BY <2>1, <2>3, <2>4, <3>2
    <3> QED BY <3>1, <3>2
  <2>8. \A c \in StopCalls : stops'[c] # NoBuild => activeBuilds'[stops'[c]].containerId
        BY <2>1, <2>3
  <2> QED BY <2>1, <2>3, <2>5, <2>6, <2>7, <2>8
<1>5. CASE ImageBuilt(b) BY <1>5 DEF ImageBuilt
<1>6. CASE ContainerStarts(b)
  <2>1. PICK x : x = [build |-> b, image |-> image] OBVIOUS
  <2>2. x.build = b /\ x.image = image BY <2>1
  <2>3. containers' = containers \cup {x} BY <1>6, <2>1 DEF ContainerStarts
  <2> QED BY <1>6, <2>2, <2>3 DEF ContainerStarts
<1>7. CASE RunFails(b) BY <1>7 DEF RunFails
<1>8. CASE RunReturns(b) BY <1>8 DEF RunReturns
<1>9. CASE FellBack(b) BY <1>9 DEF FellBack
<1> QED BY <1>1, <1>2, <1>3, <1>4, <1>5, <1>6, <1>7, <1>8, <1>9

LEMMA StopKeeps ==
    ASSUME BuildInv, NEW c \in StopCalls, NEW b \in BuildIds, Stop(c, b)
    PROVE  BuildInv'
<1> USE DEF BuildInv, BuildTypeOK, ContainersFollow, BuildStatuses, BuildPlaces, Mark
<1>1. CASE activeBuilds[b].containerId BY <1>1 DEF Stop
<1>2. CASE ~activeBuilds[b].containerId
  <2>1. /\ Mark(b, "completed") /\ UNCHANGED <<processes, image, containers, stops>>
        BY <1>2 DEF Stop
  <2>2. /\ activeBuilds' \in [BuildIds -> [status : BuildStatuses, containerId : BOOLEAN]]
        /\ activeBuilds'[b].status = "completed"
        /\ \A d \in BuildIds : activeBuilds'[d].containerId = activeBuilds[d].containerId
        /\ \A d \in BuildIds \ {b} : activeBuilds'[d].status = activeBuilds[d].status
        BY <2>1, MarkIs
  <2> HIDE DEF Mark, BuildStatuses, BuildPlaces
  <2>3. BuildTypeOK' /\ ContainersFollow' BY <2>1, <2>2 DEF BuildStatuses
  <2>4. \A d \in BuildIds :
          /\ activeBuilds'[d].containerId => processes'[d] = "ended"
          /\ activeBuilds'[d].status = "failed" =>
                processes'[d] = "ended" /\ \A x \in containers' : x.build # d
          /\ processes'[d] = "ended" => activeBuilds'[d].status \in {"completed", "failed"}
        BY <2>1, <2>2
  <2>5. \A e \in StopCalls : stops'[e] # NoBuild => activeBuilds'[stops'[e]].containerId
        BY <2>1, <2>2
  <2> QED BY <2>1, <2>2, <2>3, <2>4, <2>5
<1> QED BY <1>1, <1>2

LEMMA StopReturnsKeeps ==
    ASSUME BuildInv, NEW c \in StopCalls, StopReturns(c) PROVE BuildInv'
BY DEF StopReturns, BuildInv, BuildTypeOK, ContainersFollow, BuildStatuses, BuildPlaces, Mark

LEMMA BuildStep == BuildInv /\ [BuildNext]_buildVars => BuildInv'
<1> SUFFICES ASSUME BuildInv, [BuildNext]_buildVars PROVE BuildInv' OBVIOUS
<1>1. CASE UNCHANGED buildVars
      BY <1>1 DEF buildVars, BuildInv, BuildTypeOK, ContainersFollow
<1> QED BY <1>1, ProcessSteps, StopKeeps, StopReturnsKeeps DEF BuildNext

LEMMA BuildAlways == BuildInit /\ [][BuildNext]_buildVars => []BuildInv
BY BuildInitially, BuildStep, PTL

LEMMA BuildsAreKnown == BuildInv => BuildTypeOK /\ ContainersAreKnown
BY DEF BuildInv, ContainersFollow, ContainersAreKnown

-----------------------------------------------------------------------------
(***************************************************************************)
(* The Telegram bot. A batch is a stretch of updates without a gap, so     *)
(* what comes before its first one is behind the bot: all of it was begun, *)
(* and with one loop in the process all of it was handled. One loop also   *)
(* never goes back in a process, which is why a message runs only once.    *)
(***************************************************************************)

BotPlaces == {"none", "starting", "asking", "sleeping", "next", "runs", "talks", "run"}
AtUpdate == {"runs", "talks", "run"}
Loops == [at : BotPlaces, from : 0 .. MaxUpdates + 1, batch : Seq(Updates)]

BotShape ==
    /\ BotTypeOK
    /\ Len(posted) <= MaxUpdates /\ loops \in [PollLoops -> Loops]
    /\ running \in BOOLEAN /\ several \in BOOLEAN /\ botCrashes \in 0 .. MaxBotCrashes

\* A loop's batch has no gap and was sent (n updates were), and it is behind the loop where it begins.
LoopFollows(x, n, done) ==
    /\ x.batch \in Seq(1 .. n)
    /\ \A k \in 1 .. Len(x.batch) : x.batch[k] = x.batch[1] + k - 1
    /\ x.at = "asking" => 1 .. x.from - 1 \subseteq done
    /\ x.at \in AtUpdate => x.batch # <<>> /\ 1 .. x.batch[1] \subseteq done
    /\ x.batch # <<>> => 1 .. x.batch[1] - 1 \subseteq done

NothingSkipped ==
    /\ 1 .. confirmed \subseteq begun
    /\ 1 .. offset - 1 \subseteq begun
    /\ \A l \in PollLoops : LoopFollows(loops[l], Len(posted), begun)

\* What a loop that is alone in its process knows besides.
LoopAlone(x) ==
    /\ x.at = "asking" => x.from = offset
    /\ x.at = "next" /\ x.batch # <<>> => x.batch[1] >= offset
    /\ x.at \in AtUpdate => offset = x.batch[1] + 1
    /\ x.at = "runs" => runs[x.batch[1]] <= botCrashes
    /\ x.batch # <<>> => 1 .. x.batch[1] - 1 \subseteq handled

HandledInTurn ==
    /\ \A k, l \in PollLoops : Polling(k) /\ Polling(l) => k = l
    /\ 1 .. confirmed \subseteq handled
    /\ (\A l \in PollLoops : loops[l].at \notin AtUpdate) => 1 .. offset - 1 \subseteq handled
    /\ \A u \in Updates : runs[u] <= 1 + botCrashes /\ (u >= offset => runs[u] <= botCrashes)
    /\ \A l \in PollLoops : LoopAlone(loops[l])

BotInv == BotShape /\ NothingSkipped /\ (~several => HandledInTurn)

LEMMA EmptyFollows ==
    ASSUME NEW x, NEW n, NEW done, x.batch = <<>>, x.at \notin AtUpdate,
           x.at = "asking" => 1 .. x.from - 1 \subseteq done
    PROVE  LoopFollows(x, n, done)
<1>1. <<>> \in Seq(1 .. n) /\ Len(<<>>) = 0 OBVIOUS
<1> QED BY <1>1 DEF LoopFollows

\* More updates that were sent or begun make no difference to a loop.
LEMMA MoreFollows ==
    ASSUME NEW x, NEW m \in Nat, NEW n \in Nat, m <= n, NEW before, NEW done, before \subseteq done,
           LoopFollows(x, m, before)
    PROVE  LoopFollows(x, n, done)
<1>1. x.batch \in Seq(1 .. m) BY DEF LoopFollows
<1>2. x.batch \in Seq(1 .. n)
  <2>1. Len(x.batch) \in Nat /\ x.batch = [k \in 1 .. Len(x.batch) |-> x.batch[k]]
        /\ \A k \in 1 .. Len(x.batch) : x.batch[k] \in 1 .. n
        BY <1>1
  <2> QED BY <2>1, IsASeq
<1> QED BY <1>2 DEF LoopFollows

LEMMA BotInitially == BotInit => BotInv
<1> SUFFICES ASSUME BotInit PROVE BotInv OBVIOUS
<1> USE TelegramAssumption DEF BotInit, Idle
<1>1. BotShape
  <2>1. <<>> \in Seq(Updates) /\ <<>> \in Seq(Kinds) /\ Len(<<>>) = 0 OBVIOUS
  <2>2. Idle \in Loops BY <2>1 DEF Loops, BotPlaces
  <2>3. loops \in [PollLoops -> Loops]
        /\ \A l \in PollLoops : loops[l].batch \in Seq(Updates) /\ loops[l].from \in 0 .. MaxUpdates + 1
    <3>1. loops \in [PollLoops -> Loops] BY <2>2
    <3> QED BY <3>1 DEF Loops
  <2>4. runs \in [Updates -> Nat] OBVIOUS
  <2>5. /\ confirmed \in 0 .. MaxUpdates /\ offset \in 0 .. MaxUpdates + 1
        /\ botCrashes \in 0 .. MaxBotCrashes /\ Len(posted) <= MaxUpdates
        BY <2>1
  <2>6. timer \subseteq PollLoops /\ begun \cup handled \subseteq Updates
        /\ running \in BOOLEAN /\ several \in BOOLEAN
        OBVIOUS
  <2>7. posted \in Seq(Kinds) BY <2>1
  <2> QED BY <2>3, <2>4, <2>5, <2>6, <2>7 DEF BotShape, BotTypeOK
<1>2. NothingSkipped
  <2>1. \A l \in PollLoops : LoopFollows(Idle, Len(posted), begun)
        BY EmptyFollows DEF AtUpdate
  <2> QED BY <2>1 DEF NothingSkipped
<1>3. HandledInTurn
      BY DEF HandledInTurn, LoopAlone, Polling, AtUpdate, Updates
<1> QED BY <1>1, <1>2, <1>3 DEF BotInv

\* Where only one loop moves.
OnlyLoop(l, x) == x \in Loops /\ loops' = [loops EXCEPT ![l] = x]

LEMMA OthersStay ==
    ASSUME BotShape, NEW l \in PollLoops, NEW x, OnlyLoop(l, x)
    PROVE  /\ loops' \in [PollLoops -> Loops] /\ loops'[l] = x
           /\ \A k \in PollLoops \ {l} : loops'[k] = loops[k]
           /\ \A k \in PollLoops : loops'[k].batch \in Seq(Updates)
                                   /\ loops'[k].from \in 0 .. MaxUpdates + 1
BY DEF BotShape, OnlyLoop, Loops

LEMMA UserSendsKeeps ==
    ASSUME BotInv, UserSends PROVE BotInv'
<1> USE TelegramAssumption DEF BotInv
<1>1. PICK kind \in Kinds : posted' = Append(posted, kind) BY DEF UserSends
<1>2. /\ posted' \in Seq(Kinds) /\ Len(posted') = Len(posted) + 1 /\ Len(posted) < MaxUpdates
      /\ Len(posted) \in Nat
      /\ UNCHANGED <<confirmed, offset, running, loops, timer, begun, handled, runs, botCrashes,
                     several>>
      BY <1>1 DEF UserSends, BotShape, BotTypeOK
<1>3. BotShape' BY <1>2 DEF BotShape, BotTypeOK, Loops
<1>6. NothingSkipped'
  <2>1. \A l \in PollLoops : LoopFollows(loops[l], Len(posted'), begun)
        BY <1>2, MoreFollows DEF NothingSkipped
  <2> QED BY <1>2, <2>1 DEF NothingSkipped
<1>7. HandledInTurn => HandledInTurn' BY <1>2 DEF HandledInTurn, LoopAlone, Polling
<1> QED BY <1>2, <1>3, <1>6, <1>7

LEMMA StartKeeps ==
    ASSUME BotInv, NEW l \in PollLoops, Start(l) PROVE BotInv'
<1> USE TelegramAssumption DEF BotInv
<1> DEFINE x == [at |-> "starting", from |-> 0, batch |-> <<>>]
<1>0. [Idle EXCEPT !.at = "starting"] = x BY DEF Idle
<1>1. /\ loops[l] = Idle /\ loops' = [loops EXCEPT ![l] = x]
      /\ UNCHANGED <<posted, confirmed, offset, running, timer, begun, handled, runs,
                     botCrashes, several>>
      BY <1>0 DEF Start
<1>2. OnlyLoop(l, x) BY <1>1 DEF OnlyLoop, Loops, BotPlaces
<1>3. /\ loops' \in [PollLoops -> Loops] /\ loops'[l] = x
      /\ \A k \in PollLoops \ {l} : loops'[k] = loops[k]
      /\ \A k \in PollLoops : loops'[k].batch \in Seq(Updates)
                              /\ loops'[k].from \in 0 .. MaxUpdates + 1
      BY <1>2, OthersStay
<1>4. BotShape' BY <1>1, <1>3 DEF BotShape, BotTypeOK
<1>5. NothingSkipped'
  <2>1. LoopFollows(x, Len(posted), begun) BY EmptyFollows DEF AtUpdate
  <2> QED BY <1>1, <1>3, <2>1 DEF NothingSkipped
<1>6. HandledInTurn => HandledInTurn'
      BY <1>1, <1>3 DEF HandledInTurn, LoopAlone, Polling, AtUpdate, Idle
<1> QED BY <1>1, <1>4, <1>5, <1>6

\* A loop that asks next, for what comes from the offset on.
Asking == [at |-> "asking", from |-> offset, batch |-> <<>>]

LEMMA AskingKeeps ==
    ASSUME BotInv, NEW l \in PollLoops, loops' = [loops EXCEPT ![l] = Asking],
           UNCHANGED <<posted, confirmed, offset, timer, begun, handled, runs, botCrashes>>,
           running' \in BOOLEAN, several' \in BOOLEAN, loops[l].at \in {"starting", "sleeping"},
           ~several' => ~several /\ \A k \in PollLoops \ {l} : ~Polling(k)
    PROVE  BotInv'
<1> USE TelegramAssumption DEF BotInv
<1>1. OnlyLoop(l, Asking)
      BY DEF OnlyLoop, Asking, Loops, BotPlaces, BotShape, BotTypeOK
<1>2. /\ loops' \in [PollLoops -> Loops] /\ loops'[l] = Asking
      /\ \A k \in PollLoops \ {l} : loops'[k] = loops[k]
      /\ \A k \in PollLoops : loops'[k].batch \in Seq(Updates)
                              /\ loops'[k].from \in 0 .. MaxUpdates + 1
      BY <1>1, OthersStay
<1>3. BotShape' BY <1>2 DEF BotShape, BotTypeOK
<1>4. NothingSkipped'
  <2>1. LoopFollows(Asking, Len(posted), begun)
        BY EmptyFollows DEF AtUpdate, Asking, NothingSkipped
  <2> QED BY <1>2, <2>1 DEF NothingSkipped
<1>5. ~several' => HandledInTurn'
      BY <1>2 DEF HandledInTurn, LoopAlone, Polling, AtUpdate, Asking
<1> QED BY <1>3, <1>4, <1>5

\* A loop that ends, or goes to sleep.
LEMMA RestKeeps ==
    ASSUME BotInv, NEW l \in PollLoops, NEW at \in {"none", "sleeping"},
           loops' = [loops EXCEPT ![l] = [at |-> at, from |-> 0, batch |-> <<>>]],
           timer' \subseteq PollLoops,
           UNCHANGED <<posted, offset, running, begun, handled, runs, botCrashes, several>>,
           confirmed' \in 0 .. MaxUpdates, 1 .. confirmed' \subseteq begun,
           ~several => 1 .. confirmed' \subseteq handled,
           loops[l].at \notin AtUpdate, at = "sleeping" => Polling(l)
    PROVE  BotInv'
<1> USE TelegramAssumption DEF BotInv
<1> DEFINE x == [at |-> at, from |-> 0, batch |-> <<>>]
<1>1. OnlyLoop(l, x) BY DEF OnlyLoop, Loops, BotPlaces
<1>2. /\ loops' \in [PollLoops -> Loops] /\ loops'[l] = x
      /\ \A k \in PollLoops \ {l} : loops'[k] = loops[k]
      /\ \A k \in PollLoops : loops'[k].batch \in Seq(Updates)
                              /\ loops'[k].from \in 0 .. MaxUpdates + 1
      BY <1>1, OthersStay
<1>3. BotShape' BY <1>2 DEF BotShape, BotTypeOK
<1>4. NothingSkipped'
  <2>1. LoopFollows(x, Len(posted), begun) BY EmptyFollows DEF AtUpdate
  <2> QED BY <1>2, <2>1 DEF NothingSkipped
<1>5. ~several' => HandledInTurn'
      BY <1>2 DEF HandledInTurn, LoopAlone, Polling, AtUpdate
<1> QED BY <1>3, <1>4, <1>5

LEMMA GetMeKeeps ==
    ASSUME BotInv, NEW l \in PollLoops, GetMe(l) PROVE BotInv'
<1>0. loops[l].at = "starting" BY DEF GetMe
<1>1. CASE running' = TRUE /\ Poll(l)
               /\ several' = (several \/ \E k \in PollLoops : Polling(k))
  <2>1. loops' = [loops EXCEPT ![l] = Asking] BY <1>1 DEF Poll, Asking
  <2>2. running' \in BOOLEAN /\ several' \in BOOLEAN BY <1>1 DEF BotInv, BotShape
  <2>3. ~several' => ~several /\ \A k \in PollLoops \ {l} : ~Polling(k) BY <1>1
  <2> QED BY <1>0, <2>1, <2>2, <2>3, AskingKeeps DEF GetMe
<1>2. CASE loops' = [loops EXCEPT ![l] = Idle] /\ UNCHANGED <<running, several>>
  <2>1. /\ confirmed \in 0 .. MaxUpdates /\ 1 .. confirmed \subseteq begun
        /\ ~several => 1 .. confirmed \subseteq handled
        /\ timer \subseteq PollLoops
        BY DEF BotInv, BotShape, BotTypeOK, NothingSkipped, HandledInTurn
  <2> QED BY <1>0, <1>2, <2>1, RestKeeps DEF GetMe, Idle, AtUpdate
<1> QED BY <1>1, <1>2 DEF GetMe

LEMMA TimerFiresKeeps ==
    ASSUME BotInv, NEW l \in PollLoops, TimerFires(l) PROVE BotInv'
<1>0. loops[l].at = "sleeping" BY DEF TimerFires
<1>1. CASE running
  <2>1. loops' = [loops EXCEPT ![l] = Asking] BY <1>1 DEF TimerFires, Poll, Asking
  <2>2. running' \in BOOLEAN /\ several' \in BOOLEAN BY DEF BotInv, BotShape, TimerFires
  <2>3. ~several' => ~several /\ \A k \in PollLoops \ {l} : ~Polling(k)
        BY <1>0 DEF TimerFires, BotInv, HandledInTurn, Polling
  <2> QED BY <1>0, <2>1, <2>2, <2>3, AskingKeeps DEF TimerFires
<1>2. CASE ~running
  <2>1. /\ confirmed \in 0 .. MaxUpdates /\ 1 .. confirmed \subseteq begun
        /\ ~several => 1 .. confirmed \subseteq handled
        /\ timer \subseteq PollLoops
        BY DEF BotInv, BotShape, BotTypeOK, NothingSkipped, HandledInTurn
  <2> QED BY <1>0, <1>2, <2>1, RestKeeps DEF TimerFires, Idle, AtUpdate
<1> QED BY <1>1, <1>2

LEMMA EndOfBatchKeeps ==
    ASSUME BotInv, NEW l \in PollLoops, EndOfBatch(l) PROVE BotInv'
<1>1. [Idle EXCEPT !.at = "sleeping"] = [at |-> "sleeping", from |-> 0, batch |-> <<>>]
      BY DEF Idle
<1>2. /\ confirmed \in 0 .. MaxUpdates /\ 1 .. confirmed \subseteq begun
      /\ ~several => 1 .. confirmed \subseteq handled
      BY DEF BotInv, BotShape, BotTypeOK, NothingSkipped, HandledInTurn
<1> QED BY <1>1, <1>2, RestKeeps DEF EndOfBatch, Sleep, AtUpdate, Polling

\* What Telegram forgets is behind the loop that asks.
LEMMA ForgottenIsBehind ==
    ASSUME BotInv, NEW l \in PollLoops, loops[l].at = "asking"
    PROVE  LET known == Forgets(loops[l].from) IN
           /\ known \in 0 .. MaxUpdates /\ 1 .. known \subseteq begun
           /\ ~several => 1 .. known \subseteq handled /\ known + 1 >= offset
<1> DEFINE from == loops[l].from
<1> USE TelegramAssumption
<1>1. from \in 0 .. MaxUpdates + 1 /\ confirmed \in 0 .. MaxUpdates /\ offset \in 0 .. MaxUpdates + 1
      BY DEF BotInv, BotShape, BotTypeOK
<1>2. 1 .. confirmed \subseteq begun /\ 1 .. from - 1 \subseteq begun
      BY DEF BotInv, NothingSkipped, LoopFollows
<1>3. ~several => /\ 1 .. confirmed \subseteq handled /\ from = offset
                  /\ 1 .. offset - 1 \subseteq handled
      BY DEF BotInv, HandledInTurn, LoopAlone, Polling, AtUpdate
<1> HIDE DEF from
<1>4. CASE from > confirmed + 1
  <2>1. Forgets(from) = from - 1 BY <1>4 DEF Forgets
  <2> QED BY <1>1, <1>2, <1>3, <1>4, <2>1 DEF from
<1>5. CASE ~(from > confirmed + 1)
  <2>1. Forgets(from) = confirmed BY <1>5 DEF Forgets
  <2> QED BY <1>1, <1>2, <1>3, <1>5, <2>1 DEF from
<1> QED BY <1>4, <1>5

LEMMA BatchOf ==
    ASSUME NEW n \in 0 .. MaxUpdates, NEW known \in 0 .. MaxUpdates, NEW m \in Nat,
           m = IF known < n THEN n - known ELSE 0,
           NEW b \in [1 .. m -> 1 .. n], \A k \in 1 .. m : b[k] = known + k
    PROVE  /\ b \in Seq(1 .. n) /\ b \in Seq(Updates) /\ Len(b) \in Nat
           /\ b # <<>> => 1 \in 1 .. Len(b) /\ b[1] = known + 1
           /\ \A k \in 1 .. Len(b) : b[k] = known + k
<1> USE TelegramAssumption
<1>1. b \in Seq(1 .. n)
  <2>1. [1 .. m -> 1 .. n] \in {[1 .. q -> 1 .. n] : q \in Nat} OBVIOUS
  <2>2. b \in UNION {[1 .. q -> 1 .. n] : q \in Nat} BY <2>1
  <2> QED BY <2>2, SeqDef
<1>2. b \in Seq(Updates)
  <2>1. 1 .. n \subseteq Updates BY DEF Updates
  <2> QED BY <1>1, <2>1, SeqMonotonic
<1>3. Len(b) = m
  <2>1. Len(b) \in Nat /\ DOMAIN b = 1 .. Len(b) BY <1>1, LenProperties
  <2>2. 1 .. Len(b) = 1 .. m BY <2>1
  <2>3. \A p, q \in Nat : 1 .. p = 1 .. q => p = q
    <3> SUFFICES ASSUME NEW p \in Nat, NEW q \in Nat, 1 .. p = 1 .. q PROVE p = q OBVIOUS
    <3>1. p = 0 \/ p \in 1 .. p OBVIOUS
    <3>2. q = 0 \/ q \in 1 .. q OBVIOUS
    <3>3. 1 \in 1 .. p <=> 1 \in 1 .. q OBVIOUS
    <3> QED BY <3>1, <3>2, <3>3
  <2> QED BY <2>1, <2>2, <2>3
<1>4. b # <<>> => m # 0
  <2>1. b # <<>> => Len(b) # 0 BY <1>1, EmptySeq
  <2> QED BY <1>3, <2>1
<1> QED BY <1>1, <1>2, <1>3, <1>4

\* A batch that was delivered: it begins behind what Telegram forgot.
LEMMA DeliveryKeeps ==
    ASSUME BotInv, NEW l \in PollLoops, loops[l].at = "asking",
           NEW known \in 0 .. MaxUpdates, 1 .. known \subseteq begun,
           ~several => 1 .. known \subseteq handled /\ known + 1 >= offset,
           NEW n, n = Len(posted), NEW b \in Seq(1 .. n), b \in Seq(Updates), Len(b) \in Nat,
           b # <<>> => 1 \in 1 .. Len(b) /\ b[1] = known + 1,
           \A k \in 1 .. Len(b) : b[k] = known + k,
           confirmed' = known,
           loops' = [loops EXCEPT ![l] = [at |-> "next", from |-> 0, batch |-> b]],
           UNCHANGED <<posted, offset, running, timer, begun, handled, runs, botCrashes, several>>
    PROVE  BotInv'
<1> USE TelegramAssumption
<1> DEFINE x == [at |-> "next", from |-> 0, batch |-> b]
<1>3. OnlyLoop(l, x)
  <2>1. x \in Loops BY DEF Loops, BotPlaces
  <2> QED BY <2>1 DEF OnlyLoop
<1>4. /\ loops' \in [PollLoops -> Loops] /\ loops'[l] = x
      /\ \A k \in PollLoops \ {l} : loops'[k] = loops[k]
      /\ \A k \in PollLoops : loops'[k].batch \in Seq(Updates)
                              /\ loops'[k].from \in 0 .. MaxUpdates + 1
      BY <1>3, OthersStay DEF BotInv
<1>5. BotShape' BY <1>4 DEF BotInv, BotShape, BotTypeOK
<1>6. NothingSkipped'
  <2>1. \A k \in 1 .. Len(b) : b[k] = b[1] + k - 1
    <3> SUFFICES ASSUME NEW k \in 1 .. Len(b) PROVE b[k] = b[1] + k - 1 OBVIOUS
    <3>1. b # <<>>
      <4>1. Len(b) # 0 OBVIOUS
      <4>2. Len(<<>>) = 0 OBVIOUS
      <4> QED BY <4>1, <4>2
    <3> QED BY <3>1
  <2>2. b # <<>> => 1 .. b[1] - 1 \subseteq begun OBVIOUS
  <2>3. LoopFollows(x, n, begun) BY <2>1, <2>2 DEF LoopFollows, AtUpdate
  <2> QED BY <1>4, <2>3 DEF BotInv, NothingSkipped
<1>7. ~several => HandledInTurn'
  <2> SUFFICES ASSUME ~several PROVE HandledInTurn' OBVIOUS
  <2>1. b # <<>> => b[1] >= offset /\ 1 .. b[1] - 1 \subseteq handled
        BY DEF BotInv, BotShape, BotTypeOK
  <2>2. x.at = "next" /\ x.batch = b OBVIOUS
  <2>3. \A k \in PollLoops : loops[k].at \notin AtUpdate
        BY DEF BotInv, HandledInTurn, Polling, AtUpdate
  <2> HIDE DEF x
  <2> QED BY <1>4, <2>1, <2>2, <2>3
          DEF BotInv, HandledInTurn, LoopAlone, Polling, AtUpdate
<1> QED BY <1>5, <1>6, <1>7 DEF BotInv

LEMMA GetUpdatesKeeps ==
    ASSUME BotInv, NEW l \in PollLoops, GetUpdates(l) PROVE BotInv'
<1> DEFINE known == Forgets(loops[l].from)
<1> USE TelegramAssumption
<1>0. loops[l].at = "asking" BY DEF GetUpdates
<1>1. /\ known \in 0 .. MaxUpdates /\ 1 .. known \subseteq begun
      /\ ~several => 1 .. known \subseteq handled /\ known + 1 >= offset
      BY <1>0, ForgottenIsBehind
<1>2. UNCHANGED <<posted, offset, running, begun, handled, runs, botCrashes, several>>
      BY DEF GetUpdates
<1>3. CASE Sleep(l) /\ confirmed' \in {confirmed, known}
  <2>1. [Idle EXCEPT !.at = "sleeping"] = [at |-> "sleeping", from |-> 0, batch |-> <<>>]
        BY DEF Idle
  <2>2. /\ confirmed \in 0 .. MaxUpdates /\ 1 .. confirmed \subseteq begun
        /\ ~several => 1 .. confirmed \subseteq handled
        BY DEF BotInv, BotShape, BotTypeOK, NothingSkipped, HandledInTurn
  <2> HIDE DEF known
  <2> QED BY <1>0, <1>1, <1>2, <1>3, <2>1, <2>2, RestKeeps DEF Sleep, AtUpdate, Polling
<1>4. CASE confirmed' = known /\ UNCHANGED timer
             /\ loops' = [loops EXCEPT ![l] = [Idle EXCEPT !.at = "next",
                            !.batch = [k \in 1 .. Len(posted) - known |-> known + k]]]
  <2> HIDE DEF known
  <2>1. PICK b : b = [k \in 1 .. Len(posted) - known |-> known + k] OBVIOUS
  <2>2. [Idle EXCEPT !.at = "next", !.batch = b] = [at |-> "next", from |-> 0, batch |-> b]
    <3> DEFINE asleep == [Idle EXCEPT !.at = "next"]
    <3>1. asleep = [at |-> "next", from |-> 0, batch |-> <<>>] BY DEF Idle
    <3>2. [Idle EXCEPT !.at = "next", !.batch = b] = [asleep EXCEPT !.batch = b] OBVIOUS
    <3> HIDE DEF asleep
    <3> QED BY <3>1, <3>2
  <2>3. PICK p : p = known OBVIOUS
  <2>4. PICK n : n = Len(posted) OBVIOUS
  <2>5. /\ p \in 0 .. MaxUpdates /\ 1 .. p \subseteq begun
        /\ ~several => 1 .. p \subseteq handled /\ p + 1 >= offset
        /\ confirmed' = p
        BY <1>1, <1>4, <2>3
  <2>6. n \in 0 .. MaxUpdates BY <2>4 DEF BotInv, BotShape, BotTypeOK
  <2>7. b = [k \in 1 .. n - p |-> p + k] BY <2>1, <2>3, <2>4
  <2>8. /\ b \in Seq(1 .. n) /\ b \in Seq(Updates) /\ Len(b) \in Nat
        /\ b # <<>> => 1 \in 1 .. Len(b) /\ b[1] = p + 1
        /\ \A k \in 1 .. Len(b) : b[k] = p + k
    <3>0. (IF p < n THEN n - p ELSE 0) \in Nat BY <2>5, <2>6
    <3>1. PICK m \in Nat : m = IF p < n THEN n - p ELSE 0 BY <3>0
    <3>2. 1 .. n - p = 1 .. m BY <2>5, <2>6, <3>1
    <3>3. b = [k \in 1 .. m |-> p + k] BY <2>7, <3>2
    <3>4. \A k \in 1 .. m : p + k \in 1 .. n BY <2>5, <2>6, <3>1
    <3>5. b \in [1 .. m -> 1 .. n] /\ \A k \in 1 .. m : b[k] = p + k BY <3>3, <3>4
    <3> QED BY <2>5, <2>6, <3>1, <3>5, BatchOf
  <2>9. loops' = [loops EXCEPT ![l] = [at |-> "next", from |-> 0, batch |-> b]] /\ UNCHANGED timer
        BY <1>4, <2>1, <2>2
  <2> QED BY <1>0, <1>2, <2>4, <2>5, <2>8, <2>9, DeliveryKeeps
<1> QED BY <1>3, <1>4 DEF GetUpdates

\* Where a batch is not empty its head is its first update, and it was sent.
LEMMA HeadOfBatch ==
    ASSUME BotInv, NEW l \in PollLoops, loops[l].batch # <<>>
    PROVE  LET u == Head(loops[l].batch) IN
           /\ u = loops[l].batch[1] /\ u \in Updates /\ u \in 1 .. Len(posted)
           /\ posted[u] \in Kinds
<1> DEFINE b == loops[l].batch
<1>1. b \in Seq(1 .. Len(posted)) BY DEF BotInv, NothingSkipped, LoopFollows
<1>2. Len(posted) \in Nat /\ Len(posted) <= MaxUpdates /\ posted \in Seq(Kinds)
      BY DEF BotInv, BotShape, BotTypeOK
<1> HIDE DEF b
<1>3. Head(b) = b[1] /\ b[1] \in 1 .. Len(posted)
  <2>1. Len(b) \in Nat \ {0} BY <1>1, EmptySeq DEF b
  <2> QED BY <1>1, <2>1, ElementOfSeq
<1>4. b[1] \in Updates BY <1>2, <1>3, TelegramAssumption DEF Updates
<1>5. posted[b[1]] \in Kinds BY <1>2, <1>3, ElementOfSeq
<1> QED BY <1>3, <1>4, <1>5 DEF b

LEMMA UpdateBeginKeeps ==
    ASSUME BotInv, NEW l \in PollLoops, Begin(l) PROVE BotInv'
<1> USE TelegramAssumption
<1>1. /\ loops[l].at = "next" /\ loops[l].batch # <<>>
      /\ UNCHANGED <<posted, confirmed, running, timer, handled, runs, botCrashes, several>>
      BY DEF Begin
<1>2. PICK u \in Updates : u = loops[l].batch[1] /\ u = Head(loops[l].batch)
                            /\ u \in 1 .. Len(posted) /\ posted[u] \in Kinds
      BY <1>1, HeadOfBatch
<1>3. PICK b : b = loops[l].batch OBVIOUS
<1>4. PICK from : from = loops[l].from OBVIOUS
<1>5. PICK at : at = posted[u] OBVIOUS
<1> DEFINE x == [at |-> at, from |-> from, batch |-> b]
<1>6. loops[l] \in Loops BY DEF BotInv, BotShape
<1>7. [loops[l] EXCEPT !.at = at] = x /\ x \in Loops
      BY <1>2, <1>3, <1>4, <1>5, <1>6 DEF Loops, BotPlaces, Kinds
<1>8. at \in {"runs", "talks"} /\ x.at = at /\ x.batch = b /\ b # <<>> /\ b[1] = u /\ u \in Nat
      BY <1>1, <1>2, <1>3, <1>5 DEF Kinds, Updates
<1>9. offset' = u + 1 /\ begun' = begun \cup {u} BY <1>2 DEF Begin, NextOffset
<1>10. loops' = [loops EXCEPT ![l] = x]
  <2>1. loops' = [loops EXCEPT ![l].at = at] BY <1>2, <1>5 DEF Begin
  <2> QED BY <1>7, <2>1
<1> HIDE DEF x
<1>11. /\ loops' \in [PollLoops -> Loops] /\ loops'[l] = x
       /\ \A k \in PollLoops \ {l} : loops'[k] = loops[k]
       /\ \A k \in PollLoops : loops'[k].batch \in Seq(Updates)
                               /\ loops'[k].from \in 0 .. MaxUpdates + 1
  <2>1. OnlyLoop(l, x) BY <1>7, <1>10 DEF OnlyLoop
  <2> QED BY <2>1, OthersStay DEF BotInv
<1>12. BotShape'
  <2>1. offset' \in 0 .. MaxUpdates + 1 /\ begun' \cup handled \subseteq Updates
        BY <1>9 DEF Updates, BotInv, BotShape, BotTypeOK
  <2> QED BY <1>1, <1>11, <2>1 DEF BotInv, BotShape, BotTypeOK
<1>13. 1 .. u - 1 \subseteq begun /\ 1 .. u \subseteq begun'
  <2>1. 1 .. u - 1 \subseteq begun
        BY <1>1, <1>2 DEF BotInv, NothingSkipped, LoopFollows
  <2> QED BY <1>8, <1>9, <2>1
<1>14. NothingSkipped'
  <2>1. LoopFollows(x, Len(posted), begun')
    <3>1. LoopFollows(loops[l], Len(posted), begun) BY DEF BotInv, NothingSkipped
    <3>2. /\ b \in Seq(1 .. Len(posted))
          /\ \A k \in 1 .. Len(b) : b[k] = b[1] + k - 1
          BY <1>3, <3>1 DEF LoopFollows
    <3> QED BY <1>8, <1>9, <1>13, <3>2 DEF LoopFollows, AtUpdate
  <2>2. \A k \in PollLoops \ {l} : LoopFollows(loops[k], Len(posted), begun')
    <3>1. Len(posted) \in Nat BY DEF BotInv, BotShape, BotTypeOK
    <3> QED BY <1>9, <3>1, MoreFollows DEF BotInv, NothingSkipped
  <2>3. 1 .. confirmed \subseteq begun' /\ 1 .. offset' - 1 \subseteq begun'
        BY <1>8, <1>9, <1>13 DEF BotInv, NothingSkipped
  <2>4. \A k \in PollLoops : LoopFollows(loops'[k], Len(posted), begun')
        BY <1>11, <2>1, <2>2
  <2> QED BY <1>1, <2>3, <2>4 DEF NothingSkipped
<1>15. ~several => HandledInTurn'
  <2> SUFFICES ASSUME ~several PROVE HandledInTurn' OBVIOUS
  <2>1. HandledInTurn BY DEF BotInv
  <2>2. u >= offset /\ offset \in Nat /\ 1 .. u - 1 \subseteq handled
        BY <1>1, <1>2, <2>1 DEF HandledInTurn, LoopAlone, BotInv, BotShape, BotTypeOK
  <2>3. runs[u] <= botCrashes BY <2>1, <2>2 DEF HandledInTurn
  <2>4. Polling(l) BY <1>1 DEF Polling
  <2>5. \A k \in PollLoops \ {l} : loops[k].at \in {"none", "starting"}
        BY <2>1, <2>4 DEF HandledInTurn, Polling
  <2>6. \A k, m \in PollLoops : Polling(k)' /\ Polling(m)' => k = m
        BY <1>11, <2>5 DEF Polling
  <2>7. \A v \in Updates : runs[v] <= 1 + botCrashes /\ (v >= u + 1 => runs[v] <= botCrashes)
        BY <1>8, <2>1, <2>2 DEF HandledInTurn, Updates
  <2>8. \A k \in PollLoops : LoopAlone(loops[k])'
    <3> SUFFICES ASSUME NEW k \in PollLoops PROVE LoopAlone(loops[k])' OBVIOUS
    <3>1. CASE k = l BY <1>1, <1>8, <1>9, <1>11, <2>2, <2>3, <3>1 DEF LoopAlone, AtUpdate
    <3>2. CASE k # l
          BY <1>1, <1>11, <2>1, <2>5, <3>2 DEF LoopAlone, AtUpdate, HandledInTurn
    <3> QED BY <3>1, <3>2
  <2>9. 1 .. confirmed \subseteq handled BY <2>1 DEF HandledInTurn
  <2>10. loops'[l].at \in AtUpdate BY <1>8, <1>11 DEF AtUpdate
  <2> QED BY <1>1, <1>9, <2>6, <2>7, <2>8, <2>9, <2>10 DEF HandledInTurn
<1> QED BY <1>1, <1>12, <1>14, <1>15 DEF BotInv

LEMMA RunBegins ==
    ASSUME BotInv, NEW l \in PollLoops, loops[l].at = "runs", NEW u \in Updates,
           loops[l].batch # <<>>, u = loops[l].batch[1],
           runs' = [runs EXCEPT ![u] = OneMore(@)],
           loops' = [loops EXCEPT ![l].at = "run"],
           UNCHANGED <<posted, confirmed, offset, running, timer, begun, handled, botCrashes,
                       several>>
    PROVE  BotInv'
<1> USE TelegramAssumption
<1>1. PICK b : b = loops[l].batch OBVIOUS
<1>2. PICK from : from = loops[l].from OBVIOUS
<1> DEFINE x == [at |-> "run", from |-> from, batch |-> b]
<1>3. loops[l] \in Loops BY DEF BotInv, BotShape
<1>4. [loops[l] EXCEPT !.at = "run"] = x /\ x \in Loops
      BY <1>1, <1>2, <1>3 DEF Loops, BotPlaces
<1>5. x.at = "run" /\ x.batch = b OBVIOUS
<1>6. loops' = [loops EXCEPT ![l] = x] BY <1>4
<1> HIDE DEF x
<1>7. /\ loops' \in [PollLoops -> Loops] /\ loops'[l] = x
      /\ \A k \in PollLoops \ {l} : loops'[k] = loops[k]
      /\ \A k \in PollLoops : loops'[k].batch \in Seq(Updates)
                              /\ loops'[k].from \in 0 .. MaxUpdates + 1
  <2>1. OnlyLoop(l, x) BY <1>4, <1>6 DEF OnlyLoop
  <2> QED BY <2>1, OthersStay DEF BotInv
<1>8. /\ runs \in [Updates -> Nat] /\ runs' \in [Updates -> Nat]
      /\ runs'[u] <= runs[u] + 1 /\ \A v \in Updates \ {u} : runs'[v] = runs[v]
      BY DEF OneMore, BotInv, BotShape, BotTypeOK
<1>9. BotShape' BY <1>7, <1>8 DEF BotInv, BotShape, BotTypeOK
<1>10. NothingSkipped'
  <2>1. LoopFollows(x, Len(posted), begun)
    <3>1. LoopFollows(loops[l], Len(posted), begun) BY DEF BotInv, NothingSkipped
    <3> QED BY <1>1, <1>5, <3>1 DEF LoopFollows, AtUpdate
  <2> QED BY <1>7, <2>1 DEF BotInv, NothingSkipped
<1>11. ~several => HandledInTurn'
  <2> SUFFICES ASSUME ~several PROVE HandledInTurn' OBVIOUS
  <2>1. HandledInTurn BY DEF BotInv
  <2>2. /\ offset = u + 1 /\ runs[u] <= botCrashes /\ u \in Nat /\ botCrashes \in Nat
        /\ 1 .. u - 1 \subseteq handled
        BY <2>1 DEF HandledInTurn, LoopAlone, AtUpdate, Updates, BotInv, BotShape
  <2>3. Polling(l) BY DEF Polling
  <2>4. \A k \in PollLoops \ {l} : loops[k].at \in {"none", "starting"}
        BY <2>1, <2>3 DEF HandledInTurn, Polling
  <2>5. \A k, m \in PollLoops : Polling(k)' /\ Polling(m)' => k = m
        BY <1>7, <2>4 DEF Polling
  <2>6. \A v \in Updates : runs'[v] <= 1 + botCrashes /\ (v >= offset => runs'[v] <= botCrashes)
    <3> SUFFICES ASSUME NEW v \in Updates
                 PROVE runs'[v] <= 1 + botCrashes /\ (v >= offset => runs'[v] <= botCrashes)
        OBVIOUS
    <3>1. CASE v = u BY <1>8, <2>2, <3>1
    <3>2. CASE v # u BY <1>8, <2>1, <3>2 DEF HandledInTurn
    <3> QED BY <3>1, <3>2
  <2>7. \A k \in PollLoops : LoopAlone(loops[k])'
    <3> SUFFICES ASSUME NEW k \in PollLoops PROVE LoopAlone(loops[k])' OBVIOUS
    <3>1. CASE k = l BY <1>1, <1>5, <1>7, <2>2, <3>1 DEF LoopAlone, AtUpdate
    <3>2. CASE k # l BY <1>7, <2>1, <2>4, <3>2 DEF LoopAlone, AtUpdate, HandledInTurn
    <3> QED BY <3>1, <3>2
  <2>8. 1 .. confirmed \subseteq handled BY <2>1 DEF HandledInTurn
  <2>9. loops'[l].at \in AtUpdate BY <1>5, <1>7 DEF AtUpdate
  <2> QED BY <2>5, <2>6, <2>7, <2>8, <2>9 DEF HandledInTurn
<1> QED BY <1>9, <1>10, <1>11 DEF BotInv

\* What is left of a batch without a gap.
LEMMA RestOfBatch ==
    ASSUME NEW n, NEW b \in Seq(1 .. n), b # <<>>, n \in Nat,
           \A k \in 1 .. Len(b) : b[k] = b[1] + k - 1
    PROVE  /\ Tail(b) \in Seq(1 .. n) /\ b[1] \in Nat
           /\ \A k \in 1 .. Len(Tail(b)) : Tail(b)[k] = Tail(b)[1] + k - 1
           /\ Tail(b) # <<>> => Tail(b)[1] = b[1] + 1
<1>1. Len(b) \in Nat \ {0} BY EmptySeq
<1>2. b[1] \in Nat
  <2>1. b[1] \in 1 .. n BY <1>1, ElementOfSeq
  <2> QED BY <2>1
<1>3. /\ Tail(b) \in Seq(1 .. n) /\ Len(Tail(b)) = Len(b) - 1
      /\ \A k \in 1 .. Len(Tail(b)) : Tail(b)[k] = b[k + 1]
      BY HeadTailProperties
<1>4. PICK r : r = Tail(b) OBVIOUS
<1>5. \A k \in 1 .. Len(b) - 1 : r[k] = b[1] + k
  <2> SUFFICES ASSUME NEW k \in 1 .. Len(b) - 1 PROVE r[k] = b[1] + k OBVIOUS
  <2>1. k + 1 \in 1 .. Len(b) /\ r[k] = b[k + 1] BY <1>1, <1>3, <1>4
  <2>2. b[k + 1] = b[1] + (k + 1) - 1 BY <2>1
  <2> QED BY <1>2, <2>1, <2>2
<1>6. r # <<>> => 1 \in 1 .. Len(b) - 1
  <2>1. r # <<>> => Len(r) \in Nat \ {0} BY <1>3, <1>4, EmptySeq
  <2> QED BY <1>1, <1>3, <1>4, <2>1
<1>7. \A k \in 1 .. Len(b) - 1 : r[k] = r[1] + k - 1
  <2> SUFFICES ASSUME NEW k \in 1 .. Len(b) - 1 PROVE r[k] = r[1] + k - 1 OBVIOUS
  <2>1. 1 \in 1 .. Len(b) - 1 BY <1>1
  <2> QED BY <1>2, <1>5, <2>1
<1> QED BY <1>2, <1>3, <1>4, <1>5, <1>6, <1>7

LEMMA UpdateEnds ==
    ASSUME BotInv, NEW l \in PollLoops, loops[l].at \in AtUpdate, NEW u \in Updates,
           loops[l].batch # <<>>, u = loops[l].batch[1],
           handled' = handled \cup {u},
           loops' = [loops EXCEPT ![l].at = "next", ![l].batch = Tail(@)],
           UNCHANGED <<posted, confirmed, offset, running, timer, begun, runs, botCrashes, several>>
    PROVE  BotInv'
<1> USE TelegramAssumption
<1>1. PICK n : n = Len(posted) OBVIOUS
<1>2. n \in Nat /\ n <= MaxUpdates BY <1>1 DEF BotInv, BotShape, BotTypeOK
<1>3. PICK b : b = loops[l].batch OBVIOUS
<1>4. LoopFollows(loops[l], n, begun) BY <1>1 DEF BotInv, NothingSkipped
<1>5. /\ b \in Seq(1 .. n) /\ b # <<>> /\ b[1] = u /\ 1 .. u \subseteq begun
      /\ \A k \in 1 .. Len(b) : b[k] = b[1] + k - 1
      BY <1>3, <1>4 DEF LoopFollows
<1>6. PICK r : r = Tail(b) OBVIOUS
<1>7. /\ r \in Seq(1 .. n) /\ u \in Nat
      /\ \A k \in 1 .. Len(r) : r[k] = r[1] + k - 1
      /\ r # <<>> => r[1] = u + 1
      BY <1>2, <1>5, <1>6, RestOfBatch
<1>8. PICK from : from = loops[l].from OBVIOUS
<1> DEFINE x == [at |-> "next", from |-> from, batch |-> r]
<1>9. loops[l] \in Loops BY DEF BotInv, BotShape
<1>10. x \in Loops
  <2>1. 1 .. n \subseteq Updates BY <1>2 DEF Updates
  <2>2. r \in Seq(Updates) BY <1>7, <2>1, SeqMonotonic
  <2>3. from \in 0 .. MaxUpdates + 1 BY <1>8, <1>9 DEF Loops
  <2> QED BY <2>2, <2>3 DEF Loops, BotPlaces
<1>11. loops' = [loops EXCEPT ![l] = x]
  <2> DEFINE woken == [loops EXCEPT ![l].at = "next"]
  <2>1. loops \in [PollLoops -> Loops] BY DEF BotInv, BotShape
  <2>2. woken = [loops EXCEPT ![l] = [at |-> "next", from |-> from, batch |-> b]]
    <3>1. [loops[l] EXCEPT !.at = "next"] = [at |-> "next", from |-> from, batch |-> b]
          BY <1>3, <1>8, <1>9 DEF Loops
    <3> QED BY <3>1
  <2>3. loops' = [woken EXCEPT ![l].batch = Tail(@)] BY <2>1
  <2> HIDE DEF woken
  <2>4. woken[l] = [at |-> "next", from |-> from, batch |-> b] BY <2>1, <2>2
  <2>5. [woken[l] EXCEPT !.batch = Tail(@)] = x
    <3>1. PICK p : p = woken[l] OBVIOUS
    <3>2. p = [at |-> "next", from |-> from, batch |-> b] BY <2>4, <3>1
    <3>3. p.batch = b BY <3>2
    <3>4. Tail(p.batch) = r BY <1>6, <3>3
    <3>5. [p EXCEPT !.batch = r] = x BY <3>2
    <3> QED BY <3>1, <3>4, <3>5
  <2>6. loops' = [woken EXCEPT ![l] = x] BY <2>3, <2>5
  <2> HIDE DEF x
  <2> QED BY <2>1, <2>2, <2>6
<1>12. x.at = "next" /\ x.batch = r OBVIOUS
<1> HIDE DEF x
<1>13. /\ loops' \in [PollLoops -> Loops] /\ loops'[l] = x
       /\ \A k \in PollLoops \ {l} : loops'[k] = loops[k]
       /\ \A k \in PollLoops : loops'[k].batch \in Seq(Updates)
                               /\ loops'[k].from \in 0 .. MaxUpdates + 1
  <2>1. OnlyLoop(l, x) BY <1>10, <1>11 DEF OnlyLoop
  <2> QED BY <2>1, OthersStay DEF BotInv
<1>14. BotShape' BY <1>13 DEF BotInv, BotShape, BotTypeOK
<1>15. NothingSkipped'
  <2>1. LoopFollows(x, n, begun) BY <1>5, <1>7, <1>12 DEF LoopFollows, AtUpdate
  <2> QED BY <1>1, <1>13, <2>1 DEF BotInv, NothingSkipped
<1>16. ~several => HandledInTurn'
  <2> SUFFICES ASSUME ~several PROVE HandledInTurn' OBVIOUS
  <2>1. HandledInTurn BY DEF BotInv
  <2>2. offset = u + 1 /\ 1 .. u - 1 \subseteq handled
        BY <1>3, <1>5, <2>1 DEF HandledInTurn, LoopAlone
  <2>3. 1 .. u \subseteq handled' BY <1>7, <2>2
  <2>4. Polling(l) BY DEF Polling, AtUpdate
  <2>5. \A k \in PollLoops \ {l} : loops[k].at \in {"none", "starting"}
        BY <2>1, <2>4 DEF HandledInTurn, Polling
  <2>6. \A k, m \in PollLoops : Polling(k)' /\ Polling(m)' => k = m
        BY <1>13, <2>5 DEF Polling
  <2>7. \A k \in PollLoops : LoopAlone(loops[k])'
    <3> SUFFICES ASSUME NEW k \in PollLoops PROVE LoopAlone(loops[k])' OBVIOUS
    <3>0. r # <<>> => r[1] >= offset /\ 1 .. r[1] - 1 \subseteq handled'
          BY <1>7, <2>2, <2>3
    <3>1. CASE k = l BY <1>12, <1>13, <3>0, <3>1 DEF LoopAlone, AtUpdate
    <3>2. CASE k # l BY <1>13, <2>1, <2>5, <3>2 DEF LoopAlone, AtUpdate, HandledInTurn
    <3> QED BY <3>1, <3>2
  <2>8. 1 .. confirmed \subseteq handled' BY <2>1 DEF HandledInTurn
  <2>9. 1 .. offset - 1 \subseteq handled' BY <1>7, <2>2, <2>3
  <2> QED BY <2>1, <2>6, <2>7, <2>8, <2>9 DEF HandledInTurn
<1> QED BY <1>14, <1>15, <1>16 DEF BotInv

LEMMA HandlerReturnsKeeps ==
    ASSUME BotInv, NEW l \in PollLoops, HandlerReturns(l) PROVE BotInv'
<1>1. loops[l].at \in AtUpdate BY DEF HandlerReturns, AtUpdate
<1>2. loops[l].batch # <<>>
      BY <1>1 DEF BotInv, NothingSkipped, LoopFollows
<1>3. PICK u \in Updates : u = loops[l].batch[1] /\ u = Head(loops[l].batch)
      BY <1>2, HeadOfBatch
<1>4. CASE loops[l].at = "runs" /\ runs' = [runs EXCEPT ![u] = OneMore(@)]
               /\ loops' = [loops EXCEPT ![l].at = "run"] /\ UNCHANGED handled
      BY <1>2, <1>3, <1>4, RunBegins DEF HandlerReturns
<1>5. CASE handled' = handled \cup {u} /\ UNCHANGED runs
               /\ loops' = [loops EXCEPT ![l].at = "next", ![l].batch = Tail(@)]
      BY <1>1, <1>2, <1>3, <1>5, UpdateEnds DEF HandlerReturns
<1> QED BY <1>3, <1>4, <1>5 DEF HandlerReturns

LEMMA IdleIsFine ==
    Idle \in Loops /\ Idle.batch \in Seq(Updates) /\ Idle.from \in 0 .. MaxUpdates + 1
    /\ Idle.at = "none" /\ Idle.batch = <<>>
    /\ \A n, done : LoopFollows(Idle, n, done)
<1>1. <<>> \in Seq(Updates) OBVIOUS
<1>2. Idle.at = "none" /\ Idle.batch = <<>> /\ Idle.from = 0 BY DEF Idle
<1>3. \A n, done : LoopFollows(Idle, n, done) BY <1>2, EmptyFollows DEF AtUpdate
<1>4. Idle \in Loops BY <1>1, TelegramAssumption DEF Idle, Loops, BotPlaces
<1> QED BY <1>1, <1>2, <1>3, <1>4, TelegramAssumption

LEMMA StopBotKeeps ==
    ASSUME BotInv, StopBot PROVE BotInv'
<1> USE TelegramAssumption, IdleIsFine
<1>1. /\ UNCHANGED <<posted, confirmed, offset, begun, handled, runs, botCrashes, several>>
      /\ running' = FALSE /\ timer' = {}
      BY DEF StopBot
<1>2. loops \in [PollLoops -> Loops] BY DEF BotInv, BotShape
<1>3. \A k \in PollLoops : loops'[k] = loops[k] \/ (loops'[k] = Idle /\ loops[k].at = "sleeping")
      BY DEF StopBot
<1>4. loops' \in [PollLoops -> Loops] BY <1>2 DEF StopBot
<1>5. BotShape'
  <2>1. \A k \in PollLoops : loops'[k].batch \in Seq(Updates)
                             /\ loops'[k].from \in 0 .. MaxUpdates + 1
        BY <1>4 DEF Loops
  <2> QED BY <1>1, <1>4, <2>1 DEF BotInv, BotShape, BotTypeOK
<1>6. NothingSkipped' BY <1>1, <1>3 DEF BotInv, NothingSkipped
<1>7. ~several => HandledInTurn'
  <2> SUFFICES ASSUME ~several PROVE HandledInTurn' OBVIOUS
  <2>1. HandledInTurn BY DEF BotInv
  <2>2. \A k \in PollLoops : LoopAlone(loops[k])'
        BY <1>1, <1>3, <2>1 DEF HandledInTurn, LoopAlone, AtUpdate
  <2>3. \A k, m \in PollLoops : Polling(k)' /\ Polling(m)' => k = m
        BY <1>3, <2>1 DEF HandledInTurn, Polling
  <2>4. (\A k \in PollLoops : loops'[k].at \notin AtUpdate)
           => \A k \in PollLoops : loops[k].at \notin AtUpdate
        BY <1>3 DEF AtUpdate
  <2> QED BY <1>1, <2>1, <2>2, <2>3, <2>4 DEF HandledInTurn
<1> QED BY <1>1, <1>5, <1>6, <1>7 DEF BotInv

LEMMA BotCrashKeeps ==
    ASSUME BotInv, BotCrash PROVE BotInv'
<1> USE TelegramAssumption, IdleIsFine
<1>1. /\ UNCHANGED <<posted, confirmed, begun, handled, runs, several>>
      /\ offset' = 0 /\ running' = FALSE /\ timer' = {}
      /\ botCrashes' = botCrashes + 1 /\ botCrashes' \in 0 .. MaxBotCrashes /\ botCrashes \in Nat
      /\ loops' = [k \in PollLoops |-> Idle] /\ \A k \in PollLoops : loops'[k] = Idle
      BY DEF BotCrash, BotInv, BotShape
<1>2. BotShape'
  <2>1. loops' \in [PollLoops -> Loops] BY <1>1
  <2>2. offset' \in 0 .. MaxUpdates + 1 /\ timer' \subseteq PollLoops
        BY <1>1
  <2>4. running' \in BOOLEAN /\ several' \in BOOLEAN
    <3>1. several \in BOOLEAN /\ several' = several BY <1>1 DEF BotInv, BotShape
    <3> QED BY <1>1, <3>1
  <2>3. \A k \in PollLoops : loops'[k].batch \in Seq(Updates)
                             /\ loops'[k].from \in 0 .. MaxUpdates + 1
        BY <1>1
  <2> QED BY <1>1, <2>1, <2>2, <2>3, <2>4 DEF BotInv, BotShape, BotTypeOK
<1>3. NothingSkipped' BY <1>1 DEF BotInv, NothingSkipped
<1>4. ~several => HandledInTurn'
  <2> SUFFICES ASSUME ~several PROVE HandledInTurn' OBVIOUS
  <2>1. HandledInTurn BY DEF BotInv
  <2>2. \A v \in Updates : runs'[v] <= botCrashes' /\ runs'[v] <= 1 + botCrashes'
        BY <1>1, <2>1 DEF HandledInTurn, BotInv, BotShape, BotTypeOK
  <2> QED BY <1>1, <2>1, <2>2 DEF HandledInTurn, LoopAlone, Polling, AtUpdate
<1> QED BY <1>1, <1>2, <1>3, <1>4 DEF BotInv

LEMMA BotStep == BotInv /\ [BotNext]_botVars => BotInv'
<1> SUFFICES ASSUME BotInv, [BotNext]_botVars PROVE BotInv' OBVIOUS
<1>1. CASE BotNext
      BY <1>1, UserSendsKeeps, StopBotKeeps, BotCrashKeeps, StartKeeps, GetMeKeeps, TimerFiresKeeps,
         GetUpdatesKeeps, UpdateBeginKeeps, HandlerReturnsKeeps, EndOfBatchKeeps
         DEF BotNext
<1>2. CASE UNCHANGED botVars
      BY <1>2 DEF botVars, BotInv, BotShape, BotTypeOK, NothingSkipped, HandledInTurn, LoopAlone,
                  Polling
<1> QED BY <1>1, <1>2

LEMMA BotAlways == BotInit /\ [][BotNext]_botVars => []BotInv
BY BotInitially, BotStep, PTL

LEMMA UpdatesInTurn == BotInv => BotTypeOK /\ UpdatesAreHandled
BY DEF BotInv, BotShape, NothingSkipped, HandledInTurn, UpdatesAreHandled

-----------------------------------------------------------------------------
(***************************************************************************)
(* The Zapier bridge. The bucket of a window lets as many requests through *)
(* as it has tokens left, and a stretch as long as a window meets two      *)
(* windows at most: what counts is how many requests the present window    *)
(* has had, and how many there were in the stretch before it.              *)
(***************************************************************************)

\* Requests in a stretch as long as a window, since a window began, and in the stretch
\* before that.
SentFrom(S, t) == {r \in S : r.at \in t .. t + RateWindow - 1}
SentSince(S, start) == {r \in S : r.at >= start}
SentBefore(S, start) == {r \in S : r.at > start - RateWindow /\ r.at < start}

\* The requests S are as the bucket b says, at time now.
Spares(b, S, now) ==
    /\ IsFiniteSet(S) /\ b \in [remaining : 0 .. Burst, resetAt : Nat]
    /\ b.resetAt - RateWindow <= now
    /\ \A r \in S : r.at \in 0 .. now /\ r.at < b.resetAt
    /\ Cardinality(SentSince(S, b.resetAt - RateWindow)) + b.remaining <= Burst
    /\ Cardinality(SentBefore(S, b.resetAt - RateWindow)) <= Burst
    /\ \A t \in Int : Cardinality(SentFrom(S, t)) <= 2 * Burst

CircuitFollows ==
    /\ circuit.state = "closed" <=> circuit.failures < OpenAfter
    /\ health = "healthy" => circuit.failures = 0

ZapierInv ==
    /\ ZapierTypeOK
    /\ clock \in Nat
    /\ steps \in [ZapierCalls -> [answer : {"none", "waiting", "completed", "failed"}, since : Nat]]
    /\ Spares(bucket, sent, clock)
    /\ CircuitFollows

LEMMA SparedSets ==
    ASSUME NEW S, IsFiniteSet(S), NEW t
    PROVE  /\ IsFiniteSet(SentSince(S, t)) /\ Cardinality(SentSince(S, t)) \in Nat
           /\ IsFiniteSet(SentBefore(S, t)) /\ Cardinality(SentBefore(S, t)) \in Nat
           /\ IsFiniteSet(SentFrom(S, t)) /\ Cardinality(SentFrom(S, t)) \in Nat
<1>1. SentSince(S, t) \subseteq S /\ SentBefore(S, t) \subseteq S /\ SentFrom(S, t) \subseteq S
      BY DEF SentSince, SentBefore, SentFrom
<1> QED BY <1>1, FS_Subset, FS_CardinalityType

LEMMA ZapierInitially == ZapierInit => ZapierInv
<1> SUFFICES ASSUME ZapierInit PROVE ZapierInv OBVIOUS
<1>1. sent = {} /\ IsFiniteSet({}) /\ Cardinality({}) = 0 BY FS_EmptySet DEF ZapierInit
<1>2. \A t : SentSince({}, t) = {} /\ SentBefore({}, t) = {} /\ SentFrom({}, t) = {}
      BY DEF SentSince, SentBefore, SentFrom
<1>3. bucket = [remaining |-> 0, resetAt |-> 0] /\ clock = 0 BY DEF ZapierInit
<1>4. Spares(bucket, sent, clock)
  <2>1. bucket \in [remaining : 0 .. Burst, resetAt : Nat] BY <1>3, ZapierAssumption
  <2>2. bucket.resetAt - RateWindow <= clock /\ 0 <= Burst /\ 0 <= 2 * Burst /\ bucket.remaining = 0
        BY <1>3, ZapierAssumption
  <2>3. 0 + bucket.remaining <= Burst BY <2>2
  <2> QED BY <1>1, <1>2, <2>1, <2>2, <2>3 DEF Spares
<1>5. ZapierTypeOK /\ clock \in Nat BY ZapierAssumption DEF ZapierTypeOK, ZapierInit, NotSent
<1>6. steps \in [ZapierCalls -> [answer : {"none", "waiting", "completed", "failed"}, since : Nat]]
      BY DEF ZapierInit
<1>7. CircuitFollows BY ZapierAssumption DEF CircuitFollows, ZapierInit
<1> QED BY <1>4, <1>5, <1>6, <1>7 DEF ZapierInv

\* The bucket that a call finds: of the window at hand, or of a new one, which begins
\* when the last is over.
LEMMA BucketSpares ==
    ASSUME Spares(bucket, sent, clock), clock \in Nat
    PROVE  Spares(Bucket, sent, clock) /\ clock < Bucket.resetAt
<1> USE ZapierAssumption
<1>0. /\ bucket \in [remaining : 0 .. Burst, resetAt : Nat] /\ clock \in Nat
      /\ RateWindow \in Nat \ {0} /\ Burst \in Nat \ {0}
      /\ IsFiniteSet(sent) /\ \A r \in sent : r.at \in 0 .. clock
      BY DEF Spares
<1>1. CASE clock < bucket.resetAt BY <1>0, <1>1 DEF Bucket
<1>2. CASE clock >= bucket.resetAt
  <2>1. Bucket = [remaining |-> Burst, resetAt |-> clock + RateWindow] BY <1>0, <1>2 DEF Bucket
  <2>2. Bucket.remaining = Burst /\ Bucket.resetAt = clock + RateWindow BY <2>1
  <2>3. Bucket.resetAt - RateWindow = clock BY <1>0, <2>2
  <2>4. SentSince(sent, clock) = {} BY <1>0, <1>2 DEF Spares, SentSince
  <2>5. SentBefore(sent, clock) \subseteq SentSince(sent, bucket.resetAt - RateWindow)
        BY <1>0, <1>2 DEF SentBefore, SentSince
  <2>6. Cardinality(SentBefore(sent, clock)) <= Burst
    <3>1. Cardinality(SentBefore(sent, clock))
             <= Cardinality(SentSince(sent, bucket.resetAt - RateWindow))
          BY <1>0, <2>5, SparedSets, FS_Subset
    <3>2. /\ Cardinality(SentSince(sent, bucket.resetAt - RateWindow)) \in Nat
          /\ Cardinality(SentBefore(sent, clock)) \in Nat
          BY <1>0, SparedSets
    <3> QED BY <1>0, <3>1, <3>2 DEF Spares
  <2>7. Cardinality(SentSince(sent, clock)) + Burst <= Burst
        BY <1>0, <2>4, FS_EmptySet
  <2>8. \A r \in sent : r.at < clock + RateWindow BY <1>0
  <2> QED BY <1>0, <2>1, <2>2, <2>3, <2>6, <2>7, <2>8 DEF Spares
<1> QED BY <1>0, <1>1, <1>2

\* One more request takes a token of the bucket.
LEMMA OneMoreRequest ==
    ASSUME NEW b, NEW S, NEW now \in Nat, NEW x, x.at = now,
           Spares(b, S, now), now < b.resetAt, b.remaining > 0
    PROVE  Spares([b EXCEPT !.remaining = b.remaining - 1], S \cup {x}, now)
<1> DEFINE start == b.resetAt - RateWindow
           T == S \cup {x}
           c == [b EXCEPT !.remaining = b.remaining - 1]
<1> USE ZapierAssumption
<1>0. /\ b \in [remaining : 0 .. Burst, resetAt : Nat]
      /\ RateWindow \in Nat \ {0} /\ Burst \in Nat \ {0}
      /\ IsFiniteSet(S) /\ \A r \in S : r.at \in 0 .. now /\ r.at < b.resetAt
      BY DEF Spares
<1>1. /\ c \in [remaining : 0 .. Burst, resetAt : Nat]
      /\ c.remaining = b.remaining - 1 /\ c.resetAt = b.resetAt
      BY <1>0
<1>2. start \in Int /\ start <= now /\ now < start + RateWindow BY <1>0 DEF Spares
<1>3. IsFiniteSet(T) BY <1>0, FS_AddElement
<1>4. \A r \in T : r.at \in 0 .. now /\ r.at < b.resetAt BY <1>0
<1>5. Cardinality(SentSince(T, start)) <= Cardinality(SentSince(S, start)) + 1
  <2>1. SentSince(T, start) = SentSince(S, start) \cup {x} BY <1>2 DEF SentSince
  <2>2. IsFiniteSet(SentSince(S, start)) /\ Cardinality(SentSince(S, start)) \in Nat
        BY <1>0, SparedSets
  <2>3. \/ Cardinality(SentSince(S, start) \cup {x}) = Cardinality(SentSince(S, start))
        \/ Cardinality(SentSince(S, start) \cup {x}) = Cardinality(SentSince(S, start)) + 1
        BY <2>2, FS_AddElement
  <2> HIDE DEF start, T
  <2> QED BY <2>1, <2>2, <2>3
<1>6. SentBefore(T, start) = SentBefore(S, start) BY <1>0, <1>2 DEF SentBefore
<1>7. ASSUME NEW t \in Int PROVE Cardinality(SentFrom(T, t)) <= 2 * Burst
  <2>1. CASE now \notin t .. t + RateWindow - 1
    <3>1. SentFrom(T, t) = SentFrom(S, t) BY <2>1 DEF SentFrom
    <3> QED BY <3>1 DEF Spares
  <2>2. CASE now \in t .. t + RateWindow - 1
    <3>1. SentFrom(T, t) \subseteq SentBefore(S, start) \cup SentSince(T, start)
          BY <1>0, <1>2, <1>4, <2>2 DEF SentFrom, SentBefore, SentSince
    <3>2. /\ IsFiniteSet(SentBefore(S, start)) /\ Cardinality(SentBefore(S, start)) \in Nat
          /\ IsFiniteSet(SentSince(T, start)) /\ Cardinality(SentSince(T, start)) \in Nat
          /\ Cardinality(SentSince(S, start)) \in Nat
          /\ Cardinality(SentFrom(T, t)) \in Nat
          BY <1>0, <1>3, SparedSets
    <3> DEFINE A == SentBefore(S, start)
               B == SentSince(T, start)
    <3>3. Cardinality(A \cup B) = Cardinality(A) + Cardinality(B) - Cardinality(A \cap B)
          BY <3>2, FS_Union
    <3>4. IsFiniteSet(A \cup B) /\ Cardinality(A \cap B) \in Nat
          BY <3>2, FS_Union, FS_Intersection, FS_CardinalityType
    <3>5. Cardinality(SentFrom(T, t)) <= Cardinality(A \cup B) BY <3>1, <3>4, FS_Subset
    <3>6. Cardinality(A) <= Burst /\ Cardinality(B) <= Burst
          BY <1>0, <1>5, <3>2 DEF Spares
    <3> HIDE DEF A, B
    <3>7. Cardinality(A) \in Nat /\ Cardinality(B) \in Nat BY <3>2 DEF A, B
    <3>8. Cardinality(A \cup B) <= 2 * Burst BY <1>0, <3>3, <3>4, <3>6, <3>7
    <3>9. Cardinality(A \cup B) \in Nat BY <3>4, FS_CardinalityType
    <3> QED BY <1>0, <3>2, <3>5, <3>8, <3>9
  <2> QED BY <2>1, <2>2
<1>8. Cardinality(SentSince(T, start)) + c.remaining <= Burst
  <2>1. Cardinality(SentSince(T, start)) \in Nat /\ Cardinality(SentSince(S, start)) \in Nat
        BY <1>0, <1>3, SparedSets
  <2>2. Cardinality(SentSince(S, start)) + b.remaining <= Burst BY DEF Spares
  <2> QED BY <1>0, <1>1, <1>5, <2>1, <2>2
<1>9. c.resetAt - RateWindow = start /\ start <= now BY <1>1, <1>2
<1>10. Cardinality(SentBefore(T, start)) <= Burst BY <1>6 DEF Spares
<1> HIDE DEF c, T, start
<1>11. Spares(c, T, now) BY <1>1, <1>3, <1>4, <1>7, <1>8, <1>9, <1>10 DEF Spares
<1> QED BY <1>11 DEF c, T

\* A token is gone without a request.
LEMMA TokenWasted ==
    ASSUME NEW b, NEW S, NEW now \in Nat, Spares(b, S, now), b.remaining > 0
    PROVE  Spares([b EXCEPT !.remaining = b.remaining - 1], S, now)
<1> DEFINE start == b.resetAt - RateWindow
           c == [b EXCEPT !.remaining = b.remaining - 1]
<1>0. b \in [remaining : 0 .. Burst, resetAt : Nat] /\ Burst \in Nat /\ RateWindow \in Nat
      BY ZapierAssumption DEF Spares
<1>1. /\ c \in [remaining : 0 .. Burst, resetAt : Nat]
      /\ c.remaining = b.remaining - 1 /\ c.resetAt = b.resetAt
      BY <1>0
<1>2. Cardinality(SentSince(S, start)) \in Nat BY SparedSets DEF Spares
<1>3. Cardinality(SentSince(S, start)) + c.remaining <= Burst BY <1>0, <1>1, <1>2 DEF Spares
<1> HIDE DEF c
<1>4. Spares(c, S, now) BY <1>1, <1>3 DEF Spares
<1> QED BY <1>4 DEF c

\* The circuit that a call finds is as closed as it was.
LEMMA TriedFollows ==
    ASSUME ZapierInv
    PROVE  /\ Tried \in [state : {"closed", "open", "half_open"}, failures : Nat, lastFailureAt : Nat]
           /\ Tried.state = "closed" <=> circuit.state = "closed"
           /\ Tried.failures = circuit.failures
<1>1. circuit \in [state : {"closed", "open", "half_open"}, failures : Nat, lastFailureAt : Nat]
      BY DEF ZapierInv, ZapierTypeOK
<1> QED BY <1>1 DEF Tried

LEMMA AnswersType ==
    ASSUME ZapierInv, NEW c \in ZapierCalls,
           NEW a \in {"none", "waiting", "completed", "failed"}, Answers(c, a)
    PROVE  /\ steps' \in [ZapierCalls ->
                  [answer : {"none", "waiting", "completed", "failed"}, since : Nat]]
           /\ \A d \in ZapierCalls : steps'[d].answer \in {"none", "waiting", "completed", "failed"}
BY DEF ZapierInv, Answers

LEMMA ArrivesKeeps ==
    ASSUME ZapierInv, NEW c \in ZapierCalls, NEW outcome \in {"ok", "error", "thrown"},
           Arrives(c, outcome)
    PROVE  ZapierInv'
<1> USE ZapierAssumption
<1>0. /\ circuit \in [state : {"closed", "open", "half_open"}, failures : Nat, lastFailureAt : Nat]
      /\ clock \in Nat
      BY DEF ZapierInv, ZapierTypeOK
<1>1. /\ requests' = [requests EXCEPT ![c] = NotSent]
      /\ circuit' = IF outcome = "ok" THEN Succeeded ELSE Failed
      /\ UNCHANGED <<endpoint, bucket, made, sent, clock>>
      BY DEF Arrives
<1>2. /\ Succeeded \in [state : {"closed", "open", "half_open"}, failures : Nat, lastFailureAt : Nat]
      /\ Succeeded.state = "closed" /\ Succeeded.failures = 0
      BY <1>0 DEF Succeeded
<1>3. /\ Failed \in [state : {"closed", "open", "half_open"}, failures : Nat, lastFailureAt : Nat]
      /\ Failed.failures = circuit.failures + 1
      /\ Failed.state = IF circuit.failures + 1 >= OpenAfter THEN "open" ELSE circuit.state
      BY <1>0 DEF Failed
<1>4. health' \in {"healthy", "degraded", "down"} /\ (health' = "healthy" => outcome = "ok")
  <2>1. outcome = "ok" \/ outcome = "error" \/ outcome = "thrown" OBVIOUS
  <2> QED BY <2>1 DEF Arrives
<1>5. CircuitFollows'
  <2>1. CASE outcome = "ok" BY <1>1, <1>2, <2>1 DEF CircuitFollows
  <2>2. CASE outcome # "ok"
    <3>1. circuit.state = "closed" <=> circuit.failures < OpenAfter
          BY DEF ZapierInv, CircuitFollows
    <3> QED BY <1>0, <1>1, <1>3, <1>4, <2>2, <3>1 DEF CircuitFollows
  <2> QED BY <2>1, <2>2
<1>6. steps' \in [ZapierCalls -> [answer : {"none", "waiting", "completed", "failed"}, since : Nat]]
      BY AnswersType DEF Arrives, ZapierInv
<1>7. circuit' \in [state : {"closed", "open", "half_open"}, failures : Nat, lastFailureAt : Nat]
      BY <1>1, <1>2, <1>3
<1>8. ZapierTypeOK' BY <1>1, <1>4, <1>6, <1>7 DEF ZapierInv, ZapierTypeOK
<1> QED BY <1>1, <1>5, <1>6, <1>8 DEF ZapierInv, Spares, SentSince, SentBefore, SentFrom

\* Who is refused, and who is let through.
LEMMA CallsKeep ==
    ASSUME ZapierInv, NEW c \in ZapierCalls,
           NotAsked(c) \/ CircuitOpen(c) \/ RateExceeded(c) \/ NoEndpoint(c) \/ Send(c)
               \/ StepTimesOut(c)
    PROVE  ZapierInv'
<1> USE ZapierAssumption
<1>0. /\ circuit \in [state : {"closed", "open", "half_open"}, failures : Nat, lastFailureAt : Nat]
      /\ clock \in Nat /\ Spares(bucket, sent, clock) /\ clock' = clock /\ endpoint' = endpoint
      BY DEF ZapierInv, ZapierTypeOK, NotAsked, CircuitOpen, RateExceeded, NoEndpoint, Send,
             StepTimesOut
<1>1. PICK a \in {"waiting", "completed", "failed"} : Answers(c, a)
      BY DEF NotAsked, CircuitOpen, RateExceeded, NoEndpoint, Send, StepTimesOut
<1>2. steps' \in [ZapierCalls -> [answer : {"none", "waiting", "completed", "failed"}, since : Nat]]
      BY <1>1, AnswersType
<1>3. circuit' = circuit \/ circuit' = Tried
      BY DEF NotAsked, CircuitOpen, RateExceeded, NoEndpoint, Send, StepTimesOut
<1>4. /\ circuit' \in [state : {"closed", "open", "half_open"}, failures : Nat, lastFailureAt : Nat]
      /\ circuit'.state = "closed" <=> circuit.state = "closed"
      /\ circuit'.failures = circuit.failures
      BY <1>0, <1>3, TriedFollows
<1>5. health' = health \/ health' \in {"degraded", "down"}
      BY DEF NotAsked, CircuitOpen, RateExceeded, NoEndpoint, Send, StepTimesOut
<1>6. CircuitFollows' BY <1>4, <1>5 DEF ZapierInv, CircuitFollows
<1>7. requests' \in [ZapierCalls -> Nat \cup {NotSent}]
      BY <1>0 DEF NotAsked, CircuitOpen, RateExceeded, NoEndpoint, Send, StepTimesOut,
                  ZapierInv, ZapierTypeOK
<1>8. Spares(bucket', sent', clock)
  <2>1. CASE UNCHANGED <<bucket, sent>> BY <1>0, <2>1
  <2>2. CASE RateExceeded(c) BY <1>0, <2>2, BucketSpares DEF RateExceeded
  <2>3. CASE NoEndpoint(c)
    <3>1. Spares(Bucket, sent, clock) BY <1>0, BucketSpares
    <3>2. /\ Bucket.remaining > 0 /\ sent' = sent
          /\ bucket' = [Bucket EXCEPT !.remaining = Bucket.remaining - 1]
          BY <2>3 DEF NoEndpoint
    <3> QED BY <1>0, <3>1, <3>2, TokenWasted
  <2>4. CASE Send(c)
    <3>1. Spares(Bucket, sent, clock) /\ clock < Bucket.resetAt BY <1>0, BucketSpares
    <3>2. PICK x : x = [at |-> clock, by |-> c, nth |-> made'[c]] OBVIOUS
    <3>3. /\ Bucket.remaining > 0 /\ sent' = sent \cup {x} /\ x.at = clock
          /\ bucket' = [Bucket EXCEPT !.remaining = Bucket.remaining - 1]
          BY <2>4, <3>2 DEF Send
    <3> QED BY <1>0, <3>1, <3>3, OneMoreRequest
  <2> QED BY <2>1, <2>2, <2>3, <2>4 DEF NotAsked, CircuitOpen, StepTimesOut
<1>9. ZapierTypeOK'
  <2>1. bucket' \in [remaining : 0 .. Burst, resetAt : Nat] BY <1>8 DEF Spares
  <2> QED BY <1>0, <1>2, <1>4, <1>5, <1>7, <2>1 DEF ZapierInv, ZapierTypeOK
<1>10. Spares(bucket, sent, clock)' BY <1>0, <1>8 DEF Spares, SentSince, SentBefore, SentFrom
<1> QED BY <1>0, <1>2, <1>6, <1>9, <1>10 DEF ZapierInv

LEMMA ZapierTickKeeps ==
    ASSUME ZapierInv, ZapierTick PROVE ZapierInv'
<1>1. /\ clock' = clock + 1 /\ clock \in Nat
      /\ UNCHANGED <<endpoint, circuit, bucket, health, steps, requests, made, sent>>
      BY DEF ZapierInv, ZapierTick
<1>2. Spares(bucket, sent, clock)'
      BY <1>1, ZapierAssumption DEF ZapierInv, Spares, SentSince, SentBefore, SentFrom
<1> QED BY <1>1, <1>2 DEF ZapierInv, ZapierTypeOK, CircuitFollows

LEMMA ZapierStep == ZapierInv /\ [ZapierNext]_zapierVars => ZapierInv'
<1> SUFFICES ASSUME ZapierInv, [ZapierNext]_zapierVars PROVE ZapierInv' OBVIOUS
<1>1. CASE UNCHANGED zapierVars
      BY <1>1 DEF zapierVars, ZapierInv, ZapierTypeOK, Spares, SentSince, SentBefore, SentFrom,
                  CircuitFollows
<1> QED BY <1>1, ZapierTickKeeps, CallsKeep, ArrivesKeeps DEF ZapierNext

LEMMA ZapierAlways == ZapierInit /\ [][ZapierNext]_zapierVars => []ZapierInv
BY ZapierInitially, ZapierStep, PTL

LEMMA SparedIs == ZapierInv => ZapierTypeOK /\ BridgeIsSpared
<1> SUFFICES ASSUME ZapierInv PROVE BridgeIsSpared BY DEF ZapierInv
<1>1. \A s \in sent : s.at \in Int /\ SentFrom(sent, s.at) = {r \in sent : r.at \in s.at .. s.at + RateWindow - 1}
      BY DEF ZapierInv, Spares, SentFrom
<1>2. \A s \in sent : Cardinality({r \in sent : r.at \in s.at .. s.at + RateWindow - 1}) <= 2 * Burst
      BY <1>1 DEF ZapierInv, Spares
<1> QED BY <1>2 DEF ZapierInv, CircuitFollows, BridgeIsSpared

-----------------------------------------------------------------------------
(***************************************************************************)
(* The sessions of the parser. A session is pending as long as the chain   *)
(* has no end of it, and the call that selects a reading is the only one   *)
(* that may make an intent of it.                                          *)
(***************************************************************************)

SessionEvents == {"session_created", "session_expired", "option_selected", "session_cancelled"}
ParserRecords ==
    [session : ParserSessions, event : SessionEvents, option : Options \cup {NoOption}]
ParserIntents == [session : ParserSessions, option : Options]
ActiveParserCalls ==
    [at : {"resolving"}, session : ParserSessions, option : Options]
        \cup [at : {"cancelling"}, session : ParserSessions, option : {NoOption}]
SessionEntries ==
    [status : {"pending", "resolved", "expired", "cancelled"}, expiresAt : Nat]

ParserTyped ==
    /\ DOMAIN activeSessions \subseteq ParserSessions
    /\ activeSessions \in [DOMAIN activeSessions -> SessionEntries]
    /\ auditChain \in Seq(ParserRecords)
    /\ parserCalls \in [ParserCalls -> ActiveParserCalls \cup {IdleParserCall}]
    /\ typedIntents \in Seq(ParserIntents)
    /\ parserClock \in 0 .. MaxParserTime

OneEnd(s) == \A j, k \in EndsOf(s) : j = k
Selected(s, option) ==
    \E k \in EndsOf(s) : auditChain[k].event = "option_selected" /\ auditChain[k].option = option

SessionsAreRecorded ==
    \A s \in DOMAIN activeSessions :
        /\ \E k \in DOMAIN auditChain : auditChain[k].session = s
        /\ activeSessions[s].status = "pending" => EndsOf(s) = {}

CallsAreApart ==
    \A c \in ParserCalls : parserCalls[c].at = "resolving" =>
        /\ Selected(parserCalls[c].session, parserCalls[c].option)
        /\ \A i \in DOMAIN typedIntents : typedIntents[i].session # parserCalls[c].session
        /\ \A d \in ParserCalls : parserCalls[d].at = "resolving"
                /\ parserCalls[d].session = parserCalls[c].session => d = c

IntentsAreSelected ==
    /\ \A i, j \in DOMAIN typedIntents :
          typedIntents[i].session = typedIntents[j].session => i = j
    /\ \A i \in DOMAIN typedIntents : Selected(typedIntents[i].session, typedIntents[i].option)

ParserInv ==
    /\ ParserTyped /\ SessionsAreRecorded /\ CallsAreApart /\ IntentsAreSelected
    /\ \A s \in ParserSessions : OneEnd(s)

LEMMA ParserInitially == DisambiguationInit => ParserInv
<1> SUFFICES ASSUME DisambiguationInit PROVE ParserInv OBVIOUS
<1> USE DEF DisambiguationInit
<1>1. DOMAIN auditChain = {} /\ DOMAIN typedIntents = {} /\ DOMAIN activeSessions = {} OBVIOUS
<1>2. auditChain \in Seq(ParserRecords) /\ typedIntents \in Seq(ParserIntents) BY EmptySeq
<1>3. activeSessions \in [DOMAIN activeSessions -> SessionEntries] BY <1>1
<1>4. parserCalls \in [ParserCalls -> ActiveParserCalls \cup {IdleParserCall}] OBVIOUS
<1>5. parserClock \in 0 .. MaxParserTime BY DisambiguationAssumption
<1>6. \A c \in ParserCalls : parserCalls[c].at = "idle" BY DEF IdleParserCall
<1> QED BY <1>1, <1>2, <1>3, <1>4, <1>5, <1>6
        DEF ParserInv, ParserTyped, SessionsAreRecorded, CallsAreApart, IntentsAreSelected, OneEnd,
            EndsOf

\* A record that is added is an end of its own session, or of none.
LEMMA RecordAdds ==
    ASSUME auditChain \in Seq(ParserRecords), NEW s \in ParserSessions, NEW event \in SessionEvents,
           NEW option \in Options \cup {NoOption}, Recorded(s, event, option)
    PROVE  /\ auditChain' \in Seq(ParserRecords)
           /\ \A k \in DOMAIN auditChain : k \in DOMAIN auditChain' /\ auditChain'[k] = auditChain[k]
           /\ \A t : t # s \/ event = "session_created" => EndsOf(t)' = EndsOf(t)
           /\ \A t, o : Selected(t, o) => Selected(t, o)'
           /\ \E k : /\ k \in DOMAIN auditChain' /\ k \notin DOMAIN auditChain
                     /\ auditChain'[k] = [session |-> s, event |-> event, option |-> option]
                     /\ event # "session_created" => EndsOf(s)' = EndsOf(s) \cup {k}
<1>1. PICK a : a = auditChain OBVIOUS
<1>2. PICK b : b = auditChain' OBVIOUS
<1>3. PICK r : r = [session |-> s, event |-> event, option |-> option] OBVIOUS
<1>4. b = Append(a, r) BY <1>1, <1>2, <1>3 DEF Recorded
<1>5. a \in Seq(ParserRecords) /\ r \in ParserRecords BY <1>1, <1>3 DEF ParserRecords
<1>6. PICK n \in Nat : n = Len(a) /\ DOMAIN a = 1 .. n BY <1>5, LenProperties
<1>7. /\ b \in Seq(ParserRecords) /\ Len(b) = n + 1
      /\ (\A k \in 1 .. n : b[k] = a[k]) /\ b[n + 1] = r
      BY <1>4, <1>5, <1>6, AppendProperties
<1>8. DOMAIN b = 1 .. (n + 1) BY <1>7, LenProperties
<1>9. DOMAIN b = DOMAIN a \cup {n + 1} /\ n + 1 \notin DOMAIN a BY <1>6, <1>8
<1>10. \A k \in DOMAIN a : b[k] = a[k] BY <1>6, <1>7
<1>11. r.session = s /\ r.event = event /\ r.option = option BY <1>3
<1>12. \A t : EndsOf(t) = {k \in DOMAIN a : a[k].session = t /\ a[k].event # "session_created"}
       BY <1>1 DEF EndsOf
<1>13. \A t : EndsOf(t)' = {k \in DOMAIN b : b[k].session = t /\ b[k].event # "session_created"}
       BY <1>2 DEF EndsOf
<1>14. \A t : t # s \/ event = "session_created" => EndsOf(t)' = EndsOf(t)
       BY <1>7, <1>9, <1>10, <1>11, <1>12, <1>13
<1>15. event # "session_created" => EndsOf(s)' = EndsOf(s) \cup {n + 1}
       BY <1>7, <1>9, <1>10, <1>11, <1>12, <1>13
<1>16. \A t, o : Selected(t, o) => Selected(t, o)'
  <2> SUFFICES ASSUME NEW t, NEW o, Selected(t, o) PROVE Selected(t, o)' OBVIOUS
  <2>1. PICK k \in EndsOf(t) : a[k].event = "option_selected" /\ a[k].option = o
        BY <1>1 DEF Selected
  <2>2. k \in DOMAIN a /\ k \in EndsOf(t)' BY <1>9, <1>10, <1>12, <1>13
  <2>3. b[k] = a[k] BY <1>10, <2>2
  <2> QED BY <1>2, <2>1, <2>2, <2>3 DEF Selected
<1>17. \A k \in DOMAIN auditChain : k \in DOMAIN auditChain' /\ auditChain'[k] = auditChain[k]
       BY <1>1, <1>2, <1>9, <1>10
<1>18. n + 1 \in DOMAIN auditChain' /\ n + 1 \notin DOMAIN auditChain /\ auditChain'[n + 1] = r
       BY <1>1, <1>2, <1>7, <1>9
<1> QED BY <1>2, <1>3, <1>7, <1>14, <1>15, <1>16, <1>17, <1>18

LEMMA SessionCreateKeeps ==
    ASSUME ParserInv, NEW s \in ParserSessions, CreateDisambiguationSession(s)
    PROVE  ParserInv'
<1> USE DEF ParserInv, ParserTyped
<1>1. /\ \A k \in DOMAIN auditChain : auditChain[k].session # s
      /\ Recorded(s, "session_created", NoOption)
      /\ UNCHANGED <<parserCalls, typedIntents, parserClock>>
      BY DEF CreateDisambiguationSession
<1>2. PICK A : A = activeSessions OBVIOUS
<1>3. PICK B : B = activeSessions' OBVIOUS
<1>4. PICK x : x = [status |-> "pending", expiresAt |-> parserClock + SessionTtl] OBVIOUS
<1>5. B = [t \in DOMAIN A \cup {s} |-> IF t = s THEN x ELSE A[t]]
      BY <1>2, <1>3, <1>4 DEF CreateDisambiguationSession
<1>6. x \in SessionEntries BY <1>4, DisambiguationAssumption DEF SessionEntries
<1>7. DOMAIN B = DOMAIN A \cup {s} /\ B[s] = x /\ \A t \in DOMAIN A : t # s => B[t] = A[t]
      BY <1>5
<1>8. s \notin DOMAIN A BY <1>1, <1>2 DEF SessionsAreRecorded
<1>9. /\ auditChain' \in Seq(ParserRecords)
      /\ \A k \in DOMAIN auditChain : k \in DOMAIN auditChain' /\ auditChain'[k] = auditChain[k]
      /\ \A t : EndsOf(t)' = EndsOf(t)
      /\ \A t, o : Selected(t, o) => Selected(t, o)'
      /\ \E k : /\ k \in DOMAIN auditChain'
                /\ auditChain'[k] = [session |-> s, event |-> "session_created", option |-> NoOption]
  <2>1. "session_created" \in SessionEvents /\ NoOption \in Options \cup {NoOption}
        BY DEF SessionEvents
  <2> QED BY <1>1, <2>1, RecordAdds
<1>10. EndsOf(s) = {} BY <1>1 DEF EndsOf
<1>11. ParserTyped'
  <2>1. B \in [DOMAIN B -> SessionEntries] /\ DOMAIN B \subseteq ParserSessions
    <3>1. \A t \in DOMAIN A : A[t] \in SessionEntries BY <1>2
    <3>2. \A t \in DOMAIN B : B[t] \in SessionEntries BY <1>6, <1>7, <3>1
    <3>3. B = [t \in DOMAIN B |-> B[t]] BY <1>5
    <3> QED BY <1>2, <1>7, <3>2, <3>3
  <2> QED BY <1>1, <1>3, <1>9, <2>1
<1>12. SessionsAreRecorded'
  <2> SUFFICES ASSUME NEW t \in DOMAIN B
               PROVE  /\ \E k \in DOMAIN auditChain' : auditChain'[k].session = t
                      /\ B[t].status = "pending" => EndsOf(t)' = {}
      BY <1>3 DEF SessionsAreRecorded
  <2>1. CASE t = s BY <1>9, <1>10, <2>1
  <2>2. CASE t # s
    <3>1. t \in DOMAIN A /\ B[t] = A[t] BY <1>7, <2>2
    <3>2. PICK k \in DOMAIN auditChain : auditChain[k].session = t
          BY <1>2, <3>1 DEF SessionsAreRecorded
    <3>3. A[t].status = "pending" => EndsOf(t) = {} BY <1>2, <3>1 DEF SessionsAreRecorded
    <3>4. k \in DOMAIN auditChain' /\ auditChain'[k].session = t BY <1>9, <3>2
    <3> QED BY <1>9, <3>1, <3>3, <3>4
  <2> QED BY <2>1, <2>2
<1>13. CallsAreApart' BY <1>1, <1>9 DEF CallsAreApart
<1>14. IntentsAreSelected' BY <1>1, <1>9 DEF IntentsAreSelected
<1>15. \A t \in ParserSessions : OneEnd(t)' BY <1>9 DEF OneEnd
<1> QED BY <1>11, <1>12, <1>13, <1>14, <1>15

\* What the end of a pending session leaves as it was.
LEMMA EndKeeps ==
    ASSUME ParserInv, NEW s \in DOMAIN activeSessions, IsPending(s),
           NEW event \in SessionEvents \ {"session_created"}, NEW option \in Options \cup {NoOption},
           NEW status \in {"resolved", "expired", "cancelled"},
           Recorded(s, event, option), SetSession(s, status),
           UNCHANGED <<typedIntents, parserClock>>
    PROVE  /\ DOMAIN activeSessions' \subseteq ParserSessions
           /\ activeSessions' \in [DOMAIN activeSessions' -> SessionEntries]
           /\ auditChain' \in Seq(ParserRecords)
           /\ SessionsAreRecorded' /\ IntentsAreSelected'
           /\ \A t \in ParserSessions : OneEnd(t)'
           /\ \A t, o : Selected(t, o) => ~ (t = s)
           /\ \A t, o : Selected(t, o) => Selected(t, o)'
           /\ event = "option_selected" => Selected(s, option)'
<1> USE DEF ParserInv, ParserTyped
<1>1. s \in ParserSessions /\ EndsOf(s) = {} BY DEF SessionsAreRecorded, IsPending
<1>2. /\ auditChain' \in Seq(ParserRecords)
      /\ \A k \in DOMAIN auditChain : k \in DOMAIN auditChain' /\ auditChain'[k] = auditChain[k]
      /\ \A t : t # s => EndsOf(t)' = EndsOf(t)
      /\ \A t, o : Selected(t, o) => Selected(t, o)'
      BY <1>1, RecordAdds
<1>3. PICK k : /\ k \in DOMAIN auditChain'
               /\ auditChain'[k] = [session |-> s, event |-> event, option |-> option]
               /\ EndsOf(s)' = EndsOf(s) \cup {k}
      BY <1>1, RecordAdds
<1>4. PICK A : A = activeSessions OBVIOUS
<1>5. PICK B : B = activeSessions' OBVIOUS
<1>6. /\ DOMAIN B = DOMAIN A /\ (\A t \in DOMAIN A : t # s => B[t] = A[t])
      /\ B[s].status = status /\ B[s].expiresAt = A[s].expiresAt
      /\ B \in [DOMAIN B -> SessionEntries]
  <2>1. B = [A EXCEPT ![s].status = status] BY <1>4, <1>5 DEF SetSession
  <2>2. A \in [DOMAIN A -> SessionEntries] /\ s \in DOMAIN A BY <1>4
  <2>3. A[s] \in SessionEntries BY <2>2
  <2>4. [A[s] EXCEPT !.status = status] \in SessionEntries BY <2>3 DEF SessionEntries
  <2>5. /\ [A[s] EXCEPT !.status = status].status = status
        /\ [A[s] EXCEPT !.status = status].expiresAt = A[s].expiresAt
        BY <2>3 DEF SessionEntries
  <2>6. B[s] = [A[s] EXCEPT !.status = status] BY <2>1, <2>2
  <2> QED BY <2>1, <2>2, <2>4, <2>5, <2>6
<1>7. SessionsAreRecorded'
  <2> SUFFICES ASSUME NEW t \in DOMAIN B
               PROVE  /\ \E j \in DOMAIN auditChain' : auditChain'[j].session = t
                      /\ B[t].status = "pending" => EndsOf(t)' = {}
      BY <1>5 DEF SessionsAreRecorded
  <2>1. PICK j \in DOMAIN auditChain : auditChain[j].session = t
        BY <1>4, <1>6 DEF SessionsAreRecorded
  <2>2. j \in DOMAIN auditChain' /\ auditChain'[j].session = t BY <1>2, <2>1
  <2>3. B[t].status = "pending" => EndsOf(t)' = {}
    <3>1. CASE t = s BY <1>6, <3>1
    <3>2. CASE t # s
      <4>1. B[t] = A[t] /\ EndsOf(t)' = EndsOf(t) BY <1>2, <1>6, <3>2
      <4> QED BY <1>4, <1>6, <4>1 DEF SessionsAreRecorded
    <3> QED BY <3>1, <3>2
  <2> QED BY <2>2, <2>3
<1>8. IntentsAreSelected' BY <1>2 DEF IntentsAreSelected
<1>9. \A t \in ParserSessions : OneEnd(t)'
  <2> SUFFICES ASSUME NEW t \in ParserSessions PROVE OneEnd(t)' OBVIOUS
  <2>1. CASE t = s BY <1>1, <1>3, <2>1 DEF OneEnd
  <2>2. CASE t # s BY <1>2, <2>2 DEF OneEnd
  <2> QED BY <2>1, <2>2
<1>10. \A t, o : Selected(t, o) => ~ (t = s) BY <1>1 DEF Selected
<1>11. event = "option_selected" => Selected(s, option)' BY <1>3 DEF Selected
<1> QED BY <1>2, <1>4, <1>5, <1>6, <1>7, <1>8, <1>9, <1>10, <1>11

LEMMA ResolveKeeps ==
    ASSUME ParserInv, NEW c \in ParserCalls, NEW s \in DOMAIN activeSessions,
           NEW option \in Options, Resolve(c, s, option)
    PROVE  ParserInv'
<1> USE DEF ParserInv, ParserTyped
<1>1. IsPending(s) /\ UNCHANGED <<typedIntents, parserClock>> /\ s \in ParserSessions
      BY DEF Resolve, IsOpen
<1>2. CASE HasExpired(s)
  <2>1. SetSession(s, "expired") /\ Recorded(s, "session_expired", NoOption) /\ UNCHANGED parserCalls
        BY <1>2 DEF Resolve
  <2>2. "session_expired" \in SessionEvents \ {"session_created"} BY DEF SessionEvents
  <2>3. /\ DOMAIN activeSessions' \subseteq ParserSessions
        /\ activeSessions' \in [DOMAIN activeSessions' -> SessionEntries]
        /\ auditChain' \in Seq(ParserRecords)
        /\ SessionsAreRecorded' /\ IntentsAreSelected'
        /\ \A t \in ParserSessions : OneEnd(t)'
        /\ \A t, o : Selected(t, o) => Selected(t, o)'
        BY <1>1, <2>1, <2>2, EndKeeps
  <2>4. CallsAreApart' BY <1>1, <2>1, <2>3 DEF CallsAreApart
  <2> QED BY <1>1, <2>1, <2>3, <2>4
<1>3. CASE ~HasExpired(s)
  <2>1. PICK call : call = [at |-> "resolving", session |-> s, option |-> option] OBVIOUS
  <2>2. /\ SetSession(s, "resolved") /\ Recorded(s, "option_selected", option)
        /\ parserCalls' = [parserCalls EXCEPT ![c] = call]
        BY <1>3, <2>1 DEF Resolve
  <2>3. "option_selected" \in SessionEvents \ {"session_created"} BY DEF SessionEvents
  <2>4. /\ DOMAIN activeSessions' \subseteq ParserSessions
        /\ activeSessions' \in [DOMAIN activeSessions' -> SessionEntries]
        /\ auditChain' \in Seq(ParserRecords)
        /\ SessionsAreRecorded' /\ IntentsAreSelected'
        /\ \A t \in ParserSessions : OneEnd(t)'
        /\ \A t, o : Selected(t, o) => ~ (t = s)
        /\ \A t, o : Selected(t, o) => Selected(t, o)'
        /\ Selected(s, option)'
        BY <1>1, <2>2, <2>3, EndKeeps
  <2>5. call \in ActiveParserCalls /\ call.at = "resolving" /\ call.session = s
        /\ call.option = option
        BY <1>1, <2>1 DEF ActiveParserCalls
  <2>6. /\ parserCalls' \in [ParserCalls -> ActiveParserCalls \cup {IdleParserCall}]
        /\ parserCalls'[c] = call /\ \A d \in ParserCalls : d # c => parserCalls'[d] = parserCalls[d]
        BY <2>2, <2>5
  <2>7. \A d \in ParserCalls : parserCalls[d].at = "resolving" => parserCalls[d].session # s
        BY <2>4 DEF CallsAreApart
  <2>8. \A i \in DOMAIN typedIntents : typedIntents[i].session # s
        BY <2>4 DEF IntentsAreSelected
  <2>9. CallsAreApart'
    <3> SUFFICES ASSUME NEW d \in ParserCalls, parserCalls'[d].at = "resolving"
                 PROVE  /\ Selected(parserCalls[d].session, parserCalls[d].option)'
                        /\ \A i \in DOMAIN typedIntents :
                              typedIntents[i].session # parserCalls'[d].session
                        /\ \A e \in ParserCalls : parserCalls'[e].at = "resolving"
                              /\ parserCalls'[e].session = parserCalls'[d].session => e = d
        BY <1>1 DEF CallsAreApart
    <3>1. CASE d = c BY <2>4, <2>5, <2>6, <2>7, <2>8, <3>1
    <3>2. CASE d # c
      <4>1. /\ parserCalls'[d] = parserCalls[d] /\ parserCalls[d].session # s
            /\ parserCalls[d].at = "resolving"
            BY <2>6, <2>7, <3>2
      <4> PICK t, o : t = parserCalls[d].session /\ o = parserCalls[d].option OBVIOUS
      <4>2. /\ Selected(t, o)
            /\ \A i \in DOMAIN typedIntents : typedIntents[i].session # parserCalls[d].session
            /\ \A e \in ParserCalls : parserCalls[e].at = "resolving"
                  /\ parserCalls[e].session = parserCalls[d].session => e = d
            BY <4>1 DEF CallsAreApart
      <4>3. Selected(t, o)' BY <2>4, <4>2
      <4>4. Selected(parserCalls[d].session, parserCalls[d].option)' BY <4>1, <4>3
      <4>5. \A e \in ParserCalls : parserCalls'[e].at = "resolving"
               /\ parserCalls'[e].session = parserCalls'[d].session => e = d
            BY <2>5, <2>6, <4>1, <4>2
      <4> QED BY <4>1, <4>2, <4>4, <4>5
    <3> QED BY <3>1, <3>2
  <2> QED BY <1>1, <2>4, <2>6, <2>9
<1> QED BY <1>2, <1>3

LEMMA CancelKeeps ==
    ASSUME ParserInv, NEW c \in ParserCalls, NEW s \in DOMAIN activeSessions, CancelSession(c, s)
    PROVE  ParserInv'
<1> USE DEF ParserInv, ParserTyped
<1>1. IsPending(s) /\ UNCHANGED <<typedIntents, parserClock>> /\ s \in ParserSessions
      BY DEF CancelSession, IsOpen
<1>2. PICK call : call = [at |-> "cancelling", session |-> s, option |-> NoOption] OBVIOUS
<1>3. /\ SetSession(s, "cancelled") /\ Recorded(s, "session_cancelled", NoOption)
      /\ parserCalls' = [parserCalls EXCEPT ![c] = call]
      BY <1>2 DEF CancelSession
<1>4. "session_cancelled" \in SessionEvents \ {"session_created"} BY DEF SessionEvents
<1>5. /\ DOMAIN activeSessions' \subseteq ParserSessions
      /\ activeSessions' \in [DOMAIN activeSessions' -> SessionEntries]
      /\ auditChain' \in Seq(ParserRecords)
      /\ SessionsAreRecorded' /\ IntentsAreSelected'
      /\ \A t \in ParserSessions : OneEnd(t)'
      /\ \A t, o : Selected(t, o) => Selected(t, o)'
      BY <1>1, <1>3, <1>4, EndKeeps
<1>6. call \in ActiveParserCalls /\ call.at # "resolving" BY <1>1, <1>2 DEF ActiveParserCalls
<1>7. /\ parserCalls' \in [ParserCalls -> ActiveParserCalls \cup {IdleParserCall}]
      /\ parserCalls'[c] = call /\ \A d \in ParserCalls : d # c => parserCalls'[d] = parserCalls[d]
      BY <1>3, <1>6
<1>8. CallsAreApart'
  <2>1. \A d \in ParserCalls : parserCalls'[d].at = "resolving" => parserCalls'[d] = parserCalls[d]
        BY <1>6, <1>7
  <2> QED BY <1>1, <1>5, <2>1 DEF CallsAreApart
<1> QED BY <1>1, <1>5, <1>7, <1>8

\* A session that is forgotten leaves the others as they are.
LEMMA ForgetKeeps ==
    ASSUME ParserInv, NEW s, Forget(s), UNCHANGED auditChain
    PROVE  /\ DOMAIN activeSessions' \subseteq ParserSessions
           /\ activeSessions' \in [DOMAIN activeSessions' -> SessionEntries]
           /\ SessionsAreRecorded'
<1>1. PICK A : A = activeSessions OBVIOUS
<1>2. PICK B : B = activeSessions' OBVIOUS
<1>3. B = [t \in DOMAIN A \ {s} |-> A[t]] BY <1>1, <1>2 DEF Forget, Restrict
<1>4. DOMAIN B = DOMAIN A \ {s} /\ \A t \in DOMAIN B : B[t] = A[t] BY <1>3
<1>5. \A t \in DOMAIN A : A[t] \in SessionEntries BY <1>1 DEF ParserInv, ParserTyped
<1>6. B \in [DOMAIN B -> SessionEntries]
  <2>1. \A t \in DOMAIN B : B[t] \in SessionEntries BY <1>4, <1>5
  <2>2. B = [t \in DOMAIN B |-> B[t]] BY <1>3
  <2> QED BY <2>1, <2>2
<1>7. SessionsAreRecorded'
  <2> SUFFICES ASSUME NEW t \in DOMAIN B
               PROVE  /\ \E k \in DOMAIN auditChain : auditChain[k].session = t
                      /\ B[t].status = "pending" => EndsOf(t)' = {}
      BY <1>2 DEF SessionsAreRecorded
  <2>1. EndsOf(t)' = EndsOf(t) BY DEF EndsOf
  <2> QED BY <1>1, <1>4, <2>1 DEF ParserInv, SessionsAreRecorded
<1> QED BY <1>1, <1>2, <1>4, <1>6, <1>7 DEF ParserInv, ParserTyped

LEMMA ResolveReturnsKeeps ==
    ASSUME ParserInv, NEW c \in ParserCalls, ResolveReturns(c)
    PROVE  ParserInv'
<1> USE DEF ParserInv, ParserTyped
<1>1. /\ parserCalls[c].at = "resolving" /\ parserCalls' = [parserCalls EXCEPT ![c] = IdleParserCall]
      /\ UNCHANGED <<auditChain, parserClock>>
      BY DEF ResolveReturns
<1>2. PICK s : s = parserCalls[c].session OBVIOUS
<1>3. PICK o : o = parserCalls[c].option OBVIOUS
<1>4. s \in ParserSessions /\ o \in Options
  <2>1. parserCalls[c] \in ActiveParserCalls \cup {IdleParserCall} OBVIOUS
  <2> QED BY <1>1, <1>2, <1>3, <2>1 DEF ActiveParserCalls, IdleParserCall
<1>5. /\ parserCalls' \in [ParserCalls -> ActiveParserCalls \cup {IdleParserCall}]
      /\ parserCalls'[c].at = "idle"
      /\ \A d \in ParserCalls : d # c => parserCalls'[d] = parserCalls[d]
      BY <1>1 DEF IdleParserCall
<1>6. \A t, p : Selected(t, p)' <=> Selected(t, p) BY <1>1 DEF Selected, EndsOf
<1>7. \A t \in ParserSessions : OneEnd(t)' BY <1>1 DEF OneEnd, EndsOf
<1>8. CASE UNCHANGED <<typedIntents, activeSessions>>
  <2>1. SessionsAreRecorded' BY <1>1, <1>8 DEF SessionsAreRecorded, EndsOf
  <2>2. IntentsAreSelected' BY <1>6, <1>8 DEF IntentsAreSelected
  <2>3. CallsAreApart'
    <3>1. \A d \in ParserCalls : parserCalls'[d].at = "resolving" => parserCalls'[d] = parserCalls[d]
          BY <1>5
    <3> QED BY <1>6, <1>8, <3>1 DEF CallsAreApart
  <2> QED BY <1>1, <1>5, <1>7, <1>8, <2>1, <2>2, <2>3
<1>9. CASE /\ typedIntents' = Append(typedIntents, [session |-> parserCalls[c].session,
                                                    option |-> parserCalls[c].option])
           /\ Forget(parserCalls[c].session)
  <2>1. /\ DOMAIN activeSessions' \subseteq ParserSessions
        /\ activeSessions' \in [DOMAIN activeSessions' -> SessionEntries]
        /\ SessionsAreRecorded'
        BY <1>1, <1>2, <1>9, ForgetKeeps
  <2>2. PICK a : a = typedIntents OBVIOUS
  <2>3. PICK b : b = typedIntents' OBVIOUS
  <2>4. PICK r : r = [session |-> s, option |-> o] OBVIOUS
  <2>5. b = Append(a, r) /\ a \in Seq(ParserIntents) /\ r \in ParserIntents
        BY <1>2, <1>3, <1>4, <1>9, <2>2, <2>3, <2>4 DEF ParserIntents
  <2>6. PICK n \in Nat : n = Len(a) /\ DOMAIN a = 1 .. n BY <2>5, LenProperties
  <2>7. /\ b \in Seq(ParserIntents) /\ Len(b) = n + 1
        /\ (\A k \in 1 .. n : b[k] = a[k]) /\ b[n + 1] = r
        BY <2>5, <2>6, AppendProperties
  <2>8. DOMAIN b = DOMAIN a \cup {n + 1} BY <2>6, <2>7, LenProperties
  <2>9. r.session = s /\ r.option = o BY <2>4
  <2>10. \A k \in DOMAIN b : (k \in DOMAIN a /\ b[k] = a[k]) \/ (k = n + 1 /\ b[k] = r)
         BY <2>6, <2>7, <2>8
  <2>11. Selected(s, o) /\ (\A i \in DOMAIN a : a[i].session # s)
         /\ \A d \in ParserCalls : parserCalls[d].at = "resolving"
                /\ parserCalls[d].session = s => d = c
         BY <1>1, <1>2, <1>3, <2>2 DEF CallsAreApart
  <2>12. IntentsAreSelected'
    <3>1. \A i, j \in DOMAIN b : b[i].session = b[j].session => i = j
      <4>1. \A i, j \in DOMAIN a : a[i].session = a[j].session => i = j
            BY <2>2 DEF IntentsAreSelected
      <4> QED BY <2>9, <2>10, <2>11, <4>1
    <3>2. ASSUME NEW i \in DOMAIN b PROVE Selected(b[i].session, b[i].option)'
      <4>1. CASE i \in DOMAIN a /\ b[i] = a[i]
        <5>1. Selected(a[i].session, a[i].option) BY <2>2, <4>1 DEF IntentsAreSelected
        <5> QED BY <1>6, <4>1, <5>1
      <4>2. CASE b[i] = r BY <1>6, <2>9, <2>11, <4>2
      <4> QED BY <2>10, <4>1, <4>2
    <3> QED BY <2>3, <3>1, <3>2 DEF IntentsAreSelected
  <2>13. CallsAreApart'
    <3> SUFFICES ASSUME NEW d \in ParserCalls, parserCalls'[d].at = "resolving"
                 PROVE  /\ Selected(parserCalls[d].session, parserCalls[d].option)'
                        /\ \A i \in DOMAIN b : b[i].session # parserCalls'[d].session
                        /\ \A e \in ParserCalls : parserCalls'[e].at = "resolving"
                              /\ parserCalls'[e].session = parserCalls'[d].session => e = d
        BY <2>3 DEF CallsAreApart
    <3>1. d # c /\ parserCalls'[d] = parserCalls[d] /\ parserCalls[d].at = "resolving" BY <1>5
    <3>2. parserCalls[d].session # s BY <2>11, <3>1
    <3> PICK t, p : t = parserCalls[d].session /\ p = parserCalls[d].option OBVIOUS
    <3>3. /\ Selected(t, p)
          /\ \A i \in DOMAIN a : a[i].session # parserCalls[d].session
          /\ \A e \in ParserCalls : parserCalls[e].at = "resolving"
                /\ parserCalls[e].session = parserCalls[d].session => e = d
          BY <2>2, <3>1 DEF CallsAreApart
    <3>4. \A i \in DOMAIN b : b[i].session # parserCalls[d].session
          BY <2>9, <2>10, <3>2, <3>3
    <3>5. \A e \in ParserCalls : parserCalls'[e].at = "resolving" => parserCalls'[e] = parserCalls[e]
          BY <1>5
    <3>6. Selected(t, p)' BY <1>6, <3>3
    <3>7. Selected(parserCalls[d].session, parserCalls[d].option)' BY <3>1, <3>6
    <3> QED BY <3>1, <3>3, <3>4, <3>5, <3>7
  <2> QED BY <1>1, <1>5, <1>7, <2>1, <2>3, <2>7, <2>12, <2>13
<1> QED BY <1>8, <1>9 DEF ResolveReturns

LEMMA CancelReturnsKeeps ==
    ASSUME ParserInv, NEW c \in ParserCalls, CancelReturns(c)
    PROVE  ParserInv'
<1> USE DEF ParserInv, ParserTyped
<1>1. /\ Forget(parserCalls[c].session) /\ parserCalls' = [parserCalls EXCEPT ![c] = IdleParserCall]
      /\ UNCHANGED <<auditChain, typedIntents, parserClock>>
      BY DEF CancelReturns
<1>2. PICK s : s = parserCalls[c].session OBVIOUS
<1>3. /\ DOMAIN activeSessions' \subseteq ParserSessions
      /\ activeSessions' \in [DOMAIN activeSessions' -> SessionEntries]
      /\ SessionsAreRecorded'
      BY <1>1, <1>2, ForgetKeeps
<1>4. /\ parserCalls' \in [ParserCalls -> ActiveParserCalls \cup {IdleParserCall}]
      /\ parserCalls'[c].at = "idle"
      /\ \A d \in ParserCalls : d # c => parserCalls'[d] = parserCalls[d]
      BY <1>1 DEF IdleParserCall
<1>5. \A t, p : Selected(t, p)' <=> Selected(t, p) BY <1>1 DEF Selected, EndsOf
<1>6. \A t \in ParserSessions : OneEnd(t)' BY <1>1 DEF OneEnd, EndsOf
<1>7. IntentsAreSelected' BY <1>1, <1>5 DEF IntentsAreSelected
<1>8. CallsAreApart'
  <2>1. \A d \in ParserCalls : parserCalls'[d].at = "resolving" => parserCalls'[d] = parserCalls[d]
        BY <1>4
  <2> QED BY <1>1, <1>5, <2>1 DEF CallsAreApart
<1> QED BY <1>1, <1>3, <1>4, <1>6, <1>7, <1>8

LEMMA ParserStep == ParserInv /\ [DisambiguationNext]_parserVars => ParserInv'
<1> SUFFICES ASSUME ParserInv, [DisambiguationNext]_parserVars PROVE ParserInv' OBVIOUS
<1>1. ASSUME NEW s \in ParserSessions, CreateDisambiguationSession(s) PROVE ParserInv'
      BY <1>1, SessionCreateKeeps
<1>2. ASSUME NEW c \in ParserCalls, NEW s \in DOMAIN activeSessions, NEW option \in Options,
             Resolve(c, s, option)
      PROVE  ParserInv'
      BY <1>2, ResolveKeeps
<1>3. ASSUME NEW c \in ParserCalls, NEW s \in DOMAIN activeSessions, CancelSession(c, s)
      PROVE  ParserInv'
      BY <1>3, CancelKeeps
<1>4. ASSUME NEW c \in ParserCalls, ResolveReturns(c) PROVE ParserInv' BY <1>4, ResolveReturnsKeeps
<1>5. ASSUME NEW c \in ParserCalls, CancelReturns(c) PROVE ParserInv' BY <1>5, CancelReturnsKeeps
<1>6. CASE ParserTick \/ UNCHANGED parserVars
  <2>1. /\ UNCHANGED <<activeSessions, auditChain, parserCalls, typedIntents>>
        /\ parserClock' \in 0 .. MaxParserTime
        BY <1>6, DisambiguationAssumption DEF ParserTick, parserVars, ParserInv, ParserTyped
  <2>2. ParserTyped' BY <2>1 DEF ParserInv, ParserTyped
  <2>3. SessionsAreRecorded' BY <2>1 DEF ParserInv, SessionsAreRecorded, EndsOf
  <2>4. CallsAreApart' BY <2>1 DEF ParserInv, CallsAreApart, Selected, EndsOf
  <2>5. IntentsAreSelected' BY <2>1 DEF ParserInv, IntentsAreSelected, Selected, EndsOf
  <2>6. \A s \in ParserSessions : OneEnd(s)' BY <2>1 DEF ParserInv, OneEnd, EndsOf
  <2> QED BY <2>2, <2>3, <2>4, <2>5, <2>6 DEF ParserInv
<1> QED BY <1>1, <1>2, <1>3, <1>4, <1>5, <1>6 DEF DisambiguationNext

LEMMA ParserAlways == DisambiguationInit /\ [][DisambiguationNext]_parserVars => []ParserInv
BY ParserInitially, ParserStep, PTL

LEMMA SessionsHold == ParserInv => DisambiguationTypeOK /\ SessionEndsOnce
<1> SUFFICES ASSUME ParserInv PROVE DisambiguationTypeOK /\ SessionEndsOnce OBVIOUS
<1>1. DisambiguationTypeOK
  <2>1. \A s \in DOMAIN activeSessions : activeSessions[s] \in SessionEntries
        BY DEF ParserInv, ParserTyped
  <2>2. \A c \in ParserCalls : parserCalls[c] \in ActiveParserCalls \cup {IdleParserCall}
        BY DEF ParserInv, ParserTyped
  <2>3. \A s \in DOMAIN activeSessions :
            activeSessions[s].status \in {"pending", "resolved", "expired", "cancelled"}
        BY <2>1 DEF SessionEntries
  <2>4. \A c \in ParserCalls : parserCalls[c].at \in {"idle", "resolving", "cancelling"}
        BY <2>2 DEF ActiveParserCalls, IdleParserCall
  <2> QED BY <2>3, <2>4 DEF DisambiguationTypeOK, ParserInv, ParserTyped
<1>2. ASSUME NEW s \in ParserSessions PROVE Cardinality(EndsOf(s)) <= 1
  <2>1. \A j, k \in EndsOf(s) : j = k BY DEF ParserInv, OneEnd
  <2>2. CASE EndsOf(s) = {} BY <2>2, FS_EmptySet
  <2>3. CASE EndsOf(s) # {}
    <3>1. PICK k : EndsOf(s) = {k} BY <2>1, <2>3
    <3> QED BY <3>1, FS_Singleton
  <2> QED BY <2>2, <2>3
<1>3. IntentsAreSelected BY DEF ParserInv
<1> QED BY <1>1, <1>2, <1>3 DEF SessionEndsOnce, IntentsAreSelected, Selected

-----------------------------------------------------------------------------
(***************************************************************************)
(* The versions of a rule. Numbers grow as long as none but the first is   *)
(* made by "created", which starts again from the same number: every other *)
(* change takes the last number further.                                   *)
(***************************************************************************)

\* A set of numbers that is not empty has a least one.
LEMMA LeastNumber ==
    ASSUME NEW S, S \subseteq Nat, S # {}
    PROVE  \E m \in S : \A n \in S : m <= n
<1>1. IsWellFoundedOn(OpToRel(<, Nat), Nat) BY NatLessThanWellFounded
<1>2. PICK m \in S : \A n \in S : ~ (<<n, m>> \in OpToRel(<, Nat)) BY <1>1, WFMin
<1>3. \A n \in S : ~ (n < m) BY <1>2 DEF OpToRel
<1> QED BY <1>3

ChangeTypes == {"created", "updated", "deleted", "rollback"}
VersionNumbers == Nat \X Nat \X Nat
RuleVersions ==
    [version : VersionNumbers, content : Contents, changeType : ChangeTypes, approved : BOOLEAN]

VersionsTyped == ruleVersions \in Seq(RuleVersions) /\ Len(ruleVersions) <= MaxHistory
CreatedOnce(s) == \A k \in DOMAIN s : k > 1 => s[k].changeType # "created"
Ascending(s) == \A j, k \in DOMAIN s : j < k => Older(s[j].version, s[k].version)

VersioningInv ==
    /\ VersionsTyped
    /\ CreatedOnce(ruleVersions) =>
          /\ Ascending(ruleVersions)
          /\ ruleVersions # <<>> => currentVersion = LastVersion.version

LEMMA VersioningInitially == VersioningInit => VersioningInv
BY PolicyVersioningAssumption, EmptySeq
   DEF VersioningInit, VersioningInv, VersionsTyped, CreatedOnce, Ascending

\* The number of a version that a rule has names one.
LEMMA VersionIsFound ==
    ASSUME VersioningInv, NEW n, Named(n) # {}
    PROVE  /\ GetVersion(n) \in DOMAIN ruleVersions
           /\ ruleVersions[GetVersion(n)] \in RuleVersions
<1>1. ruleVersions \in Seq(RuleVersions) BY DEF VersioningInv, VersionsTyped
<1>2. Named(n) \subseteq Nat BY <1>1 DEF Named
<1>3. \E k \in Named(n) : \A j \in Named(n) : k <= j BY <1>2, LeastNumber
<1>4. GetVersion(n) \in Named(n) BY <1>3 DEF GetVersion
<1> QED BY <1>1, <1>4 DEF Named

LEMMA CreateVersionKeeps ==
    ASSUME VersioningInv, NEW content \in Contents, NEW changeType \in ChangeTypes,
           CreateVersion(content, changeType)
    PROVE  VersioningInv'
<1>1. PICK old : old = ruleVersions OBVIOUS
<1>2. PICK next : next = CalculateNextVersion(changeType) OBVIOUS
<1>3. PICK e : e = [version |-> next, content |-> content, changeType |-> changeType,
                    approved |-> FALSE]
      OBVIOUS
<1>4. PICK new : new = ruleVersions' OBVIOUS
<1>5. old \in Seq(RuleVersions) /\ Len(old) < MaxHistory /\ Len(old) \in Nat
      BY <1>1 DEF VersioningInv, VersionsTyped, CreateVersion
<1>6. new = Append(old, e) /\ currentVersion' = next
      BY <1>1, <1>2, <1>3, <1>4 DEF CreateVersion
<1>7. old # <<>> => Len(old) \in DOMAIN old /\ LastVersion = old[Len(old)]
                    /\ old[Len(old)] \in RuleVersions
      BY <1>1, <1>5, EmptySeq DEF LastVersion
<1>8. next \in VersionNumbers
      /\ (old # <<>> /\ changeType # "created" => Older(old[Len(old)].version, next))
  <2>1. CASE old = <<>> \/ changeType = "created"
        BY <1>1, <1>2, <2>1 DEF CalculateNextVersion, First, VersionNumbers
  <2>2. CASE old # <<>> /\ changeType # "created"
    <3>1. PICK n \in VersionNumbers : n = old[Len(old)].version
          BY <1>7, <2>2 DEF RuleVersions
    <3>2. /\ changeType = "updated" => next = <<n[1], n[2] + 1, 0>>
          /\ changeType = "rollback" => next = <<n[1], n[2], n[3] + 1>>
          /\ changeType = "deleted" => next = <<n[1] + 1, 0, 0>>
          BY <1>1, <1>2, <1>7, <2>2, <3>1 DEF CalculateNextVersion
    <3>3. n[1] \in Nat /\ n[2] \in Nat /\ n[3] \in Nat BY <3>1 DEF VersionNumbers
    <3>4. changeType \in {"updated", "rollback", "deleted"} BY <2>2 DEF ChangeTypes
    <3> QED BY <3>1, <3>2, <3>3, <3>4 DEF Older, VersionNumbers
  <2> QED BY <2>1, <2>2
<1>9. e \in RuleVersions BY <1>3, <1>8 DEF RuleVersions
<1>10. /\ new \in Seq(RuleVersions) /\ Len(new) = Len(old) + 1 /\ new[Len(old) + 1] = e
       /\ \A k \in 1 .. Len(old) : new[k] = old[k]
       BY <1>5, <1>6, <1>9, AppendProperties
<1>11. VersionsTyped' BY <1>4, <1>5, <1>10, PolicyVersioningAssumption DEF VersionsTyped
<1>12. DOMAIN new = 1 .. Len(old) + 1 /\ DOMAIN old = 1 .. Len(old)
       BY <1>5, <1>10, LenProperties
<1>13. LastVersion' = e BY <1>4, <1>10 DEF LastVersion
<1>14. ASSUME CreatedOnce(new) PROVE Ascending(new)
  <2>1. CreatedOnce(old) BY <1>5, <1>10, <1>12, <1>14 DEF CreatedOnce
  <2>2. Ascending(old) BY <1>1, <2>1 DEF VersioningInv
  <2>3. old # <<>> => changeType # "created"
    <3>1. old # <<>> => Len(old) + 1 > 1 /\ Len(old) + 1 \in DOMAIN new
          BY <1>5, <1>7, <1>12
    <3> QED BY <1>3, <1>10, <1>14, <3>1 DEF CreatedOnce
  <2>4. SUFFICES ASSUME NEW j \in DOMAIN new, NEW k \in DOMAIN new, j < k
                 PROVE  Older(new[j].version, new[k].version)
        BY DEF Ascending
  <2>5. j \in DOMAIN old /\ new[j] = old[j] BY <1>5, <1>10, <1>12, <2>4
  <2>6. CASE k \in DOMAIN old BY <1>10, <1>12, <2>2, <2>4, <2>5, <2>6 DEF Ascending
  <2>7. CASE k \notin DOMAIN old
    <3>1. k = Len(old) + 1 /\ new[k].version = next BY <1>3, <1>5, <1>10, <1>12, <2>7
    <3>2. old # <<>> BY <1>5, <1>12, <2>5, EmptySeq
    <3>3. PICK l \in VersionNumbers : l = old[Len(old)].version BY <1>7, <3>2 DEF RuleVersions
    <3>4. Older(l, next) BY <1>8, <2>3, <3>2, <3>3
    <3>5. PICK i \in VersionNumbers : i = old[j].version
      <4>1. old[j] \in RuleVersions BY <1>5, <1>12, <2>5, ElementOfSeq
      <4> QED BY <4>1 DEF RuleVersions
    <3>6. i = l \/ Older(i, l)
      <4>1. j = Len(old) \/ j < Len(old) BY <1>5, <1>12, <2>5
      <4> QED BY <1>7, <2>2, <2>5, <3>2, <3>3, <3>5, <4>1 DEF Ascending
    <3>7. Older(i, next)
      <4>1. PICK m \in VersionNumbers : m = next BY <1>8
      <4>2. /\ i[1] \in Nat /\ i[2] \in Nat /\ i[3] \in Nat
            /\ l[1] \in Nat /\ l[2] \in Nat /\ l[3] \in Nat
            /\ m[1] \in Nat /\ m[2] \in Nat /\ m[3] \in Nat
            BY DEF VersionNumbers
      <4> QED BY <3>4, <3>6, <4>1, <4>2 DEF Older
    <3> QED BY <2>5, <3>1, <3>5, <3>7
  <2> QED BY <2>6, <2>7
<1>15. new # <<>> => currentVersion' = LastVersion'.version BY <1>3, <1>6, <1>13
<1> QED BY <1>4, <1>11, <1>14, <1>15 DEF VersioningInv

LEMMA RollbackKeeps ==
    ASSUME VersioningInv, NEW n, Rollback(n) PROVE VersioningInv'
<1>1. PICK content \in Contents : content = ruleVersions[GetVersion(n)].content
      BY VersionIsFound DEF Rollback, RuleVersions
<1> QED BY <1>1, CreateVersionKeeps DEF Rollback, ChangeTypes

LEMMA ApproveVersionKeeps ==
    ASSUME VersioningInv, NEW n, ApproveVersion(n) PROVE VersioningInv'
<1>1. PICK k : k = GetVersion(n) OBVIOUS
<1>2. PICK old : old = ruleVersions OBVIOUS
<1>3. PICK new : new = ruleVersions' OBVIOUS
<1>4. k \in DOMAIN old /\ old \in Seq(RuleVersions) /\ old[k] \in RuleVersions
      /\ Len(old) <= MaxHistory
      BY <1>1, <1>2, VersionIsFound DEF ApproveVersion, VersioningInv, VersionsTyped
<1>5. new = [old EXCEPT ![k].approved = TRUE] BY <1>1, <1>2, <1>3 DEF ApproveVersion
<1>6. PICK e : e = [old[k] EXCEPT !.approved = TRUE] OBVIOUS
<1>7. e \in RuleVersions /\ e.version = old[k].version /\ e.changeType = old[k].changeType
      BY <1>4, <1>6 DEF RuleVersions
<1>8. new = [old EXCEPT ![k] = e] BY <1>5, <1>6
<1>9. k \in 1 .. Len(old) BY <1>4, LenProperties
<1>10. /\ new \in Seq(RuleVersions) /\ Len(new) = Len(old) /\ DOMAIN new = DOMAIN old
       /\ \A j \in DOMAIN old : new[j].version = old[j].version
                                /\ new[j].changeType = old[j].changeType
  <2>1. /\ new \in Seq(RuleVersions) /\ Len(new) = Len(old)
        /\ \A j \in 1 .. Len(old) : new[j] = IF j = k THEN e ELSE old[j]
        BY <1>4, <1>7, <1>8, <1>9, ExceptSeq
  <2> QED BY <1>4, <1>7, <2>1, LenProperties
<1>11. CreatedOnce(new) => CreatedOnce(old) BY <1>10 DEF CreatedOnce
<1>12. Ascending(old) => Ascending(new) BY <1>10 DEF Ascending
<1>13. LastVersion'.version = LastVersion.version /\ old # <<>>
  <2>1. Len(old) \in DOMAIN old BY <1>4, <1>9, LenProperties
  <2> QED BY <1>2, <1>3, <1>9, <1>10, <2>1, EmptySeq DEF LastVersion
<1>14. currentVersion' = currentVersion BY DEF ApproveVersion
<1> QED BY <1>2, <1>3, <1>4, <1>10, <1>11, <1>12, <1>13, <1>14 DEF VersioningInv, VersionsTyped

LEMMA VersioningStep == VersioningInv /\ [VersioningNext]_versioningVars => VersioningInv'
<1> SUFFICES ASSUME VersioningInv, [VersioningNext]_versioningVars PROVE VersioningInv' OBVIOUS
<1>1. CASE UNCHANGED versioningVars
      BY <1>1 DEF versioningVars, VersioningInv, VersionsTyped, LastVersion
<1>2. ASSUME NEW n, RejectVersion(n) PROVE VersioningInv'
  <2>1. PICK m : Rollback(m) BY <1>2 DEF RejectVersion
  <2> QED BY <2>1, RollbackKeeps
<1>3. ASSUME NEW k \in DOMAIN ruleVersions,
             LET n == ruleVersions[k].version IN Rollback(n) \/ ApproveVersion(n) \/ RejectVersion(n)
      PROVE  VersioningInv'
  <2>1. PICK n : n = ruleVersions[k].version OBVIOUS
  <2> QED BY <1>2, <1>3, <2>1, RollbackKeeps, ApproveVersionKeeps
<1> QED BY <1>1, <1>3, CreateVersionKeeps DEF VersioningNext, ChangeTypes

LEMMA VersioningAlways == VersioningInit /\ [][VersioningNext]_versioningVars => []VersioningInv
BY VersioningInitially, VersioningStep, PTL

LEMMA NumbersName == VersioningInv => VersioningTypeOK /\ NumberNamesOneVersion
<1> SUFFICES ASSUME VersioningInv PROVE VersioningTypeOK /\ NumberNamesOneVersion OBVIOUS
<1>1. \A k \in DOMAIN ruleVersions : ruleVersions[k].content \in Contents
  <2>1. ruleVersions \in Seq(RuleVersions) BY DEF VersioningInv, VersionsTyped
  <2>2. \A k \in DOMAIN ruleVersions : ruleVersions[k] \in RuleVersions
        BY <2>1, LenProperties, ElementOfSeq
  <2> QED BY <2>2 DEF RuleVersions
<1> QED BY <1>1 DEF VersioningTypeOK, VersioningInv, VersionsTyped, NumberNamesOneVersion,
                    CreatedOnce, Ascending

-----------------------------------------------------------------------------
(***************************************************************************)
(* Roles. The table holds the identifiers of the index, each once, and     *)
(* what was taken back is in neither of them. The walk over parents adds   *)
(* a role in every round until it is closed, so that it is closed after as *)
(* many rounds as there are roles, whatever circles they inherit in.       *)
(***************************************************************************)

RolesTyped ==
    /\ DOMAIN inheritsFrom \subseteq Roles /\ IsFiniteSet(DOMAIN inheritsFrom)
    /\ inheritsFrom \in [DOMAIN inheritsFrom -> SUBSET DOMAIN inheritsFrom]

BindingsTyped ==
    /\ spiffeIdToBindings = [i \in SpiffeIds |-> spiffeIdToBindings[i]]
    /\ \A i \in SpiffeIds : \A b \in spiffeIdToBindings[i] :
          b.spiffeId = i /\ b.roleId \in DOMAIN inheritsFrom
    /\ \A b \in bindings : b.spiffeId \in SpiffeIds

EndedAreGone == bindings \cap ended = {} /\ \A i \in SpiffeIds : spiffeIdToBindings[i] \cap ended = {}

IdsNameOne == \A x, y \in bindings : IdOf(x) = IdOf(y) => x = y

TableHasIndex == \A i \in SpiffeIds :
    /\ \A x \in spiffeIdToBindings[i] : \E y \in bindings : IdOf(y) = IdOf(x)
    /\ \A y \in bindings : y.spiffeId = i => \E x \in spiffeIdToBindings[i] : IdOf(x) = IdOf(y)

RbacInv == RolesTyped /\ BindingsTyped /\ EndedAreGone /\ IdsNameOne /\ TableHasIndex

LEMMA RbacInitially == RbacInit => RbacInv
<1> SUFFICES ASSUME RbacInit PROVE RbacInv OBVIOUS
<1> USE RbacAssumption DEF RbacInit
<1>1. RolesTyped BY DEF RolesTyped, Roles
<1>2. BindingsTyped /\ EndedAreGone /\ IdsNameOne /\ TableHasIndex
      BY DEF BindingsTyped, EndedAreGone, IdsNameOne, TableHasIndex
<1> QED BY <1>1, <1>2 DEF RbacInv

\* A binding is named by its identity, among others.
LEMMA IdTells ==
    ASSUME NEW x, NEW y, IdOf(x) = IdOf(y)
    PROVE  x.spiffeId = y.spiffeId
BY DEF IdOf

LEMMA CreateRoleKeeps ==
    ASSUME RbacInv, NEW r \in CustomRoles, NEW parents, CreateRole(r, parents)
    PROVE  RbacInv'
<1>1. PICK D : D = DOMAIN inheritsFrom OBVIOUS
<1>2. PICK E : E = D \cup {r} OBVIOUS
<1>3. /\ inheritsFrom' = [q \in E |-> IF q = r THEN parents ELSE inheritsFrom[q]]
      /\ parents \subseteq D /\ UNCHANGED <<bindings, spiffeIdToBindings, ended>>
      BY <1>1, <1>2 DEF CreateRole
<1>4. DOMAIN inheritsFrom' = E BY <1>3
<1>5. IsFiniteSet(E) BY <1>1, <1>2, FS_AddElement DEF RbacInv, RolesTyped
<1>6. inheritsFrom' \in [E -> SUBSET E] BY <1>1, <1>2, <1>3 DEF RbacInv, RolesTyped
<1>7. RolesTyped' BY <1>1, <1>2, <1>4, <1>5, <1>6 DEF RbacInv, RolesTyped, Roles
<1>8. BindingsTyped' BY <1>1, <1>2, <1>3, <1>4 DEF RbacInv, BindingsTyped
<1> QED BY <1>3, <1>7, <1>8 DEF RbacInv, EndedAreGone, IdsNameOne, TableHasIndex

LEMMA BindRoleKeeps ==
    ASSUME RbacInv, NEW i \in SpiffeIds, NEW r, NEW e, BindRole(i, r, e)
    PROVE  RbacInv'
<1>1. PICK b : b = [spiffeId |-> i, roleId |-> r, grantedAt |-> rbacClock, expiresAt |-> e] OBVIOUS
<1>2. /\ r \in DOMAIN inheritsFrom /\ inheritsFrom' = inheritsFrom
      /\ bindings' = {x \in bindings : IdOf(x) # IdOf(b)} \cup {b}
      /\ spiffeIdToBindings' = [spiffeIdToBindings EXCEPT ![i] = @ \cup {b}]
      /\ ended' = ended \ {b}
      BY <1>1 DEF BindRole
<1>3. b.spiffeId = i /\ b.roleId = r BY <1>1
<1>4. /\ spiffeIdToBindings' = [j \in SpiffeIds |-> spiffeIdToBindings'[j]]
      /\ spiffeIdToBindings'[i] = spiffeIdToBindings[i] \cup {b}
      /\ \A j \in SpiffeIds \ {i} : spiffeIdToBindings'[j] = spiffeIdToBindings[j]
      BY <1>2 DEF RbacInv, BindingsTyped
<1>5. RolesTyped' BY <1>2 DEF RbacInv, RolesTyped
<1>6. BindingsTyped' BY <1>2, <1>3, <1>4 DEF RbacInv, BindingsTyped
<1>7. EndedAreGone'
  <2>1. ASSUME NEW j \in SpiffeIds PROVE spiffeIdToBindings'[j] \cap ended' = {}
        BY <1>2, <1>4 DEF RbacInv, EndedAreGone
  <2> QED BY <1>2, <2>1 DEF RbacInv, EndedAreGone
<1>8. IdsNameOne' BY <1>2 DEF RbacInv, IdsNameOne
<1>9. TableHasIndex'
  <2>1. ASSUME NEW j \in SpiffeIds, NEW x \in spiffeIdToBindings'[j]
        PROVE  \E y \in bindings' : IdOf(y) = IdOf(x)
    <3>1. CASE IdOf(x) = IdOf(b) BY <1>2, <3>1
    <3>2. CASE IdOf(x) # IdOf(b)
      <4>1. x \in spiffeIdToBindings[j] BY <1>4, <3>2
      <4>2. PICK y \in bindings : IdOf(y) = IdOf(x) BY <4>1 DEF RbacInv, TableHasIndex
      <4> QED BY <1>2, <3>2, <4>2
    <3> QED BY <3>1, <3>2
  <2>2. ASSUME NEW j \in SpiffeIds, NEW y \in bindings', y.spiffeId = j
        PROVE  \E x \in spiffeIdToBindings'[j] : IdOf(x) = IdOf(y)
    <3>1. CASE y = b BY <1>3, <1>4, <2>2, <3>1
    <3>2. CASE y # b
      <4>1. y \in bindings BY <1>2, <3>2
      <4>2. PICK x \in spiffeIdToBindings[j] : IdOf(x) = IdOf(y)
            BY <2>2, <4>1 DEF RbacInv, TableHasIndex
      <4> QED BY <1>4, <4>2
    <3> QED BY <3>1, <3>2
  <2> QED BY <2>1, <2>2 DEF TableHasIndex
<1> QED BY <1>5, <1>6, <1>7, <1>8, <1>9 DEF RbacInv

LEMMA UnbindKeeps ==
    ASSUME RbacInv, NEW B, B \subseteq bindings, Unbind(B)
    PROVE  RbacInv'
<1>1. /\ inheritsFrom' = inheritsFrom /\ bindings' = bindings \ B
      /\ spiffeIdToBindings' = [i \in SpiffeIds |-> {x \in spiffeIdToBindings[i] : ~Removed(x, B)}]
      /\ \A x \in ended' : x \in ended
                           \/ (Removed(x, B) /\ \E i \in SpiffeIds : x \in spiffeIdToBindings[i])
      BY DEF Unbind
<1>2. /\ spiffeIdToBindings' = [i \in SpiffeIds |-> spiffeIdToBindings'[i]]
      /\ \A i \in SpiffeIds :
            spiffeIdToBindings'[i] = {x \in spiffeIdToBindings[i] : ~Removed(x, B)}
      BY <1>1
<1>3. \A x \in bindings' : ~Removed(x, B) BY <1>1 DEF Removed, RbacInv, IdsNameOne
<1>4. RolesTyped' BY <1>1 DEF RbacInv, RolesTyped
<1>5. BindingsTyped' BY <1>1, <1>2 DEF RbacInv, BindingsTyped
<1>6. EndedAreGone' BY <1>1, <1>2, <1>3 DEF RbacInv, EndedAreGone
<1>7. IdsNameOne' BY <1>1 DEF RbacInv, IdsNameOne
<1>8. TableHasIndex'
  <2>1. ASSUME NEW j \in SpiffeIds, NEW x \in spiffeIdToBindings'[j]
        PROVE  \E y \in bindings' : IdOf(y) = IdOf(x)
    <3>1. x \in spiffeIdToBindings[j] /\ ~Removed(x, B) BY <1>2
    <3>2. PICK y \in bindings : IdOf(y) = IdOf(x) BY <3>1 DEF RbacInv, TableHasIndex
    <3>3. y \notin B BY <3>1, <3>2 DEF Removed
    <3> QED BY <1>1, <3>2, <3>3
  <2>2. ASSUME NEW j \in SpiffeIds, NEW y \in bindings', y.spiffeId = j
        PROVE  \E x \in spiffeIdToBindings'[j] : IdOf(x) = IdOf(y)
    <3>1. y \in bindings /\ ~Removed(y, B) BY <1>1, <1>3
    <3>2. PICK x \in spiffeIdToBindings[j] : IdOf(x) = IdOf(y)
          BY <2>2, <3>1 DEF RbacInv, TableHasIndex
    <3>3. ~Removed(x, B) BY <3>1, <3>2 DEF Removed
    <3> QED BY <1>2, <3>2, <3>3
  <2> QED BY <2>1, <2>2 DEF TableHasIndex
<1> QED BY <1>4, <1>5, <1>6, <1>7, <1>8 DEF RbacInv

LEMMA RbacStep == RbacInv /\ [RbacNext]_rbacVars => RbacInv'
<1> SUFFICES ASSUME RbacInv, [RbacNext]_rbacVars PROVE RbacInv' OBVIOUS
<1>1. CASE UNCHANGED rbacVars
      BY <1>1 DEF rbacVars, RbacInv, RolesTyped, BindingsTyped, EndedAreGone, IdsNameOne, TableHasIndex
<1>2. CASE RbacTick
      BY <1>2 DEF RbacTick, RbacInv, RolesTyped, BindingsTyped, EndedAreGone, IdsNameOne, TableHasIndex
<1>3. CASE CleanupExpiredBindings
  <2> DEFINE expired == {b \in bindings : b.expiresAt <= rbacClock}
  <2>1. PICK B : B = expired OBVIOUS
  <2>2. B \subseteq bindings /\ Unbind(B) BY <1>3, <2>1 DEF CleanupExpiredBindings
  <2> QED BY <2>2, UnbindKeeps
<1>4. ASSUME NEW b \in bindings, UnbindRole(b) PROVE RbacInv'
  <2>1. {b} \subseteq bindings /\ Unbind({b}) BY <1>4 DEF UnbindRole
  <2> QED BY <2>1, UnbindKeeps
<1>5. ASSUME NEW r \in CustomRoles, NEW parents \in SUBSET DOMAIN inheritsFrom, CreateRole(r, parents)
      PROVE  RbacInv'
      BY <1>5, CreateRoleKeeps
<1>6. ASSUME NEW i \in SpiffeIds, NEW r \in DOMAIN inheritsFrom, NEW e \in {rbacClock + 1, Never},
             BindRole(i, r, e)
      PROVE  RbacInv'
      BY <1>6, BindRoleKeeps
<1> QED BY <1>1, <1>2, <1>3, <1>4, <1>5, <1>6 DEF RbacNext

LEMMA RbacAlways == RbacInit /\ [][RbacNext]_rbacVars => []RbacInv
BY RbacInitially, RbacStep, PTL

\* Numbers in a set that has zero, and with a number the next one.
LEMMA FromZeroOn ==
    ASSUME NEW S, 0 \in S, \A n \in Nat : n \in S => n + 1 \in S
    PROVE  Nat \subseteq S
<1> SUFFICES ASSUME Nat \ S # {} PROVE FALSE OBVIOUS
<1>1. PICK m \in Nat \ S : \A n \in Nat \ S : m <= n
  <2>1. Nat \ S \subseteq Nat OBVIOUS
  <2> QED BY <2>1, LeastNumber
<1>2. m # 0 /\ m - 1 \in Nat BY <1>1
<1>3. m - 1 \in S BY <1>1, <1>2
<1>4. (m - 1) + 1 \in S BY <1>2, <1>3
<1> QED BY <1>1, <1>4

\* A walk of N rounds from start, each round a step of f.
IsWalk(g, f, T, N) == g \in [0 .. N -> T] /\ \A n \in 1 .. N : g[n] = f[g[n - 1]]
Grows(f, T) == \A R \in T : R \subseteq f[R]
HasWalk(T, start, f, N) == \E g : g[0] = start /\ IsWalk(g, f, T, N)

\* A walk, round after round, exists.
LEMMA WalkExists ==
    ASSUME NEW T, NEW start \in T, NEW f \in [T -> T], NEW N \in Nat
    PROVE  HasWalk(T, start, f, N)
<1> USE DEF HasWalk, IsWalk
<1> DEFINE S == {m \in Nat : HasWalk(T, start, f, m)}
<1>1. 0 \in S
  <2> DEFINE g == [n \in 0 .. 0 |-> start]
  <2>1. g \in [0 .. 0 -> T] /\ g[0] = start OBVIOUS
  <2> HIDE DEF g
  <2> QED BY <2>1
<1>2. ASSUME NEW m \in Nat, m \in S PROVE m + 1 \in S
  <2>1. PICK g \in [0 .. m -> T] : g[0] = start /\ \A n \in 1 .. m : g[n] = f[g[n - 1]]
        BY <1>2
  <2> DEFINE h == [n \in 0 .. m + 1 |-> IF n = m + 1 THEN f[g[m]] ELSE g[n]]
  <2>2. h \in [0 .. m + 1 -> T] BY <2>1
  <2>3. h[0] = start /\ h[m + 1] = f[g[m]] /\ \A n \in 0 .. m : h[n] = g[n] BY <2>1
  <2> HIDE DEF h
  <2>4. \A n \in 1 .. m + 1 : h[n] = f[h[n - 1]]
    <3> SUFFICES ASSUME NEW n \in 1 .. m + 1 PROVE h[n] = f[h[n - 1]] OBVIOUS
    <3>1. CASE n = m + 1 BY <2>3, <3>1
    <3>2. CASE n # m + 1
      <4>1. n \in 1 .. m /\ n \in 0 .. m /\ n - 1 \in 0 .. m BY <3>2
      <4> QED BY <2>1, <2>3, <4>1
    <3> QED BY <3>1, <3>2
  <2> QED BY <2>2, <2>3, <2>4
<1> HIDE DEF S
<1>3. Nat \subseteq S BY <1>1, <1>2, FromZeroOn
<1> QED BY <1>3 DEF S

\* A walk that adds what the roles at hand lead to is closed after as many rounds as
\* there are roles.
LEMMA WalkCloses ==
    ASSUME NEW D, IsFiniteSet(D), NEW T, T = SUBSET D, NEW f \in [T -> T], Grows(f, T),
           NEW N, N = Cardinality(D), NEW g, IsWalk(g, f, T, N)
    PROVE  f[g[N]] = g[N]
<1> USE DEF IsWalk, Grows
<1>1. N \in Nat BY FS_CardinalityType
<1> DEFINE Grown(n) == f[g[n]] = g[n] \/ Cardinality(g[n]) >= n
           S == {n \in Nat : n <= N => Grown(n)}
<1>2. \A n \in 0 .. N : g[n] \in SUBSET D /\ IsFiniteSet(g[n]) /\ Cardinality(g[n]) \in Nat
      BY FS_Subset, FS_CardinalityType
<1>3. 0 \in S
  <2>1. 0 \in 0 .. N BY <1>1
  <2>2. Cardinality(g[0]) \in Nat BY <1>2, <2>1
  <2> QED BY <2>2
<1>4. ASSUME NEW n \in Nat, n \in S PROVE n + 1 \in S
  <2> SUFFICES ASSUME n + 1 <= N PROVE Grown(n + 1) OBVIOUS
  <2>1. n \in 0 .. N /\ n + 1 \in 0 .. N /\ n + 1 \in 1 .. N /\ (n + 1) - 1 = n BY <1>1
  <2>2. g[n + 1] = f[g[n]] BY <2>1
  <2>3. CASE f[g[n]] = g[n] BY <2>2, <2>3
  <2>4. CASE f[g[n]] # g[n]
    <3>1. Cardinality(g[n]) >= n BY <1>4, <2>1, <2>4
    <3>2. g[n] \in SUBSET g[n + 1] /\ g[n] # g[n + 1] BY <1>2, <2>1, <2>2, <2>4
    <3>3. Cardinality(g[n]) <= Cardinality(g[n + 1]) /\ Cardinality(g[n]) # Cardinality(g[n + 1])
          BY <1>2, <2>1, <3>2, FS_Subset
    <3>4. Cardinality(g[n]) \in Nat /\ Cardinality(g[n + 1]) \in Nat BY <1>2, <2>1
    <3> QED BY <3>1, <3>3, <3>4
  <2> QED BY <2>3, <2>4
<1> HIDE DEF S
<1>5. N \in S BY <1>1, <1>3, <1>4, FromZeroOn
<1>6. Grown(N) BY <1>1, <1>5 DEF S
<1>7. CASE Cardinality(g[N]) >= N
  <2>1. N \in 0 .. N BY <1>1
  <2>2. g[N] \in SUBSET D /\ Cardinality(g[N]) \in Nat BY <1>2, <2>1
  <2>3. Cardinality(g[N]) <= Cardinality(D) BY <2>2, FS_Subset
  <2>4. Cardinality(D) = Cardinality(g[N]) BY <1>1, <1>7, <2>2, <2>3
  <2>5. g[N] = D BY <2>2, <2>4, FS_Subset
  <2> QED BY <2>2, <2>5
<1> QED BY <1>6, <1>7

LEMMA PermissionsClosed ==
    ASSUME RbacInv, NEW i \in SpiffeIds
    PROVE  WithParents(CollectPermissions(i)) = CollectPermissions(i)
<1>1. PICK D : D = DOMAIN inheritsFrom OBVIOUS
<1>2. PICK N : N = Cardinality(D) OBVIOUS
<1>3. PICK start : start = {b.roleId : b \in ActiveBindings(i)} OBVIOUS
<1>4. PICK f : f = [R \in SUBSET D |-> WithParents(R)] OBVIOUS
<1>5. IsFiniteSet(D) /\ N \in Nat BY <1>1, <1>2, FS_CardinalityType DEF RbacInv, RolesTyped
<1>6. start \in SUBSET D BY <1>1, <1>3 DEF RbacInv, BindingsTyped, ActiveBindings
<1>7. \A R \in SUBSET D : WithParents(R) \in SUBSET D /\ R \subseteq WithParents(R)
      BY <1>1 DEF RbacInv, RolesTyped, WithParents
<1>8. f \in [SUBSET D -> SUBSET D] /\ (\A R \in SUBSET D : R \subseteq f[R] /\ f[R] = WithParents(R))
      BY <1>4, <1>7
<1> DEFINE reached[n \in 0 .. N] == IF n = 0 THEN start ELSE WithParents(reached[n - 1])
<1>9. CollectPermissions(i) = reached[N] BY <1>1, <1>2, <1>3 DEF CollectPermissions
<1>10. \E g : g = [n \in 0 .. N |-> IF n = 0 THEN start ELSE WithParents(g[n - 1])]
  <2> HIDE DEF reached
  <2>1. PICK g \in [0 .. N -> SUBSET D] : g[0] = start /\ \A n \in 1 .. N : g[n] = f[g[n - 1]]
    <3>1. f \in [SUBSET D -> SUBSET D] /\ N \in Nat BY <1>5, <1>8
    <3>2. PICK T : T = SUBSET D OBVIOUS
    <3>3. start \in T /\ f \in [T -> T] BY <1>6, <3>1, <3>2
    <3>4. HasWalk(T, start, f, N) BY <3>1, <3>3, WalkExists
    <3> QED BY <3>2, <3>4 DEF HasWalk, IsWalk
  <2>2. ASSUME NEW n \in 0 .. N PROVE g[n] = IF n = 0 THEN start ELSE WithParents(g[n - 1])
    <3>1. CASE n = 0 BY <2>1, <3>1
    <3>2. CASE n # 0
      <4>1. n \in 1 .. N /\ n - 1 \in 0 .. N BY <1>5, <3>2
      <4> QED BY <1>8, <2>1, <3>2, <4>1
    <3> QED BY <3>1, <3>2
  <2>3. g = [n \in 0 .. N |-> g[n]] BY <2>1
  <2> QED BY <2>2, <2>3
<1>11. reached = [n \in 0 .. N |-> IF n = 0 THEN start ELSE WithParents(reached[n - 1])]
       BY <1>10 DEF reached
<1> HIDE DEF reached
<1>12. reached \in [0 .. N -> SUBSET D]
  <2> DEFINE S == {n \in Nat : n <= N => reached[n] \in SUBSET D}
  <2>1. 0 \in S BY <1>5, <1>6, <1>11
  <2>2. ASSUME NEW n \in Nat, n \in S PROVE n + 1 \in S
    <3> SUFFICES ASSUME n + 1 <= N PROVE reached[n + 1] \in SUBSET D OBVIOUS
    <3>1. n + 1 \in 0 .. N /\ n + 1 # 0 /\ (n + 1) - 1 = n /\ n <= N BY <1>5
    <3>2. reached[n + 1] = WithParents(reached[n]) BY <1>11, <3>1
    <3> QED BY <1>7, <2>2, <3>1, <3>2
  <2> HIDE DEF S
  <2>3. Nat \subseteq S BY <2>1, <2>2, FromZeroOn
  <2>4. \A n \in 0 .. N : reached[n] \in SUBSET D BY <1>5, <2>3 DEF S
  <2>5. reached = [n \in 0 .. N |-> reached[n]] BY <1>11
  <2> QED BY <2>4, <2>5
<1>13. PICK g : g = reached /\ g \in [0 .. N -> SUBSET D] BY <1>12
<1>14. \A n \in 1 .. N : g[n] = f[g[n - 1]]
  <2> SUFFICES ASSUME NEW n \in 1 .. N PROVE g[n] = f[g[n - 1]] OBVIOUS
  <2>1. n \in 0 .. N /\ n # 0 /\ n - 1 \in 0 .. N BY <1>5
  <2>2. g[n] = WithParents(g[n - 1]) BY <1>11, <1>13, <2>1
  <2>3. g[n - 1] \in SUBSET D BY <1>13, <2>1
  <2> QED BY <1>8, <2>2, <2>3
<1>15. f[g[N]] = g[N]
  <2>1. f \in [SUBSET D -> SUBSET D] BY <1>8
  <2>2. \A R \in SUBSET D : R \subseteq f[R] BY <1>8
  <2>3. IsFiniteSet(D) BY <1>5
  <2>4. PICK T : T = SUBSET D OBVIOUS
  <2>5. f \in [T -> T] /\ Grows(f, T) BY <2>1, <2>2, <2>4 DEF Grows
  <2>6. g \in [0 .. N -> T] BY <1>13, <2>4
  <2>7. IsWalk(g, f, T, N) BY <1>14, <2>6 DEF IsWalk
  <2> QED BY <1>2, <2>3, <2>4, <2>5, <2>7, WalkCloses
<1>16. g[N] \in SUBSET D BY <1>5, <1>13
<1> QED BY <1>8, <1>9, <1>13, <1>15, <1>16

LEMMA PermissionsHold == RbacInv => RbacTypeOK /\ PermissionsAreBacked
<1> SUFFICES ASSUME RbacInv PROVE RbacTypeOK /\ PermissionsAreBacked OBVIOUS
<1>1. RbacTypeOK BY DEF RbacInv, RolesTyped, BindingsTyped, EndedAreGone, RbacTypeOK
<1>2. ASSUME NEW i \in SpiffeIds
      PROVE  /\ \A b \in ActiveBindings(i) : b \notin ended
             /\ {IdOf(b) : b \in spiffeIdToBindings[i]}
                    = {IdOf(b) : b \in {x \in bindings : x.spiffeId = i}}
  <2>1. \A b \in ActiveBindings(i) : b \notin ended BY DEF ActiveBindings, RbacInv, EndedAreGone
  <2>2. ASSUME NEW x \in spiffeIdToBindings[i]
        PROVE  \E y \in {b \in bindings : b.spiffeId = i} : IdOf(y) = IdOf(x)
    <3>1. PICK y \in bindings : IdOf(y) = IdOf(x) BY DEF RbacInv, TableHasIndex
    <3>2. y.spiffeId = i BY <3>1, IdTells DEF RbacInv, BindingsTyped
    <3> QED BY <3>1, <3>2
  <2>3. ASSUME NEW y \in {b \in bindings : b.spiffeId = i}
        PROVE  \E x \in spiffeIdToBindings[i] : IdOf(x) = IdOf(y)
        BY DEF RbacInv, TableHasIndex
  <2>4. {IdOf(b) : b \in spiffeIdToBindings[i]} = {IdOf(b) : b \in {x \in bindings : x.spiffeId = i}}
        BY <2>2, <2>3
  <2> QED BY <2>1, <2>4
<1> QED BY <1>1, <1>2, PermissionsClosed DEF PermissionsAreBacked

-----------------------------------------------------------------------------
(***************************************************************************)
(* The sandbox. What it caches was right when it was judged, and is under  *)
(* its key once.                                                           *)
(***************************************************************************)

Judged(e) == e.valid /\ ~e.shadow => e.critical = 0
KeysDiffer(s) == \A j, k \in DOMAIN s : s[j].key = s[k].key => j = k

SandboxInv ==
    /\ compiledPatterns \subseteq Patterns /\ sandboxClock \in 0 .. MaxSandboxTime
    /\ \E W : validationCache \in Seq(W)
    /\ Len(validationCache) <= CacheMaxSize /\ KeysDiffer(validationCache)
    /\ \A k \in DOMAIN validationCache : Judged(validationCache[k])
    /\ VerdictsAreFresh

LEMMA SandboxInitially == SandboxInit => SandboxInv
<1> SUFFICES ASSUME SandboxInit PROVE SandboxInv OBVIOUS
<1>1. validationCache = <<>> /\ lastVerdict = NoVerdict /\ compiledPatterns = {} /\ sandboxClock = 0
      BY DEF SandboxInit
<1>2. validationCache \in Seq({}) /\ Len(validationCache) = 0 /\ DOMAIN validationCache = {}
      BY <1>1, EmptySeq
<1>3. 0 \in 0 .. MaxSandboxTime /\ 0 <= CacheMaxSize BY SandboxAssumption
<1> QED BY <1>1, <1>2, <1>3 DEF SandboxInv, KeysDiffer, VerdictsAreFresh

\* A verdict that is cached leaves the cache within its size, each key in it once.
LEMMA CacheResultKeeps ==
    ASSUME SandboxInv, NEW e, Judged(e), CacheResult(e)
    PROVE  /\ \E W : validationCache' \in Seq(W)
           /\ Len(validationCache') <= CacheMaxSize /\ KeysDiffer(validationCache')
           /\ \A k \in DOMAIN validationCache' : Judged(validationCache'[k])
<1>1. PICK c : c = validationCache OBVIOUS
<1>2. PICK d : d = validationCache' OBVIOUS
<1>3. PICK V : c \in Seq(V) BY <1>1 DEF SandboxInv
<1>4. Len(c) \in Nat /\ Len(c) <= CacheMaxSize /\ KeysDiffer(c) /\ DOMAIN c = 1 .. Len(c)
      /\ (\A k \in DOMAIN c : Judged(c[k]))
      BY <1>1, <1>3, LenProperties DEF SandboxInv
<1>5. PICK room : room = IF Len(c) >= CacheMaxSize THEN Tail(c) ELSE c OBVIOUS
<1>6. /\ room \in Seq(V) /\ Len(room) < CacheMaxSize /\ KeysDiffer(room)
      /\ \A k \in DOMAIN room : Judged(room[k])
  <2>1. CASE Len(c) >= CacheMaxSize
    <3>1. c # <<>> BY <1>3, <1>4, <2>1, SandboxAssumption, EmptySeq
    <3>2. room = Tail(c) BY <1>5, <2>1
    <3>3. /\ room \in Seq(V) /\ Len(room) = Len(c) - 1
          /\ \A k \in 1 .. Len(room) : room[k] = c[k + 1]
          BY <1>3, <3>1, <3>2, HeadTailProperties
    <3>4. DOMAIN room = 1 .. Len(room) /\ Len(room) \in Nat BY <3>3, LenProperties
    <3>5. Len(room) < CacheMaxSize BY <1>4, <3>3, <3>4, SandboxAssumption
    <3>6. \A k \in DOMAIN room : k + 1 \in DOMAIN c /\ room[k] = c[k + 1] /\ k \in Nat
          BY <1>4, <3>3, <3>4
    <3>7. \A k \in DOMAIN room : Judged(room[k])
      <4> SUFFICES ASSUME NEW k \in DOMAIN room PROVE Judged(room[k]) OBVIOUS
      <4>1. k + 1 \in DOMAIN c /\ room[k] = c[k + 1] BY <3>6
      <4> QED BY <1>4, <4>1
    <3>8. KeysDiffer(room) BY <1>4, <3>6 DEF KeysDiffer
    <3> QED BY <3>3, <3>5, <3>7, <3>8
  <2>2. CASE ~ (Len(c) >= CacheMaxSize)
    <3>1. room = c BY <1>5, <2>2
    <3>2. Len(c) < CacheMaxSize BY <1>4, <2>2, SandboxAssumption
    <3> QED BY <1>3, <1>4, <3>1, <3>2
  <2> QED BY <2>1, <2>2
<1>7. DOMAIN room = 1 .. Len(room) /\ Len(room) \in Nat BY <1>6, LenProperties
<1>8. d = IF \E k \in DOMAIN room : room[k].key = e.key
          THEN [k \in DOMAIN room |-> IF room[k].key = e.key THEN e ELSE room[k]]
          ELSE Append(room, e)
      BY <1>1, <1>2, <1>5 DEF CacheResult
<1>9. PICK W : W = V \cup {e} OBVIOUS
<1>10. d \in Seq(W) /\ Len(d) <= CacheMaxSize /\ KeysDiffer(d) /\ \A k \in DOMAIN d : Judged(d[k])
  <2>1. CASE \E k \in DOMAIN room : room[k].key = e.key
    <3>1. PICK n \in Nat : n = Len(room) BY <1>7
    <3>2. d = [k \in 1 .. n |-> IF room[k].key = e.key THEN e ELSE room[k]]
          BY <1>7, <1>8, <2>1, <3>1
    <3>3. DOMAIN d = 1 .. n /\ \A k \in 1 .. n : d[k] = IF room[k].key = e.key THEN e ELSE room[k]
          BY <3>2
    <3>4. \A k \in 1 .. n : room[k] \in V BY <1>6, <1>7, <3>1, ElementOfSeq
    <3>5. \A k \in 1 .. n : (IF room[k].key = e.key THEN e ELSE room[k]) \in W BY <1>9, <3>4
    <3>6. d \in Seq(W) /\ Len(d) = n BY <3>2, <3>5, IsASeq
    <3>7. \A k \in 1 .. n : d[k].key = room[k].key BY <3>3
    <3>8. KeysDiffer(d) BY <1>6, <1>7, <3>1, <3>3, <3>7 DEF KeysDiffer
    <3>9. \A k \in DOMAIN d : Judged(d[k])
      <4> SUFFICES ASSUME NEW k \in DOMAIN d PROVE Judged(d[k]) OBVIOUS
      <4>1. d[k] = e \/ (k \in DOMAIN room /\ d[k] = room[k]) BY <1>7, <3>1, <3>3
      <4> QED BY <1>6, <4>1
    <3>10. Len(d) <= CacheMaxSize BY <1>6, <1>7, <3>1, <3>6, SandboxAssumption
    <3> QED BY <3>6, <3>8, <3>9, <3>10
  <2>2. CASE ~ \E k \in DOMAIN room : room[k].key = e.key
    <3>1. d = Append(room, e) BY <1>8, <2>2
    <3>2. room \in Seq(W) /\ e \in W BY <1>6, <1>9
    <3>3. /\ d \in Seq(W) /\ Len(d) = Len(room) + 1
          /\ (\A k \in 1 .. Len(room) : d[k] = room[k]) /\ d[Len(room) + 1] = e
          BY <3>1, <3>2, AppendProperties
    <3>4. DOMAIN d = 1 .. (Len(room) + 1) BY <3>3, LenProperties
    <3>5. \A k \in DOMAIN d : (k \in DOMAIN room /\ d[k] = room[k]) \/ (k = Len(room) + 1 /\ d[k] = e)
          BY <1>7, <3>3, <3>4
    <3>6. KeysDiffer(d) BY <1>6, <2>2, <3>5 DEF KeysDiffer
    <3>7. \A k \in DOMAIN d : Judged(d[k])
      <4> SUFFICES ASSUME NEW k \in DOMAIN d PROVE Judged(d[k]) OBVIOUS
      <4> QED BY <1>6, <3>5
    <3>8. Len(d) <= CacheMaxSize BY <1>6, <1>7, <3>3, SandboxAssumption
    <3> QED BY <3>3, <3>6, <3>7, <3>8
  <2> QED BY <2>1, <2>2
<1> QED BY <1>2, <1>10

LEMMA ValidateKeeps ==
    ASSUME SandboxInv, NEW i \in SandboxIntents, NEW environment \in SandboxEnvironments,
           NEW admin \in BOOLEAN, Validate(i, environment, admin)
    PROVE  SandboxInv'
<1>1. PICK key : key = KeyOf(i, environment) OBVIOUS
<1>2. PICK e : e = [key |-> key, at |-> sandboxClock,
                    critical |-> Severe(Violations(i, environment, admin), "critical"),
                    shadow |-> shadowMode,
                    valid |-> IsValid(i, environment, Violations(i, environment, admin))]
      OBVIOUS
<1>3. /\ \/ \E k \in Fresh(key) :
                /\ lastVerdict' = [verdict |-> validationCache[k], asked |-> key,
                                   when |-> sandboxClock]
                /\ UNCHANGED validationCache
         \/ /\ Fresh(key) = {}
            /\ lastVerdict' = [verdict |-> e, asked |-> key, when |-> sandboxClock]
            /\ CacheResult(e)
      /\ UNCHANGED <<sandboxReady, compiledPatterns, shadowMode, sandboxClock>>
      BY <1>1, <1>2, Zenon DEF Validate
<1>4. Judged(e) BY <1>2 DEF Judged, IsValid
<1>5. compiledPatterns' \subseteq Patterns /\ sandboxClock' \in 0 .. MaxSandboxTime
      BY <1>3 DEF SandboxInv
<1>6. CASE \E k \in Fresh(key) :
                /\ lastVerdict' = [verdict |-> validationCache[k], asked |-> key,
                                   when |-> sandboxClock]
                /\ UNCHANGED validationCache
  <2>1. PICK k \in Fresh(key) :
                /\ lastVerdict' = [verdict |-> validationCache[k], asked |-> key,
                                   when |-> sandboxClock]
                /\ UNCHANGED validationCache
        BY <1>6
  <2>2. /\ k \in DOMAIN validationCache /\ validationCache[k].key = key
        /\ sandboxClock - validationCache[k].at < VerdictTtl
        BY DEF Fresh, Entries
  <2>3. Judged(validationCache[k]) BY <2>2 DEF SandboxInv
  <2>4. VerdictsAreFresh' BY <2>1, <2>2, <2>3 DEF VerdictsAreFresh, Judged
  <2> QED BY <1>5, <2>1, <2>4 DEF SandboxInv, KeysDiffer, Judged
<1>7. CASE /\ Fresh(key) = {}
           /\ lastVerdict' = [verdict |-> e, asked |-> key, when |-> sandboxClock]
           /\ CacheResult(e)
  <2>1. VerdictsAreFresh' BY <1>2, <1>4, <1>7 DEF VerdictsAreFresh, Judged
  <2>2. /\ \E W : validationCache' \in Seq(W)
        /\ Len(validationCache') <= CacheMaxSize /\ KeysDiffer(validationCache')
        /\ \A k \in DOMAIN validationCache' : Judged(validationCache'[k])
        BY <1>4, <1>7, CacheResultKeeps
  <2> QED BY <1>5, <2>1, <2>2 DEF SandboxInv, KeysDiffer, Judged
<1> QED BY <1>3, <1>6, <1>7

LEMMA SandboxStep == SandboxInv /\ [SandboxNext]_sandboxVars => SandboxInv'
<1> SUFFICES ASSUME SandboxInv, [SandboxNext]_sandboxVars PROVE SandboxInv' OBVIOUS
<1> USE DEF SandboxInv, KeysDiffer, Judged, VerdictsAreFresh
<1>1. ASSUME NEW i \in SandboxIntents, NEW environment \in SandboxEnvironments,
             NEW admin \in BOOLEAN, Validate(i, environment, admin)
      PROVE  SandboxInv'
      BY <1>1, ValidateKeeps
<1>2. CASE InitializeSandbox BY <1>2 DEF InitializeSandbox
<1>3. CASE UpdateConfig BY <1>3 DEF UpdateConfig
<1>4. CASE ClearCache
  <2>1. validationCache' = <<>>
        /\ UNCHANGED <<compiledPatterns, lastVerdict, sandboxClock>>
        BY <1>4 DEF ClearCache
  <2>2. validationCache' \in Seq({}) /\ Len(validationCache') = 0 /\ DOMAIN validationCache' = {}
        BY <2>1, EmptySeq
  <2> QED BY <2>1, <2>2, SandboxAssumption
<1>5. CASE SandboxTick BY <1>5, SandboxAssumption DEF SandboxTick
<1>6. ASSUME NEW p \in Patterns, AddDangerousPattern(p) PROVE SandboxInv'
      BY <1>6 DEF AddDangerousPattern
<1>7. CASE UNCHANGED sandboxVars BY <1>7 DEF sandboxVars
<1> QED BY <1>1, <1>2, <1>3, <1>4, <1>5, <1>6, <1>7 DEF SandboxNext

LEMMA SandboxAlways == SandboxInit /\ [][SandboxNext]_sandboxVars => []SandboxInv
BY SandboxInitially, SandboxStep, PTL

LEMMA VerdictsHold == SandboxInv => SandboxTypeOK /\ VerdictsAreFresh
BY DEF SandboxInv, KeysDiffer, SandboxTypeOK

-----------------------------------------------------------------------------
(***************************************************************************)
(* The audit log. An event in memory is in one place: a flush takes the    *)
(* buffer over as a write, and a write becomes part of the file or of the  *)
(* buffer; if it becomes part of both, its append has failed.              *)
(***************************************************************************)

\* Only members of A are twice in f.
RepeatsOnly(f, A) == \A i, j \in DOMAIN f : f[i] = f[j] => i = j \/ f[i] \in A

\* Each line that nobody can read was cut by an append that failed, and if the file
\* ends within a line then one that failed has not cut another line yet.
CutsAreCounted ==
    /\ IsFiniteSet(garbled)
    /\ Cardinality(garbled) + (IF cut THEN 1 ELSE 0) <= partialWrites

AuditInv ==
    /\ AuditTypeOK /\ EventsAreKept /\ CutsAreCounted
    /\ service # "ended" => lost = {}

LEMMA AuditInitially == AuditInit => AuditInv
<1> SUFFICES ASSUME AuditInit PROVE AuditInv OBVIOUS
<1> USE DEF AuditInit
<1>1. ToSet(<<>>) = {} /\ IsInjective(<<>>) BY DEF ToSet, IsInjective
<1>2. \A S : <<>> \in Seq(S) BY EmptySeq
<1>3. /\ logged = 0 /\ 1 .. logged = {} /\ 0 \in 0 .. MaxEvents /\ 0 \in 0 .. MaxPartialWrites
      BY AuditAssumption
<1>4. CutsAreCounted BY FS_EmptySet DEF CutsAreCounted
<1>5. AuditTypeOK BY <1>2, <1>3 DEF AuditTypeOK
<1>6. EventsAreKept
  <2>1. Writing = {} BY DEF Writing
  <2>2. \A i, j \in DOMAIN file : file[i] = file[j] => i = j \/ file[i] \in again OBVIOUS
  <2>3. Cardinality(garbled) <= partialWrites BY FS_EmptySet
  <2> QED BY <1>1, <1>3, <2>1, <2>2, <2>3 DEF EventsAreKept
<1> QED BY <1>4, <1>5, <1>6 DEF AuditInv

\* What a list holds, and that each element is there once, after one more and joined.
LEMMA AppendHolds ==
    ASSUME NEW S, NEW s \in Seq(S), NEW e \in S
    PROVE  /\ ToSet(Append(s, e)) = ToSet(s) \cup {e} /\ Append(s, e) # <<>>
           /\ IsInjective(s) /\ e \notin ToSet(s) => IsInjective(Append(s, e))
<1>1. PICK t : t = Append(s, e) OBVIOUS
<1>2. PICK n \in Nat : n = Len(s) /\ DOMAIN s = 1 .. n BY LenProperties
<1>3. t \in Seq(S) /\ Len(t) = n + 1 /\ (\A k \in 1 .. n : t[k] = s[k]) /\ t[n + 1] = e
      BY <1>1, <1>2, AppendProperties
<1>4. DOMAIN t = (1 .. n) \cup {n + 1} /\ n + 1 \notin 1 .. n BY <1>3, LenProperties
<1>5. ToSet(t) = ToSet(s) \cup {e} BY <1>2, <1>3, <1>4 DEF ToSet
<1>6. t # <<>> BY <1>4
<1>7. IsInjective(s) /\ e \notin ToSet(s) => IsInjective(t)
      BY <1>2, <1>3, <1>4 DEF ToSet, IsInjective
<1> QED BY <1>1, <1>5, <1>6, <1>7

LEMMA JoinHolds ==
    ASSUME NEW S, NEW s \in Seq(S), NEW t \in Seq(S)
    PROVE  /\ s \o t \in Seq(S) /\ ToSet(s \o t) = ToSet(s) \cup ToSet(t)
           /\ IsInjective(s) /\ IsInjective(t) /\ ToSet(s) \cap ToSet(t) = {}
                => IsInjective(s \o t)
<1>1. PICK u : u = s \o t OBVIOUS
<1>2. PICK n \in Nat : n = Len(s) /\ DOMAIN s = 1 .. n BY LenProperties
<1>3. PICK m \in Nat : m = Len(t) /\ DOMAIN t = 1 .. m BY LenProperties
<1>4. /\ u \in Seq(S) /\ Len(u) = n + m
      /\ \A k \in 1 .. n + m : u[k] = IF k <= n THEN s[k] ELSE t[k - n]
      BY <1>1, <1>2, <1>3, ConcatProperties
<1>5. DOMAIN u = 1 .. (n + m) BY <1>4, LenProperties
<1>6. \A k \in DOMAIN u : \/ k \in DOMAIN s /\ u[k] = s[k]
                          \/ k - n \in DOMAIN t /\ k > n /\ u[k] = t[k - n]
      BY <1>2, <1>3, <1>4, <1>5
<1>7. \A k \in DOMAIN s : k \in DOMAIN u /\ u[k] = s[k] BY <1>2, <1>4, <1>5
<1>8. \A k \in DOMAIN t : k + n \in DOMAIN u /\ u[k + n] = t[k]
  <2> SUFFICES ASSUME NEW k \in DOMAIN t PROVE k + n \in DOMAIN u /\ u[k + n] = t[k] OBVIOUS
  <2>1. k + n \in 1 .. n + m /\ ~ (k + n <= n) /\ (k + n) - n = k BY <1>2, <1>3
  <2> QED BY <1>4, <1>5, <2>1
<1>9. ToSet(u) = ToSet(s) \cup ToSet(t)
  <2>1. ToSet(u) \subseteq ToSet(s) \cup ToSet(t) BY <1>6 DEF ToSet
  <2>2. ToSet(s) \subseteq ToSet(u) BY <1>7 DEF ToSet
  <2>3. ToSet(t) \subseteq ToSet(u)
    <3> SUFFICES ASSUME NEW k \in DOMAIN t PROVE \E j \in DOMAIN u : t[k] = u[j] BY DEF ToSet
    <3> QED BY <1>8
  <2> QED BY <2>1, <2>2, <2>3
<1>10. ASSUME IsInjective(s), IsInjective(t), ToSet(s) \cap ToSet(t) = {} PROVE IsInjective(u)
  <2> SUFFICES ASSUME NEW j \in DOMAIN u, NEW k \in DOMAIN u, u[j] = u[k] PROVE j = k
      BY DEF IsInjective
  <2>1. j \in Nat /\ k \in Nat BY <1>5
  <2>2. CASE j \in DOMAIN s /\ u[j] = s[j]
    <3>1. CASE k \in DOMAIN s /\ u[k] = s[k] BY <1>10, <2>2, <3>1 DEF IsInjective
    <3>2. CASE k - n \in DOMAIN t /\ k > n /\ u[k] = t[k - n]
          BY <1>10, <2>2, <3>2 DEF ToSet
    <3> QED BY <1>6, <3>1, <3>2
  <2>3. CASE j - n \in DOMAIN t /\ j > n /\ u[j] = t[j - n]
    <3>1. CASE k \in DOMAIN s /\ u[k] = s[k] BY <1>10, <2>3, <3>1 DEF ToSet
    <3>2. CASE k - n \in DOMAIN t /\ k > n /\ u[k] = t[k - n]
      <4>1. j - n = k - n BY <1>10, <2>3, <3>2 DEF IsInjective
      <4> QED BY <2>1, <4>1
    <3> QED BY <1>6, <3>1, <3>2
  <2> QED BY <1>6, <2>2, <2>3
<1> QED BY <1>1, <1>4, <1>9, <1>10

LEMMA SeqGrows ==
    ASSUME NEW S, NEW T, S \subseteq T, NEW s \in Seq(S)
    PROVE  s \in Seq(T)
OBVIOUS

LEMMA JoinRepeats ==
    ASSUME NEW S, NEW s \in Seq(S), NEW t \in Seq(S), NEW A,
           RepeatsOnly(s, A), IsInjective(t), ToSet(s) \cap ToSet(t) \subseteq A
    PROVE  RepeatsOnly(s \o t, A)
<1>1. PICK u : u = s \o t OBVIOUS
<1>2. PICK n \in Nat : n = Len(s) /\ DOMAIN s = 1 .. n BY LenProperties
<1>3. PICK m \in Nat : m = Len(t) /\ DOMAIN t = 1 .. m BY LenProperties
<1>4. /\ u \in Seq(S) /\ Len(u) = n + m
      /\ \A k \in 1 .. n + m : u[k] = IF k <= n THEN s[k] ELSE t[k - n]
      BY <1>1, <1>2, <1>3, ConcatProperties
<1>5. DOMAIN u = 1 .. (n + m) BY <1>4, LenProperties
<1>6. \A k \in DOMAIN u : \/ k \in DOMAIN s /\ u[k] = s[k]
                          \/ k - n \in DOMAIN t /\ k > n /\ u[k] = t[k - n]
      BY <1>2, <1>3, <1>4, <1>5
<1>7. ASSUME NEW j \in DOMAIN u, NEW k \in DOMAIN u, u[j] = u[k], u[j] \notin A PROVE j = k
  <2>1. j \in Nat /\ k \in Nat BY <1>5
  <2>2. CASE j \in DOMAIN s /\ u[j] = s[j]
    <3>1. CASE k \in DOMAIN s /\ u[k] = s[k] BY <1>7, <2>2, <3>1 DEF RepeatsOnly
    <3>2. CASE k - n \in DOMAIN t /\ k > n /\ u[k] = t[k - n]
          BY <1>7, <2>2, <3>2 DEF ToSet
    <3> QED BY <1>6, <3>1, <3>2
  <2>3. CASE j - n \in DOMAIN t /\ j > n /\ u[j] = t[j - n]
    <3>1. CASE k \in DOMAIN s /\ u[k] = s[k] BY <1>7, <2>3, <3>1 DEF ToSet
    <3>2. CASE k - n \in DOMAIN t /\ k > n /\ u[k] = t[k - n]
      <4>1. j - n = k - n BY <1>7, <2>3, <3>2 DEF IsInjective
      <4> QED BY <2>1, <4>1
    <3> QED BY <1>6, <3>1, <3>2
  <2> QED BY <1>6, <2>2, <2>3
<1>8. RepeatsOnly(u, A) BY <1>7 DEF RepeatsOnly
<1> QED BY <1>1, <1>8

\* A list is its head and its tail, and a prefix of it holds nothing else.
LEMMA TailHolds ==
    ASSUME NEW S, NEW s \in Seq(S), s # <<>>, IsInjective(s)
    PROVE  /\ Head(s) \in S /\ Tail(s) \in Seq(S) /\ IsInjective(Tail(s))
           /\ ToSet(s) = ToSet(Tail(s)) \cup {Head(s)} /\ Head(s) \notin ToSet(Tail(s))
<1>1. PICK t : t = Tail(s) OBVIOUS
<1>2. PICK n \in Nat : n = Len(s) /\ DOMAIN s = 1 .. n BY LenProperties
<1>3. Head(s) \in S /\ t \in Seq(S) /\ Len(t) = n - 1 /\ \A i \in 1 .. Len(t) : t[i] = s[i + 1]
      BY <1>1, <1>2, HeadTailProperties
<1>4. n # 0 BY <1>2, EmptySeq
<1>5. Head(s) = s[1] BY <1>2, <1>4
<1>6. DOMAIN t = 1 .. n - 1 BY <1>3, LenProperties
<1>7. \A i \in 1 .. n - 1 : i + 1 \in DOMAIN s /\ i + 1 # 1 /\ t[i] = s[i + 1]
      BY <1>2, <1>3, <1>4
<1>8. \A i \in DOMAIN s : i = 1 \/ (i - 1 \in 1 .. n - 1 /\ t[i - 1] = s[i])
  <2> SUFFICES ASSUME NEW i \in DOMAIN s, i # 1 PROVE i - 1 \in 1 .. n - 1 /\ t[i - 1] = s[i]
      OBVIOUS
  <2>1. i - 1 \in 1 .. n - 1 /\ (i - 1) + 1 = i BY <1>2
  <2> QED BY <1>7, <2>1
<1>9. 1 \in DOMAIN s BY <1>2, <1>4
<1>10. IsInjective(t)
  <2> SUFFICES ASSUME NEW i \in 1 .. n - 1, NEW j \in 1 .. n - 1, t[i] = t[j] PROVE i = j
      BY <1>6 DEF IsInjective
  <2>1. i + 1 = j + 1 BY <1>7 DEF IsInjective
  <2> QED BY <2>1
<1>11. ToSet(t) \subseteq ToSet(s) /\ s[1] \in ToSet(s) BY <1>6, <1>7, <1>9 DEF ToSet
<1>12. ToSet(s) \subseteq ToSet(t) \cup {s[1]}
  <2> SUFFICES ASSUME NEW i \in DOMAIN s, i # 1 PROVE s[i] \in ToSet(t) BY DEF ToSet
  <2> QED BY <1>6, <1>8 DEF ToSet
<1>13. s[1] \notin ToSet(t) BY <1>6, <1>7, <1>9 DEF ToSet, IsInjective
<1> QED BY <1>1, <1>3, <1>5, <1>10, <1>11, <1>12, <1>13

LEMMA PrefixHolds ==
    ASSUME NEW S, NEW b \in Seq(S), IsInjective(b), NEW s \in Prefixes(b)
    PROVE  s \in Seq(S) /\ IsInjective(s) /\ ToSet(s) \subseteq ToSet(b)
<1>1. PICK n \in Nat : n = Len(b) /\ DOMAIN b = 1 .. n BY LenProperties
<1>2. PICK l \in 0 .. n : s = SubSeq(b, 1, l) BY <1>1 DEF Prefixes
<1>3. \A i \in 1 .. l : b[i] \in S /\ i \in DOMAIN b BY <1>1, ElementOfSeq
<1>4. /\ s \in Seq(S) /\ Len(s) = (IF 1 <= l THEN l - 1 + 1 ELSE 0)
      /\ \A i \in 1 .. l - 1 + 1 : s[i] = b[1 + i - 1]
      BY <1>2, <1>3, SubSeqProperties
<1>5. DOMAIN s = 1 .. l /\ \A i \in 1 .. l : s[i] = b[i]
  <2>1. Len(s) = l BY <1>4
  <2>2. \A i \in 1 .. l : i \in 1 .. l - 1 + 1 /\ 1 + i - 1 = i OBVIOUS
  <2> QED BY <1>4, <2>1, <2>2, LenProperties
<1>6. IsInjective(s) BY <1>3, <1>5 DEF IsInjective
<1>7. ToSet(s) \subseteq ToSet(b) BY <1>3, <1>5 DEF ToSet
<1> QED BY <1>4, <1>6, <1>7

\* A flush of the buffer b.
LEMMA FlushKeeps ==
    ASSUME NEW n \in Nat, NEW b \in Seq(1 .. n), IsInjective(b), FlushOf(b),
           NEW W, writes = W, \A c \in W : c \in Seq(1 .. n) /\ c # <<>> /\ IsInjective(c),
           \A c, d \in W : c # d => ToSet(c) \cap ToSet(d) = {},
           \A c \in W : ToSet(b) \cap ToSet(c) = {}
    PROVE  /\ buffer' = <<>> /\ ToSet(buffer') = {} /\ IsInjective(buffer')
           /\ Writing' = Writing \cup ToSet(b)
           /\ \A c \in writes' : c \in Seq(1 .. n) /\ c # <<>> /\ IsInjective(c)
           /\ \A c, d \in writes' : c # d => ToSet(c) \cap ToSet(d) = {}
<1>1. ToSet(<<>>) = {} /\ IsInjective(<<>>) BY DEF ToSet, IsInjective
<1>2. CASE b = <<>> BY <1>1, <1>2 DEF FlushOf, Writing
<1>3. CASE b # <<>>
  <2>1. writes' = W \cup {b} /\ buffer' = <<>> BY <1>3 DEF FlushOf
  <2>2. Writing' = Writing \cup ToSet(b) BY <2>1 DEF Writing
  <2> QED BY <1>1, <1>3, <2>1, <2>2
<1> QED BY <1>2, <1>3

\* Lines that are appended are in the file, but for one that continues a cut line.
LEMMA AppendsHold ==
    ASSUME NEW n \in Nat, NEW s \in Seq(1 .. n), IsInjective(s), NEW A, Appends(s),
           file \in Seq(1 .. n), RepeatsOnly(file, A), garbled \subseteq 1 .. n, IsFiniteSet(garbled),
           ToSet(s) \cap (ToSet(file) \cup garbled) \subseteq A, ToSet(file) \cap garbled \subseteq A
    PROVE  /\ file' \in Seq(1 .. n) /\ RepeatsOnly(file', A)
           /\ garbled' \subseteq 1 .. n /\ IsFiniteSet(garbled')
           /\ ToSet(file') \cup garbled' = ToSet(file) \cup garbled \cup ToSet(s)
           /\ ToSet(file') \cap garbled' \subseteq A
           /\ Cardinality(garbled) \in Nat
           /\ Cardinality(garbled') \in Nat
           /\ Cardinality(garbled') <= Cardinality(garbled) + 1
           /\ ~ Continues(s) => garbled' = garbled
<1>1. CASE ~ Continues(s)
  <2>1. file' = file \o s /\ garbled' = garbled BY <1>1 DEF Appends
  <2>2. file' \in Seq(1 .. n) /\ ToSet(file') = ToSet(file) \cup ToSet(s) BY <2>1, JoinHolds
  <2>3. RepeatsOnly(file', A) BY <2>1, JoinRepeats
  <2>4. Cardinality(garbled) \in Nat BY FS_CardinalityType
  <2> QED BY <2>1, <2>2, <2>3, <2>4
<1>2. CASE Continues(s)
  <2>1. PICK t : t = Tail(s) OBVIOUS
  <2>2. PICK h : h = Head(s) OBVIOUS
  <2>3. file' = file \o t /\ garbled' = garbled \cup {h} /\ s # <<>>
        BY <1>2, <2>1, <2>2 DEF Appends, Continues
  <2>4. /\ h \in 1 .. n /\ t \in Seq(1 .. n) /\ IsInjective(t)
        /\ ToSet(s) = ToSet(t) \cup {h} /\ h \notin ToSet(t)
        BY <2>1, <2>2, <2>3, TailHolds
  <2>5. file' \in Seq(1 .. n) /\ ToSet(file') = ToSet(file) \cup ToSet(t) BY <2>3, <2>4, JoinHolds
  <2>6. ToSet(file) \cap ToSet(t) \subseteq A BY <2>4
  <2>7. RepeatsOnly(file', A) BY <2>3, <2>4, <2>6, JoinRepeats
  <2>8. /\ IsFiniteSet(garbled') /\ Cardinality(garbled) \in Nat
        /\ Cardinality(garbled') = (IF h \in garbled THEN Cardinality(garbled) ELSE Cardinality(garbled) + 1)
        BY <2>3, FS_AddElement, FS_CardinalityType
  <2>9. Cardinality(garbled') \in Nat /\ Cardinality(garbled') <= Cardinality(garbled) + 1 BY <2>8
  <2>10. ToSet(file') \cup garbled' = ToSet(file) \cup garbled \cup ToSet(s) BY <2>3, <2>4, <2>5
  <2>11. ToSet(file') \cap garbled' \subseteq A BY <2>3, <2>4, <2>5
  <2> QED BY <1>2, <2>3, <2>4, <2>5, <2>7, <2>8, <2>9, <2>10, <2>11
<1> QED BY <1>1, <1>2

\* What is claimed of the file, of the events that are not in it, and of their number.
LEMMA KeptMeans ==
    EventsAreKept <=>
        /\ ToSet(buffer) \cup Writing \cup ToSet(file) \cup garbled \cup lost = 1 .. logged
        /\ ToSet(buffer) \cap (lost \cup Writing) = {} /\ lost \cap Writing = {}
        /\ \A c, d \in writes : c # d => ToSet(c) \cap ToSet(d) = {}
        /\ IsInjective(buffer) /\ \A c \in writes : IsInjective(c)
        /\ (ToSet(file) \cup garbled) \cap (ToSet(buffer) \cup lost \cup Writing) \subseteq again
        /\ ToSet(file) \cap garbled \subseteq again
        /\ RepeatsOnly(file, again)
        /\ Cardinality(garbled) <= partialWrites
BY DEF EventsAreKept, RepeatsOnly

LEMMA AuditStep == AuditInv /\ [AuditNext]_auditVars => AuditInv'
<1> SUFFICES ASSUME AuditInv, [AuditNext]_auditVars PROVE AuditInv' OBVIOUS
<1> USE DEF AuditInv
<1>1. PICK n \in Nat : n = logged BY DEF AuditTypeOK
<1>2. PICK W : W = writes OBVIOUS
<1>3. PICK b : b = buffer OBVIOUS
<1>4. /\ b \in Seq(1 .. n) /\ IsInjective(b)
      /\ \A c \in W : c \in Seq(1 .. n) /\ c # <<>> /\ IsInjective(c)
      /\ \A c, d \in W : c # d => ToSet(c) \cap ToSet(d) = {}
      /\ \A c \in W : ToSet(b) \cap ToSet(c) = {}
      BY <1>1, <1>2, <1>3, KeptMeans DEF AuditTypeOK, Writing
<1>5. /\ ToSet(b) \cup Writing \cup ToSet(file) \cup garbled \cup lost = 1 .. n
      /\ ToSet(b) \cap (lost \cup Writing) = {} /\ lost \cap Writing = {}
      /\ (ToSet(file) \cup garbled) \cap (ToSet(b) \cup lost \cup Writing) \subseteq again
      /\ ToSet(file) \cap garbled \subseteq again /\ RepeatsOnly(file, again)
      /\ Cardinality(garbled) <= partialWrites
      BY <1>1, <1>3, KeptMeans
<1>6. /\ file \in Seq(1 .. n) /\ cut \in BOOLEAN /\ garbled \subseteq 1 .. n /\ again \subseteq 1 .. n
      /\ partialWrites \in 0 .. MaxPartialWrites /\ IsFiniteSet(garbled) /\ lost \subseteq 1 .. n
      BY <1>1 DEF AuditTypeOK, CutsAreCounted
<1>7. CASE Log
  <2>1. n + 1 \in 0 .. MaxEvents /\ logged' = n + 1 /\ 1 .. n \subseteq 1 .. (n + 1)
        /\ n + 1 \in 1 .. (n + 1) /\ n + 1 \notin 1 .. n /\ 1 .. (n + 1) = (1 .. n) \cup {n + 1}
        BY <1>1, <1>7, AuditAssumption DEF Log, AuditTypeOK
  <2>2. PICK c : c = Append(b, n + 1) OBVIOUS
  <2>3. \A s \in Seq(1 .. n) : s \in Seq(1 .. (n + 1)) BY <2>1, SeqGrows
  <2>4. b \in Seq(1 .. (n + 1)) BY <1>4, <2>3
  <2>5. c \in Seq(1 .. (n + 1)) BY <2>1, <2>2, <2>4, AppendProperties
  <2>6. ToSet(b) \subseteq 1 .. n BY <1>5
  <2>7. ToSet(c) = ToSet(b) \cup {n + 1} /\ IsInjective(c)
        BY <1>4, <2>1, <2>2, <2>4, <2>6, AppendHolds
  <2>8. /\ \A d \in W : d \in Seq(1 .. (n + 1)) /\ d # <<>> /\ IsInjective(d)
        /\ \A d \in W : ToSet(c) \cap ToSet(d) = {}
    <3>1. \A d \in W : ToSet(d) \subseteq 1 .. n BY <1>2, <1>5 DEF Writing
    <3> QED BY <1>4, <2>1, <2>3, <2>7, <3>1
  <2>9. UNCHANGED <<file, cut, garbled, again, partialWrites, lost, service>>
        BY <1>7 DEF Log, fileVars
  <2>10. /\ buffer' \in Seq(1 .. (n + 1)) /\ IsInjective(buffer')
         /\ ToSet(buffer') \cup Writing' = ToSet(c) \cup Writing
         /\ ToSet(buffer') \cap Writing' = {}
         /\ \A d \in writes' : d \in Seq(1 .. (n + 1)) /\ d # <<>> /\ IsInjective(d)
         /\ \A d, e \in writes' : d # e => ToSet(d) \cap ToSet(e) = {}
    <3>1. CASE Len(c) >= BatchSize
      <4>1. FlushOf(c) BY <1>1, <1>3, <1>7, <2>1, <2>2, <3>1 DEF Log
      <4>2. /\ ToSet(buffer') = {} /\ IsInjective(buffer') /\ buffer' = <<>>
            /\ Writing' = Writing \cup ToSet(c)
            /\ \A d \in writes' : d \in Seq(1 .. (n + 1)) /\ d # <<>> /\ IsInjective(d)
            /\ \A d, e \in writes' : d # e => ToSet(d) \cap ToSet(e) = {}
            BY <1>2, <1>4, <2>1, <2>5, <2>7, <2>8, <4>1, FlushKeeps
      <4>3. buffer' \in Seq(1 .. (n + 1)) BY <4>2, EmptySeq
      <4> QED BY <4>2, <4>3
    <3>2. CASE ~ (Len(c) >= BatchSize)
      <4>1. buffer' = c /\ writes' = W /\ Writing' = Writing
            BY <1>1, <1>2, <1>3, <1>7, <2>1, <2>2, <3>2 DEF Log, Writing
      <4>2. ToSet(c) \cap Writing = {} BY <1>2, <2>8 DEF Writing
      <4> QED BY <1>4, <2>5, <2>7, <2>8, <4>1, <4>2
    <3> QED BY <3>1, <3>2
  <2>11. AuditTypeOK'
    <3>1. lost' \subseteq 1 .. (n + 1) /\ garbled' \cup again' \subseteq 1 .. (n + 1)
          BY <1>6, <2>1, <2>9
    <3>2. file' \in Seq(1 .. (n + 1)) BY <1>6, <2>3, <2>9
    <3> QED BY <2>1, <2>9, <2>10, <3>1, <3>2 DEF AuditTypeOK
  <2>12. EventsAreKept'
    <3>1. /\ ToSet(buffer') \cup Writing' \cup ToSet(file') \cup garbled' \cup lost' = 1 .. (n + 1)
          /\ ToSet(buffer') \cap (lost' \cup Writing') = {} /\ lost' \cap Writing' = {}
          /\ (ToSet(file') \cup garbled') \cap (ToSet(buffer') \cup lost' \cup Writing') \subseteq again'
          BY <1>5, <2>1, <2>7, <2>9, <2>10
    <3>2. ToSet(file') \cap garbled' \subseteq again' /\ RepeatsOnly(file', again')
          /\ Cardinality(garbled') <= partialWrites'
          BY <1>5, <2>9
    <3> QED BY <2>1, <2>10, <3>1, <3>2 DEF EventsAreKept, RepeatsOnly
  <2> QED BY <2>9, <2>11, <2>12 DEF CutsAreCounted
<1>8. ASSUME FlushOf(b), UNCHANGED <<logged, fileVars, lost>>,
             service' \in {"up", "closing", "closed", "stuck"}, service # "ended"
      PROVE  AuditInv'
  <2>1. /\ ToSet(buffer') = {} /\ IsInjective(buffer') /\ buffer' = <<>>
        /\ Writing' = Writing \cup ToSet(b)
        /\ \A d \in writes' : d \in Seq(1 .. n) /\ d # <<>> /\ IsInjective(d)
        /\ \A d, e \in writes' : d # e => ToSet(d) \cap ToSet(e) = {}
        BY <1>2, <1>4, <1>8, FlushKeeps
  <2>2. UNCHANGED <<logged, file, cut, garbled, again, partialWrites, lost>> BY <1>8 DEF fileVars
  <2>3. AuditTypeOK' BY <1>1, <1>8, <2>1, <2>2, EmptySeq DEF AuditTypeOK
  <2>4. EventsAreKept'
    <3>1. /\ ToSet(buffer') \cup Writing' \cup ToSet(file') \cup garbled' \cup lost' = 1 .. n
          /\ ToSet(buffer') \cap (lost' \cup Writing') = {} /\ lost' \cap Writing' = {}
          /\ (ToSet(file') \cup garbled') \cap (ToSet(buffer') \cup lost' \cup Writing') \subseteq again'
          BY <1>5, <2>1, <2>2
    <3>2. ToSet(file') \cap garbled' \subseteq again' /\ RepeatsOnly(file', again')
          /\ Cardinality(garbled') <= partialWrites'
          BY <1>5, <2>2
    <3> QED BY <1>1, <2>1, <2>2, <3>1, <3>2 DEF EventsAreKept, RepeatsOnly
  <2> QED BY <1>8, <2>2, <2>3, <2>4 DEF CutsAreCounted
<1>9. CASE FlushOnTimer BY <1>3, <1>8, <1>9 DEF FlushOnTimer
<1>10. CASE FlushOnQuery
  <2>1. service' \in {"up", "closing", "closed", "stuck"} /\ service # "ended"
        BY <1>10 DEF FlushOnQuery, Alive, AuditTypeOK
  <2> QED BY <1>3, <1>8, <1>10, <2>1 DEF FlushOnQuery
<1>11. CASE Shutdown BY <1>3, <1>8, <1>11 DEF Shutdown
<1>12. ASSUME NEW c \in writes PROVE
         /\ c \in Seq(1 .. n) /\ IsInjective(c) /\ ToSet(c) \subseteq Writing /\ ToSet(c) \cap ToSet(b) = {}
         /\ UNION {ToSet(d) : d \in W \ {c}} = Writing \ ToSet(c)
  <2>1. c \in Seq(1 .. n) /\ IsInjective(c) /\ ToSet(c) \cap ToSet(b) = {} BY <1>2, <1>4
  <2>2. ToSet(c) \subseteq Writing BY DEF Writing
  <2>3. UNION {ToSet(d) : d \in W \ {c}} \subseteq Writing \ ToSet(c)
    <3> SUFFICES ASSUME NEW d \in W \ {c}, NEW x \in ToSet(d) PROVE x \in Writing /\ x \notin ToSet(c)
        OBVIOUS
    <3> QED BY <1>2, <1>4 DEF Writing
  <2>4. Writing \ ToSet(c) \subseteq UNION {ToSet(d) : d \in W \ {c}}
    <3> SUFFICES ASSUME NEW x \in Writing, x \notin ToSet(c)
                 PROVE  \E d \in W \ {c} : x \in ToSet(d)
        OBVIOUS
    <3> QED BY <1>2 DEF Writing
  <2> QED BY <2>1, <2>2, <2>3, <2>4
<1>13. ASSUME NEW c \in writes, WriteSucceeds(c) PROVE AuditInv'
  <2>1. /\ writes' = W \ {c} /\ Appends(c) /\ cut' = FALSE
        /\ UNCHANGED <<logged, buffer, lost, again, partialWrites>>
        /\ service' \in {"up", "closing", "closed", "stuck"} /\ service # "ended" /\ lost = {}
        BY <1>2, <1>13 DEF WriteSucceeds, Alive, AuditTypeOK
  <2>2. /\ c \in Seq(1 .. n) /\ IsInjective(c) /\ ToSet(c) \subseteq Writing
        /\ Writing' = Writing \ ToSet(c)
        BY <1>12, <2>1 DEF Writing
  <2>3. ToSet(c) \cap (ToSet(file) \cup garbled) \subseteq again BY <1>5, <2>2
  <2>4. /\ file' \in Seq(1 .. n) /\ RepeatsOnly(file', again)
        /\ garbled' \subseteq 1 .. n /\ IsFiniteSet(garbled')
        /\ ToSet(file') \cup garbled' = ToSet(file) \cup garbled \cup ToSet(c)
        /\ ToSet(file') \cap garbled' \subseteq again
        /\ Cardinality(garbled) \in Nat /\ Cardinality(garbled') \in Nat
        /\ Cardinality(garbled') <= Cardinality(garbled) + 1
        /\ ~ Continues(c) => garbled' = garbled
        BY <1>5, <1>6, <2>1, <2>2, <2>3, AppendsHold
  <2>5. Cardinality(garbled') <= partialWrites
    <3>1. CASE ~ Continues(c) BY <1>5, <2>4, <3>1
    <3>2. CASE Continues(c)
      <4>1. Cardinality(garbled) + 1 <= partialWrites BY <3>2 DEF Continues, CutsAreCounted
      <4> QED BY <1>6, <2>4, <4>1
    <3> QED BY <3>1, <3>2
  <2>6. AuditTypeOK'
    <3>1. \A d \in writes' : d \in Seq(1 .. n) /\ d # <<>> BY <1>4, <2>1
    <3>2. garbled' \cup again' \subseteq 1 .. n /\ lost' \subseteq 1 .. n BY <1>6, <2>1, <2>4
    <3>3. buffer' \in Seq(1 .. n) /\ file' \in Seq(1 .. n) BY <1>3, <1>4, <2>1, <2>4
    <3>4. logged' = n /\ n \in 0 .. MaxEvents /\ partialWrites' \in 0 .. MaxPartialWrites
          BY <1>1, <1>6, <2>1 DEF AuditTypeOK
    <3>5. cut' \in BOOLEAN /\ service' \in {"up", "closing", "closed", "stuck", "ended"} BY <2>1
    <3> QED BY <3>1, <3>2, <3>3, <3>4, <3>5 DEF AuditTypeOK
  <2>7. EventsAreKept'
    <3>1. /\ ToSet(b) \cup Writing' \cup ToSet(file') \cup garbled' \cup lost' = 1 .. n
          /\ ToSet(b) \cap (lost' \cup Writing') = {} /\ lost' \cap Writing' = {}
          BY <1>5, <2>1, <2>2, <2>4
    <3>2. (ToSet(file') \cup garbled') \cap (ToSet(b) \cup lost' \cup Writing') \subseteq again'
          BY <1>5, <2>1, <2>2, <2>4
    <3>3. buffer' = b /\ IsInjective(b) /\ \A d \in writes' : IsInjective(d) BY <1>3, <1>4, <2>1
    <3>4. \A d, e \in writes' : d # e => ToSet(d) \cap ToSet(e) = {} BY <1>4, <2>1
    <3>5. Cardinality(garbled') <= partialWrites' /\ RepeatsOnly(file', again')
          /\ ToSet(file') \cap garbled' \subseteq again' /\ logged' = n
          BY <1>1, <2>1, <2>4, <2>5
    <3> QED BY <3>1, <3>2, <3>3, <3>4, <3>5 DEF EventsAreKept, RepeatsOnly
  <2>8. CutsAreCounted' BY <2>1, <2>4, <2>5 DEF CutsAreCounted
  <2> QED BY <2>1, <2>6, <2>7, <2>8
<1>14. ASSUME NEW c \in writes, WriteFails(c) PROVE AuditInv'
  <2>1. /\ writes' = W \ {c} /\ buffer' = c \o b /\ UNCHANGED <<logged, lost>>
        /\ service' \in {"up", "closing", "closed", "stuck"} /\ service # "ended" /\ lost = {}
        BY <1>2, <1>3, <1>14 DEF WriteFails, Restore, Alive, AuditTypeOK
  <2>2. /\ c \in Seq(1 .. n) /\ IsInjective(c) /\ ToSet(c) \subseteq Writing
        /\ ToSet(c) \cap ToSet(b) = {} /\ Writing' = Writing \ ToSet(c)
        BY <1>12, <2>1 DEF Writing
  <2>3. /\ buffer' \in Seq(1 .. n) /\ IsInjective(buffer')
        /\ ToSet(buffer') = ToSet(c) \cup ToSet(b)
        BY <1>4, <2>1, <2>2, JoinHolds
  <2>4. \* what the append that failed has done to the file
        /\ file' \in Seq(1 .. n) /\ RepeatsOnly(file', again') /\ cut' \in BOOLEAN
        /\ garbled' \cup again' \subseteq 1 .. n /\ IsFiniteSet(garbled')
        /\ partialWrites' \in 0 .. MaxPartialWrites
        /\ again \subseteq again' /\ again' \subseteq again \cup ToSet(c)
        /\ ToSet(file) \cup garbled \subseteq ToSet(file') \cup garbled'
        /\ ToSet(file') \cup garbled' \subseteq ToSet(file) \cup garbled \cup again'
        /\ ToSet(file') \cap garbled' \subseteq again'
        /\ Cardinality(garbled') \in Nat
        /\ Cardinality(garbled') + (IF cut' THEN 1 ELSE 0) <= partialWrites'
    <3>1. CASE FailsUntouched
      <4>1. UNCHANGED <<file, cut, garbled, again, partialWrites>>
            BY <3>1 DEF FailsUntouched, fileVars
      <4>2. Cardinality(garbled) \in Nat BY <1>6, FS_CardinalityType
      <4> QED BY <1>5, <1>6, <4>1, <4>2 DEF CutsAreCounted
    <3>2. CASE FailsPartly(c)
      <4>1. PICK s \in Prefixes(c) : /\ Appends(s) /\ again' = again \cup ToSet(s)
                                     /\ \/ s # <<>> /\ cut' = FALSE
                                        \/ s # c /\ cut' = TRUE
            BY <3>2 DEF FailsPartly
      <4>2. s \in Seq(1 .. n) /\ IsInjective(s) /\ ToSet(s) \subseteq ToSet(c)
            BY <2>2, PrefixHolds
      <4>3. PICK A : A = again \cup ToSet(s) OBVIOUS
      <4>4. /\ ToSet(s) \cap (ToSet(file) \cup garbled) \subseteq A
            /\ ToSet(file) \cap garbled \subseteq A /\ RepeatsOnly(file, A)
            BY <1>5, <4>3 DEF RepeatsOnly
      <4>5. /\ file' \in Seq(1 .. n) /\ RepeatsOnly(file', A)
            /\ garbled' \subseteq 1 .. n /\ IsFiniteSet(garbled')
            /\ ToSet(file') \cup garbled' = ToSet(file) \cup garbled \cup ToSet(s)
            /\ ToSet(file') \cap garbled' \subseteq A
            /\ Cardinality(garbled) \in Nat /\ Cardinality(garbled') \in Nat
            /\ Cardinality(garbled') <= Cardinality(garbled) + 1
            /\ ~ Continues(s) => garbled' = garbled
            BY <1>6, <4>1, <4>2, <4>4, AppendsHold
      <4>6. partialWrites' = partialWrites + 1 /\ partialWrites' \in 0 .. MaxPartialWrites
            BY <1>6, <3>2, AuditAssumption DEF FailsPartly
      <4>7. PICK k \in 0 .. 1 : k = (IF cut' THEN 1 ELSE 0) OBVIOUS
      <4>8. Cardinality(garbled') + k <= partialWrites'
        <5>1. CASE ~ Continues(s) BY <1>5, <1>6, <4>5, <4>6, <5>1
        <5>2. CASE Continues(s)
          <6>1. Cardinality(garbled) + 1 <= partialWrites BY <5>2 DEF Continues, CutsAreCounted
          <6> QED BY <1>6, <4>5, <4>6, <6>1
        <5> QED BY <5>1, <5>2
      <4>9. ToSet(s) \subseteq 1 .. n BY <1>5, <2>2, <4>2
      <4>10. /\ again' = A /\ cut' \in BOOLEAN /\ A \subseteq 1 .. n
             /\ again \subseteq A /\ A \subseteq again \cup ToSet(c) /\ ToSet(s) \subseteq A
             BY <1>6, <4>1, <4>2, <4>3, <4>9
      <4> QED BY <4>5, <4>6, <4>7, <4>8, <4>10
    <3> QED BY <1>14, <3>1, <3>2 DEF WriteFails
  <2>5. AuditTypeOK'
    <3>1. \A d \in writes' : d \in Seq(1 .. n) /\ d # <<>> BY <1>4, <2>1
    <3>2. lost' \subseteq 1 .. n /\ logged' = n /\ n \in 0 .. MaxEvents
          BY <1>1, <1>6, <2>1 DEF AuditTypeOK
    <3>3. service' \in {"up", "closing", "closed", "stuck", "ended"} BY <2>1
    <3> QED BY <2>3, <2>4, <3>1, <3>2, <3>3 DEF AuditTypeOK
  <2>6. EventsAreKept'
    <3>1. ToSet(buffer') \cup Writing' = ToSet(b) \cup Writing /\ lost' = {} BY <2>1, <2>2, <2>3
    <3>2. ToSet(buffer') \cup Writing' \cup ToSet(file') \cup garbled' \cup lost' = 1 .. n
      <4>1. ToSet(b) \cup Writing \cup ToSet(file) \cup garbled = 1 .. n BY <1>5, <2>1
      <4>2. ToSet(file') \cup garbled' \subseteq 1 .. n BY <1>5, <2>4
      <4> QED BY <2>4, <3>1, <4>1, <4>2
    <3>3. ToSet(buffer') \cap (lost' \cup Writing') = {} /\ lost' \cap Writing' = {}
          BY <1>5, <2>2, <2>3, <3>1
    <3>4. (ToSet(file') \cup garbled') \cap (ToSet(buffer') \cup lost' \cup Writing') \subseteq again'
          BY <1>5, <2>1, <2>4, <3>1
    <3>5. \A d \in writes' : IsInjective(d) BY <1>4, <2>1
    <3>6. \A d, e \in writes' : d # e => ToSet(d) \cap ToSet(e) = {} BY <1>4, <2>1
    <3>7. Cardinality(garbled') <= partialWrites' BY <2>4
    <3> QED BY <1>1, <2>1, <2>3, <2>4, <3>2, <3>3, <3>4, <3>5, <3>6, <3>7 DEF EventsAreKept, RepeatsOnly
  <2>7. CutsAreCounted' BY <2>4 DEF CutsAreCounted
  <2> QED BY <2>1, <2>5, <2>6, <2>7
<1>15. CASE ProcessEnds
  <2>1. /\ buffer' = <<>> /\ writes' = {} /\ UNCHANGED <<logged, fileVars>> /\ service' = "ended"
        /\ lost' = ToSet(b) \cup Writing /\ lost = {}
        BY <1>3, <1>15 DEF ProcessEnds, Alive, Writing
  <2>2. ToSet(<<>>) = {} /\ IsInjective(<<>>) BY DEF ToSet, IsInjective
  <2>3. Writing' = {} BY <2>1 DEF Writing
  <2>4. UNCHANGED <<file, cut, garbled, again, partialWrites>> BY <2>1 DEF fileVars
  <2>5. lost' \subseteq 1 .. n BY <1>5, <2>1
  <2>6. AuditTypeOK' BY <1>1, <2>1, <2>4, <2>5, EmptySeq DEF AuditTypeOK
  <2>7. EventsAreKept'
    <3>1. /\ ToSet(buffer') \cup Writing' \cup ToSet(file') \cup garbled' \cup lost' = 1 .. n
          /\ ToSet(buffer') \cap (lost' \cup Writing') = {} /\ lost' \cap Writing' = {}
          /\ (ToSet(file') \cup garbled') \cap (ToSet(buffer') \cup lost' \cup Writing') \subseteq again'
          BY <1>5, <2>1, <2>2, <2>3, <2>4
    <3>2. ToSet(file') \cap garbled' \subseteq again' /\ RepeatsOnly(file', again')
          /\ Cardinality(garbled') <= partialWrites'
          BY <1>5, <2>4
    <3> QED BY <1>1, <2>1, <2>2, <3>1, <3>2 DEF EventsAreKept, RepeatsOnly
  <2> QED BY <2>1, <2>4, <2>6, <2>7 DEF CutsAreCounted
<1>16. CASE UNCHANGED auditVars
  <2>1. UNCHANGED <<logged, buffer, writes, file, cut, garbled, again, partialWrites, service, lost>>
        BY <1>16 DEF auditVars, fileVars
  <2>2. AuditTypeOK' BY <2>1 DEF AuditTypeOK
  <2>3. EventsAreKept' BY <2>1 DEF EventsAreKept, Writing
  <2> QED BY <2>1, <2>2, <2>3 DEF CutsAreCounted
<1> QED BY <1>7, <1>9, <1>10, <1>11, <1>13, <1>14, <1>15, <1>16 DEF AuditNext

LEMMA AuditAlways == AuditInit /\ [][AuditNext]_auditVars => []AuditInv
BY AuditInitially, AuditStep, PTL

-----------------------------------------------------------------------------
(***************************************************************************)
(* The recorder. An artifact follows the one recorded before it, time does *)
(* not go back, and what is cached of a prompt is that of its last         *)
(* artifact whose prompt's hash was sent; an entry that went had expired,  *)
(* and so have the artifacts before it.                                    *)
(***************************************************************************)

Artifacts ==
    [workflow : RecordedWorkflows, number : 1 .. MaxSequence, prompt : Prompts,
     response : Responses, sent : SentHashes, timestamp : 0 .. MaxReplayTime, previous : Nat]

\* The hashes under which and as which the response of an artifact is cached.
Key(r) == IF "prompt" \in r.sent THEN r.prompt ELSE NoHash
Hash(r) == IF "response" \in r.sent THEN r.response ELSE NoHash

\* p's entry in the cache is that of artifact k, and of no later one.
CachedBy(p, k) ==
    /\ Key(artifacts[k]) = p /\ promptCache[p].response = Hash(artifacts[k])
    /\ promptCache[p].expiresAt = artifacts[k].timestamp + PromptTtl
    /\ \A j \in DOMAIN artifacts : j > k => Key(artifacts[j]) # p

ReplayTyped ==
    /\ artifacts \in Seq(Artifacts) /\ Len(artifacts) <= MaxArtifacts
    /\ DOMAIN promptCache \subseteq Prompts \cup {NoHash}
    /\ promptCache = [p \in DOMAIN promptCache |-> promptCache[p]]
    /\ replayClock \in 0 .. MaxReplayTime
    /\ sealed \in Nat /\ merkleRoot \in Nat
    /\ sealed <= merkleRoot /\ merkleRoot <= Len(artifacts)

ReplayInv ==
    /\ ReplayTyped
    /\ \A k \in DOMAIN artifacts :
          artifacts[k].previous = k - 1 /\ artifacts[k].timestamp <= replayClock
    /\ \A j, k \in DOMAIN artifacts : j < k => artifacts[j].timestamp <= artifacts[k].timestamp
    /\ \A p \in DOMAIN promptCache : \E k \in DOMAIN artifacts : CachedBy(p, k)
    /\ \A k \in DOMAIN artifacts : Key(artifacts[k]) \notin DOMAIN promptCache
          => artifacts[k].timestamp + PromptTtl < replayClock

LEMMA ReplayInitially == ReplayInit => ReplayInv
<1> SUFFICES ASSUME ReplayInit PROVE ReplayInv OBVIOUS
<1> USE DEF ReplayInit
<1>1. artifacts \in Seq(Artifacts) /\ Len(artifacts) = 0 /\ DOMAIN artifacts = {} BY EmptySeq
<1>2. DOMAIN promptCache = {} /\ promptCache = [p \in DOMAIN promptCache |-> promptCache[p]] OBVIOUS
<1>3. 0 \in 0 .. MaxReplayTime /\ 0 <= MaxArtifacts BY ReplayAssumption
<1> QED BY <1>1, <1>2, <1>3 DEF ReplayInv, ReplayTyped

LEMMA RecordArtifactKeeps ==
    ASSUME ReplayInv, NEW w \in RecordedWorkflows, NEW prompt \in Prompts, NEW response \in Responses,
           NEW number \in 1 .. MaxSequence, NEW h \in SentHashes,
           RecordArtifact(w, number, prompt, response, h)
    PROVE  ReplayInv'
<1> USE DEF ReplayInv, ReplayTyped
<1>1. PICK a : a = artifacts OBVIOUS
<1>2. PICK b : b = artifacts' OBVIOUS
<1>3. PICK c : c = promptCache OBVIOUS
<1>4. PICK d : d = promptCache' OBVIOUS
<1>5. PICK now \in 0 .. MaxReplayTime : now = replayClock OBVIOUS
<1>6. PICK n \in Nat : n = Len(a) /\ DOMAIN a = 1 .. n /\ a \in Seq(Artifacts)
      BY <1>1, LenProperties
<1>7. PICK r : r = [workflow |-> w, number |-> number, prompt |-> prompt, response |-> response,
                    sent |-> h, timestamp |-> now, previous |-> n]
      OBVIOUS
<1>8. PICK key : key = (IF "prompt" \in h THEN prompt ELSE NoHash) OBVIOUS
<1>9. PICK hash : hash = (IF "response" \in h THEN response ELSE NoHash) OBVIOUS
<1>10. PICK x : x = [response |-> hash, expiresAt |-> now + PromptTtl] OBVIOUS
<1>11. /\ n < MaxArtifacts /\ b = Append(a, r)
      /\ d = [p \in DOMAIN c \cup {key} |-> IF p = key THEN x ELSE c[p]]
      /\ UNCHANGED <<merkleRoot, merkleTimer, replayClock, sealed>>
      BY <1>1, <1>2, <1>3, <1>4, <1>5, <1>6, <1>7, <1>10, <1>8, <1>9 DEF RecordArtifact, CachePromptResponse
<1>12. r \in Artifacts BY <1>7, <1>6, ReplayAssumption DEF Artifacts
<1>13. Key(r) = key /\ Hash(r) = hash /\ r.timestamp = now /\ r.previous = n
       BY <1>7, <1>8, <1>9 DEF Key, Hash
<1>14. key \in Prompts \cup {NoHash} BY <1>8
<1>15. x.response = hash /\ x.expiresAt = now + PromptTtl BY <1>10
<1>16. /\ b \in Seq(Artifacts) /\ Len(b) = n + 1
       /\ (\A k \in 1 .. n : b[k] = a[k]) /\ b[n + 1] = r
       BY <1>6, <1>11, <1>12, AppendProperties
<1>17. DOMAIN b = (1 .. n) \cup {n + 1} BY <1>16, LenProperties
<1>18. \A k \in 1 .. n : b[k] = a[k] /\ a[k] \in Artifacts BY <1>6, <1>16, ElementOfSeq
<1>19. \A k \in 1 .. n : a[k].timestamp \in Nat BY <1>18 DEF Artifacts
<1>20. /\ DOMAIN d = DOMAIN c \cup {key} /\ d[key] = x
       /\ (\A p \in DOMAIN c : p # key => d[p] = c[p])
       /\ d = [p \in DOMAIN d |-> d[p]]
       BY <1>11
<1>21. ReplayTyped'
  <2>1. merkleRoot <= n + 1 /\ n + 1 <= MaxArtifacts
        BY <1>1, <1>6, <1>11, ReplayAssumption
  <2> QED BY <1>2, <1>3, <1>4, <1>5, <1>11, <1>16, <1>20, <1>14, <2>1
<1>22. \A k \in DOMAIN b : b[k].previous = k - 1 /\ b[k].timestamp <= now
  <2> SUFFICES ASSUME NEW k \in DOMAIN b PROVE b[k].previous = k - 1 /\ b[k].timestamp <= now
      OBVIOUS
  <2>1. CASE k \in 1 .. n BY <1>1, <1>5, <1>6, <1>18, <2>1
  <2>2. CASE k = n + 1 BY <1>6, <1>13, <1>16, <2>2
  <2> QED BY <1>17, <2>1, <2>2
<1>23. \A j, k \in DOMAIN b : j < k => b[j].timestamp <= b[k].timestamp
  <2> SUFFICES ASSUME NEW j \in DOMAIN b, NEW k \in DOMAIN b, j < k
               PROVE  b[j].timestamp <= b[k].timestamp
      OBVIOUS
  <2>1. j \in 1 .. n BY <1>17
  <2>2. CASE k \in 1 .. n BY <1>1, <1>6, <1>18, <2>1, <2>2
  <2>3. CASE k = n + 1 BY <1>13, <1>16, <1>22, <2>3
  <2> QED BY <1>17, <2>2, <2>3
<1>24. ASSUME NEW p \in DOMAIN d
       PROVE  \E k \in DOMAIN b : /\ Key(b[k]) = p /\ d[p].response = Hash(b[k])
                                  /\ d[p].expiresAt = b[k].timestamp + PromptTtl
                                  /\ \A j \in DOMAIN b : j > k => Key(b[j]) # p
  <2>1. CASE p = key
    <3>1. n + 1 \in DOMAIN b /\ \A j \in DOMAIN b : ~ (j > n + 1) BY <1>17
    <3> QED BY <1>13, <1>15, <1>16, <1>20, <2>1, <3>1
  <2>2. CASE p # key
    <3>1. p \in DOMAIN c /\ d[p] = c[p] BY <1>20, <2>2
    <3>2. PICK k \in DOMAIN a : /\ Key(a[k]) = p /\ c[p].response = Hash(a[k])
                                /\ c[p].expiresAt = a[k].timestamp + PromptTtl
                                /\ \A j \in DOMAIN a : j > k => Key(a[j]) # p
          BY <1>1, <1>3, <3>1 DEF CachedBy
    <3>3. k \in DOMAIN b /\ b[k] = a[k] BY <1>6, <1>17, <1>18
    <3>4. \A j \in DOMAIN b : j > k => Key(b[j]) # p
          BY <1>6, <1>13, <1>16, <1>17, <1>18, <2>2, <3>2
    <3> QED BY <3>1, <3>2, <3>3, <3>4
  <2> QED BY <2>1, <2>2
<1>25. \A k \in DOMAIN b : Key(b[k]) \notin DOMAIN d => b[k].timestamp + PromptTtl < now
  <2> SUFFICES ASSUME NEW k \in DOMAIN b, Key(b[k]) \notin DOMAIN d
               PROVE  b[k].timestamp + PromptTtl < now
      OBVIOUS
  <2>1. k # n + 1 BY <1>13, <1>16, <1>20
  <2>2. k \in DOMAIN a /\ b[k] = a[k] BY <1>6, <1>17, <1>18, <2>1
  <2>3. Key(a[k]) \notin DOMAIN c BY <1>20, <2>2
  <2> QED BY <1>1, <1>3, <1>5, <2>2, <2>3
<1>26. \A p \in DOMAIN promptCache' : \E k \in DOMAIN artifacts' : CachedBy(p, k)'
       BY <1>2, <1>4, <1>24 DEF CachedBy
<1> QED BY <1>2, <1>4, <1>5, <1>11, <1>21, <1>22, <1>23, <1>25, <1>26

LEMMA ReplayArtifactKeeps ==
    ASSUME ReplayInv, NEW k \in DOMAIN artifacts, ReplayArtifact(k)
    PROVE  ReplayInv'
<1> USE DEF ReplayInv, ReplayTyped
<1>1. UNCHANGED <<artifacts, merkleRoot, merkleTimer, replayClock, sealed>> BY DEF ReplayArtifact
<1>2. PICK p : p = artifacts[k].prompt OBVIOUS
<1>3. CASE Cached(p)
  <2>1. UNCHANGED promptCache BY <1>2, <1>3 DEF ReplayArtifact
  <2> QED BY <1>1, <2>1 DEF CachedBy
<1>4. CASE ~Cached(p)
  <2>1. PICK c : c = promptCache OBVIOUS
  <2>2. PICK d : d = promptCache' OBVIOUS
  <2>3. d = [q \in DOMAIN c \ {p} |-> c[q]] BY <1>2, <1>4, <2>1, <2>2 DEF ReplayArtifact, Restrict
  <2>4. /\ DOMAIN d = DOMAIN c \ {p} /\ (\A q \in DOMAIN d : d[q] = c[q])
        /\ d = [q \in DOMAIN d |-> d[q]]
        BY <2>3
  <2>5. \A q \in DOMAIN d : \E l \in DOMAIN artifacts : CachedBy(q, l)'
    <3> SUFFICES ASSUME NEW q \in DOMAIN d PROVE \E l \in DOMAIN artifacts : CachedBy(q, l)' OBVIOUS
    <3>1. PICK l \in DOMAIN artifacts : CachedBy(q, l) BY <2>1, <2>4
    <3>2. CachedBy(q, l)' BY <1>1, <2>1, <2>2, <2>4, <3>1 DEF CachedBy
    <3> QED BY <3>2
  <2>6. ASSUME NEW j \in DOMAIN artifacts, Key(artifacts[j]) \notin DOMAIN d
        PROVE  artifacts[j].timestamp + PromptTtl < replayClock
    <3>1. CASE Key(artifacts[j]) \notin DOMAIN c BY <2>1, <3>1
    <3>2. CASE Key(artifacts[j]) \in DOMAIN c
      <4>1. Key(artifacts[j]) = p BY <2>4, <2>6, <3>2
      <4>2. PICK l \in DOMAIN artifacts : CachedBy(p, l) BY <2>1, <3>2, <4>1
      <4>3. ~ (c[p].expiresAt >= replayClock) BY <1>4, <2>1, <3>2, <4>1 DEF Cached
      <4>4. c[p].expiresAt = artifacts[l].timestamp + PromptTtl BY <2>1, <4>2 DEF CachedBy
      <4>5. artifacts[j] \in Artifacts /\ artifacts[l] \in Artifacts /\ j \in Nat /\ l \in Nat
        <5>1. PICK a : a = artifacts OBVIOUS
        <5>2. a \in Seq(Artifacts) BY <5>1
        <5>3. DOMAIN a = 1 .. Len(a) /\ Len(a) \in Nat BY <5>2, LenProperties
        <5>4. j \in 1 .. Len(a) /\ l \in 1 .. Len(a) BY <5>1, <5>3
        <5> QED BY <5>1, <5>2, <5>3, <5>4, ElementOfSeq
      <4>6. artifacts[j].timestamp \in Nat /\ artifacts[l].timestamp \in Nat
            BY <4>5 DEF Artifacts
      <4>7. ~ (j > l) BY <4>1, <4>2 DEF CachedBy
      <4>8. artifacts[j].timestamp <= artifacts[l].timestamp BY <4>5, <4>6, <4>7
      <4>9. replayClock \in Nat /\ PromptTtl \in Nat BY ReplayAssumption
      <4>10. ~ (artifacts[l].timestamp + PromptTtl >= replayClock) BY <4>3, <4>4
      <4> HIDE DEF ReplayInv, ReplayTyped
      <4> QED BY <4>6, <4>8, <4>9, <4>10
    <3> QED BY <3>1, <3>2
  <2> QED BY <1>1, <2>1, <2>2, <2>4, <2>5, <2>6
<1> QED BY <1>2, <1>3, <1>4

LEMMA ReplayStep == ReplayInv /\ [ReplayNext]_replayVars => ReplayInv'
<1> SUFFICES ASSUME ReplayInv, [ReplayNext]_replayVars PROVE ReplayInv' OBVIOUS
<1>1. ASSUME UNCHANGED <<artifacts, promptCache, replayClock>>,
             merkleRoot' = Len(artifacts) \/ UNCHANGED merkleRoot,
             (sealed' = Len(artifacts) /\ merkleRoot' = Len(artifacts)) \/ UNCHANGED sealed
      PROVE  ReplayInv'
  <2>1. Len(artifacts) \in Nat BY LenProperties DEF ReplayInv, ReplayTyped
  <2>2. ReplayTyped' BY <1>1, <2>1 DEF ReplayInv, ReplayTyped
  <2> QED BY <1>1, <2>2 DEF ReplayInv, CachedBy
<1>2. CASE InitializeRecorder BY <1>1, <1>2 DEF InitializeRecorder
<1>3. CASE CommitMerkleRoot BY <1>1, <1>3 DEF CommitMerkleRoot, Commit
<1>4. CASE ShutdownRecorder BY <1>1, <1>4 DEF ShutdownRecorder, Commit
<1>5. ASSUME NEW w \in RecordedWorkflows, NEW p \in Prompts, NEW r \in Responses,
             NEW number \in 1 .. MaxSequence, NEW h \in SentHashes,
             RecordArtifact(w, number, p, r, h)
      PROVE  ReplayInv'
      BY <1>5, RecordArtifactKeeps
<1>6. ASSUME NEW k \in DOMAIN artifacts, ReplayArtifact(k) PROVE ReplayInv'
      BY <1>6, ReplayArtifactKeeps
<1>7. CASE ReplayTick
  <2>1. /\ UNCHANGED <<artifacts, merkleRoot, promptCache, sealed>>
        /\ replayClock \in Nat /\ replayClock' = replayClock + 1
        /\ replayClock' \in 0 .. MaxReplayTime
        BY <1>7, ReplayAssumption DEF ReplayTick, ReplayInv, ReplayTyped
  <2>2. \A k \in DOMAIN artifacts : artifacts[k].timestamp \in Nat
    <3>1. PICK a : a = artifacts OBVIOUS
    <3>2. a \in Seq(Artifacts) BY <3>1 DEF ReplayInv, ReplayTyped
    <3>3. \A k \in DOMAIN a : a[k] \in Artifacts BY <3>2, LenProperties, ElementOfSeq
    <3> QED BY <3>1, <3>3 DEF Artifacts
  <2>3. ReplayTyped' BY <2>1 DEF ReplayInv, ReplayTyped
  <2>4. \A k \in DOMAIN artifacts : artifacts[k].timestamp <= replayClock'
        BY <2>1, <2>2 DEF ReplayInv
  <2>5. \A k \in DOMAIN artifacts : Key(artifacts[k]) \notin DOMAIN promptCache
           => artifacts[k].timestamp + PromptTtl < replayClock'
        BY <2>1, <2>2, ReplayAssumption DEF ReplayInv
  <2>6. \A p \in DOMAIN promptCache : \E k \in DOMAIN artifacts : CachedBy(p, k)'
        BY <2>1 DEF ReplayInv, CachedBy
  <2>7. \A k \in DOMAIN artifacts : artifacts[k].previous = k - 1 BY DEF ReplayInv
  <2>8. \A j, k \in DOMAIN artifacts : j < k => artifacts[j].timestamp <= artifacts[k].timestamp
        BY DEF ReplayInv
  <2> QED BY <2>1, <2>3, <2>4, <2>5, <2>6, <2>7, <2>8 DEF ReplayInv
<1>8. CASE UNCHANGED replayVars BY <1>1, <1>8 DEF replayVars
<1> QED BY <1>2, <1>3, <1>4, <1>5, <1>6, <1>7, <1>8 DEF ReplayNext

LEMMA ReplayAlways == ReplayInit /\ [][ReplayNext]_replayVars => []ReplayInv
BY ReplayInitially, ReplayStep, PTL

\* A set that is not empty has a member first by one measure, and then by another.
LEMMA FirstByTwo ==
    ASSUME NEW S, S # {}, NEW f, NEW g, \A s \in S : f[s] \in Nat /\ g[s] \in Nat
    PROVE  \E m \in S : \A s \in S : f[m] < f[s] \/ (f[m] = f[s] /\ g[m] <= g[s])
<1>1. PICK x \in {f[s] : s \in S} : \A y \in {f[s] : s \in S} : x <= y BY LeastNumber
<1>2. PICK T : T = {s \in S : f[s] = x} OBVIOUS
<1>3. T # {} /\ T \subseteq S BY <1>1, <1>2
<1>4. PICK z \in {g[s] : s \in T} : \A y \in {g[s] : s \in T} : z <= y BY <1>3, LeastNumber
<1>5. PICK m \in T : g[m] = z BY <1>4
<1>6. m \in S /\ f[m] = x BY <1>2, <1>5
<1>7. ASSUME NEW s \in S PROVE f[m] < f[s] \/ (f[m] = f[s] /\ g[m] <= g[s])
  <2>1. CASE s \in T BY <1>2, <1>4, <1>5, <1>6, <2>1
  <2>2. CASE s \notin T
    <3>1. f[s] # x /\ x <= f[s] BY <1>1, <1>2, <2>2
    <3> QED BY <1>6, <3>1
  <2> QED BY <2>1, <2>2
<1> QED BY <1>6, <1>7

-----------------------------------------------------------------------------
\* What is known of the artifacts of a workflow.
LEMMA OfWorkflowIs ==
    ASSUME ReplayInv, NEW w
    PROVE  \A k \in Of(w) : /\ k \in 1 .. Len(artifacts) /\ k \in Nat
                            /\ artifacts[k].number \in 1 .. MaxSequence
                            /\ artifacts[k].previous = k - 1 /\ artifacts[k].timestamp \in Nat
<1>1. PICK a : a = artifacts OBVIOUS
<1>2. a \in Seq(Artifacts) BY <1>1 DEF ReplayInv, ReplayTyped
<1>3. DOMAIN a = 1 .. Len(a) /\ Len(a) \in Nat BY <1>2, LenProperties
<1>4. \A k \in DOMAIN a : a[k] \in Artifacts BY <1>2, <1>3, ElementOfSeq
<1>5. \A k \in DOMAIN a : a[k].previous = k - 1 BY <1>1 DEF ReplayInv
<1> QED BY <1>1, <1>3, <1>4, <1>5 DEF Of, Artifacts

LEMMA ChainTells ==
    ASSUME ReplayInv, NEW w
    PROVE  ChainIsValid(w) <=> InOrder(w) /\ Contiguous(w)
<1>1. PICK O : O = Of(w) OBVIOUS
<1>2. PICK num : num = [k \in O |-> artifacts[k].number] OBVIOUS
<1>3. PICK L \in Nat : L = Len(artifacts) BY LenProperties DEF ReplayInv, ReplayTyped
<1>4. PICK M \in Nat : M = MaxSequence BY ReplayAssumption
<1>5. \A k \in O : k \in 1 .. L /\ k \in Nat /\ num[k] \in 1 .. M /\ artifacts[k].previous = k - 1
      BY <1>1, <1>2, <1>3, <1>4, OfWorkflowIs
<1>6. \A j, k \in O : Before(j, k) <=> num[j] < num[k] \/ (num[j] = num[k] /\ j < k)
      BY <1>2 DEF Before
<1>7. ASSUME InOrder(w), Contiguous(w) PROVE ChainIsValid(w)
  <2> SUFFICES ASSUME NEW j \in O, NEW k \in O, NextTo(w, j, k) PROVE k - 1 = j
      BY <1>1, <1>5 DEF ChainIsValid
  <2>1. Before(j, k) /\ \A i \in O : ~ (Before(j, i) /\ Before(i, k)) BY <1>1 DEF NextTo
  <2>2. \A i \in O, h \in O : i < h => Before(i, h) BY <1>1, <1>7 DEF InOrder
  <2>3. j < k
    <3>1. ~ (k < j) /\ j # k BY <1>5, <1>6, <2>1, <2>2
    <3> QED BY <1>5, <3>1
  <2>4. CASE k - 1 # j
    <3>1. k - 1 \in j .. k /\ j < k - 1 /\ k - 1 < k BY <1>5, <2>3, <2>4
    <3>2. k - 1 \in O BY <1>1, <1>7, <3>1 DEF Contiguous
    <3> QED BY <2>1, <2>2, <3>1, <3>2
  <2> QED BY <2>4
<1>8. ASSUME ChainIsValid(w) PROVE \A j, k \in O : Before(j, k) => j < k /\ j .. k \subseteq O
  <2> SUFFICES ASSUME NEW j \in O, NEW x \in O, Before(j, x), ~ (j < x /\ j .. x \subseteq O)
               PROVE  FALSE
      OBVIOUS
  <2>1. PICK B : B = {k \in O : Before(j, k) /\ ~ (j < k /\ j .. k \subseteq O)} OBVIOUS
  <2>2. B # {} /\ B \subseteq O BY <2>1
  <2>3. PICK id : id = [k \in O |-> k] OBVIOUS
  <2>4. \A k \in B : num[k] \in Nat /\ id[k] \in Nat BY <1>5, <2>2, <2>3
  <2>5. PICK k \in B : \A i \in B : num[k] < num[i] \/ (num[k] = num[i] /\ id[k] <= id[i])
        BY <2>2, <2>4, FirstByTwo
  <2>6. k \in O /\ Before(j, k) BY <2>1
  <2>7. PICK P : P = {i \in O : (i = j \/ Before(j, i)) /\ Before(i, k)} OBVIOUS
  <2>8. P # {} /\ P \subseteq O BY <2>6, <2>7
  <2>9. PICK f : f = [i \in O |-> M - num[i]] OBVIOUS
  <2>10. PICK g : g = [i \in O |-> L - i] OBVIOUS
  <2>11. \A i \in P : f[i] \in Nat /\ g[i] \in Nat BY <1>5, <2>8, <2>9, <2>10
  <2>12. PICK p \in P : \A i \in P : f[p] < f[i] \/ (f[p] = f[i] /\ g[p] <= g[i])
         BY <2>8, <2>11, FirstByTwo
  <2>13. p \in O /\ (p = j \/ Before(j, p)) /\ Before(p, k) BY <2>7
  <2>14. \A i \in O : ~ (Before(p, i) /\ Before(i, k))
    <3> SUFFICES ASSUME NEW i \in O, Before(p, i), Before(i, k) PROVE FALSE OBVIOUS
    <3>1. Before(j, i) BY <1>5, <1>6, <2>13
    <3>2. i \in P BY <2>7, <3>1
    <3>3. M - num[p] < M - num[i] \/ (M - num[p] = M - num[i] /\ L - p <= L - i)
          BY <2>9, <2>10, <2>12, <2>13, <3>2
    <3> QED BY <1>5, <1>6, <2>13, <3>3
  <2>15. k - 1 = p BY <1>1, <1>5, <1>8, <2>6, <2>13, <2>14 DEF ChainIsValid, NextTo
  <2>16. CASE p = j
    <3>1. j < k /\ \A i \in j .. k : i = j \/ i = k BY <1>5, <2>6, <2>15, <2>16
    <3> QED BY <2>1, <2>6, <3>1
  <2>17. CASE Before(j, p)
    <3>1. p \notin B BY <1>5, <1>6, <2>3, <2>5, <2>6, <2>13
    <3>2. j < p /\ j .. p \subseteq O BY <2>1, <2>13, <2>17, <3>1
    <3>3. j < k /\ \A i \in j .. k : i \in j .. p \/ i = k BY <1>5, <2>6, <2>13, <2>15, <3>2
    <3> QED BY <2>1, <2>6, <3>2, <3>3
  <2> QED BY <2>13, <2>16, <2>17
<1>9. ASSUME ChainIsValid(w) PROVE InOrder(w) /\ Contiguous(w)
  <2>1. ASSUME NEW j \in O, NEW k \in O, j < k PROVE Before(j, k)
    <3>1. Before(j, k) \/ Before(k, j) BY <1>5, <1>6, <2>1
    <3>2. ~ Before(k, j) BY <1>5, <1>8, <1>9, <2>1
    <3> QED BY <3>1, <3>2
  <2>2. ASSUME NEW j \in O, NEW k \in O, NEW i \in j .. k PROVE i \in O
    <3>1. CASE j = k BY <1>5, <2>2, <3>1
    <3>2. CASE j < k BY <1>8, <1>9, <2>1, <2>2, <3>2
    <3> QED BY <1>5, <2>2, <3>1, <3>2
  <2> QED BY <1>1, <2>1, <2>2 DEF InOrder, Contiguous
<1> QED BY <1>7, <1>9

\* The artifact nearest to a time is one of the workflow's.
LEMMA NearestIs ==
    ASSUME ReplayInv, NEW w, NEW t \in 0 .. MaxReplayTime, Of(w) # {}
    PROVE  Nearest(w, t) \in Of(w)
<1>1. PICK O : O = Of(w) OBVIOUS
<1>2. PICK num : num = [k \in O |-> artifacts[k].number] OBVIOUS
<1>3. PICK d : d = [k \in O |-> Distance(artifacts[k].timestamp, t)] OBVIOUS
<1>4. \A k \in O : k \in Nat /\ num[k] \in Nat /\ d[k] \in Nat
      BY <1>1, <1>2, <1>3, OfWorkflowIs, ReplayAssumption DEF Distance
<1>5. PICK m \in O : \A s \in O : d[m] < d[s] \/ (d[m] = d[s] /\ num[m] <= num[s])
      BY <1>1, <1>4, FirstByTwo
<1>6. PICK T : T = {s \in O : d[s] = d[m] /\ num[s] = num[m]} OBVIOUS
<1>7. T \subseteq Nat /\ T # {} BY <1>4, <1>6
<1>8. PICK k \in T : \A n \in T : k <= n BY <1>7, LeastNumber
<1>9. k \in O /\ d[k] = d[m] /\ num[k] = num[m] BY <1>6
<1>10. ASSUME NEW j \in O
       PROVE  d[k] < d[j] \/ (d[k] = d[j] /\ (k = j \/ num[k] < num[j] \/ (num[k] = num[j] /\ k < j)))
  <2>1. CASE j \in T BY <1>4, <1>8, <1>9, <1>6, <2>1
  <2>2. CASE j \notin T BY <1>4, <1>5, <1>6, <1>9, <2>2
  <2> QED BY <2>1, <2>2
<1>11. \A j \in O : \/ Distance(artifacts[k].timestamp, t) < Distance(artifacts[j].timestamp, t)
                    \/ /\ Distance(artifacts[k].timestamp, t) = Distance(artifacts[j].timestamp, t)
                       /\ k = j \/ Before(k, j)
       BY <1>2, <1>3, <1>9, <1>10 DEF Before
<1> QED BY <1>1, <1>9, <1>11 DEF Nearest

LEMMA ReplaysHold == ReplayInv => ReplayTypeOK /\ RecordsAreProvable
<1> SUFFICES ASSUME ReplayInv PROVE ReplayTypeOK /\ RecordsAreProvable OBVIOUS
<1>1. PICK a : a = artifacts OBVIOUS
<1>2. a \in Seq(Artifacts) /\ Len(a) \in Nat /\ DOMAIN a = 1 .. Len(a)
      BY <1>1, LenProperties DEF ReplayInv, ReplayTyped
<1>3. \A k \in DOMAIN a : a[k] \in Artifacts BY <1>2, ElementOfSeq
<1>4. ReplayTypeOK BY <1>1, <1>2, ReplayAssumption DEF ReplayTypeOK, ReplayInv, ReplayTyped
<1>5. \A k \in 1 .. sealed : ProofCovers(k) BY DEF ReplayInv, ReplayTyped, ProofCovers
<1>6. \A w \in RecordedWorkflows : ChainIsValid(w) <=> InOrder(w) /\ Contiguous(w) BY ChainTells
<1>7. ASSUME NEW w \in RecordedWorkflows, NEW t \in 0 .. MaxReplayTime, Of(w) # {},
             NEW j \in Relevant(w, t), NEW k \in Of(w) \ Relevant(w, t)
      PROVE  j < k
  <2>1. PICK m \in Of(w) : m = Nearest(w, t) BY <1>7, NearestIs
  <2>2. /\ j \in Of(w) /\ artifacts[j].timestamp <= artifacts[m].timestamp
        /\ k \in Of(w) /\ ~ (artifacts[k].timestamp <= artifacts[m].timestamp)
        BY <2>1 DEF Relevant
  <2>3. /\ j \in Nat /\ k \in Nat /\ artifacts[j].timestamp \in Nat
        /\ artifacts[k].timestamp \in Nat /\ artifacts[m].timestamp \in Nat
        BY <2>1, <2>2, OfWorkflowIs
  <2>4. k <= j => artifacts[k].timestamp <= artifacts[j].timestamp
        BY <2>2, <2>3 DEF ReplayInv, Of
  <2> QED BY <2>2, <2>3, <2>4
<1>8. ASSUME NEW k \in DOMAIN artifacts, ~ResponseMatched(k),
             ~ (replayClock > artifacts[k].timestamp + PromptTtl),
             artifacts[k].sent = {"prompt", "response"}
      PROVE  \E j \in k + 1 .. Len(artifacts) :
                /\ artifacts[j].prompt = artifacts[k].prompt
                /\ \/ artifacts[j].response # artifacts[k].response
                   \/ "response" \notin artifacts[j].sent
  <2>1. PICK p : p = artifacts[k].prompt OBVIOUS
  <2>2. replayClock \in Nat /\ \A j \in DOMAIN artifacts : artifacts[j].timestamp \in Nat /\ j \in Nat
        BY <1>1, <1>2, <1>3 DEF Artifacts, ReplayInv, ReplayTyped
  <2>3. Key(artifacts[k]) = p /\ Hash(artifacts[k]) = artifacts[k].response
        BY <1>8, <2>1 DEF Key, Hash
  <2>4. p \in DOMAIN promptCache BY <1>8, <2>2, <2>3, ReplayAssumption DEF ReplayInv
  <2>5. PICK l \in DOMAIN artifacts : CachedBy(p, l) BY <2>4 DEF ReplayInv
  <2>6. k <= l BY <2>2, <2>3, <2>5 DEF CachedBy
  <2>7. artifacts[k].timestamp <= artifacts[l].timestamp BY <2>2, <2>6 DEF ReplayInv
  <2>8. promptCache[p].expiresAt >= replayClock
        BY <1>8, <2>2, <2>5, <2>7, ReplayAssumption DEF CachedBy
  <2>9. Hash(artifacts[l]) # artifacts[k].response
        BY <1>8, <2>1, <2>4, <2>5, <2>8 DEF ResponseMatched, Cached, CachedBy
  <2>10. artifacts[l].prompt = artifacts[k].prompt
    <3>1. p \in Prompts /\ p # NoHash BY <1>1, <1>3, <2>1, ReplayAssumption DEF Artifacts
    <3>2. Key(artifacts[l]) = p BY <2>5 DEF CachedBy
    <3> QED BY <2>1, <3>1, <3>2 DEF Key
  <2>11. artifacts[l].response # artifacts[k].response \/ "response" \notin artifacts[l].sent
         BY <2>9 DEF Hash
  <2>12. l # k BY <2>3, <2>9
  <2>13. l \in k + 1 .. Len(artifacts) BY <1>1, <1>2, <2>2, <2>6, <2>12
  <2> QED BY <2>10, <2>11, <2>13
<1> QED BY <1>4, <1>5, <1>6, <1>7, <1>8 DEF RecordsAreProvable

-----------------------------------------------------------------------------
(***************************************************************************)
(* Filtered lists. What filter computes, it computes of a list and one     *)
(* more element from what it computes of the list: everything that the     *)
(* index needs to know of it follows by induction over lists.              *)
(***************************************************************************)

\* One round of the filter, and all rounds up to n.
Filtered(t, e, S) == IF e \in S THEN Append(t, e) ELSE t
Filters(g, s, S, n) == g[0] = <<>> /\ \A k \in 1 .. n : g[k] = Filtered(g[k - 1], s[k], S)
FilterExists(s, S, n) == \E g : g = [k \in 0 .. n |-> g[k]] /\ Filters(g, s, S, n)

LEMMA FilterIsThere ==
    ASSUME NEW s, NEW S, NEW n \in Nat
    PROVE  FilterExists(s, S, n)
<1> DEFINE Z == {m \in Nat : FilterExists(s, S, m)}
<1>1. 0 \in Z
  <2>1. PICK g : g = [k \in 0 .. 0 |-> <<>>] OBVIOUS
  <2>2. g = [k \in 0 .. 0 |-> g[k]] /\ g[0] = <<>> BY <2>1
  <2>3. Filters(g, s, S, 0) BY <2>2 DEF Filters
  <2> QED BY <2>2, <2>3 DEF FilterExists
<1>2. ASSUME NEW m \in Nat, m \in Z PROVE m + 1 \in Z
  <2>1. PICK g : g = [k \in 0 .. m |-> g[k]] /\ Filters(g, s, S, m) BY <1>2 DEF FilterExists
  <2>2. PICK h : h = [k \in 0 .. m + 1 |-> IF k = m + 1 THEN Filtered(g[m], s[m + 1], S) ELSE g[k]]
        OBVIOUS
  <2>3. h = [k \in 0 .. m + 1 |-> h[k]] BY <2>2
  <2>4. /\ h[m + 1] = Filtered(g[m], s[m + 1], S)
        /\ \A k \in 0 .. m : h[k] = g[k]
        BY <2>2
  <2>5. Filters(h, s, S, m + 1)
    <3>1. h[0] = <<>> BY <2>1, <2>4 DEF Filters
    <3>2. ASSUME NEW k \in 1 .. m + 1 PROVE h[k] = Filtered(h[k - 1], s[k], S)
      <4>1. CASE k = m + 1
        <5>1. k - 1 = m /\ m \in 0 .. m BY <4>1
        <5> QED BY <2>4, <4>1, <5>1
      <4>2. CASE k # m + 1
        <5>1. k \in 1 .. m /\ k \in 0 .. m /\ k - 1 \in 0 .. m BY <4>2
        <5>2. g[k] = Filtered(g[k - 1], s[k], S) BY <2>1, <5>1 DEF Filters
        <5> QED BY <2>4, <5>1, <5>2
      <4> QED BY <4>1, <4>2
    <3> QED BY <3>1, <3>2 DEF Filters
  <2> QED BY <2>3, <2>5 DEF FilterExists
<1> HIDE DEF Z
<1>3. Nat \subseteq Z BY <1>1, <1>2, FromZeroOn
<1> QED BY <1>3 DEF Z

\* Two of them are the same as far as both go.
LEMMA FilterIsOne ==
    ASSUME NEW s, NEW t, NEW S, NEW n \in Nat, NEW g, NEW h,
           Filters(g, s, S, n), Filters(h, t, S, n), \A k \in 1 .. n : s[k] = t[k]
    PROVE  g[n] = h[n]
<1> DEFINE Z == {m \in Nat : m <= n => g[m] = h[m]}
<1>1. 0 \in Z BY DEF Filters
<1>2. ASSUME NEW m \in Nat, m \in Z PROVE m + 1 \in Z
  <2> SUFFICES ASSUME m + 1 <= n PROVE g[m + 1] = h[m + 1] OBVIOUS
  <2>1. m + 1 \in 1 .. n /\ (m + 1) - 1 = m /\ m <= n OBVIOUS
  <2>2. g[m] = h[m] BY <1>2, <2>1
  <2>3. g[m + 1] = Filtered(g[m], s[m + 1], S) /\ h[m + 1] = Filtered(h[m], t[m + 1], S)
        BY <2>1 DEF Filters
  <2> QED BY <2>1, <2>2, <2>3
<1> HIDE DEF Z
<1>3. Nat \subseteq Z BY <1>1, <1>2, FromZeroOn
<1> QED BY <1>3 DEF Z

LEMMA KeptIsFilter ==
    ASSUME NEW s, NEW S, Len(s) \in Nat
    PROVE  \E g : Filters(g, s, S, Len(s)) /\ Kept(s, S) = g[Len(s)]
<1>1. PICK N \in Nat : N = Len(s) OBVIOUS
<1> DEFINE kept[n \in 0 .. N] ==
        IF n = 0 THEN <<>> ELSE IF s[n] \in S THEN Append(kept[n - 1], s[n]) ELSE kept[n - 1]
<1>2. Kept(s, S) = kept[N] BY <1>1 DEF Kept
<1>3. \E g : g = [n \in 0 .. N |-> IF n = 0 THEN <<>> ELSE IF s[n] \in S
                                   THEN Append(g[n - 1], s[n]) ELSE g[n - 1]]
  <2> HIDE DEF kept
  <2>1. FilterExists(s, S, N) BY FilterIsThere
  <2>2. PICK g : g = [k \in 0 .. N |-> g[k]] /\ Filters(g, s, S, N) BY <2>1 DEF FilterExists
  <2>3. ASSUME NEW n \in 0 .. N
        PROVE  g[n] = IF n = 0 THEN <<>> ELSE IF s[n] \in S
                                   THEN Append(g[n - 1], s[n]) ELSE g[n - 1]
    <3>1. CASE n = 0 BY <2>2, <3>1 DEF Filters
    <3>2. CASE n # 0
      <4>1. n \in 1 .. N BY <3>2
      <4> QED BY <2>2, <3>2, <4>1 DEF Filters, Filtered
    <3> QED BY <3>1, <3>2
  <2> QED BY <2>2, <2>3
<1>4. kept = [n \in 0 .. N |-> IF n = 0 THEN <<>> ELSE IF s[n] \in S
                               THEN Append(kept[n - 1], s[n]) ELSE kept[n - 1]]
      BY <1>3 DEF kept
<1> HIDE DEF kept
<1>5. kept[0] = <<>>
  <2>1. 0 \in 0 .. N OBVIOUS
  <2> QED BY <1>4, <2>1
<1>6. ASSUME NEW n \in 1 .. N PROVE kept[n] = Filtered(kept[n - 1], s[n], S)
  <2>1. n \in 0 .. N /\ n # 0 OBVIOUS
  <2> QED BY <1>4, <2>1 DEF Filtered
<1>7. Filters(kept, s, S, N) BY <1>5, <1>6 DEF Filters
<1> QED BY <1>1, <1>2, <1>7

LEMMA KeptEmpty == \A S : Kept(<<>>, S) = <<>>
<1> SUFFICES ASSUME NEW S PROVE Kept(<<>>, S) = <<>> OBVIOUS
<1>1. PICK s : s = <<>> OBVIOUS
<1>2. Len(s) = 0 BY <1>1
<1>3. PICK g : Filters(g, s, S, Len(s)) /\ Kept(s, S) = g[Len(s)] BY <1>2, KeptIsFilter
<1> QED BY <1>1, <1>2, <1>3 DEF Filters

LEMMA KeptAppend ==
    ASSUME NEW V, NEW s \in Seq(V), NEW e \in V, NEW S
    PROVE  Kept(Append(s, e), S) = Filtered(Kept(s, S), e, S)
<1>1. PICK t : t = Append(s, e) OBVIOUS
<1>2. PICK n \in Nat : n = Len(s) BY LenProperties
<1>3. Len(t) = n + 1 /\ (\A k \in 1 .. n : t[k] = s[k]) /\ t[n + 1] = e
      BY <1>1, <1>2, AppendProperties
<1>4. PICK g : Filters(g, t, S, n + 1) /\ Kept(t, S) = g[n + 1]
      BY <1>3, KeptIsFilter
<1>5. PICK h : Filters(h, s, S, n) /\ Kept(s, S) = h[n] BY <1>2, KeptIsFilter
<1>6. Filters(g, t, S, n) BY <1>4 DEF Filters
<1>7. g[n] = h[n] BY <1>3, <1>5, <1>6, FilterIsOne
<1>8. n + 1 \in 1 .. n + 1 /\ (n + 1) - 1 = n OBVIOUS
<1>9. g[n + 1] = Filtered(g[n], t[n + 1], S) BY <1>4, <1>8 DEF Filters
<1> QED BY <1>1, <1>3, <1>4, <1>5, <1>7, <1>9

-----------------------------------------------------------------------------
\* A set of lists that has the empty one, and with a list the one with one more
\* element, has all.
LEMMA ListsFromEmpty ==
    ASSUME NEW V, NEW Z, <<>> \in Z, \A s \in Seq(V), e \in V : s \in Z => Append(s, e) \in Z
    PROVE  Seq(V) \subseteq Z
<1> DEFINE L == {n \in Nat : \A s \in Seq(V) : Len(s) = n => s \in Z}
<1>1. 0 \in L
  <2>1. \A s \in Seq(V) : Len(s) = 0 => s = <<>> BY EmptySeq
  <2> QED BY <2>1
<1>2. ASSUME NEW n \in Nat, n \in L PROVE n + 1 \in L
  <2> SUFFICES ASSUME NEW s \in Seq(V), Len(s) = n + 1 PROVE s \in Z OBVIOUS
  <2>1. PICK t : t = [k \in 1 .. n |-> s[k]] OBVIOUS
  <2>2. DOMAIN s = 1 .. (n + 1) BY LenProperties
  <2>3. \A k \in 1 .. (n + 1) : s[k] \in V BY ElementOfSeq
  <2>4. t \in Seq(V) /\ Len(t) = n BY <2>1, <2>3, IsASeq
  <2>5. PICK u : u = Append(t, s[n + 1]) OBVIOUS
  <2>6. s[n + 1] \in V BY <2>3
  <2>7. /\ u \in Seq(V) /\ Len(u) = n + 1
        /\ (\A k \in 1 .. n : u[k] = t[k]) /\ u[n + 1] = s[n + 1]
        BY <2>4, <2>5, <2>6, AppendProperties
  <2>8. \A k \in 1 .. (n + 1) : u[k] = s[k] BY <2>1, <2>7
  <2>9. u = s BY <2>7, <2>8, SeqEqual
  <2>10. t \in Z BY <1>2, <2>4
  <2> QED BY <2>4, <2>5, <2>6, <2>9, <2>10
<1> HIDE DEF L
<1>3. Nat \subseteq L BY <1>1, <1>2, FromZeroOn
<1>4. ASSUME NEW s \in Seq(V) PROVE s \in Z
  <2>1. Len(s) \in L BY <1>3, LenProperties
  <2> QED BY <2>1 DEF L
<1> QED BY <1>4

\* What a list with one more element holds.
LEMMA AppendHas ==
    ASSUME NEW V, NEW s \in Seq(V), NEW e \in V
    PROVE  /\ ToSet(Append(s, e)) = ToSet(s) \cup {e} /\ Append(s, e) \in Seq(V)
           /\ ToSet(s) \subseteq V
<1>1. PICK t : t = Append(s, e) OBVIOUS
<1>2. PICK n \in Nat : n = Len(s) /\ DOMAIN s = 1 .. n BY LenProperties
<1>3. t \in Seq(V) /\ Len(t) = n + 1 /\ (\A k \in 1 .. n : t[k] = s[k]) /\ t[n + 1] = e
      BY <1>1, <1>2, AppendProperties
<1>4. DOMAIN t = (1 .. n) \cup {n + 1} BY <1>3, LenProperties
<1>5. ToSet(t) = ToSet(s) \cup {e} BY <1>2, <1>3, <1>4 DEF ToSet
<1>6. \A k \in 1 .. n : s[k] \in V BY <1>2, ElementOfSeq
<1> QED BY <1>1, <1>2, <1>3, <1>5, <1>6 DEF ToSet

\* A filtered list is one, of the elements that are in the list and in the set; and
\* only their being in the list matters.
LEMMA KeptHas ==
    ASSUME NEW V, NEW s \in Seq(V), NEW S
    PROVE  Kept(s, S) \in Seq(V) /\ ToSet(Kept(s, S)) = ToSet(s) \cap S
<1> DEFINE Z == {t \in Seq(V) : Kept(t, S) \in Seq(V) /\ ToSet(Kept(t, S)) = ToSet(t) \cap S}
<1>1. <<>> \in Z
  <2>1. Kept(<<>>, S) = <<>> /\ <<>> \in Seq(V) BY KeptEmpty, EmptySeq
  <2>2. ToSet(<<>>) = {} BY DEF ToSet
  <2> QED BY <2>1, <2>2
<1>2. ASSUME NEW t \in Seq(V), NEW e \in V, t \in Z PROVE Append(t, e) \in Z
  <2>1. PICK u : u = Kept(t, S) OBVIOUS
  <2>2. u \in Seq(V) /\ ToSet(u) = ToSet(t) \cap S BY <1>2, <2>1
  <2>3. Kept(Append(t, e), S) = IF e \in S THEN Append(u, e) ELSE u
        BY <2>1, KeptAppend DEF Filtered
  <2>4. Append(t, e) \in Seq(V) /\ ToSet(Append(t, e)) = ToSet(t) \cup {e} BY AppendHas
  <2>5. Append(u, e) \in Seq(V) /\ ToSet(Append(u, e)) = ToSet(u) \cup {e} BY <2>2, AppendHas
  <2>6. CASE e \in S BY <2>2, <2>3, <2>4, <2>5, <2>6
  <2>7. CASE e \notin S BY <2>2, <2>3, <2>4, <2>7
  <2> QED BY <2>6, <2>7
<1> HIDE DEF Z
<1>3. Seq(V) \subseteq Z BY <1>1, <1>2, ListsFromEmpty
<1> QED BY <1>3 DEF Z

LEMMA KeptDepends ==
    ASSUME NEW V, NEW S, NEW T
    PROVE  \A s \in Seq(V) : ToSet(s) \cap S = ToSet(s) \cap T => Kept(s, S) = Kept(s, T)
<1> DEFINE Z == {s \in Seq(V) : ToSet(s) \cap S = ToSet(s) \cap T => Kept(s, S) = Kept(s, T)}
<1>1. <<>> \in Z
  <2>1. \A X : Kept(<<>>, X) = <<>> BY KeptEmpty
  <2>2. <<>> \in Seq(V) BY EmptySeq
  <2> QED BY <2>1, <2>2
<1>2. ASSUME NEW s \in Seq(V), NEW e \in V, s \in Z PROVE Append(s, e) \in Z
  <2>1. Append(s, e) \in Seq(V) /\ ToSet(Append(s, e)) = ToSet(s) \cup {e} BY AppendHas
  <2> SUFFICES ASSUME ToSet(Append(s, e)) \cap S = ToSet(Append(s, e)) \cap T
               PROVE  Kept(Append(s, e), S) = Kept(Append(s, e), T)
      BY <2>1
  <2>2. ToSet(s) \cap S = ToSet(s) \cap T /\ (e \in S <=> e \in T) BY <2>1
  <2>3. Kept(s, S) = Kept(s, T) BY <1>2, <2>2
  <2> QED BY <2>2, <2>3, KeptAppend DEF Filtered
<1> HIDE DEF Z
<1>3. Seq(V) \subseteq Z BY <1>1, <1>2, ListsFromEmpty
<1> QED BY <1>3 DEF Z

\* To filter what was filtered is to filter by what is in both sets.
LEMMA KeptOfKept ==
    ASSUME NEW V, NEW s \in Seq(V), NEW S, NEW T
    PROVE  Kept(Kept(s, S), T) = Kept(s, S \cap T)
<1> DEFINE Z == {t \in Seq(V) : Kept(Kept(t, S), T) = Kept(t, S \cap T)}
<1>1. <<>> \in Z
  <2>1. \A X : Kept(<<>>, X) = <<>> BY KeptEmpty
  <2>2. <<>> \in Seq(V) BY EmptySeq
  <2> QED BY <2>1, <2>2
<1>2. ASSUME NEW t \in Seq(V), NEW e \in V, t \in Z PROVE Append(t, e) \in Z
  <2>1. PICK u : u = Kept(t, S) OBVIOUS
  <2>2. u \in Seq(V) BY <2>1, KeptHas
  <2>3. Kept(u, T) = Kept(t, S \cap T) BY <1>2, <2>1
  <2>4. Kept(Append(t, e), S) = IF e \in S THEN Append(u, e) ELSE u
        BY <2>1, KeptAppend DEF Filtered
  <2>5. Kept(Append(t, e), S \cap T)
           = IF e \in S \cap T THEN Append(Kept(t, S \cap T), e) ELSE Kept(t, S \cap T)
        BY KeptAppend DEF Filtered
  <2>6. Kept(Append(u, e), T) = IF e \in T THEN Append(Kept(u, T), e) ELSE Kept(u, T)
        BY <2>2, KeptAppend DEF Filtered
  <2>7. Append(t, e) \in Seq(V) BY AppendHas
  <2>8. Kept(Kept(Append(t, e), S), T) = Kept(Append(t, e), S \cap T)
    <3>1. CASE e \in S
      <4>1. Kept(Append(t, e), S) = Append(u, e) BY <2>4, <3>1
      <4>2. CASE e \in T BY <2>3, <2>5, <2>6, <3>1, <4>1, <4>2
      <4>3. CASE e \notin T BY <2>3, <2>5, <2>6, <3>1, <4>1, <4>3
      <4> QED BY <4>2, <4>3
    <3>2. CASE e \notin S BY <2>3, <2>4, <2>5, <3>2
    <3> QED BY <3>1, <3>2
  <2> QED BY <2>7, <2>8
<1> HIDE DEF Z
<1>3. Seq(V) \subseteq Z BY <1>1, <1>2, ListsFromEmpty
<1> QED BY <1>3 DEF Z

-----------------------------------------------------------------------------
(***************************************************************************)
(* The audit index. The indexes are what the list gives, filtered, also    *)
(* after a compaction, whose list keeps the order; and the numbers that    *)
(* entries were given tell where one of them is missing.                   *)
(***************************************************************************)

IndexEntries == [event : DOMAIN LedgerEvents, position : Nat, verified : BOOLEAN]

Ascends(s) == \A i, j \in DOMAIN s : i < j => s[i].position < s[j].position

\* An entry that was found to follow the one before it does.
Follows(E) == \A x, y \in E : y.position = x.position + 1 /\ y.verified => y.event = x.event + 1

IndexTyped ==
    /\ entries \in Seq(IndexEntries) /\ recordedAt \in Seq(Nat)
    /\ Len(recordedAt) <= Len(LedgerEvents)
    /\ lastEventHash \in 0 .. Len(LedgerEvents)
    /\ chainPosition \in Nat /\ indexClock \in Nat

IndexesAreKept ==
    /\ byWorkflowId = [w \in LedgerWorkflows |-> OfWorkflow(entries, w)]
    /\ byActorId = [a \in LedgerActors |-> OfActor(entries, a)]
    /\ byEventId = [k \in DOMAIN LedgerEvents |-> Newest(entries, k)]

EntriesInOrder ==
    /\ Ascends(entries) /\ Follows(ToSet(entries))
    /\ \A e \in ToSet(entries) :
          /\ e.event \in DOMAIN recordedAt /\ e.position <= chainPosition
          /\ e.position = chainPosition => e.event = lastEventHash

IndexInv == IndexTyped /\ IndexesAreKept /\ EntriesInOrder

LEMMA LedgerIs == LedgerEvents \in Seq(ToSet(LedgerEvents)) /\ Len(LedgerEvents) \in Nat
                  /\ DOMAIN LedgerEvents = 1 .. Len(LedgerEvents)
<1>1. LedgerEvents \in Seq(ToSet(LedgerEvents)) BY AuditIndexAssumption
<1>2. PICK V : V = ToSet(LedgerEvents) OBVIOUS
<1>3. LedgerEvents \in Seq(V) BY <1>1, <1>2
<1> QED BY <1>1, <1>3, LenProperties

LEMMA IndexInitially == IndexInit => IndexInv
<1> SUFFICES ASSUME IndexInit PROVE IndexInv OBVIOUS
<1> USE DEF IndexInit
<1>1. ToSet(<<>>) = {} /\ DOMAIN <<>> = {} BY DEF ToSet
<1>2. IndexTyped
  <2>1. entries \in Seq(IndexEntries) /\ recordedAt \in Seq(Nat) /\ Len(recordedAt) = 0
        BY EmptySeq
  <2> QED BY <2>1, LedgerIs DEF IndexTyped
<1>3. IndexesAreKept
  <2>1. \A S : Kept(<<>>, S) = <<>> BY KeptEmpty
  <2>2. \A k : Newest(<<>>, k) = NoEvent BY DEF Newest
  <2>3. \A w : OfWorkflow(<<>>, w) = <<>> BY <2>1 DEF OfWorkflow
  <2>4. \A a : OfActor(<<>>, a) = <<>> BY <2>1 DEF OfActor
  <2> QED BY <2>2, <2>3, <2>4 DEF IndexesAreKept
<1>4. EntriesInOrder BY <1>1 DEF EntriesInOrder, Ascends, Follows
<1> QED BY <1>2, <1>3, <1>4 DEF IndexInv

\* What a filtered list keeps of a list's order.
LEMMA KeptAscends ==
    ASSUME NEW S
    PROVE  \A s \in Seq(IndexEntries) : Ascends(s) => Ascends(Kept(s, S))
<1> DEFINE Z == {s \in Seq(IndexEntries) : Ascends(s) => Ascends(Kept(s, S))}
<1>1. <<>> \in Z
  <2>1. <<>> \in Seq(IndexEntries) /\ Kept(<<>>, S) = <<>> BY EmptySeq, KeptEmpty
  <2> QED BY <2>1
<1>2. ASSUME NEW s \in Seq(IndexEntries), NEW e \in IndexEntries, s \in Z PROVE Append(s, e) \in Z
  <2>1. PICK t : t = Append(s, e) OBVIOUS
  <2>2. PICK n \in Nat : n = Len(s) /\ DOMAIN s = 1 .. n BY LenProperties
  <2>3. t \in Seq(IndexEntries) /\ Len(t) = n + 1 /\ (\A k \in 1 .. n : t[k] = s[k]) /\ t[n + 1] = e
        BY <2>1, <2>2, AppendProperties
  <2>4. DOMAIN t = (1 .. n) \cup {n + 1} BY <2>3, LenProperties
  <2> SUFFICES ASSUME Ascends(t) PROVE Ascends(Kept(t, S)) BY <2>1, <2>3
  <2>5. Ascends(s) BY <2>2, <2>3, <2>4 DEF Ascends
  <2>6. PICK u : u = Kept(s, S) OBVIOUS
  <2>7. u \in Seq(IndexEntries) /\ ToSet(u) = ToSet(s) \cap S /\ Ascends(u)
        BY <1>2, <2>5, <2>6, KeptHas
  <2>8. \A x \in ToSet(u) : x.position < e.position
    <3>1. \A k \in 1 .. n : s[k].position < e.position BY <2>3, <2>4 DEF Ascends
    <3> QED BY <2>2, <2>7, <3>1 DEF ToSet
  <2>9. Kept(t, S) = IF e \in S THEN Append(u, e) ELSE u
        BY <2>1, <2>6, KeptAppend DEF Filtered
  <2>10. Ascends(Append(u, e))
    <3>1. PICK v : v = Append(u, e) OBVIOUS
    <3>2. PICK m \in Nat : m = Len(u) /\ DOMAIN u = 1 .. m BY <2>7, LenProperties
    <3>3. v \in Seq(IndexEntries) /\ Len(v) = m + 1 /\ (\A k \in 1 .. m : v[k] = u[k]) /\ v[m + 1] = e
          BY <2>7, <3>1, <3>2, AppendProperties
    <3>4. DOMAIN v = (1 .. m) \cup {m + 1} BY <3>3, LenProperties
    <3>5. \A k \in 1 .. m : u[k].position < e.position BY <2>8, <3>2 DEF ToSet
    <3> QED BY <2>7, <3>1, <3>2, <3>3, <3>4, <3>5 DEF Ascends
  <2> QED BY <2>7, <2>9, <2>10
<1> HIDE DEF Z
<1>3. Seq(IndexEntries) \subseteq Z BY <1>1, <1>2, ListsFromEmpty
<1> QED BY <1>3 DEF Z

LEMMA LedgerRecordsKeeps == ASSUME IndexInv, LedgerRecords PROVE IndexInv'
<1> USE DEF IndexInv
<1>1. PICK r : r = recordedAt OBVIOUS
<1>2. r \in Seq(Nat) /\ Len(r) < Len(LedgerEvents) /\ indexClock \in Nat
      BY <1>1 DEF IndexTyped, LedgerRecords
<1>3. PICK q : q = Append(r, indexClock) OBVIOUS
<1>4. recordedAt' = q
      /\ UNCHANGED <<entries, byWorkflowId, byActorId, byEventId, lastEventHash, chainPosition, indexClock>>
      BY <1>1, <1>3 DEF LedgerRecords
<1>5. q \in Seq(Nat) /\ Len(q) = Len(r) + 1 /\ Len(r) \in Nat BY <1>2, <1>3, AppendProperties, LenProperties
<1>6. DOMAIN r \subseteq DOMAIN q
  <2>1. DOMAIN r = 1 .. Len(r) /\ DOMAIN q = 1 .. Len(q) BY <1>2, <1>5, LenProperties
  <2> QED BY <1>5, <2>1
<1>7. IndexTyped' BY <1>2, <1>4, <1>5, LedgerIs DEF IndexTyped
<1>8. IndexesAreKept' BY <1>4 DEF IndexesAreKept, OfWorkflow, OfActor
<1>9. EntriesInOrder' BY <1>1, <1>4, <1>6 DEF EntriesInOrder
<1> QED BY <1>7, <1>8, <1>9

\* An entry joins the list, with the number after the last.
LEMMA EntryJoins ==
    ASSUME IndexInv, NEW k \in DOMAIN recordedAt, NEW e,
           e = [event |-> k, position |-> chainPosition + 1, verified |-> k - 1 = lastEventHash]
    PROVE  /\ e \in IndexEntries /\ e.event = k /\ e.position = chainPosition + 1
           /\ Append(entries, e) \in Seq(IndexEntries) /\ Ascends(Append(entries, e))
           /\ ToSet(Append(entries, e)) = ToSet(entries) \cup {e}
           /\ Follows(ToSet(Append(entries, e)))
<1> USE DEF IndexInv
<1>1. PICK s : s = entries OBVIOUS
<1>2. s \in Seq(IndexEntries) /\ chainPosition \in Nat /\ k \in DOMAIN LedgerEvents /\ k \in Nat
  <2>1. PICK r : r = recordedAt OBVIOUS
  <2>2. r \in Seq(Nat) /\ Len(r) <= Len(LedgerEvents) BY <2>1 DEF IndexTyped
  <2>3. k \in 1 .. Len(r) /\ Len(r) \in Nat BY <2>1, <2>2, LenProperties
  <2> QED BY <1>1, <2>2, <2>3, LedgerIs DEF IndexTyped
<1>3. /\ e \in IndexEntries /\ e.event = k /\ e.position = chainPosition + 1
      /\ e.verified <=> k - 1 = lastEventHash
  <2>1. PICK v \in BOOLEAN : v = (k - 1 = lastEventHash) OBVIOUS
  <2>2. e = [event |-> k, position |-> chainPosition + 1, verified |-> v] BY <2>1
  <2>3. e.event = k /\ e.position = chainPosition + 1 /\ e.verified = v BY <2>2
  <2>4. e \in IndexEntries BY <1>2, <2>2 DEF IndexEntries
  <2>5. e.verified <=> k - 1 = lastEventHash BY <2>1, <2>3, Zenon
  <2> QED BY <2>3, <2>4, <2>5
<1>4. PICK t : t = Append(s, e) OBVIOUS
<1>5. PICK n \in Nat : n = Len(s) /\ DOMAIN s = 1 .. n BY <1>2, LenProperties
<1>6. t \in Seq(IndexEntries) /\ Len(t) = n + 1 /\ (\A j \in 1 .. n : t[j] = s[j]) /\ t[n + 1] = e
      BY <1>2, <1>3, <1>4, <1>5, AppendProperties
<1>7. DOMAIN t = (1 .. n) \cup {n + 1} BY <1>6, LenProperties
<1>8. ToSet(t) = ToSet(s) \cup {e} /\ ToSet(s) \subseteq IndexEntries BY <1>2, <1>3, <1>4, AppendHas
<1>9. \A x \in ToSet(s) : /\ x.position \in Nat /\ x.event \in Nat /\ x.position <= chainPosition
                          /\ x.position = chainPosition => x.event = lastEventHash
  <2>1. \A x \in ToSet(s) : x.position \in Nat /\ x.event \in Nat
        BY <1>8, LedgerIs DEF IndexEntries
  <2> QED BY <1>1, <2>1 DEF EntriesInOrder
<1>10. Ascends(t)
  <2>1. \A j \in 1 .. n : s[j].position < e.position BY <1>2, <1>3, <1>5, <1>9 DEF ToSet
  <2>2. Ascends(s) BY <1>1 DEF EntriesInOrder
  <2> QED BY <1>5, <1>6, <1>7, <2>1, <2>2 DEF Ascends
<1>11. Follows(ToSet(t))
  <2> SUFFICES ASSUME NEW x \in ToSet(t), NEW y \in ToSet(t), y.position = x.position + 1, y.verified
               PROVE  y.event = x.event + 1
      BY DEF Follows
  <2>1. CASE x \in ToSet(s) /\ y \in ToSet(s) BY <1>1, <2>1 DEF EntriesInOrder, Follows
  <2>2. CASE x \in ToSet(s) /\ y = e
    <3>1. x.position = chainPosition BY <1>2, <1>3, <1>9, <2>2
    <3>2. x.event = lastEventHash /\ x.event \in Nat BY <1>9, <2>2, <3>1
    <3>3. k - 1 = lastEventHash BY <1>3, <2>2
    <3> QED BY <1>2, <1>3, <2>2, <3>2, <3>3
  <2>3. CASE x = e
    <3>1. y.position <= chainPosition + 1 /\ y.position \in Nat BY <1>2, <1>3, <1>8, <1>9
    <3> QED BY <1>2, <1>3, <2>3, <3>1
  <2> QED BY <1>8, <2>1, <2>2, <2>3
<1> QED BY <1>1, <1>3, <1>4, <1>6, <1>8, <1>10, <1>11

-----------------------------------------------------------------------------
LEMMA CompactedKeeps ==
    ASSUME NEW s \in Seq(IndexEntries), Ascends(s), Follows(ToSet(s)), Compacted(s)
    PROVE  /\ entries' \in Seq(IndexEntries) /\ ToSet(entries') \subseteq ToSet(s)
           /\ Ascends(entries') /\ Follows(ToSet(entries')) /\ IndexesAreKept'
<1>1. PICK S : S = {e \in ToSet(s) : recordedAt[e.event] + RetentionTime >= indexClock} OBVIOUS
<1>2. PICK t : t = Kept(s, S) OBVIOUS
<1>3. RebuildIndexes(t) BY <1>1, <1>2 DEF Compacted, Retained
<1>4. t \in Seq(IndexEntries) /\ ToSet(t) = ToSet(s) \cap S BY <1>2, KeptHas
<1>5. Ascends(t) BY <1>2, KeptAscends
<1>6. Follows(ToSet(t)) BY <1>4 DEF Follows
<1>7. IndexesAreKept' BY <1>3 DEF RebuildIndexes, IndexesAreKept
<1>8. entries' = t BY <1>3 DEF RebuildIndexes
<1> QED BY <1>4, <1>5, <1>6, <1>7, <1>8

\* The newest entry of an event, after one more.
LEMMA NewestAfter ==
    ASSUME NEW s \in Seq(IndexEntries), NEW e \in IndexEntries, NEW j
    PROVE  Newest(Append(s, e), j) = IF j = e.event THEN e ELSE Newest(s, j)
<1>1. PICK t : t = Append(s, e) OBVIOUS
<1>2. PICK n \in Nat : n = Len(s) /\ DOMAIN s = 1 .. n BY LenProperties
<1>3. t \in Seq(IndexEntries) /\ Len(t) = n + 1 /\ (\A k \in 1 .. n : t[k] = s[k]) /\ t[n + 1] = e
      BY <1>1, <1>2, AppendProperties
<1>4. DOMAIN t = (1 .. n) \cup {n + 1} BY <1>3, LenProperties
<1>5. PICK P : P = {i \in DOMAIN t : t[i].event = j} OBVIOUS
<1>6. Newest(t, j) = IF P = {} THEN NoEvent ELSE t[CHOOSE i \in P : \A h \in P : h <= i]
      BY <1>5 DEF Newest
<1>7. CASE j = e.event
  <2>1. n + 1 \in P /\ \A h \in P : h <= n + 1 BY <1>3, <1>4, <1>5, <1>7
  <2>2. \A i \in P : (\A h \in P : h <= i) => i = n + 1 BY <1>4, <1>5, <2>1
  <2>3. (CHOOSE i \in P : \A h \in P : h <= i) = n + 1 BY <2>1, <2>2
  <2> QED BY <1>1, <1>3, <1>6, <1>7, <2>1, <2>3
<1>8. CASE j # e.event
  <2>1. P = {i \in DOMAIN s : s[i].event = j} BY <1>2, <1>3, <1>4, <1>5, <1>8
  <2>2. Newest(s, j) = IF P = {} THEN NoEvent ELSE s[CHOOSE i \in P : \A h \in P : h <= i]
        BY <2>1 DEF Newest
  <2>3. CASE P = {} BY <1>1, <1>6, <1>8, <2>2, <2>3
  <2>4. CASE P # {}
    <3>1. P \subseteq 1 .. n BY <1>2, <2>1
    <3>2. PICK D : D = {n - i : i \in P} OBVIOUS
    <3>3. D \subseteq Nat /\ D # {}
      <4>1. \A i \in 1 .. n : n - i \in Nat OBVIOUS
      <4>2. D \subseteq Nat BY <3>1, <3>2, <4>1, Zenon
      <4>3. D # {} BY <2>4, <3>2, Zenon
      <4> QED BY <4>2, <4>3
    <3>4. PICK i \in P : \A h \in P : h <= i
      <4>1. PICK m \in D : \A x \in D : m <= x BY <3>3, LeastNumber
      <4>2. PICK i \in P : m = n - i BY <3>2, <4>1
      <4>3. ASSUME NEW h \in P PROVE h <= i
        <5>1. n - i <= n - h BY <3>2, <4>1, <4>2
        <5>2. n \in Nat /\ h \in Nat /\ i \in Nat BY <3>1
        <5> QED BY <5>1, <5>2
      <4> QED BY <4>3
    <3>5. (CHOOSE x \in P : \A h \in P : h <= x) \in P BY <3>4
    <3>6. PICK c : c = CHOOSE x \in P : \A h \in P : h <= x OBVIOUS
    <3>7. t[c] = s[c] BY <1>3, <3>1, <3>5, <3>6
    <3> QED BY <1>1, <1>6, <1>8, <2>2, <2>4, <3>6, <3>7
  <2> QED BY <2>3, <2>4
<1> QED BY <1>7, <1>8

\* A list that is filtered by a condition on its elements, after one more.
LEMMA KeptAfter ==
    ASSUME NEW s \in Seq(IndexEntries), NEW e \in IndexEntries, NEW S, NEW T,
           T \cap ToSet(s) = S \cap ToSet(s)
    PROVE  Kept(Append(s, e), T) = IF e \in T THEN Append(Kept(s, S), e) ELSE Kept(s, S)
<1>1. Kept(s, T) = Kept(s, S) BY KeptDepends
<1> QED BY <1>1, KeptAppend DEF Filtered

LEMMA UpdateIndexesKeeps ==
    ASSUME IndexInv, NEW e \in IndexEntries, UpdateIndexes(e)
    PROVE  IndexesAreKept'
<1> USE DEF IndexInv
<1>1. PICK s : s = entries OBVIOUS
<1>2. s \in Seq(IndexEntries) BY <1>1 DEF IndexTyped
<1>3. PICK t : t = Append(s, e) OBVIOUS
<1>4. ToSet(t) = ToSet(s) \cup {e} BY <1>2, <1>3, AppendHas
<1>5. e.event \in DOMAIN LedgerEvents BY DEF IndexEntries
<1>6. PICK x : x = LedgerEvents[e.event] OBVIOUS
<1>7. x.workflow \in LedgerWorkflows /\ x.actor \in LedgerActors
      BY <1>5, <1>6 DEF LedgerWorkflows, LedgerActors
<1>8. /\ entries' = t
      /\ byWorkflowId' = [byWorkflowId EXCEPT ![x.workflow] = Append(@, e)]
      /\ byActorId' = [byActorId EXCEPT ![x.actor] = Append(@, e)]
      /\ byEventId' = [byEventId EXCEPT ![e.event] = e]
      BY <1>1, <1>3, <1>6 DEF UpdateIndexes
<1>9. ASSUME NEW w
      PROVE  OfWorkflow(t, w) = IF w = x.workflow THEN Append(OfWorkflow(s, w), e) ELSE OfWorkflow(s, w)
  <2>1. PICK S : S = {y \in ToSet(s) : LedgerEvents[y.event].workflow = w} OBVIOUS
  <2>2. PICK T : T = {y \in ToSet(t) : LedgerEvents[y.event].workflow = w} OBVIOUS
  <2>3. T \cap ToSet(s) = S \cap ToSet(s) /\ (e \in T <=> w = x.workflow) BY <1>4, <1>6, <2>1, <2>2
  <2>4. Kept(t, T) = IF e \in T THEN Append(Kept(s, S), e) ELSE Kept(s, S)
        BY <1>2, <1>3, <2>3, KeptAfter
  <2> QED BY <2>1, <2>2, <2>3, <2>4 DEF OfWorkflow
<1>10. ASSUME NEW a
       PROVE  OfActor(t, a) = IF a = x.actor THEN Append(OfActor(s, a), e) ELSE OfActor(s, a)
  <2>1. PICK S : S = {y \in ToSet(s) : LedgerEvents[y.event].actor = a} OBVIOUS
  <2>2. PICK T : T = {y \in ToSet(t) : LedgerEvents[y.event].actor = a} OBVIOUS
  <2>3. T \cap ToSet(s) = S \cap ToSet(s) /\ (e \in T <=> a = x.actor) BY <1>4, <1>6, <2>1, <2>2
  <2>4. Kept(t, T) = IF e \in T THEN Append(Kept(s, S), e) ELSE Kept(s, S)
        BY <1>2, <1>3, <2>3, KeptAfter
  <2> QED BY <2>1, <2>2, <2>3, <2>4 DEF OfActor
<1>11. \A j : Newest(t, j) = IF j = e.event THEN e ELSE Newest(s, j) BY <1>2, <1>3, NewestAfter
<1>12. byWorkflowId' = [w \in LedgerWorkflows |-> OfWorkflow(t, w)]
       BY <1>1, <1>7, <1>8, <1>9 DEF IndexesAreKept
<1>13. byActorId' = [a \in LedgerActors |-> OfActor(t, a)]
       BY <1>1, <1>7, <1>8, <1>10 DEF IndexesAreKept
<1>14. byEventId' = [j \in DOMAIN LedgerEvents |-> Newest(t, j)]
       BY <1>1, <1>5, <1>8, <1>11 DEF IndexesAreKept
<1> QED BY <1>8, <1>12, <1>13, <1>14 DEF IndexesAreKept

LEMMA IndexEventKeeps ==
    ASSUME IndexInv, NEW k \in DOMAIN recordedAt, IndexEvent(k)
    PROVE  IndexInv'
<1>1. PICK e : e = [event |-> k, position |-> chainPosition + 1, verified |-> k - 1 = lastEventHash]
      OBVIOUS
<1>2. PICK t : t = Append(entries, e) OBVIOUS
<1>3. /\ e \in IndexEntries /\ e.event = k /\ e.position = chainPosition + 1
      /\ t \in Seq(IndexEntries) /\ Ascends(t) /\ Follows(ToSet(t))
      /\ ToSet(t) = ToSet(entries) \cup {e}
      BY <1>1, <1>2, EntryJoins
<1>4. /\ chainPosition' = chainPosition + 1 /\ lastEventHash' = k
      /\ UNCHANGED <<recordedAt, indexClock>>
      /\ IF Len(entries) + 1 > MaxEntries THEN Compacted(t) ELSE UpdateIndexes(e)
      BY <1>1, <1>2, Zenon DEF IndexEvent
<1>5. /\ entries' \in Seq(IndexEntries) /\ ToSet(entries') \subseteq ToSet(t)
      /\ Ascends(entries') /\ Follows(ToSet(entries')) /\ IndexesAreKept'
  <2>1. CASE Compacted(t) BY <1>3, <2>1, CompactedKeeps
  <2>2. CASE UpdateIndexes(e)
    <3>1. entries' = t BY <1>2, <2>2 DEF UpdateIndexes
    <3>2. IndexesAreKept' BY <1>3, <2>2, UpdateIndexesKeeps
    <3> QED BY <1>3, <3>1, <3>2
  <2> QED BY <1>4, <2>1, <2>2
<1>6. chainPosition \in Nat /\ k \in 0 .. Len(LedgerEvents)
  <2>1. PICK r : r = recordedAt OBVIOUS
  <2>2. r \in Seq(Nat) /\ Len(r) <= Len(LedgerEvents) BY <2>1 DEF IndexInv, IndexTyped
  <2>3. k \in 1 .. Len(r) /\ Len(r) \in Nat BY <2>1, <2>2, LenProperties
  <2> QED BY <2>2, <2>3, LedgerIs DEF IndexInv, IndexTyped
<1>7. IndexTyped' BY <1>4, <1>5, <1>6 DEF IndexInv, IndexTyped
<1>8. \A x \in ToSet(entries') : /\ x.event \in DOMAIN recordedAt' /\ x.position <= chainPosition'
                                 /\ x.position = chainPosition' => x.event = lastEventHash'
  <2> SUFFICES ASSUME NEW x \in ToSet(t)
               PROVE  /\ x.event \in DOMAIN recordedAt /\ x.position <= chainPosition + 1
                      /\ x.position = chainPosition + 1 => x.event = k
      BY <1>4, <1>5
  <2>1. CASE x \in ToSet(entries)
    <3>1. x.position <= chainPosition /\ x.event \in DOMAIN recordedAt
          BY <2>1 DEF IndexInv, EntriesInOrder
    <3>2. x.position \in Nat
      <4>1. ToSet(t) \subseteq IndexEntries BY <1>3 DEF ToSet
      <4> QED BY <4>1 DEF IndexEntries
    <3> QED BY <1>6, <3>1, <3>2
  <2>2. CASE x = e BY <1>3, <1>6, <2>2
  <2> QED BY <1>3, <2>1, <2>2
<1>9. EntriesInOrder' BY <1>5, <1>8 DEF EntriesInOrder
<1> QED BY <1>5, <1>7, <1>9 DEF IndexInv

LEMMA IndexStep == IndexInv /\ [IndexNext]_indexVars => IndexInv'
<1> SUFFICES ASSUME IndexInv, [IndexNext]_indexVars PROVE IndexInv' OBVIOUS
<1>1. CASE LedgerRecords BY <1>1, LedgerRecordsKeeps
<1>2. ASSUME NEW k \in DOMAIN recordedAt, IndexEvent(k) PROVE IndexInv' BY <1>2, IndexEventKeeps
<1>3. CASE Compact
  <2>1. PICK s : s = entries OBVIOUS
  <2>2. s \in Seq(IndexEntries) /\ Ascends(s) /\ Follows(ToSet(s))
        BY <2>1 DEF IndexInv, IndexTyped, EntriesInOrder
  <2>3. Compacted(s) /\ UNCHANGED <<lastEventHash, chainPosition, recordedAt, indexClock>>
        BY <1>3, <2>1 DEF Compact
  <2>4. /\ entries' \in Seq(IndexEntries) /\ ToSet(entries') \subseteq ToSet(s)
        /\ Ascends(entries') /\ Follows(ToSet(entries')) /\ IndexesAreKept'
        BY <2>2, <2>3, CompactedKeeps
  <2>5. IndexTyped' BY <2>3, <2>4 DEF IndexInv, IndexTyped
  <2>6. EntriesInOrder' BY <2>1, <2>3, <2>4 DEF IndexInv, EntriesInOrder
  <2> QED BY <2>4, <2>5, <2>6 DEF IndexInv
<1>4. CASE IndexTick \/ UNCHANGED indexVars
  <2>1. /\ UNCHANGED <<entries, byWorkflowId, byActorId, byEventId, lastEventHash, chainPosition,
                       recordedAt>>
        /\ indexClock' \in Nat
        BY <1>4 DEF IndexTick, indexVars, IndexInv, IndexTyped
  <2>2. IndexTyped' BY <2>1 DEF IndexInv, IndexTyped
  <2>3. IndexesAreKept' BY <2>1 DEF IndexInv, IndexesAreKept
  <2>4. EntriesInOrder' BY <2>1 DEF IndexInv, EntriesInOrder
  <2> QED BY <2>2, <2>3, <2>4 DEF IndexInv
<1> QED BY <1>1, <1>2, <1>3, <1>4 DEF IndexNext

LEMMA IndexAlways == IndexInit /\ [][IndexNext]_indexVars => []IndexInv
BY IndexInitially, IndexStep, PTL

\* What matches among the elements of a set is in S.
OnlyIn(E, S, W, A) == \A e \in E : MatchesFilter(e, W, A) => e \in S

\* A query that begins with an index gives what a scan does.
LEMMA IndexedIsScanned ==
    ASSUME NEW s \in Seq(IndexEntries), NEW S, NEW W, NEW A, OnlyIn(ToSet(s), S, W, A)
    PROVE  Kept(Kept(s, S), {e \in ToSet(Kept(s, S)) : MatchesFilter(e, W, A)})
             = Kept(s, {e \in ToSet(s) : MatchesFilter(e, W, A)})
<1>1. PICK M : M = {e \in ToSet(s) : MatchesFilter(e, W, A)} OBVIOUS
<1>2. PICK N : N = {e \in ToSet(Kept(s, S)) : MatchesFilter(e, W, A)} OBVIOUS
<1>3. ToSet(Kept(s, S)) = ToSet(s) \cap S BY KeptHas
<1>4. N = M /\ M \subseteq S BY <1>1, <1>2, <1>3 DEF OnlyIn
<1>5. Kept(Kept(s, S), M) = Kept(s, S \cap M) BY KeptOfKept
<1>6. S \cap M = M BY <1>4
<1> QED BY <1>1, <1>2, <1>4, <1>5, <1>6

LEMMA QueriesHold == IndexInv => IndexTypeOK /\ QueriesAreComplete
<1> SUFFICES ASSUME IndexInv PROVE IndexTypeOK /\ QueriesAreComplete OBVIOUS
<1>1. PICK s : s = entries OBVIOUS
<1>2. s \in Seq(IndexEntries) /\ Ascends(s) /\ Follows(ToSet(s))
      BY <1>1 DEF IndexInv, IndexTyped, EntriesInOrder
<1>3. Len(s) \in Nat /\ DOMAIN s = 1 .. Len(s) BY <1>2, LenProperties
<1>4. \A i \in DOMAIN s : s[i] \in IndexEntries /\ s[i] \in ToSet(s)
      BY <1>2, <1>3, ElementOfSeq DEF ToSet
<1>5. IndexTypeOK
  <2>1. \A i \in DOMAIN entries : entries[i].event \in DOMAIN recordedAt
        BY <1>1, <1>4 DEF IndexInv, EntriesInOrder
  <2> QED BY <1>1, <1>2, <2>1 DEF IndexTypeOK, Ascends, IndexInv, IndexTyped
<1>6. ASSUME NEW W \in SUBSET LedgerWorkflows, NEW A \in SUBSET LedgerActors
      PROVE  FindMatches(W, A) = Kept(entries, {e \in ToSet(entries) : MatchesFilter(e, W, A)})
  <2>1. PICK all : all = Kept(s, {e \in ToSet(s) : MatchesFilter(e, W, A)}) OBVIOUS
  <2>2. CASE \E w \in W : W = {w}
    <3>1. PICK w \in W : W = {w} BY <2>2
    <3>2. (CHOOSE v \in W : TRUE) = w BY <3>1
    <3>3. PICK S : S = {e \in ToSet(s) : LedgerEvents[e.event].workflow = w} OBVIOUS
    <3>4. byWorkflowId[w] = Kept(s, S)
          BY <1>1, <3>3 DEF IndexInv, IndexesAreKept, OfWorkflow
    <3>5. OnlyIn(ToSet(s), S, W, A) BY <3>1, <3>3 DEF OnlyIn, MatchesFilter
    <3>6. Kept(Kept(s, S), {e \in ToSet(Kept(s, S)) : MatchesFilter(e, W, A)}) = all
          BY <1>2, <2>1, <3>5, IndexedIsScanned
    <3>7. FindMatches(W, A)
            = Kept(byWorkflowId[w], {e \in ToSet(byWorkflowId[w]) : MatchesFilter(e, W, A)})
          BY <2>2, <3>2 DEF FindMatches
    <3> QED BY <1>1, <2>1, <3>4, <3>6, <3>7
  <2>3. CASE (~ \E w \in W : W = {w}) /\ \E a \in A : A = {a}
    <3>1. PICK a \in A : A = {a} BY <2>3
    <3>2. (CHOOSE v \in A : TRUE) = a BY <3>1
    <3>3. PICK S : S = {e \in ToSet(s) : LedgerEvents[e.event].actor = a} OBVIOUS
    <3>4. byActorId[a] = Kept(s, S)
          BY <1>1, <3>3 DEF IndexInv, IndexesAreKept, OfActor
    <3>5. OnlyIn(ToSet(s), S, W, A) BY <3>1, <3>3 DEF OnlyIn, MatchesFilter
    <3>6. Kept(Kept(s, S), {e \in ToSet(Kept(s, S)) : MatchesFilter(e, W, A)}) = all
          BY <1>2, <2>1, <3>5, IndexedIsScanned
    <3>7. FindMatches(W, A)
            = Kept(byActorId[a], {e \in ToSet(byActorId[a]) : MatchesFilter(e, W, A)})
          BY <2>3, <3>2 DEF FindMatches
    <3> QED BY <1>1, <2>1, <3>4, <3>6, <3>7
  <2>4. CASE (~ \E w \in W : W = {w}) /\ ~ \E a \in A : A = {a} BY <2>4 DEF FindMatches
  <2> QED BY <2>2, <2>3, <2>4
<1>7. \A k \in DOMAIN LedgerEvents : byEventId[k] = Newest(entries, k)
      BY DEF IndexInv, IndexesAreKept
<1>8. ASSUME \A i \in DOMAIN s : s[i].verified,
             ~ \E i \in 2 .. Len(s) : s[i].position > s[i - 1].position + 1,
             NEW i \in 2 .. Len(s)
      PROVE  s[i].event - 1 = s[i - 1].event
  <2>1. i \in DOMAIN s /\ i - 1 \in DOMAIN s /\ i - 1 < i BY <1>3
  <2>2. s[i].position \in Nat /\ s[i - 1].position \in Nat BY <1>4, <2>1 DEF IndexEntries
  <2>3. s[i - 1].position < s[i].position BY <1>2, <2>1 DEF Ascends
  <2>4. s[i].position = s[i - 1].position + 1 BY <1>8, <2>2, <2>3
  <2>5. s[i].event = s[i - 1].event + 1 BY <1>2, <1>4, <1>8, <2>1, <2>4 DEF Follows
  <2>6. s[i - 1].event \in Nat BY <1>4, <2>1, LedgerIs DEF IndexEntries
  <2> QED BY <2>5, <2>6
<1>9. (\A i \in DOMAIN entries : entries[i].verified) =>
          \/ ChainVerifies(entries)
          \/ \E i \in 2 .. Len(entries) : entries[i].position > entries[i - 1].position + 1
      BY <1>1, <1>8 DEF ChainVerifies
<1> QED BY <1>5, <1>6, <1>7, <1>9 DEF QueriesAreComplete

-----------------------------------------------------------------------------
(***************************************************************************)
(* The services side by side: each of them takes its own steps, or none.   *)
(***************************************************************************)

LEMMA ServicesTokens == ServicesSpec => []TokenInv
<1>1. ServicesInit => TokenInit BY DEF ServicesInit
<1>2. [ServicesNext]_servicesVars => [TokenNext]_tokenVars BY DEF ServicesNext, servicesVars
<1> QED BY <1>1, <1>2, TokenAlways, PTL DEF ServicesSpec

LEMMA ServicesApprovals == ServicesSpec => []ApprovalInv
<1>1. ServicesInit => ApprovalInit BY DEF ServicesInit
<1>2. [ServicesNext]_servicesVars => [ApprovalNext]_approvalVars BY DEF ServicesNext, servicesVars
<1> QED BY <1>1, <1>2, ApprovalAlways, PTL DEF ServicesSpec

LEMMA ServicesProxy == ServicesSpec => []ProxyInv
<1>1. ServicesInit => ProxyInit BY DEF ServicesInit
<1>2. [ServicesNext]_servicesVars => [ProxyNext]_proxyVars BY DEF ServicesNext, servicesVars
<1> QED BY <1>1, <1>2, ProxyAlways, PTL DEF ServicesSpec

LEMMA ServicesPolicy == ServicesSpec => []PolicyInv
<1>1. ServicesInit => PolicyInit BY DEF ServicesInit
<1>2. [ServicesNext]_servicesVars => [PolicyNext]_policyVars BY DEF ServicesNext, servicesVars
<1> QED BY <1>1, <1>2, PolicyAlways, PTL DEF ServicesSpec

LEMMA ServicesPipeline == ServicesSpec => []PipelineInv
<1>1. ServicesInit => PipelineInit BY DEF ServicesInit
<1>2. [ServicesNext]_servicesVars => [PipelineNext]_pipelineVars BY DEF ServicesNext, servicesVars
<1> QED BY <1>1, <1>2, PipelineAlways, PTL DEF ServicesSpec

LEMMA ServicesBuilds == ServicesSpec => []BuildInv
<1>1. ServicesInit => BuildInit BY DEF ServicesInit
<1>2. [ServicesNext]_servicesVars => [BuildNext]_buildVars BY DEF ServicesNext, servicesVars
<1> QED BY <1>1, <1>2, BuildAlways, PTL DEF ServicesSpec

LEMMA ServicesBot == ServicesSpec => []BotInv
<1>1. ServicesInit => BotInit BY DEF ServicesInit
<1>2. [ServicesNext]_servicesVars => [BotNext]_botVars BY DEF ServicesNext, servicesVars
<1> QED BY <1>1, <1>2, BotAlways, PTL DEF ServicesSpec

LEMMA ServicesBridge == ServicesSpec => []ZapierInv
<1>1. ServicesInit => ZapierInit BY DEF ServicesInit
<1>2. [ServicesNext]_servicesVars => [ZapierNext]_zapierVars BY DEF ServicesNext, servicesVars
<1> QED BY <1>1, <1>2, ZapierAlways, PTL DEF ServicesSpec

LEMMA ServicesParser == ServicesSpec => []ParserInv
<1>1. ServicesInit => DisambiguationInit BY DEF ServicesInit
<1>2. [ServicesNext]_servicesVars => [DisambiguationNext]_parserVars BY DEF ServicesNext, servicesVars
<1> QED BY <1>1, <1>2, ParserAlways, PTL DEF ServicesSpec

LEMMA ServicesVersions == ServicesSpec => []VersioningInv
<1>1. ServicesInit => VersioningInit BY DEF ServicesInit
<1>2. [ServicesNext]_servicesVars => [VersioningNext]_versioningVars BY DEF ServicesNext, servicesVars
<1> QED BY <1>1, <1>2, VersioningAlways, PTL DEF ServicesSpec

LEMMA ServicesRbac == ServicesSpec => []RbacInv
<1>1. ServicesInit => RbacInit BY DEF ServicesInit
<1>2. [ServicesNext]_servicesVars => [RbacNext]_rbacVars BY DEF ServicesNext, servicesVars
<1> QED BY <1>1, <1>2, RbacAlways, PTL DEF ServicesSpec

LEMMA ServicesSandbox == ServicesSpec => []SandboxInv
<1>1. ServicesInit => SandboxInit BY DEF ServicesInit
<1>2. [ServicesNext]_servicesVars => [SandboxNext]_sandboxVars BY DEF ServicesNext, servicesVars
<1> QED BY <1>1, <1>2, SandboxAlways, PTL DEF ServicesSpec

LEMMA ServicesAudit == ServicesSpec => []AuditInv
<1>1. ServicesInit => AuditInit BY DEF ServicesInit
<1>2. [ServicesNext]_servicesVars => [AuditNext]_auditVars BY DEF ServicesNext, servicesVars
<1> QED BY <1>1, <1>2, AuditAlways, PTL DEF ServicesSpec

LEMMA ServicesRecorder == ServicesSpec => []ReplayInv
<1>1. ServicesInit => ReplayInit BY DEF ServicesInit
<1>2. [ServicesNext]_servicesVars => [ReplayNext]_replayVars BY DEF ServicesNext, servicesVars
<1> QED BY <1>1, <1>2, ReplayAlways, PTL DEF ServicesSpec

LEMMA ServicesIndex == ServicesSpec => []IndexInv
<1>1. ServicesInit => IndexInit BY DEF ServicesInit
<1>2. [ServicesNext]_servicesVars => [IndexNext]_indexVars BY DEF ServicesNext, servicesVars
<1> QED BY <1>1, <1>2, IndexAlways, PTL DEF ServicesSpec

\* A token that was revoked, alone or with all of its agent's, validates nowhere and never
\* again, and an override token that was used had the votes of enough approvers and none
\* against it.
THEOREM CredentialsAlwaysHold == ServicesSpec => []CredentialsHold
BY ServicesTokens, ServicesApprovals, RevokedStaysSo, UsedIsEarned, PTL DEF CredentialsHold

\* An action that the proxy lets through, with the audit on and the shadow mode off, was decided
\* to, and the audit knows of it; what the policy cache serves is of bounded age.
THEOREM DecisionsAlwaysHold == ServicesSpec => []DecisionsHold
<1>1. ProxyInv => AllowedIsDecided BY DEF ProxyInv
<1> QED BY <1>1, ServicesProxy, ServicesPolicy, ServedIsBounded, PTL DEF DecisionsHold

\* checkRateLimit reads the count that recordRequest writes later: calls between the two overrun
\* the limit by no more than there are calls.
THEOREM OverrunStaysBounded == ServicesSpec => []OverrunIsBounded
<1>1. ProxyInv => OverrunIsBounded BY DEF ProxyInv
<1> QED BY <1>1, ServicesProxy, PTL

\* Nothing is planned for an intent that the policy denied, and nothing starts without an
\* approval that the rules ask for, whatever the caches hold and whatever is asked again.
THEOREM PolicyIsFollowed == ServicesSpec => [](PipelineTypeOK /\ NothingRunsAgainstPolicy)
BY ServicesPipeline, PipelineSound, PTL

\* No update is skipped: what Telegram does not deliver again was handled, to its end and with one
\* workflow for each message and process where the loops of two starts never met. And the bridge is
\* spared: in no stretch as long as a window does it get more than two bursts, and the circuit is
\* closed only while the failures since the last success are few, however late the answers come.
THEOREM OutsideIsAlwaysServed == ServicesSpec => [](BotTypeOK /\ ZapierTypeOK /\ OutsideIsServed)
<1>1. BotInv /\ ZapierInv => BotTypeOK /\ ZapierTypeOK /\ OutsideIsServed
      BY UpdatesInTurn, SparedIs DEF OutsideIsServed
<1> QED BY <1>1, ServicesBot, ServicesBridge, PTL

\* A build whose process has ended says so, a failed one has no container, and a container that
\* runs is known by its build, so that it can be stopped, as soon as docker run has returned.
THEOREM ContainersStayKnown == ServicesSpec => [](BuildTypeOK /\ ContainersAreKnown)
BY ServicesBuilds, BuildsAreKnown, PTL

\* A session of the parser ends once and makes one intent at most, the one that was selected; a
\* number of a rule names one version as long as the rule is not created again; a permission has a
\* binding behind it that was not taken back, and its roles are closed under inheritance; and a
\* verdict of the sandbox is fresh and on what was asked.
THEOREM GatewayAlwaysRemembersRight ==
    ServicesSpec => [](/\ DisambiguationTypeOK /\ VersioningTypeOK /\ RbacTypeOK /\ SandboxTypeOK
                       /\ GatewayRemembersRight)
<1>1. ParserInv /\ VersioningInv /\ RbacInv /\ SandboxInv
        => /\ DisambiguationTypeOK /\ VersioningTypeOK /\ RbacTypeOK /\ SandboxTypeOK
           /\ GatewayRemembersRight
      BY SessionsHold, NumbersName, PermissionsHold, VerdictsHold DEF GatewayRemembersRight
<1> QED BY <1>1, ServicesParser, ServicesVersions, ServicesRbac, ServicesSandbox, PTL

\* An event that was logged is in one place, and lost only with the process; what was recorded
\* before a shutdown can be proved, and a chain is called whole exactly when it was recorded in
\* order and alone; a query finds what a scan of the list does; and a container that runs is known
\* by its build.
THEOREM RecordsStayComplete == ServicesSpec => []RecordsAreComplete
<1>1. AuditInv /\ ReplayInv /\ IndexInv /\ BuildInv => RecordsAreComplete
      BY ReplaysHold, QueriesHold, BuildsAreKnown DEF AuditInv, RecordsAreComplete
<1> QED BY <1>1, ServicesAudit, ServicesRecorder, ServicesIndex, ServicesBuilds, PTL

\* The types of all of the services' state.
THEOREM ServicesTypes == ServicesSpec => []ServicesTypeOK
<1>1. TokenInv /\ ApprovalInv /\ ProxyInv /\ PolicyInv
        => TokenTypeOK /\ ApprovalTypeOK /\ ProxyTypeOK /\ PolicyTypeOK
      BY DEF TokenInv, ApprovalInv, ProxyInv, PolicyInv, PolicyShape
<1>2. AuditInv /\ PipelineInv /\ ParserInv /\ VersioningInv /\ RbacInv /\ SandboxInv
        => /\ AuditTypeOK /\ PipelineTypeOK /\ DisambiguationTypeOK /\ VersioningTypeOK
           /\ RbacTypeOK /\ SandboxTypeOK
      BY PipelineSound, SessionsHold, NumbersName, PermissionsHold, VerdictsHold DEF AuditInv
<1>3. ReplayInv /\ IndexInv /\ BuildInv /\ BotInv /\ ZapierInv
        => ReplayTypeOK /\ IndexTypeOK /\ BuildTypeOK /\ BotTypeOK /\ ZapierTypeOK
      BY ReplaysHold, QueriesHold, BuildsAreKnown, UpdatesInTurn, SparedIs
<1>4. TokenInv /\ ApprovalInv /\ ProxyInv /\ PolicyInv /\ AuditInv /\ PipelineInv /\ ParserInv
        /\ VersioningInv /\ RbacInv /\ SandboxInv /\ ReplayInv /\ IndexInv /\ BuildInv /\ BotInv
        /\ ZapierInv
        => ServicesTypeOK
      BY <1>1, <1>2, <1>3 DEF ServicesTypeOK
<1> QED BY <1>4, ServicesTokens, ServicesApprovals, ServicesProxy, ServicesPolicy, ServicesAudit,
           ServicesPipeline, ServicesParser, ServicesVersions, ServicesRbac, ServicesSandbox,
           ServicesRecorder, ServicesIndex, ServicesBuilds, ServicesBot, ServicesBridge, PTL
=============================================================================
