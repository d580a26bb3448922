----------------------------- MODULE MCServices -----------------------------
(***************************************************************************)
(* The governance services, the gateway with what it remembers, the        *)
(* keepers of records and the ways to the outside, for TLC.  They share no *)
(* variable: a behaviour of all of them is one behaviour of each, so a run *)
(* looks at one at a time, the one that `part' names, and leaves the       *)
(* others as they begin.                                                   *)
(***************************************************************************)
EXTENDS TokenService, GovernanceApproval, GovernanceEnforcement, IntentPipeline,
        GatewaySessions, PolicyAdministration, AuditRecords, Builds, TelegramBot, ZapierClient

VARIABLE part

servicesVars ==
    <<part, tokenVars, approvalVars, proxyVars, policyVars, auditVars, pipelineVars, parserVars,
      versioningVars, rbacVars, sandboxVars, replayVars, indexVars, buildVars,
      botVars, zapierVars>>

ServicesInit ==
    /\ part \in {"tokens", "approvals", "proxy", "policy", "audit", "pipeline", "parser",
                 "versions", "rbac", "sandbox", "recorder", "index", "builds", "bot", "bridge"}
    /\ TokenInit /\ ApprovalInit /\ ProxyInit /\ PolicyInit /\ AuditInit
    /\ part # "proxy" => config.failClosed /\ ~config.shadow
    /\ PipelineInit /\ DisambiguationInit /\ VersioningInit /\ RbacInit /\ SandboxInit
    /\ ReplayInit /\ IndexInit /\ BuildInit /\ BotInit /\ ZapierInit
    /\ part # "bridge" => endpoint

ServicesNext ==
    /\ UNCHANGED part
    /\ IF part = "tokens"    THEN TokenNext          ELSE UNCHANGED tokenVars
    /\ IF part = "approvals" THEN ApprovalNext       ELSE UNCHANGED approvalVars
    /\ IF part = "proxy"     THEN ProxyNext          ELSE UNCHANGED proxyVars
    /\ IF part = "policy"    THEN PolicyNext         ELSE UNCHANGED policyVars
    /\ IF part = "audit"     THEN AuditNext          ELSE UNCHANGED auditVars
    /\ IF part = "pipeline"  THEN PipelineNext       ELSE UNCHANGED pipelineVars
    /\ IF part = "parser"    THEN DisambiguationNext ELSE UNCHANGED parserVars
    /\ IF part = "versions"  THEN VersioningNext     ELSE UNCHANGED versioningVars
    /\ IF part = "rbac"      THEN RbacNext           ELSE UNCHANGED rbacVars
    /\ IF part = "sandbox"   THEN SandboxNext        ELSE UNCHANGED sandboxVars
    /\ IF part = "recorder"  THEN ReplayNext         ELSE UNCHANGED replayVars
    /\ IF part = "index"     THEN IndexNext          ELSE UNCHANGED indexVars
    /\ IF part = "builds"    THEN BuildNext          ELSE UNCHANGED buildVars
    /\ IF part = "bot"       THEN BotNext            ELSE UNCHANGED botVars
    /\ IF part = "bridge"    THEN ZapierNext         ELSE UNCHANGED zapierVars

\* What the model may read in a text, and what it may plan.
PipelineReadings == {
    [risk |-> "low", sideEffect |-> TRUE, restricted |-> FALSE, costly |-> FALSE, clear |-> TRUE],
    [risk |-> "low", sideEffect |-> FALSE, restricted |-> FALSE, costly |-> TRUE, clear |-> TRUE],
    [risk |-> "high", sideEffect |-> TRUE, restricted |-> TRUE, costly |-> FALSE, clear |-> FALSE]}
PipelinePlans ==
    [risk : {"low", "high"}, aligned : {TRUE}, wellFormed : {TRUE}]
        \cup {[risk |-> "low", aligned |-> TRUE, wellFormed |-> FALSE]}

\* Two intents with one cache key, and another that every check objects to.
Harmless ==
    [key |-> "k1", risk |-> "low", matches |-> {}, large |-> TRUE, outOfScope |-> {},
     adminCaps |-> FALSE, combos |-> {}, approvalRequired |-> FALSE, sideEffect |-> FALSE,
     doubt |-> 10]
SandboxIntentsMC == {Harmless, [Harmless EXCEPT !.risk = "destructive"],
    [Harmless EXCEPT !.key = "k2", !.risk = "high", !.matches = Patterns, !.sideEffect = TRUE,
                     !.outOfScope = {"r1", "r2"}, !.adminCaps = TRUE,
                     !.combos = {[id |-> "combo", severity |-> "high"]}, !.doubt = 60]}
SandboxPatterns == {[id |-> "p1", severity |-> "critical"]}

\* Two workflows of two actors, interleaved in the ledger.
ThreeEvents ==
    << [workflow |-> "w1", actor |-> "a1"], [workflow |-> "w2", actor |-> "a1"],
       [workflow |-> "w1", actor |-> "a2"] >>

\* A caller that sends both hashes, and one that sends none.
CallersHashes == {{"prompt", "response"}, {}}

ServicesSpec ==
    ServicesInit /\ [][ServicesNext]_servicesVars /\ TimersFire /\ AuditFairness

\* Types of all of the state.
ServicesTypeOK ==
    /\ TokenTypeOK /\ ApprovalTypeOK /\ ProxyTypeOK /\ PolicyTypeOK /\ AuditTypeOK
    /\ PipelineTypeOK /\ DisambiguationTypeOK /\ VersioningTypeOK /\ RbacTypeOK
    /\ SandboxTypeOK /\ ReplayTypeOK /\ IndexTypeOK /\ BuildTypeOK
    /\ BotTypeOK /\ ZapierTypeOK

\* The gateway's sessions, versions, roles and verdicts: a session ends once, a
\* number names one version, a permission has a binding behind it, and a verdict
\* is fresh.
GatewayRemembersRight ==
    SessionEndsOnce /\ NumberNamesOneVersion /\ PermissionsAreBacked /\ VerdictsAreFresh

\* What the audit log, the recorder, the audit index and the app builder keep track of
\* is kept, and can be proved, found and stopped.
RecordsAreComplete ==
    EventsAreKept /\ RecordsAreProvable /\ QueriesAreComplete /\ ContainersAreKnown

\* A token that was revoked stays so, and an override token was earned by votes.
CredentialsHold == RevokedNeverValidates /\ OverrideIsEarned

\* An action that goes ahead was decided to, by a decision of bounded age.
DecisionsHold == AllowedIsDecided /\ StalenessIsBounded

\* The ways to the outside: an update of a chat is handled to its end, and the bridge
\* is spared.
OutsideIsServed ==
    /\ part = "bot" => UpdatesAreHandled
    /\ part = "bridge" => BridgeIsSpared
=============================================================================
