-------------------------------- MODULE Trust --------------------------------
(***************************************************************************)
(* Who is trusted with what: the delegations of an identity, its           *)
(* scopes and the rules over them, its trust domain, its row in the        *)
(* registry, its family; a reading of a text, the vote of the models and   *)
(* the gate that it must pass, and what is measured of it; what filters    *)
(* and guards keep from the models, and what they pass on; the conflicts   *)
(* between policy rules; and the file that keeps the credentials and its   *)
(* own schema.  They share no variable; a run looks at one at a time, the  *)
(* one that `part' names.                                                  *)
(***************************************************************************)
EXTENDS AccessRights, SpiffeIdentities, IntentConfidence, ContentGuards, PolicyConflicts,
        DatabaseFile

VARIABLE part

TrustParts ==
    {"delegation", "access", "federation", "identities", "vote", "gate", "telemetry", "dlp",
     "guards", "conflicts", "vault", "family", "schema"}

trustVars == <<part, delegationVars, accessVars, federationVars, registryDbVars, voteVars,
               gateVars, telemetryVars, dlpVars, screenVars, conflictVars,
               vaultVars, familyVars, schemaVars>>

\* A part that is not looked at starts in one way, and stays.
TrustInit ==
    /\ part = "federation" \/ localBundle = (CHOOSE b \in Bundles : TRUE)
    /\ part = "vote" \/ strategy = (CHOOSE s \in Strategies : TRUE)
    /\ part = "guards" \/ guardSettings = (CHOOSE g \in GuardSettings : TRUE)
    /\ part = "conflicts" \/ policyRules = (CHOOSE t \in RuleTables : TRUE)
    /\ part = "vault" \/ keyConfigured = TRUE
    /\ part = "schema" \/ schemaVersion = {}
    /\ DelegationInit /\ AccessInit /\ FederationInit /\ RegistryDbInit /\ VoteInit
    /\ GateInit /\ TelemetryInit /\ DlpInit /\ GuardsInit /\ ConflictsInit
    /\ VaultInit /\ FamilyInit /\ SchemaInit

TrustNext ==
    /\ UNCHANGED part
    /\ IF part = "delegation" THEN DelegationNext  ELSE UNCHANGED delegationVars
    /\ IF part = "access"     THEN AccessNext      ELSE UNCHANGED accessVars
    /\ IF part = "federation" THEN FederationNext  ELSE UNCHANGED federationVars
    /\ IF part = "identities" THEN RegistryDbNext  ELSE UNCHANGED registryDbVars
    /\ IF part = "vote"       THEN VoteNext        ELSE UNCHANGED voteVars
    /\ IF part = "gate"       THEN GateNext        ELSE UNCHANGED gateVars
    /\ IF part = "telemetry"  THEN TelemetryNext   ELSE UNCHANGED telemetryVars
    /\ IF part = "dlp"        THEN DlpNext         ELSE UNCHANGED dlpVars
    /\ IF part = "guards"     THEN GuardsNext      ELSE UNCHANGED screenVars
    /\ IF part = "conflicts"  THEN ConflictsNext   ELSE UNCHANGED conflictVars
    /\ IF part = "vault"      THEN VaultNext       ELSE UNCHANGED vaultVars
    /\ IF part = "family"     THEN FamilyNext      ELSE UNCHANGED familyVars
    /\ IF part = "schema"     THEN SchemaNext      ELSE UNCHANGED schemaVars

TrustSpec == TrustInit /\ [][TrustNext]_trustVars

-----------------------------------------------------------------------------
\* What identities may do, by token or by federation, is what was given and not taken back,
\* and access is what the scopes and the rules say; their table keeps what its writers wrote;
\* and families descend, and the way up a family is the way down.
GrantsHold ==
    /\ part = "delegation" => DelegationsHold
    /\ part = "access" => GrantsAreRead /\ RulesDecide
    /\ part = "federation" => TablesAgree /\ TimersAreHeld
    /\ part = "identities" => NoLostColumns /\ HistoryAccountsForSerials
    /\ part = "family" => ChildrenAreYounger /\ DescentEnds /\ OrderlyFamiliesAgree
    /\ part = "vault" => NothingAfterTheEnd /\ HeldUntilTheEnd /\ StatisticsAreOfRows
    /\ part = "schema" => SchemaIsWhole /\ UpFindsAll /\ AloneComesUp

\* The models' vote is backed; more confidence opens more, rejections stay on file, and one
\* timer measures, and only what was there; what a guard says follows from what it has seen;
\* and conflicts between rules that are resolved decide nothing anew.
JudgementsHold ==
    /\ part = "vote" => VoteIsBacked /\ DissentIsReported
    /\ part = "gate" => MoreConfidenceIsNeverWorse /\ RejectionsAreKept
    /\ part = "telemetry" => OneTimerTicks /\ SnapshotsAreOfTheWindow
    /\ part = "guards" => AttacksAreBlocked /\ ChecksAreSteady /\ RateIsOfTheMinute
    /\ part = "conflicts" => ResolutionsDecideNothing /\ ShadowedIsWider

\* What a filter says that it took out is gone.
TrustIsRight ==
    /\ DelegationTypeOK /\ AccessTypeOK /\ FederationTypeOK /\ RegistryDbTypeOK
    /\ VoteTypeOK /\ GateTypeOK /\ TelemetryTypeOK /\ DlpTypeOK /\ GuardsTypeOK
    /\ ConflictsTypeOK /\ VaultTypeOK /\ FamilyTypeOK /\ SchemaTypeOK
    /\ part = "dlp" => RedactedIsGone /\ VerdictIsOfTheScan /\ PatternsFollowConfig
=============================================================================
