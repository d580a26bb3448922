----------------------------- MODULE MCPlatform -----------------------------
(***************************************************************************)
(* Components that share no variable with each other or with the workflow  *)
(* engine, for TLC: as in MCServices, a run looks at one at a time, the  *)
(* one that `part' names.                                                  *)
(***************************************************************************)
EXTENDS TemporalWorkflow, ResilientExecutor, AutomationService, AgentRuntime,
        NhiLifecycle, ChannelApproval, AdapterRegistry

VARIABLE part

platformVars == <<part, temporalVars, resilientVars, automationVars, memoryVars, guardVars,
                  nhiVars, channelVars, registryVars>>

PlatformInit ==
    /\ part \in {"temporal", "resilient", "automation", "memory", "guard", "identity", "chat",
                 "adapters"}
    /\ TemporalInit /\ ResilientInit /\ AutomationInit /\ MemoryInit /\ GuardInit
    /\ NhiInit /\ ChannelInit /\ RegistryInit

PlatformNext ==
    /\ UNCHANGED part
    /\ IF part = "temporal"   THEN TemporalNext   ELSE UNCHANGED temporalVars
    /\ IF part = "resilient"  THEN ResilientNext  ELSE UNCHANGED resilientVars
    /\ IF part = "automation" THEN AutomationNext ELSE UNCHANGED automationVars
    /\ IF part = "memory"     THEN MemoryNext     ELSE UNCHANGED memoryVars
    /\ IF part = "guard"      THEN GuardNext      ELSE UNCHANGED guardVars
    /\ IF part = "identity"   THEN NhiNext        ELSE UNCHANGED nhiVars
    /\ IF part = "chat"       THEN ChannelNext    ELSE UNCHANGED channelVars
    /\ IF part = "adapters"   THEN RegistryNext   ELSE UNCHANGED registryVars

\* Two adapters of one name and capability.
Http == [id |-> "http", name |-> "HTTP", caps |-> {"get"}, words |-> {"w"}]

AdapterDefinitions == {Http, [Http EXCEPT !.id = "http2"]}

DefaultAdapters == <<Http>>

OwnTools == {}

\* What begins in none but its initial state has nothing that must go on.
PlatformFairness ==
    /\ TemporalFairness /\ ResilientFairness /\ AutomationFairness /\ MemoryFairness
    /\ GuardFairness /\ NhiFairness
    /\ \A p \in RegistryProcesses : WF_registryVars(part = "adapters" /\ Statement(p))

PlatformSpec == PlatformInit /\ [][PlatformNext]_platformVars /\ PlatformFairness

\* Types of the state of all of them.
PlatformTypeOK ==
    /\ TemporalTypeOK /\ ResilientTypeOK /\ AutomationTypeOK /\ MemoryTypeOK /\ GuardTypeOK
    /\ NhiTypeOK /\ ChannelTypeOK /\ RegistryTypeOK

\* An identity that is suspended holds nothing; no two tasks have one idempotency key; the
\* registry has in memory what its table says, and never counts an entry of its catalog twice.
StoresAreRight == SuspendedHoldsNothing /\ OneTaskPerKey /\ MemoryIsTable /\ StatisticsAreSound

\* An identity that expired is revoked, a task that was taken on is settled, and the registry
\* comes up, unless there is nothing left to load.
ChoresAreDone ==
    /\ ExpiredIsRevoked /\ TasksSettle
    /\ \A p \in RegistryProcesses : []<>(part = "adapters" => Loaded(p))
=============================================================================
