-------------------------- MODULE SpiffeIdentities --------------------------
(***************************************************************************)
(* SPIFFE identities of other trust domains, and the table of those of     *)
(* this one.                                                               *)
(***************************************************************************)
EXTENDS Integers, FiniteSets, Sequences

-----------------------------------------------------------------------------
(***************************************************************************)
(* Trust domains that accept each other's identities                       *)
(* (identity/federation.ts), and the interval timers that synchronise      *)
(* their bundles.  A bundle is what it says (`roots', how many root        *)
(* certificates) and what its hash was computed over; certificates are not *)
(* looked at.  A timer is an object: who loses its handle cannot stop it.  *)
(***************************************************************************)

CONSTANTS
    LocalDomain, RemoteDomains,
    Bundles,           \* [roots, hashed]: the hash is right iff hashed = roots
    FederationOptions, \* [endpoint, autoSync, pattern] of a request
    MaxTimers          \* bound: timers ever set

ASSUME FederationAssumption ==
    MaxTimers \in Nat /\ Bundles \subseteq [roots : Nat, hashed : Nat]

NoTimer == 0

VARIABLES
    localBundle,     \* trustBundle of the local domain
    federatedDomains,\* the bundle of each federated domain, or NoBundle
    relationships,   \* the options of each relationship, or NoRelationship
    federatedWith,   \* the set that the local domain keeps
    syncIntervals,   \* the handle of each domain's timer, or NoTimer
    ticking,         \* timers that are set: <<number, domain>>
    timersSet        \* timers ever set

federationVars == <<localBundle, federatedDomains, relationships, federatedWith,
                    syncIntervals, ticking, timersSet>>

NoBundle == [roots |-> -1, hashed |-> -1]
NoRelationship == [endpoint |-> FALSE, autoSync |-> FALSE, pattern |-> {}, synced |-> FALSE]

\* Nothing checks the first bundle of the local domain.
FederationInit ==
    /\ localBundle \in Bundles
    /\ federatedDomains = [d \in RemoteDomains |-> NoBundle]
    /\ relationships = [d \in RemoteDomains |-> NoRelationship]
    /\ federatedWith = {} /\ ticking = {} /\ timersSet = 0
    /\ syncIntervals = [d \in RemoteDomains |-> NoTimer]

\* calculateBundleHash of what the bundle says.
HashMatches(bundle) == bundle.hashed = bundle.roots

WithoutTimer(d) == ticking \ {<<syncIntervals[d], d>>}

\* The timer that is set already is stopped first, when a new one is set.
StartAutoSync(d) ==
    /\ timersSet < MaxTimers
    /\ timersSet' = timersSet + 1
    /\ syncIntervals' = [syncIntervals EXCEPT ![d] = timersSet + 1]
    /\ ticking' = WithoutTimer(d) \cup {<<timersSet + 1, d>>}

\* A domain may be federated again, with other options.  A bundle whose hash does not
\* match throws before anything has changed.
FederateWith(d, bundle, options) ==
    /\ HashMatches(bundle)
    /\ federatedDomains' = [federatedDomains EXCEPT ![d] = bundle]
    /\ federatedWith' = federatedWith \cup {d}
    /\ relationships' = [relationships EXCEPT
            ![d] = [endpoint |-> options.endpoint, autoSync |-> options.autoSync,
                    pattern |-> options.pattern, synced |-> FALSE]]
    /\ IF options.autoSync /\ options.endpoint THEN StartAutoSync(d)
       ELSE UNCHANGED <<syncIntervals, ticking, timersSet>>
    /\ UNCHANGED localBundle

\* syncTrustBundle, by request or by the timer: it only notes the time, and only
\* where there is an endpoint to ask.
SyncTrustBundle(d) ==
    /\ relationships[d].endpoint
    /\ relationships' = [relationships EXCEPT ![d].synced = TRUE]
    /\ UNCHANGED <<localBundle, federatedDomains, federatedWith, syncIntervals, ticking, timersSet>>

TimerSyncs(timer) == timer \in ticking /\ SyncTrustBundle(timer[2])

Unfederate(d) ==
    /\ federatedDomains[d] # NoBundle
    /\ ticking' = WithoutTimer(d)
    /\ syncIntervals' = [syncIntervals EXCEPT ![d] = NoTimer]
    /\ federatedDomains' = [federatedDomains EXCEPT ![d] = NoBundle]
    /\ relationships' = [relationships EXCEPT ![d] = NoRelationship]
    /\ federatedWith' = federatedWith \ {d}
    /\ UNCHANGED <<localBundle, timersSet>>

UpdateLocalTrustBundle(bundle) ==
    /\ HashMatches(bundle)
    /\ localBundle' = bundle
    /\ UNCHANGED <<federatedDomains, relationships, federatedWith, syncIntervals, ticking, timersSet>>

\* destroy, of the timers only.
StopTimers ==
    /\ ticking' = ticking \ {<<syncIntervals[d], d>> : d \in RemoteDomains}
    /\ syncIntervals' = [d \in RemoteDomains |-> NoTimer]
    /\ UNCHANGED <<localBundle, federatedDomains, relationships, federatedWith, timersSet>>

\* verifyFederatedIdentity.  An empty bundle vouches for nobody.
Accepts(d, name) ==
    IF d = LocalDomain THEN localBundle.roots > 0
    ELSE /\ federatedDomains[d] # NoBundle
         /\ relationships[d].pattern # {} => name \in relationships[d].pattern
         /\ federatedDomains[d].roots > 0

FederationNext ==
    \/ \E d \in RemoteDomains :
          \/ \E bundle \in Bundles, options \in FederationOptions : FederateWith(d, bundle, options)
          \/ SyncTrustBundle(d) \/ Unfederate(d)
    \/ \E timer \in ticking : TimerSyncs(timer)
    \/ \E bundle \in Bundles : UpdateLocalTrustBundle(bundle)
    \/ StopTimers

FederationSpec == FederationInit /\ [][FederationNext]_federationVars

-----------------------------------------------------------------------------
FederationTypeOK ==
    /\ localBundle \in Bundles /\ timersSet \in 0 .. MaxTimers
    /\ \A d \in RemoteDomains : federatedDomains[d] \in Bundles \cup {NoBundle}

\* The three tables name the same domains, so that no identity is accepted under a
\* relationship that has ended, or by a bundle that is not intact.
TablesAgree ==
    /\ federatedWith = {d \in RemoteDomains : federatedDomains[d] # NoBundle}
    /\ \A d \in RemoteDomains \ federatedWith : relationships[d] = NoRelationship
    /\ \A d \in RemoteDomains \ {LocalDomain}, name \in UNION {o.pattern : o \in FederationOptions} :
          Accepts(d, name) => d \in federatedWith /\ HashMatches(federatedDomains[d])

\* Every timer that is set can be stopped, is the only one of its domain, and serves a
\* domain that is federated.
TimersAreHeld ==
    \A timer \in ticking : syncIntervals[timer[2]] = timer[1] /\ timer[2] \in federatedWith

-----------------------------------------------------------------------------
(***************************************************************************)
(* The registry of agents' SPIFFE identities in PostgreSQL                 *)
(* (identity/spiffe-registry.ts).  Statements run under READ COMMITTED: an *)
(* UPDATE waits for the transaction that holds the row, and then changes   *)
(* the columns it names in the row as that one has left it.  A rotation is *)
(* the only transaction of more than one statement.  suspendIdentity and   *)
(* revokeIdentity assign the column `metadata' twice in one UPDATE, which  *)
(* PostgreSQL refuses (42601): both always throw, and change nothing.      *)
(***************************************************************************)

CONSTANTS
    Agents, AgentRoles, TrustLevels,
    SentCapabilities, \* the lists of capabilities that callers register an agent with
    RegistryCalls,   \* calls of the registry that may be under way at a time
    MaxRotations     \* bound: rotations begun

ASSUME RegistryDbAssumption == MaxRotations \in Nat

VARIABLES
    identities,      \* committed rows of spiffe_identities, or Unregistered
    rotationHistory, \* committed rows of spiffe_rotation_history
    regCall,         \* what each call is about to do, with what it has read
    rotations,       \* rotations begun; the n-th makes serial number n
    lastSet          \* history: what was last written to each row, column by column, and
                     \* whether the capabilities were derived from a trust level

registryDbVars == <<identities, rotationHistory, regCall, rotations, lastSet>>

Unregistered ==
    [role |-> "none", trust |-> "none", capabilities |-> <<>>, serial |-> -1, status |-> "none"]

NoCall == [at |-> "idle"]

RegistryDbInit ==
    /\ identities = [a \in Agents |-> Unregistered]
    /\ rotationHistory = <<>>
    /\ regCall = [c \in RegistryCalls |-> NoCall]
    /\ rotations = 0
    /\ lastSet = [a \in Agents |-> [trust |-> "none", serial |-> -1, capabilities |-> <<>>,
                                 derived |-> FALSE]]

\* DEFAULT_CAPABILITIES, one set per role and trust level.
DefaultCapabilities(role, trust) == <<role, trust>>

\* An identity that is registered already violates the unique key.  The capabilities are the
\* caller's, whatever the role and the trust level.
RegisterIdentity(a, role, trust, status, capabilities) ==
    /\ identities[a] = Unregistered
    /\ identities' = [identities EXCEPT
            ![a] = [role |-> role, trust |-> trust, serial |-> 0, status |-> status,
                    capabilities |-> capabilities]]
    /\ lastSet' = [lastSet EXCEPT ![a] = [trust |-> trust, serial |-> 0,
                                          capabilities |-> capabilities, derived |-> FALSE]]
    /\ UNCHANGED <<rotationHistory, regCall, rotations>>

\* The row lock that an UPDATE of a transaction holds until it ends.
Locked(a) == \E c \in RegistryCalls : regCall[c].at \in {"updated", "recorded"} /\ regCall[c].agent = a

Goes(c, to) == regCall' = [regCall EXCEPT ![c] = to]

\* BEGIN and the SELECT, which locks nothing.  An unknown identity is rolled back.
RotationReads(c, a) ==
    /\ regCall[c] = NoCall /\ identities[a] # Unregistered /\ rotations < MaxRotations
    /\ rotations' = rotations + 1
    /\ Goes(c, [at |-> "read", agent |-> a, old |-> identities[a].serial, new |-> rotations + 1])
    /\ UNCHANGED <<identities, rotationHistory, lastSet>>

RotationUpdates(c) ==
    /\ regCall[c].at = "read" /\ ~Locked(regCall[c].agent)
    /\ Goes(c, [regCall[c] EXCEPT !.at = "updated"])
    /\ UNCHANGED <<identities, rotationHistory, rotations, lastSet>>

\* Mutation: the record is written outside of the transaction.
RotationRecordsAtOnce(c) ==
    /\ regCall[c].at = "updated"
    /\ rotationHistory' = Append(rotationHistory,
            [agent |-> regCall[c].agent, old |-> regCall[c].old, new |-> regCall[c].new])
    /\ Goes(c, [regCall[c] EXCEPT !.at = "recorded"])
    /\ UNCHANGED <<identities, rotations, lastSet>>

RotationRecords(c) ==
    /\ regCall[c].at = "updated"
    /\ Goes(c, [regCall[c] EXCEPT !.at = "recorded"])
    /\ UNCHANGED <<identities, rotationHistory, rotations, lastSet>>

\* Both writes become visible at once.
RotationCommits(c) ==
    /\ regCall[c].at = "recorded"
    /\ identities' = [identities EXCEPT ![regCall[c].agent].serial = regCall[c].new]
    /\ rotationHistory' = Append(rotationHistory,
            [agent |-> regCall[c].agent, old |-> regCall[c].old, new |-> regCall[c].new])
    /\ lastSet' = [lastSet EXCEPT ![regCall[c].agent].serial = regCall[c].new]
    /\ Goes(c, NoCall)
    /\ UNCHANGED rotations

\* A statement fails, or the connection is lost.
RotationRollsBack(c) ==
    /\ regCall[c].at \in {"read", "updated", "recorded"}
    /\ Goes(c, NoCall)
    /\ UNCHANGED <<identities, rotationHistory, rotations, lastSet>>

\* updateTrustLevel: the role is read in a statement of its own.
TrustReads(c, a, trust) ==
    /\ regCall[c] = NoCall /\ identities[a] # Unregistered
    /\ Goes(c, [at |-> "trust", agent |-> a, trust |-> trust,
                capabilities |-> DefaultCapabilities(identities[a].role, trust)])
    /\ UNCHANGED <<identities, rotationHistory, rotations, lastSet>>

TrustUpdates(c) ==
    /\ regCall[c].at = "trust" /\ ~Locked(regCall[c].agent)
    /\ identities' = [identities EXCEPT ![regCall[c].agent].trust = regCall[c].trust,
                                        ![regCall[c].agent].capabilities = regCall[c].capabilities]
    /\ lastSet' = [lastSet EXCEPT ![regCall[c].agent] =
            [trust |-> regCall[c].trust, serial |-> @.serial,
             capabilities |-> regCall[c].capabilities, derived |-> TRUE]]
    /\ Goes(c, NoCall)
    /\ UNCHANGED <<rotationHistory, rotations>>

ReactivateIdentity(a) ==
    /\ identities[a].status = "suspended" /\ ~Locked(a)
    /\ identities' = [identities EXCEPT ![a].status = "active"]
    /\ UNCHANGED <<rotationHistory, regCall, rotations, lastSet>>

RegistryDbNext ==
    \/ \E a \in Agents :
          \/ \E role \in AgentRoles, trust \in TrustLevels, status \in {"active", "suspended"},
                capabilities \in SentCapabilities : RegisterIdentity(a, role, trust, status, capabilities)
          \/ ReactivateIdentity(a)
          \/ \E c \in RegistryCalls :
                 RotationReads(c, a) \/ \E trust \in TrustLevels : TrustReads(c, a, trust)
    \/ \E c \in RegistryCalls :
          \/ RotationUpdates(c) \/ RotationRecords(c) \/ RotationCommits(c) \/ RotationRollsBack(c)
          \/ TrustUpdates(c)

RegistryDbSpec == RegistryDbInit /\ [][RegistryDbNext]_registryDbVars

-----------------------------------------------------------------------------
RegistryDbTypeOK ==
    /\ \A a \in Agents : identities[a].status \in {"none", "active", "suspended"}
    /\ rotations \in 0 .. MaxRotations
    /\ \A c \in RegistryCalls : regCall[c].at \in {"idle", "read", "updated", "recorded", "trust"}

\* Concurrent writers of one row do not lose each other's columns; and once a trust level was
\* changed, the capabilities of the agent are those of its role and the trust level beside
\* them, although the role was read in a statement before.
NoLostColumns ==
    \A a \in Agents : identities[a] # Unregistered =>
        /\ identities[a].trust = lastSet[a].trust /\ identities[a].serial = lastSet[a].serial
        /\ identities[a].capabilities = lastSet[a].capabilities
        /\ lastSet[a].derived =>
              identities[a].capabilities = DefaultCapabilities(identities[a].role, identities[a].trust)

RecordsOf(a) == {k \in DOMAIN rotationHistory : rotationHistory[k].agent = a}

LastRecord(k, a) == k \in RecordsOf(a) /\ \A j \in RecordsOf(a) : j <= k

\* The history accounts for the serial number of every row: the last record made it, and
\* every record replaced one that the row has had before.  (Not always the last one: two
\* rotations may read the same.)
HistoryAccountsForSerials ==
    \A a \in Agents : identities[a] # Unregistered =>
        /\ \/ RecordsOf(a) = {} /\ identities[a].serial = 0
           \/ \E k \in RecordsOf(a) : LastRecord(k, a) /\ identities[a].serial = rotationHistory[k].new
        /\ \A k \in RecordsOf(a) :
              \/ rotationHistory[k].old = 0
              \/ \E j \in RecordsOf(a) : j < k /\ rotationHistory[j].new = rotationHistory[k].old
=============================================================================
