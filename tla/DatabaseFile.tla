---------------------------- MODULE DatabaseFile ----------------------------
(***************************************************************************)
(* The file of the database, which outlives the processes that open it:    *)
(* the credentials in it, and its schema.                                  *)
(***************************************************************************)
EXTENDS Integers, FiniteSets

-----------------------------------------------------------------------------
(***************************************************************************)
(* Credentials with a short life (secrets/index.ts).  Their rows outlive   *)
(* the process; the key that encrypts their values does so only where one  *)
(* is configured (core/crypto.ts): otherwise each process makes its own    *)
(* when it first encrypts.  A nonce is its credential's, or a wrong one.   *)
(***************************************************************************)

CONSTANTS
    VaultWorkflows, WorkflowsOnFile, \* named in requests; of those, with a row of their own
    Lifetimes,
    MaxIssued, MaxVaultTime, MaxProcesses \* bounds

ASSUME VaultAssumption ==
    /\ MaxVaultTime \in Nat /\ MaxProcesses \in Nat \ {0}
    /\ Lifetimes \subseteq Nat /\ WorkflowsOnFile \subseteq VaultWorkflows

VARIABLES
    keyConfigured,
    encryptionKey,    \* NoKey, or who made it: 0 the operator, n the nth process
    process,
    credentialRows,   \* the table: credential -> row
    vaultTime,
    vaultAnswer,
    issued, takenBack \* history: what was issued, and which of it was revoked

vaultVars == <<keyConfigured, encryptionKey, process, credentialRows, vaultTime, vaultAnswer,
               issued, takenBack>>

NoKey == -1
NoAnswerYet == [is |-> "nothing"]
IssuedIds == DOMAIN issued

KeyAtStart == IF keyConfigured THEN 0 ELSE NoKey

VaultInit ==
    /\ keyConfigured \in BOOLEAN /\ encryptionKey = KeyAtStart
    /\ process = 1 /\ credentialRows = <<>> /\ vaultTime = 0
    /\ vaultAnswer = NoAnswerYet /\ issued = <<>> /\ takenBack = {}

\* encrypt makes a key where there is none.
EncryptingKey == IF encryptionKey = NoKey THEN process ELSE encryptionKey

\* A workflow that is not on file makes the INSERT fail, after the encryption.
IssueCredential(w, ttl) ==
    LET id == Cardinality(IssuedIds) + 1
        row == [workflow |-> w, expires |-> vaultTime + ttl, revoked |-> FALSE,
                key |-> EncryptingKey]
    IN
    /\ id <= MaxIssued /\ encryptionKey' = EncryptingKey
    /\ IF w \in WorkflowsOnFile
       THEN /\ credentialRows' = [i \in DOMAIN credentialRows \cup {id} |->
                                    IF i = id THEN row ELSE credentialRows[i]]
            /\ issued' = [i \in IssuedIds \cup {id} |->
                             IF i = id THEN [by |-> process, row |-> row] ELSE issued[i]]
            /\ vaultAnswer' = [is |-> "value", id |-> id]
       ELSE /\ vaultAnswer' = [is |-> "error"]
            /\ UNCHANGED <<credentialRows, issued>>
    /\ UNCHANGED <<keyConfigured, process, vaultTime, takenBack>>

Decrypts(row) == encryptionKey # NoKey /\ row.key = encryptionKey

\* Expiry is checked before the nonce, and what cannot be decrypted is an error.
Refusal(id, nonce) ==
    CASE id \notin DOMAIN credentialRows -> "not found"
      [] id \in DOMAIN credentialRows /\ credentialRows[id].revoked -> "revoked"
      [] id \in DOMAIN credentialRows /\ ~credentialRows[id].revoked
             /\ credentialRows[id].expires < vaultTime -> "expired"
      [] id \in DOMAIN credentialRows /\ ~credentialRows[id].revoked
             /\ credentialRows[id].expires >= vaultTime /\ nonce # id -> "nonce"
      [] OTHER -> IF Decrypts(credentialRows[id]) THEN "none" ELSE "decrypt"

GetCredential(id, nonce) ==
    /\ vaultAnswer' = IF Refusal(id, nonce) = "none" THEN [is |-> "value", id |-> id]
                      ELSE [is |-> "error"]
    /\ UNCHANGED <<keyConfigured, encryptionKey, process, credentialRows, vaultTime, issued,
                   takenBack>>

\* The UPDATE of both revocations.
Revoke(ids) ==
    /\ credentialRows' = [i \in DOMAIN credentialRows |->
                            IF i \in ids THEN [credentialRows[i] EXCEPT !.revoked = TRUE]
                            ELSE credentialRows[i]]
    /\ vaultAnswer' = NoAnswerYet
    /\ UNCHANGED <<keyConfigured, encryptionKey, process, vaultTime, issued>>

RevokeCredential(id) == Revoke({id}) /\ takenBack' = takenBack \cup {id}

RevokeWorkflowCredentials(w) ==
    /\ Revoke({i \in DOMAIN credentialRows :
                 credentialRows[i].workflow = w /\ ~credentialRows[i].revoked})
    /\ takenBack' = takenBack \cup {i \in IssuedIds : issued[i].row.workflow = w}

KeptRows == {i \in DOMAIN credentialRows : credentialRows[i].expires >= vaultTime}

CleanupCredentials ==
    /\ credentialRows' = [i \in KeptRows |-> credentialRows[i]]
    /\ vaultAnswer' = NoAnswerYet
    /\ UNCHANGED <<keyConfigured, encryptionKey, process, vaultTime, issued, takenBack>>

\* Another process, by a restart: it has the key that is configured, or none, and its vault
\* cleans up.
VaultRestart ==
    /\ process < MaxProcesses /\ process' = process + 1
    /\ encryptionKey' = KeyAtStart
    /\ credentialRows' = [i \in KeptRows |-> credentialRows[i]]
    /\ vaultAnswer' = NoAnswerYet
    /\ UNCHANGED <<keyConfigured, vaultTime, issued, takenBack>>

Active == {i \in DOMAIN credentialRows :
             ~credentialRows[i].revoked /\ credentialRows[i].expires > vaultTime}

GetStats ==
    /\ vaultAnswer' = [is |-> "statistics", total |-> Cardinality(DOMAIN credentialRows),
                       active |-> Cardinality(Active),
                       expired |-> Cardinality({i \in DOMAIN credentialRows :
                                                  credentialRows[i].expires <= vaultTime}),
                       revoked |-> Cardinality({i \in DOMAIN credentialRows :
                                                  credentialRows[i].revoked})]
    /\ UNCHANGED <<keyConfigured, encryptionKey, process, credentialRows, vaultTime, issued,
                   takenBack>>

VaultTick ==
    /\ vaultTime < MaxVaultTime /\ vaultTime' = vaultTime + 1
    /\ vaultAnswer' = NoAnswerYet
    /\ UNCHANGED <<keyConfigured, encryptionKey, process, credentialRows, issued, takenBack>>

VaultNext ==
    \/ CleanupCredentials \/ VaultRestart \/ GetStats \/ VaultTick
    \/ \E w \in VaultWorkflows :
          RevokeWorkflowCredentials(w) \/ \E ttl \in Lifetimes : IssueCredential(w, ttl)
    \/ \E id \in IssuedIds : RevokeCredential(id) \/ \E nonce \in IssuedIds : GetCredential(id, nonce)

VaultSpec == VaultInit /\ [][VaultNext]_vaultVars

-----------------------------------------------------------------------------
VaultTypeOK ==
    /\ process \in 1 .. MaxProcesses /\ encryptionKey \in NoKey .. process
    /\ vaultTime \in 0 .. MaxVaultTime
    /\ DOMAIN credentialRows \subseteq IssuedIds /\ takenBack \subseteq IssuedIds

\* Nobody is handed a credential after its end, after it was revoked, by itself or with its
\* workflow, or of a workflow that nobody has on file.
NothingAfterTheEnd ==
    vaultAnswer.is = "value" =>
        /\ vaultTime <= issued[vaultAnswer.id].row.expires
        /\ vaultAnswer.id \notin takenBack
        /\ issued[vaultAnswer.id].row.workflow \in WorkflowsOnFile

\* And until then the holder of the nonce is handed it, by the process that issued it or,
\* where a key is configured, by any later one; by another process never.  A cleanup and
\* other revocations do not get in the way.
HeldUntilTheEnd ==
    \A id \in IssuedIds \ takenBack :
        vaultTime <= issued[id].row.expires =>
            (Refusal(id, id) = "none" <=> keyConfigured \/ issued[id].by = process)

\* The statistics: what is active is handed out, and what is both revoked and expired is
\* counted twice.
StatisticsAreOfRows ==
    /\ \A id \in Active : Refusal(id, id) \in {"none", "decrypt"}
    /\ vaultAnswer.is = "statistics" =>
           /\ vaultAnswer.total <= vaultAnswer.active + vaultAnswer.expired + vaultAnswer.revoked
           /\ vaultAnswer.active + vaultAnswer.expired <= vaultAnswer.total
           /\ vaultAnswer.active + vaultAnswer.revoked <= vaultAnswer.total

-----------------------------------------------------------------------------
(***************************************************************************)
(* How the schema of the database comes about (core/database.ts).  The     *)
(* server and the command line each run the migrations when they start, on *)
(* one file: the version is read once, and each migration that is pending  *)
(* is a transaction of its own.  Nothing holds between the transactions.   *)
(***************************************************************************)

CONSTANTS
    DbProcesses,   \* processes that open the file
    LastVersion,   \* how many migrations there are
    MaxDeaths      \* bound on the crashes and stops of processes

ASSUME MigrationsAssumption == LastVersion \in Nat /\ MaxDeaths \in Nat

VARIABLES
    schemaVersion, \* the rows of the table schema_version
    applied,       \* version -> how often its statements are in the file
    opening,       \* process -> [at, start, next]
    deaths,
    overlapped     \* history: processes whose start has overlapped that of another

schemaVars == <<schemaVersion, applied, opening, deaths, overlapped>>

Versions == 1 .. LastVersion
Down == [at |-> "down", start |-> 0, next |-> 0]

\* A database of any earlier release.
SchemaInit ==
    /\ \E v \in 0 .. LastVersion :
          /\ schemaVersion = 1 .. v
          /\ applied = [w \in Versions |-> IF w <= v THEN 1 ELSE 0]
    /\ opening = [p \in DbProcesses |-> Down]
    /\ deaths = 0 /\ overlapped = {}

MaxRow == IF schemaVersion = {} THEN 0 ELSE CHOOSE v \in schemaVersion : \A w \in schemaVersion : w <= v

Others(p) == {q \in DbProcesses \ {p} : opening[q].at = "migrating"}

ReadVersion(p) ==
    /\ opening[p].at = "down"
    /\ opening' = [opening EXCEPT ![p] = [at |-> "migrating", start |-> MaxRow, next |-> 1]]
    /\ overlapped' = IF Others(p) = {} THEN overlapped \ {p} ELSE overlapped \cup Others(p) \cup {p}
    /\ UNCHANGED <<schemaVersion, applied, deaths>>

Skip(p) ==
    /\ opening[p].at = "migrating" /\ opening[p].next \in Versions
    /\ opening[p].next <= opening[p].start
    /\ opening' = [opening EXCEPT ![p].next = @ + 1]
    /\ UNCHANGED <<schemaVersion, applied, deaths, overlapped>>

\* The primary key of the versions.
Recorded(v) == v \in schemaVersion

Apply(p) ==
    LET v == opening[p].next IN
    /\ opening[p].at = "migrating" /\ v \in Versions /\ v > opening[p].start
    /\ ~Recorded(v)
    /\ applied' = [applied EXCEPT ![v] = @ + 1]
    /\ schemaVersion' = schemaVersion \cup {v}
    /\ opening' = [opening EXCEPT ![p].next = @ + 1]
    /\ UNCHANGED <<deaths, overlapped>>

\* The transaction is rolled back, as another process was first, or keeps the file locked
\* for too long; and the process does not start.
ApplyThrows(p) ==
    LET v == opening[p].next IN
    /\ opening[p].at = "migrating" /\ v \in Versions /\ v > opening[p].start
    /\ Recorded(v) \/ Others(p) # {}
    /\ opening' = [opening EXCEPT ![p] = [@ EXCEPT !.at = "failed"]]
    /\ UNCHANGED <<schemaVersion, applied, deaths, overlapped>>

Opened(p) ==
    /\ opening[p].at = "migrating" /\ opening[p].next > LastVersion
    /\ opening' = [opening EXCEPT ![p].at = "up"]
    /\ UNCHANGED <<schemaVersion, applied, deaths, overlapped>>

\* A process ends, or fails, or crashes, between two transactions or in one, which leaves
\* nothing of it; and it may be started again.
Die(p) ==
    /\ opening[p].at # "down" /\ deaths < MaxDeaths /\ deaths' = deaths + 1
    /\ opening' = [opening EXCEPT ![p] = Down]
    /\ UNCHANGED <<schemaVersion, applied, overlapped>>

SchemaNext ==
    \E p \in DbProcesses :
        ReadVersion(p) \/ Skip(p) \/ Apply(p) \/ ApplyThrows(p) \/ Opened(p) \/ Die(p)

SchemaSpec == SchemaInit /\ [][SchemaNext]_schemaVars

-----------------------------------------------------------------------------
SchemaTypeOK ==
    /\ schemaVersion \subseteq Versions /\ deaths \in 0 .. MaxDeaths
    /\ \A p \in DbProcesses : opening[p].at \in {"down", "migrating", "up", "failed"}

\* Whoever starts, and whoever dies on the way: what is in the file is what is recorded,
\* each migration once, in their order and with none left out.
SchemaIsWhole ==
    /\ \A v \in Versions : applied[v] = IF Recorded(v) THEN 1 ELSE 0
    /\ \A v \in schemaVersion : 1 .. v \subseteq schemaVersion

\* And a process that comes up finds all of it, also when it was another that migrated.
UpFindsAll == \A p \in DbProcesses : opening[p].at = "up" => schemaVersion = Versions

\* A start fails only where it overlaps another one.
AloneComesUp == \A p \in DbProcesses : opening[p].at = "failed" => p \in overlapped
=============================================================================
