--------------------------- MODULE ContentGuards ----------------------------
(***************************************************************************)
(* What is kept from leaving and from coming in: the filter of sensitive   *)
(* data, and the guards around the language models.                        *)
(***************************************************************************)
EXTENDS Integers, FiniteSets, SequencesExt

-----------------------------------------------------------------------------
(***************************************************************************)
(* The filter of sensitive data (executor/dlp-filter.ts).  A text is a     *)
(* sequence of cells, each its own number, and a pattern is where it       *)
(* matches in it; a document is its leaves, each under a key that the      *)
(* lists of field names may decide.  The matches of every pattern are      *)
(* looked for in the text as it came, and cut out of what the patterns     *)
(* before have left of it, at the same offsets.                            *)
(***************************************************************************)

CONSTANTS
    Documents,        \* [object, leaves]; a leaf is [key, covered, depth, size, matches], a
                      \* match [pattern, from, to, near, against]: keywords next to it
    DlpConfigs,       \* what a new filter may be given, or an update may name
    AddablePatterns,  \* patterns that may be added
    Schemas,          \* schemas: sets of leaves of a document
    MaxStringLength, MaxScanDepth, MaskWidth,
    TokenWidth,       \* the length of a token, a hash or the like
    MaxScans, MaxAdded \* bounds

VARIABLES
    dlpConfig,        \* the configuration of the filter that getDLPFilter returns
    defaultSchemas,   \* the array of schemas of the defaults, of which filters have no copy
    dlpPatterns, dlpInitialized,
    dlpStats,         \* scans, findings, redactions
    lastScan          \* the document that was filtered last, with its result

dlpVars == <<dlpConfig, defaultSchemas, dlpPatterns, dlpInitialized, dlpStats, lastScan>>

Star == 0
NoScan == [document |-> "none"]
NoStats == [scans |-> 0, findings |-> 0, redactions |-> 0]

\* confidence is in hundredths; keywords: has context keywords.
Pattern(id, group, class, confidence, keywords) ==
    [id |-> id, group |-> group, class |-> class, confidence |-> confidence,
     keywords |-> keywords]

DefaultPatterns ==
    [pii |->
        <<Pattern("pii-email", "pii", "confidential", 95, TRUE),
          Pattern("pii-phone-us", "pii", "confidential", 85, TRUE),
          Pattern("pii-ssn", "pii", "restricted", 90, TRUE),
          Pattern("pii-dob", "pii", "confidential", 70, TRUE)>>,
     financial |->
        <<Pattern("fin-credit-card", "financial", "restricted", 95, TRUE),
          Pattern("fin-credit-card-formatted", "financial", "restricted", 85, TRUE),
          Pattern("fin-bank-account", "financial", "restricted", 50, TRUE),
          Pattern("fin-routing", "financial", "restricted", 70, TRUE)>>,
     credential |->
        <<Pattern("cred-aws-access", "credential", "top_secret", 99, FALSE),
          Pattern("cred-aws-secret", "credential", "top_secret", 60, TRUE),
          Pattern("cred-private-key", "credential", "top_secret", 99, FALSE),
          Pattern("cred-github-token", "credential", "top_secret", 99, FALSE),
          Pattern("cred-generic-api-key", "credential", "restricted", 80, FALSE),
          Pattern("cred-password-field", "credential", "restricted", 85, FALSE),
          Pattern("cred-jwt-token", "credential", "restricted", 95, FALSE),
          Pattern("cred-bearer-token", "credential", "restricted", 90, FALSE)>>,
     health |->
        <<Pattern("health-mrn", "health", "restricted", 90, TRUE),
          Pattern("health-npi", "health", "confidential", 70, TRUE),
          Pattern("health-icd-code", "health", "restricted", 75, TRUE)>>]

Groups == DOMAIN DefaultPatterns
DefaultsOf(group) == Range(DefaultPatterns[group])
AllPatterns ==
    AddablePatterns \cup DefaultsOf("pii") \cup DefaultsOf("financial")
        \cup DefaultsOf("credential") \cup DefaultsOf("health")

\* schemas is NoSchemas where the configuration names none: then it is the shared array.
NoSchemas == {{0}}
DefaultDlpConfig ==
    [enabled |-> TRUE, shadow |-> FALSE, method |-> "mask", groups |-> Groups,
     custom |-> <<>>, schemas |-> NoSchemas]

Overridden(config, change) == [k \in DOMAIN config |-> IF k \in DOMAIN change THEN change[k] ELSE config[k]]

SchemasOf(config) == IF config.schemas = NoSchemas THEN defaultSchemas ELSE config.schemas

PatternsFor(config) ==
    LET of(g) == IF g \in config.groups THEN DefaultPatterns[g] ELSE <<>>
    IN of("pii") \o of("financial") \o of("credential") \o of("health") \o config.custom

\* What a field of the configuration may hold.
DlpSettings ==
    [enabled |-> BOOLEAN, shadow |-> BOOLEAN,
     method |-> {"mask", "hash", "token", "remove", "encrypt"},
     groups |-> SUBSET Groups, custom |-> Seq(AddablePatterns),
     schemas |-> (SUBSET Schemas) \cup {NoSchemas}]

\* Of the matches of one pattern in one text each begins where the one before has ended. Nobody
\* but the filter has its patterns, so that none of them is added to it.
ASSUME DlpAssumption ==
    /\ {MaxStringLength, MaxScanDepth, MaskWidth, TokenWidth, MaxScans} \subseteq Nat
    /\ IsFiniteSet(Schemas)
    /\ \A group \in Groups : AddablePatterns \cap DefaultsOf(group) = {}
    /\ \A change \in DlpConfigs : \A k \in DOMAIN change : k \in DOMAIN DlpSettings /\ change[k] \in DlpSettings[k]
    /\ \A document \in Documents :
          /\ IsFiniteSet(DOMAIN document.leaves)
          /\ \A k \in DOMAIN document.leaves :
                LET leaf == document.leaves[k] IN
                /\ leaf.size \in Nat /\ IsFiniteSet(leaf.matches)
                /\ \A m \in leaf.matches : m.from \in Nat \ {0} /\ m.to \in Nat /\ m.from <= m.to
                /\ \A m, n \in leaf.matches :
                      m.pattern = n.pattern => m = n \/ m.to < n.from \/ n.to < m.from

DlpInit ==
    /\ dlpConfig = DefaultDlpConfig /\ defaultSchemas = {} /\ dlpPatterns = <<>>
    /\ dlpInitialized = FALSE /\ dlpStats = NoStats /\ lastScan = NoScan

\* Once a filter is initialized, it keeps its patterns.
InitializeDlp ==
    /\ ~dlpInitialized
    /\ dlpInitialized' = TRUE /\ dlpPatterns' = PatternsFor(dlpConfig)
    /\ UNCHANGED <<dlpConfig, defaultSchemas, dlpStats, lastScan>>

\* initializeDLPFilter with a configuration: another filter, which is initialized.
ReplaceDlpFilter(change) ==
    LET config == Overridden(DefaultDlpConfig, change) IN
    /\ dlpConfig' = config /\ dlpPatterns' = PatternsFor(config) /\ dlpInitialized' = TRUE
    /\ dlpStats' = NoStats /\ lastScan' = NoScan
    /\ UNCHANGED defaultSchemas

UpdateDlpConfig(change) ==
    /\ dlpConfig' = Overridden(dlpConfig, change) /\ dlpInitialized' = FALSE
    /\ UNCHANGED <<defaultSchemas, dlpPatterns, dlpStats, lastScan>>

AddPattern(p) ==
    /\ Len(SelectSeq(dlpPatterns, LAMBDA q : q.id = p.id)) < MaxAdded
    /\ dlpPatterns' = Append(dlpPatterns, p)
    /\ UNCHANGED <<dlpConfig, defaultSchemas, dlpInitialized, dlpStats, lastScan>>

AddSchema(s) ==
    /\ IF dlpConfig.schemas = NoSchemas
       THEN defaultSchemas' = defaultSchemas \cup {s} /\ UNCHANGED dlpConfig
       ELSE /\ dlpConfig' = [dlpConfig EXCEPT !.schemas = @ \cup {s}]
            /\ UNCHANGED defaultSchemas
    /\ UNCHANGED <<dlpPatterns, dlpInitialized, dlpStats, lastScan>>

\* A keyword next to a match adds to the confidence, the lack of one takes a fifth of it,
\* and a negative keyword leaves three tenths.
Found(p, m) ==
    LET c == IF ~p.keywords THEN p.confidence
             ELSE IF m.near THEN Min({100, p.confidence + 10})
             ELSE (p.confidence * 8) \div 10
    IN (IF m.against THEN c * 3 ELSE c * 10) >= 500

ShouldBlock(p, trusted) ==
    /\ ~dlpConfig.shadow
    /\ p.class = "top_secret" \/ (p.group = "credential" /\ ~trusted)

Width(n) ==
    CASE dlpConfig.method = "mask" -> Min({n, MaskWidth})
      [] dlpConfig.method = "remove" -> 0
      [] OTHER -> TokenWidth

Stars(n) == [k \in 1 .. n |-> Star]
Kept(leaf) == Min({leaf.size, MaxStringLength})
Cells(leaf) == [k \in 1 .. Kept(leaf) |-> k]

\* Mutation: the first character of a match is left.
ReplacedButFirst(text, m) ==
    SubSeq(text, 1, Min({m.from, Len(text)})) \o Stars(Width(m.to - m.from + 1))
        \o SubSeq(text, m.to + 1, Len(text))

\* Slices end where the text ends.
Replaced(text, m) ==
    SubSeq(text, 1, Min({m.from - 1, Len(text)})) \o Stars(Width(m.to - m.from + 1))
        \o SubSeq(text, m.to + 1, Len(text))

\* Findings are dealt with pattern by pattern, and in each from the end of the text to its
\* beginning.
DealtWithBefore(a, b) == a.at < b.at \/ (a.at = b.at /\ a.from > b.from)

FoundIn(leaf, trusted) ==
    {[at |-> f[1], from |-> f[2].from, to |-> f[2].to, pattern |-> f[2].pattern,
      action |-> IF ShouldBlock(dlpPatterns[f[1]], trusted) THEN "blocked"
                 ELSE IF dlpConfig.shadow THEN "allowed" ELSE "redacted"] :
        f \in {im \in (DOMAIN dlpPatterns) \X leaf.matches :
                 /\ dlpPatterns[im[1]].id = im[2].pattern
                 /\ im[2].to <= Kept(leaf)
                 /\ Found(dlpPatterns[im[1]], im[2])}}

InTurn(found) ==
    [i \in 1 .. Cardinality(found) |->
        CHOOSE f \in found : Cardinality({g \in found : DealtWithBefore(g, f)}) = i - 1]

FindingsIn(leaf, trusted) == InTurn(FoundIn(leaf, trusted))

\* What is left of a text by the findings that are redacted, one after the other.
CutText(text, findings) ==
    LET left[k \in 0 .. Len(findings)] ==
            IF k = 0 THEN text
            ELSE IF findings[k].action = "redacted" THEN Replaced(left[k - 1], findings[k])
            ELSE left[k - 1]
    IN left[Len(findings)]

\* A key of the allowlist, or one above it of either list, leaves the value as it is.
Passes(leaf) == leaf.covered \/ leaf.key = "never" \/ leaf.depth > MaxScanDepth

\* What a leaf becomes, with what was found in it.
ScanLeaf(leaf, trusted) ==
    IF Passes(leaf) \/ (leaf.key = "always" /\ dlpConfig.shadow)
    THEN [text |-> [k \in 1 .. leaf.size |-> k], findings |-> <<>>]
    ELSE IF leaf.key = "always"
    THEN [text |-> Stars(Width(leaf.size)),
          findings |-> <<[at |-> 0, from |-> 1, to |-> leaf.size, pattern |-> "field-name-match",
                          action |-> "redacted"]>>]
    ELSE LET findings == FindingsIn(leaf, trusted) IN
         [text |-> CutText(Cells(leaf), findings), findings |-> findings]

\* What a schema names is reported as redacted, and left.
SchemaFindings(document) ==
    IF ~document.object THEN 0
    ELSE Cardinality({sk \in SchemasOf(dlpConfig) \X DOMAIN document.leaves : sk[2] \in sk[1]})

Filter(document, trusted) ==
    LET scans == [k \in DOMAIN document.leaves |-> ScanLeaf(document.leaves[k], trusted)]
        found == UNION {{k} \X DOMAIN scans[k].findings : k \in DOMAIN scans}
        acted(action) == {ki \in found : scans[ki[1]].findings[ki[2]].action = action}
        named == SchemaFindings(document)
    IN
    /\ dlpStats.scans < MaxScans
    /\ IF ~dlpConfig.enabled
       THEN /\ lastScan' = NoScan
            /\ dlpStats' = [dlpStats EXCEPT !.scans = @ + 1]
       ELSE /\ lastScan' = [document |-> document, scans |-> scans, method |-> dlpConfig.method,
                            shadow |-> dlpConfig.shadow,
                            blocked |-> acted("blocked") # {}]
            /\ dlpStats' = [scans |-> dlpStats.scans + 1,
                            findings |-> dlpStats.findings + Cardinality(found) + named,
                            redactions |-> dlpStats.redactions + Cardinality(acted("redacted"))
                                           + (IF dlpConfig.shadow THEN 0 ELSE named)]
    /\ UNCHANGED <<dlpConfig, defaultSchemas, dlpPatterns, dlpInitialized>>

ResetStats ==
    /\ dlpStats' = NoStats
    /\ UNCHANGED <<dlpConfig, defaultSchemas, dlpPatterns, dlpInitialized, lastScan>>

DlpNext ==
    \/ InitializeDlp \/ ResetStats
    \/ \E change \in DlpConfigs : ReplaceDlpFilter(change) \/ UpdateDlpConfig(change)
    \/ \E p \in AddablePatterns : AddPattern(p)
    \/ \E s \in Schemas : AddSchema(s)
    \/ \E document \in Documents, trusted \in BOOLEAN : Filter(document, trusted)

DlpSpec == DlpInit /\ [][DlpNext]_dlpVars

-----------------------------------------------------------------------------
DlpTypeOK ==
    /\ dlpInitialized \in BOOLEAN
    /\ dlpStats \in [scans : 0 .. MaxScans, findings : Nat, redactions : Nat]
    /\ dlpStats.redactions <= dlpStats.findings
    /\ DOMAIN dlpConfig = DOMAIN DlpSettings
    /\ \A k \in DOMAIN DlpSettings : dlpConfig[k] \in DlpSettings[k]
    /\ dlpPatterns \in Seq(AllPatterns)
    /\ defaultSchemas \subseteq Schemas

RedactedIn(scan) == {f \in Range(scan.findings) : f.action = "redacted"}

\* Offsets still hold: one pattern cuts, or what it leaves is as long as what it takes.
OffsetsHold(scan) ==
    \/ \A f, g \in RedactedIn(scan) : f.at = g.at
    \/ lastScan.method = "mask" /\ \A f \in RedactedIn(scan) : f.to - f.from < MaskWidth

Ascending(text) ==
    \A i, j \in DOMAIN text :
        i < j /\ text[i] # Star /\ text[j] # Star => text[i] < text[j]

\* What is reported as redacted is gone and all the rest of what was looked at is there, in its
\* order, where offsets hold.  (Where they do not, another pattern's matches are cut beside their
\* place.)
RedactedIsGone ==
    lastScan # NoScan =>
        \A k \in DOMAIN lastScan.scans :
            LET leaf == lastScan.document.leaves[k]
                scan == lastScan.scans[k]
                rest == {c \in 1 .. (IF Passes(leaf) \/ leaf.key = "always" THEN leaf.size ELSE Kept(leaf)) :
                            \A f \in RedactedIn(scan) : c \notin f.from .. f.to}
            IN OffsetsHold(scan) =>
                   /\ Range(scan.text) \ {Star} = rest
                   /\ Ascending(scan.text)

\* A scan in shadow mode alters and blocks nothing; any other says that it blocks when
\* it left a finding in for that, and that is the only reason to leave one in.
VerdictIsOfTheScan ==
    lastScan # NoScan =>
        /\ lastScan.shadow => ~lastScan.blocked
        /\ \A k \in DOMAIN lastScan.scans :
              \A f \in Range(lastScan.scans[k].findings) :
                  /\ f.action = "allowed" <=> lastScan.shadow
                  /\ f.action = "blocked" => lastScan.blocked

\* An initialized filter looks for all that its configuration asks for, and for nothing of
\* a kind that it switches off.
PatternsFollowConfig ==
    dlpInitialized =>
        /\ \A group \in Groups : \A p \in DefaultsOf(group) :
              p \in Range(dlpPatterns) <=> group \in dlpConfig.groups
        /\ Range(dlpConfig.custom) \subseteq Range(dlpPatterns)

-----------------------------------------------------------------------------
(***************************************************************************)
(* What guards the models: prompts are looked at before                    *)
(* (security/prompt-injection-detector.ts), outputs after                  *)
(* (security/llm-guardrails.ts).  A text is the set of what matches in it. *)
(* Severities and confidences are in tenths.  The awaits of both have      *)
(* nothing to wait for and change nothing in between: a call is one step.  *)
(***************************************************************************)

CONSTANTS
    Prompts,           \* what matches in a prompt: sets of identifiers
    Outputs,           \* what matches in an output: sets of identifiers
    GuardSettings,     \* configurations: [blockThreshold, layers, riskThreshold, checks,
                       \* maxRequests, maxCost]
    Costs,             \* estimated costs of a request; 0 where none is given
    GuardMinute,       \* the minute over which requests are counted
    MaxGuardTime, MaxGuardCalls \* bounds

ASSUME GuardsAssumption ==
    /\ GuardSettings \subseteq [blockThreshold : Int, layers : SUBSET {"patterns", "structure", "semantics"},
                               riskThreshold : Int, maxRequests : Int, maxCost : Int,
                               checks : SUBSET {"pii", "secrets", "harmful", "rate", "cost"}]
    /\ GuardMinute \in Nat /\ MaxGuardTime \in Nat /\ Costs \subseteq Nat

VARIABLES
    guardSettings,
    guardTime,
    detections, blocks,      \* the counters of the detector
    lastDetection,
    requestTimestamps,       \* of the checks, those of the last minute
    lastCheck,
    allRequests              \* history: the time of every check of an output

screenVars == <<guardSettings, guardTime, detections, blocks, lastDetection,
                requestTimestamps, lastCheck, allRequests>>

Detection(id, layer, type, severity) ==
    [id |-> id, layer |-> layer, type |-> type, severity |-> severity]

SuspiciousPatterns ==
    {Detection("ignore previous", "patterns", "jailbreak", 9),
     Detection("forget previous", "patterns", "jailbreak", 9),
     Detection("persona", "patterns", "jailbreak", 8),
     Detection("system override", "patterns", "instruction_override", 9),
     Detection("new instructions", "patterns", "instruction_override", 7),
     Detection("end of prompt", "patterns", "instruction_override", 8),
     Detection("fence", "patterns", "context_escape", 7),
     Detection("tag", "patterns", "context_escape", 8),
     Detection("show prompt", "patterns", "data_exfiltration", 8),
     Detection("original prompt", "patterns", "data_exfiltration", 8),
     Detection("zero width", "patterns", "encoding", 6),
     Detection("unicode escape", "patterns", "encoding", 5)}

StructuralSigns ==
    {Detection("special characters", "structure", "encoding", 6),
     Detection("line breaks", "structure", "context_escape", 5),
     Detection("long", "structure", "context_escape", 4),
     Detection("delimiters", "structure", "context_escape", 6)}

SemanticSigns ==
    {Detection("meta-instruction", "semantics", "data_exfiltration", 7),
     Detection("authority", "semantics", "jailbreak", 8)}

Detected(prompt) ==
    {d \in SuspiciousPatterns \cup StructuralSigns \cup SemanticSigns :
        d.id \in prompt /\ d.layer \in guardSettings.layers}

MaxSeverity(found) == Max({d.severity : d \in found} \cup {0})

ThreatLevel(found) ==
    CASE MaxSeverity(found) >= 9 -> "definite_attack"
      [] MaxSeverity(found) \in 7 .. 8 -> "likely_attack"
      [] MaxSeverity(found) < 7 /\ found # {} -> "suspicious"
      [] OTHER -> "safe"

Blocked(found) == MaxSeverity(found) >= guardSettings.blockThreshold

NothingYet == [is |-> "nothing"]

GuardsInit ==
    /\ guardSettings \in GuardSettings
    /\ guardTime = 0 /\ detections = 0 /\ blocks = 0 /\ lastDetection = NothingYet
    /\ requestTimestamps = <<>> /\ lastCheck = NothingYet /\ allRequests = <<>>

AnalyzePrompt(prompt) ==
    LET found == Detected(prompt) IN
    /\ detections < MaxGuardCalls /\ detections' = detections + 1
    /\ blocks' = blocks + (IF Blocked(found) THEN 1 ELSE 0)
    /\ lastDetection' = [is |-> "detection", level |-> ThreatLevel(found),
                         blocked |-> Blocked(found),
                         reasons |-> IF Blocked(found) THEN {d.type : d \in found} ELSE {}]
    /\ UNCHANGED <<guardSettings, guardTime, requestTimestamps, lastCheck, allRequests>>

PersonalData == {"SSN", "Credit Card", "Email", "Phone Number"}
SecretKinds == {"AWS Access Key", "API Key", "GitHub Token", "Slack Token"}
Harmful == {"how to hack", "phishing", "bypass security"}
Jailbroken == {"as dan", "in developer mode"}

Violation(kind, severity) == [kind |-> kind, severity |-> severity]
SeverityScores == [low |-> 10, medium |-> 30, high |-> 60, critical |-> 100]

ContentViolations(output) ==
    {Violation(k, "high") : k \in {p \in PersonalData \cap output : "pii" \in guardSettings.checks}}
    \cup {Violation(k, "critical") : k \in {s \in SecretKinds \cap output : "secrets" \in guardSettings.checks}}
    \cup {Violation(k, "high") : k \in {h \in Harmful \cap output : "harmful" \in guardSettings.checks}}
    \cup {Violation(k, "critical") : k \in Jailbroken \cap output}

\* Requests of more than a minute ago are dropped from the front, the new one is added,
\* refused or not.
Outdated(k) == guardTime - requestTimestamps[k] > GuardMinute

WithinMinute ==
    LET first == CHOOSE k \in 1 .. Len(requestTimestamps) + 1 :
                     /\ \A j \in 1 .. k - 1 : Outdated(j)
                     /\ k \in DOMAIN requestTimestamps => ~Outdated(k)
    IN SubSeq(requestTimestamps, first, Len(requestTimestamps))

RateViolations(timestamps) ==
    {v \in {Violation("rate", "medium")} : Len(timestamps) > guardSettings.maxRequests}

CostViolations(cost) ==
    {v \in {Violation("cost", "high")} :
        "cost" \in guardSettings.checks /\ cost # 0 /\ cost > guardSettings.maxCost}

OfSeverity(violations, s) == {v \in violations : v.severity = s}

\* The sum of all scores, severity by severity.
ScoreSum(violations) ==
    LET of(s) == SeverityScores[s] * Cardinality(OfSeverity(violations, s))
    IN of("low") + of("medium") + of("high") + of("critical")

\* Seven tenths of the worst and three of the mean, rounded.
GuardScore(violations) ==
    IF violations = {} THEN 0
    ELSE LET n == Cardinality(violations)
             sum == ScoreSum(violations)
             worst == Max({SeverityScores[v.severity] : v \in violations})
         IN (7 * worst * n + 3 * sum + 5 * n) \div (10 * n)

\* What is left after the kinds that were found, and only those, are redacted.
Sanitized(output, violations) ==
    output \ {k \in PersonalData \cup SecretKinds : \E v \in violations : v.kind = k}

CheckOutput(output, cost) ==
    LET limiting == "rate" \in guardSettings.checks
        timestamps == IF limiting THEN Append(WithinMinute, guardTime) ELSE requestTimestamps
        violations == ContentViolations(output) \cup CostViolations(cost)
                          \cup (IF limiting THEN RateViolations(timestamps) ELSE {})
        score == GuardScore(violations)
        critical == \E v \in violations : v.severity = "critical"
    IN
    /\ Len(allRequests) < MaxGuardCalls
    /\ allRequests' = Append(allRequests, guardTime)
    /\ requestTimestamps' = timestamps
    /\ lastCheck' = [is |-> "check", at |-> guardTime, output |-> output,
                     violations |-> violations, score |-> score,
                     safe |-> score < guardSettings.riskThreshold /\ ~critical,
                     warning |-> score < guardSettings.riskThreshold /\ violations # {},
                     sanitized |-> Sanitized(output, violations)]
    /\ UNCHANGED <<guardSettings, guardTime, detections, blocks, lastDetection>>

GuardsTick ==
    /\ guardTime < MaxGuardTime /\ guardTime' = guardTime + 1
    /\ UNCHANGED <<guardSettings, detections, blocks, lastDetection, requestTimestamps,
                   lastCheck, allRequests>>

GuardsNext ==
    \/ \E prompt \in Prompts : AnalyzePrompt(prompt)
    \/ \E output \in Outputs, cost \in Costs : CheckOutput(output, cost)
    \/ GuardsTick

GuardsSpec == GuardsInit /\ [][GuardsNext]_screenVars

-----------------------------------------------------------------------------
GuardsTypeOK ==
    /\ guardTime \in 0 .. MaxGuardTime /\ blocks \in 0 .. detections
    /\ lastCheck.is = "check" => lastCheck.score \in 0 .. 100
    /\ Len(requestTimestamps) <= Len(allRequests)

\* What is certainly an attack is blocked, and nothing that is merely suspicious, where
\* the threshold lies between the two; a block has reasons, unless the threshold is so low
\* that everything is blocked; and what adds to a prompt takes no block away.
AttacksAreBlocked ==
    /\ lastDetection.is = "detection" =>
          /\ lastDetection.level = "definite_attack" /\ guardSettings.blockThreshold <= 9 =>
                 lastDetection.blocked
          /\ lastDetection.level \in {"safe", "suspicious"} /\ guardSettings.blockThreshold > 6 =>
                 ~lastDetection.blocked
          /\ guardSettings.blockThreshold > 0 =>
                 (lastDetection.blocked <=> lastDetection.reasons # {})
    /\ \A p, q \in Prompts :
          p \subseteq q /\ Blocked(Detected(p)) => Blocked(Detected(q))

\* An output with anything critical is never safe.  With a threshold above 60, as the
\* default is, nothing else makes it unsafe, whatever there is of it: personal data, costs
\* and rates are warnings.  With one of 79 or less, what is warned of is safe.
ChecksAreSteady ==
    lastCheck.is = "check" =>
        LET critical == \E v \in lastCheck.violations : v.severity = "critical" IN
        /\ critical => ~lastCheck.safe
        /\ guardSettings.riskThreshold > 60 => (lastCheck.safe <=> ~critical)
        /\ guardSettings.riskThreshold <= 79 /\ lastCheck.warning => lastCheck.safe
        /\ lastCheck.safe /\ guardSettings.checks = {"pii", "secrets", "harmful", "rate", "cost"} =>
               lastCheck.sanitized \cap (PersonalData \cup SecretKinds) = {}

\* A check is said to be beyond the rate exactly when more than the maximum were made in
\* the minute that ends with it.
RateIsOfTheMinute ==
    lastCheck.is = "check" /\ "rate" \in guardSettings.checks =>
        LET made == Cardinality({k \in DOMAIN allRequests :
                                    lastCheck.at - allRequests[k] <= GuardMinute})
        IN Violation("rate", "medium") \in lastCheck.violations <=> made > guardSettings.maxRequests
=============================================================================
