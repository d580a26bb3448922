---------------------------- MODULE AuditRecords ----------------------------
(***************************************************************************)
(* What the audit keeps beside its ledger: the log of the governance       *)
(* services, the artifacts of a run for its replay, and an index for       *)
(* queries.                                                                *)
(***************************************************************************)
EXTENDS Naturals, FiniteSets, SequencesExt, Functions

-----------------------------------------------------------------------------
(***************************************************************************)
(* The governance audit log (src/src/governance/audit/AuditService.ts):    *)
(* events are buffered and flushed in batches to a file, by the call that  *)
(* fills the buffer, by a timer and by every query; a batch that could not *)
(* be written goes back in front of the buffer, although some of it may    *)
(* have reached the file before the append failed.  Nothing keeps two      *)
(* flushes from being under way at once.  An event is its number in the    *)
(* order of logging, which is also its place in the hash chain; the files  *)
(* of the days are one, and appends come one after the other.              *)
(***************************************************************************)

CONSTANTS
    MaxEvents,   \* bound: events logged
    BatchSize,   \* batch_size
    MaxPartialWrites  \* bound: appends that fail after they wrote something

ASSUME AuditAssumption ==
    MaxEvents \in Nat /\ BatchSize \in Nat \ {0} /\ MaxPartialWrites \in Nat

VARIABLES
    logged,      \* number of events logged
    buffer,
    writes,      \* batches that backend.write is working on
    file,        \* the events that can be read in the file, in their order there
    cut,         \* the file ends within a line, and the next line will continue it
    garbled,     \* events whose line continued a cut one: nobody can read them
    again,       \* events that reached the file with an append that failed
    partialWrites, \* how many appends failed after they wrote something
    service,     \* "up", "closing" while shutdown flushes, then "closed", or "stuck" when
                 \* that failed; "ended"
    lastWrite,   \* the batch that shutdown waits for
    lost         \* events that were in memory only when the process ended

fileVars == <<file, cut, garbled, again, partialWrites>>
auditVars == <<logged, buffer, writes, fileVars, service, lastWrite, lost>>

AuditInit ==
    /\ logged = 0
    /\ buffer = <<>> /\ writes = {}
    /\ file = <<>> /\ cut = FALSE /\ garbled = {} /\ again = {} /\ partialWrites = 0
    /\ service = "up" /\ lastWrite = <<>>
    /\ lost = {}

Alive == service # "ended"

\* flush up to its wait, with b in the buffer.
FlushOf(b) ==
    /\ buffer' = <<>>
    /\ writes' = IF b = <<>> THEN writes ELSE writes \cup {b}

\* log: the event joins the hash chain and the buffer.
Log ==
    /\ Alive /\ logged < MaxEvents
    /\ logged' = logged + 1
    /\ LET b == Append(buffer, logged') IN
        IF Len(b) >= BatchSize THEN FlushOf(b) ELSE buffer' = b /\ UNCHANGED writes
    /\ UNCHANGED <<fileVars, service, lastWrite, lost>>

FlushOnTimer ==
    /\ service = "up" /\ buffer # <<>>
    /\ FlushOf(buffer)
    /\ UNCHANGED <<logged, fileVars, service, lastWrite, lost>>

\* query, and everything that reads through it, flushes first.
FlushOnQuery ==
    /\ Alive /\ buffer # <<>>
    /\ FlushOf(buffer)
    /\ UNCHANGED <<logged, fileVars, service, lastWrite, lost>>

\* The lines of s are appended; the first continues a cut line.
Continues(s) == cut /\ s # <<>>
Appends(s) ==
    /\ file' = file \o IF Continues(s) THEN Tail(s) ELSE s
    /\ garbled' = IF Continues(s) THEN garbled \cup {Head(s)} ELSE garbled

WriteSucceeds(b) ==
    /\ Alive /\ b \in writes
    /\ writes' = writes \ {b}
    /\ Appends(b) /\ cut' = FALSE
    /\ service' = IF service = "closing" /\ b = lastWrite THEN "closed" ELSE service
    /\ UNCHANGED <<logged, buffer, again, partialWrites, lastWrite, lost>>

\* unshift
Restore(b) == b \o buffer

\* An append that fails wrote nothing, or some lines and perhaps the beginning of
\* the next one.
FailsUntouched == UNCHANGED fileVars
FailsPartly(b) ==
    /\ partialWrites < MaxPartialWrites
    /\ partialWrites' = partialWrites + 1
    /\ \E s \in Prefixes(b) :
        /\ Appends(s)
        /\ again' = again \cup ToSet(s)
        /\ \/ s # <<>> /\ cut' = FALSE
           \/ s # b /\ cut' = TRUE

\* The whole batch goes back.  A shutdown whose flush fails throws and leaves the
\* backend open.
WriteFails(b) ==
    /\ Alive /\ b \in writes
    /\ writes' = writes \ {b}
    /\ buffer' = Restore(b)
    /\ FailsUntouched \/ FailsPartly(b)
    /\ service' = IF service = "closing" /\ b = lastWrite THEN "stuck" ELSE service
    /\ UNCHANGED <<logged, lastWrite, lost>>

\* shutdown: the timer stops, and what is buffered is flushed.
Shutdown ==
    /\ service = "up"
    /\ service' = IF buffer = <<>> THEN "closed" ELSE "closing"
    /\ lastWrite' = buffer
    /\ FlushOf(buffer)
    /\ UNCHANGED <<logged, fileVars, lost>>

\* The process exits after the shutdown, or dies at any time.
ProcessEnds ==
    /\ Alive
    /\ service' = "ended"
    /\ lost' = ToSet(buffer) \cup UNION {ToSet(b) : b \in writes}
    /\ buffer' = <<>> /\ writes' = {}
    /\ UNCHANGED <<logged, fileVars, lastWrite>>

AuditNext ==
    \/ Log \/ FlushOnTimer \/ FlushOnQuery \/ Shutdown \/ ProcessEnds
    \/ \E b \in writes : WriteSucceeds(b) \/ WriteFails(b)

\* The timer keeps firing, every write ends, and not every write fails for ever.
AuditFairness ==
    /\ WF_auditVars(FlushOnTimer)
    /\ WF_auditVars(\E b \in writes : WriteSucceeds(b) \/ WriteFails(b))
    /\ SF_auditVars(\E b \in writes : WriteSucceeds(b))

AuditSpec == AuditInit /\ [][AuditNext]_auditVars /\ AuditFairness

-----------------------------------------------------------------------------
\* Types of the audit service's state.
AuditTypeOK ==
    /\ logged \in 0 .. MaxEvents
    /\ buffer \in Seq(1 .. logged) /\ file \in Seq(1 .. logged)
    /\ \A b \in writes : b \in Seq(1 .. logged) /\ b # <<>>
    /\ cut \in BOOLEAN /\ garbled \cup again \subseteq 1 .. logged
    /\ partialWrites \in 0 .. MaxPartialWrites
    /\ service \in {"up", "closing", "closed", "stuck", "ended"}
    /\ lost \subseteq 1 .. logged

Writing == UNION {ToSet(b) : b \in writes}

\* However flushes overlap and fail, the log drops no event that it could still write,
\* and only a failed append costs it anything: an event is in the file twice, or there
\* and on its way there once more, only when an append that failed had written it; and
\* every such append makes at most one event unreadable, that of the line after it.
EventsAreKept ==
    /\ ToSet(buffer) \cup Writing \cup ToSet(file) \cup garbled \cup lost = 1 .. logged
    /\ ToSet(buffer) \cap (lost \cup Writing) = {} /\ lost \cap Writing = {}
    /\ \A b, c \in writes : b # c => ToSet(b) \cap ToSet(c) = {}
    /\ \A s \in {buffer} \cup writes : IsInjective(s)
    /\ (ToSet(file) \cup garbled) \cap (ToSet(buffer) \cup lost \cup Writing) \subseteq again
    /\ ToSet(file) \cap garbled \subseteq again
    /\ \A i, j \in DOMAIN file : file[i] = file[j] => i = j \/ file[i] \in again
    /\ Cardinality(garbled) <= partialWrites

-----------------------------------------------------------------------------
(***************************************************************************)
(* The recorder of execution artifacts and the replay engine.  Artifacts   *)
(* of all workflows form one hash chain and are the leaves of a Merkle     *)
(* tree, whose root a timer commits; the model's response to a prompt is   *)
(* cached for replays, under the hashes that the caller sends, while the   *)
(* artifact gets computed ones for those that it does not send.  A hash is *)
(* modelled by what it is taken of, that of an artifact by its position, a *)
(* root by the number of leaves it covers; what is redacted or cut before  *)
(* hashing is left out.                                                    *)
(***************************************************************************)

CONSTANTS
    RecordedWorkflows, Prompts, Responses,
    NoHash,            \* the hash of a prompt or response that the caller does not send
    SentHashes,        \* of which of "prompt" and "response" callers send the hash
    MaxArtifacts,      \* bound on the artifacts
    MaxSequence,       \* bound on the sequence numbers that callers give
    PromptTtl,
    MaxReplayTime      \* bound on the clock

ASSUME ReplayAssumption ==
    /\ MaxArtifacts \in Nat /\ MaxSequence \in Nat
    /\ PromptTtl \in Nat /\ MaxReplayTime \in Nat
    /\ NoHash \notin Prompts \cup Responses
    /\ SentHashes \subseteq SUBSET {"prompt", "response"}

VARIABLES
    artifacts,         \* in the order of recording
    merkleRoot,        \* the number of leaves of the last root, 0 without one
    promptCache,       \* hash of a prompt -> hash of the response, and expiry
    merkleTimer,       \* the recorder is initialized, its timer runs
    replayClock,
    sealed             \* artifacts there were at the last shutdown

replayVars == <<artifacts, merkleRoot, promptCache, merkleTimer, replayClock,
                sealed>>

ReplayInit ==
    /\ artifacts = <<>> /\ merkleRoot = 0
    /\ promptCache = [p \in {} |-> p]
    /\ merkleTimer = FALSE
    /\ replayClock = 0
    /\ sealed = 0

InitializeRecorder ==
    /\ ~merkleTimer
    /\ merkleTimer' = TRUE
    /\ UNCHANGED <<artifacts, merkleRoot, promptCache, replayClock, sealed>>

\* The leaves there are; without any, there is no root to commit.
Commit == merkleRoot' = Len(artifacts)

CommitMerkleRoot ==
    /\ merkleTimer
    /\ Commit
    /\ UNCHANGED <<artifacts, promptCache, merkleTimer, replayClock, sealed>>

ShutdownRecorder ==
    /\ merkleTimer
    /\ merkleTimer' = FALSE
    /\ Commit
    /\ sealed' = Len(artifacts)
    /\ UNCHANGED <<artifacts, promptCache, replayClock>>

\* cachePromptResponse.
CachePromptResponse(key, responseHash) ==
    promptCache' = [p \in DOMAIN promptCache \cup {key} |->
        IF p = key THEN [response |-> responseHash, expiresAt |-> replayClock + PromptTtl]
                   ELSE promptCache[p]]

\* recordArtifact: without an await, also after a shutdown.  The sequence number
\* is the caller's: parallel steps may be recorded out of their order, a step twice.
RecordArtifact(w, number, prompt, response, sent) ==
    LET key == IF "prompt" \in sent THEN prompt ELSE NoHash
        responseHash == IF "response" \in sent THEN response ELSE NoHash
    IN
    /\ Len(artifacts) < MaxArtifacts
    /\ artifacts' = Append(artifacts,
           [workflow |-> w, number |-> number, prompt |-> prompt, response |-> response,
            sent |-> sent, timestamp |-> replayClock, previous |-> Len(artifacts)])
    /\ CachePromptResponse(key, responseHash)
    /\ UNCHANGED <<merkleRoot, merkleTimer, replayClock, sealed>>

\* getWorkflowArtifacts: a workflow's artifacts, sorted by their number; the sort is
\* stable.
Of(w) == {k \in DOMAIN artifacts : artifacts[k].workflow = w}
Before(j, k) == \/ artifacts[j].number < artifacts[k].number
                \/ artifacts[j].number = artifacts[k].number /\ j < k
NextTo(w, j, k) == Before(j, k) /\ \A i \in Of(w) : ~(Before(j, i) /\ Before(i, k))

\* verifyChainIntegrity: each artifact follows the one next to it in that order.
ChainIsValid(w) == \A j, k \in Of(w) : NextTo(w, j, k) => artifacts[k].previous = j

\* getMerkleProof: the last root, whether it covers the artifact or not.
ProofCovers(k) == k <= merkleRoot

\* getCachedResponse.
Cached(prompt) == prompt \in DOMAIN promptCache /\ promptCache[prompt].expiresAt >= replayClock

\* replayArtifact looks at one artifact of the workflow that is replayed; other
\* calls may run before it looks at the next.  An entry that has expired goes.
ReplayArtifact(k) ==
    /\ promptCache' = IF Cached(artifacts[k].prompt) THEN promptCache
                      ELSE Restrict(promptCache, DOMAIN promptCache \ {artifacts[k].prompt})
    /\ UNCHANGED <<artifacts, merkleRoot, merkleTimer, replayClock, sealed>>

ResponseMatched(k) ==
    LET p == artifacts[k].prompt IN
    Cached(p) /\ promptCache[p].response = artifacts[k].response

\* timeTravel: what the snapshot of a workflow nearest to time t counts as done.
Distance(a, b) == IF a < b THEN b - a ELSE a - b
Nearest(w, t) ==
    CHOOSE k \in Of(w) : \A j \in Of(w) :
        \/ Distance(artifacts[k].timestamp, t) < Distance(artifacts[j].timestamp, t)
        \/ /\ Distance(artifacts[k].timestamp, t) = Distance(artifacts[j].timestamp, t)
           /\ k = j \/ Before(k, j)
Relevant(w, t) ==
    {k \in Of(w) : artifacts[k].timestamp <= artifacts[Nearest(w, t)].timestamp}

ReplayTick ==
    /\ replayClock < MaxReplayTime
    /\ replayClock' = replayClock + 1
    /\ UNCHANGED <<artifacts, merkleRoot, promptCache, merkleTimer, sealed>>

ReplayNext ==
    \/ InitializeRecorder \/ CommitMerkleRoot \/ ShutdownRecorder
    \/ \E w \in RecordedWorkflows, p \in Prompts, r \in Responses, number \in 1 .. MaxSequence,
          sent \in SentHashes : RecordArtifact(w, number, p, r, sent)
    \/ \E k \in DOMAIN artifacts : ReplayArtifact(k)
    \/ ReplayTick

ReplaySpec == ReplayInit /\ [][ReplayNext]_replayVars

-----------------------------------------------------------------------------
\* Type correctness of the recorder.
ReplayTypeOK ==
    /\ Len(artifacts) <= MaxArtifacts /\ sealed <= Len(artifacts)
    /\ DOMAIN promptCache \subseteq Prompts \cup {NoHash}
    /\ replayClock \in 0 .. MaxReplayTime

InOrder(w) == \A j, k \in Of(w) : j < k => Before(j, k)
Contiguous(w) == \A j, k \in Of(w) : \A i \in j .. k : i \in Of(w)

\* What was recorded before a shutdown has a proof whose root covers it, however
\* much was recorded since and whichever timer committed; a workflow's chain is
\* called whole exactly when its artifacts were recorded in their order with those
\* of no other workflow between them; a snapshot in time is a prefix of what was
\* recorded of the workflow; and a replay of an artifact whose hashes the caller sent
\* finds its response until that expires or another is recorded for the same prompt.
RecordsAreProvable ==
    /\ \A k \in 1 .. sealed : ProofCovers(k)
    /\ \A w \in RecordedWorkflows : ChainIsValid(w) <=> InOrder(w) /\ Contiguous(w)
    /\ \A w \in RecordedWorkflows, t \in 0 .. MaxReplayTime : Of(w) # {} =>
          \A j \in Relevant(w, t), k \in Of(w) \ Relevant(w, t) : j < k
    /\ \A k \in DOMAIN artifacts : ~ResponseMatched(k) =>
          \/ replayClock > artifacts[k].timestamp + PromptTtl
          \/ artifacts[k].sent # {"prompt", "response"}
          \/ \E j \in k + 1 .. Len(artifacts) :
                /\ artifacts[j].prompt = artifacts[k].prompt
                /\ \/ artifacts[j].response # artifacts[k].response
                   \/ "response" \notin artifacts[j].sent

-----------------------------------------------------------------------------
(***************************************************************************)
(* The queryable audit index: the events of the ledger as they are handed  *)
(* to it, in any order and perhaps twice, with indexes by identifier,      *)
(* workflow and actor beside the list of entries, a check of each event    *)
(* against the one before it, and compaction when the list grows too long. *)
(* An event's hash is its number in the ledger: event k follows k - 1.     *)
(* The other indexes are kept like these two.                              *)
(***************************************************************************)

CONSTANTS
    LedgerEvents,      \* the ledger: a sequence of [workflow, actor]
    MaxEntries,        \* compaction beyond this many
    RetentionTime,
    MaxIndexed,        \* bound on what is indexed
    MaxIndexTime       \* bound on the clock

ASSUME AuditIndexAssumption ==
    /\ LedgerEvents \in Seq(ToSet(LedgerEvents))
    /\ MaxEntries \in Nat /\ RetentionTime \in Nat
    /\ MaxIndexed \in Nat /\ MaxIndexTime \in Nat

VARIABLES
    entries,           \* what the index holds, in the order of indexing
    byWorkflowId, byActorId, byEventId,
    lastEventHash,     \* the event after which the next is expected
    chainPosition,     \* how many were ever indexed
    recordedAt,        \* the time at which each event of the ledger happened
    indexClock

indexVars == <<entries, byWorkflowId, byActorId, byEventId, lastEventHash, chainPosition,
               recordedAt, indexClock>>

LedgerWorkflows == {LedgerEvents[k].workflow : k \in DOMAIN LedgerEvents}
LedgerActors == {LedgerEvents[k].actor : k \in DOMAIN LedgerEvents}
NoEvent == [event |-> 0, position |-> 0, verified |-> FALSE]

IndexInit ==
    /\ entries = <<>>
    /\ byWorkflowId = [w \in LedgerWorkflows |-> <<>>]
    /\ byActorId = [a \in LedgerActors |-> <<>>]
    /\ byEventId = [k \in DOMAIN LedgerEvents |-> NoEvent]
    /\ lastEventHash = 0
    /\ chainPosition = 0
    /\ recordedAt = <<>>
    /\ indexClock = 0

\* The ledger records its next event (AuditLedger.record).
LedgerRecords ==
    /\ Len(recordedAt) < Len(LedgerEvents)
    /\ recordedAt' = Append(recordedAt, indexClock)
    /\ UNCHANGED <<entries, byWorkflowId, byActorId, byEventId, lastEventHash, chainPosition,
                   indexClock>>

\* filter: the entries of a list that are in S, in its order.
Kept(s, S) ==
    LET kept[n \in 0 .. Len(s)] ==
          IF n = 0 THEN <<>> ELSE IF s[n] \in S THEN Append(kept[n - 1], s[n]) ELSE kept[n - 1]
    IN kept[Len(s)]

OfWorkflow(s, w) == Kept(s, {e \in ToSet(s) : LedgerEvents[e.event].workflow = w})
OfActor(s, a) == Kept(s, {e \in ToSet(s) : LedgerEvents[e.event].actor = a})
Retained(s) == Kept(s, {e \in ToSet(s) : recordedAt[e.event] + RetentionTime >= indexClock})

Newest(s, k) == LET positions == {i \in DOMAIN s : s[i].event = k} IN
    IF positions = {} THEN NoEvent
    ELSE s[CHOOSE i \in positions : \A j \in positions : j <= i]

\* rebuildIndexes.
RebuildIndexes(s) ==
    /\ entries' = s
    /\ byWorkflowId' = [w \in LedgerWorkflows |-> OfWorkflow(s, w)]
    /\ byActorId' = [a \in LedgerActors |-> OfActor(s, a)]
    /\ byEventId' = [k \in DOMAIN LedgerEvents |-> Newest(s, k)]

Compacted(s) == RebuildIndexes(Retained(s))

\* updateIndexes.
UpdateIndexes(e) ==
    LET event == LedgerEvents[e.event] IN
    /\ entries' = Append(entries, e)
    /\ byWorkflowId' = [byWorkflowId EXCEPT ![event.workflow] = Append(@, e)]
    /\ byActorId' = [byActorId EXCEPT ![event.actor] = Append(@, e)]
    /\ byEventId' = [byEventId EXCEPT ![e.event] = e]

\* indexEvent, of whatever event the caller has, with the compaction at its end.
IndexEvent(k) ==
    LET e == [event |-> k, position |-> chainPosition + 1, verified |-> k - 1 = lastEventHash] IN
    /\ chainPosition < MaxIndexed
    /\ chainPosition' = chainPosition + 1
    /\ lastEventHash' = k
    /\ IF Len(entries) + 1 > MaxEntries THEN Compacted(Append(entries, e)) ELSE UpdateIndexes(e)
    /\ UNCHANGED <<recordedAt, indexClock>>

Compact ==
    /\ Compacted(entries)
    /\ UNCHANGED <<lastEventHash, chainPosition, recordedAt, indexClock>>

IndexTick ==
    /\ indexClock < MaxIndexTime
    /\ indexClock' = indexClock + 1
    /\ UNCHANGED <<entries, byWorkflowId, byActorId, byEventId, lastEventHash, chainPosition,
                   recordedAt>>

IndexNext ==
    \/ LedgerRecords
    \/ \E k \in DOMAIN recordedAt : IndexEvent(k)
    \/ Compact \/ IndexTick

IndexSpec == IndexInit /\ [][IndexNext]_indexVars

\* matchesFilter, for a filter by workflows W and actors A; an empty one matches all.
MatchesFilter(e, W, A) ==
    /\ W = {} \/ LedgerEvents[e.event].workflow \in W
    /\ A = {} \/ LedgerEvents[e.event].actor \in A

\* findMatches begins with the shortest way to the candidates.
FindMatches(W, A) ==
    LET candidates ==
          IF \E w \in W : W = {w} THEN byWorkflowId[CHOOSE w \in W : TRUE]
          ELSE IF \E a \in A : A = {a} THEN byActorId[CHOOSE a \in A : TRUE]
          ELSE entries
    IN Kept(candidates, {e \in ToSet(candidates) : MatchesFilter(e, W, A)})

\* verifyChainIntegrity, of some of the entries.
ChainVerifies(s) == \A i \in 2 .. Len(s) : s[i].event - 1 = s[i - 1].event

-----------------------------------------------------------------------------
\* Type correctness of the index.
IndexTypeOK ==
    /\ \A i \in DOMAIN entries : entries[i].event \in DOMAIN recordedAt
    /\ \A i, j \in DOMAIN entries : i < j => entries[i].position < entries[j].position
    /\ lastEventHash \in 0 .. Len(LedgerEvents)

\* After any sequence of events, late ones and repeated ones included, and of
\* compactions: a query gives what a scan of the entries would, whichever index it
\* takes; an identifier leads to its latest entry; and entries that were all found
\* to follow their predecessors verify as one chain, unless compaction has taken
\* one from between them.
QueriesAreComplete ==
    /\ \A W \in SUBSET LedgerWorkflows, A \in SUBSET LedgerActors :
          FindMatches(W, A) = Kept(entries, {e \in ToSet(entries) : MatchesFilter(e, W, A)})
    /\ \A k \in DOMAIN LedgerEvents : byEventId[k] = Newest(entries, k)
    /\ (\A i \in DOMAIN entries : entries[i].verified) =>
          \/ ChainVerifies(entries)
          \/ \E i \in 2 .. Len(entries) : entries[i].position > entries[i - 1].position + 1
=============================================================================
