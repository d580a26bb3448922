------------------------- MODULE AutomationService -------------------------
(***************************************************************************)
(* The automation platform of the control plane: requests and queue        *)
(* workers, each in a PostgreSQL transaction of its own (READ COMMITTED),  *)
(* on one table of tasks.  A statement reads what is committed; a write    *)
(* takes the lock of its row and applies the columns that changed to the   *)
(* row as it is by then, not as it was when it was checked.                *)
(***************************************************************************)
EXTENDS Naturals, FiniteSets

CONSTANTS
    Tasks,        \* rows that may be inserted
    Keys,         \* idempotency keys
    Callers,      \* HTTP requests, one operation each
    Workers,      \* queue_worker tasks and calls of /tasks/process
    MaxTries,     \* max_attempts of a task
    MaxAborts     \* bound: transactions of workers that fail

ASSUME AutomationAssumption ==
    /\ IsFiniteSet(Tasks) /\ IsFiniteSet(Callers) /\ "free" \notin Callers \cup Workers
    /\ MaxTries \in Nat \ {0} /\ MaxAborts \in Nat

VARIABLES
    rows,        \* committed rows
    draft,       \* what the transaction that holds a row's lock has made of it
    lock,        \* of each row: the transaction that holds its lock, or "free"
    request,     \* of each caller: pc, operation, row, the status it read
    batch,       \* of each worker: rows it has still to execute
    live,        \* the definition's status is ACTIVE
    aborts,
    unreviewed   \* tasks executed that needed a review and were not approved

automationVars == <<rows, draft, lock, request, batch, live, aborts, unreviewed>>

NoRow == [status |-> "none", key |-> "none", review |-> FALSE, approved |-> FALSE,
          due |-> FALSE, attempts |-> 0]
NewRequest == [pc |-> "new", op |-> "none", row |-> "none", saw |-> "none", key |-> "none"]

AutomationInit ==
    /\ rows = [t \in Tasks |-> NoRow] /\ draft = rows
    /\ lock = [t \in Tasks |-> "free"]
    /\ request = [q \in Callers |-> NewRequest]
    /\ batch = [w \in Workers |-> {}]
    /\ live = TRUE /\ aborts = 0 /\ unreviewed = {}

HeldBy(x) == {t \in Tasks : lock[t] = x}

\* Commit and rollback of transaction x.
Commit(x) ==
    /\ rows' = [t \in Tasks |-> IF lock[t] = x THEN draft[t] ELSE rows[t]]
    /\ lock' = [t \in Tasks |-> IF lock[t] = x THEN "free" ELSE lock[t]]
Rollback(x) ==
    /\ lock' = [t \in Tasks |-> IF lock[t] = x THEN "free" ELSE lock[t]]
    /\ UNCHANGED rows

-----------------------------------------------------------------------------
\* queue_task: a key that is known returns its task; else the definition must
\* be active, and a review is asked for when risk or compliance call for it.
QueueTask(q, k) ==
    /\ request[q].pc = "new"
    /\ request' = [request EXCEPT ![q] =
          IF (\E t \in Tasks : rows[t].key = k) \/ ~live THEN [@ EXCEPT !.pc = "done"]
          ELSE [@ EXCEPT !.pc = "checked", !.op = "queue", !.key = k]]
    /\ UNCHANGED <<rows, draft, lock, batch, live, aborts, unreviewed>>

\* Mutation. The column is not unique.
KeyNeverTaken(k) == FALSE

\* The unique constraint on the key: an insertion waits for another one of the
\* same key to end, and fails when it was committed.
KeyTaken(k) == \E t \in Tasks : rows[t].key = k
KeyPending(k) == \E t \in Tasks : lock[t] # "free" /\ draft[t].key = k

InsertTask(q, t, review) ==
    LET k == request[q].key IN
    /\ request[q].pc = "checked" /\ request[q].op = "queue"
    /\ rows[t] = NoRow /\ lock[t] = "free"
    /\ ~KeyPending(k)
    /\ IF KeyTaken(k)
       THEN request' = [request EXCEPT ![q].pc = "done"] /\ UNCHANGED <<draft, lock>>
       ELSE /\ draft' = [draft EXCEPT ![t] =
                  [NoRow EXCEPT !.status = IF review THEN "waiting_review" ELSE "queued",
                                !.key = k, !.review = review, !.due = TRUE]]
            /\ lock' = [lock EXCEPT ![t] = q]
            /\ request' = [request EXCEPT ![q].pc = "written"]
    /\ UNCHANGED <<rows, batch, live, aborts, unreviewed>>

\* approve_task, reject_task and trigger_task look at the committed row...
Permits(op, status) ==
    IF op = "trigger" THEN status \notin {"none", "rejected", "succeeded"}
                      ELSE status = "waiting_review"

ReadTask(q, op, t) ==
    /\ request[q].pc = "new" /\ rows[t].status # "none"
    /\ request' = [request EXCEPT ![q] =
          IF Permits(op, rows[t].status)
          THEN [@ EXCEPT !.pc = "checked", !.op = op, !.row = t, !.saw = rows[t].status]
          ELSE [@ EXCEPT !.pc = "done"]]
    /\ UNCHANGED <<rows, draft, lock, batch, live, aborts, unreviewed>>

\* ... and write their columns when they get the lock.  A trigger that saw the
\* row queued does not write the status; it may ask for a later time.
Updated(q, row, later) ==
    CASE request[q].op = "approve" -> [row EXCEPT !.status = "queued", !.approved = TRUE]
      [] request[q].op = "reject"  -> [row EXCEPT !.status = "rejected"]
      [] request[q].op = "trigger" ->
            [row EXCEPT !.status = IF request[q].saw = "queued" THEN @ ELSE "queued",
                        !.due = ~later]

WriteTask(q, later) ==
    LET t == request[q].row IN
    /\ request[q].pc = "checked" /\ request[q].op # "queue"
    /\ lock[t] = "free"
    /\ lock' = [lock EXCEPT ![t] = q]
    /\ draft' = [draft EXCEPT ![t] = Updated(q, rows[t], later)]
    /\ request' = [request EXCEPT ![q].pc = "written"]
    /\ UNCHANGED <<rows, batch, live, aborts, unreviewed>>

EndRequest(q) ==
    /\ request[q].pc = "written"
    /\ Commit(q)
    /\ request' = [request EXCEPT ![q].pc = "done"]
    /\ UNCHANGED <<draft, batch, live, aborts, unreviewed>>

\* update_definition switches the definition off, or on again.
UpdateDefinition(q) ==
    /\ request[q].pc = "new"
    /\ live' = ~live
    /\ request' = [request EXCEPT ![q].pc = "done"]
    /\ UNCHANGED <<rows, draft, lock, batch, aborts, unreviewed>>

-----------------------------------------------------------------------------
\* process_due_tasks: FOR UPDATE SKIP LOCKED, a batch in one transaction.
Available(t) == rows[t].status = "queued" /\ rows[t].due /\ lock[t] = "free"

SelectDue(w) ==
    /\ HeldBy(w) = {} /\ batch[w] = {}
    /\ LET due == {t \in Tasks : Available(t)} IN
       /\ due # {}
       /\ batch' = [batch EXCEPT ![w] = due]
       /\ lock' = [t \in Tasks |-> IF t \in due THEN w ELSE lock[t]]
       /\ draft' = [t \in Tasks |-> IF t \in due THEN rows[t] ELSE draft[t]]
    /\ UNCHANGED <<rows, request, live, aborts, unreviewed>>

\* Mutation. The attempts start again with every failure.
MarkFailedAgain(row, retriable) ==
    IF retriable /\ row.attempts < MaxTries
    THEN [row EXCEPT !.status = "queued", !.due = FALSE, !.attempts = 0]
    ELSE [row EXCEPT !.status = "failed"]

\* _mark_task_failed: queued again for later while attempts are left.
MarkFailed(row, retriable) ==
    IF retriable /\ row.attempts < MaxTries
    THEN [row EXCEPT !.status = "queued", !.due = FALSE]
    ELSE [row EXCEPT !.status = "failed"]

\* _execute_task: the connector is called unless the definition was disabled.
ExecuteTask(w, t, succeeds) ==
    LET row == [draft[t] EXCEPT !.attempts = @ + 1] IN
    /\ t \in batch[w]
    /\ batch' = [batch EXCEPT ![w] = @ \ {t}]
    /\ draft' = [draft EXCEPT ![t] =
          IF ~live THEN MarkFailed(row, FALSE)
          ELSE IF succeeds THEN [row EXCEPT !.status = "succeeded"] ELSE MarkFailed(row, TRUE)]
    /\ unreviewed' = IF live /\ row.review /\ ~row.approved
                     THEN unreviewed \cup {t} ELSE unreviewed
    /\ UNCHANGED <<rows, lock, request, live, aborts>>

EndBatch(w) ==
    /\ HeldBy(w) # {} /\ batch[w] = {}
    /\ Commit(w)
    /\ UNCHANGED <<draft, request, batch, live, aborts, unreviewed>>

\* The process dies, or an exception leaves the batch: what the connectors have
\* done stays, what the rows say of it does not.
AbortBatch(w) ==
    /\ aborts < MaxAborts /\ HeldBy(w) # {}
    /\ Rollback(w)
    /\ batch' = [batch EXCEPT ![w] = {}]
    /\ aborts' = aborts + 1
    /\ UNCHANGED <<draft, request, live, unreviewed>>

\* scheduled_at comes.
BecomesDue(t) ==
    /\ rows[t].status = "queued" /\ ~rows[t].due /\ lock[t] = "free"
    /\ rows' = [rows EXCEPT ![t].due = TRUE]
    /\ UNCHANGED <<draft, lock, request, batch, live, aborts, unreviewed>>

Serve(q) ==
    \/ \E t \in Tasks, review \in BOOLEAN : InsertTask(q, t, review)
    \/ \E later \in BOOLEAN : WriteTask(q, later)
    \/ EndRequest(q)

Work(w) ==
    SelectDue(w) \/ (\E t \in Tasks, succeeds \in BOOLEAN : ExecuteTask(w, t, succeeds)) \/ EndBatch(w)

AutomationNext ==
    \/ \E q \in Callers :
          \/ \E k \in Keys : QueueTask(q, k)
          \/ \E op \in {"approve", "reject", "trigger"}, t \in Tasks : ReadTask(q, op, t)
          \/ Serve(q) \/ UpdateDefinition(q)
    \/ \E w \in Workers : Work(w) \/ AbortBatch(w)
    \/ \E t \in Tasks : BecomesDue(t)

\* Requests end, workers poll every two seconds, time passes.
AutomationFairness ==
    /\ \A q \in Callers : WF_automationVars(Serve(q))
    /\ \A w \in Workers : WF_automationVars(Work(w))
    /\ \A t \in Tasks : SF_automationVars(BecomesDue(t))

AutomationSpec == AutomationInit /\ [][AutomationNext]_automationVars /\ AutomationFairness
-----------------------------------------------------------------------------
Statuses == {"none", "waiting_review", "queued", "succeeded", "failed", "rejected"}
AutomationTypeOK ==
    /\ \A t \in Tasks : rows[t].status \in Statuses /\ draft[t].status \in Statuses
    /\ lock \in [Tasks -> Callers \cup Workers \cup {"free"}]
    /\ batch \in [Workers -> SUBSET Tasks]
    /\ live \in BOOLEAN /\ aborts \in 0 .. MaxAborts /\ unreviewed \subseteq Tasks

\* Two calls with one idempotency key insert one task, though both looked for
\* the key before either wrote.
OneTaskPerKey ==
    \A t, u \in Tasks : rows[t].key = rows[u].key /\ rows[t].key # "none" => t = u

\* A queued task leaves the queue, whatever its connector does.
TasksSettle == \A t \in Tasks :
    rows[t].status = "queued" ~> rows[t].status \in {"succeeded", "failed", "rejected"}

\* "AI-assisted NLP task interpretation with mandatory human oversight gates" (app.py): a
\* task that needs a review is executed only after its approval.
ReviewGateHolds == unreviewed = {}
=============================================================================
