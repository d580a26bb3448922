----------------------------- MODULE WorkflowCli -----------------------------
(***************************************************************************)
(* The `aegis workflow' command (src/src/cli/index.ts) beside a server on  *)
(* the same database.  The command is a process of its own: it initializes *)
(* an engine, which recovers `interrupted' workflows, and then reads a row *)
(* and writes it back whole.  It shares no thread and no AbortController   *)
(* with the server, so its database accesses fall anywhere between the     *)
(* server's.                                                               *)
(***************************************************************************)
EXTENDS WorkflowRoutes

CONSTANT MaxCommands  \* bound: commands issued in one behaviour

ASSUME CommandsAssumption == MaxCommands \in Nat

VARIABLES
    step,      \* where the command is: idle, recover, read or write
    command,   \* its action
    target,    \* the workflow id it names
    found,     \* rows the recovery query returned and has not updated yet
    snapshot,  \* the row as getWorkflow read it
    commands   \* commands issued so far

cliVars == <<step, command, target, found, snapshot, commands>>
allVars == <<vars, cliVars>>

Commands == {"status", "approve", "reject", "cancel"}

CliInit ==
    /\ step = "idle" /\ command = "status" /\ target = None
    /\ found = {} /\ snapshot = Absent /\ commands = 0

\* initializeAll: the recovery query of the command's own engine.
Issue(c, w) ==
    /\ step = "idle" /\ commands < MaxCommands
    /\ step' = "recover"
    /\ command' = c
    /\ target' = w
    /\ found' = {v \in Workflows : row[v].status = "running"}
    /\ commands' = commands + 1
    /\ UNCHANGED <<vars, snapshot>>

\* One UPDATE per row found, whatever the row says by now.
MarkFailed(w) ==
    /\ step = "recover" /\ w \in found
    /\ Rewrite(w, "failed")
    /\ found' = found \ {w}
    /\ UNCHANGED <<stepLog, controllers, runs, thread, server, world,
                   step, command, target, snapshot, commands>>

\* getWorkflow and the check of the operation; a check that fails ends it.
Accepts(c, status) ==
    CASE c = "status"  -> FALSE
      [] c = "approve" -> status = "awaiting_approval"
      [] c = "reject"  -> status # "absent"
      [] c = "cancel"  -> status = "running"

ReadRow ==
    /\ step = "recover" /\ found = {}
    /\ snapshot' = row[target]
    /\ step' = IF Accepts(command, row[target].status) THEN "write" ELSE "idle"
    /\ UNCHANGED <<vars, command, target, found, commands>>

\* Mutation: the statement leaves the column of the stack out.
WriteRowWithoutStack ==
    /\ step = "write"
    /\ row' = [row EXCEPT ![target] =
                  [snapshot EXCEPT !.stack = <<>>,
                                   !.status = IF command = "approve" THEN "pending"
                                              ELSE "cancelled"]]
    /\ step' = "idle"
    /\ UNCHANGED <<stepLog, controllers, runs, thread, server, world,
                   command, target, found, snapshot, commands>>

\* persistWorkflow of the object read: INSERT OR REPLACE of every column.
WriteRow ==
    /\ step = "write"
    /\ row' = [row EXCEPT ![target] =
                  [snapshot EXCEPT !.status = IF command = "approve" THEN "pending"
                                              ELSE "cancelled"]]
    /\ step' = "idle"
    /\ UNCHANGED <<stepLog, controllers, runs, thread, server, world,
                   command, target, found, snapshot, commands>>

CliNext ==
    \/ \E c \in Commands, w \in Workflows : Issue(c, w)
    \/ \E w \in Workflows : MarkFailed(w)
    \/ ReadRow \/ WriteRow

Combined == RoutesNext /\ UNCHANGED cliVars

CliSpec == Init /\ CliInit /\ [][Combined \/ CliNext]_allVars

\* The server's event loop goes on as without a command; nobody has to end a command.
FairCliSpec == CliSpec /\ Fairness

-----------------------------------------------------------------------------
\* Whatever rows a command marks or writes back, as they were when it read them: a workflow
\* has one run; a row's stack is that of its completed steps, which are on record; a step is
\* with the executor only after its dependencies; and no row says `running' with nobody
\* behind it.
CommandsAreSafe ==
    /\ SingleRun
    /\ StackMatchesCompleted /\ LoggedBeforeCheckpointed
    /\ DependenciesRecorded /\ RunningHasRun

\* The inductive invariant behind it: no live run's row is one that a route would start, and
\* the row that a command is about to write was a row once.
NotHandedOver ==
    \A r \in Runs : Live(r) => row[of[r]].status \notin {"absent", "awaiting_approval"}

SnapshotIsOld ==
    /\ step \in {"idle", "recover", "write"} /\ command \in Commands
    /\ found \subseteq Workflows /\ snapshot \in WorkflowState
    /\ step # "idle" => target \in Workflows
    /\ step = "write" => /\ WellFormed(snapshot)
                         /\ snapshot.completed \subseteq stepLog[target]["completed"]

=============================================================================
