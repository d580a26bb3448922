-------------------------- MODULE MCWorkflowEngine --------------------------
(***************************************************************************)
(* Plans and options for the TLC runs of WorkflowEngine.                   *)
(***************************************************************************)
EXTENDS WorkflowEngine, TLC

\* Step 3 depends on a step that is not in the plan, so it never becomes ready.
DanglingDeps == 1 :> {} @@ 2 :> {1} @@ 3 :> {9}

SecondStep == [w \in Workflows |-> {2}]
AllSteps == 1 .. N

\* A start on approval, a plain start, and a dry run (cli/index.ts).
Plain == [skipApproval |-> FALSE, dryRun |-> FALSE]
Skip  == [skipApproval |-> TRUE,  dryRun |-> FALSE]
Dry   == [skipApproval |-> FALSE, dryRun |-> TRUE]
AllOptions == {Plain, Skip, Dry}
=============================================================================
