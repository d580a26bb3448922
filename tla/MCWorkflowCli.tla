---------------------------- MODULE MCWorkflowCli ----------------------------
(***************************************************************************)
(* Plans for the TLC runs of WorkflowCli.                                  *)
(***************************************************************************)
EXTENDS WorkflowCli, TLC

TwoDeps == 1 :> {} @@ 2 :> {1}
LastStep == [w \in Workflows |-> {N}]
AllSteps == 1 .. N
RouteOpts == {SkipApproval, NoOptions}
=============================================================================
