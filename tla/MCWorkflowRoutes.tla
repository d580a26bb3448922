-------------------------- MODULE MCWorkflowRoutes --------------------------
(***************************************************************************)
(* Plans for the TLC runs of WorkflowRoutes.                               *)
(***************************************************************************)
EXTENDS WorkflowRoutes, TLC

\* Steps 2 and 3 build on step 1, steps 3 and 4 on step 2.
FourDeps == 1 :> {} @@ 2 :> {1} @@ 3 :> {1, 2} @@ 4 :> {2}
TwoDeps == 1 :> {} @@ 2 :> {1}

\* The last step of the plans that need an approval asks for one of its own.
LastStep == [w \in Workflows |-> {s \in {N} : w \in PlanApproval}]
NoSteps == [w \in Workflows |-> {}]
AllSteps == 1 .. N

RouteOpts == {SkipApproval, NoOptions}
=============================================================================
