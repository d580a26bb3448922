-------------------------- MODULE ChannelApproval --------------------------
(***************************************************************************)
(* Approval buttons in a chat (src/src/channels/whatsapp.ts; slack.ts and  *)
(* telegram.ts have the same handlers).  A plan that needs approval gets a *)
(* workflow for review and an entry in the channel's pendingApprovals map; *)
(* a button press looks the entry up, and when it approves makes a second  *)
(* workflow to execute.  Of a workflow there is its row and the run behind *)
(* it, which writes the row as it goes on; its steps are the subject of    *)
(* module WorkflowEngine.  A handler is interrupted only where it waits    *)
(* for the chat's server or for a run.                                     *)
(***************************************************************************)
EXTENDS Naturals

CONSTANTS
    Plans,         \* each with the workflow for its review, or of its direct execution
    NeedApproval,  \* plans with approvalRequired
    Presses,       \* button presses, a bound on how many there are; each with the
                   \* workflow it may make to execute
    NoPlan,
    MaxCrashes     \* bound: process crashes in one behaviour

ASSUME ChannelAssumption ==
    /\ NeedApproval \subseteq Plans /\ NoPlan \notin Plans
    /\ Plans \cap Presses = {} /\ MaxCrashes \in Nat

VARIABLES
    stage,     \* processIntent of each plan
    pending,   \* keys of pendingApprovals
    press,     \* where the handler of each press is, and the plan it is about
    saved,     \* status of each workflow in the database
    going,     \* what executeWorkflow is doing for it
    crashes

channelVars == <<stage, pending, press, saved, going, crashes>>
workflowVars == <<saved, going>>

Flows == Plans \cup Presses

Stage == {"new", "asking", "telling", "running", "over"}
Place == {"unused", "announcing", "running", "closing", "over"}
RowStatus == {"absent", "pending", "awaiting_approval", "running", "compensating",
              "ended", "cancelled"}
Phase == {"none", "forward", "undoing"}

ChannelInit ==
    /\ stage = [p \in Plans |-> "new"]
    /\ pending = {}
    /\ press = [c \in Presses |-> [at |-> "unused", plan |-> NoPlan]]
    /\ saved = [w \in Flows |-> "absent"]
    /\ going = [w \in Flows |-> "none"]
    /\ crashes = 0

MoveTo(c, place) == press' = [press EXCEPT ![c].at = place]
WriteRow(w, status) == saved' = [saved EXCEPT ![w] = status]

-----------------------------------------------------------------------------
(* The engine's operations                                                 *)

Created(p) == IF p \in NeedApproval THEN "awaiting_approval" ELSE "pending"

\* Mutation: startWorkflow does not ask for the approval.
AlwaysStarts(status) == TRUE

\* startWorkflow throws otherwise (of a workflow just made or just approved).
CanStart(status) == status # "awaiting_approval"

\* startWorkflow, up to the first wait of the run.
Begins(w) ==
    /\ WriteRow(w, "running")
    /\ going' = [going EXCEPT ![w] = "forward"]

\* executeWorkflow of a channel: createWorkflow and then startWorkflow.
ExecutePlan(w, p) ==
    IF CanStart(Created(p)) THEN Begins(w) ELSE WriteRow(w, Created(p)) /\ UNCHANGED going

\* rejectWorkflow takes a workflow in any status, and aborts nothing.
Rejects(w) == WriteRow(w, "cancelled") /\ UNCHANGED going

-----------------------------------------------------------------------------
(* processIntent                                                           *)

\* The plan is made; the message with its buttons, or that execution begins,
\* is on its way.
PlanGenerated(p) ==
    /\ stage[p] = "new"
    /\ stage' = [stage EXCEPT ![p] = IF p \in NeedApproval THEN "asking" ELSE "telling"]
    /\ UNCHANGED <<pending, press, workflowVars, crashes>>

\* Only now, with the buttons on the user's screen, the workflow is created and
\* the entry stored.
StorePending(p) ==
    /\ stage[p] = "asking"
    /\ stage' = [stage EXCEPT ![p] = "over"]
    /\ WriteRow(p, Created(p))
    /\ pending' = pending \cup {p}
    /\ UNCHANGED <<press, going, crashes>>

MessageFails(p) ==
    /\ stage[p] \in {"asking", "telling"}
    /\ stage' = [stage EXCEPT ![p] = "over"]
    /\ UNCHANGED <<pending, press, workflowVars, crashes>>

ExecuteDirectly(p) ==
    /\ stage[p] = "telling"
    /\ ExecutePlan(p, p)
    /\ stage' = [stage EXCEPT ![p] = "running"]
    /\ UNCHANGED <<pending, press, crashes>>

-----------------------------------------------------------------------------
(* handleInteractive                                                       *)

\* The user presses a button of a message that was sent.
Pressed(c, p) ==
    /\ press[c].at = "unused"
    /\ p \in NeedApproval /\ stage[p] # "new"

Handle(c, p, place) == press' = [press EXCEPT ![c] = [at |-> place, plan |-> p]]

\* No entry: `This action has expired'.
PressExpired(c, p) ==
    /\ Pressed(c, p) /\ p \notin pending
    /\ Handle(c, p, "over")
    /\ UNCHANGED <<stage, pending, workflowVars, crashes>>

\* approveWorkflow throws unless the workflow awaits approval.
PressApprove(c, p) ==
    /\ Pressed(c, p) /\ p \in pending
    /\ \/ saved[p] = "awaiting_approval" /\ WriteRow(p, "pending") /\ Handle(c, p, "announcing")
       \/ saved[p] # "awaiting_approval" /\ UNCHANGED saved /\ Handle(c, p, "closing")
    /\ UNCHANGED <<stage, pending, going, crashes>>

PressReject(c, p) ==
    /\ Pressed(c, p) /\ p \in pending
    /\ Rejects(p)
    /\ Handle(c, p, "closing")
    /\ UNCHANGED <<stage, pending, crashes>>

\* `Approved! Executing...' was sent: executeWorkflow makes a workflow of its own.
ExecuteApproved(c) ==
    LET p == press[c].plan IN
    /\ press[c].at = "announcing"
    /\ ExecutePlan(c, p)
    /\ MoveTo(c, IF CanStart(Created(p)) THEN "running" ELSE "closing")
    /\ UNCHANGED <<stage, pending, crashes>>

AnnouncementFails(c) ==
    /\ press[c].at = "announcing"
    /\ MoveTo(c, "closing")
    /\ UNCHANGED <<stage, pending, workflowVars, crashes>>

\* The last message was sent, or failed; the `finally' drops the entry.
ClosePress(c) ==
    /\ press[c].at = "closing"
    /\ MoveTo(c, "over")
    /\ pending' = pending \ {press[c].plan}
    /\ UNCHANGED <<stage, workflowVars, crashes>>

-----------------------------------------------------------------------------
(* The runs, and the routes of the API                                     *)

\* persistWorkflow before and after a step: whatever the row has come to say.
RunWrites(w) ==
    /\ going[w] = "forward"
    /\ WriteRow(w, "running")
    /\ UNCHANGED <<stage, pending, press, going, crashes>>

\* A step failed and there is something to compensate.
RunFails(w) ==
    /\ going[w] = "forward"
    /\ WriteRow(w, "compensating")
    /\ going' = [going EXCEPT ![w] = "undoing"]
    /\ UNCHANGED <<stage, pending, press, crashes>>

\* The run is over, and the handler that waits for it goes on.
RunLeaves(w, status) ==
    /\ WriteRow(w, status)
    /\ going' = [going EXCEPT ![w] = "none"]
    /\ stage' = [p \in Plans |-> IF p = w /\ stage[p] = "running" THEN "over" ELSE stage[p]]
    /\ press' = [c \in Presses |->
                   IF c = w /\ press[c].at = "running"
                   THEN [press[c] EXCEPT !.at = "closing"] ELSE press[c]]
    /\ UNCHANGED <<pending, crashes>>

RunEnds(w) == going[w] # "none" /\ RunLeaves(w, "ended")

\* The next step needs an approval of its own.
RunSuspends(w) == going[w] = "forward" /\ RunLeaves(w, "awaiting_approval")

\* approveWorkflow; the audit record throws, or startWorkflow follows.  The route takes
\* any workflow, the one to review as the one to execute.
ApproveByApi(w) ==
    /\ saved[w] = "awaiting_approval"
    /\ Begins(w) \/ (WriteRow(w, "pending") /\ UNCHANGED going)
    /\ UNCHANGED <<stage, pending, press, crashes>>

RejectByApi(w) ==
    /\ saved[w] # "absent"
    /\ Rejects(w)
    /\ UNCHANGED <<stage, pending, press, crashes>>

\* Mutation: recovery sets a status that the engine does not know.
RecoveredAsInterrupted(status) ==
    [w \in Flows |-> IF status[w] = "running" THEN "interrupted" ELSE status[w]]

\* The map is in memory; the workflows are not, and those found `running' by
\* the new process are marked failed.
RecoveredRows(status) == [w \in Flows |-> IF status[w] = "running" THEN "ended" ELSE status[w]]

CrashAndRestart ==
    /\ crashes < MaxCrashes
    /\ crashes' = crashes + 1
    /\ pending' = {}
    /\ stage' = [p \in Plans |-> IF stage[p] = "new" THEN "new" ELSE "over"]
    /\ press' = [c \in Presses |->
                   IF press[c].at = "unused" THEN press[c] ELSE [press[c] EXCEPT !.at = "over"]]
    /\ saved' = RecoveredRows(saved)
    /\ going' = [w \in Flows |-> "none"]

ChannelNext ==
    \/ \E p \in Plans :
          PlanGenerated(p) \/ StorePending(p) \/ MessageFails(p) \/ ExecuteDirectly(p)
    \/ \E c \in Presses, p \in Plans :
          PressExpired(c, p) \/ PressApprove(c, p) \/ PressReject(c, p)
    \/ \E c \in Presses : ExecuteApproved(c) \/ AnnouncementFails(c) \/ ClosePress(c)
    \/ \E w \in Flows :
          \/ RunWrites(w) \/ RunFails(w) \/ RunEnds(w) \/ RunSuspends(w)
          \/ ApproveByApi(w) \/ RejectByApi(w)
    \/ CrashAndRestart

ChannelSpec == ChannelInit /\ [][ChannelNext]_channelVars

\* The chat's server takes every message.
ReliableSpec ==
    /\ ChannelInit /\ [][ChannelNext /\ \A c \in Presses : ~AnnouncementFails(c)]_channelVars
    /\ \A c \in Presses : WF_channelVars(ExecuteApproved(c))

-----------------------------------------------------------------------------
\* Type invariant.
ChannelTypeOK ==
    /\ stage \in [Plans -> Stage]
    /\ pending \subseteq Plans
    /\ press \in [Presses -> [at : Place, plan : Plans \cup {NoPlan}]]
    /\ saved \in [Flows -> RowStatus]
    /\ going \in [Flows -> Phase]
    /\ crashes \in 0 .. MaxCrashes

\* The plan a workflow was made of.
PlanOf(w) == IF w \in Plans THEN w ELSE press[w].plan

\* A workflow that was rejected while nothing ran for it stays rejected, and no run of it
\* begins, although startWorkflow takes a cancelled row and the chat, the API and the
\* handlers of earlier presses know nothing of each other.  Of a plan that needs approval
\* a run begins only where the workflow itself awaited an approval: an approval in the
\* chat that is overtaken by a rejection executes nothing.  (A rejection beside a live run
\* is written over by it, see RunWrites.)
NothingStartsAfterRejection ==
    [][\A w \in Flows : going[w] = "none" =>
          /\ saved[w] = "cancelled" => saved'[w] = "cancelled" /\ going'[w] = "none"
          /\ going'[w] # "none" /\ PlanOf(w) \in NeedApproval => saved[w] = "awaiting_approval"
      ]_channelVars

\* "Approve and execute workflow" (telegram.ts): what was approved in the chat
\* comes to run.  startWorkflow refuses the second workflow, which awaits an
\* approval of its own.
ApprovedIsExecuted ==
    \A c \in Presses : press[c].at = "announcing" ~> going[c] # "none"
=============================================================================
