----------------------- MODULE TemporalWorkflowProofs -----------------------
(***************************************************************************)
(* Proofs about the workflow on the Temporal engine, for any number of     *)
(* runs, steps and answers, and any crashes of its workers.  An approval   *)
(* that a run acts on is one that it asked for, because what it heard is   *)
(* forgotten when it asks; and every run is a saga: what it compensates is *)
(* what it did, from the last to the first.                                *)
(***************************************************************************)
EXTENDS TemporalWorkflow, SequenceTheorems, TLAPS

Places == {"unborn", "begin", "waiting", "steps", "activity", "compensating", "closed"}

Execs == [pc : Places, at : 0 .. Steps + 1, approved : BOOLEAN, rejected : BOOLEAN,
          skip : BOOLEAN, timed : BOOLEAN,
          outcome : {"none", "aborted", "completed", "cancelled", "failed"},
          stack : Seq(1 .. Steps), compensated : SUBSET (1 .. Steps)]

RunsWellTyped ==
    /\ started \in 0 .. MaxRuns
    /\ savedRow \in {"none", "pending", "awaiting_approval", "running"}
    /\ heard \in [RunIds -> BOOLEAN]
    /\ exec \in [RunIds -> Execs]

\* A run that was not started has done nothing; where the run is tells how far it may be.
Placed(r) ==
    /\ r > started => exec[r] = NewExec
    /\ r <= started => exec[r].pc # "unborn"
    /\ exec[r].pc = "begin" => exec[r].at = 0
    /\ exec[r].pc = "waiting" => exec[r].at \in ApprovalSteps \cup {0}
    /\ exec[r].pc = "steps" => exec[r].at \in 1 .. Steps + 1
    /\ exec[r].pc \in {"activity", "compensating"} => exec[r].at \in 1 .. Steps

\* The flag that waitForApproval looks at was set since the step began to wait.
Asked(r) ==
    /\ exec[r].pc = "waiting" /\ exec[r].at # 0 /\ exec[r].approved => heard[r]
    /\ exec[r].pc = "activity" /\ exec[r].at \in ApprovalSteps /\ ~exec[r].skip => heard[r]

\* Steps completed so far, as the saga counts them.
DoneOf(x) == IF x.at = 0 THEN 0 ELSE x.at - 1

OnStack(x) == {x.stack[i] : i \in 1 .. Len(x.stack)}

Rising(s) == \A i, j \in 1 .. Len(s) : i < j => s[i] < s[j]

\* The stack holds, in order, what was done, can be undone and has not been.
StackOf(r) ==
    /\ Rising(exec[r].stack)
    /\ OnStack(exec[r]) = (Undoable \cap 1 .. DoneOf(exec[r])) \ exec[r].compensated
    /\ exec[r].pc \notin {"compensating", "closed"} => exec[r].compensated = {}

TemporalInv ==
    RunsWellTyped /\ \A r \in RunIds : Placed(r) /\ Asked(r) /\ StackOf(r)

-----------------------------------------------------------------------------
LEMMA TemporalInitially == TemporalInit => TemporalInv
<1> SUFFICES ASSUME TemporalInit PROVE TemporalInv OBVIOUS
<1> USE TemporalAssumption DEF TemporalInit, NewExec
<1>1. <<>> \in Seq(1 .. Steps) /\ Len(<<>>) = 0 BY EmptySeq
<1>2. RunsWellTyped BY <1>1 DEF RunsWellTyped, Execs, Places
<1>3. ASSUME NEW r \in RunIds PROVE Placed(r) /\ Asked(r) /\ StackOf(r)
  <2>1. Placed(r) BY DEF Placed, RunIds
  <2>2. Asked(r) BY DEF Asked
  <2>3. StackOf(r) BY <1>1 DEF StackOf, Rising, OnStack, DoneOf
  <2> QED BY <2>1, <2>2, <2>3
<1> QED BY <1>2, <1>3 DEF TemporalInv

\* A run that a step leaves alone.
LEMMA RunUntouched ==
    ASSUME RunsWellTyped, NEW r \in RunIds, Placed(r), Asked(r), StackOf(r),
           exec'[r] = exec[r], heard'[r] = heard[r],
           started' = started \/ (started' = started + 1 /\ r # started')
    PROVE  Placed(r)' /\ Asked(r)' /\ StackOf(r)'
<1>1. Placed(r)' BY TemporalAssumption DEF Placed, RunsWellTyped, RunIds, NewExec
<1>2. Asked(r)' BY DEF Asked
<1>3. StackOf(r)' BY DEF StackOf, Rising, OnStack, DoneOf
<1> QED BY <1>1, <1>2, <1>3

\* What a step of one run must show: the rest is RunUntouched.
OnlyRun(r) ==
    /\ started' = started
    /\ \A q \in RunIds \ {r} : exec'[q] = exec[q] /\ heard'[q] = heard[q]

LEMMA OneRunSuffices ==
    ASSUME TemporalInv, NEW r \in RunIds, OnlyRun(r),
           RunsWellTyped', Placed(r)', Asked(r)', StackOf(r)'
    PROVE  TemporalInv'
BY RunUntouched DEF TemporalInv, OnlyRun

\* The fields a step of a run may set without touching its stack.
LEMMA StackKept ==
    ASSUME RunsWellTyped, NEW r \in RunIds, StackOf(r),
           exec'[r].stack = exec[r].stack, exec'[r].compensated = exec[r].compensated,
           exec'[r].at = exec[r].at \/ {exec[r].at, exec'[r].at} \subseteq {0, 1},
           exec'[r].pc \in {"compensating", "closed"}
              \/ exec[r].pc \notin {"compensating", "closed"}
    PROVE  StackOf(r)'
<1>1. DoneOf(exec[r])' = DoneOf(exec[r])
  <2>1. CASE exec'[r].at = exec[r].at BY <2>1 DEF DoneOf
  <2>2. CASE {exec[r].at, exec'[r].at} \subseteq {0, 1} BY <2>2 DEF DoneOf
  <2> QED BY <2>1, <2>2
<1> QED BY <1>1 DEF StackOf, Rising, OnStack

-----------------------------------------------------------------------------
LEMMA RunIsTyped ==
    ASSUME RunsWellTyped, NEW r \in RunIds
    PROVE  exec[r] \in Execs /\ heard[r] \in BOOLEAN /\ DOMAIN exec = RunIds /\ started \in Nat
BY TemporalAssumption DEF RunsWellTyped, RunIds

\* The signals and the cancellation, and what ends a run, keep its stack.
LEMMA ClosingKeeps ==
    ASSUME TemporalInv, NEW r \in RunIds, Open(r),
           NEW outcome \in {"aborted", "completed", "cancelled", "failed"},
           CloseAs(r, outcome), UNCHANGED <<started, savedRow, heard>>
    PROVE  TemporalInv'
<1>0. RunsWellTyped /\ Placed(r) /\ Asked(r) /\ StackOf(r) BY DEF TemporalInv
<1>1. exec[r] \in Execs /\ DOMAIN exec = RunIds BY <1>0, RunIsTyped
<1>2. exec' = [exec EXCEPT ![r] = [exec[r] EXCEPT !.pc = "closed", !.outcome = outcome]]
      BY <1>1 DEF CloseAs, Execs
<1>3. exec'[r] = [exec[r] EXCEPT !.pc = "closed", !.outcome = outcome] BY <1>1, <1>2
<1>4. RunsWellTyped' BY <1>0, <1>1, <1>2 DEF RunsWellTyped, Execs, Places
<1>5. OnlyRun(r) BY <1>0, <1>2 DEF OnlyRun, RunsWellTyped
<1>6. exec'[r].pc = "closed" /\ exec'[r].stack = exec[r].stack /\ exec'[r].at = exec[r].at
      /\ exec'[r].compensated = exec[r].compensated
      BY <1>1, <1>3 DEF Execs
<1>7. Placed(r)'
  <2>1. r <= started BY TemporalAssumption DEF Open
  <2> QED BY <1>6, <1>0, <2>1, TemporalAssumption DEF Placed, RunsWellTyped, RunIds
<1>8. Asked(r)' BY <1>6 DEF Asked
<1>9. StackOf(r)' BY <1>0, <1>6, StackKept
<1> QED BY <1>0, <1>4, <1>5, <1>7, <1>8, <1>9, OneRunSuffices

\* A step of run r alone gives the run a record x.
Becomes(r, x) == exec' = [exec EXCEPT ![r] = x] /\ started' = started /\ savedRow' = savedRow

LEMMA BecomesKeeps ==
    ASSUME TemporalInv, NEW r \in RunIds, NEW x \in Execs, Becomes(r, x),
           heard' \in [RunIds -> BOOLEAN], \A q \in RunIds \ {r} : heard'[q] = heard[q],
           Placed(r)', Asked(r)', StackOf(r)'
    PROVE  TemporalInv'
<1>1. RunsWellTyped BY DEF TemporalInv
<1>2. RunsWellTyped' BY <1>1 DEF RunsWellTyped, Becomes
<1>3. OnlyRun(r) BY <1>1 DEF OnlyRun, RunsWellTyped, Becomes
<1> QED BY <1>2, <1>3, OneRunSuffices

\* The two signals.
LEMMA SignalKeeps ==
    ASSUME TemporalInv, NEW r \in RunIds, ApproveSignal(r) \/ RejectSignal(r)
    PROVE  TemporalInv'
<1>0. /\ RunsWellTyped /\ Placed(r) /\ Asked(r) /\ StackOf(r) /\ started \in Nat
      /\ exec[r] \in Execs /\ DOMAIN exec = RunIds /\ heard \in [RunIds -> BOOLEAN]
      BY RunIsTyped DEF TemporalInv, RunsWellTyped
<1>1. Open(r) /\ r <= started BY <1>0 DEF ApproveSignal, RejectSignal, Open
<1>2. PICK x \in Execs :
         /\ Becomes(r, x)
         /\ \/ x = [exec[r] EXCEPT !.approved = TRUE] /\ heard' = [heard EXCEPT ![r] = TRUE]
            \/ x = [exec[r] EXCEPT !.rejected = TRUE] /\ heard' = heard
  <2>1. CASE ApproveSignal(r) BY <1>0, <2>1 DEF ApproveSignal, Becomes, Execs
  <2>2. CASE RejectSignal(r) BY <1>0, <2>2 DEF RejectSignal, Becomes, Execs
  <2> QED BY <2>1, <2>2
<1>3. exec'[r] = x /\ started' = started BY <1>0, <1>2 DEF Becomes
<1>4. x.pc = exec[r].pc /\ x.at = exec[r].at /\ x.stack = exec[r].stack /\ x.skip = exec[r].skip
      /\ x.compensated = exec[r].compensated
      /\ (x.approved = exec[r].approved \/ heard'[r])
      BY <1>0, <1>2 DEF Execs
<1>5. Placed(r)'
  <2>1. r \in Nat BY TemporalAssumption DEF RunIds
  <2> QED BY <1>0, <1>1, <1>3, <1>4, <2>1 DEF Placed
<1>6. Asked(r)' BY <1>0, <1>2, <1>3, <1>4 DEF Asked
<1>7. StackOf(r)' BY <1>0, <1>3, <1>4, StackKept
<1> QED BY <1>0, <1>2, <1>5, <1>6, <1>7, BecomesKeeps

LEMMA FirstPlaces == {0, 1} \subseteq 0 .. Steps + 1
BY TemporalAssumption

\* A run is started: it is the next one, and begins.
LEMMA StartKeeps ==
    ASSUME TemporalInv, NEW skip \in BOOLEAN, NEW timed \in BOOLEAN, StartRun(skip, timed),
           savedRow' \in {"none", "pending", "awaiting_approval", "running"}, UNCHANGED heard
    PROVE  TemporalInv'
<1>0. /\ RunsWellTyped /\ started \in Nat /\ DOMAIN exec = RunIds
      /\ \A r \in RunIds : Placed(r) /\ Asked(r) /\ StackOf(r)
      BY TemporalAssumption DEF TemporalInv, RunsWellTyped
<1>1. CASE UNCHANGED <<started, exec>>
  <2>1. RunsWellTyped' BY <1>0, <1>1 DEF RunsWellTyped
  <2> QED BY <1>0, <1>1, <2>1, RunUntouched DEF TemporalInv
<1>2. CASE ~UNCHANGED <<started, exec>>
  <2>1. /\ started < MaxRuns /\ started' = started + 1 /\ UNCHANGED heard
        /\ exec' = [exec EXCEPT ![started + 1] =
                       [NewExec EXCEPT !.pc = "begin", !.skip = skip, !.timed = timed,
                                       !.approved = ~PlanNeedsApproval]]
        BY <1>2 DEF StartRun
  <2>2. PICK r \in RunIds : r = started + 1 BY <1>0, <2>1, TemporalAssumption DEF RunIds
  <2>3. <<>> \in Seq(1 .. Steps) /\ Len(<<>>) = 0 BY EmptySeq
  <2>4. PICK approved \in BOOLEAN : approved = ~PlanNeedsApproval
        BY Zenon
  <2> DEFINE begun == [NewExec EXCEPT !.pc = "begin", !.skip = skip, !.timed = timed,
                                      !.approved = approved]
  <2>a. /\ NewExec \in Execs /\ NewExec.at = 0 /\ NewExec.stack = <<>>
        /\ NewExec.compensated = {}
        BY <2>3, FirstPlaces DEF Execs, NewExec, Places
  <2>b. begun \in Execs /\ begun.pc = "begin" /\ begun.at = 0 /\ begun.stack = <<>>
        /\ begun.compensated = {}
        BY <2>a DEF Execs, Places
  <2>5. PICK x \in Execs :
           /\ x = [NewExec EXCEPT !.pc = "begin", !.skip = skip, !.timed = timed,
                                  !.approved = approved]
           /\ x.pc = "begin" /\ x.at = 0 /\ x.stack = <<>> /\ x.compensated = {}
        BY <2>b
  <2>6. exec' = [exec EXCEPT ![r] = x] BY <2>1, <2>2, <2>4, <2>5
  <2>7. exec'[r] = x BY <1>0, <2>6
  <2>8. RunsWellTyped'
    <3>1. started' \in 0 .. MaxRuns BY <1>0, <2>1, TemporalAssumption
    <3>2. exec' \in [RunIds -> Execs] BY <1>0, <2>6 DEF RunsWellTyped
    <3> QED BY <1>0, <2>1, <3>1, <3>2 DEF RunsWellTyped
  <2>9. ASSUME NEW q \in RunIds, q # r PROVE Placed(q)' /\ Asked(q)' /\ StackOf(q)'
    <3>1. exec'[q] = exec[q] BY <1>0, <2>6, <2>9
    <3> QED BY <1>0, <2>1, <2>2, <2>9, <3>1, RunUntouched
  <2>10. Placed(r)' BY <1>0, <2>1, <2>2, <2>5, <2>7 DEF Placed
  <2>11. Asked(r)' BY <2>5, <2>7 DEF Asked
  <2>12. StackOf(r)'
    <3>a. Len(x.stack) = 0 BY <2>3, <2>5
    <3>1. 1 .. Len(x.stack) = {} BY <3>a
    <3>2. OnStack(x) = {} /\ Rising(x.stack) /\ DoneOf(x) = 0
          BY <2>5, <3>1 DEF OnStack, Rising, DoneOf
    <3> QED BY <2>5, <2>7, <3>2 DEF StackOf
  <2> QED BY <2>8, <2>9, <2>10, <2>11, <2>12 DEF TemporalInv
<1> QED BY <1>1, <1>2

\* What the moves of a run that neither close it nor touch its stack make of it.
Moved(r, x) ==
    /\ Becomes(r, x) /\ x.stack = exec[r].stack /\ x.compensated = exec[r].compensated
    /\ x.skip = exec[r].skip /\ exec[r].pc \in {"begin", "steps", "waiting"}
    /\ \/ x.at = 0 /\ x.pc = "waiting" /\ exec[r].at = 0 /\ heard' = heard
       \/ x.at = 1 /\ x.pc = "steps" /\ exec[r].at = 0 /\ heard' = heard
       \/ /\ x.at = exec[r].at /\ x.at \in ApprovalSteps /\ x.pc = "waiting"
          /\ ~x.approved /\ heard' = [heard EXCEPT ![r] = FALSE]
       \/ /\ x.at = exec[r].at /\ x.at \in 1 .. Steps /\ x.pc = "activity"
          /\ x.at \notin ApprovalSteps \/ x.skip \/ heard[r]
          /\ heard' = heard

LEMMA MoveEffect ==
    ASSUME TemporalInv, NEW r \in RunIds,
           BeginPlan(r) \/ NextStep(r) \/ SignalWins(r), exec'[r].pc # "closed"
    PROVE  \E x \in Execs : Moved(r, x)
<1> USE DEF Moved
<1>a. /\ RunsWellTyped /\ Placed(r) /\ Asked(r) /\ StackOf(r) /\ started \in Nat
      /\ exec[r] \in Execs /\ DOMAIN exec = RunIds /\ heard \in [RunIds -> BOOLEAN]
      BY RunIsTyped DEF TemporalInv, RunsWellTyped
<1>1. CASE BeginPlan(r)
  <2>1. exec[r].pc = "begin" /\ exec[r].at = 0 BY <1>a, <1>1 DEF BeginPlan, At, Placed
  <2>2. ~CloseAs(r, "aborted") BY <1>a DEF CloseAs, Execs
  <2>3. CASE PlanNeedsApproval /\ ~exec[r].skip
    <3> DEFINE x == [exec[r] EXCEPT !.pc = "waiting", !.at = 0]
    <3>1. Becomes(r, x) /\ heard' = heard BY <1>1, <2>2, <2>3 DEF BeginPlan, Becomes
    <3>2. x \in Execs /\ x.stack = exec[r].stack /\ x.compensated = exec[r].compensated
          /\ x.skip = exec[r].skip /\ x.pc = "waiting" /\ x.at = 0
          BY <1>a, FirstPlaces DEF Execs, Places
    <3> QED BY <2>1, <3>1, <3>2
  <2>4. CASE ~(PlanNeedsApproval /\ ~exec[r].skip)
    <3> DEFINE x == [exec[r] EXCEPT !.pc = "steps", !.at = 1]
    <3>1. Becomes(r, x) /\ heard' = heard BY <1>1, <2>2, <2>4 DEF BeginPlan, Becomes
    <3>2. x \in Execs /\ x.stack = exec[r].stack /\ x.compensated = exec[r].compensated
          /\ x.skip = exec[r].skip /\ x.pc = "steps" /\ x.at = 1
          BY <1>a, FirstPlaces DEF Execs, Places
    <3> QED BY <2>1, <3>1, <3>2
  <2> QED BY <2>3, <2>4
<1>2. CASE NextStep(r)
  <2>1. exec[r].pc = "steps" /\ exec[r].at \in 1 .. Steps
        BY <1>a, <1>2, TemporalAssumption DEF NextStep, At, Placed
  <2>2. CASE exec[r].at \in ApprovalSteps /\ ~exec[r].skip
    <3> DEFINE x == [exec[r] EXCEPT !.approved = FALSE, !.pc = "waiting"]
    <3>1. Becomes(r, x) /\ heard' = [heard EXCEPT ![r] = FALSE]
          BY <1>2, <2>2 DEF NextStep, Becomes
    <3>2. x \in Execs /\ x.stack = exec[r].stack /\ x.compensated = exec[r].compensated
          /\ x.skip = exec[r].skip /\ x.pc = "waiting" /\ x.at = exec[r].at /\ ~x.approved
          BY <1>a DEF Execs, Places
    <3> QED BY <2>1, <2>2, <3>1, <3>2
  <2>3. CASE ~(exec[r].at \in ApprovalSteps /\ ~exec[r].skip)
    <3> DEFINE x == [exec[r] EXCEPT !.pc = "activity"]
    <3>1. Becomes(r, x) /\ heard' = heard BY <1>2, <2>3 DEF NextStep, Becomes
    <3>2. x \in Execs /\ x.stack = exec[r].stack /\ x.compensated = exec[r].compensated
          /\ x.skip = exec[r].skip /\ x.pc = "activity" /\ x.at = exec[r].at
          BY <1>a DEF Execs, Places
    <3> QED BY <2>1, <2>3, <3>1, <3>2
  <2> QED BY <2>2, <2>3
<1>3. CASE SignalWins(r)
  <2>1. exec[r].pc = "waiting" /\ exec[r].at \in ApprovalSteps \cup {0}
        BY <1>a, <1>3 DEF SignalWins, At, Placed
  <2>2. ~CloseAs(r, "cancelled") BY <1>a DEF CloseAs, Execs
  <2>3. exec[r].approved BY <1>3, <2>2 DEF SignalWins
  <2>4. CASE exec[r].at = 0
    <3> DEFINE x == [exec[r] EXCEPT !.pc = "steps", !.at = 1]
    <3>1. Becomes(r, x) /\ heard' = heard
          BY <1>a, <1>3, <2>2, <2>4 DEF SignalWins, Becomes, Execs
    <3>2. x \in Execs /\ x.stack = exec[r].stack /\ x.compensated = exec[r].compensated
          /\ x.skip = exec[r].skip /\ x.pc = "steps" /\ x.at = 1
          BY <1>a, FirstPlaces DEF Execs, Places
    <3> QED BY <2>1, <2>4, <3>1, <3>2
  <2>5. CASE exec[r].at # 0
    <3> DEFINE x == [exec[r] EXCEPT !.pc = "activity"]
    <3>1. Becomes(r, x) /\ heard' = heard
          BY <1>a, <1>3, <2>2, <2>5 DEF SignalWins, Becomes, Execs
    <3>2. x \in Execs /\ x.stack = exec[r].stack /\ x.compensated = exec[r].compensated
          /\ x.skip = exec[r].skip /\ x.pc = "activity" /\ x.at = exec[r].at
          BY <1>a DEF Execs, Places
    <3>3. heard[r] /\ exec[r].at \in 1 .. Steps
          BY <1>a, <2>1, <2>3, <2>5, TemporalAssumption DEF Asked
    <3> QED BY <2>1, <3>1, <3>2, <3>3
  <2> QED BY <2>4, <2>5
<1> QED BY <1>1, <1>2, <1>3

LEMMA MoveKeeps ==
    ASSUME TemporalInv, NEW r \in RunIds,
           BeginPlan(r) \/ NextStep(r) \/ SignalWins(r), exec'[r].pc # "closed"
    PROVE  TemporalInv'
<1>0. /\ RunsWellTyped /\ Placed(r) /\ Asked(r) /\ StackOf(r) /\ started \in Nat
      /\ exec[r] \in Execs /\ DOMAIN exec = RunIds /\ heard \in [RunIds -> BOOLEAN]
      BY RunIsTyped DEF TemporalInv, RunsWellTyped
<1>1. Open(r) /\ r <= started /\ r \in Nat
      BY <1>0, TemporalAssumption DEF BeginPlan, NextStep, SignalWins, At, Open, RunIds
<1>2. PICK x \in Execs : Moved(r, x) BY MoveEffect
<1>3. exec'[r] = x /\ started' = started BY <1>0, <1>2 DEF Becomes, Moved
<1>4. Placed(r)' BY <1>0, <1>1, <1>2, <1>3, TemporalAssumption DEF Placed, Moved
<1>5. Asked(r)' BY <1>0, <1>2, <1>3 DEF Asked, Moved
<1>6. StackOf(r)' BY <1>0, <1>2, <1>3, StackKept DEF Moved
<1>7. heard' \in [RunIds -> BOOLEAN] /\ \A q \in RunIds \ {r} : heard'[q] = heard[q]
      BY <1>0, <1>2 DEF Moved
<1> QED BY <1>2, <1>4, <1>5, <1>6, <1>7, BecomesKeeps DEF Moved

\* The step that was running is done, and goes on the stack when it can be undone.
LEMMA ActivityKeeps ==
    ASSUME TemporalInv, NEW r \in RunIds, ActivityCompletes(r)
    PROVE  TemporalInv'
<1>0. /\ RunsWellTyped /\ Placed(r) /\ Asked(r) /\ StackOf(r) /\ started \in Nat
      /\ exec[r] \in Execs /\ DOMAIN exec = RunIds /\ heard \in [RunIds -> BOOLEAN]
      BY RunIsTyped DEF TemporalInv, RunsWellTyped
<1>1. /\ r <= started /\ exec[r].pc = "activity" /\ exec[r].at \in 1 .. Steps
      /\ heard' = heard
      BY <1>0, TemporalAssumption DEF ActivityCompletes, At, Open, Placed
<1>2. PICK at \in 1 .. Steps : at = exec[r].at BY <1>1
<1>3. PICK old \in Seq(1 .. Steps) : old = exec[r].stack BY <1>0 DEF Execs
<1>4. PICK new \in Seq(1 .. Steps) :
         new = IF at \in Undoable THEN Append(old, at) ELSE old
      BY <1>2, <1>3, AppendProperties
<1>5. PICK x \in Execs :
         /\ Becomes(r, x) /\ x.pc = "steps" /\ x.at = at + 1 /\ x.stack = new
         /\ x.compensated = {}
  <2> DEFINE x == [exec[r] EXCEPT !.pc = "steps", !.at = at + 1, !.stack = new]
  <2>1. Becomes(r, x) BY <1>0, <1>2, <1>3, <1>4 DEF ActivityCompletes, Becomes, Execs
  <2>2. at + 1 \in 0 .. Steps + 1 BY TemporalAssumption
  <2>3. exec[r].compensated = {} BY <1>0, <1>1 DEF StackOf
  <2>4. x \in Execs /\ x.pc = "steps" /\ x.at = at + 1 /\ x.stack = new /\ x.compensated = {}
        BY <1>0, <2>2, <2>3 DEF Execs, Places
  <2> QED BY <2>1, <2>4
<1>6. exec'[r] = x /\ started' = started BY <1>0, <1>5 DEF Becomes
<1>7. Placed(r)' BY <1>0, <1>1, <1>5, <1>6, TemporalAssumption DEF Placed, RunIds
<1>8. Asked(r)' BY <1>5, <1>6 DEF Asked
<1>9. StackOf(r)'
  <2>1. /\ Rising(old) /\ exec[r].compensated = {} /\ DoneOf(exec[r]) = at - 1
        /\ {old[i] : i \in 1 .. Len(old)} = Undoable \cap 1 .. at - 1
        BY <1>0, <1>1, <1>2, <1>3 DEF StackOf, DoneOf, OnStack
  <2>2. DoneOf(x) = at BY <1>5, TemporalAssumption DEF DoneOf
  <2>3. 1 .. at = 1 .. (at - 1) \cup {at} OBVIOUS
  <2>4. CASE at \in Undoable
    <3>a. new = Append(old, at) /\ Len(old) \in Nat BY <1>4, <2>4, LenProperties
    <3>b. /\ Len(new) = Len(old) + 1 /\ new[Len(old) + 1] = at
          /\ \A i \in 1 .. Len(old) : new[i] = old[i]
          BY <3>a, AppendProperties
    <3>c. \A i \in 1 .. Len(old) : old[i] \in 1 .. at - 1 BY <2>1
    <3>1. /\ Len(new) = Len(old) + 1 /\ new[Len(old) + 1] = at /\ Len(old) \in Nat
          /\ \A i \in 1 .. Len(old) : new[i] = old[i] /\ old[i] < at
          BY <3>a, <3>b, <3>c
    <3>2. Rising(new) BY <2>1, <3>1 DEF Rising
    <3>3. 1 .. Len(new) = 1 .. Len(old) \cup {Len(old) + 1} BY <3>1
    <3>4. {new[i] : i \in 1 .. Len(new)} = {old[i] : i \in 1 .. Len(old)} \cup {at}
          BY <3>1, <3>3
    <3>5. OnStack(x) = Undoable \cap 1 .. at
          BY <1>5, <2>1, <2>3, <2>4, <3>4 DEF OnStack
    <3> QED BY <1>5, <1>6, <2>2, <3>2, <3>5 DEF StackOf
  <2>5. CASE at \notin Undoable
    <3>1. OnStack(x) = Undoable \cap 1 .. at BY <1>4, <1>5, <2>1, <2>3, <2>5 DEF OnStack
    <3> QED BY <1>4, <1>5, <1>6, <2>1, <2>2, <2>5, <3>1 DEF StackOf
  <2> QED BY <2>4, <2>5
<1>10. heard' \in [RunIds -> BOOLEAN] /\ \A q \in RunIds \ {r} : heard'[q] = heard[q]
      BY <1>0, <1>1
<1> QED BY <1>5, <1>7, <1>8, <1>9, <1>10, BecomesKeeps

\* A failure turns the run to compensating, and keeps its stack.
LEMMA FailureKeeps ==
    ASSUME TemporalInv, NEW r \in RunIds, ActivityFails(r), exec'[r].pc # "closed"
    PROVE  TemporalInv' /\ exec[r].stack # <<>>
<1>0. /\ RunsWellTyped /\ Placed(r) /\ Asked(r) /\ StackOf(r) /\ started \in Nat
      /\ exec[r] \in Execs /\ DOMAIN exec = RunIds /\ heard \in [RunIds -> BOOLEAN]
      BY RunIsTyped DEF TemporalInv, RunsWellTyped
<1>1. /\ r <= started /\ exec[r].pc = "activity" /\ exec[r].at \in 1 .. Steps
      /\ heard' = heard
      BY <1>0, TemporalAssumption DEF ActivityFails, At, Open, Placed
<1>2. ~CloseAs(r, "failed") BY <1>0 DEF CloseAs, Execs
<1>3. exec[r].stack # <<>> BY <1>2 DEF ActivityFails
<1>4. PICK x \in Execs : /\ Becomes(r, x) /\ x.pc = "compensating" /\ x.at = exec[r].at
                         /\ x.stack = exec[r].stack /\ x.compensated = exec[r].compensated
  <2> DEFINE x == [exec[r] EXCEPT !.pc = "compensating"]
  <2>1. Becomes(r, x) BY <1>2 DEF ActivityFails, Becomes
  <2>2. x \in Execs /\ x.pc = "compensating" /\ x.at = exec[r].at /\ x.stack = exec[r].stack
        /\ x.compensated = exec[r].compensated
        BY <1>0 DEF Execs, Places
  <2> QED BY <2>1, <2>2
<1>5. exec'[r] = x /\ started' = started BY <1>0, <1>4 DEF Becomes
<1>6. Placed(r)' BY <1>0, <1>1, <1>4, <1>5, TemporalAssumption DEF Placed, RunIds
<1>7. Asked(r)' BY <1>4, <1>5 DEF Asked
<1>8. StackOf(r)' BY <1>0, <1>4, <1>5, StackKept
<1>9. heard' \in [RunIds -> BOOLEAN] /\ \A q \in RunIds \ {r} : heard'[q] = heard[q]
      BY <1>0, <1>1
<1>10. TemporalInv' BY <1>4, <1>6, <1>7, <1>8, <1>9, BecomesKeeps
<1> QED BY <1>3, <1>10

\* The top of the stack is the latest step that stands; it is compensated and dropped.
LEMMA CompensationKeeps ==
    ASSUME TemporalInv, NEW r \in RunIds, CompensateStep(r)
    PROVE  /\ TemporalInv'
           /\ \E s \in OnStack(exec[r]) :
                 /\ \A t \in OnStack(exec[r]) : t <= s
                 /\ exec' = [exec EXCEPT ![r].compensated = @ \cup {s},
                                         ![r].stack = exec'[r].stack]
<1>0. /\ RunsWellTyped /\ Placed(r) /\ Asked(r) /\ StackOf(r) /\ started \in Nat
      /\ exec[r] \in Execs /\ DOMAIN exec = RunIds /\ heard \in [RunIds -> BOOLEAN]
      BY RunIsTyped DEF TemporalInv, RunsWellTyped
<1>1. /\ r <= started /\ exec[r].pc = "compensating" /\ exec[r].stack # <<>>
      /\ heard' = heard
      BY <1>0 DEF CompensateStep, At, Open
<1>2. PICK old \in Seq(1 .. Steps) : old = exec[r].stack BY <1>0 DEF Execs
<1>3. PICK k \in Nat : k = Len(old) - 1 /\ Len(old) = k + 1
      BY <1>1, <1>2, EmptySeq, LenProperties
<1>e. \A i \in 1 .. k + 1 : old[i] \in 1 .. Steps BY <1>3, ElementOfSeq
<1>4. PICK top \in 1 .. Steps : top = old[k + 1] BY <1>e
<1>5. PICK new \in Seq(1 .. Steps) :
         /\ new = SubSeq(old, 1, k) /\ Len(new) = k /\ \A i \in 1 .. k : new[i] = old[i]
  <2>1. \A i \in 1 .. k : old[i] \in 1 .. Steps BY <1>e
  <2>2. /\ SubSeq(old, 1, k) \in Seq(1 .. Steps)
        /\ Len(SubSeq(old, 1, k)) = IF 1 <= k THEN k - 1 + 1 ELSE 0
        /\ \A i \in 1 .. k - 1 + 1 : SubSeq(old, 1, k)[i] = old[1 + i - 1]
        BY <2>1, SubSeqProperties
  <2>3. /\ Len(SubSeq(old, 1, k)) = k
        /\ \A i \in 1 .. k : SubSeq(old, 1, k)[i] = old[i]
        BY <2>2
  <2> QED BY <2>2, <2>3
<1>6. PICK gone \in SUBSET (1 .. Steps) : gone = exec[r].compensated BY <1>0 DEF Execs
<1>7. PICK x \in Execs :
         /\ Becomes(r, x) /\ x = [exec[r] EXCEPT !.compensated = gone \cup {top}, !.stack = new]
         /\ x.pc = "compensating" /\ x.at = exec[r].at /\ x.stack = new
         /\ x.compensated = gone \cup {top}
  <2> DEFINE x == [exec[r] EXCEPT !.compensated = gone \cup {top}, !.stack = new]
  <2>1. Becomes(r, x)
        BY <1>0, <1>2, <1>3, <1>4, <1>5, <1>6 DEF CompensateStep, Becomes, Execs
  <2>2. x \in Execs /\ x.pc = "compensating" /\ x.at = exec[r].at /\ x.stack = new
        /\ x.compensated = gone \cup {top}
        BY <1>0, <1>1 DEF Execs, Places
  <2> QED BY <2>1, <2>2
<1>8. exec'[r] = x /\ started' = started BY <1>0, <1>7 DEF Becomes
<1>9. /\ Rising(old)
      /\ {old[i] : i \in 1 .. k + 1} = (Undoable \cap 1 .. DoneOf(exec[r])) \ gone
      BY <1>0, <1>2, <1>3, <1>6 DEF StackOf, OnStack
<1>10. \A i \in 1 .. k : old[i] < top /\ old[i] \in 1 .. Steps
       BY <1>3, <1>4, <1>9, <1>e DEF Rising
<1>11. Rising(new)
  <2>1. Len(new) = k /\ \A i \in 1 .. k : new[i] = old[i] BY <1>5
  <2>2. \A i, j \in 1 .. k : i < j => old[i] < old[j] BY <1>3, <1>9 DEF Rising
  <2> QED BY <2>1, <2>2 DEF Rising
<1>12. {new[i] : i \in 1 .. k} = {old[i] : i \in 1 .. k + 1} \ {top}
  <2>1. 1 .. k + 1 = 1 .. k \cup {k + 1} OBVIOUS
  <2>2. {old[i] : i \in 1 .. k + 1} = {old[i] : i \in 1 .. k} \cup {top} BY <1>4, <2>1
  <2>3. {new[i] : i \in 1 .. k} = {old[i] : i \in 1 .. k} BY <1>5
  <2>4. top \notin {old[i] : i \in 1 .. k} BY <1>10
  <2> QED BY <2>2, <2>3, <2>4
<1>13. Placed(r)' BY <1>0, <1>1, <1>7, <1>8, TemporalAssumption DEF Placed, RunIds
<1>14. Asked(r)' BY <1>7, <1>8 DEF Asked
<1>15. StackOf(r)'
  <2>1. DoneOf(x) = DoneOf(exec[r]) BY <1>7 DEF DoneOf
  <2>2. OnStack(x) = {new[i] : i \in 1 .. k} BY <1>5, <1>7 DEF OnStack
  <2>3. OnStack(x) = (Undoable \cap 1 .. DoneOf(x)) \ x.compensated
        BY <1>7, <1>9, <1>12, <2>1, <2>2
  <2> QED BY <1>7, <1>8, <1>11, <2>3 DEF StackOf
<1>16. heard' \in [RunIds -> BOOLEAN] /\ \A q \in RunIds \ {r} : heard'[q] = heard[q]
       BY <1>0, <1>1
<1>17. TemporalInv' BY <1>7, <1>13, <1>14, <1>15, <1>16, BecomesKeeps
<1>18. top \in OnStack(exec[r]) /\ \A t \in OnStack(exec[r]) : t <= top
  <2>1. OnStack(exec[r]) = {old[i] : i \in 1 .. k + 1} BY <1>2, <1>3 DEF OnStack
  <2>2. 1 .. k + 1 = 1 .. k \cup {k + 1} OBVIOUS
  <2> QED BY <1>4, <1>10, <2>1, <2>2
<1>19. exec' = [exec EXCEPT ![r].compensated = @ \cup {top}, ![r].stack = exec'[r].stack]
       BY <1>0, <1>6, <1>7, <1>8 DEF Becomes, Execs
<1> QED BY <1>17, <1>18, <1>19

-----------------------------------------------------------------------------
\* What a step of one run does, told apart as the saga tells it apart.
Closes(r) ==
    /\ Open(r)
    /\ \E outcome \in {"aborted", "completed", "cancelled", "failed"} : CloseAs(r, outcome)
    /\ UNCHANGED <<started, savedRow, heard>>

RunMoves(r) ==
    (BeginPlan(r) \/ NextStep(r) \/ SignalWins(r)) /\ exec'[r].pc # "closed"

TurnsBack(r) == ActivityFails(r) /\ exec'[r].pc # "closed"

LEMMA ProgressCases ==
    ASSUME TemporalInv, NEW r \in RunIds, CancelHandle(r) \/ Progress(r)
    PROVE  Closes(r) \/ RunMoves(r) \/ ActivityCompletes(r) \/ TurnsBack(r) \/ CompensateStep(r)
<1>0. exec[r] \in Execs /\ DOMAIN exec = RunIds BY RunIsTyped DEF TemporalInv
<1>1. CASE exec'[r].pc # "closed"
  <2>1. ASSUME NEW outcome, CloseAs(r, outcome) PROVE FALSE
        BY <1>0, <1>1, <2>1 DEF CloseAs, Execs
  <2> QED BY <1>1, <2>1 DEF CancelHandle, Progress, Finished, TimerWins, CompensationEnds,
             RunMoves, TurnsBack
<1>2. CASE exec'[r].pc = "closed"
  <2>1. CASE BeginPlan(r)
    <3>1. CASE CloseAs(r, "aborted") BY <2>1, <3>1 DEF BeginPlan, At, Closes
    <3>2. CASE ~CloseAs(r, "aborted") BY <1>0, <1>2, <2>1, <3>2 DEF BeginPlan, Execs
    <3> QED BY <3>1, <3>2
  <2>2. CASE NextStep(r) BY <1>0, <1>2, <2>2 DEF NextStep, Execs
  <2>3. CASE SignalWins(r)
    <3>1. CASE CloseAs(r, "cancelled") BY <2>3, <3>1 DEF SignalWins, At, Closes
    <3>2. CASE ~CloseAs(r, "cancelled") BY <1>0, <1>2, <2>3, <3>2 DEF SignalWins, Execs
    <3> QED BY <3>1, <3>2
  <2>4. CASE ActivityFails(r)
    <3>1. CASE CloseAs(r, "failed") BY <2>4, <3>1 DEF ActivityFails, At, Closes
    <3>2. CASE ~CloseAs(r, "failed") BY <1>0, <1>2, <2>4, <3>2 DEF ActivityFails, Execs
    <3> QED BY <3>1, <3>2
  <2> QED BY <2>1, <2>2, <2>3, <2>4
      DEF CancelHandle, Progress, Finished, TimerWins, CompensationEnds, At, Closes
<1> QED BY <1>1, <1>2

LEMMA TemporalStep == TemporalInv /\ [TemporalNext]_temporalVars => TemporalInv'
<1> SUFFICES ASSUME TemporalInv, [TemporalNext]_temporalVars PROVE TemporalInv' OBVIOUS
<1>1. CASE CreateWorkflow
  <2>1. StartRun(FALSE, TRUE) /\ UNCHANGED heard
        /\ savedRow' \in {"none", "pending", "awaiting_approval", "running"}
        BY <1>1 DEF CreateWorkflow
  <2> QED BY <2>1, StartKeeps
<1>2. ASSUME NEW skip \in BOOLEAN, NEW timed \in BOOLEAN, StartWorkflow(skip, timed)
      PROVE  TemporalInv'
  <2>1. StartRun(skip, timed) /\ UNCHANGED heard
        /\ savedRow' \in {"none", "pending", "awaiting_approval", "running"}
        BY <1>2 DEF StartWorkflow
  <2> QED BY <2>1, StartKeeps
<1>3. ASSUME NEW r \in RunIds, ApproveSignal(r) \/ RejectSignal(r) PROVE TemporalInv'
      BY <1>3, SignalKeeps
<1>4. ASSUME NEW r \in RunIds, CancelHandle(r) \/ Progress(r) PROVE TemporalInv'
  <2>1. CASE Closes(r) BY <2>1, ClosingKeeps DEF Closes
  <2>2. CASE RunMoves(r) BY <2>2, MoveKeeps DEF RunMoves
  <2>3. CASE TurnsBack(r) BY <2>3, FailureKeeps DEF TurnsBack
  <2> QED BY <1>4, <2>1, <2>2, <2>3, ProgressCases, ActivityKeeps, CompensationKeeps
<1>5. CASE UNCHANGED temporalVars
  <2>1. UNCHANGED <<started, exec, savedRow, heard>> BY <1>5 DEF temporalVars
  <2>2. RunsWellTyped' BY <2>1 DEF TemporalInv, RunsWellTyped
  <2> QED BY <2>1, <2>2, RunUntouched DEF TemporalInv
<1> QED BY <1>1, <1>2, <1>3, <1>4, <1>5 DEF TemporalNext

LEMMA TemporalAlways == TemporalInit /\ [][TemporalNext]_temporalVars => []TemporalInv
BY TemporalInitially, TemporalStep, PTL

\* The state of the runs is as it was declared: no run is anywhere but where planWorkflow
\* can be, and its stack holds steps of the plan.
THEOREM TemporalTypes == TemporalSpec => []TemporalTypeOK
<1>1. TemporalInv => TemporalTypeOK
      BY DEF TemporalInv, TemporalTypeOK, RunsWellTyped, Execs, Places
<1> QED BY <1>1, TemporalAlways, PTL DEF TemporalSpec

\* A step that needs an approval is run on an approve signal that came while it was being
\* asked for, whatever other runs, signals, timers and cancellations do: the loop clears
\* the flag before it waits, and only the handler of the signal sets it.
THEOREM ApprovalsAreFresh == TemporalSpec => []ApprovalIsFresh
<1>1. TemporalInv => ApprovalIsFresh BY DEF TemporalInv, Asked, ApprovalIsFresh, At
<1> QED BY <1>1, TemporalAlways, PTL DEF TemporalSpec

-----------------------------------------------------------------------------
(* Each run keeps the promise of the saga                                  *)

\* The saga's variables, as the mapping has them.
RunPhases == [r \in RunIds |-> RunPhase(r)]
RunDones == [r \in RunIds |-> RunDone(r)]
RunUndones == [r \in RunIds |-> exec[r].compensated]

\* Runs that a step leaves alone look the same to the saga.
LEMMA SameRun ==
    ASSUME NEW r \in RunIds, exec'[r] = exec[r]
    PROVE  /\ RunPhase(r)' = RunPhase(r) /\ RunDone(r)' = RunDone(r)
           /\ exec'[r].compensated = exec[r].compensated
BY DEF RunPhase, RunDone

LEMMA RunsRest ==
    ASSUME \A r \in RunIds : /\ RunPhase(r)' = RunPhase(r) /\ RunDone(r)' = RunDone(r)
                             /\ exec'[r].compensated = exec[r].compensated
    PROVE  UNCHANGED RunSaga!svars
BY DEF RunSaga!svars

LEMMA RunStops ==
    ASSUME NEW r \in RunIds, RunPhase(r)' = "ended", RunDone(r)' = RunDone(r),
           exec'[r].compensated = exec[r].compensated,
           \A q \in RunIds \ {r} : exec'[q] = exec[q]
    PROVE  RunSaga!SagaNext
<1>1. \A q \in RunIds \ {r} : /\ RunPhase(q)' = RunPhase(q) /\ RunDone(q)' = RunDone(q)
                              /\ exec'[q].compensated = exec[q].compensated
      BY SameRun
<1>2. RunSaga!Stop({r}) BY <1>1 DEF RunSaga!Stop
<1>3. {r} \in SUBSET RunIds OBVIOUS
<1> QED BY <1>2, <1>3 DEF RunSaga!SagaNext

LEMMA RunShifts ==
    ASSUME NEW r \in RunIds, RunDone(r)' = RunDone(r),
           exec'[r].compensated = exec[r].compensated,
           \A q \in RunIds \ {r} : exec'[q] = exec[q],
           \/ RunPhase(r) = "idle" /\ RunPhase(r)' = "forward"
           \/ RunPhase(r) = "forward" /\ RunPhase(r)' = "idle"
           \/ /\ RunPhase(r) = "forward" /\ RunPhase(r)' = "backward"
              /\ RunSaga!Standing(r) # {}
           \/ RunPhase(r)' = RunPhase(r)
    PROVE  RunSaga!SagaNext \/ UNCHANGED RunSaga!svars
<1>1. \A q \in RunIds \ {r} : /\ RunPhase(q)' = RunPhase(q) /\ RunDone(q)' = RunDone(q)
                              /\ exec'[q].compensated = exec[q].compensated
      BY SameRun
<1>2. CASE RunPhase(r) = "idle" /\ RunPhase(r)' = "forward"
      BY <1>1, <1>2 DEF RunSaga!Launch, RunSaga!Move, RunSaga!SagaNext
<1>3. CASE RunPhase(r) = "forward" /\ RunPhase(r)' = "idle"
      BY <1>1, <1>3 DEF RunSaga!Suspend, RunSaga!Move, RunSaga!SagaNext
<1>4. CASE RunPhase(r) = "forward" /\ RunPhase(r)' = "backward" /\ RunSaga!Standing(r) # {}
      BY <1>1, <1>4 DEF RunSaga!TurnBack, RunSaga!Move, RunSaga!SagaNext
<1>5. CASE RunPhase(r)' = RunPhase(r)
  <2>1. \A q \in RunIds : /\ RunPhase(q)' = RunPhase(q) /\ RunDone(q)' = RunDone(q)
                          /\ exec'[q].compensated = exec[q].compensated
        BY <1>1, <1>5
  <2> QED BY <2>1, RunsRest
<1> QED BY <1>2, <1>3, <1>4, <1>5

\* What the stack holds is what the saga says still stands.
LEMMA StackStands ==
    ASSUME TemporalInv, NEW r \in RunIds
    PROVE  OnStack(exec[r]) = RunSaga!Standing(r)
BY DEF TemporalInv, StackOf, RunSaga!Standing, RunDone, DoneOf

LEMMA MoveIsSaga ==
    ASSUME TemporalInv, NEW r \in RunIds, RunMoves(r)
    PROVE  RunSaga!SagaNext \/ UNCHANGED RunSaga!svars
<1>0. /\ RunsWellTyped /\ Placed(r) /\ exec[r] \in Execs /\ DOMAIN exec = RunIds
      BY RunIsTyped DEF TemporalInv
<1>1. PICK x \in Execs : Moved(r, x) BY MoveEffect DEF RunMoves
<1>2. exec'[r] = x /\ \A q \in RunIds \ {r} : exec'[q] = exec[q]
      BY <1>0, <1>1 DEF Moved, Becomes
<1>3. exec'[r].compensated = exec[r].compensated BY <1>1, <1>2 DEF Moved
<1>4. x.pc \in {"waiting", "steps", "activity"} /\ exec[r].pc \in {"begin", "steps", "waiting"}
      BY <1>1 DEF Moved
<1>5. RunDone(r)' = RunDone(r) BY <1>1, <1>2 DEF Moved, RunDone
<1>6. RunPhase(r) = (IF exec[r].pc = "steps" THEN "forward" ELSE "idle")
      /\ RunPhase(r)' = (IF x.pc = "waiting" THEN "idle" ELSE "forward")
      BY <1>2, <1>4 DEF RunPhase
<1> QED BY <1>2, <1>3, <1>5, <1>6, RunShifts

LEMMA AdvanceIsSaga ==
    ASSUME TemporalInv, NEW r \in RunIds, ActivityCompletes(r)
    PROVE  RunSaga!SagaNext
<1>0. /\ RunsWellTyped /\ Placed(r) /\ exec[r] \in Execs /\ DOMAIN exec = RunIds
      BY RunIsTyped DEF TemporalInv
<1>1. exec[r].pc = "activity" /\ exec[r].at \in 1 .. Steps
      BY <1>0 DEF ActivityCompletes, At, Placed
<1>2. /\ exec'[r].pc = "steps" /\ exec'[r].at = exec[r].at + 1
      /\ exec'[r].compensated = exec[r].compensated
      /\ \A q \in RunIds \ {r} : exec'[q] = exec[q]
      BY <1>0 DEF ActivityCompletes, Execs
<1>3. \A q \in RunIds \ {r} : /\ RunPhase(q)' = RunPhase(q) /\ RunDone(q)' = RunDone(q)
                              /\ exec'[q].compensated = exec[q].compensated
      BY <1>2, SameRun
<1>4. /\ RunPhase(r) = "forward" /\ RunPhase(r)' = "forward"
      /\ RunDone(r) < Steps /\ RunDone(r)' = RunDone(r) + 1
      BY <1>1, <1>2, TemporalAssumption DEF RunPhase, RunDone
<1>5. RunSaga!Advance(r) BY <1>2, <1>3, <1>4 DEF RunSaga!Advance
<1> QED BY <1>5 DEF RunSaga!SagaNext

LEMMA UndoIsSaga ==
    ASSUME TemporalInv, NEW r \in RunIds, CompensateStep(r)
    PROVE  RunSaga!SagaNext
<1>0. exec[r] \in Execs /\ DOMAIN exec = RunIds BY RunIsTyped DEF TemporalInv
<1>1. PICK s \in OnStack(exec[r]) :
         /\ \A t \in OnStack(exec[r]) : t <= s
         /\ exec' = [exec EXCEPT ![r].compensated = @ \cup {s}, ![r].stack = exec'[r].stack]
      BY CompensationKeeps
<1>2. /\ exec'[r].pc = exec[r].pc /\ exec'[r].at = exec[r].at
      /\ exec'[r].compensated = exec[r].compensated \cup {s}
      /\ \A q \in RunIds \ {r} : exec'[q] = exec[q]
  <2> DEFINE x == [exec[r] EXCEPT !.compensated = exec[r].compensated \cup {s},
                                  !.stack = exec'[r].stack]
  <2>1. exec' = [exec EXCEPT ![r] = x] BY <1>0, <1>1 DEF Execs
  <2>2. exec'[r] = x /\ \A q \in RunIds \ {r} : exec'[q] = exec[q] BY <1>0, <2>1
  <2> QED BY <1>0, <2>2 DEF Execs
<1>3. exec[r].pc = "compensating" BY DEF CompensateStep, At
<1>4. \A q \in RunIds \ {r} : /\ RunPhase(q)' = RunPhase(q) /\ RunDone(q)' = RunDone(q)
                              /\ exec'[q].compensated = exec[q].compensated
      BY <1>2, SameRun
<1>5. /\ RunPhase(r) = "backward" /\ RunPhase(r)' = "backward" /\ RunDone(r)' = RunDone(r)
      BY <1>2, <1>3 DEF RunPhase, RunDone
<1>6. s \in RunSaga!Standing(r) /\ \A t \in RunSaga!Standing(r) : t <= s
      BY <1>1, StackStands
<1>7. RunSaga!UndoLatest(r) BY <1>2, <1>4, <1>5, <1>6 DEF RunSaga!UndoLatest
<1> QED BY <1>7 DEF RunSaga!SagaNext

LEMMA StepIsSaga ==
    TemporalInv /\ [TemporalNext]_temporalVars => [RunSaga!SagaNext]_(RunSaga!svars)
<1> SUFFICES ASSUME TemporalInv, [TemporalNext]_temporalVars
             PROVE  RunSaga!SagaNext \/ UNCHANGED RunSaga!svars
    OBVIOUS
<1>0. /\ RunsWellTyped /\ DOMAIN exec = RunIds /\ started \in Nat
      /\ \A r \in RunIds : exec[r] \in Execs /\ Placed(r)
      BY TemporalAssumption, RunIsTyped DEF TemporalInv, RunsWellTyped
<1>1. CASE CreateWorkflow \/ \E skip, timed \in BOOLEAN : StartWorkflow(skip, timed)
  <2>1. PICK skip \in BOOLEAN, timed \in BOOLEAN : StartRun(skip, timed)
        BY <1>1 DEF CreateWorkflow, StartWorkflow
  <2>2. CASE UNCHANGED exec BY <2>2, SameRun, RunsRest
  <2>3. CASE ~UNCHANGED exec
    <3>1. /\ started < MaxRuns
          /\ exec' = [exec EXCEPT ![started + 1] =
                         [NewExec EXCEPT !.pc = "begin", !.skip = skip, !.timed = timed,
                                         !.approved = ~PlanNeedsApproval]]
          BY <2>1, <2>3 DEF StartRun
    <3>2. PICK r \in RunIds : r = started + 1
          BY <1>0, <3>1, TemporalAssumption DEF RunIds
    <3>3. exec[r] = NewExec BY <1>0, <3>2 DEF Placed
    <3>4. exec'[r].pc = "begin" /\ exec'[r].at = 0 /\ exec'[r].compensated = {}
          BY <1>0, <3>1, <3>2 DEF NewExec
    <3>5. \A q \in RunIds \ {r} : exec'[q] = exec[q] BY <1>0, <3>1, <3>2
    <3>6. /\ RunPhase(r) = "idle" /\ RunPhase(r)' = "idle" /\ RunDone(r) = 0 /\ RunDone(r)' = 0
          /\ exec'[r].compensated = exec[r].compensated
          BY <3>3, <3>4 DEF RunPhase, RunDone, NewExec
    <3> QED BY <3>5, <3>6, RunShifts
  <2> QED BY <2>2, <2>3
<1>2. ASSUME NEW r \in RunIds, ApproveSignal(r) \/ RejectSignal(r)
      PROVE  RunSaga!SagaNext \/ UNCHANGED RunSaga!svars
  <2>1. /\ exec'[r].pc = exec[r].pc /\ exec'[r].at = exec[r].at
        /\ exec'[r].compensated = exec[r].compensated
        /\ \A q \in RunIds \ {r} : exec'[q] = exec[q]
        BY <1>0, <1>2 DEF ApproveSignal, RejectSignal, Execs
  <2>2. RunPhase(r)' = RunPhase(r) /\ RunDone(r)' = RunDone(r) BY <2>1 DEF RunPhase, RunDone
  <2> QED BY <2>1, <2>2, RunShifts
<1>3. ASSUME NEW r \in RunIds, Closes(r) PROVE RunSaga!SagaNext
  <2>1. /\ exec'[r].pc = "closed" /\ exec'[r].at = exec[r].at
        /\ exec'[r].compensated = exec[r].compensated
        /\ \A q \in RunIds \ {r} : exec'[q] = exec[q]
        BY <1>0, <1>3 DEF Closes, CloseAs, Execs
  <2>2. RunPhase(r)' = "ended" /\ RunDone(r)' = RunDone(r) BY <2>1 DEF RunPhase, RunDone
  <2> QED BY <2>1, <2>2, RunStops
<1>4. ASSUME NEW r \in RunIds, TurnsBack(r)
      PROVE  RunSaga!SagaNext \/ UNCHANGED RunSaga!svars
  <2>1. ~CloseAs(r, "failed") BY <1>0, <1>4 DEF TurnsBack, CloseAs, Execs
  <2>2. /\ exec[r].pc = "activity" /\ exec[r].stack # <<>>
        /\ exec' = [exec EXCEPT ![r].pc = "compensating"]
        BY <1>4, <2>1 DEF TurnsBack, ActivityFails, At
  <2>3. /\ exec'[r].pc = "compensating" /\ exec'[r].at = exec[r].at
        /\ exec'[r].compensated = exec[r].compensated
        /\ \A q \in RunIds \ {r} : exec'[q] = exec[q]
        BY <1>0, <2>2 DEF Execs
  <2>4. /\ RunPhase(r) = "forward" /\ RunPhase(r)' = "backward" /\ RunDone(r)' = RunDone(r)
        BY <2>2, <2>3 DEF RunPhase, RunDone
  <2>5. OnStack(exec[r]) # {}
    <3>1. exec[r].stack \in Seq(1 .. Steps) BY <1>0 DEF Execs
    <3>2. Len(exec[r].stack) \in Nat \ {0} BY <2>2, <3>1, EmptySeq
    <3>3. 1 \in 1 .. Len(exec[r].stack) BY <3>2
    <3> QED BY <3>3 DEF OnStack
  <2>6. RunSaga!Standing(r) # {} BY <2>5, StackStands
  <2> QED BY <2>3, <2>4, <2>6, RunShifts
<1>5. ASSUME NEW r \in RunIds, CancelHandle(r) \/ Progress(r)
      PROVE  RunSaga!SagaNext \/ UNCHANGED RunSaga!svars
      BY <1>3, <1>4, <1>5, ProgressCases, MoveIsSaga, AdvanceIsSaga, UndoIsSaga
<1>6. CASE UNCHANGED temporalVars
  <2>1. \A r \in RunIds : exec'[r] = exec[r] BY <1>6 DEF temporalVars
  <2> QED BY <2>1, SameRun, RunsRest
<1> QED BY <1>1, <1>2, <1>5, <1>6 DEF TemporalNext

\* Every run of planWorkflow is a saga, for every plan: its steps complete in order, a
\* failure undoes what can be undone, the latest first and each once, and a run that has
\* closed does nothing more, whatever signals, timers, cancellations and other runs do.
THEOREM RunsAreSagas == TemporalSpec => TemporalImplementsSaga
<1>1. TemporalInit => RunSaga!SagaInit
  <2> SUFFICES ASSUME TemporalInit PROVE RunSaga!SagaInit OBVIOUS
  <2>1. \A r \in RunIds : RunPhase(r) = "idle" /\ RunDone(r) = 0 /\ exec[r].compensated = {}
        BY DEF TemporalInit, NewExec, RunPhase, RunDone
  <2> QED BY <2>1 DEF RunSaga!SagaInit
<1> QED BY <1>1, StepIsSaga, TemporalAlways, PTL
    DEF TemporalSpec, TemporalImplementsSaga, RunSaga!SagaSpec
=============================================================================
