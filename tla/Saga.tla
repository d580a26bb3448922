-------------------------------- MODULE Saga --------------------------------
(***************************************************************************)
(* What the workflow service promises the outside world: the steps of a    *)
(* workflow complete one after the other in the execution order, a failure *)
(* turns it to undoing what can be undone, the last step first and each    *)
(* step once, and when it has ended nothing more is done in its name.      *)
(***************************************************************************)
EXTENDS Naturals

CONSTANTS
    Workflows,
    N,            \* number of steps
    Compensable   \* steps that can be undone

VARIABLES
    phase,        \* of each workflow: idle, forward, backward or ended
    done,         \* steps 1 .. done[w] have completed
    undone        \* steps whose compensation has been called

svars == <<phase, done, undone>>

\* Steps still to be undone.
Standing(w) == (Compensable \cap 1 .. done[w]) \ undone[w]

SagaInit ==
    /\ phase = [w \in Workflows |-> "idle"]
    /\ done = [w \in Workflows |-> 0]
    /\ undone = [w \in Workflows |-> {}]

Move(w, from, to) == phase[w] = from /\ phase' = [phase EXCEPT ![w] = to]

Launch(w) == Move(w, "idle", "forward") /\ UNCHANGED <<done, undone>>

\* Wait for the approval of a step.
Suspend(w) == Move(w, "forward", "idle") /\ UNCHANGED <<done, undone>>

Advance(w) ==
    /\ phase[w] = "forward" /\ done[w] < N
    /\ done' = [done EXCEPT ![w] = @ + 1]
    /\ UNCHANGED <<phase, undone>>

\* A step failed and there is something to undo.
TurnBack(w) ==
    Standing(w) # {} /\ Move(w, "forward", "backward") /\ UNCHANGED <<done, undone>>

UndoLatest(w) ==
    /\ phase[w] = "backward"
    /\ \E s \in Standing(w) :
          /\ \A t \in Standing(w) : t <= s
          /\ undone' = [undone EXCEPT ![w] = @ \cup {s}]
    /\ UNCHANGED <<phase, done>>

\* Completed, failed, cancelled or rejected; a crash stops several at once.
Stop(W) ==
    /\ phase' = [w \in Workflows |-> IF w \in W THEN "ended" ELSE phase[w]]
    /\ UNCHANGED <<done, undone>>

SagaNext ==
    \/ \E w \in Workflows :
          Launch(w) \/ Suspend(w) \/ Advance(w) \/ TurnBack(w) \/ UndoLatest(w)
    \/ \E W \in SUBSET Workflows : Stop(W)

SagaSpec == SagaInit /\ [][SagaNext]_svars
=============================================================================
