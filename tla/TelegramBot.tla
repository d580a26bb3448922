---------------------------- MODULE TelegramBot ----------------------------
(***************************************************************************)
(* The Telegram bot (channels/telegram.ts): a loop that asks Telegram for  *)
(* updates, handles them one after the other and sleeps a second.  An      *)
(* update is its number.  Telegram delivers it again until a request asks  *)
(* for a later one, and the offset that says so is in memory only, so a    *)
(* process that dies gets again what it was told last.  What the buttons   *)
(* under a risky plan lead to is the matter of ChannelApproval; here a     *)
(* message either makes a workflow run, or its handler only talks.         *)
(***************************************************************************)
EXTENDS Naturals, Sequences

CONSTANTS
    MaxUpdates,      \* bound: updates that users send
    PollLoops,       \* loops that start may set going in one process
    MaxBotCrashes    \* bound

ASSUME TelegramAssumption == MaxUpdates \in Nat /\ MaxBotCrashes \in Nat

Updates == 1 .. MaxUpdates

VARIABLES
    posted,      \* what users sent: for each update its kind and the message it is about
    confirmed,   \* updates up to this one are not delivered again
    offset, running,
    loops,       \* poll, once per loop: where it is and what is left of its batch
    timer,       \* the loop that pollInterval would wake up
    begun, handled,  \* history: updates that were handled, and to their end
    runs,        \* history: workflows started for a message, up to one too many
    botCrashes, several     \* history: two loops have run in one process

botVars == <<posted, confirmed, offset, running, loops, timer, begun, handled, runs,
             botCrashes, several>>

OneMore(n) == IF n <= 1 + MaxBotCrashes THEN n + 1 ELSE n

Idle == [at |-> "none", from |-> 0, batch |-> <<>>]

BotInit ==
    /\ posted = <<>> /\ confirmed = 0
    /\ offset = 0 /\ running = FALSE
    /\ loops = [l \in PollLoops |-> Idle] /\ timer = {}
    /\ begun = {} /\ handled = {} /\ runs = [u \in Updates |-> 0]
    /\ botCrashes = 0 /\ several = FALSE

\* A message whose plan needs no approval makes a workflow run; commands, messages of
\* strangers, plans to approve and buttons do not.
Kinds == {"runs", "talks"}

UserSends ==
    /\ Len(posted) < MaxUpdates
    /\ \E kind \in Kinds : posted' = Append(posted, kind)
    /\ UNCHANGED <<confirmed, offset, running, loops, timer, begun, handled, runs, botCrashes,
                   several>>

-----------------------------------------------------------------------------
(* start, stop, poll                                                       *)

\* start waits for getMe before it sets `running'.
Start(l) ==
    /\ ~running /\ loops[l] = Idle
    /\ loops' = [loops EXCEPT ![l].at = "starting"]
    /\ UNCHANGED <<posted, confirmed, offset, running, timer, begun, handled, runs,
                   botCrashes, several>>

Poll(l) == loops' = [loops EXCEPT ![l] = [at |-> "asking", from |-> offset, batch |-> <<>>]]

Polling(l) == loops[l].at \notin {"none", "starting"}

GetMe(l) ==
    /\ loops[l].at = "starting"
    /\ \/ /\ running' = TRUE /\ Poll(l)
          /\ several' = (several \/ \E k \in PollLoops : Polling(k))
       \/ loops' = [loops EXCEPT ![l] = Idle] /\ UNCHANGED <<running, several>>
    /\ UNCHANGED <<posted, confirmed, offset, timer, begun, handled, runs, botCrashes>>

\* Only the timer that was set last is known, and cleared.
StopBot ==
    /\ running
    /\ running' = FALSE
    /\ loops' = [l \in PollLoops |->
                   IF l \in timer /\ loops[l].at = "sleeping" THEN Idle ELSE loops[l]]
    /\ timer' = {}
    /\ UNCHANGED <<posted, confirmed, offset, begun, handled, runs, botCrashes, several>>

Sleep(l) ==
    /\ loops' = [loops EXCEPT ![l] = [Idle EXCEPT !.at = "sleeping"]]
    /\ timer' = {l}

TimerFires(l) ==
    /\ loops[l].at = "sleeping"
    /\ IF running THEN Poll(l) ELSE loops' = [loops EXCEPT ![l] = Idle]
    /\ UNCHANGED <<posted, confirmed, offset, running, timer, begun, handled, runs,
                   botCrashes, several>>

\* getUpdates: the request arrives, Telegram forgets what is before its offset and
\* answers with the rest; or it, or its answer, is lost.
Forgets(from) == IF from > confirmed + 1 THEN from - 1 ELSE confirmed

GetUpdates(l) ==
    /\ loops[l].at = "asking"
    /\ LET known == Forgets(loops[l].from) IN
       \/ /\ confirmed' = known
          /\ loops' = [loops EXCEPT ![l] = [Idle EXCEPT !.at = "next",
                          !.batch = [k \in 1 .. Len(posted) - known |-> known + k]]]
          /\ UNCHANGED timer
       \/ Sleep(l) /\ confirmed' \in {confirmed, known}
    /\ UNCHANGED <<posted, offset, running, begun, handled, runs, botCrashes, several>>

-----------------------------------------------------------------------------
(* handleUpdate                                                            *)

NextOffset(u) == u + 1

Begin(l) ==
    LET u == Head(loops[l].batch) IN
    /\ loops[l].at = "next" /\ loops[l].batch # <<>>
    /\ offset' = NextOffset(u)
    /\ begun' = begun \cup {u}
    /\ loops' = [loops EXCEPT ![l].at = posted[u]]
    /\ UNCHANGED <<posted, confirmed, running, timer, handled, runs, botCrashes, several>>

\* The handler comes back: from the plan of a message to run, which it starts and
\* waits for; or to its end, also when something on the way throws.
HandlerReturns(l) ==
    LET u == Head(loops[l].batch) IN
    /\ loops[l].at \in {"runs", "talks", "run"}
    /\ \/ /\ loops[l].at = "runs"
          /\ runs' = [runs EXCEPT ![u] = OneMore(@)]
          /\ loops' = [loops EXCEPT ![l].at = "run"]
          /\ UNCHANGED handled
       \/ /\ handled' = handled \cup {u}
          /\ loops' = [loops EXCEPT ![l].at = "next", ![l].batch = Tail(@)]
          /\ UNCHANGED runs
    /\ UNCHANGED <<posted, confirmed, offset, running, timer, begun, botCrashes, several>>

EndOfBatch(l) ==
    /\ loops[l].at = "next" /\ loops[l].batch = <<>>
    /\ Sleep(l)
    /\ UNCHANGED <<posted, confirmed, offset, running, begun, handled, runs, botCrashes,
                   several>>

BotCrash ==
    /\ botCrashes < MaxBotCrashes
    /\ botCrashes' = botCrashes + 1
    /\ offset' = 0 /\ running' = FALSE
    /\ loops' = [l \in PollLoops |-> Idle] /\ timer' = {}
    /\ UNCHANGED <<posted, confirmed, begun, handled, runs, several>>

BotNext ==
    \/ UserSends \/ StopBot \/ BotCrash
    \/ \E l \in PollLoops :
          \/ Start(l) \/ GetMe(l) \/ TimerFires(l) \/ GetUpdates(l)
          \/ Begin(l) \/ HandlerReturns(l) \/ EndOfBatch(l)

BotSpec == BotInit /\ [][BotNext]_botVars

-----------------------------------------------------------------------------
\* Type invariant.
BotTypeOK ==
    /\ posted \in Seq(Kinds)
    /\ confirmed \in 0 .. MaxUpdates /\ offset \in 0 .. MaxUpdates + 1
    /\ \A l \in PollLoops : loops[l].batch \in Seq(Updates) /\ loops[l].from \in 0 .. MaxUpdates + 1
    /\ timer \subseteq PollLoops /\ begun \cup handled \subseteq Updates
    /\ runs \in [Updates -> Nat] /\ {running, several} \subseteq BOOLEAN

\* No update is skipped: what Telegram does not deliver again was handled.  As long
\* as there is one loop in a process, it was handled to its end, and a message makes
\* a workflow run once, and once more for each crash, after which what was not
\* confirmed comes again.
UpdatesAreHandled ==
    /\ 1 .. confirmed \subseteq begun
    /\ ~several =>
          /\ 1 .. confirmed \subseteq handled
          /\ \A u \in Updates : runs[u] <= 1 + botCrashes
=============================================================================
