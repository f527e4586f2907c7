--------------------------- MODULE MasterRecorder ---------------------------
(***************************************************************************)
(* The signal provider ("master") desktop node: the recorder thread that   *)
(* polls the terminal's positions and announces what appears and what      *)
(* disappears, with the button that starts and stops it.                   *)
(*                                                                         *)
(* Each start makes a new MasterRecorder object and a new thread; neither  *)
(* is waited for when the user stops.  An action is the code between two   *)
(* calls (a request to the terminal, an emit), where another thread or the *)
(* user's click may come in between.                                       *)
(*                                                                         *)
(* Data kept abstract: symbol, volume, price and pnl of a signal, the      *)
(* signals_sent counter and the recent_signals list (display only).        *)
(***************************************************************************)
EXTENDS Naturals

CONSTANTS
    Tickets,   \* the tickets of the terminal
    Copied,    \* those opened by a copier on this account (magic 234000)
    Runs,      \* bound: the clicks on START; a recorder and its thread each
    Env,       \* what the user, the terminal and the network may do
    None

EnvKinds == {"stop",        \* the user stops broadcasting
             "late",        \* ... or clicks before a started thread has begun
             "blank",       \* positions_get() fails: None, read as no position
             "disconnect"}  \* the socket is down: emit raises

ASSUME CopiedAssumption == Copied \subseteq Tickets
ASSUME EnvAssumption == Env \subseteq EnvKinds
ASSUME NoneAssumption == None \notin Runs \cup Tickets

VARIABLES
    \* MasterController
    is_running,        \* state.is_running: what the button shows
    recorder,          \* self.recorder: the latest recorder, or None
    \* MasterRecorder, per start
    running,           \* its is_running
    tracked_tickets,
    thread,
    \* external: the terminal and the socket
    position,          \* "unopened", "open" or "closed"
    connected,
    \* history: the signals sent per ticket, 2 standing for more than one
    opens, closes

controllerVars == <<is_running, recorder>>
feedVars == <<opens, closes>>
worldVars == <<position, connected>>
vars == <<controllerVars, running, tracked_tickets, thread, worldVars, feedVars>>

Thread == [pc : {"none", "begin", "check", "fetch", "diff", "send", "forget", "dead"},
           rec : Runs \cup {None},          \* the recorder it runs
           current : SUBSET Tickets,        \* its last snapshot
           new : SUBSET Tickets,            \* left to announce in this scan
           gone : SUBSET Tickets,
           ticket : Tickets \cup {None}]    \* announced CLOSE, entry not deleted yet

NoThread == [pc |-> "none", rec |-> None, current |-> {}, new |-> {}, gone |-> {},
             ticket |-> None]

TypeOK ==
    /\ is_running \in BOOLEAN /\ recorder \in Runs \cup {None}
    /\ running \in [Runs -> BOOLEAN]
    /\ tracked_tickets \in [Runs -> SUBSET Tickets]
    /\ thread \in [Runs -> Thread]
    /\ position \in [Tickets -> {"unopened", "open", "closed"}] /\ connected \in BOOLEAN
    /\ opens \in [Tickets -> 0..2] /\ closes \in [Tickets -> 0..2]

\* The dashboard opens after the socket's connection; positions may be open.
Init ==
    /\ is_running = FALSE /\ recorder = None
    /\ running = [r \in Runs |-> FALSE]
    /\ tracked_tickets = [r \in Runs |-> {}]
    /\ thread = [r \in Runs |-> NoThread]
    /\ position \in [Tickets -> {"unopened", "open"}] /\ connected = TRUE
    /\ opens = [t \in Tickets |-> 0] /\ closes = [t \in Tickets |-> 0]

At(r, step) == thread[r].pc = step
Goto(r, step) == thread' = [thread EXCEPT ![r].pc = step]
Alive(r) == thread[r].pc \notin {"none", "dead"}
Tracked(r) == tracked_tickets[thread[r].rec]

----------------------------------------------------------------------------
(* The terminal and the socket *)

OpenPosition(t) ==
    /\ position[t] = "unopened"
    /\ position' = [position EXCEPT ![t] = "open"]
    /\ UNCHANGED <<controllerVars, running, tracked_tickets, thread, connected, feedVars>>

ClosePosition(t) ==
    /\ position[t] = "open"
    /\ position' = [position EXCEPT ![t] = "closed"]
    /\ UNCHANGED <<controllerVars, running, tracked_tickets, thread, connected, feedVars>>

Reconnect ==
    /\ "disconnect" \in Env
    /\ connected' = ~connected
    /\ UNCHANGED <<controllerVars, running, tracked_tickets, thread, position, feedVars>>

\* The results get_active_positions may have: a failure reads as no position.
Snapshots ==
    {{t \in Tickets : position[t] = "open"}} \cup (IF "blank" \in Env THEN {{}} ELSE {})

----------------------------------------------------------------------------
(* MasterController.toggle_broadcasting *)

ClicksInTime == "late" \in Env \/ \A r \in Runs : ~At(r, "begin")

StartBroadcasting(r) ==
    /\ ~is_running /\ ClicksInTime
    /\ At(r, "none")
    /\ is_running' = TRUE
    /\ recorder' = r
    /\ running' = [running EXCEPT ![r] = TRUE]
    /\ Goto(r, "begin")
    /\ UNCHANGED <<tracked_tickets, worldVars, feedVars>>

\* Mutant: the button changes what is shown, not the recorder.
StopBroadcastingOnlyShows ==
    /\ "stop" \in Env /\ is_running /\ ClicksInTime
    /\ is_running' = FALSE
    /\ UNCHANGED <<recorder, running, tracked_tickets, thread, worldVars, feedVars>>

StopBroadcasting ==
    /\ "stop" \in Env /\ is_running /\ ClicksInTime
    /\ is_running' = FALSE
    /\ running' = [running EXCEPT ![recorder] = FALSE]
    /\ UNCHANGED <<recorder, tracked_tickets, thread, worldVars, feedVars>>

----------------------------------------------------------------------------
(* The recorder thread: _run_recorder, start_monitoring *)

\* An exception ends the thread; _run_recorder then shows broadcasting as stopped.
Raise(r) ==
    /\ Goto(r, "dead")
    /\ is_running' = FALSE
    /\ UNCHANGED recorder

\* Mutant: the magic number is not looked at in the first snapshot.
BeginTracksCopied(r) ==
    /\ At(r, "begin")
    /\ \E current \in Snapshots :
          tracked_tickets' = [tracked_tickets EXCEPT ![recorder] = @ \cup current]
    /\ thread' = [thread EXCEPT ![r].rec = recorder, ![r].pc = "check"]
    /\ UNCHANGED <<controllerVars, running, worldVars, feedVars>>

\* The thread looks self.recorder up when it starts, then takes the positions
\* held so far as tracked, without announcing them.
Begin(r) ==
    /\ At(r, "begin")
    /\ \E current \in Snapshots :
          tracked_tickets' = [tracked_tickets EXCEPT ![recorder] = @ \cup (current \ Copied)]
    /\ thread' = [thread EXCEPT ![r].rec = recorder, ![r].pc = "check"]
    /\ UNCHANGED <<controllerVars, running, worldVars, feedVars>>

CheckLoop(r) ==
    /\ At(r, "check")
    /\ Goto(r, IF running[thread[r].rec] THEN "fetch" ELSE "dead")
    /\ UNCHANGED <<controllerVars, running, tracked_tickets, worldVars, feedVars>>

FetchPositions(r) ==
    /\ At(r, "fetch")
    /\ \E current \in Snapshots :
          thread' = [thread EXCEPT ![r].current = current, ![r].pc = "diff"]
    /\ UNCHANGED <<controllerVars, running, tracked_tickets, worldVars, feedVars>>

\* Mutant: all that is tracked is taken for gone when something new appears.
DiffGoneUnlessNew(r) ==
    /\ At(r, "diff")
    /\ thread' = [thread EXCEPT ![r].new = (thread[r].current \ Tracked(r)) \ Copied,
                                ![r].gone = Tracked(r) \ (thread[r].current \ Tracked(r)),
                                ![r].pc = "send"]
    /\ UNCHANGED <<controllerVars, running, tracked_tickets, worldVars, feedVars>>

Diff(r) ==
    /\ At(r, "diff")
    /\ thread' = [thread EXCEPT ![r].new = (thread[r].current \ Tracked(r)) \ Copied,
                                ![r].gone = Tracked(r) \ thread[r].current,
                                ![r].pc = "send"]
    /\ UNCHANGED <<controllerVars, running, tracked_tickets, worldVars, feedVars>>

Once(n) == IF n = 0 THEN 1 ELSE 2

\* Mutant: the emit's failure is swallowed; the ticket stays tracked.
SendOpenSwallows(r, t) ==
    /\ At(r, "send") /\ t \in thread[r].new
    /\ tracked_tickets' = [tracked_tickets EXCEPT ![thread[r].rec] = @ \cup {t}]
    /\ opens' = IF connected THEN [opens EXCEPT ![t] = Once(@)] ELSE opens
    /\ thread' = [thread EXCEPT ![r].new = @ \ {t}]
    /\ UNCHANGED <<controllerVars, running, worldVars, closes>>

\* Mutant: an announced position is not tracked.
SendOpenUntracked(r, t) ==
    /\ At(r, "send") /\ t \in thread[r].new
    /\ \/ /\ connected
          /\ opens' = [opens EXCEPT ![t] = Once(@)]
          /\ thread' = [thread EXCEPT ![r].new = @ \ {t}]
          /\ UNCHANGED controllerVars
       \/ ~connected /\ Raise(r) /\ UNCHANGED opens
    /\ UNCHANGED <<running, tracked_tickets, worldVars, closes>>

\* tracked_tickets is written before the emit, which raises while disconnected.
SendOpen(r, t) ==
    /\ At(r, "send") /\ t \in thread[r].new
    /\ tracked_tickets' = [tracked_tickets EXCEPT ![thread[r].rec] = @ \cup {t}]
    /\ \/ /\ connected
          /\ opens' = [opens EXCEPT ![t] = Once(@)]
          /\ thread' = [thread EXCEPT ![r].new = @ \ {t}]
          /\ UNCHANGED controllerVars
       \/ ~connected /\ Raise(r) /\ UNCHANGED opens
    /\ UNCHANGED <<running, worldVars, closes>>

\* Mutant: the emit's failure is swallowed; the entry is deleted all the same.
SendCloseSwallows(r, t) ==
    /\ At(r, "send") /\ thread[r].new = {} /\ t \in thread[r].gone
    /\ \/ /\ t \in Tracked(r)
          /\ closes' = IF connected THEN [closes EXCEPT ![t] = Once(@)] ELSE closes
          /\ thread' = [thread EXCEPT ![r].gone = @ \ {t}, ![r].ticket = t, ![r].pc = "forget"]
          /\ UNCHANGED controllerVars
       \/ t \notin Tracked(r) /\ Raise(r) /\ UNCHANGED closes
    /\ UNCHANGED <<running, tracked_tickets, worldVars, opens>>

\* A CLOSE needs the tracked symbol (KeyError) and the socket.
SendClose(r, t) ==
    /\ At(r, "send") /\ thread[r].new = {} /\ t \in thread[r].gone
    /\ \/ /\ t \in Tracked(r) /\ connected
          /\ closes' = [closes EXCEPT ![t] = Once(@)]
          /\ thread' = [thread EXCEPT ![r].gone = @ \ {t}, ![r].ticket = t, ![r].pc = "forget"]
          /\ UNCHANGED controllerVars
       \/ ~(t \in Tracked(r) /\ connected) /\ Raise(r) /\ UNCHANGED closes
    /\ UNCHANGED <<running, tracked_tickets, worldVars, opens>>

\* del tracked_tickets[t]: a KeyError when another thread was faster.
Forget(r) ==
    /\ At(r, "forget")
    /\ tracked_tickets' = [tracked_tickets EXCEPT ![thread[r].rec] = @ \ {thread[r].ticket}]
    /\ \/ /\ thread[r].ticket \in Tracked(r)
          /\ thread' = [thread EXCEPT ![r].ticket = None, ![r].pc = "send"]
          /\ UNCHANGED controllerVars
       \/ thread[r].ticket \notin Tracked(r) /\ Raise(r)
    /\ UNCHANGED <<running, worldVars, feedVars>>

EndScan(r) ==
    /\ At(r, "send") /\ thread[r].new = {} /\ thread[r].gone = {}
    /\ Goto(r, "check")
    /\ UNCHANGED <<controllerVars, running, tracked_tickets, worldVars, feedVars>>

RecorderStep(r) ==
    \/ Begin(r) \/ CheckLoop(r) \/ FetchPositions(r) \/ Diff(r)
    \/ \E t \in Tickets : SendOpen(r, t) \/ SendClose(r, t)
    \/ Forget(r) \/ EndScan(r)

Next ==
    \/ \E t \in Tickets : OpenPosition(t) \/ ClosePosition(t)
    \/ Reconnect
    \/ \E r \in Runs : StartBroadcasting(r) \/ RecorderStep(r)
    \/ StopBroadcasting

Spec == Init /\ [][Next]_vars

\* A started thread keeps running; the user, the terminal and the network are free.
FairSpec == Spec /\ \A r \in Runs : WF_vars(RecorderStep(r))

----------------------------------------------------------------------------
(* Properties *)

\* No echo: a position opened by a copier on the same account is never announced,
\* neither when it appears nor, taken for one held before, when it goes.
NoEcho == \A t \in Copied : opens[t] = 0 /\ closes[t] = 0

\* A CLOSE is only sent for a position that is closed.  (Without "blank" answers
\* and "late" threads.)
CloseTruthful == \A t \in Tickets : closes[t] > 0 => position[t] = "closed"

\* The button tells the truth: when it shows broadcasting as stopped, every
\* recorder thread still alive finds its is_running cleared at its next check.
\* (When the user only stops, or the socket only fails, but not both.)
StoppedIsQuiet ==
    ~is_running => \A r \in Runs :
        Alive(r) => ~running[IF At(r, "begin") THEN recorder ELSE thread[r].rec]

Feed == INSTANCE SignalFeed WITH Tickets <- Tickets, opens <- opens, closes <- closes

\* What nodes behind the master rely on: each ticket is announced OPEN at most
\* once, then CLOSE at most once.  (For one recorder thread at a time: without
\* "stop", "late" and "blank".)
FeedSpec == Feed!Spec

\* A position that appears while a recorder is at work is announced.
OpenAnnounced ==
    \A t \in Tickets \ Copied :
        (/\ position[t] = "open" /\ opens[t] = 0
         /\ \E r \in Runs : /\ Alive(r) /\ ~At(r, "begin") /\ running[thread[r].rec]
                            /\ t \notin Tracked(r))
        ~> (opens[t] > 0 \/ position[t] = "closed" \/ ~is_running)

\* A tracked position that goes is announced closed, unless the thread that
\* tracked it ends.
CloseAnnounced ==
    \A r \in Runs, t \in Tickets :
        (/\ Alive(r) /\ ~At(r, "begin") /\ t \in Tracked(r)
         /\ position[t] = "closed" /\ closes[t] = 0)
        ~> (closes[t] > 0 \/ ~Alive(r))

============================================================================
