---------------------------- MODULE SlaveCopier ----------------------------
(***************************************************************************)
(* The copier ("slave") desktop node: SlaveController.on_trade_signal with *)
(* the SlaveState it reads and writes.                                     *)
(*                                                                         *)
(* Every trade_execution message runs on_trade_signal in a thread of its   *)
(* own (python-socketio's sync client starts one background thread per     *)
(* message), so several runs of the handler interleave with each other and *)
(* with the user's clicks.  The threads share one interpreter lock, which  *)
(* changes hands at calls: an action below is the code between two calls   *)
(* whose order against another thread can be told apart, that is one guard,*)
(* one broker request, or one update of shared state.                      *)
(*                                                                         *)
(* Data kept abstract: volumes, prices and actions (local to one run of    *)
(* the handler), log lines, session_start_time, closed_trades (displayed,  *)
(* never read back).  The two guards that compare quotes or equity with a  *)
(* threshold either block or do not.                                       *)
(***************************************************************************)
EXTENDS Integers, FiniteSets

CONSTANTS
    Tickets,       \* the master's tickets: the keys of ticket_map
    SlaveTickets,  \* the tickets the copier's broker can issue
    Handlers,      \* bound: the runs of on_trade_signal in progress at once
    Symbols,       \* symbol names, the master's and the copier's
    SymbolOf,      \* the master symbol of each ticket
    MapEntries,    \* the <<master symbol, slave symbol>> rows the user may add
    Whitelists,    \* the values the user gives symbol_whitelist
    Caps,          \* the values the user gives max_concurrent_trades
    TopCap,        \* a bound on Caps
    LossLimits,    \* the values the user gives daily_loss_limit
    Pnls,          \* the pnl a CLOSE signal carries
    MaxOpens,      \* bound: OPEN signals the master sends per ticket
    Env,           \* what the user, the broker and the network may do
    None

Events == {"OPEN", "CLOSE"}
EnvKinds == {"stop", "settings", "mapping", "reset", "restart",    \* the user
             "quotes", "reject", "unreported", "stopout",         \* the broker
             "loss"}                                              \* the network

ASSUME TicketsAssumption == IsFiniteSet(Tickets) /\ SymbolOf \in [Tickets -> Symbols]
ASSUME HandlersAssumption == IsFiniteSet(Handlers) /\ Handlers # {}
ASSUME SettingsAssumption ==
    /\ TopCap \in Nat /\ Caps \subseteq 0..TopCap
    /\ LossLimits \subseteq Nat
    /\ MapEntries \subseteq Symbols \X Symbols
    /\ Whitelists \subseteq SUBSET Symbols
ASSUME SignalsAssumption == Pnls \subseteq Int /\ MaxOpens \in Nat
ASSUME EnvAssumption == Env \subseteq EnvKinds
ASSUME NoneAssumption == None \notin SlaveTickets \cup Symbols \cup Tickets \cup Events

VARIABLES
    \* SlaveController and SlaveState
    is_running,
    ticket_map,                \* dict master ticket -> slave ticket; None: no key
    max_concurrent_trades,
    daily_loss_limit,
    copying_paused_by_loss,
    daily_pnl,
    symbol_map,                \* dict master symbol -> slave symbol; None: no key
    unmapped_symbol_behavior,
    symbol_whitelist,
    session_pnl,
    open_trades,               \* rows shown by the trades view
    \* one run of on_trade_signal per member of Handlers
    thread,
    \* the broker (external)
    position,                  \* slave ticket -> symbol of the live position, or None
    issued,                    \* slave tickets used so far
    \* what the node sends and is sent (history)
    acks,                      \* trade_execution_ack messages that left the node
    opens, closes              \* signals the master has sent, per ticket

settings == <<max_concurrent_trades, daily_loss_limit, symbol_map,
              unmapped_symbol_behavior, symbol_whitelist>>
pnlVars == <<daily_pnl, copying_paused_by_loss>>
sessionVars == <<is_running, session_pnl, open_trades>>
brokerVars == <<position, issued>>
masterVars == <<opens, closes>>
vars == <<settings, pnlVars, sessionVars, brokerVars, masterVars,
          ticket_map, thread, acks>>

Statuses == {"EXECUTED", "FAILED", "BLOCKED_SLIPPAGE"}
OpenSteps == {"running", "paused", "cap", "symbol", "price", "send", "record", "session"}
CloseSteps == {"running", "symbol", "lookup", "close", "unmap", "pnl", "add", "archive", "limit"}

Thread == [pc : {"idle"} \cup OpenSteps \cup CloseSteps,
           event : Events \cup {None}, ticket : Tickets \cup {None}, pnl : Int,
           symbol : Symbols \cup {None},
           slave : SlaveTickets \cup {None},   \* res.order, or s_ticket
           seen : Int]                         \* daily_pnl as the handler read it

Idle == [pc |-> "idle", event |-> None, ticket |-> None, pnl |-> 0,
         symbol |-> None, slave |-> None, seen |-> 0]

TypeOK ==
    /\ is_running \in BOOLEAN
    /\ ticket_map \in [Tickets -> SlaveTickets \cup {None}]
    /\ max_concurrent_trades \in Caps /\ daily_loss_limit \in LossLimits
    /\ copying_paused_by_loss \in BOOLEAN /\ daily_pnl \in Int
    /\ symbol_map \in [Symbols -> Symbols \cup {None}]
    /\ unmapped_symbol_behavior \in {"IGNORE", "COPY_AS_IS"}
    /\ symbol_whitelist \in Whitelists
    /\ session_pnl \in Int
    /\ open_trades \subseteq [ticket : Tickets, slave : SlaveTickets]
    /\ thread \in [Handlers -> Thread]
    /\ position \in [SlaveTickets -> Symbols \cup {None}]
    /\ issued \subseteq SlaveTickets
    /\ acks \subseteq [ticket : Tickets, status : Statuses]
    /\ opens \in [Tickets -> Nat] /\ closes \in [Tickets -> Nat]

\* A node whose SlaveState is new, its risk settings entered by the user.
Started(running) ==
    /\ is_running = running
    /\ ticket_map = [m \in Tickets |-> None]
    /\ max_concurrent_trades \in Caps /\ daily_loss_limit \in LossLimits
    /\ copying_paused_by_loss = FALSE /\ daily_pnl = 0
    /\ symbol_map = [x \in Symbols |-> None]
    /\ unmapped_symbol_behavior = "IGNORE"
    /\ symbol_whitelist \in Whitelists
    /\ session_pnl = 0 /\ open_trades = {}
    /\ thread = [h \in Handlers |-> Idle]
    /\ position = [s \in SlaveTickets |-> None] /\ issued = {}
    /\ acks = {}
    /\ opens = [m \in Tickets |-> 0] /\ closes = [m \in Tickets |-> 0]

\* on_trade_signal is registered when the node connects, before the user clicks START.
Init == Started(FALSE)

Mapped == {m \in Tickets : ticket_map[m] # None}
Live == {s \in SlaveTickets : position[s] # None}

At(h, step) == thread[h].pc = step
Goto(h, step) == thread' = [thread EXCEPT ![h].pc = step]
Return(h) == thread' = [thread EXCEPT ![h] = Idle]

\* emit raises while the socket is disconnected, and the exception is swallowed.
Ack(h, status) ==
    \/ acks' = acks \cup {[ticket |-> thread[h].ticket, status |-> status]}
    \/ "loss" \in Env /\ UNCHANGED acks

----------------------------------------------------------------------------
(* Signals.  The master alternates OPEN and CLOSE for a ticket (the recorder *)
(* diffs position snapshots); a signal reaches the node or is lost.          *)

Emit(m, e) ==
    \/ /\ e = "OPEN" /\ closes[m] = opens[m] /\ opens[m] < MaxOpens
       /\ opens' = [opens EXCEPT ![m] = @ + 1] /\ UNCHANGED closes
    \/ /\ e = "CLOSE" /\ closes[m] < opens[m]
       /\ closes' = [closes EXCEPT ![m] = @ + 1] /\ UNCHANGED opens

Receive(h, m, e, v) ==
    /\ At(h, "idle")
    /\ Emit(m, e)
    /\ thread' = [thread EXCEPT ![h] =
            [pc |-> "running", event |-> e, ticket |-> m,
             pnl |-> IF e = "CLOSE" THEN v ELSE 0,
             symbol |-> None, slave |-> None, seen |-> 0]]
    /\ UNCHANGED <<settings, pnlVars, sessionVars, brokerVars, ticket_map, acks>>

Lose(m, e) ==
    /\ "loss" \in Env
    /\ Emit(m, e)
    /\ UNCHANGED <<settings, pnlVars, sessionVars, brokerVars, ticket_map, thread, acks>>

----------------------------------------------------------------------------
(* on_trade_signal, guards *)

\* Mutant: the OPEN guards applied to CLOSE signals too.
CheckRunningGuardsClose(h) ==
    /\ At(h, "running")
    /\ IF ~is_running THEN Return(h) ELSE Goto(h, "paused")
    /\ UNCHANGED <<settings, pnlVars, sessionVars, brokerVars, masterVars, ticket_map, acks>>

CheckRunning(h) ==
    /\ At(h, "running")
    /\ IF ~is_running THEN Return(h)
       ELSE Goto(h, IF thread[h].event = "OPEN" THEN "paused" ELSE "symbol")
    /\ UNCHANGED <<settings, pnlVars, sessionVars, brokerVars, masterVars, ticket_map, acks>>

\* Guard -1 (equity below equity_floor) and Guard 0 (daily loss limit).
GuardPaused(h) ==
    /\ At(h, "paused")
    /\ \/ "quotes" \in Env /\ Return(h)
       \/ copying_paused_by_loss /\ Return(h)
       \/ ~copying_paused_by_loss /\ Goto(h, "cap")
    /\ UNCHANGED <<settings, pnlVars, sessionVars, brokerVars, masterVars, ticket_map, acks>>

\* Mutant: the cap compared with > instead of >=.
CapReachedLate == max_concurrent_trades > 0 /\ Cardinality(Mapped) > max_concurrent_trades

\* Guard 1: max concurrent trades, 0 switches it off.
CapReached == max_concurrent_trades > 0 /\ Cardinality(Mapped) >= max_concurrent_trades

GuardConcurrent(h) ==
    /\ At(h, "cap")
    /\ IF CapReached THEN Return(h) ELSE Goto(h, "symbol")
    /\ UNCHANGED <<settings, pnlVars, sessionVars, brokerVars, masterVars, ticket_map, acks>>

\* The symbol the copier trades for master symbol x; None: skip the signal.
SlaveSymbol(x) ==
    IF \A y \in Symbols : symbol_map[y] = None THEN x
    ELSE IF symbol_map[x] # None THEN symbol_map[x]
    ELSE IF unmapped_symbol_behavior = "COPY_AS_IS" THEN x ELSE None

\* Symbol mapping, for OPEN and CLOSE alike, then Guard 2 (whitelist) for OPEN.
MapSymbol(h) ==
    LET y == SlaveSymbol(SymbolOf[thread[h].ticket])
        opening == thread[h].event = "OPEN"
        skip == y = None \/ (opening /\ symbol_whitelist # {} /\ y \notin symbol_whitelist)
    IN /\ At(h, "symbol")
       /\ IF skip THEN Return(h)
          ELSE thread' = [thread EXCEPT ![h].symbol = y,
                                        ![h].pc = IF opening THEN "price" ELSE "lookup"]
       /\ UNCHANGED <<settings, pnlVars, sessionVars, brokerVars, masterVars, ticket_map, acks>>

\* Mutant: the return after the BLOCKED_SLIPPAGE acknowledgement is missing.
GuardSlippageGoesOn(h) ==
    /\ At(h, "price")
    /\ Goto(h, "send")
    /\ ("quotes" \in Env /\ Ack(h, "BLOCKED_SLIPPAGE")) \/ UNCHANGED acks
    /\ UNCHANGED <<settings, pnlVars, sessionVars, brokerVars, masterVars, ticket_map>>

\* Guard 4: the copier's quote has drifted too far from the master's price.
GuardSlippage(h) ==
    /\ At(h, "price")
    /\ \/ "quotes" \in Env /\ Ack(h, "BLOCKED_SLIPPAGE") /\ Return(h)
       \/ Goto(h, "send") /\ UNCHANGED acks
    /\ UNCHANGED <<settings, pnlVars, sessionVars, brokerVars, masterVars, ticket_map>>

----------------------------------------------------------------------------
(* on_trade_signal, OPEN *)

\* The broker (external) opens position s; "unreported": it does so, but the
\* result is missing or not 10009 (a partial fill returns another code).
BrokerOpens(h, s) ==
    /\ s \notin issued
    /\ issued' = issued \cup {s}
    /\ position' = [position EXCEPT ![s] = thread[h].symbol]

ExecuteTrade(h) ==
    /\ At(h, "send")
    /\ \E s \in SlaveTickets : BrokerOpens(h, s)
          /\ thread' = [thread EXCEPT ![h].slave = s, ![h].pc = "record"]
    /\ UNCHANGED <<settings, pnlVars, sessionVars, masterVars, ticket_map, acks>>

ExecuteTradeFails(h) ==
    /\ At(h, "send")
    /\ \/ "reject" \in Env /\ UNCHANGED brokerVars
       \/ "unreported" \in Env /\ \E s \in SlaveTickets : BrokerOpens(h, s)
    /\ Ack(h, "FAILED")
    /\ Return(h)
    /\ UNCHANGED <<settings, pnlVars, sessionVars, masterVars, ticket_map>>

RecordTicket(h) ==
    /\ At(h, "record")
    /\ ticket_map' = [ticket_map EXCEPT ![thread[h].ticket] = thread[h].slave]
    /\ Goto(h, "session")
    /\ UNCHANGED <<settings, pnlVars, sessionVars, brokerVars, masterVars, acks>>

AddOpenTrade(h) ==
    /\ At(h, "session")
    /\ open_trades' = open_trades \cup
            {[ticket |-> thread[h].ticket, slave |-> thread[h].slave]}
    /\ Ack(h, "EXECUTED")
    /\ Return(h)
    /\ UNCHANGED <<settings, pnlVars, is_running, session_pnl, brokerVars, masterVars, ticket_map>>

----------------------------------------------------------------------------
(* on_trade_signal, CLOSE *)

\* Mutant: ticket_map.pop at the lookup, before the broker has closed anything.
LookupTicketPops(h) ==
    LET m == thread[h].ticket
    IN /\ At(h, "lookup")
       /\ IF ticket_map[m] = None THEN Return(h)
          ELSE thread' = [thread EXCEPT ![h].slave = ticket_map[m], ![h].pc = "close"]
       /\ ticket_map' = [ticket_map EXCEPT ![m] = None]
       /\ UNCHANGED <<settings, pnlVars, sessionVars, brokerVars, masterVars, acks>>

LookupTicket(h) ==
    LET s == ticket_map[thread[h].ticket]
    IN /\ At(h, "lookup")
       /\ IF s = None THEN Return(h)
          ELSE thread' = [thread EXCEPT ![h].slave = s, ![h].pc = "close"]
       /\ UNCHANGED <<settings, pnlVars, sessionVars, brokerVars, masterVars, ticket_map, acks>>

\* The broker closes a position only when asked under the position's symbol.
Closable(h) == position[thread[h].slave] = thread[h].symbol

\* Mutant: the deletion of the ticket_map entry is missing.
CloseTradeKeepsEntry(h) ==
    /\ At(h, "close") /\ Closable(h)
    /\ position' = [position EXCEPT ![thread[h].slave] = None]
    /\ Goto(h, "pnl")
    /\ UNCHANGED <<settings, pnlVars, sessionVars, issued, masterVars, ticket_map, acks>>

CloseTrade(h) ==
    /\ At(h, "close") /\ Closable(h)
    /\ position' = [position EXCEPT ![thread[h].slave] = None]
    /\ Goto(h, "unmap")
    /\ UNCHANGED <<settings, pnlVars, sessionVars, issued, masterVars, ticket_map, acks>>

\* No such position, the wrong symbol, a refusal, or a success not reported.
CloseTradeFails(h) ==
    /\ At(h, "close")
    /\ \/ (~Closable(h) \/ "reject" \in Env) /\ UNCHANGED position
       \/ /\ "unreported" \in Env /\ Closable(h)
          /\ position' = [position EXCEPT ![thread[h].slave] = None]
    /\ Return(h)
    /\ UNCHANGED <<settings, pnlVars, sessionVars, issued, masterVars, ticket_map, acks>>

\* Mutant: nothing is booked or archived after the deletion.
UnmapReturns(h) ==
    /\ At(h, "unmap")
    /\ ticket_map' = [ticket_map EXCEPT ![thread[h].ticket] = None]
    /\ Return(h)
    /\ UNCHANGED <<settings, pnlVars, sessionVars, brokerVars, masterVars, acks>>

\* del ticket_map[m_ticket] raises, and ends the thread, when the key is gone.
Unmap(h) ==
    LET m == thread[h].ticket
    IN /\ At(h, "unmap")
       /\ IF ticket_map[m] = None THEN Return(h) ELSE Goto(h, "pnl")
       /\ ticket_map' = [ticket_map EXCEPT ![m] = None]
       /\ UNCHANGED <<settings, pnlVars, sessionVars, brokerVars, masterVars, acks>>

\* daily_pnl = round(daily_pnl + pnl_value, 2): read, call, write.
ReadDailyPnl(h) ==
    /\ At(h, "pnl")
    /\ thread' = [thread EXCEPT ![h].seen = daily_pnl, ![h].pc = "add"]
    /\ UNCHANGED <<settings, pnlVars, sessionVars, brokerVars, masterVars, ticket_map, acks>>

WriteDailyPnl(h) ==
    /\ At(h, "add")
    /\ daily_pnl' = thread[h].seen + thread[h].pnl
    /\ Goto(h, "archive")
    /\ UNCHANGED <<settings, copying_paused_by_loss, sessionVars, brokerVars,
                   masterVars, ticket_map, acks>>

\* Moves the first row of this ticket out of open_trades; no row, no session pnl.
CloseTradeRecord(h) ==
    LET rows == {r \in open_trades : r.ticket = thread[h].ticket}
    IN /\ At(h, "archive")
       /\ IF rows = {} THEN UNCHANGED <<open_trades, session_pnl>>
          ELSE /\ \E r \in rows : open_trades' = open_trades \ {r}
               /\ session_pnl' = session_pnl + thread[h].pnl
       /\ Goto(h, "limit")
       /\ UNCHANGED <<settings, pnlVars, is_running, brokerVars, masterVars, ticket_map, acks>>

LossLimitHit == daily_loss_limit > 0 /\ daily_pnl <= -daily_loss_limit

\* Mutant: the limit compared with < instead of <=.
CheckLossLimitLate(h) ==
    /\ At(h, "limit")
    /\ copying_paused_by_loss' = (\/ copying_paused_by_loss
                                  \/ daily_loss_limit > 0 /\ daily_pnl < -daily_loss_limit)
    /\ Return(h)
    /\ UNCHANGED <<settings, daily_pnl, sessionVars, brokerVars, masterVars,
                   ticket_map, acks>>

CheckLossLimit(h) ==
    /\ At(h, "limit")
    /\ copying_paused_by_loss' = (copying_paused_by_loss \/ LossLimitHit)
    /\ Return(h)
    /\ UNCHANGED <<settings, daily_pnl, sessionVars, brokerVars, masterVars,
                   ticket_map, acks>>

----------------------------------------------------------------------------
(* The user: toggle_listening, the risk, copy and symbols views, and the     *)
(* program's end and restart.                                                *)

StartListening ==
    /\ ~is_running
    /\ is_running' = TRUE /\ session_pnl' = 0 /\ open_trades' = {}
    /\ UNCHANGED <<settings, pnlVars, brokerVars, masterVars, ticket_map, thread, acks>>

StopListening ==
    /\ "stop" \in Env /\ is_running
    /\ is_running' = FALSE
    /\ UNCHANGED <<settings, pnlVars, session_pnl, open_trades, brokerVars, masterVars,
                   ticket_map, thread, acks>>

SetMaxConcurrent ==
    /\ "settings" \in Env
    /\ max_concurrent_trades' \in Caps
    /\ UNCHANGED <<daily_loss_limit, symbol_map, unmapped_symbol_behavior, symbol_whitelist,
                   pnlVars, sessionVars, brokerVars, masterVars, ticket_map, thread, acks>>

SetDailyLossLimit ==
    /\ "settings" \in Env
    /\ daily_loss_limit' \in LossLimits
    /\ UNCHANGED <<max_concurrent_trades, symbol_map, unmapped_symbol_behavior, symbol_whitelist,
                   pnlVars, sessionVars, brokerVars, masterVars, ticket_map, thread, acks>>

SetSymbols ==
    /\ "mapping" \in Env
    /\ \/ /\ \E e \in MapEntries :
                \/ symbol_map' = [symbol_map EXCEPT ![e[1]] = e[2]]
                \/ symbol_map' = [symbol_map EXCEPT ![e[1]] = None]
          /\ UNCHANGED <<unmapped_symbol_behavior, symbol_whitelist>>
       \/ /\ unmapped_symbol_behavior' \in {"IGNORE", "COPY_AS_IS"}
          /\ UNCHANGED <<symbol_map, symbol_whitelist>>
       \/ /\ symbol_whitelist' \in Whitelists
          /\ UNCHANGED <<symbol_map, unmapped_symbol_behavior>>
    /\ UNCHANGED <<max_concurrent_trades, daily_loss_limit, pnlVars, sessionVars, brokerVars,
                   masterVars, ticket_map, thread, acks>>

ResetDailyStats ==
    /\ "reset" \in Env
    /\ daily_pnl' = 0 /\ copying_paused_by_loss' = FALSE
    /\ UNCHANGED <<settings, sessionVars, brokerVars, masterVars, ticket_map, thread, acks>>

\* Nothing is persisted: a new process starts from SlaveState's defaults.
Restart ==
    /\ "restart" \in Env
    /\ is_running' = FALSE
    /\ ticket_map' = [m \in Tickets |-> None]
    /\ max_concurrent_trades' \in Caps /\ daily_loss_limit' \in LossLimits
    /\ copying_paused_by_loss' = FALSE /\ daily_pnl' = 0
    /\ symbol_map' = [x \in Symbols |-> None]
    /\ unmapped_symbol_behavior' = "IGNORE"
    /\ symbol_whitelist' \in Whitelists
    /\ session_pnl' = 0 /\ open_trades' = {}
    /\ thread' = [h \in Handlers |-> Idle]
    /\ UNCHANGED <<brokerVars, masterVars, acks>>

\* A stop-out, or the user closing the copied position in the terminal.
BrokerStopOut ==
    /\ "stopout" \in Env
    /\ \E s \in Live : position' = [position EXCEPT ![s] = None]
    /\ UNCHANGED <<settings, pnlVars, sessionVars, issued, masterVars, ticket_map, thread, acks>>

----------------------------------------------------------------------------
OpenStep(h) ==
    \/ GuardPaused(h) \/ GuardConcurrent(h) \/ GuardSlippage(h)
    \/ ExecuteTrade(h) \/ ExecuteTradeFails(h) \/ RecordTicket(h) \/ AddOpenTrade(h)

CloseStep(h) ==
    \/ LookupTicket(h) \/ CloseTrade(h) \/ CloseTradeFails(h) \/ Unmap(h)
    \/ ReadDailyPnl(h) \/ WriteDailyPnl(h) \/ CloseTradeRecord(h) \/ CheckLossLimit(h)

HandlerStep(h) == CheckRunning(h) \/ MapSymbol(h) \/ OpenStep(h) \/ CloseStep(h)

UserStep ==
    \/ StartListening \/ StopListening \/ SetMaxConcurrent \/ SetDailyLossLimit
    \/ SetSymbols \/ ResetDailyStats \/ Restart

Next ==
    \/ \E m \in Tickets, e \in Events :
          \/ \E h \in Handlers, v \in Pnls : Receive(h, m, e, v)
          \/ Lose(m, e)
    \/ \E h \in Handlers : HandlerStep(h)
    \/ UserStep
    \/ BrokerStopOut

Spec == Init /\ [][Next]_vars

\* The same node from a moment at which it listens and holds nothing.
ListeningSpec == Started(TRUE) /\ [][Next]_vars

\* A started thread keeps running; the user, the broker's stop-outs and the
\* arrival of signals are left free.
FairSpec == Spec /\ \A h \in Handlers : WF_vars(HandlerStep(h))

----------------------------------------------------------------------------
(* Properties *)

\* No orphan: a copied position that is live at the broker is the value of a
\* ticket_map entry, or its thread is about to write that entry.  A position
\* that escapes ticket_map is one no CLOSE signal can reach any more.
\* (For MaxOpens <= 1, without "unreported" results and without "restart".)
NoOrphan ==
    \A s \in Live :
        \/ \E m \in Tickets : ticket_map[m] = s
        \/ \E h \in Handlers : At(h, "record") /\ thread[h].slave = s

\* No dangling entry: what ticket_map counts as open is open at the broker, or a
\* CLOSE thread has closed it and is about to delete the entry, so Guard 1 never
\* counts a position that is gone.  (Without "stopout" and "unreported".)
NoDangling ==
    \A m \in Mapped :
        \/ ticket_map[m] \in Live
        \/ \E h \in Handlers : At(h, "unmap") /\ thread[h].ticket = m

\* The threads past Guard 1 that have not written ticket_map yet.
Claims == {h \in Handlers : /\ thread[h].event = "OPEN"
                            /\ thread[h].pc \in {"symbol", "price", "send", "record"}}

\* Guard 1 is a check that other threads can pass before its thread writes
\* ticket_map: entries and claims together exceed the cap by at most one per
\* further thread, whatever the user does to the cap within Caps.
CapOvershoot ==
    0 \notin Caps =>
        Cardinality(Mapped) + Cardinality(Claims) <= TopCap + Cardinality(Handlers) - 1

\* max_concurrent_trades bounds what is at risk at the broker, not only the
\* size of a dict: at most cap live copied positions when signals are handled
\* one at a time, one more for every further thread.
LiveWithinCap ==
    0 \notin Caps => Cardinality(Live) <= TopCap + Cardinality(Handlers) - 1

\* The daily loss limit: once daily_pnl is at or below the limit, copying is
\* paused or a thread is about to compare the two, in every interleaving of
\* CLOSE threads and resets.  (For a limit the user does not change.)
LossLimitEnforced ==
    LossLimitHit => \/ copying_paused_by_loss
                    \/ \E h \in Handlers : thread[h].pc \in {"archive", "limit"}

Acked(m, status) == [ticket |-> m, status |-> status] \in acks

\* What the node reports agrees with what it keeps, whichever acknowledgements are
\* lost: a ticket it reported FAILED or BLOCKED_SLIPPAGE has no entry and is not
\* reported EXECUTED as well, and a ticket it reported EXECUTED has its entry until
\* the master sends its CLOSE.  (For MaxOpens <= 1 and without "restart".)
AckMatchesMap ==
    \A m \in Tickets :
        /\ Acked(m, "FAILED") \/ Acked(m, "BLOCKED_SLIPPAGE") =>
              m \notin Mapped /\ ~Acked(m, "EXECUTED")
        /\ Acked(m, "EXECUTED") => m \in Mapped \/ closes[m] > 0

\* Every row of the trades view is a mapped position, or its CLOSE thread is on
\* its way to archive the row.  (For signals handled one at a time.)
TradesViewSound ==
    \A r \in open_trades :
        \/ ticket_map[r.ticket] = r.slave
        \/ \E h \in Handlers : /\ thread[h].ticket = r.ticket
                              /\ thread[h].pc \in {"pnl", "add", "archive"}

\* When the master has closed all it opened on a ticket and no thread is at
\* work, the copier holds nothing for that ticket.
ClosedWhenQuiet ==
    (\A h \in Handlers : At(h, "idle")) =>
        \A m \in Tickets : opens[m] = closes[m] => m \notin Mapped

\* A CLOSE that reaches a listening node ends the copy, whatever the OPEN guards, the
\* loss pause, resets and settings do, and also when the node is restarted, the broker
\* ends the position first or a result does not arrive; unless the user stops listening.
\* (For one signal at a time, tickets opened once, a mapping that stays and a broker that
\* refuses nothing.)
CloseMirrored ==
    \A m \in Tickets, h \in Handlers :
        (At(h, "running") /\ thread[h].event = "CLOSE" /\ thread[h].ticket = m /\ is_running)
            ~> (~is_running \/ ticket_map[m] \notin Live)

============================================================================
