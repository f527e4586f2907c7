---------------------------- MODULE SignalRelay -----------------------------
(***************************************************************************)
(* The backend's relay of signals (TradeGateway): a master's test_signal   *)
(* is authorised, written to the database and broadcast to the master's    *)
(* room; a copier's trade_execution_ack is written to the same row.        *)
(*                                                                         *)
(* Every message runs a handler of its own, interleaved with the others at *)
(* each wait for the database.  A save of a loaded entity is two of them:  *)
(* TypeORM reads the row again, then updates the columns that differ.      *)
(*                                                                         *)
(* A master announces a ticket as the feed promises: OPEN at most once,    *)
(* then CLOSE at most once, so a ticket has at most one row.               *)
(***************************************************************************)
EXTENDS NodeRegistry, FiniteSets

CONSTANTS
    Tickets,
    OwnerOf,   \* the master of each ticket
    DbFails    \* whether a query on TradeLogs may fail

ASSUME TicketsAssumption == OwnerOf \in [Tickets -> Masters] /\ DbFails \in BOOLEAN

VARIABLES
    tradeLog,  \* ticket -> its row, or NoRow
    signal,    \* one run of handleTestSignal per ticket and event
    ack,       \* one run of handleTradeExecutionAck per slave and ticket
    received,  \* history: the <<socket, ticket>> pairs an OPEN was broadcast to
    failed     \* history: the signals with a failed query on TradeLogs

relayVars == <<tradeLog, signal, ack, received, failed>>
vars == <<registryVars, relayVars>>

Events == {"OPEN", "CLOSE"}

\* pnl stands for pnl and closedAt, set together; copier for the columns a slave's
\* report fills.
Row == [status : {"OPEN", "CLOSED"}, pnl : BOOLEAN, slaveId : Slaves \cup {None},
        copier : Slaves \cup {None}]
NoRow == [status |-> "none", pnl |-> FALSE, slaveId |-> None, copier |-> None]
Columns == {"status", "pnl", "copier"}

Handler == [pc : {"none", "log", "insert", "find", "compare", "update", "send", "done",
                  "blocked"},
            slaveId : Slaves \cup {None},
            entity : Row \cup {NoRow},     \* the row as loaded and changed in memory
            changed : SUBSET Columns]

Idle == [pc |-> "none", slaveId |-> None, entity |-> NoRow, changed |-> {}]

RelayTypeOK ==
    /\ TypeOK
    /\ tradeLog \in [Tickets -> Row \cup {NoRow}]
    /\ signal \in [Tickets \X Events -> Handler]
    /\ ack \in [Slaves \X Tickets -> Handler]
    /\ received \subseteq Sockets \X Tickets
    /\ failed \subseteq Tickets \X Events

Init ==
    /\ RegistryInit
    /\ tradeLog = [t \in Tickets |-> NoRow]
    /\ signal = [g \in Tickets \X Events |-> Idle]
    /\ ack = [a \in Slaves \X Tickets |-> Idle]
    /\ received = {}
    /\ failed = {}

Open(t) == <<t, "OPEN">>
Close(t) == <<t, "CLOSE">>
Step(g, from, to) == signal[g].pc = from /\ signal' = [signal EXCEPT ![g].pc = to]
AckStep(a, from, to) == ack[a].pc = from /\ ack' = [ack EXCEPT ![a].pc = to]

\* The slaves whose entries are in the master's room, one member per entry.
SlaveEntries(m) == {s \in Sockets : NodeOf[s] \in Slaves /\ connectedClients[s] = m}

\* Mutant: a column that is null in the entity is skipped.
DifferingSkipsNull(entity, t) ==
    {c \in Columns : /\ entity[c] # tradeLog[t][c]
                     /\ c = "pnl" => entity.pnl
                     /\ c = "copier" => entity.copier # None}

\* Mutant: a save writes the whole entity.
UpdatedWhole(h, t) == h.entity

\* The columns a save finds different from the row, and the row after its update.
Differing(entity, t) == {c \in Columns : entity[c] # tradeLog[t][c]}
Updated(h, t) == [c \in DOMAIN tradeLog[t] |->
                    IF c \in h.changed THEN h.entity[c] ELSE tradeLog[t][c]]

----------------------------------------------------------------------------
(* handleTestSignal *)

\* A socket that has not finished its registration is not authorised; the signal
\* is dropped without an answer.
TestSignal(s, t, e) ==
    LET g == <<t, e>>
    IN /\ Connected(s) /\ NodeOf[s] = OwnerOf[t]
       /\ e = "CLOSE" => signal[Open(t)].pc # "none"
       /\ Step(g, "none", IF connectedClients[s] # None THEN "log" ELSE "blocked")
       /\ UNCHANGED <<registryVars, tradeLog, ack, received, failed>>

\* Mutant: entries of every master are counted.
TagOpenAnyRoom(t) ==
    LET entries == {s \in Sockets : NodeOf[s] \in Slaves /\ connectedClients[s] # None}
    IN /\ signal[Open(t)].pc = "log"
       /\ signal' = [signal EXCEPT ![Open(t)].pc = "insert",
             ![Open(t)].slaveId = IF Cardinality(entries) = 1
                                  THEN NodeOf[CHOOSE s \in entries : TRUE] ELSE None]
       /\ UNCHANGED <<registryVars, tradeLog, ack, received, failed>>

\* After the legacy insert, failed or not: an OPEN is tagged with the slave in the
\* room, if there is exactly one entry.
TagOpen(t) ==
    LET entries == SlaveEntries(OwnerOf[t])
    IN /\ signal[Open(t)].pc = "log"
       /\ signal' = [signal EXCEPT ![Open(t)].pc = "insert",
             ![Open(t)].slaveId = IF Cardinality(entries) = 1
                                  THEN NodeOf[CHOOSE s \in entries : TRUE] ELSE None]
       /\ UNCHANGED <<registryVars, tradeLog, ack, received, failed>>

LogClose(t) ==
    /\ Step(Close(t), "log", "find")
    /\ UNCHANGED <<registryVars, tradeLog, ack, received, failed>>

InsertRow(t) ==
    /\ Step(Open(t), "insert", "send")
    /\ tradeLog' = [tradeLog EXCEPT ![t] =
           [status |-> "OPEN", pnl |-> FALSE, slaveId |-> signal[Open(t)].slaveId,
            copier |-> None]]
    /\ UNCHANGED <<registryVars, ack, received, failed>>

\* The still open row is loaded, and changed in memory.
FindOpenRow(t) ==
    /\ signal[Close(t)].pc = "find"
    /\ signal' =
         IF tradeLog[t].status = "OPEN"
         THEN [signal EXCEPT ![Close(t)].pc = "compare",
                  ![Close(t)].entity = [tradeLog[t] EXCEPT !.status = "CLOSED", !.pnl = TRUE]]
         ELSE [signal EXCEPT ![Close(t)].pc = "send"]
    /\ UNCHANGED <<registryVars, tradeLog, ack, received, failed>>

CompareClose(t) ==
    /\ signal[Close(t)].pc = "compare"
    /\ signal' = [signal EXCEPT ![Close(t)].pc = "update",
                      ![Close(t)].changed = Differing(signal[Close(t)].entity, t)]
    /\ UNCHANGED <<registryVars, tradeLog, ack, received, failed>>

UpdateClose(t) ==
    /\ Step(Close(t), "update", "send")
    /\ tradeLog' = [tradeLog EXCEPT ![t] = Updated(signal[Close(t)], t)]
    /\ UNCHANGED <<registryVars, ack, received, failed>>

\* Mutant: the handler returns from its catch block.
SaveFailsReturns(g) ==
    /\ DbFails /\ signal[g].pc \in {"insert", "find", "compare", "update"}
    /\ signal' = [signal EXCEPT ![g].pc = "done"]
    /\ failed' = failed \cup {g}
    /\ UNCHANGED <<registryVars, tradeLog, ack, received>>

\* A failing query on TradeLogs is logged; the signal is broadcast all the same.
SaveFails(g) ==
    /\ DbFails /\ signal[g].pc \in {"insert", "find", "compare", "update"}
    /\ signal' = [signal EXCEPT ![g].pc = "send"]
    /\ failed' = failed \cup {g}
    /\ UNCHANGED <<registryVars, tradeLog, ack, received>>

\* Mutant: the save is not awaited.
BroadcastEarly(g) ==
    LET t == g[1]
    IN /\ signal[g].pc \in {"insert", "send"}
       /\ received' = IF g[2] = "OPEN" THEN received \cup (InRoom(OwnerOf[t]) \X {t})
                      ELSE received
       /\ signal' = [signal EXCEPT ![g].pc = IF @ = "send" THEN "done" ELSE @]
       /\ UNCHANGED <<registryVars, tradeLog, ack, failed>>

Broadcast(g) ==
    LET t == g[1]
    IN /\ Step(g, "send", "done")
       /\ received' = IF g[2] = "OPEN" THEN received \cup (InRoom(OwnerOf[t]) \X {t})
                      ELSE received
       /\ UNCHANGED <<registryVars, tradeLog, ack, failed>>

SignalStep(g) ==
    \/ \E t \in Tickets : /\ g = Open(t)
                          /\ TagOpen(t) \/ InsertRow(t)
    \/ \E t \in Tickets : /\ g = Close(t)
                          /\ LogClose(t) \/ FindOpenRow(t) \/ CompareClose(t) \/ UpdateClose(t)
    \/ SaveFails(g) \/ Broadcast(g)

----------------------------------------------------------------------------
(* handleTradeExecutionAck *)

\* A slave that received an OPEN reports on the socket it has now.  Without an
\* entry, or with another master's, no row is found.
ExecutionAck(s, t) ==
    LET a == <<NodeOf[s], t>>
    IN /\ Connected(s) /\ NodeOf[s] \in Slaves
       /\ \E r \in Sockets : NodeOf[r] = NodeOf[s] /\ <<r, t>> \in received
       /\ AckStep(a, "none", IF connectedClients[s] = OwnerOf[t] THEN "find" ELSE "done")
       /\ UNCHANGED <<registryVars, tradeLog, signal, received, failed>>

AckFindRow(a) ==
    LET t == a[2]
    IN /\ ack[a].pc = "find"
       /\ ack' = IF tradeLog[t].status = "OPEN"
                 THEN [ack EXCEPT ![a].pc = "compare",
                                  ![a].entity = [tradeLog[t] EXCEPT !.copier = a[1]]]
                 ELSE [ack EXCEPT ![a].pc = "done"]
       /\ UNCHANGED <<registryVars, tradeLog, signal, received, failed>>

AckCompare(a) ==
    /\ ack[a].pc = "compare"
    /\ ack' = [ack EXCEPT ![a].pc = "update", ![a].changed = Differing(ack[a].entity, a[2])]
    /\ UNCHANGED <<registryVars, tradeLog, signal, received, failed>>

AckUpdate(a) ==
    /\ AckStep(a, "update", "done")
    /\ tradeLog' = [tradeLog EXCEPT ![a[2]] = Updated(ack[a], a[2])]
    /\ UNCHANGED <<registryVars, signal, received, failed>>

AckFails(a) ==
    /\ DbFails /\ ack[a].pc \in {"find", "compare", "update"}
    /\ ack' = [ack EXCEPT ![a].pc = "done"]
    /\ UNCHANGED <<registryVars, tradeLog, signal, received, failed>>

HandleAck(a) == AckFindRow(a) \/ AckCompare(a) \/ AckUpdate(a) \/ AckFails(a)

----------------------------------------------------------------------------

Next ==
    \/ RegistryNext /\ UNCHANGED relayVars
    \/ \E s \in Sockets, t \in Tickets : \/ \E e \in Events : TestSignal(s, t, e)
                                         \/ ExecutionAck(s, t)
    \/ \E g \in Tickets \X Events : SignalStep(g)
    \/ \E a \in Slaves \X Tickets : HandleAck(a)

Spec == Init /\ [][Next]_vars

\* The event loop runs every started handler on; nodes and users are free.
FairSpec == Spec /\ \A g \in Tickets \X Events : WF_vars(SignalStep(g))

----------------------------------------------------------------------------
(* Properties *)

\* handleTestSignal saves before it broadcasts: unless the insert failed, the row of
\* a ticket exists by the time any node hears of it, so that no report of a copier
\* can come too early.
PersistBeforeSend ==
    \A s \in Sockets, t \in Tickets :
        <<s, t>> \in received => tradeLog[t] # NoRow \/ Open(t) \in failed

\* Whichever saves overwrite each other, a row never mixes two states of the trade:
\* it has a profit exactly when it is CLOSED.
RowConsistent ==
    \A t \in Tickets : tradeLog[t] # NoRow =>
        (tradeLog[t].pnl <=> tradeLog[t].status = "CLOSED")

\* handleTestSignal tags the row of an OPEN with the only slave in the room, saves it
\* and broadcasts to those in the room by then: the slave that the row is booked on
\* has received the signal, unless it lost a socket.
TaggedIsReached ==
    \A t \in Tickets : LET u == signal[Open(t)].slaveId
                       IN signal[Open(t)].pc = "done" /\ u # None =>
        \E s \in Sockets : NodeOf[s] = u /\ (<<s, t>> \in received \/ socket[s] = "gone")

\* A row's slaveId is the slave whose execution was confirmed (tradelog.entity.ts).
TagIsConfirmed ==
    \A t \in Tickets : tradeLog[t].slaveId # None => ack[<<tradeLog[t].slaveId, t>>].pc = "done"

\* A logged OPEN reaches every node that is in the master's room, also when the
\* database fails, unless that node's socket is lost first.
SignalReaches ==
    \A s \in Sockets, t \in Tickets :
        signal[Open(t)].pc = "log" /\ s \in InRoom(OwnerOf[t])
            ~> <<s, t>> \in received \/ ~Connected(s)

\* A CLOSE that found its row and saved it has closed it for good, unless a copier's
\* report whose own read saw the row closed wrote back the status it had loaded
\* before.  (A CLOSE that overtakes its OPEN finds no row, and the row inserted later
\* stays open.)
CloseFinalizes ==
    \A t \in Tickets :
        (/\ signal[Close(t)].pc \in {"send", "done"} /\ Close(t) \notin failed
         /\ signal[Close(t)].entity # NoRow) =>
            \/ tradeLog[t].status = "CLOSED"
            \/ \E u \in Slaves : /\ ack[<<u, t>>].pc = "done"
                                 /\ "status" \in ack[<<u, t>>].changed

=============================================================================
