------------------------- MODULE SlaveCopierProofs -------------------------
(***************************************************************************)
(* Proofs about SlaveCopier, for every set of tickets, threads and         *)
(* settings and every environment the hypotheses allow.                    *)
(***************************************************************************)
EXTENDS SlaveCopier, FiniteSetTheorems, TLAPS

\* What a thread's program counter says of its local variables: it has a signal
\* while it runs, the branch it is in is that of its event, and it holds a slave
\* ticket from the moment the broker or ticket_map gave it one.
ThreadOK ==
    \A h \in Handlers :
        /\ thread[h].pc # "idle" => thread[h].ticket \in Tickets /\ thread[h].event \in Events
        /\ thread[h].pc \in {"paused", "cap", "price", "send", "record", "session"}
              => thread[h].event = "OPEN"
        /\ thread[h].pc \in {"lookup", "close", "unmap", "pnl", "add", "archive", "limit"}
              => thread[h].event = "CLOSE"
        /\ thread[h].pc \in {"record", "session", "close", "unmap"}
              => thread[h].slave \in SlaveTickets

Typed == TypeOK /\ ThreadOK

LEMMA TypedInit == Init => Typed
  <1> SUFFICES ASSUME Init PROVE Typed  OBVIOUS
  <1>1. is_running \in BOOLEAN /\ copying_paused_by_loss \in BOOLEAN  BY Zenon DEF Init, Started
  <1> QED
  BY <1>1, NoneAssumption, TicketsAssumption, SettingsAssumption
     DEF Init, Started, Typed, TypeOK, ThreadOK, Idle, Thread, OpenSteps, CloseSteps

LEMMA SlaveSymbolType ==
  ASSUME Typed, NEW x \in Symbols
  PROVE  SlaveSymbol(x) \in Symbols \cup {None}
  BY DEF Typed, TypeOK, SlaveSymbol

\* A thread that returns leaves the threads well formed.
LEMMA ReturnTyped ==
  ASSUME Typed, NEW h \in Handlers, Return(h)
  PROVE  thread' \in [Handlers -> Thread] /\ ThreadOK'
  BY DEF Typed, TypeOK, ThreadOK, Thread, Idle, Return

\* So does a thread that moves on, to a step of the branch of its signal.
LEMMA GotoTyped ==
  ASSUME Typed, NEW h \in Handlers, NEW step, Goto(h, step), thread[h].pc # "idle",
         \/ thread[h].event = "OPEN" /\ step \in {"paused", "cap", "symbol", "send"}
         \/ thread[h].event = "CLOSE" /\ step \in {"symbol", "pnl", "archive", "limit"}
  PROVE  thread' \in [Handlers -> Thread] /\ ThreadOK'
  <1> USE DEF Typed, TypeOK, Thread, OpenSteps, CloseSteps
  <1>1. thread' = [thread EXCEPT ![h].pc = step] /\ step \in {"idle"} \cup OpenSteps \cup CloseSteps
    BY DEF Goto
  <1>2. thread' \in [Handlers -> Thread]
    <2>1. thread \in [Handlers -> Thread] /\ thread[h] \in Thread  OBVIOUS
    <2>2. [thread[h] EXCEPT !.pc = step] \in Thread  BY <1>1, <2>1
    <2> HIDE DEF Thread, Typed, TypeOK
    <2> QED  BY <1>1, <2>1, <2>2
  <1>3. \A k \in Handlers : k # h => thread'[k] = thread[k]  BY <1>1
  <1>4. /\ thread'[h].pc = step /\ thread'[h].event = thread[h].event
        /\ thread'[h].ticket = thread[h].ticket
    BY <1>1
  <1>5. step \notin {"record", "session", "close", "unmap"}  OBVIOUS
  <1> HIDE DEF Typed, TypeOK, Thread, OpenSteps, CloseSteps
  <1>6. ThreadOK
    BY DEF Typed
  <1>7. ThreadOK'  BY <1>3, <1>4, <1>5, <1>6 DEF ThreadOK, Events
  <1> QED  BY <1>2, <1>7

\* A step that changes nothing but the threads.
LEMMA ThreadStepTyped ==
  ASSUME Typed, thread' \in [Handlers -> Thread], ThreadOK',
         acks' \subseteq [ticket : Tickets, status : Statuses],
         UNCHANGED <<settings, pnlVars, sessionVars, brokerVars, masterVars, ticket_map>>
  PROVE  Typed'
  BY DEF Typed, TypeOK, settings, pnlVars, sessionVars, brokerVars, masterVars

LEMMA TypedStep ==
  ASSUME Typed, [Next]_vars
  PROVE  Typed'
  <1> USE NoneAssumption, TicketsAssumption, SettingsAssumption, SignalsAssumption
      DEF Typed, TypeOK, ThreadOK, Thread, Events, OpenSteps, CloseSteps, Statuses, At, Goto,
          Ack, settings, pnlVars, sessionVars, brokerVars, masterVars
  <1>1. ASSUME NEW h \in Handlers, NEW m \in Tickets, NEW e \in Events, NEW v \in Pnls,
               Receive(h, m, e, v)
        PROVE  Typed'
    BY <1>1 DEF Receive, Emit
  <1>2. ASSUME NEW m \in Tickets, NEW e \in Events, Lose(m, e) PROVE Typed'
    BY <1>2 DEF Lose, Emit
  <1>3. ASSUME NEW h \in Handlers, HandlerStep(h) PROVE Typed'
    <2>1. CASE CheckRunning(h)
      <3>1. /\ At(h, "running")
            /\ \/ Return(h)
               \/ thread[h].event = "OPEN" /\ Goto(h, "paused")
               \/ thread[h].event # "OPEN" /\ Goto(h, "symbol")
        BY <2>1 DEF CheckRunning
      <3>2. UNCHANGED <<settings, pnlVars, sessionVars, brokerVars, masterVars, ticket_map, acks>>
        BY <2>1, Zenon DEF CheckRunning
      <3>3. thread[h].event \in Events /\ thread[h].pc # "idle"  BY <3>1
      <3> HIDE DEF Typed, ThreadOK, Thread, Goto, At
      <3>4. thread' \in [Handlers -> Thread] /\ ThreadOK'
        BY <3>1, <3>3, ReturnTyped, GotoTyped
      <3>5. acks' \subseteq [ticket : Tickets, status : Statuses]  BY <3>2 DEF Typed, TypeOK
      <3> QED  BY <3>2, <3>4, <3>5, ThreadStepTyped
    <2>2. CASE GuardPaused(h)
      <3>1. At(h, "paused") /\ (Return(h) \/ Goto(h, "cap"))  BY <2>2, Zenon DEF GuardPaused
      <3>2. UNCHANGED <<settings, pnlVars, sessionVars, brokerVars, masterVars, ticket_map, acks>>
        BY <2>2, Zenon DEF GuardPaused
      <3>3. thread[h].event = "OPEN" /\ thread[h].pc # "idle"  BY <3>1
      <3> HIDE DEF Typed, ThreadOK, Thread, Goto, At
      <3>4. thread' \in [Handlers -> Thread] /\ ThreadOK'
        BY <3>1, <3>3, ReturnTyped, GotoTyped
      <3>5. acks' \subseteq [ticket : Tickets, status : Statuses]  BY <3>2 DEF Typed, TypeOK
      <3> QED  BY <3>2, <3>4, <3>5, ThreadStepTyped
    <2>3. CASE GuardConcurrent(h)
      <3>1. At(h, "cap") /\ (Return(h) \/ Goto(h, "symbol"))  BY <2>3, Zenon DEF GuardConcurrent
      <3>2. UNCHANGED <<settings, pnlVars, sessionVars, brokerVars, masterVars, ticket_map, acks>>
        BY <2>3, Zenon DEF GuardConcurrent
      <3>3. thread[h].event = "OPEN" /\ thread[h].pc # "idle"  BY <3>1
      <3> HIDE DEF Typed, ThreadOK, Thread, Goto, At
      <3>4. thread' \in [Handlers -> Thread] /\ ThreadOK'
        BY <3>1, <3>3, ReturnTyped, GotoTyped
      <3>5. acks' \subseteq [ticket : Tickets, status : Statuses]  BY <3>2 DEF Typed, TypeOK
      <3> QED  BY <3>2, <3>4, <3>5, ThreadStepTyped
    <2>4. CASE MapSymbol(h)
      <3>1. SymbolOf[thread[h].ticket] \in Symbols  BY <2>4 DEF MapSymbol
      <3> DEFINE y == SlaveSymbol(SymbolOf[thread[h].ticket])
      <3>2. y \in Symbols \cup {None}  BY <3>1, SlaveSymbolType
      <3> HIDE DEF y
      <3>3. \/ Return(h)
            \/ /\ y # None
               /\ thread' = [thread EXCEPT ![h].symbol = y,
                      ![h].pc = IF thread[h].event = "OPEN" THEN "price" ELSE "lookup"]
        BY <2>4 DEF MapSymbol, y
      <3> QED  BY <2>4, <3>2, <3>3, ReturnTyped DEF MapSymbol
    <2>5. CASE GuardSlippage(h)
      <3>1. At(h, "price") /\ (Return(h) \/ Goto(h, "send"))  BY <2>5, Zenon DEF GuardSlippage
      <3>2. /\ UNCHANGED <<settings, pnlVars, sessionVars, brokerVars, masterVars, ticket_map>>
            /\ Ack(h, "BLOCKED_SLIPPAGE") \/ UNCHANGED acks
        BY <2>5, Zenon DEF GuardSlippage
      <3>3. thread[h].event = "OPEN" /\ thread[h].pc # "idle"  BY <3>1
      <3>4. acks' \subseteq [ticket : Tickets, status : Statuses]
        <4>1. thread[h].ticket \in Tickets  BY <3>1
        <4> QED  BY <3>2, <4>1 DEF Ack, Statuses
      <3> HIDE DEF Typed, ThreadOK, Thread, Goto, At
      <3>5. thread' \in [Handlers -> Thread] /\ ThreadOK'
        BY <3>1, <3>3, ReturnTyped, GotoTyped
      <3> QED  BY <3>2, <3>4, <3>5, ThreadStepTyped
    <2>6. CASE ExecuteTrade(h)  BY <2>6 DEF ExecuteTrade, BrokerOpens
    <2>7. CASE ExecuteTradeFails(h)  BY <2>7, ReturnTyped DEF ExecuteTradeFails, BrokerOpens
    <2>8. CASE RecordTicket(h)  BY <2>8 DEF RecordTicket
    <2>9. CASE AddOpenTrade(h)  BY <2>9, ReturnTyped DEF AddOpenTrade
    <2>10. CASE LookupTicket(h)  BY <2>10, ReturnTyped DEF LookupTicket
    <2>11. CASE CloseTrade(h)  BY <2>11 DEF CloseTrade
    <2>12. CASE CloseTradeFails(h)  BY <2>12, ReturnTyped DEF CloseTradeFails
    <2>13. CASE Unmap(h)
      <3>1. At(h, "unmap") /\ (Return(h) \/ Goto(h, "pnl"))  BY <2>13 DEF Unmap
      <3>2. ticket_map' \in [Tickets -> SlaveTickets \cup {None}]  BY <2>13 DEF Unmap
      <3>3. UNCHANGED <<settings, pnlVars, sessionVars, brokerVars, masterVars, acks>>
        BY <2>13 DEF Unmap
      <3>4. thread' \in [Handlers -> Thread] /\ ThreadOK'
        <4>1. CASE Return(h)  BY <4>1, ReturnTyped
        <4>2. CASE Goto(h, "pnl")  BY <3>1, <4>2
        <4> QED  BY <3>1, <4>1, <4>2
      <3> HIDE DEF ThreadOK, At, Goto
      <3> QED  BY <3>2, <3>3, <3>4
    <2>14. CASE ReadDailyPnl(h)  BY <2>14 DEF ReadDailyPnl
    <2>15. CASE WriteDailyPnl(h)  BY <2>15 DEF WriteDailyPnl
    <2>16. CASE CloseTradeRecord(h)  BY <2>16 DEF CloseTradeRecord
    <2>17. CASE CheckLossLimit(h)  BY <2>17, ReturnTyped DEF CheckLossLimit, LossLimitHit
    <2> QED
      BY <1>3, <2>1, <2>2, <2>3, <2>4, <2>5, <2>6, <2>7, <2>8, <2>9, <2>10, <2>11, <2>12,
         <2>13, <2>14, <2>15, <2>16, <2>17 DEF HandlerStep, OpenStep, CloseStep
  <1>4. CASE UserStep
    <2>1. CASE StartListening  BY <2>1 DEF StartListening
    <2>2. CASE StopListening  BY <2>2 DEF StopListening
    <2>3. CASE SetMaxConcurrent  BY <2>3 DEF SetMaxConcurrent
    <2>4. CASE SetDailyLossLimit  BY <2>4 DEF SetDailyLossLimit
    <2>5. CASE SetSymbols  BY <2>5 DEF SetSymbols
    <2>6. CASE ResetDailyStats
      <3>1. copying_paused_by_loss' \in BOOLEAN  BY <2>6, Zenon DEF ResetDailyStats
      <3> QED  BY <2>6, <3>1 DEF ResetDailyStats
    <2>7. CASE Restart
      <3>1. is_running' \in BOOLEAN /\ copying_paused_by_loss' \in BOOLEAN
        BY <2>7, Zenon DEF Restart
      <3> QED  BY <2>7, <3>1 DEF Restart, Idle
    <2> QED  BY <1>4, <2>1, <2>2, <2>3, <2>4, <2>5, <2>6, <2>7 DEF UserStep
  <1>5. CASE BrokerStopOut  BY <1>5 DEF BrokerStopOut, Live
  <1>6. CASE UNCHANGED vars  BY <1>6 DEF vars
  <1> QED  BY <1>1, <1>2, <1>3, <1>4, <1>5, <1>6 DEF Next

\* Type correctness: the state stays well formed, and every thread holds the
\* locals its next step reads (no None is used as a ticket or as a dict key).
THEOREM SlaveTypeCorrect == Spec => []Typed
  <1>1. Typed /\ [Next]_vars => Typed'  BY TypedStep
  <1> QED  BY TypedInit, <1>1, PTL DEF Spec

----------------------------------------------------------------------------
(* The cap on simultaneous copies *)

CapInv == Cardinality(Mapped) + Cardinality(Claims) <= TopCap + Cardinality(Handlers) - 1

LEMMA CapFinite ==
  ASSUME Typed
  PROVE  /\ IsFiniteSet(Mapped) /\ Cardinality(Mapped) \in Nat
         /\ IsFiniteSet(Claims) /\ Cardinality(Claims) \in Nat
         /\ Cardinality(Claims) <= Cardinality(Handlers)
         /\ Cardinality(Handlers) \in Nat
  <1>1. Mapped \in SUBSET Tickets /\ Claims \in SUBSET Handlers  BY DEF Mapped, Claims
  <1>2. IsFiniteSet(Tickets) /\ IsFiniteSet(Handlers)
    BY TicketsAssumption, HandlersAssumption
  <1>3. IsFiniteSet(Mapped) /\ IsFiniteSet(Claims) /\ Cardinality(Claims) <= Cardinality(Handlers)
    BY <1>1, <1>2, FS_Subset
  <1> QED  BY <1>2, <1>3, FS_CardinalityType

\* A step after which no more tickets are mapped and no more threads are past
\* Guard 1 keeps the bound.
LEMMA CapShrinks ==
  ASSUME Typed, Typed', CapInv, Mapped' \subseteq Mapped, Claims' \subseteq Claims
  PROVE  CapInv'
  <1>1. Cardinality(Mapped') <= Cardinality(Mapped)
    BY CapFinite, FS_Subset, Mapped' \in SUBSET Mapped
  <1>2. Cardinality(Claims') <= Cardinality(Claims)
    BY CapFinite, FS_Subset, Claims' \in SUBSET Claims
  <1>3. IsFiniteSet(Mapped') /\ IsFiniteSet(Claims')
    BY CapFinite, FS_Subset, Mapped' \in SUBSET Mapped, Claims' \in SUBSET Claims
  <1>4. Cardinality(Mapped') \in Nat /\ Cardinality(Claims') \in Nat
    BY <1>3, FS_CardinalityType
  <1> QED  BY <1>1, <1>2, <1>4, CapFinite, SettingsAssumption DEF CapInv

\* Guard 1 itself: a thread joins Claims only while Mapped is below the cap.
LEMMA CapGuarded ==
  ASSUME Typed, Typed', CapInv, 0 \notin Caps, NEW h \in Handlers, GuardConcurrent(h)
  PROVE  CapInv'
  <1>1. Mapped' = Mapped  BY DEF GuardConcurrent, Mapped
  <1>2. CASE CapReached
    <2>1. Claims' \subseteq Claims
      BY <1>2 DEF GuardConcurrent, Claims, Return, Idle, Typed, TypeOK
    <2> QED  BY <1>1, <2>1, CapShrinks
  <1>3. CASE ~CapReached
    <2>1. max_concurrent_trades \in Caps /\ max_concurrent_trades \in Nat
          /\ max_concurrent_trades <= TopCap /\ max_concurrent_trades > 0
      BY SettingsAssumption DEF Typed, TypeOK
    <2>2. Cardinality(Mapped) <= TopCap - 1
      BY <1>3, <2>1, CapFinite, SettingsAssumption DEF CapReached
    <2>3. Claims' \in SUBSET Handlers  BY DEF Claims
    <2>4. IsFiniteSet(Claims') /\ Cardinality(Claims') <= Cardinality(Handlers)
      BY <2>3, HandlersAssumption, FS_Subset
    <2>5. Cardinality(Claims') \in Nat  BY <2>4, FS_CardinalityType
    <2>6. Cardinality(Mapped') = Cardinality(Mapped)  BY <1>1
    <2> QED  BY <2>2, <2>4, <2>5, <2>6, CapFinite, SettingsAssumption DEF CapInv
  <1> QED  BY <1>2, <1>3

\* Writing ticket_map turns a claim into an entry.
LEMMA CapRecorded ==
  ASSUME Typed, Typed', CapInv, NEW h \in Handlers, RecordTicket(h)
  PROVE  CapInv'
  <1> DEFINE m == thread[h].ticket
  <1>1. /\ h \in Claims
        /\ Claims' = Claims \ {h}
        /\ Mapped' = Mapped \cup {m}
    BY NoneAssumption
       DEF RecordTicket, At, Goto, Claims, Mapped, Typed, TypeOK, ThreadOK, Thread, Events
  <1> HIDE DEF m
  <1>2. Cardinality(Claims') = Cardinality(Claims) - 1  BY <1>1, CapFinite, FS_RemoveElement
  <1>3. /\ IsFiniteSet(Mapped')
        /\ Cardinality(Mapped') =
             IF m \in Mapped THEN Cardinality(Mapped) ELSE Cardinality(Mapped) + 1
    <2>1. IsFiniteSet(Mapped)  BY CapFinite
    <2> QED  BY <1>1, <2>1, FS_AddElement
  <1>5. Cardinality(Mapped') \in Nat  BY <1>3, FS_CardinalityType
  <1> QED  BY <1>2, <1>3, <1>5, CapFinite, SettingsAssumption, HandlersAssumption DEF CapInv

LEMMA CapStep ==
  ASSUME Typed, Typed', CapInv, 0 \notin Caps, [Next]_vars
  PROVE  CapInv'
  <1> USE DEF Mapped, Claims, At, Goto, Return, Idle, settings, pnlVars, sessionVars, brokerVars,
              masterVars, Events
  <1> DEFINE Shrinks == Mapped' \subseteq Mapped /\ Claims' \subseteq Claims
  <1>1. ASSUME NEW h \in Handlers, NEW m \in Tickets, NEW e \in Events, NEW v \in Pnls,
               Receive(h, m, e, v)
        PROVE  Shrinks
    BY <1>1 DEF Receive, Typed, TypeOK
  <1>2. ASSUME NEW m \in Tickets, NEW e \in Events, Lose(m, e) PROVE Shrinks
    BY <1>2 DEF Lose
  <1>3. ASSUME NEW h \in Handlers, HandlerStep(h) PROVE CapInv'
    <2> USE DEF Typed, TypeOK, ThreadOK, Thread
    <2>1. CASE CheckRunning(h)
      <3>1. Shrinks  BY <2>1 DEF CheckRunning
      <3> QED  BY <3>1, CapShrinks
    <2>2. CASE GuardPaused(h)
      <3>1. At(h, "paused") /\ (Return(h) \/ Goto(h, "cap")) /\ UNCHANGED ticket_map
        BY <2>2, Zenon DEF GuardPaused
      <3>2. Shrinks  BY <3>1
      <3> QED  BY <3>2, CapShrinks
    <2>3. CASE GuardConcurrent(h)  BY <2>3, CapGuarded
    <2>4. CASE MapSymbol(h)
      <3>1. Shrinks  BY <2>4 DEF MapSymbol
      <3> QED  BY <3>1, CapShrinks
    <2>5. CASE GuardSlippage(h)
      <3>1. Shrinks  BY <2>5 DEF GuardSlippage
      <3> QED  BY <3>1, CapShrinks
    <2>6. CASE ExecuteTrade(h)
      <3>1. Shrinks  BY <2>6 DEF ExecuteTrade
      <3> QED  BY <3>1, CapShrinks
    <2>7. CASE ExecuteTradeFails(h)
      <3>1. Shrinks  BY <2>7 DEF ExecuteTradeFails
      <3> QED  BY <3>1, CapShrinks
    <2>8. CASE RecordTicket(h)  BY <2>8, CapRecorded
    <2>9. CASE AddOpenTrade(h)
      <3>1. Shrinks  BY <2>9 DEF AddOpenTrade
      <3> QED  BY <3>1, CapShrinks
    <2>10. CASE CloseStep(h)
      <3>1. UNCHANGED ticket_map \/ ticket_map' = [ticket_map EXCEPT ![thread[h].ticket] = None]
        BY <2>10 DEF CloseStep, LookupTicket, CloseTrade, CloseTradeFails, Unmap, ReadDailyPnl,
                     WriteDailyPnl, CloseTradeRecord, CheckLossLimit
      <3>2. Claims' \subseteq Claims
        BY <2>10 DEF CloseStep, LookupTicket, CloseTrade, CloseTradeFails, Unmap, ReadDailyPnl,
                     WriteDailyPnl, CloseTradeRecord, CheckLossLimit
      <3>3. Mapped' \subseteq Mapped  BY <3>1
      <3> QED  BY <3>2, <3>3, CapShrinks
    <2> QED
      BY <1>3, <2>1, <2>2, <2>3, <2>4, <2>5, <2>6, <2>7, <2>8, <2>9, <2>10
         DEF HandlerStep, OpenStep
  <1>4. ASSUME UserStep PROVE Shrinks
    BY <1>4 DEF UserStep, StartListening, StopListening, SetMaxConcurrent, SetDailyLossLimit,
                SetSymbols, ResetDailyStats, Restart
  <1>5. ASSUME BrokerStopOut PROVE Shrinks  BY <1>5 DEF BrokerStopOut
  <1>6. ASSUME UNCHANGED vars PROVE Shrinks  BY <1>6 DEF vars
  <1> QED  BY <1>1, <1>2, <1>3, <1>4, <1>5, <1>6, CapShrinks DEF Next

\* Guard 1 bounds the entries of ticket_map plus the threads about to add one by
\* the cap plus one per thread that can run next to another, for every cap the
\* user may switch to while signals are handled.
THEOREM SlaveCapOvershoot == Spec => []CapOvershoot
  <1>1. CASE 0 \in Caps
    <2>1. CapOvershoot  BY <1>1 DEF CapOvershoot
    <2> QED  BY <2>1, PTL
  <1>2. CASE 0 \notin Caps
    <2>1. Init => CapInv
      <3> SUFFICES ASSUME Init PROVE CapInv  OBVIOUS
      <3>1. Typed  BY TypedInit
      <3>2. Mapped = {}  BY DEF Init, Started, Mapped
      <3>3. Claims = {}  BY DEF Init, Started, Claims, Idle
      <3>4. Cardinality(Handlers) > 0
        BY HandlersAssumption, FS_EmptySet, FS_CardinalityType
      <3>5. Cardinality({}) = 0  BY FS_EmptySet
      <3> QED  BY <3>1, <3>2, <3>3, <3>4, <3>5, CapFinite, SettingsAssumption DEF CapInv
    <2>2. Typed /\ Typed' /\ CapInv /\ [Next]_vars => CapInv'  BY <1>2, CapStep
    <2>3. CapInv => CapOvershoot  BY DEF CapInv, CapOvershoot
    <2> QED  BY <2>1, <2>2, <2>3, SlaveTypeCorrect, PTL DEF Spec
  <1> QED  BY <1>1, <1>2

----------------------------------------------------------------------------
(* No orphaned position *)

\* A master that opens a ticket once, a broker whose results arrive, and a node
\* that is not restarted while it holds positions.
Undisturbed == MaxOpens <= 1 /\ "unreported" \notin Env /\ "restart" \notin Env

\* At most one OPEN and one CLOSE thread per ticket; until the OPEN thread writes
\* its entry there is none, and from its lookup to its deletion the CLOSE thread
\* works on the entry ticket_map still has.
OneSignal ==
    /\ \A m \in Tickets : closes[m] <= opens[m] /\ opens[m] <= 1
    /\ \A h \in Handlers : /\ thread[h].event = "OPEN" => opens[thread[h].ticket] = 1
                           /\ thread[h].event = "CLOSE" => closes[thread[h].ticket] = 1
    /\ \A h, k \in Handlers :
          /\ thread[h].event # None
          /\ thread[h].event = thread[k].event
          /\ thread[h].ticket = thread[k].ticket
          => h = k

EntryOwned ==
    /\ \A m \in Mapped : opens[m] = 1 /\ ticket_map[m] \in issued
    /\ \A h \in Handlers :
          /\ thread[h].event = "OPEN" /\ thread[h].pc # "session"
                => ticket_map[thread[h].ticket] = None
          /\ thread[h].pc \in {"close", "unmap"}
                => ticket_map[thread[h].ticket] = thread[h].slave
          /\ thread[h].pc = "unmap" => position[thread[h].slave] = None
          /\ thread[h].pc = "record" => thread[h].slave \in issued
          /\ thread[h].pc = "idle" => thread[h].event = None

OrphanInv == OneSignal /\ EntryOwned /\ NoOrphan

\* A step of handler thread h moves only that thread, which keeps its signal or
\* returns, and sends nothing on the master's behalf.
LEMMA HandlerFrame ==
  ASSUME Typed, NEW h \in Handlers, HandlerStep(h)
  PROVE  /\ UNCHANGED masterVars
         /\ \A k \in Handlers : k # h => thread'[k] = thread[k]
         /\ thread[h].pc # "idle"
         /\ \/ thread'[h] = Idle
            \/ /\ thread'[h].event = thread[h].event
               /\ thread'[h].ticket = thread[h].ticket
               /\ thread'[h].pc # "idle"
  <1> USE DEF Typed, TypeOK, Thread, At, Goto, Return
  <1>1. CASE CheckRunning(h)  BY <1>1 DEF CheckRunning
  <1>2. CASE GuardPaused(h)
    <2>1. At(h, "paused") /\ (Return(h) \/ Goto(h, "cap")) /\ UNCHANGED masterVars
      BY <1>2, Zenon DEF GuardPaused
    <2> QED  BY <2>1
  <1>3. CASE GuardConcurrent(h) \/ MapSymbol(h)
    BY <1>3 DEF GuardConcurrent, MapSymbol
  <1>4. CASE ExecuteTrade(h)  BY <1>4 DEF ExecuteTrade
  <1>10. CASE GuardSlippage(h)
    <2>1. At(h, "price") /\ (Return(h) \/ Goto(h, "send")) /\ UNCHANGED masterVars
      BY <1>10, Zenon DEF GuardSlippage
    <2> QED  BY <2>1
  <1>7. CASE ExecuteTradeFails(h)
    <2>1. Return(h) /\ At(h, "send") /\ UNCHANGED masterVars  BY <1>7 DEF ExecuteTradeFails
    <2> QED  BY <2>1
  <1>8. CASE RecordTicket(h)  BY <1>8 DEF RecordTicket
  <1>9. CASE AddOpenTrade(h)  BY <1>9 DEF AddOpenTrade
  <1>5. CASE LookupTicket(h) \/ CloseTrade(h) \/ CloseTradeFails(h) \/ Unmap(h)
    BY <1>5 DEF LookupTicket, CloseTrade, CloseTradeFails, Unmap
  <1>6. CASE ReadDailyPnl(h) \/ WriteDailyPnl(h) \/ CloseTradeRecord(h) \/ CheckLossLimit(h)
    BY <1>6 DEF ReadDailyPnl, WriteDailyPnl, CloseTradeRecord, CheckLossLimit
  <1> QED
    BY HandlerStep(h), <1>1, <1>2, <1>3, <1>4, <1>5, <1>6, <1>7, <1>8, <1>9, <1>10
       DEF HandlerStep, OpenStep, CloseStep

LEMMA OneSignalStep ==
  ASSUME Typed, OneSignal, EntryOwned, Undisturbed, [Next]_vars
  PROVE  OneSignal'
  <1> USE DEF OneSignal, masterVars
  <1>1. ASSUME NEW h \in Handlers, NEW m \in Tickets, NEW e \in Events, NEW v \in Pnls,
               Receive(h, m, e, v)
        PROVE  OneSignal'
    <2>1. /\ thread'[h].event = e /\ thread'[h].ticket = m
          /\ \A k \in Handlers : k # h => thread'[k] = thread[k]
      BY <1>1 DEF Receive, Typed, TypeOK
    <2>2. \A k \in Handlers : thread[k].event \in Events => thread[k].ticket \in Tickets
      BY NoneAssumption DEF EntryOwned, Typed, ThreadOK, Events
    <2>3. CASE e = "OPEN"
      <3>1. closes[m] = opens[m] /\ opens[m] = 0
            /\ opens' = [opens EXCEPT ![m] = 1] /\ closes' = closes
        <4>1. /\ closes[m] = opens[m] /\ opens[m] < MaxOpens /\ closes' = closes
              /\ opens' = [opens EXCEPT ![m] = opens[m] + 1]
          BY <1>1, <2>3 DEF Receive, Emit
        <4>2. opens[m] \in Nat /\ MaxOpens \in Nat /\ MaxOpens <= 1
          BY SignalsAssumption DEF Undisturbed, Typed, TypeOK
        <4>3. opens[m] = 0  BY <4>1, <4>2
        <4>4. opens[m] + 1 = 1  BY <4>3
        <4> QED  BY <4>1, <4>3, <4>4, Zenon
      <3>2. \A k \in Handlers : ~(thread[k].event = "OPEN" /\ thread[k].ticket = m)
        BY <3>1
      <3> QED  BY <2>1, <2>2, <2>3, <3>1, <3>2 DEF Typed, TypeOK, Events
    <2>4. CASE e = "CLOSE"
      <3>1. closes[m] = 0 /\ opens[m] = 1 /\ closes' = [closes EXCEPT ![m] = 1] /\ opens' = opens
        BY <1>1, <2>4 DEF Receive, Emit, Typed, TypeOK
      <3>2. \A k \in Handlers : ~(thread[k].event = "CLOSE" /\ thread[k].ticket = m)
        BY <3>1
      <3> QED  BY <2>1, <2>2, <2>4, <3>1, <3>2 DEF Typed, TypeOK, Events
    <2> QED  BY <2>3, <2>4 DEF Events
  <1>2. ASSUME NEW m \in Tickets, NEW e \in Events, Lose(m, e) PROVE OneSignal'
    <2>1. \A k \in Handlers : thread[k].event \in Events => thread[k].ticket \in Tickets
      BY NoneAssumption DEF EntryOwned, Typed, ThreadOK, Events
    <2> QED  BY <1>2, <2>1, SignalsAssumption DEF Lose, Emit, Undisturbed, Typed, TypeOK, Events
  <1>3. ASSUME NEW h \in Handlers, HandlerStep(h) PROVE OneSignal'
    <2>1. UNCHANGED masterVars  BY <1>3, HandlerFrame
    <2>2. \A k \in Handlers : \/ thread'[k].event = None
                              \/ /\ thread'[k].event = thread[k].event
                                 /\ thread'[k].ticket = thread[k].ticket
      BY <1>3, HandlerFrame DEF Idle
    <2>3. None # "OPEN" /\ None # "CLOSE"  BY NoneAssumption DEF Events
    <2> QED  BY <2>1, <2>2, <2>3
  <1>4. CASE UserStep \/ BrokerStopOut \/ UNCHANGED vars
    <2>1. UNCHANGED <<opens, closes, thread>>
      BY <1>4 DEF UserStep, StartListening, StopListening, SetMaxConcurrent, SetDailyLossLimit,
                  SetSymbols, ResetDailyStats, Restart, Undisturbed, BrokerStopOut, vars
    <2> QED  BY <2>1
  <1> QED  BY <1>1, <1>2, <1>3, <1>4 DEF Next

\* A thread's step that touches neither ticket_map nor the broker, and does not
\* enter or leave the steps EntryOwned and NoOrphan speak of.
LEMMA LocalStep ==
  ASSUME Typed, EntryOwned, NoOrphan, NEW h \in Handlers,
         UNCHANGED <<ticket_map, position, issued, opens>>,
         \A k \in Handlers : k # h => thread'[k] = thread[k],
         thread[h].pc # "record",
         \/ thread'[h] = Idle
         \/ /\ thread'[h].event = thread[h].event
            /\ thread'[h].ticket = thread[h].ticket
            /\ thread'[h].pc \notin {"idle", "record", "session", "close", "unmap"}
            /\ thread[h].pc # "session"
  PROVE  EntryOwned' /\ NoOrphan'
  <1>1. Mapped' = Mapped /\ Live' = Live  BY DEF Mapped, Live
  <1>2. /\ thread'[h].event = "OPEN" /\ thread'[h].pc # "session"
              => ticket_map[thread'[h].ticket] = None
        /\ thread'[h].pc \notin {"record", "close", "unmap"}
        /\ thread'[h].pc = "idle" => thread'[h].event = None
    BY NoneAssumption DEF EntryOwned, Idle, Events
  <1>3. EntryOwned'  BY <1>1, <1>2 DEF EntryOwned
  <1>4. NoOrphan'
    <2>1. \A k \in Handlers : At(k, "record") => thread'[k] = thread[k]  BY DEF At
    <2> QED  BY <1>1, <2>1 DEF NoOrphan, At
  <1> QED  BY <1>3, <1>4

LEMMA RecordKeeps ==
  ASSUME Typed, OneSignal, EntryOwned, NoOrphan, NEW h \in Handlers, RecordTicket(h)
  PROVE  EntryOwned' /\ NoOrphan'
  <1> DEFINE m == thread[h].ticket
             s == thread[h].slave
  <1>1. /\ m \in Tickets /\ s \in SlaveTickets /\ s # None /\ s \in issued
        /\ thread[h].pc = "record" /\ thread[h].event = "OPEN"
        /\ ticket_map[m] = None /\ opens[m] = 1
    BY NoneAssumption DEF RecordTicket, At, Typed, ThreadOK, EntryOwned, OneSignal
  <1>2. /\ ticket_map' = [ticket_map EXCEPT ![m] = s]
        /\ thread'[h].pc = "session"
        /\ \A k \in Handlers : k # h => thread'[k] = thread[k]
        /\ UNCHANGED <<position, issued, opens, closes>>
    BY DEF RecordTicket, Goto, Typed, TypeOK, brokerVars, masterVars
  <1>3. \A k \in Handlers : thread[k].event = "OPEN" /\ thread[k].ticket = m => k = h
    BY <1>1, NoneAssumption DEF OneSignal, Events
  <1>4. \A k \in Handlers : thread[k].pc \in {"close", "unmap"} => thread[k].ticket # m
    BY <1>1, NoneAssumption DEF EntryOwned, Typed, ThreadOK
  <1>5. \A k \in Handlers : thread[k].pc # "idle" => thread[k].ticket \in Tickets
    BY DEF Typed, ThreadOK
  <1>9. \A k \in Handlers : thread[k].event = "OPEN" => thread[k].pc # "idle"
    BY NoneAssumption DEF EntryOwned, Events
  <1> HIDE DEF m, s
  <1>6. ticket_map'[m] = s /\ \A n \in Tickets : n # m => ticket_map'[n] = ticket_map[n]
    BY <1>1, <1>2 DEF Typed, TypeOK
  <1>7. EntryOwned'
    <2>1. \A n \in Mapped' : opens'[n] = 1 /\ ticket_map'[n] \in issued'
      BY <1>1, <1>2, <1>6 DEF EntryOwned, Mapped
    <2>2. ASSUME NEW k \in Handlers, k # h
          PROVE  /\ thread'[k].event = "OPEN" /\ thread'[k].pc # "session"
                       => ticket_map'[thread'[k].ticket] = None
                 /\ thread'[k].pc \in {"close", "unmap"}
                       => ticket_map'[thread'[k].ticket] = thread'[k].slave
                 /\ thread'[k].pc = "unmap" => position'[thread'[k].slave] = None
                 /\ thread'[k].pc = "record" => thread'[k].slave \in issued'
                 /\ thread'[k].pc = "idle" => thread'[k].event = None
      BY <1>2, <1>3, <1>4, <1>5, <1>6, <1>9, <2>2 DEF EntryOwned
    <2> QED  BY <1>2, <2>1, <2>2 DEF EntryOwned
  <1>8. NoOrphan'
    <2> SUFFICES ASSUME NEW z \in Live'
                 PROVE  \/ \E n \in Tickets : ticket_map'[n] = z
                        \/ \E k \in Handlers : thread'[k].pc = "record" /\ thread'[k].slave = z
      BY DEF NoOrphan, At
    <2>1. z \in Live /\ z # None  BY <1>2, NoneAssumption DEF Live
    <2>2. CASE \E n \in Tickets : ticket_map[n] = z  BY <1>1, <1>6, <2>1, <2>2
    <2>3. CASE \E k \in Handlers : At(k, "record") /\ thread[k].slave = z
      BY <1>1, <1>2, <1>6, <2>3 DEF At, s
    <2> QED  BY <2>1, <2>2, <2>3 DEF NoOrphan
  <1> QED  BY <1>7, <1>8

LEMMA UnmapKeeps ==
  ASSUME Typed, OneSignal, EntryOwned, NoOrphan, NEW h \in Handlers, Unmap(h)
  PROVE  EntryOwned' /\ NoOrphan'
  <1> DEFINE m == thread[h].ticket
  <1>1. /\ m \in Tickets /\ thread[h].slave # None
        /\ thread[h].pc = "unmap" /\ thread[h].event = "CLOSE"
        /\ ticket_map[m] = thread[h].slave /\ position[ticket_map[m]] = None
    BY NoneAssumption DEF Unmap, At, Typed, ThreadOK, EntryOwned
  <1>2. /\ ticket_map' = [ticket_map EXCEPT ![m] = None]
        /\ UNCHANGED <<position, issued, opens>>
        /\ thread'[h].pc = "pnl" /\ thread'[h].event = "CLOSE"
        /\ \A k \in Handlers : k # h => thread'[k] = thread[k]
    <2>1. /\ ticket_map' = [ticket_map EXCEPT ![m] = None]
          /\ IF ticket_map[m] = None THEN Return(h) ELSE Goto(h, "pnl")
          /\ UNCHANGED <<brokerVars, masterVars>>
      BY DEF Unmap
    <2>2. thread' = [thread EXCEPT ![h].pc = "pnl"]  BY <1>1, <2>1 DEF Goto
    <2>3. /\ thread'[h].pc = "pnl" /\ thread'[h].event = "CLOSE"
          /\ \A k \in Handlers : k # h => thread'[k] = thread[k]
      BY <1>1, <2>2 DEF Typed, TypeOK, Thread
    <2> QED  BY <2>1, <2>3 DEF brokerVars, masterVars
  <1>3. \A k \in Handlers : thread[k].event = "CLOSE" /\ thread[k].ticket = m => k = h
    BY <1>1, NoneAssumption DEF OneSignal, Events
  <1>4. \A k \in Handlers : /\ thread[k].pc # "idle" => thread[k].ticket \in Tickets
                            /\ thread[k].event = "OPEN" => thread[k].pc # "idle"
                            /\ thread[k].pc \in {"close", "unmap"} => thread[k].event = "CLOSE"
    BY NoneAssumption DEF EntryOwned, Typed, ThreadOK, Events
  <1> HIDE DEF m
  <1>5. ticket_map'[m] = None /\ \A n \in Tickets : n # m => ticket_map'[n] = ticket_map[n]
    BY <1>1, <1>2 DEF Typed, TypeOK
  <1>6. EntryOwned'
    <2>1. \A n \in Mapped' : opens'[n] = 1 /\ ticket_map'[n] \in issued'
      BY <1>2, <1>5 DEF EntryOwned, Mapped
    <2>2. ASSUME NEW k \in Handlers, k # h
          PROVE  /\ thread'[k].event = "OPEN" /\ thread'[k].pc # "session"
                       => ticket_map'[thread'[k].ticket] = None
                 /\ thread'[k].pc \in {"close", "unmap"}
                       => ticket_map'[thread'[k].ticket] = thread'[k].slave
                 /\ thread'[k].pc = "unmap" => position'[thread'[k].slave] = None
                 /\ thread'[k].pc = "record" => thread'[k].slave \in issued'
                 /\ thread'[k].pc = "idle" => thread'[k].event = None
      BY <1>2, <1>3, <1>4, <1>5, <2>2 DEF EntryOwned
    <2> QED  BY <1>2, <2>1, <2>2 DEF EntryOwned
  <1>7. NoOrphan'
    <2> SUFFICES ASSUME NEW z \in Live'
                 PROVE  \/ \E n \in Tickets : ticket_map'[n] = z
                        \/ \E k \in Handlers : thread'[k].pc = "record" /\ thread'[k].slave = z
      BY DEF NoOrphan, At
    <2>1. z \in Live /\ z # ticket_map[m]  BY <1>1, <1>2 DEF Live
    <2>2. CASE \E n \in Tickets : ticket_map[n] = z  BY <1>5, <2>1, <2>2
    <2>3. CASE \E k \in Handlers : At(k, "record") /\ thread[k].slave = z
      BY <1>1, <1>2, <2>3 DEF At
    <2> QED  BY <2>1, <2>2, <2>3 DEF NoOrphan
  <1> QED  BY <1>6, <1>7

\* The broker opens a position under a ticket it never used before, so no CLOSE
\* thread can be working on it.
LEMMA ExecuteKeeps ==
  ASSUME Typed, EntryOwned, NoOrphan, NEW h \in Handlers, ExecuteTrade(h)
  PROVE  EntryOwned' /\ NoOrphan'
  <1>1. PICK s \in SlaveTickets :
           /\ s \notin issued /\ issued' = issued \cup {s}
           /\ position' = [position EXCEPT ![s] = thread[h].symbol]
           /\ thread' = [thread EXCEPT ![h].slave = s, ![h].pc = "record"]
    BY DEF ExecuteTrade, BrokerOpens
  <1>2. /\ UNCHANGED <<ticket_map, opens>> /\ thread[h].pc = "send"
        /\ thread'[h].pc = "record" /\ thread'[h].slave = s
        /\ thread'[h].event = thread[h].event /\ thread'[h].ticket = thread[h].ticket
        /\ \A k \in Handlers : k # h => thread'[k] = thread[k]
        /\ \A z \in SlaveTickets : z # s => position'[z] = position[z]
    <2>1. UNCHANGED <<ticket_map, opens>> /\ thread[h].pc = "send"
      BY DEF ExecuteTrade, At, masterVars
    <2>2. /\ thread'[h].pc = "record" /\ thread'[h].slave = s
          /\ thread'[h].event = thread[h].event /\ thread'[h].ticket = thread[h].ticket
          /\ \A k \in Handlers : k # h => thread'[k] = thread[k]
      BY <1>1 DEF Typed, TypeOK, Thread
    <2>3. \A z \in SlaveTickets : z # s => position'[z] = position[z]
      BY <1>1 DEF Typed, TypeOK
    <2> QED  BY <2>1, <2>2, <2>3
  <1>3. \A k \in Handlers : thread[k].pc = "unmap" =>
           thread[k].slave \in issued /\ thread[k].slave \in SlaveTickets
    BY NoneAssumption DEF EntryOwned, Mapped, Typed, ThreadOK
  <1>4. EntryOwned'
    <2>1. \A k \in Handlers : thread'[k].pc = "unmap" => position'[thread'[k].slave] = None
      <3> SUFFICES ASSUME NEW k \in Handlers, thread'[k].pc = "unmap"
                   PROVE  position'[thread'[k].slave] = None
        OBVIOUS
      <3>1. k # h /\ thread'[k] = thread[k]  BY <1>2
      <3>2. thread[k].slave \in SlaveTickets /\ thread[k].slave # s  BY <1>1, <1>3, <3>1
      <3>3. position[thread[k].slave] = None  BY <3>1 DEF EntryOwned
      <3> QED  BY <1>2, <3>1, <3>2, <3>3
    <2>2. ASSUME NEW k \in Handlers
          PROVE  /\ thread'[k].event = "OPEN" /\ thread'[k].pc # "session"
                       => ticket_map'[thread'[k].ticket] = None
                 /\ thread'[k].pc \in {"close", "unmap"}
                       => ticket_map'[thread'[k].ticket] = thread'[k].slave
                 /\ thread'[k].pc = "record" => thread'[k].slave \in issued'
                 /\ thread'[k].pc = "idle" => thread'[k].event = None
      <3>1. CASE k = h  BY <1>1, <1>2, <3>1 DEF EntryOwned
      <3>2. CASE k # h
        <4>1. thread'[k] = thread[k] /\ ticket_map' = ticket_map /\ issued \subseteq issued'
          BY <1>1, <1>2, <3>2
        <4> QED  BY <4>1 DEF EntryOwned
      <3> QED  BY <3>1, <3>2
    <2>3. \A n \in Mapped' : opens'[n] = 1 /\ ticket_map'[n] \in issued'
      BY <1>1, <1>2 DEF EntryOwned, Mapped
    <2> QED  BY <2>1, <2>2, <2>3 DEF EntryOwned
  <1>5. NoOrphan'
    <2> SUFFICES ASSUME NEW z \in Live'
                 PROVE  \/ \E n \in Tickets : ticket_map'[n] = z
                        \/ \E k \in Handlers : thread'[k].pc = "record" /\ thread'[k].slave = z
      BY DEF NoOrphan, At
    <2>1. CASE z = s  BY <1>2, <2>1
    <2>2. CASE z # s
      <3>1. z \in Live  BY <1>2, <2>2 DEF Live
      <3>2. CASE \E n \in Tickets : ticket_map[n] = z  BY <1>2, <3>2
      <3>3. CASE \E k \in Handlers : At(k, "record") /\ thread[k].slave = z
        BY <1>2, <3>3 DEF At
      <3> QED  BY <3>1, <3>2, <3>3 DEF NoOrphan
    <2> QED  BY <2>1, <2>2
  <1> QED  BY <1>4, <1>5

\* A position that goes, by a CLOSE thread or by a stop-out, leaves no orphan.
LEMMA CloseKeeps ==
  ASSUME Typed, EntryOwned, NoOrphan, NEW h \in Handlers, CloseTrade(h)
  PROVE  EntryOwned' /\ NoOrphan'
  <1>1. /\ UNCHANGED <<ticket_map, opens, issued>> /\ thread[h].pc = "close"
        /\ thread' = [thread EXCEPT ![h].pc = "unmap"]
        /\ position' = [position EXCEPT ![thread[h].slave] = None]
    BY DEF CloseTrade, At, Goto, masterVars
  <1>2. /\ thread'[h].pc = "unmap" /\ thread'[h].event = thread[h].event
        /\ thread'[h].ticket = thread[h].ticket /\ thread'[h].slave = thread[h].slave
        /\ thread[h].slave \in SlaveTickets /\ thread[h].event = "CLOSE"
        /\ \A k \in Handlers : k # h => thread'[k] = thread[k]
    BY <1>1 DEF Typed, TypeOK, ThreadOK, Thread
  <1>3. \A k \in Handlers : thread[k].pc = "unmap" => thread[k].slave \in SlaveTickets
    BY DEF Typed, ThreadOK
  <1>4. position'[thread[h].slave] = None /\ \A z \in SlaveTickets :
           position'[z] = position[z] \/ position'[z] = None
    BY <1>1, <1>2 DEF Typed, TypeOK
  <1>5. EntryOwned'  BY <1>1, <1>2, <1>3, <1>4 DEF EntryOwned, Mapped
  <1>6. NoOrphan'  BY <1>1, <1>2, <1>4 DEF NoOrphan, Live, At
  <1> QED  BY <1>5, <1>6

LEMMA LookupKeeps ==
  ASSUME Typed, EntryOwned, NoOrphan, NEW h \in Handlers, LookupTicket(h)
  PROVE  EntryOwned' /\ NoOrphan'
  <1>1. /\ UNCHANGED <<ticket_map, position, issued, opens>>
        /\ thread[h].pc = "lookup" /\ thread[h].event = "CLOSE"
        /\ \/ Return(h)
           \/ thread' = [thread EXCEPT ![h].slave = ticket_map[thread[h].ticket],
                                       ![h].pc = "close"]
    BY DEF LookupTicket, At, brokerVars, masterVars, Typed, ThreadOK
  <1>2. \A k \in Handlers : k # h => thread'[k] = thread[k]
    BY <1>1 DEF Return, Typed, TypeOK
  <1>3. CASE Return(h)
    <2>1. thread'[h] = Idle  BY <1>3 DEF Return, Typed, TypeOK
    <2> QED  BY <1>1, <1>2, <2>1, LocalStep
  <1>4. CASE thread' = [thread EXCEPT ![h].slave = ticket_map[thread[h].ticket], ![h].pc = "close"]
    <2>1. /\ thread'[h].pc = "close" /\ thread'[h].event = "CLOSE"
          /\ thread'[h].ticket = thread[h].ticket
          /\ thread'[h].slave = ticket_map[thread[h].ticket]
      BY <1>1, <1>4 DEF Typed, TypeOK, Thread
    <2>2. EntryOwned'  BY <1>1, <1>2, <2>1 DEF EntryOwned, Mapped
    <2>3. NoOrphan'  BY <1>1, <1>2, <2>1 DEF NoOrphan, Live, At
    <2> QED  BY <2>2, <2>3
  <1> QED  BY <1>1, <1>3, <1>4

\* A step that is none of the five above only moves its thread along, or ends it.
LocalActions(h) ==
    \/ CheckRunning(h) \/ GuardPaused(h) \/ GuardConcurrent(h) \/ MapSymbol(h)
    \/ GuardSlippage(h) \/ ReadDailyPnl(h) \/ WriteDailyPnl(h) \/ CloseTradeRecord(h)
    \/ CheckLossLimit(h) \/ AddOpenTrade(h)

LEMMA LocalKeeps ==
  ASSUME Typed, EntryOwned, NoOrphan, NEW h \in Handlers, LocalActions(h)
  PROVE  EntryOwned' /\ NoOrphan'
  <1> DEFINE Moves == /\ UNCHANGED <<ticket_map, brokerVars, masterVars>>
                      /\ thread[h].pc # "record" /\ thread[h].pc # "session"
                      /\ \E step \in {"paused", "cap", "symbol", "price", "send", "lookup",
                                      "add", "archive", "limit"} : thread'[h].pc = step
                      /\ thread'[h].event = thread[h].event
                      /\ thread'[h].ticket = thread[h].ticket
             Ends == /\ UNCHANGED <<ticket_map, brokerVars, masterVars>>
                     /\ thread[h].pc # "record" /\ thread'[h] = Idle
  <1>1. Moves \/ Ends
    <2> USE DEF At, Goto, Return, Typed, TypeOK, Thread
    <2>1. CASE GuardPaused(h)
      <3>1. /\ At(h, "paused") /\ (Return(h) \/ Goto(h, "cap"))
            /\ UNCHANGED <<ticket_map, brokerVars, masterVars>>
        BY <2>1, Zenon DEF GuardPaused
      <3> QED  BY <3>1
    <2>2. CASE GuardSlippage(h)
      <3>1. /\ At(h, "price") /\ (Return(h) \/ Goto(h, "send"))
            /\ UNCHANGED <<ticket_map, brokerVars, masterVars>>
        BY <2>2, Zenon DEF GuardSlippage
      <3> QED  BY <3>1
    <2>3. CASE CheckRunning(h) \/ GuardConcurrent(h) \/ MapSymbol(h)
      BY <2>3 DEF CheckRunning, GuardConcurrent, MapSymbol
    <2>4. CASE ReadDailyPnl(h) \/ WriteDailyPnl(h) \/ CloseTradeRecord(h)
      BY <2>4 DEF ReadDailyPnl, WriteDailyPnl, CloseTradeRecord
    <2>5. CASE CheckLossLimit(h) \/ AddOpenTrade(h)
      BY <2>5 DEF CheckLossLimit, AddOpenTrade
    <2> QED  BY <2>1, <2>2, <2>3, <2>4, <2>5 DEF LocalActions
  <1>2. \A k \in Handlers : k # h => thread'[k] = thread[k]
    BY HandlerFrame DEF LocalActions, HandlerStep, OpenStep, CloseStep
  <1> QED  BY <1>1, <1>2, LocalStep DEF brokerVars, masterVars

LEMMA FailKeeps ==
  ASSUME Typed, EntryOwned, NoOrphan, NEW h \in Handlers, "unreported" \notin Env,
         ExecuteTradeFails(h) \/ CloseTradeFails(h)
  PROVE  EntryOwned' /\ NoOrphan'
  <1>1. /\ UNCHANGED <<ticket_map, position, issued, opens>>
        /\ thread[h].pc # "record" /\ Return(h)
    BY DEF ExecuteTradeFails, CloseTradeFails, At, brokerVars, masterVars
  <1>2. thread'[h] = Idle /\ \A k \in Handlers : k # h => thread'[k] = thread[k]
    BY <1>1 DEF Return, Typed, TypeOK
  <1> QED  BY <1>1, <1>2, LocalStep

LEMMA OrphanStep ==
  ASSUME Typed, OrphanInv, Undisturbed, [Next]_vars
  PROVE  EntryOwned' /\ NoOrphan'
  <1> USE DEF OrphanInv
  <1>1. ASSUME NEW h \in Handlers, NEW m \in Tickets, NEW e \in Events, NEW v \in Pnls,
               Receive(h, m, e, v)
        PROVE  EntryOwned' /\ NoOrphan'
    <2>1. /\ thread'[h].pc = "running" /\ thread'[h].event = e /\ thread'[h].ticket = m
          /\ \A k \in Handlers : k # h => thread'[k] = thread[k]
          /\ thread[h].pc = "idle"
      BY <1>1 DEF Receive, At, Typed, TypeOK
    <2>2. UNCHANGED <<ticket_map, position, issued>>  BY <1>1 DEF Receive, brokerVars
    <2>3. \A n \in Tickets : opens[n] = 1 => opens'[n] = 1
      <3>1. e = "OPEN" => opens[m] < MaxOpens  BY <1>1 DEF Receive, Emit
      <3>2. e = "OPEN" => opens[m] = 0
        BY <3>1, SignalsAssumption DEF Undisturbed, Typed, TypeOK
      <3> QED  BY <1>1, <3>2 DEF Receive, Emit, Typed, TypeOK
    <2>4. e = "OPEN" => ticket_map[m] = None
      <3>1. e = "OPEN" => opens[m] < 1
        BY <1>1, SignalsAssumption DEF Receive, Emit, Undisturbed, Typed, TypeOK
      <3> QED  BY <3>1 DEF EntryOwned, Mapped
    <2>5. Mapped' = Mapped /\ Live' = Live  BY <2>2 DEF Mapped, Live
    <2>6. EntryOwned'
      <3>1. \A n \in Mapped' : opens'[n] = 1 /\ ticket_map'[n] \in issued'
        BY <2>2, <2>3, <2>5 DEF EntryOwned, Mapped
      <3> QED  BY <2>1, <2>2, <2>4, <3>1 DEF EntryOwned
    <2>7. NoOrphan'  BY <2>1, <2>2, <2>5 DEF NoOrphan, At
    <2> QED  BY <2>6, <2>7
  <1>2. ASSUME NEW m \in Tickets, NEW e \in Events, Lose(m, e)
        PROVE  EntryOwned' /\ NoOrphan'
    <2>1. UNCHANGED <<ticket_map, position, issued, thread>>  BY <1>2 DEF Lose, brokerVars
    <2>2. \A n \in Tickets : opens[n] = 1 => opens'[n] = 1
      <3>1. e = "OPEN" => opens[m] = 0
        BY <1>2, SignalsAssumption DEF Lose, Emit, Undisturbed, OneSignal, Typed, TypeOK
      <3> QED  BY <1>2, <3>1 DEF Lose, Emit, Typed, TypeOK
    <2>3. EntryOwned'  BY <2>1, <2>2 DEF EntryOwned, Mapped
    <2>4. NoOrphan'  BY <2>1 DEF NoOrphan, Live, At
    <2> QED  BY <2>3, <2>4
  <1>3. ASSUME NEW h \in Handlers, HandlerStep(h) PROVE EntryOwned' /\ NoOrphan'
    <2>1. CASE ExecuteTrade(h)  BY <2>1, ExecuteKeeps
    <2>2. CASE RecordTicket(h)  BY <2>2, RecordKeeps
    <2>3. CASE LookupTicket(h)  BY <2>3, LookupKeeps
    <2>4. CASE CloseTrade(h)  BY <2>4, CloseKeeps
    <2>5. CASE Unmap(h)  BY <2>5, UnmapKeeps
    <2>6. CASE ExecuteTradeFails(h) \/ CloseTradeFails(h)  BY <2>6, FailKeeps DEF Undisturbed
    <2>7. CASE LocalActions(h)  BY <2>7, LocalKeeps
    <2> QED
      BY <1>3, <2>1, <2>2, <2>3, <2>4, <2>5, <2>6, <2>7
         DEF HandlerStep, OpenStep, CloseStep, LocalActions
  <1>4. CASE BrokerStopOut
    <2>1. PICK s \in Live : position' = [position EXCEPT ![s] = None]
      BY <1>4 DEF BrokerStopOut
    <2>2. UNCHANGED <<ticket_map, issued, thread, opens>>
      BY <1>4 DEF BrokerStopOut, masterVars
    <2>3. \A z \in SlaveTickets : position'[z] = position[z] \/ position'[z] = None
      BY <2>1 DEF Live, Typed, TypeOK
    <2>4. \A k \in Handlers : thread[k].pc = "unmap" => thread[k].slave \in SlaveTickets
      BY DEF Typed, ThreadOK
    <2>5. EntryOwned'  BY <2>2, <2>3, <2>4 DEF EntryOwned, Mapped
    <2>6. NoOrphan'  BY <2>2, <2>3 DEF NoOrphan, Live, At
    <2> QED  BY <2>5, <2>6
  <1>5. CASE UserStep \/ UNCHANGED vars
    <2>1. UNCHANGED <<opens, thread, ticket_map, position, issued>>
      BY <1>5 DEF UserStep, StartListening, StopListening, SetMaxConcurrent, SetDailyLossLimit,
                  SetSymbols, ResetDailyStats, Restart, Undisturbed, vars, brokerVars, masterVars
    <2>2. EntryOwned'  BY <2>1 DEF EntryOwned, Mapped
    <2>3. NoOrphan'  BY <2>1 DEF NoOrphan, Live, At
    <2> QED  BY <2>2, <2>3
  <1> QED  BY <1>1, <1>2, <1>3, <1>4, <1>5 DEF Next

\* With a master that opens a ticket once and a broker whose results arrive, a
\* live copied position is always the value of an entry of ticket_map, or is
\* about to be: whatever the threads, the clicks and the network do, a CLOSE
\* signal can still reach it.
THEOREM SlaveNoOrphan == Undisturbed => (Spec => []NoOrphan)
  <1> SUFFICES ASSUME Undisturbed PROVE Spec => []NoOrphan  OBVIOUS
  <1>1. Init => OrphanInv
    <2> SUFFICES ASSUME Init PROVE OrphanInv  OBVIOUS
    <2>1. Mapped = {} /\ Live = {}  BY DEF Init, Started, Mapped, Live
    <2>2. OneSignal  BY NoneAssumption DEF Init, Started, OneSignal, Idle, Events
    <2>3. EntryOwned  BY <2>1, NoneAssumption DEF Init, Started, EntryOwned, Idle, Events
    <2>4. NoOrphan  BY <2>1 DEF NoOrphan
    <2> QED  BY <2>2, <2>3, <2>4 DEF OrphanInv
  <1>2. Typed /\ OrphanInv /\ [Next]_vars => OrphanInv'
    BY OneSignalStep, OrphanStep DEF OrphanInv
  <1>3. OrphanInv => NoOrphan  BY DEF OrphanInv
  <1> QED  BY <1>1, <1>2, <1>3, SlaveTypeCorrect, PTL DEF Spec

----------------------------------------------------------------------------
(* The cap bounds the exposure at the broker *)

\* Every live position is the value of an entry or of a claim, so entries and
\* claims bound the live positions.
LEMMA LiveCounted ==
  ASSUME Typed, NoOrphan
  PROVE  Cardinality(Live) \in Nat /\ Cardinality(Live) <= Cardinality(Mapped) + Cardinality(Claims)
  <1> DEFINE f == [m \in Mapped |-> ticket_map[m]]
             g == [h \in Claims |-> thread[h].slave]
             A == {ticket_map[m] : m \in Mapped}
             B == {thread[h].slave : h \in Claims}
  <1>1. f \in Surjection(Mapped, A) /\ g \in Surjection(Claims, B)  BY DEF Surjection
  <1>2. Live \in SUBSET (A \cup B)
    BY NoneAssumption DEF NoOrphan, Live, Mapped, Claims, At, Typed, ThreadOK
  <1> HIDE DEF f, g, A, B
  <1>3. IsFiniteSet(A) /\ Cardinality(A) <= Cardinality(Mapped)  BY <1>1, CapFinite, FS_Surjection
  <1>4. IsFiniteSet(B) /\ Cardinality(B) <= Cardinality(Claims)  BY <1>1, CapFinite, FS_Surjection
  <1>5. IsFiniteSet(A \cup B) /\
        Cardinality(A \cup B) = Cardinality(A) + Cardinality(B) - Cardinality(A \cap B)
    BY <1>3, <1>4, FS_Union
  <1>6. IsFiniteSet(A \cap B)  BY <1>3, FS_Subset, A \cap B \in SUBSET A
  <1>7. /\ Cardinality(A) \in Nat /\ Cardinality(B) \in Nat /\ Cardinality(A \cap B) \in Nat
        /\ Cardinality(A \cup B) \in Nat
    BY <1>3, <1>4, <1>5, <1>6, FS_CardinalityType
  <1>8. IsFiniteSet(Live) /\ Cardinality(Live) <= Cardinality(A \cup B)
    BY <1>2, <1>5, FS_Subset
  <1>9. Cardinality(Live) \in Nat  BY <1>8, FS_CardinalityType
  <1> QED  BY <1>3, <1>4, <1>5, <1>7, <1>8, <1>9, CapFinite

\* Guard 1 counts the entries of a dict; what the user is at risk for is the
\* positions at the broker.  The cap, plus one per thread that can run next to
\* another, bounds those too, as no position escapes the dict.
THEOREM SlaveLiveWithinCap == Undisturbed => (Spec => []LiveWithinCap)
  <1> SUFFICES ASSUME Undisturbed PROVE Spec => []LiveWithinCap  OBVIOUS
  <1>1. Typed /\ NoOrphan /\ CapOvershoot => LiveWithinCap
    <2> SUFFICES ASSUME Typed, NoOrphan, CapOvershoot, 0 \notin Caps
                 PROVE  Cardinality(Live) <= TopCap + Cardinality(Handlers) - 1
      BY DEF LiveWithinCap
    <2> QED  BY LiveCounted, CapFinite, SettingsAssumption DEF CapOvershoot
  <1> QED  BY <1>1, SlaveTypeCorrect, SlaveCapOvershoot, SlaveNoOrphan, PTL

----------------------------------------------------------------------------
(* The daily loss limit *)

\* A limit the user leaves alone is enforced in every interleaving of CLOSE
\* threads, resets and restarts: whoever takes daily_pnl to the limit has yet to
\* compare the two, and nothing but a reset takes the pause back.
THEOREM SlaveLossLimit ==
  (\A x, y \in LossLimits : x = y) => (Spec => []LossLimitEnforced)
  <1> SUFFICES ASSUME \A x, y \in LossLimits : x = y PROVE Spec => []LossLimitEnforced
    OBVIOUS
  <1> USE DEF LossLimitEnforced, LossLimitHit
  <1>1. Init => LossLimitEnforced
    <2> SUFFICES ASSUME Init PROVE ~LossLimitHit  OBVIOUS
    <2> QED  BY SettingsAssumption DEF Init, Started
  <1>2. Typed /\ Typed' /\ LossLimitEnforced /\ [Next]_vars => LossLimitEnforced'
    <2> SUFFICES ASSUME Typed, Typed', LossLimitEnforced, [Next]_vars
                 PROVE  LossLimitEnforced'
      OBVIOUS
    <2>1. daily_loss_limit' = daily_loss_limit /\ daily_loss_limit \in Nat
      BY SettingsAssumption DEF Typed, TypeOK
    <2> DEFINE Checking == \E h \in Handlers : thread[h].pc \in {"archive", "limit"}
               Kept == /\ UNCHANGED <<daily_pnl, copying_paused_by_loss>>
                       /\ Checking => Checking'
    <2>2. ASSUME Kept PROVE LossLimitEnforced'
      <3>1. LossLimitHit' <=> LossLimitHit  BY <2>1, <2>2
      <3> QED  BY <2>2, <3>1, Zenon
    <2>3. ASSUME NEW h \in Handlers, HandlerStep(h) PROVE LossLimitEnforced'
      <3>1. \A k \in Handlers : k # h => thread'[k] = thread[k]  BY <2>3, HandlerFrame
      <3>2. CASE WriteDailyPnl(h)
        <4>1. thread'[h].pc = "archive"
          BY <3>2 DEF WriteDailyPnl, Goto, Typed, TypeOK, Thread
        <4> QED  BY <4>1
      <3>3. CASE CloseTradeRecord(h)
        <4>1. thread'[h].pc = "limit" /\ UNCHANGED <<daily_pnl, copying_paused_by_loss>>
          BY <3>3 DEF CloseTradeRecord, Goto, Typed, TypeOK, Thread, pnlVars
        <4> QED  BY <2>2, <3>1, <4>1
      <3>4. CASE CheckLossLimit(h)
        <4>1. copying_paused_by_loss' = (copying_paused_by_loss \/ LossLimitHit)
              /\ daily_pnl' = daily_pnl /\ At(h, "limit")
          BY <3>4, Zenon DEF CheckLossLimit
        <4>2. LossLimitHit' <=> LossLimitHit  BY <2>1, <4>1
        <4>3. LossLimitHit' => copying_paused_by_loss'  BY <4>1, <4>2, Zenon
        <4> QED  BY <4>3, Zenon
      <3>5. CASE ~WriteDailyPnl(h) /\ ~CloseTradeRecord(h) /\ ~CheckLossLimit(h)
        <4>1. UNCHANGED pnlVars /\ thread[h].pc \notin {"archive", "limit"}
          BY <2>3, <3>5
             DEF HandlerStep, OpenStep, CloseStep, CheckRunning, GuardPaused, GuardConcurrent,
                 MapSymbol, GuardSlippage, ExecuteTrade, ExecuteTradeFails, RecordTicket,
                 AddOpenTrade, LookupTicket, CloseTrade, CloseTradeFails, Unmap, ReadDailyPnl, At
        <4> QED  BY <2>2, <3>1, <4>1 DEF pnlVars
      <3> QED  BY <3>2, <3>3, <3>4, <3>5
    <2>4. ASSUME NEW h \in Handlers, NEW m \in Tickets, NEW e \in Events, NEW v \in Pnls,
                 Receive(h, m, e, v)
          PROVE  Kept
      BY <2>4 DEF Receive, At, pnlVars, Typed, TypeOK
    <2>5. CASE ResetDailyStats \/ Restart
      <3>1. daily_pnl' = 0  BY <2>5 DEF ResetDailyStats, Restart
      <3>2. ~LossLimitHit'  BY <2>1, <3>1
      <3> QED  BY <3>2
    <2>6. ASSUME NEW m \in Tickets, NEW e \in Events, Lose(m, e) PROVE Kept
      BY <2>6 DEF Lose, pnlVars
    <2>7. CASE UserStep /\ ~ResetDailyStats /\ ~Restart
      <3>1. Kept
        BY <2>7 DEF UserStep, StartListening, StopListening, SetMaxConcurrent,
                    SetDailyLossLimit, SetSymbols, pnlVars
      <3> QED  BY <2>2, <3>1
    <2>8. CASE BrokerStopOut \/ UNCHANGED vars
      <3>1. Kept  BY <2>8 DEF BrokerStopOut, vars, pnlVars
      <3> QED  BY <2>2, <3>1
    <2> QED  BY <2>2, <2>3, <2>4, <2>5, <2>6, <2>7, <2>8 DEF Next
  <1> QED  BY <1>1, <1>2, SlaveTypeCorrect, PTL DEF Spec

----------------------------------------------------------------------------
(* No dangling entry *)

\* Positions end only at the hands of a CLOSE thread that is told so.
Reported == "stopout" \notin Env /\ "unreported" \notin Env

\* Threads that work on a slave ticket
Holding == {"record", "close", "unmap"}

\* A thread that is to open a position knows the symbol; a slave ticket is held for
\* one master ticket only, by the entry or by threads; the one just opened is held by
\* its thread alone, and is live.
Symbolic == \A h \in Handlers : thread[h].pc \in {"price", "send"} => thread[h].symbol \in Symbols

OneOwner ==
    /\ \A m \in Mapped : ticket_map[m] \in issued
    /\ \A m, n \in Mapped : ticket_map[m] = ticket_map[n] => m = n
    /\ \A h \in Handlers : thread[h].pc \in Holding => thread[h].slave \in issued
    /\ \A h \in Handlers, m \in Mapped :
          thread[h].pc \in {"close", "unmap"} /\ ticket_map[m] = thread[h].slave
              => m = thread[h].ticket

Fresh ==
    \A h \in Handlers : thread[h].pc = "record" =>
        /\ position[thread[h].slave] # None
        /\ \A m \in Tickets : ticket_map[m] # thread[h].slave
        /\ \A k \in Handlers : k # h /\ thread[k].pc \in Holding
              => thread[k].slave # thread[h].slave

DanglingInv == Symbolic /\ OneOwner /\ Fresh /\ NoDangling

\* A step that leaves map and broker alone, and moves its thread to no slave ticket it
\* did not hold.
LEMMA DanglingLocal ==
  ASSUME Typed, DanglingInv, NEW h \in Handlers,
         UNCHANGED <<ticket_map, position, issued>>,
         \A k \in Handlers : k # h => thread'[k] = thread[k],
         thread[h].pc # "unmap",
         thread'[h].pc \notin Holding,
         thread'[h].pc \in {"price", "send"} => thread'[h].symbol \in Symbols
  PROVE  DanglingInv'
  <1>1. Mapped' = Mapped /\ Live' = Live  BY DEF Mapped, Live
  <1>2. Symbolic'  BY DEF DanglingInv, Symbolic
  <1>3. OneOwner'  BY <1>1 DEF DanglingInv, OneOwner, Holding
  <1>4. Fresh'  BY DEF DanglingInv, Fresh, Holding
  <1>5. NoDangling'  BY <1>1 DEF DanglingInv, NoDangling, At
  <1> QED  BY <1>2, <1>3, <1>4, <1>5 DEF DanglingInv

LEMMA DanglingExecute ==
  ASSUME Typed, DanglingInv, NEW h \in Handlers, ExecuteTrade(h)
  PROVE  DanglingInv'
  <1>1. PICK s \in SlaveTickets :
           /\ s \notin issued /\ issued' = issued \cup {s}
           /\ position' = [position EXCEPT ![s] = thread[h].symbol]
           /\ thread' = [thread EXCEPT ![h].slave = s, ![h].pc = "record"]
    BY DEF ExecuteTrade, BrokerOpens
  <1>2. UNCHANGED ticket_map /\ thread[h].pc = "send"  BY DEF ExecuteTrade, At
  <1>3. /\ thread'[h].pc = "record" /\ thread'[h].slave = s
        /\ thread'[h].ticket = thread[h].ticket
        /\ \A k \in Handlers : k # h => thread'[k] = thread[k]
    BY <1>1 DEF Typed, TypeOK, Thread
  <1>4. thread[h].symbol \in Symbols /\ thread[h].symbol # None
    BY <1>2, NoneAssumption DEF DanglingInv, Symbolic
  <1>5. /\ position'[s] # None
        /\ \A z \in SlaveTickets : z # s => position'[z] = position[z]
    BY <1>1, <1>4 DEF Typed, TypeOK
  <1>6. Mapped' = Mapped /\ Live \subseteq Live'  BY <1>2, <1>5 DEF Mapped, Live
  <1>7. Symbolic'  BY <1>3 DEF DanglingInv, Symbolic
  <1>8. OneOwner'
    <2>1. \A k \in Handlers : thread'[k].pc \in {"close", "unmap"} => k # h
      BY <1>3
    <2>2. \A k \in Handlers : thread'[k].pc \in Holding =>
              k = h \/ (thread'[k] = thread[k] /\ thread[k].pc \in Holding)
      BY <1>3
    <2>3. \A m, n \in Mapped' : /\ ticket_map'[m] \in issued'
                                /\ ticket_map'[m] = ticket_map'[n] => m = n
      BY <1>1, <1>2, <1>6 DEF DanglingInv, OneOwner
    <2>4. \A k \in Handlers : thread'[k].pc \in Holding => thread'[k].slave \in issued'
      <3>1. s \in issued' /\ issued \subseteq issued'  BY <1>1
      <3>2. \A k \in Handlers : thread[k].pc \in Holding => thread[k].slave \in issued
        BY DEF DanglingInv, OneOwner
      <3> HIDE DEF Holding
      <3> QED  BY <1>3, <2>2, <3>1, <3>2
    <2>5. \A k \in Handlers, m \in Mapped' :
              thread'[k].pc \in {"close", "unmap"} /\ ticket_map'[m] = thread'[k].slave
                  => m = thread'[k].ticket
      BY <1>2, <1>3, <1>6, <2>1 DEF DanglingInv, OneOwner
    <2> HIDE DEF Holding
    <2> QED  BY <2>3, <2>4, <2>5, Zenon DEF OneOwner, Holding
  <1>9. Fresh'
    <2>1. \A m \in Tickets : ticket_map'[m] # s
      BY <1>1, <1>2, NoneAssumption DEF DanglingInv, OneOwner, Mapped
    <2>2. \A k \in Handlers : k # h /\ thread[k].pc \in Holding => thread[k].slave # s
      BY <1>1 DEF DanglingInv, OneOwner
    <2>3. \A k \in Handlers : thread[k].pc = "record" => thread[k].slave \in SlaveTickets
      BY DEF Typed, ThreadOK
    <2>4. ASSUME NEW k \in Handlers, k # h, thread[k].pc = "record"
          PROVE  position'[thread[k].slave] # None
      BY <1>5, <2>3, <2>4 DEF DanglingInv, Fresh
    <2> QED  BY <1>2, <1>3, <1>5, <2>1, <2>2, <2>4 DEF DanglingInv, Fresh, Holding
  <1>10. NoDangling'  BY <1>2, <1>3, <1>6 DEF DanglingInv, NoDangling, At
  <1> QED  BY <1>7, <1>8, <1>9, <1>10 DEF DanglingInv

LEMMA DanglingRecord ==
  ASSUME Typed, DanglingInv, NEW h \in Handlers, RecordTicket(h)
  PROVE  DanglingInv'
  <1> DEFINE m == thread[h].ticket
             s == thread[h].slave
  <1>1. m \in Tickets /\ s \in SlaveTickets /\ s # None /\ thread[h].pc = "record"
    BY NoneAssumption DEF RecordTicket, At, Typed, ThreadOK
  <1>2. /\ ticket_map' = [ticket_map EXCEPT ![m] = s]
        /\ thread'[h].pc = "session"
        /\ \A k \in Handlers : k # h => thread'[k] = thread[k]
        /\ UNCHANGED <<position, issued>>
    BY DEF RecordTicket, Goto, Typed, TypeOK, brokerVars
  <1>3. /\ s \in Live /\ s \in issued
        /\ \A n \in Tickets : ticket_map[n] # s
        /\ \A k \in Handlers : k # h /\ thread[k].pc \in Holding => thread[k].slave # s
    BY <1>1 DEF DanglingInv, Fresh, OneOwner, Holding, Live
  <1> HIDE DEF m, s
  <1>4. ticket_map'[m] = s /\ \A n \in Tickets : n # m => ticket_map'[n] = ticket_map[n]
    BY <1>1, <1>2 DEF Typed, TypeOK
  <1>5. Mapped' = Mapped \cup {m} /\ Live' = Live  BY <1>1, <1>2, <1>4 DEF Mapped, Live
  <1>6. Symbolic'  BY <1>2 DEF DanglingInv, Symbolic
  <1>7. OneOwner'
    BY <1>1, <1>2, <1>3, <1>4, <1>5 DEF DanglingInv, OneOwner, Holding, Mapped
  <1>8. Fresh'  BY <1>1, <1>2, <1>3, <1>4 DEF DanglingInv, Fresh, Holding
  <1>9. NoDangling'  BY <1>1, <1>2, <1>3, <1>4, <1>5 DEF DanglingInv, NoDangling, Mapped, At
  <1> QED  BY <1>6, <1>7, <1>8, <1>9 DEF DanglingInv

LEMMA DanglingLookup ==
  ASSUME Typed, DanglingInv, NEW h \in Handlers, LookupTicket(h)
  PROVE  DanglingInv'
  <1>1. /\ UNCHANGED <<ticket_map, position, issued>> /\ thread[h].pc = "lookup"
        /\ \/ Return(h)
           \/ /\ ticket_map[thread[h].ticket] # None
              /\ thread' = [thread EXCEPT ![h].slave = ticket_map[thread[h].ticket],
                                          ![h].pc = "close"]
    BY DEF LookupTicket, At, brokerVars
  <1>2. \A k \in Handlers : k # h => thread'[k] = thread[k]
    BY <1>1 DEF Return, Typed, TypeOK
  <1>3. CASE Return(h)
    <2>1. thread'[h] = Idle  BY <1>3 DEF Return, Typed, TypeOK
    <2> QED  BY <1>1, <1>2, <2>1, DanglingLocal DEF Idle, Holding
  <1>4. CASE /\ ticket_map[thread[h].ticket] # None
             /\ thread' = [thread EXCEPT ![h].slave = ticket_map[thread[h].ticket],
                                         ![h].pc = "close"]
    <2> DEFINE m == thread[h].ticket
    <2>1. /\ thread'[h].pc = "close" /\ thread'[h].ticket = m
          /\ thread'[h].slave = ticket_map[m] /\ m \in Mapped
      BY <1>1, <1>4 DEF Typed, TypeOK, ThreadOK, Thread, Mapped
    <2> HIDE DEF m
    <2>2. Mapped' = Mapped /\ Live' = Live  BY <1>1 DEF Mapped, Live
    <2>3. Symbolic'  BY <1>2, <2>1 DEF DanglingInv, Symbolic
    <2>4. OneOwner'  BY <1>1, <1>2, <2>1, <2>2 DEF DanglingInv, OneOwner, Holding
    <2>5. Fresh'  BY <1>1, <1>2, <2>1 DEF DanglingInv, Fresh, Holding, Mapped
    <2>6. NoDangling'  BY <1>1, <1>2, <2>1, <2>2 DEF DanglingInv, NoDangling, At
    <2> QED  BY <2>3, <2>4, <2>5, <2>6 DEF DanglingInv
  <1> QED  BY <1>1, <1>3, <1>4

\* The position that ends is that of the entry this thread is about to delete.
LEMMA DanglingClose ==
  ASSUME Typed, DanglingInv, NEW h \in Handlers, CloseTrade(h)
  PROVE  DanglingInv'
  <1> DEFINE s == thread[h].slave
  <1>1. /\ UNCHANGED <<ticket_map, issued>> /\ thread[h].pc = "close"
        /\ thread' = [thread EXCEPT ![h].pc = "unmap"]
        /\ position' = [position EXCEPT ![s] = None]
    BY DEF CloseTrade, At, Goto
  <1>2. /\ thread'[h].pc = "unmap" /\ thread'[h].ticket = thread[h].ticket
        /\ thread'[h].slave = s /\ s \in SlaveTickets
        /\ \A k \in Handlers : k # h => thread'[k] = thread[k]
    BY <1>1 DEF Typed, TypeOK, ThreadOK, Thread
  <1> HIDE DEF s
  <1>3. \A z \in SlaveTickets : z # s => position'[z] = position[z]
    BY <1>1 DEF Typed, TypeOK
  <1>4. Mapped' = Mapped  BY <1>1 DEF Mapped
  <1>5. Symbolic'  BY <1>2 DEF DanglingInv, Symbolic
  <1>6. OneOwner'  BY <1>1, <1>2, <1>4 DEF DanglingInv, OneOwner, Holding, s
  <1>7. Fresh'
    <2>1. \A k \in Handlers : thread[k].pc = "record" =>
              thread[k].slave \in SlaveTickets /\ thread[k].slave # s /\ k # h
      BY <1>1 DEF Typed, ThreadOK, DanglingInv, Fresh, Holding, s
    <2> QED  BY <1>1, <1>2, <1>3, <2>1 DEF DanglingInv, Fresh, Holding, s
  <1>8. NoDangling'
    <2> SUFFICES ASSUME NEW m \in Mapped', ticket_map'[m] \notin Live'
                 PROVE  \E k \in Handlers : thread'[k].pc = "unmap" /\ thread'[k].ticket = m
      BY DEF NoDangling, At
    <2>1. m \in Mapped /\ ticket_map[m] \in SlaveTickets /\ ticket_map' = ticket_map
      BY <1>1, <1>4, NoneAssumption DEF Mapped, Typed, TypeOK
    <2>2. CASE ticket_map[m] = s  BY <1>1, <1>2, <2>1, <2>2 DEF DanglingInv, OneOwner, s
    <2>3. CASE ticket_map[m] # s
      <3>1. ticket_map[m] \notin Live  BY <1>3, <2>1, <2>3 DEF Live
      <3>2. PICK k \in Handlers : thread[k].pc = "unmap" /\ thread[k].ticket = m
        BY <2>1, <3>1 DEF DanglingInv, NoDangling, At
      <3> QED  BY <1>1, <1>2, <3>2
    <2> QED  BY <2>2, <2>3
  <1> QED  BY <1>5, <1>6, <1>7, <1>8 DEF DanglingInv

LEMMA DanglingUnmap ==
  ASSUME Typed, DanglingInv, NEW h \in Handlers, Unmap(h)
  PROVE  DanglingInv'
  <1> DEFINE m == thread[h].ticket
  <1>1. /\ m \in Tickets /\ thread[h].pc = "unmap"
        /\ ticket_map' = [ticket_map EXCEPT ![m] = None]
        /\ UNCHANGED <<position, issued>>
        /\ Return(h) \/ Goto(h, "pnl")
    BY DEF Unmap, At, Typed, ThreadOK, brokerVars
  <1>2. \A k \in Handlers : k # h => thread'[k] = thread[k]
    BY <1>1 DEF Return, Goto, Typed, TypeOK
  <1>3. thread'[h].pc \in {"idle", "pnl"}
    BY <1>1 DEF Return, Goto, Idle, Typed, TypeOK, Thread
  <1> HIDE DEF m
  <1>4. ticket_map'[m] = None /\ \A n \in Tickets : n # m => ticket_map'[n] = ticket_map[n]
    BY <1>1 DEF Typed, TypeOK
  <1>5. Mapped' = Mapped \ {m} /\ Live' = Live  BY <1>1, <1>4 DEF Mapped, Live
  <1>6. Symbolic'  BY <1>2, <1>3 DEF DanglingInv, Symbolic
  <1>7. OneOwner'
    BY <1>1, <1>2, <1>3, <1>4, <1>5 DEF DanglingInv, OneOwner, Holding, Mapped
  <1>8. Fresh'
    <2>1. \A k \in Handlers : thread[k].pc = "record" => thread[k].slave # None
      BY NoneAssumption DEF Typed, ThreadOK
    <2> QED  BY <1>1, <1>2, <1>3, <1>4, <2>1 DEF DanglingInv, Fresh, Holding
  <1>9. NoDangling'
    BY <1>1, <1>2, <1>3, <1>4, <1>5 DEF DanglingInv, NoDangling, Mapped, At, m
  <1> QED  BY <1>6, <1>7, <1>8, <1>9 DEF DanglingInv

LEMMA DanglingStep ==
  ASSUME Typed, DanglingInv, Reported, [Next]_vars
  PROVE  DanglingInv'
  <1>1. ASSUME NEW h \in Handlers, NEW m \in Tickets, NEW e \in Events, NEW v \in Pnls,
               Receive(h, m, e, v)
        PROVE  DanglingInv'
    <2>1. /\ UNCHANGED <<ticket_map, position, issued>> /\ thread[h].pc = "idle"
          /\ thread'[h].pc = "running" /\ \A k \in Handlers : k # h => thread'[k] = thread[k]
      BY <1>1 DEF Receive, At, brokerVars, Typed, TypeOK
    <2> QED  BY <2>1, DanglingLocal DEF Holding
  <1>2. ASSUME NEW h \in Handlers, HandlerStep(h) PROVE DanglingInv'
    <2>1. \A k \in Handlers : k # h => thread'[k] = thread[k]  BY <1>2, HandlerFrame
    <2>2. CASE ExecuteTrade(h)  BY <2>2, DanglingExecute
    <2>3. CASE RecordTicket(h)  BY <2>3, DanglingRecord
    <2>4. CASE LookupTicket(h)  BY <2>4, DanglingLookup
    <2>5. CASE CloseTrade(h)  BY <2>5, DanglingClose
    <2>6. CASE Unmap(h)  BY <2>6, DanglingUnmap
    <2>7. CASE ExecuteTradeFails(h) \/ CloseTradeFails(h)
      <3>1. UNCHANGED <<ticket_map, position, issued>> /\ thread[h].pc # "unmap" /\ Return(h)
        BY <2>7 DEF ExecuteTradeFails, CloseTradeFails, At, brokerVars, Reported
      <3>2. thread'[h] = Idle  BY <3>1 DEF Return, Typed, TypeOK
      <3> QED  BY <2>1, <3>1, <3>2, DanglingLocal DEF Idle, Holding
    <2>8. CASE MapSymbol(h)
      <3>1. /\ UNCHANGED <<ticket_map, position, issued>> /\ thread[h].pc = "symbol"
            /\ SymbolOf[thread[h].ticket] \in Symbols
        BY <2>8, TicketsAssumption DEF MapSymbol, At, brokerVars, Typed, ThreadOK
      <3> DEFINE y == SlaveSymbol(SymbolOf[thread[h].ticket])
      <3>2. y \in Symbols \cup {None}  BY <3>1, SlaveSymbolType
      <3> HIDE DEF y
      <3>3. \/ Return(h)
            \/ /\ y # None
               /\ thread' = [thread EXCEPT ![h].symbol = y,
                      ![h].pc = IF thread[h].event = "OPEN" THEN "price" ELSE "lookup"]
        BY <2>8 DEF MapSymbol, y
      <3>4. \/ thread'[h] = Idle
            \/ thread'[h].pc \in {"price", "lookup"} /\ thread'[h].symbol \in Symbols
        BY <3>2, <3>3 DEF Return, Typed, TypeOK, Thread
      <3> QED  BY <2>1, <3>1, <3>4, DanglingLocal DEF Idle, Holding
    <2>9. CASE GuardSlippage(h)
      <3>1. /\ UNCHANGED <<ticket_map, position, issued>> /\ thread[h].pc = "price"
            /\ Return(h) \/ Goto(h, "send")
        BY <2>9, Zenon DEF GuardSlippage, At, brokerVars
      <3>2. thread[h].symbol \in Symbols  BY <3>1 DEF DanglingInv, Symbolic
      <3>3. thread'[h] = Idle \/ (thread'[h].pc = "send" /\ thread'[h].symbol = thread[h].symbol)
        BY <3>1 DEF Return, Goto, Typed, TypeOK, Thread
      <3> QED  BY <2>1, <3>1, <3>2, <3>3, DanglingLocal DEF Idle, Holding
    <2>10. CASE GuardPaused(h)
      <3>1. /\ UNCHANGED <<ticket_map, position, issued>> /\ thread[h].pc = "paused"
            /\ Return(h) \/ Goto(h, "cap")
        BY <2>10, Zenon DEF GuardPaused, At, brokerVars
      <3>2. thread'[h] = Idle \/ thread'[h].pc = "cap"
        BY <3>1 DEF Return, Goto, Typed, TypeOK, Thread
      <3> QED  BY <2>1, <3>1, <3>2, DanglingLocal DEF Idle, Holding
    <2>11. CASE \/ CheckRunning(h) \/ GuardConcurrent(h) \/ AddOpenTrade(h) \/ ReadDailyPnl(h)
                \/ WriteDailyPnl(h) \/ CloseTradeRecord(h) \/ CheckLossLimit(h)
      <3>1. UNCHANGED <<ticket_map, position, issued>> /\ thread[h].pc # "unmap"
        BY <2>11 DEF CheckRunning, GuardConcurrent, AddOpenTrade, ReadDailyPnl, WriteDailyPnl,
                     CloseTradeRecord, CheckLossLimit, At, brokerVars
      <3>2. \/ thread'[h] = Idle
            \/ thread'[h].pc \in {"paused", "symbol", "add", "archive", "limit"}
        BY <2>11 DEF CheckRunning, GuardConcurrent, AddOpenTrade, ReadDailyPnl, WriteDailyPnl,
                     CloseTradeRecord, CheckLossLimit, Return, Goto, Typed, TypeOK, Thread
      <3> QED  BY <2>1, <3>1, <3>2, DanglingLocal DEF Idle, Holding
    <2> QED
      BY <1>2, <2>2, <2>3, <2>4, <2>5, <2>6, <2>7, <2>8, <2>9, <2>10, <2>11
         DEF HandlerStep, OpenStep, CloseStep
  <1>3. CASE Restart
    <2>1. /\ \A m \in Tickets : ticket_map'[m] = None
          /\ \A h \in Handlers : thread'[h].pc = "idle"
      BY <1>3 DEF Restart, Idle
    <2>2. Mapped' = {}  BY <2>1 DEF Mapped
    <2> QED
      BY <2>1, <2>2 DEF DanglingInv, Symbolic, OneOwner, Fresh, NoDangling, Holding
  <1>4. CASE \/ \E m \in Tickets, e \in Events : Lose(m, e)
             \/ UserStep /\ ~Restart
             \/ BrokerStopOut
             \/ UNCHANGED vars
    <2>1. UNCHANGED <<ticket_map, position, issued, thread>>
      BY <1>4 DEF Lose, UserStep, StartListening, StopListening, SetMaxConcurrent,
                  SetDailyLossLimit, SetSymbols, ResetDailyStats, BrokerStopOut, Reported,
                  brokerVars, vars
    <2>2. Mapped' = Mapped /\ Live' = Live  BY <2>1 DEF Mapped, Live
    <2> QED
      BY <2>1, <2>2 DEF DanglingInv, Symbolic, OneOwner, Fresh, NoDangling, At
  <1> QED  BY <1>1, <1>2, <1>3, <1>4 DEF Next

\* With positions that end only by a reported CLOSE, an entry never outlives its
\* position but for the step that deletes it: however often the master reopens a ticket,
\* whatever threads race, settings change and restarts happen, Guard 1 does not count a
\* position that is gone.
THEOREM SlaveNoDangling == Reported => (Spec => []NoDangling)
  <1> SUFFICES ASSUME Reported PROVE Spec => []NoDangling  OBVIOUS
  <1>1. Init => DanglingInv
    <2> SUFFICES ASSUME Init PROVE DanglingInv  OBVIOUS
    <2>1. Mapped = {} /\ \A h \in Handlers : thread[h].pc = "idle"  BY DEF Init, Started, Mapped, Idle
    <2> QED  BY <2>1 DEF DanglingInv, Symbolic, OneOwner, Fresh, NoDangling, Holding
  <1>2. Typed /\ DanglingInv /\ [Next]_vars => DanglingInv'  BY DanglingStep
  <1>3. DanglingInv => NoDangling  BY DEF DanglingInv
  <1> QED  BY <1>1, <1>2, <1>3, SlaveTypeCorrect, PTL DEF Spec

----------------------------------------------------------------------------
(* What the node reports is what it keeps *)

\* At most one OPEN thread per ticket, and only for a ticket the master has opened.
SingleOpen ==
    /\ \A m \in Tickets : opens[m] <= 1
    /\ \A h \in Handlers : thread[h].pc = "idle" => thread[h].event = None
    /\ \A h \in Handlers : thread[h].event = "OPEN" => opens[thread[h].ticket] = 1
    /\ \A h, k \in Handlers :
          thread[h].event = "OPEN" /\ thread[k].event = "OPEN"
          /\ thread[h].ticket = thread[k].ticket => h = k

\* A thread that handles a CLOSE was sent one.
Closing == \A h \in Handlers : thread[h].event = "CLOSE" => closes[thread[h].ticket] > 0

\* A ticket not opened yet, or whose OPEN thread is still at work, has not been
\* acknowledged; before its thread has written it, it has no entry, and from then
\* on it has one until a CLOSE is sent.
Unacked(m) == \A z \in Statuses : ~Acked(m, z)

Awaiting ==
    /\ \A m \in Tickets : opens[m] = 0 => m \notin Mapped /\ Unacked(m)
    /\ \A h \in Handlers : thread[h].event = "OPEN" =>
          /\ Unacked(thread[h].ticket)
          /\ thread[h].pc # "session" => thread[h].ticket \notin Mapped
          /\ thread[h].pc = "session" =>
                thread[h].ticket \in Mapped \/ closes[thread[h].ticket] > 0

AckInv == SingleOpen /\ Closing /\ Awaiting /\ AckMatchesMap

LEMMA EmitOnce ==
  ASSUME Typed, MaxOpens <= 1, NEW m \in Tickets, NEW e \in Events, Emit(m, e)
  PROVE  /\ e = "OPEN" => opens[m] = 0 /\ opens' = [opens EXCEPT ![m] = 1]
         /\ e # "OPEN" => opens' = opens
  <1>1. opens[m] \in Nat /\ MaxOpens \in Nat  BY SignalsAssumption DEF Typed, TypeOK
  <1>2. CASE e = "OPEN"
    <2>1. opens[m] < MaxOpens /\ opens' = [opens EXCEPT ![m] = opens[m] + 1]
      BY <1>2 DEF Emit
    <2>2. opens[m] = 0 /\ opens[m] + 1 = 1  BY <1>1, <2>1
    <2> QED  BY <1>2, <2>1, <2>2, Zenon
  <1>3. CASE e # "OPEN"  BY <1>3 DEF Emit
  <1> QED  BY <1>2, <1>3

LEMMA SingleOpenStep ==
  ASSUME Typed, SingleOpen, MaxOpens <= 1, [Next]_vars
  PROVE  SingleOpen'
  <1> USE DEF SingleOpen
  <1>1. \A k \in Handlers : thread[k].event = "OPEN" => thread[k].ticket \in Tickets
    BY NoneAssumption DEF Typed, ThreadOK, Events
  <1>2. ASSUME NEW h \in Handlers, NEW m \in Tickets, NEW e \in Events, NEW v \in Pnls,
               Receive(h, m, e, v)
        PROVE  SingleOpen'
    <2>1. /\ thread'[h].event = e /\ thread'[h].ticket = m /\ thread'[h].pc = "running"
          /\ \A k \in Handlers : k # h => thread'[k] = thread[k]
      BY <1>2 DEF Receive, Typed, TypeOK
    <2>2. /\ e = "OPEN" => opens[m] = 0 /\ opens' = [opens EXCEPT ![m] = 1]
          /\ e # "OPEN" => opens' = opens
      BY <1>2, EmitOnce DEF Receive
    <2> QED  BY <1>1, <2>1, <2>2 DEF Typed, TypeOK
  <1>3. ASSUME NEW m \in Tickets, NEW e \in Events, Lose(m, e) PROVE SingleOpen'
    <2>1. /\ thread' = thread
          /\ e = "OPEN" => opens[m] = 0 /\ opens' = [opens EXCEPT ![m] = 1]
          /\ e # "OPEN" => opens' = opens
      BY <1>3, EmitOnce DEF Lose
    <2> QED  BY <1>1, <2>1 DEF Typed, TypeOK
  <1>4. ASSUME NEW h \in Handlers, HandlerStep(h) PROVE SingleOpen'
    <2>1. opens' = opens  BY <1>4, HandlerFrame DEF masterVars
    <2>2. \A k \in Handlers : \/ thread'[k].event = None
                              \/ /\ thread'[k].event = thread[k].event
                                 /\ thread'[k].ticket = thread[k].ticket
                                 /\ thread'[k].pc = "idle" => thread[k].pc = "idle"
      BY <1>4, HandlerFrame DEF Idle
    <2>3. None # "OPEN"  BY NoneAssumption DEF Events
    <2> QED  BY <2>1, <2>2, <2>3
  <1>5. CASE Restart
    <2>1. /\ opens' = opens /\ \A k \in Handlers : thread'[k].event = None
      BY <1>5 DEF Restart, Idle, masterVars
    <2>2. None # "OPEN"  BY NoneAssumption DEF Events
    <2> QED  BY <2>1, <2>2
  <1>6. CASE (UserStep /\ ~Restart) \/ BrokerStopOut \/ UNCHANGED vars
    <2>1. UNCHANGED <<opens, thread>>
      BY <1>6 DEF UserStep, StartListening, StopListening, SetMaxConcurrent, SetDailyLossLimit,
                  SetSymbols, ResetDailyStats, BrokerStopOut, vars, masterVars
    <2> QED  BY <2>1
  <1> QED  BY <1>2, <1>3, <1>4, <1>5, <1>6 DEF Next

LEMMA ClosingStep ==
  ASSUME Typed, SingleOpen, Closing, [Next]_vars
  PROVE  Closing'
  <1> USE DEF Closing
  <1>1. \A m \in Tickets : closes[m] \in Nat  BY DEF Typed, TypeOK
  <1>2. None # "CLOSE"  BY NoneAssumption DEF Events
  <1>3. \A k \in Handlers : thread[k].event = "CLOSE" => thread[k].ticket \in Tickets
    BY <1>2 DEF SingleOpen, Typed, ThreadOK
  <1>4. ASSUME NEW m \in Tickets, NEW e \in Events, Emit(m, e)
        PROVE  /\ \A n \in Tickets : closes'[n] >= closes[n]
               /\ e = "CLOSE" => closes'[m] > 0
    BY <1>1, <1>4 DEF Emit, Typed, TypeOK
  <1>5. ASSUME NEW h \in Handlers, NEW m \in Tickets, NEW e \in Events, NEW v \in Pnls,
               Receive(h, m, e, v)
        PROVE  Closing'
    <2>1. /\ thread'[h].event = e /\ thread'[h].ticket = m
          /\ \A k \in Handlers : k # h => thread'[k] = thread[k]
      BY <1>5 DEF Receive, Typed, TypeOK
    <2>2. /\ \A n \in Tickets : closes'[n] >= closes[n]
          /\ e = "CLOSE" => closes'[m] > 0
          /\ \A n \in Tickets : closes'[n] \in Nat
      BY <1>4, <1>5, <1>1 DEF Receive, Emit, Typed, TypeOK
    <2> QED  BY <1>1, <1>3, <2>1, <2>2
  <1>6. ASSUME NEW m \in Tickets, NEW e \in Events, Lose(m, e) PROVE Closing'
    <2>1. /\ \A n \in Tickets : closes'[n] >= closes[n]
          /\ \A n \in Tickets : closes'[n] \in Nat
          /\ thread' = thread
      BY <1>4, <1>6, <1>1 DEF Lose, Emit, Typed, TypeOK
    <2> QED  BY <1>1, <1>3, <2>1
  <1>7. ASSUME NEW h \in Handlers, HandlerStep(h) PROVE Closing'
    <2>1. /\ closes' = closes
          /\ \A k \in Handlers : \/ thread'[k].event = None
                                 \/ /\ thread'[k].event = thread[k].event
                                    /\ thread'[k].ticket = thread[k].ticket
      BY <1>7, HandlerFrame DEF masterVars, Idle
    <2> QED  BY <1>2, <2>1
  <1>8. CASE Restart
    <2>1. \A k \in Handlers : thread'[k].event = None  BY <1>8 DEF Restart, Idle
    <2> QED  BY <1>2, <2>1
  <1>9. CASE (UserStep /\ ~Restart) \/ BrokerStopOut \/ UNCHANGED vars
    <2>1. UNCHANGED <<closes, thread>>
      BY <1>9 DEF UserStep, StartListening, StopListening, SetMaxConcurrent, SetDailyLossLimit,
                  SetSymbols, ResetDailyStats, BrokerStopOut, vars, masterVars
    <2> QED  BY <2>1
  <1> QED  BY <1>5, <1>6, <1>7, <1>8, <1>9 DEF Next

\* A step that sends no acknowledgement, and deletes at most the entry of a ticket whose
\* CLOSE has been sent.
LEMMA AckLocal ==
  ASSUME Typed, Awaiting, AckMatchesMap, NEW h \in Handlers,
         UNCHANGED <<opens, closes, acks>>,
         \A m \in Tickets : \/ ticket_map'[m] = ticket_map[m]
                            \/ ticket_map'[m] = None /\ closes[m] > 0,
         \A k \in Handlers : k # h => thread'[k] = thread[k],
         \/ thread'[h] = Idle
         \/ /\ thread'[h].event = thread[h].event /\ thread'[h].ticket = thread[h].ticket
            /\ thread[h].pc # "session" /\ thread'[h].pc # "session",
         \A k \in Handlers : thread[k].event = "OPEN" => thread[k].ticket \in Tickets
  PROVE  Awaiting' /\ AckMatchesMap'
  <1>1. Mapped' \subseteq Mapped /\ \A m \in Mapped : m \in Mapped' \/ closes[m] > 0
    BY DEF Mapped
  <1>2. \A m, z : Acked(m, z)' <=> Acked(m, z)  BY DEF Acked
  <1>3. None # "OPEN"  BY NoneAssumption DEF Events
  <1>4. Awaiting'  BY <1>1, <1>2, <1>3 DEF Awaiting, Unacked, Idle
  <1>5. AckMatchesMap'  BY <1>1, <1>2 DEF AckMatchesMap
  <1> QED  BY <1>4, <1>5

\* A thread with an OPEN has a ticket.
LEMMA OpenTicket ==
  ASSUME Typed, SingleOpen
  PROVE  \A k \in Handlers : thread[k].event = "OPEN" => thread[k].ticket \in Tickets
  <1>1. None # "OPEN"  BY NoneAssumption DEF Events
  <1> QED  BY <1>1 DEF SingleOpen, Typed, ThreadOK

\* An OPEN thread that ends with an acknowledgement, sent or lost: a refusal before it
\* has written the entry, EXECUTED after.
LEMMA AckSent ==
  ASSUME Typed, SingleOpen, Awaiting, AckMatchesMap, NEW h \in Handlers, NEW z \in Statuses,
         UNCHANGED <<opens, closes, ticket_map>>, Ack(h, z), Return(h),
         thread[h].event = "OPEN", z = "EXECUTED" <=> thread[h].pc = "session"
  PROVE  Awaiting' /\ AckMatchesMap'
  <1>1. PICK m \in Tickets : m = thread[h].ticket  BY OpenTicket
  <1>2. thread'[h] = Idle /\ \A k \in Handlers : k # h => thread'[k] = thread[k]
    BY DEF Return, Typed, TypeOK
  <1>3. CASE UNCHANGED acks  BY <1>2, <1>3, AckLocal, OpenTicket
  <1>4. CASE acks' = acks \cup {[ticket |-> m, status |-> z]}
    <2>1. opens[m] = 1 /\ Unacked(m)  BY <1>1 DEF SingleOpen, Awaiting
    <2>2. \A k \in Handlers : k # h /\ thread[k].event = "OPEN" => thread[k].ticket # m
      BY <1>1 DEF SingleOpen
    <2>3. \A n, y : n # m => (Acked(n, y)' <=> Acked(n, y))  BY <1>4 DEF Acked
    <2>4. \A y : Acked(m, y)' <=> Acked(m, y) \/ y = z  BY <1>4 DEF Acked
    <2>5. Mapped' = Mapped /\ None # "OPEN"  BY NoneAssumption DEF Mapped, Events
    <2>6. Awaiting'
      <3>1. \A n \in Tickets : opens'[n] = 0 => n \notin Mapped' /\ Unacked(n)'
        BY <2>1, <2>3, <2>5 DEF Awaiting, Unacked
      <3>2. \A k \in Handlers : thread'[k].event = "OPEN" =>
               k # h /\ thread[k].event = "OPEN" /\ thread'[k] = thread[k]
        BY <1>2, <2>5 DEF Idle
      <3> QED  BY <2>2, <2>3, <2>5, <3>1, <3>2 DEF Awaiting, Unacked
    <2>7. AckMatchesMap'
      <3> SUFFICES ASSUME NEW n \in Tickets
                   PROVE  /\ Acked(n, "FAILED")' \/ Acked(n, "BLOCKED_SLIPPAGE")' =>
                                n \notin Mapped /\ ~Acked(n, "EXECUTED")'
                          /\ Acked(n, "EXECUTED")' => n \in Mapped \/ closes[n] > 0
        BY <2>5 DEF AckMatchesMap
      <3>1. CASE n # m  BY <2>3, <3>1 DEF AckMatchesMap
      <3>2. CASE n = m
        <4>1. \A y \in Statuses : Acked(n, y)' <=> y = z  BY <2>1, <2>4, <3>2 DEF Unacked
        <4>2. z # "EXECUTED" => m \notin Mapped  BY <1>1 DEF Awaiting
        <4>3. z = "EXECUTED" => m \in Mapped \/ closes[m] > 0  BY <1>1 DEF Awaiting
        <4> QED  BY <3>2, <4>1, <4>2, <4>3 DEF Statuses
      <3> QED  BY <3>1, <3>2
    <2> QED  BY <2>6, <2>7
  <1> QED  BY <1>1, <1>3, <1>4 DEF Ack

LEMMA AckRecord ==
  ASSUME Typed, SingleOpen, Awaiting, AckMatchesMap, NEW h \in Handlers, RecordTicket(h)
  PROVE  Awaiting' /\ AckMatchesMap'
  <1>0. PICK m \in Tickets : m = thread[h].ticket
    BY DEF RecordTicket, At, Typed, ThreadOK
  <1>1. thread[h].pc = "record" /\ thread[h].event = "OPEN" /\ thread[h].slave \in SlaveTickets
    BY DEF RecordTicket, At, Typed, ThreadOK
  <1>2. /\ UNCHANGED <<opens, closes, acks>>
        /\ thread'[h].pc = "session" /\ thread'[h].ticket = m /\ thread'[h].event = "OPEN"
        /\ \A k \in Handlers : k # h => thread'[k] = thread[k]
    BY <1>0, <1>1 DEF RecordTicket, Goto, Typed, TypeOK, Thread, masterVars
  <1>3. opens[m] = 1 /\ Unacked(m)  BY <1>0, <1>1 DEF SingleOpen, Awaiting
  <1>4. \A k \in Handlers : k # h /\ thread[k].event = "OPEN" => thread[k].ticket # m
    BY <1>0, <1>1 DEF SingleOpen
  <1>5. Mapped' = Mapped \cup {m}
    <2>1. ticket_map' = [ticket_map EXCEPT ![m] = thread[h].slave]
      BY <1>0 DEF RecordTicket
    <2> QED  BY <1>1, <2>1, NoneAssumption DEF Typed, TypeOK, Mapped
  <1>6. \A n, y : Acked(n, y)' <=> Acked(n, y)  BY <1>2 DEF Acked
  <1>7. Awaiting'
    <2>1. \A n \in Tickets : opens'[n] = 0 => n \notin Mapped' /\ Unacked(n)'
      BY <1>2, <1>3, <1>5, <1>6 DEF Awaiting, Unacked
    <2>2. ASSUME NEW k \in Handlers, thread'[k].event = "OPEN"
          PROVE  /\ Unacked(thread[k].ticket)'
                 /\ thread'[k].pc # "session" => thread'[k].ticket \notin Mapped'
                 /\ thread'[k].pc = "session" =>
                       thread'[k].ticket \in Mapped' \/ closes'[thread'[k].ticket] > 0
      <3>1. CASE k = h  BY <1>2, <1>3, <1>5, <1>6, <3>1 DEF Unacked
      <3>2. CASE k # h
        BY <1>2, <1>4, <1>5, <1>6, <2>2, <3>2 DEF Awaiting, Unacked
      <3> QED  BY <3>1, <3>2
    <2> QED  BY <2>1, <2>2 DEF Awaiting
  <1>8. AckMatchesMap'
    <2>1. ~Acked(m, "FAILED") /\ ~Acked(m, "BLOCKED_SLIPPAGE") /\ ~Acked(m, "EXECUTED")
      BY <1>3 DEF Unacked, Statuses
    <2> QED  BY <1>2, <1>5, <1>6, <2>1 DEF AckMatchesMap
  <1> QED  BY <1>7, <1>8

LEMMA AckStep ==
  ASSUME Typed, SingleOpen, Closing, Awaiting, AckMatchesMap, MaxOpens <= 1,
         "restart" \notin Env, [Next]_vars
  PROVE  Awaiting' /\ AckMatchesMap'
  <1>0. \A k \in Handlers : thread[k].event = "OPEN" => thread[k].ticket \in Tickets
    BY OpenTicket
  <1>a. ASSUME NEW m \in Tickets, NEW e \in Events, Emit(m, e)
        PROVE  /\ e = "OPEN" => opens[m] = 0
               /\ \A n \in Tickets : opens'[n] = 0 => opens[n] = 0
               /\ \A n \in Tickets : closes[n] > 0 => closes'[n] > 0
    <2>1. /\ e = "OPEN" => opens[m] = 0 /\ opens' = [opens EXCEPT ![m] = 1]
          /\ e # "OPEN" => opens' = opens
      BY <1>a, EmitOnce
    <2>2. \A n \in Tickets : closes[n] > 0 => closes'[n] > 0
      BY <1>a DEF Emit, Typed, TypeOK
    <2> QED  BY <2>1, <2>2 DEF Typed, TypeOK
  <1>1. ASSUME NEW h \in Handlers, NEW m \in Tickets, NEW e \in Events, NEW v \in Pnls,
               Receive(h, m, e, v)
        PROVE  Awaiting' /\ AckMatchesMap'
    <2>1. /\ thread[h].pc = "idle" /\ thread'[h].pc = "running"
          /\ thread'[h].event = e /\ thread'[h].ticket = m
          /\ \A k \in Handlers : k # h => thread'[k] = thread[k]
          /\ UNCHANGED <<ticket_map, acks>>
      BY <1>1 DEF Receive, At, Typed, TypeOK
    <2>2. /\ e = "OPEN" => opens[m] = 0
          /\ \A n \in Tickets : opens'[n] = 0 => opens[n] = 0
          /\ \A n \in Tickets : closes[n] > 0 => closes'[n] > 0
      BY <1>1, <1>a DEF Receive
    <2>3. Mapped' = Mapped /\ \A n, y : Acked(n, y)' <=> Acked(n, y)
      BY <2>1 DEF Mapped, Acked
    <2>4. Awaiting'
      <3>1. \A n \in Tickets : opens'[n] = 0 => n \notin Mapped' /\ Unacked(n)'
        BY <2>2, <2>3 DEF Awaiting, Unacked
      <3>2. ASSUME NEW k \in Handlers, thread'[k].event = "OPEN"
            PROVE  /\ Unacked(thread[k].ticket)'
                   /\ thread'[k].pc # "session" => thread'[k].ticket \notin Mapped'
                   /\ thread'[k].pc = "session" =>
                         thread'[k].ticket \in Mapped' \/ closes'[thread'[k].ticket] > 0
        <4>1. CASE k = h  BY <2>1, <2>2, <2>3, <3>2, <4>1 DEF Awaiting, Unacked
        <4>2. CASE k # h  BY <1>0, <2>1, <2>2, <2>3, <3>2, <4>2 DEF Awaiting, Unacked
        <4> QED  BY <4>1, <4>2
      <3> QED  BY <3>1, <3>2 DEF Awaiting
    <2>5. AckMatchesMap'  BY <2>2, <2>3 DEF AckMatchesMap
    <2> QED  BY <2>4, <2>5
  <1>2. ASSUME NEW m \in Tickets, NEW e \in Events, Lose(m, e)
        PROVE  Awaiting' /\ AckMatchesMap'
    <2>1. UNCHANGED <<ticket_map, acks, thread>>  BY <1>2 DEF Lose
    <2>2. /\ \A n \in Tickets : opens'[n] = 0 => opens[n] = 0
          /\ \A n \in Tickets : closes[n] > 0 => closes'[n] > 0
      BY <1>2, <1>a DEF Lose
    <2>3. Mapped' = Mapped /\ \A n, y : Acked(n, y)' <=> Acked(n, y)
      BY <2>1 DEF Mapped, Acked
    <2>4. Awaiting'  BY <1>0, <2>1, <2>2, <2>3 DEF Awaiting, Unacked
    <2>5. AckMatchesMap'  BY <2>2, <2>3 DEF AckMatchesMap
    <2> QED  BY <2>4, <2>5
  <1>3. ASSUME NEW h \in Handlers, HandlerStep(h) PROVE Awaiting' /\ AckMatchesMap'
    <2>1. /\ UNCHANGED <<opens, closes>>
          /\ \A k \in Handlers : k # h => thread'[k] = thread[k]
          /\ \/ thread'[h] = Idle
             \/ thread'[h].event = thread[h].event /\ thread'[h].ticket = thread[h].ticket
      BY <1>3, HandlerFrame DEF masterVars
    <2>2. CASE RecordTicket(h)  BY <2>2, AckRecord
    <2>3. CASE AddOpenTrade(h)
      <3>1. /\ Ack(h, "EXECUTED") /\ Return(h) /\ UNCHANGED ticket_map
            /\ thread[h].pc = "session" /\ thread[h].event = "OPEN"
        BY <2>3 DEF AddOpenTrade, At, Typed, ThreadOK
      <3> QED  BY <2>1, <3>1, AckSent DEF Statuses
    <2>4. CASE ExecuteTradeFails(h)
      <3>1. /\ Ack(h, "FAILED") /\ Return(h) /\ UNCHANGED ticket_map
            /\ thread[h].pc = "send" /\ thread[h].event = "OPEN"
        BY <2>4 DEF ExecuteTradeFails, At, Typed, ThreadOK
      <3> QED  BY <2>1, <3>1, AckSent DEF Statuses
    <2>5. CASE GuardSlippage(h)
      <3>1. /\ thread[h].pc = "price" /\ UNCHANGED ticket_map
            /\ \/ Ack(h, "BLOCKED_SLIPPAGE") /\ Return(h)
               \/ Goto(h, "send") /\ UNCHANGED acks
        BY <2>5, Zenon DEF GuardSlippage, At
      <3>2. thread[h].event = "OPEN"  BY <3>1 DEF Typed, ThreadOK
      <3>3. CASE Ack(h, "BLOCKED_SLIPPAGE") /\ Return(h)
        BY <2>1, <3>1, <3>2, <3>3, AckSent DEF Statuses
      <3>4. CASE Goto(h, "send") /\ UNCHANGED acks
        <4>1. thread'[h].pc = "send" /\ thread'[h].event = thread[h].event
              /\ thread'[h].ticket = thread[h].ticket
          BY <3>4 DEF Goto, Typed, TypeOK, Thread
        <4> QED  BY <1>0, <2>1, <3>1, <3>4, <4>1, AckLocal
      <3> QED  BY <3>1, <3>3, <3>4
    <2>6. CASE /\ ~RecordTicket(h) /\ ~AddOpenTrade(h) /\ ~ExecuteTradeFails(h)
               /\ ~GuardSlippage(h)
      <3>1. /\ UNCHANGED acks
            /\ UNCHANGED ticket_map \/ Unmap(h)
        BY <1>3, <2>6
           DEF HandlerStep, OpenStep, CloseStep, CheckRunning, GuardPaused, GuardConcurrent,
               MapSymbol, ExecuteTrade, LookupTicket, CloseTrade, CloseTradeFails, Unmap,
               ReadDailyPnl, WriteDailyPnl, CloseTradeRecord, CheckLossLimit
      <3>2. thread[h].pc # "session"
        BY <1>3, <2>6
           DEF HandlerStep, OpenStep, CloseStep, CheckRunning, GuardPaused, GuardConcurrent,
               MapSymbol, ExecuteTrade, LookupTicket, CloseTrade, CloseTradeFails, Unmap,
               ReadDailyPnl, WriteDailyPnl, CloseTradeRecord, CheckLossLimit, At
      <3>3. thread'[h].pc # "session"
        <4> USE DEF At, Goto, Return, Idle, Typed, TypeOK, Thread
        <4>1. CASE GuardPaused(h)
          <5>1. At(h, "paused") /\ (Return(h) \/ Goto(h, "cap"))  BY <4>1, Zenon DEF GuardPaused
          <5> QED  BY <5>1
        <4>2. CASE CheckRunning(h) \/ GuardConcurrent(h) \/ MapSymbol(h)
          BY <4>2 DEF CheckRunning, GuardConcurrent, MapSymbol
        <4>3. CASE ExecuteTrade(h)  BY <4>3 DEF ExecuteTrade
        <4>4. CASE LookupTicket(h) \/ CloseTrade(h) \/ CloseTradeFails(h) \/ Unmap(h)
          BY <4>4 DEF LookupTicket, CloseTrade, CloseTradeFails, Unmap
        <4>5. CASE ReadDailyPnl(h) \/ WriteDailyPnl(h) \/ CloseTradeRecord(h) \/ CheckLossLimit(h)
          BY <4>5 DEF ReadDailyPnl, WriteDailyPnl, CloseTradeRecord, CheckLossLimit
        <4> QED
          BY <1>3, <2>6, <4>1, <4>2, <4>3, <4>4, <4>5 DEF HandlerStep, OpenStep, CloseStep
      <3>4. \A m \in Tickets : \/ ticket_map'[m] = ticket_map[m]
                               \/ ticket_map'[m] = None /\ closes[m] > 0
        <4>1. CASE UNCHANGED ticket_map  BY <4>1
        <4>2. CASE Unmap(h)
          <5>1. /\ thread[h].event = "CLOSE"
                /\ ticket_map' = [ticket_map EXCEPT ![thread[h].ticket] = None]
            BY <4>2 DEF Unmap, At, Typed, ThreadOK
          <5> QED  BY <5>1 DEF Closing, Typed, TypeOK
        <4> QED  BY <3>1, <4>1, <4>2
      <3> QED  BY <1>0, <2>1, <3>1, <3>2, <3>3, <3>4, AckLocal
    <2> QED  BY <2>2, <2>3, <2>4, <2>5, <2>6
  <1>4. CASE Restart  BY <1>4 DEF Restart
  <1>5. CASE (UserStep /\ ~Restart) \/ BrokerStopOut \/ UNCHANGED vars
    <2>1. UNCHANGED <<opens, closes, thread, ticket_map, acks>>
      BY <1>5 DEF UserStep, StartListening, StopListening, SetMaxConcurrent, SetDailyLossLimit,
                  SetSymbols, ResetDailyStats, BrokerStopOut, vars, masterVars
    <2>2. Mapped' = Mapped /\ \A n, y : Acked(n, y)' <=> Acked(n, y)
      BY <2>1 DEF Mapped, Acked
    <2> QED  BY <2>1, <2>2 DEF Awaiting, Unacked, AckMatchesMap
  <1> QED  BY <1>1, <1>2, <1>3, <1>4, <1>5 DEF Next

\* With a master that opens a ticket once, the acknowledgements of a ticket and its entry
\* agree in every interleaving, through lost signals and acknowledgements, stop-outs and
\* results that do not arrive: what is refused has no entry and is never reported executed
\* too, and what is reported executed keeps its entry until the master's CLOSE.
THEOREM SlaveAcks ==
    MaxOpens <= 1 /\ "restart" \notin Env => (Spec => []AckMatchesMap)
  <1> SUFFICES ASSUME MaxOpens <= 1, "restart" \notin Env PROVE Spec => []AckMatchesMap
    OBVIOUS
  <1>1. Init => AckInv
    <2> SUFFICES ASSUME Init PROVE AckInv  OBVIOUS
    <2>1. /\ Mapped = {} /\ acks = {} /\ \A m \in Tickets : opens[m] = 0
          /\ \A h \in Handlers : thread[h].event = None
      BY DEF Init, Started, Mapped, Idle
    <2>2. None \notin Events  BY NoneAssumption
    <2> QED
      BY <2>1, <2>2 DEF AckInv, SingleOpen, Closing, Awaiting, Unacked, Acked, AckMatchesMap,
                        Events
  <1>2. Typed /\ AckInv /\ [Next]_vars => AckInv'
    BY SingleOpenStep, ClosingStep, AckStep DEF AckInv
  <1>3. AckInv => AckMatchesMap  BY DEF AckInv
  <1> QED  BY <1>1, <1>2, <1>3, SlaveTypeCorrect, PTL DEF Spec

----------------------------------------------------------------------------
(* The trades view *)

\* Signals are handled one at a time.
OneAtATime == \A h, k \in Handlers : h = k

\* A ticket has one row at most, none before its OPEN thread adds it; the thread works
\* on the entry of its ticket from the lookup to the deletion, and when it adds the row.
RowsOf(m) == {r \in open_trades : r.ticket = m}

OneRow ==
    /\ \A q, r \in open_trades : q.ticket = r.ticket => q = r
    /\ \A m \in Tickets : opens[m] = 0 => RowsOf(m) = {}
    /\ \A h \in Handlers : thread[h].event = "OPEN" => RowsOf(thread[h].ticket) = {}
    /\ \A h \in Handlers : thread[h].pc \in {"session", "close", "unmap"}
          => ticket_map[thread[h].ticket] = thread[h].slave

Archiving == {"pnl", "add", "archive"}

TradesInv == SingleOpen /\ OneRow /\ TradesViewSound

\* A step of thread h that touches neither the entries nor the rows.
LEMMA TradesLocal ==
  ASSUME Typed, OneRow, TradesViewSound, OneAtATime, NEW h \in Handlers,
         UNCHANGED <<ticket_map, open_trades, opens>>,
         \/ thread'[h] = Idle
         \/ thread'[h].event = thread[h].event /\ thread'[h].ticket = thread[h].ticket,
         thread'[h].pc \in {"session", "close", "unmap"}
             => ticket_map[thread'[h].ticket] = thread'[h].slave,
         \/ thread[h].pc \notin Archiving
         \/ thread'[h].pc \in Archiving /\ thread'[h].ticket = thread[h].ticket
  PROVE  OneRow' /\ TradesViewSound'
  <1>1. \A k \in Handlers : k = h  BY DEF OneAtATime
  <1>2. None # "OPEN"  BY NoneAssumption DEF Events
  <1>3. OneRow'  BY <1>1, <1>2 DEF OneRow, RowsOf, Idle
  <1>4. TradesViewSound'  BY <1>1 DEF TradesViewSound, Archiving
  <1> QED  BY <1>3, <1>4

LEMMA TradesRecord ==
  ASSUME Typed, OneRow, TradesViewSound, OneAtATime, NEW h \in Handlers, RecordTicket(h)
  PROVE  OneRow' /\ TradesViewSound'
  <1>1. PICK m \in Tickets : m = thread[h].ticket  BY DEF RecordTicket, At, Typed, ThreadOK
  <1>2. /\ thread[h].pc = "record" /\ thread[h].event = "OPEN"
        /\ ticket_map' = [ticket_map EXCEPT ![m] = thread[h].slave]
        /\ UNCHANGED <<open_trades, opens>>
        /\ thread'[h].pc = "session" /\ thread'[h].ticket = m
        /\ thread'[h].slave = thread[h].slave
    BY <1>1 DEF RecordTicket, At, Goto, Typed, TypeOK, Thread, ThreadOK, sessionVars, masterVars
  <1>3. \A k \in Handlers : k = h  BY DEF OneAtATime
  <1>4. RowsOf(m) = {}  BY <1>1, <1>2 DEF OneRow
  <1>5. ticket_map'[m] = thread[h].slave
        /\ \A n \in Tickets : n # m => ticket_map'[n] = ticket_map[n]
    BY <1>2 DEF Typed, TypeOK
  <1>6. OneRow'  BY <1>2, <1>3, <1>4, <1>5 DEF OneRow, RowsOf
  <1>7. TradesViewSound'
    <2> SUFFICES ASSUME NEW r \in open_trades PROVE ticket_map'[r.ticket] = r.slave
      BY <1>2 DEF TradesViewSound
    <2>1. r.ticket \in Tickets /\ r.ticket # m  BY <1>4 DEF RowsOf, Typed, TypeOK
    <2>2. ticket_map[r.ticket] = r.slave  BY <1>2, <1>3 DEF TradesViewSound
    <2> QED  BY <1>5, <2>1, <2>2
  <1> QED  BY <1>6, <1>7

LEMMA TradesAdd ==
  ASSUME Typed, SingleOpen, OneRow, TradesViewSound, OneAtATime,
         NEW h \in Handlers, AddOpenTrade(h)
  PROVE  OneRow' /\ TradesViewSound'
  <1>1. PICK m \in Tickets, s \in SlaveTickets : m = thread[h].ticket /\ s = thread[h].slave
    BY DEF AddOpenTrade, At, Typed, ThreadOK
  <1>2. /\ thread[h].pc = "session" /\ thread[h].event = "OPEN"
        /\ open_trades' = open_trades \cup {[ticket |-> m, slave |-> s]}
        /\ UNCHANGED <<ticket_map, opens>>
        /\ thread'[h] = Idle
    BY <1>1 DEF AddOpenTrade, At, Return, Typed, TypeOK, ThreadOK, masterVars
  <1>3. \A k \in Handlers : k = h  BY DEF OneAtATime
  <1>4. /\ \A r \in open_trades : r.ticket # m
        /\ opens[m] = 1 /\ ticket_map[m] = s
    BY <1>1, <1>2 DEF OneRow, RowsOf, SingleOpen
  <1>5. \A r \in open_trades' : r \in open_trades \/ (r.ticket = m /\ r.slave = s
                                                   /\ r = [ticket |-> m, slave |-> s])
    BY <1>2
  <1>6. None # "OPEN"  BY NoneAssumption DEF Events
  <1>7. OneRow'
    <2>1. \A q, r \in open_trades' : q.ticket = r.ticket => q = r
      BY <1>4, <1>5 DEF OneRow
    <2>2. \A n \in Tickets : opens[n] = 0 => ~\E r \in open_trades' : r.ticket = n
      BY <1>4, <1>5 DEF OneRow, RowsOf
    <2>3. \A k \in Handlers : thread'[k].event = None /\ thread'[k].pc = "idle"
      BY <1>2, <1>3 DEF Idle
    <2> QED  BY <1>2, <1>6, <2>1, <2>2, <2>3 DEF OneRow, RowsOf
  <1>8. TradesViewSound'  BY <1>2, <1>3, <1>4, <1>5 DEF TradesViewSound
  <1> QED  BY <1>7, <1>8

LEMMA TradesUnmap ==
  ASSUME Typed, OneRow, TradesViewSound, OneAtATime, NEW h \in Handlers, Unmap(h)
  PROVE  OneRow' /\ TradesViewSound'
  <1>1. PICK m \in Tickets : m = thread[h].ticket  BY DEF Unmap, At, Typed, ThreadOK
  <1>2. thread[h].pc = "unmap" /\ thread[h].event = "CLOSE" /\ ticket_map[m] # None
    BY <1>1, NoneAssumption DEF Unmap, At, Typed, ThreadOK, OneRow
  <1>3. /\ ticket_map' = [ticket_map EXCEPT ![m] = None]
        /\ UNCHANGED <<open_trades, opens>>
        /\ thread' = [thread EXCEPT ![h].pc = "pnl"]
    BY <1>1, <1>2 DEF Unmap, Goto, sessionVars, masterVars
  <1>4. thread'[h].pc = "pnl" /\ thread'[h].event = "CLOSE" /\ thread'[h].ticket = m
    BY <1>1, <1>2, <1>3 DEF Typed, TypeOK, Thread
  <1>5. \A k \in Handlers : k = h  BY DEF OneAtATime
  <1>6. \A n \in Tickets : n # m => ticket_map'[n] = ticket_map[n]
    BY <1>3 DEF Typed, TypeOK
  <1>7. OneRow'  BY <1>3, <1>4, <1>5 DEF OneRow, RowsOf
  <1>8. TradesViewSound'
    <2> SUFFICES ASSUME NEW r \in open_trades, r.ticket # m
                 PROVE  ticket_map'[r.ticket] = r.slave
      BY <1>3, <1>4 DEF TradesViewSound
    <2>1. r.ticket \in Tickets  BY DEF Typed, TypeOK
    <2>2. ticket_map[r.ticket] = r.slave  BY <1>2, <1>5 DEF TradesViewSound
    <2> QED  BY <1>6, <2>1, <2>2
  <1> QED  BY <1>7, <1>8

LEMMA TradesArchive ==
  ASSUME Typed, OneRow, TradesViewSound, OneAtATime, NEW h \in Handlers, CloseTradeRecord(h)
  PROVE  OneRow' /\ TradesViewSound'
  <1>1. PICK m \in Tickets : m = thread[h].ticket
    BY DEF CloseTradeRecord, At, Typed, ThreadOK
  <1>2. /\ UNCHANGED <<ticket_map, opens>> /\ thread[h].event = "CLOSE"
        /\ thread'[h].pc = "limit" /\ thread'[h].event = "CLOSE"
    BY DEF CloseTradeRecord, At, Goto, Typed, TypeOK, Thread, ThreadOK, masterVars
  <1>3. \A k \in Handlers : k = h  BY DEF OneAtATime
  <1>4. open_trades' \subseteq open_trades /\ \A r \in open_trades' : r.ticket # m
    <2>1. CASE \A r \in open_trades : r.ticket # m
      <3>1. {r \in open_trades : r.ticket = thread[h].ticket} = {}  BY <1>1, <2>1
      <3>2. open_trades' = open_trades  BY <3>1 DEF CloseTradeRecord
      <3> QED  BY <2>1, <3>2
    <2>2. CASE \E r \in open_trades : r.ticket = m
      <3>1. {r \in open_trades : r.ticket = thread[h].ticket} # {}  BY <1>1, <2>2
      <3>2. PICK r \in open_trades : r.ticket = m /\ open_trades' = open_trades \ {r}
        BY <1>1, <3>1 DEF CloseTradeRecord
      <3>3. \A q \in open_trades : q.ticket = m => q = r  BY <3>2 DEF OneRow
      <3> QED  BY <3>2, <3>3
    <2> QED  BY <2>1, <2>2
  <1>5. OneRow'  BY <1>2, <1>3, <1>4 DEF OneRow, RowsOf
  <1>6. TradesViewSound'  BY <1>1, <1>2, <1>3, <1>4 DEF TradesViewSound
  <1> QED  BY <1>5, <1>6

LEMMA TradesStep ==
  ASSUME Typed, SingleOpen, OneRow, TradesViewSound, OneAtATime, MaxOpens <= 1, [Next]_vars
  PROVE  OneRow' /\ TradesViewSound'
  <1>0. None # "OPEN"  BY NoneAssumption DEF Events
  <1>1. ASSUME NEW h \in Handlers, NEW m \in Tickets, NEW e \in Events, NEW v \in Pnls,
               Receive(h, m, e, v)
        PROVE  OneRow' /\ TradesViewSound'
    <2>1. /\ thread[h].pc = "idle" /\ thread'[h].pc = "running"
          /\ thread'[h].event = e /\ thread'[h].ticket = m
          /\ UNCHANGED <<ticket_map, open_trades>>
      BY <1>1 DEF Receive, At, Typed, TypeOK, sessionVars
    <2>2. /\ e = "OPEN" => opens[m] = 0
          /\ \A n \in Tickets : opens'[n] = 0 => opens[n] = 0
      <3>1. /\ e = "OPEN" => opens[m] = 0 /\ opens' = [opens EXCEPT ![m] = 1]
            /\ e # "OPEN" => opens' = opens
        BY <1>1, EmitOnce DEF Receive
      <3> QED  BY <3>1 DEF Typed, TypeOK
    <2>3. \A k \in Handlers : k = h  BY DEF OneAtATime
    <2>4. OneRow'  BY <2>1, <2>2, <2>3 DEF OneRow, RowsOf
    <2>5. TradesViewSound'  BY <2>1, <2>3 DEF TradesViewSound
    <2> QED  BY <2>4, <2>5
  <1>2. ASSUME NEW m \in Tickets, NEW e \in Events, Lose(m, e)
        PROVE  OneRow' /\ TradesViewSound'
    <2>1. UNCHANGED <<ticket_map, open_trades, thread>>  BY <1>2 DEF Lose, sessionVars
    <2>2. \A n \in Tickets : opens'[n] = 0 => opens[n] = 0
      <3>1. /\ e = "OPEN" => opens[m] = 0 /\ opens' = [opens EXCEPT ![m] = 1]
            /\ e # "OPEN" => opens' = opens
        BY <1>2, EmitOnce DEF Lose
      <3> QED  BY <3>1 DEF Typed, TypeOK
    <2> QED  BY <2>1, <2>2 DEF OneRow, RowsOf, TradesViewSound
  <1>3. ASSUME NEW h \in Handlers, HandlerStep(h) PROVE OneRow' /\ TradesViewSound'
    <2>1. /\ opens' = opens
          /\ \/ thread'[h] = Idle
             \/ thread'[h].event = thread[h].event /\ thread'[h].ticket = thread[h].ticket
      BY <1>3, HandlerFrame DEF masterVars
    <2>2. CASE RecordTicket(h)  BY <2>2, TradesRecord
    <2>3. CASE AddOpenTrade(h)  BY <2>3, TradesAdd
    <2>4. CASE Unmap(h)  BY <2>4, TradesUnmap
    <2>5. CASE CloseTradeRecord(h)  BY <2>5, TradesArchive
    <2>6. CASE LookupTicket(h)
      <3>1. /\ UNCHANGED <<ticket_map, open_trades>> /\ thread[h].pc = "lookup"
            /\ \/ Return(h)
               \/ thread' = [thread EXCEPT ![h].slave = ticket_map[thread[h].ticket],
                                           ![h].pc = "close"]
        BY <2>6 DEF LookupTicket, At, sessionVars
      <3>2. \/ thread'[h] = Idle
            \/ /\ thread'[h].pc = "close"
               /\ thread'[h].slave = ticket_map[thread'[h].ticket]
        BY <3>1 DEF Return, Typed, TypeOK, Thread
      <3> QED  BY <2>1, <3>1, <3>2, TradesLocal DEF Idle, Archiving
    <2>7. CASE CloseTrade(h)
      <3>1. /\ UNCHANGED <<ticket_map, open_trades>> /\ thread[h].pc = "close"
            /\ thread'[h].ticket = thread[h].ticket /\ thread'[h].slave = thread[h].slave
        BY <2>7 DEF CloseTrade, At, Goto, sessionVars, Typed, TypeOK, Thread
      <3>2. ticket_map[thread'[h].ticket] = thread'[h].slave  BY <3>1 DEF OneRow
      <3> QED  BY <2>1, <3>1, <3>2, TradesLocal DEF Archiving
    <2>8. CASE ReadDailyPnl(h) \/ WriteDailyPnl(h)
      <3>1. /\ UNCHANGED <<ticket_map, open_trades>>
            /\ thread'[h].pc \in {"add", "archive"} /\ thread'[h].ticket = thread[h].ticket
        BY <2>8 DEF ReadDailyPnl, WriteDailyPnl, At, Goto, sessionVars, Typed, TypeOK, Thread
      <3> QED  BY <2>1, <3>1, TradesLocal DEF Archiving
    <2>9. CASE GuardPaused(h) \/ GuardSlippage(h)
      <3>1. /\ UNCHANGED <<ticket_map, open_trades>> /\ thread[h].pc \in {"paused", "price"}
            /\ Return(h) \/ Goto(h, "cap") \/ Goto(h, "send")
        BY <2>9, Zenon DEF GuardPaused, GuardSlippage, At, sessionVars
      <3>2. thread'[h].pc \in {"idle", "cap", "send"}
        BY <3>1 DEF Return, Goto, Idle, Typed, TypeOK, Thread
      <3> QED  BY <2>1, <3>1, <3>2, TradesLocal DEF Archiving
    <2>10. CASE \/ CheckRunning(h) \/ GuardConcurrent(h) \/ MapSymbol(h)
                \/ ExecuteTrade(h) \/ ExecuteTradeFails(h) \/ CloseTradeFails(h)
                \/ CheckLossLimit(h)
      <3>1. UNCHANGED <<ticket_map, open_trades>> /\ thread[h].pc \notin Archiving
        BY <2>10 DEF CheckRunning, GuardConcurrent, MapSymbol, ExecuteTrade, ExecuteTradeFails,
                     CloseTradeFails, CheckLossLimit, At, sessionVars, Archiving
      <3>2. thread'[h].pc \notin {"session", "close", "unmap"}
        <4> USE DEF At, Goto, Return, Idle, Typed, TypeOK, Thread
        <4>1. CASE CheckRunning(h) \/ GuardConcurrent(h) \/ MapSymbol(h)
          BY <4>1 DEF CheckRunning, GuardConcurrent, MapSymbol
        <4>2. CASE ExecuteTrade(h)  BY <4>2 DEF ExecuteTrade
        <4>4. CASE ExecuteTradeFails(h)
          <5>1. Return(h)  BY <4>4 DEF ExecuteTradeFails
          <5> QED  BY <5>1
        <4>3. CASE CloseTradeFails(h) \/ CheckLossLimit(h)
          BY <4>3 DEF CloseTradeFails, CheckLossLimit
        <4> QED  BY <2>10, <4>1, <4>2, <4>3, <4>4
      <3> QED  BY <2>1, <3>1, <3>2, TradesLocal
    <2> QED
      BY <1>3, <2>2, <2>3, <2>4, <2>5, <2>6, <2>7, <2>8, <2>9, <2>10
         DEF HandlerStep, OpenStep, CloseStep
  <1>4. CASE Restart
    <2>1. /\ open_trades' = {}
          /\ \A k \in Handlers : thread'[k].event = None /\ thread'[k].pc = "idle"
      BY <1>4 DEF Restart, Idle
    <2> QED  BY <1>0, <2>1 DEF OneRow, RowsOf, TradesViewSound
  <1>5. CASE StartListening
    <2>1. open_trades' = {} /\ UNCHANGED <<ticket_map, thread>>  BY <1>5 DEF StartListening
    <2> QED  BY <2>1 DEF OneRow, RowsOf, TradesViewSound
  <1>6. CASE (UserStep /\ ~Restart /\ ~StartListening) \/ BrokerStopOut \/ UNCHANGED vars
    <2>1. UNCHANGED <<opens, thread, ticket_map, open_trades>>
      BY <1>6 DEF UserStep, StopListening, SetMaxConcurrent, SetDailyLossLimit,
                  SetSymbols, ResetDailyStats, BrokerStopOut, vars, masterVars, sessionVars
    <2> QED  BY <2>1 DEF OneRow, RowsOf, TradesViewSound
  <1> QED  BY <1>1, <1>2, <1>3, <1>4, <1>5, <1>6 DEF Next

\* Signals handled one at a time leave the trades view true: a row is a mapped position,
\* or its CLOSE thread is on its way to archive it, whatever the broker refuses or does
\* not report and whatever the user stops, maps anew, resets or restarts.
THEOREM SlaveTradesView == OneAtATime /\ MaxOpens <= 1 => (Spec => []TradesViewSound)
  <1> SUFFICES ASSUME OneAtATime, MaxOpens <= 1 PROVE Spec => []TradesViewSound  OBVIOUS
  <1>1. Init => TradesInv
    <2> SUFFICES ASSUME Init PROVE TradesInv  OBVIOUS
    <2>1. /\ open_trades = {} /\ \A m \in Tickets : opens[m] = 0
          /\ \A h \in Handlers : thread[h].event = None /\ thread[h].pc = "idle"
      BY DEF Init, Started, Idle
    <2>2. None # "OPEN"  BY NoneAssumption DEF Events
    <2> QED  BY <2>1, <2>2 DEF TradesInv, SingleOpen, OneRow, RowsOf, TradesViewSound
  <1>2. Typed /\ TradesInv /\ [Next]_vars => TradesInv'
    BY SingleOpenStep, TradesStep DEF TradesInv
  <1>3. TradesInv => TradesViewSound  BY DEF TradesInv
  <1> QED  BY <1>1, <1>2, <1>3, SlaveTypeCorrect, PTL DEF Spec

============================================================================
