------------------------ MODULE MasterRecorderProofs ------------------------
(***************************************************************************)
(* Proofs about MasterRecorder, for any number of tickets and starts.      *)
(***************************************************************************)
EXTENDS MasterRecorder, TLAPS

\* Whoever uses a recorder has one.
RecOK ==
    /\ is_running => recorder # None
    /\ \A r \in Runs : /\ thread[r].pc \notin {"none", "dead"} => recorder # None
                       /\ thread[r].pc \notin {"none", "begin", "dead"} => thread[r].rec # None
                       /\ thread[r].pc = "forget" => thread[r].ticket # None

Typed == TypeOK /\ RecOK

LEMMA TypedInit == Init => Typed
  <1> SUFFICES ASSUME Init PROVE Typed  OBVIOUS
  <1>1. is_running \in BOOLEAN /\ connected \in BOOLEAN /\ ~is_running  BY Zenon DEF Init
  <1>2. running \in [Runs -> BOOLEAN]
    <2>1. running = [r \in Runs |-> FALSE]  BY DEF Init
    <2> QED  BY <2>1, Zenon
  <1> QED  BY <1>1, <1>2 DEF Init, Typed, TypeOK, RecOK, NoThread, Thread

LEMMA RaiseTyped ==
  ASSUME Typed, NEW r \in Runs, Raise(r)
  PROVE  /\ thread' \in [Runs -> Thread] /\ is_running' \in BOOLEAN
         /\ recorder' \in Runs \cup {None} /\ RecOK'
  <1>1. is_running' = FALSE  BY DEF Raise
  <1>2. is_running' \in BOOLEAN /\ ~is_running'  BY <1>1, Zenon
  <1>3. recorder' = recorder /\ thread' = [thread EXCEPT ![r].pc = "dead"]  BY DEF Raise, Goto
  <1>4. thread' \in [Runs -> Thread]  BY <1>3 DEF Typed, TypeOK, Thread
  <1>5. \A s \in Runs : /\ s # r => thread'[s] = thread[s]
                       /\ thread'[r].pc = "dead"
    BY <1>3 DEF Typed, TypeOK, Thread
  <1>6. RecOK'  BY <1>2, <1>3, <1>5 DEF Typed, RecOK
  <1> QED  BY <1>2, <1>3, <1>4, <1>6 DEF Typed, TypeOK

\* The two steps of announcing a CLOSE keep the thread well formed.
LEMMA CloseThreadTyped ==
  ASSUME thread \in [Runs -> Thread], NEW r \in Runs, NEW t \in Tickets,
         \/ thread' = [thread EXCEPT ![r].gone = @ \ {t}, ![r].ticket = t, ![r].pc = "forget"]
         \/ thread' = [thread EXCEPT ![r].ticket = None, ![r].pc = "send"]
  PROVE  thread' \in [Runs -> Thread]
  <1>1. CASE thread' = [thread EXCEPT ![r].gone = @ \ {t}, ![r].ticket = t, ![r].pc = "forget"]
    <2>1. thread[r] \in Thread  OBVIOUS
    <2>2. thread'[r] = [thread[r] EXCEPT !.gone = @ \ {t}, !.ticket = t, !.pc = "forget"]
      BY <1>1
    <2>3. thread'[r] \in Thread  BY <2>1, <2>2 DEF Thread
    <2> QED  BY <1>1, <2>3
  <1>2. CASE thread' = [thread EXCEPT ![r].ticket = None, ![r].pc = "send"]
    <2>1. thread[r] \in Thread  OBVIOUS
    <2>2. thread'[r] = [thread[r] EXCEPT !.ticket = None, !.pc = "send"]  BY <1>2
    <2>3. thread'[r] \in Thread  BY <2>1, <2>2 DEF Thread
    <2> QED  BY <1>2, <2>3
  <1> QED  BY <1>1, <1>2

LEMMA TypedStep ==
  ASSUME Typed, [Next]_vars
  PROVE  Typed'
  <1> USE NoneAssumption DEF Typed, TypeOK, RecOK, Thread, At, Goto, Alive, controllerVars,
          worldVars, feedVars
  <1>1. ASSUME NEW t \in Tickets, OpenPosition(t) PROVE Typed'  BY <1>1 DEF OpenPosition
  <1>2. ASSUME NEW t \in Tickets, ClosePosition(t) PROVE Typed'  BY <1>2 DEF ClosePosition
  <1>3. CASE Reconnect  BY <1>3 DEF Reconnect
  <1>4. ASSUME NEW r \in Runs, StartBroadcasting(r) PROVE Typed'  BY <1>4 DEF StartBroadcasting
  <1>5. CASE StopBroadcasting  BY <1>5 DEF StopBroadcasting
  <1>6. ASSUME NEW r \in Runs, RecorderStep(r) PROVE Typed'
    <2>1. CASE Begin(r)  BY <2>1 DEF Begin, Snapshots
    <2>2. CASE CheckLoop(r)  BY <2>2 DEF CheckLoop
    <2>3. CASE FetchPositions(r)  BY <2>3 DEF FetchPositions, Snapshots
    <2>4. CASE Diff(r)  BY <2>4 DEF Diff, Tracked
    <2>5. ASSUME NEW t \in Tickets, SendOpen(r, t) PROVE Typed'
      <3>1. /\ tracked_tickets' \in [Runs -> SUBSET Tickets]
            /\ UNCHANGED <<running, worldVars, closes>>
        BY <2>5 DEF SendOpen
      <3>2. CASE UNCHANGED controllerVars
        <4>1. opens' \in [Tickets -> 0..2]  BY <2>5 DEF SendOpen, Once
        <4>2. thread' = [thread EXCEPT ![r].new = @ \ {t}] \/ Raise(r)  BY <2>5 DEF SendOpen
        <4>3. CASE thread' = [thread EXCEPT ![r].new = @ \ {t}]  BY <3>1, <3>2, <4>1, <4>3
        <4>4. CASE Raise(r)
          <5> HIDE DEF Thread, RecOK, Goto
          <5> QED  BY <3>1, <4>1, <4>4, RaiseTyped
        <4> QED  BY <4>2, <4>3, <4>4
      <3>3. CASE Raise(r) /\ UNCHANGED opens
        <4> HIDE DEF Thread, RecOK, Goto
        <4> QED  BY <3>1, <3>3, RaiseTyped
      <3> QED  BY <2>5, <3>2, <3>3 DEF SendOpen
    <2>6. ASSUME NEW t \in Tickets, SendClose(r, t) PROVE Typed'
      <3>1. UNCHANGED <<running, tracked_tickets, worldVars, opens>>  BY <2>6 DEF SendClose
      <3>2. CASE /\ closes' = [closes EXCEPT ![t] = Once(@)]
                 /\ thread' = [thread EXCEPT ![r].gone = @ \ {t}, ![r].ticket = t,
                                             ![r].pc = "forget"]
                 /\ UNCHANGED controllerVars
        <4>1. closes' \in [Tickets -> 0..2]  BY <3>2 DEF Once
        <4>2. thread[r].rec # None /\ recorder # None  BY <2>6 DEF SendClose
        <4>3. thread' \in [Runs -> Thread]
          <5> HIDE DEF Thread
          <5> QED  BY <3>2, CloseThreadTyped
        <4>4. \A s \in Runs : /\ s # r => thread'[s] = thread[s]
                             /\ thread'[r].rec = thread[r].rec /\ thread'[r].ticket = t
          BY <3>2
        <4>5. RecOK'  BY <3>2, <4>2, <4>4
        <4> HIDE DEF RecOK, Thread
        <4> QED  BY <3>1, <3>2, <4>1, <4>3, <4>5
      <3>3. CASE Raise(r) /\ UNCHANGED closes
        <4> HIDE DEF Thread, RecOK, Goto
        <4> QED  BY <3>1, <3>3, RaiseTyped
      <3> QED  BY <2>6, <3>2, <3>3 DEF SendClose
    <2>7. CASE Forget(r)
      <3>1. /\ tracked_tickets' \in [Runs -> SUBSET Tickets]
            /\ UNCHANGED <<running, worldVars, feedVars>>
        BY <2>7 DEF Forget
      <3>2. CASE thread' = [thread EXCEPT ![r].ticket = None, ![r].pc = "send"]
                 /\ UNCHANGED controllerVars
        <4>1. thread[r].rec # None /\ recorder # None  BY <2>7 DEF Forget
        <4>2. thread' \in [Runs -> Thread]
          <5>1. thread[r].ticket \in Tickets  BY <2>7 DEF Forget
          <5> HIDE DEF Thread
          <5> QED  BY <3>2, <5>1, CloseThreadTyped
        <4>3. \A s \in Runs : /\ s # r => thread'[s] = thread[s]
                             /\ thread'[r].rec = thread[r].rec /\ thread'[r].pc = "send"
          BY <3>2
        <4>4. RecOK'  BY <3>2, <4>1, <4>3
        <4> HIDE DEF RecOK, Thread
        <4> QED  BY <3>1, <3>2, <4>2, <4>4
      <3>3. CASE Raise(r)
        <4> HIDE DEF Thread, RecOK, Goto
        <4> QED  BY <3>1, <3>3, RaiseTyped
      <3> QED  BY <2>7, <3>2, <3>3 DEF Forget
    <2>8. CASE EndScan(r)  BY <2>8 DEF EndScan
    <2> QED  BY <1>6, <2>1, <2>2, <2>3, <2>4, <2>5, <2>6, <2>7, <2>8 DEF RecorderStep
  <1>7. CASE UNCHANGED vars  BY <1>7 DEF vars
  <1> QED  BY <1>1, <1>2, <1>3, <1>4, <1>5, <1>6, <1>7 DEF Next

\* Type correctness: every thread past its start has a recorder to work on, and
\* deletes an entry only when it has announced one, whenever the user clicks.
THEOREM RecorderTypeCorrect == Spec => []Typed
  <1>1. Typed /\ [Next]_vars => Typed'  BY TypedStep
  <1> QED  BY TypedInit, <1>1, PTL DEF Spec

----------------------------------------------------------------------------
(* Loop prevention *)

\* No recorder tracks, and no thread is about to announce, a copied position.
EchoInv ==
    /\ NoEcho
    /\ \A r \in Runs : /\ tracked_tickets[r] \cap Copied = {}
                       /\ thread[r].new \cap Copied = {}
                       /\ thread[r].gone \cap Copied = {}

LEMMA EchoStep ==
  ASSUME Typed, EchoInv, [Next]_vars
  PROVE  EchoInv'
  <1> USE NoneAssumption, CopiedAssumption
      DEF EchoInv, NoEcho, Typed, TypeOK, RecOK, Thread, At, Goto, controllerVars, worldVars,
          feedVars
  <1>1. ASSUME NEW r \in Runs, RecorderStep(r) PROVE EchoInv'
    <2>1. CASE Begin(r)  BY <2>1 DEF Begin, Snapshots
    <2>2. CASE CheckLoop(r)  BY <2>2 DEF CheckLoop
    <2>3. CASE FetchPositions(r)  BY <2>3 DEF FetchPositions, Snapshots
    <2>4. CASE Diff(r)  BY <2>4 DEF Diff, Tracked
    <2>5. ASSUME NEW t \in Tickets, SendOpen(r, t) PROVE EchoInv'
      <3>1. t \notin Copied /\ UNCHANGED closes
            /\ tracked_tickets' = [tracked_tickets EXCEPT ![thread[r].rec] = @ \cup {t}]
        BY <2>5 DEF SendOpen
      <3>2. \A s \in Runs : tracked_tickets'[s] \subseteq tracked_tickets[s] \cup {t}  BY <3>1
      <3>3. \A c \in Copied : opens'[c] = opens[c]  BY <2>5, <3>1 DEF SendOpen
      <3>4. \A s \in Runs : thread'[s].new \subseteq thread[s].new
                            /\ thread'[s].gone = thread[s].gone
        BY <2>5 DEF SendOpen, Raise
      <3> QED  BY <3>1, <3>2, <3>3, <3>4
    <2>6. ASSUME NEW t \in Tickets, SendClose(r, t) PROVE EchoInv'
      <3>1. t \notin Copied /\ UNCHANGED <<tracked_tickets, opens>>  BY <2>6 DEF SendClose
      <3>2. \A c \in Copied : closes'[c] = closes[c]  BY <2>6, <3>1 DEF SendClose
      <3>3. \A s \in Runs : thread'[s].new = thread[s].new
                            /\ thread'[s].gone \subseteq thread[s].gone
        BY <2>6 DEF SendClose, Raise
      <3> QED  BY <3>1, <3>2, <3>3
    <2>7. CASE Forget(r)
      <3>1. \A s \in Runs : tracked_tickets'[s] \subseteq tracked_tickets[s]
        BY <2>7 DEF Forget
      <3>2. \A s \in Runs : thread'[s].new = thread[s].new /\ thread'[s].gone = thread[s].gone
        <4>1. \/ thread' = [thread EXCEPT ![r].ticket = None, ![r].pc = "send"]
              \/ thread' = [thread EXCEPT ![r].pc = "dead"]
          BY <2>7, Zenon DEF Forget, Raise, Goto
        <4> QED  BY <4>1
      <3>3. UNCHANGED feedVars  BY <2>7 DEF Forget
      <3> QED  BY <3>1, <3>2, <3>3
    <2>8. CASE EndScan(r)  BY <2>8 DEF EndScan
    <2> QED  BY <1>1, <2>1, <2>2, <2>3, <2>4, <2>5, <2>6, <2>7, <2>8 DEF RecorderStep
  <1>2. ASSUME NEW r \in Runs, StartBroadcasting(r) PROVE EchoInv'
    BY <1>2 DEF StartBroadcasting
  <1>3. CASE (\E t \in Tickets : OpenPosition(t) \/ ClosePosition(t)) \/ Reconnect
             \/ StopBroadcasting \/ UNCHANGED vars
    BY <1>3 DEF OpenPosition, ClosePosition, Reconnect, StopBroadcasting, vars
  <1> QED  BY <1>1, <1>2, <1>3 DEF Next

\* Loop prevention holds without any assumption: whatever the user clicks, with
\* late threads, several recorders at once, failing snapshots and a failing
\* socket, a position that a copier opened is never announced.
THEOREM RecorderNoEcho == Spec => []NoEcho
  <1>1. Init => EchoInv
    BY CopiedAssumption DEF Init, EchoInv, NoEcho, NoThread
  <1>2. Typed /\ EchoInv /\ [Next]_vars => EchoInv'  BY EchoStep
  <1>3. EchoInv => NoEcho  BY DEF EchoInv
  <1> QED  BY <1>1, <1>2, <1>3, RecorderTypeCorrect, PTL DEF Spec

----------------------------------------------------------------------------
(* The recorder implements the feed *)

\* The user never stops a recorder, so a new one starts only when the last one's
\* thread has died; the terminal answers every request.
Solo == "stop" \notin Env /\ "late" \notin Env /\ "blank" \notin Env

\* At most one thread is alive; it runs the recorder the controller knows.
OneThread ==
    \A r \in Runs :
        /\ Alive(r) => /\ is_running /\ recorder = r /\ running[r]
                       /\ thread[r].pc # "begin" => thread[r].rec = r
        /\ thread[r].pc \in {"none", "begin"} => tracked_tickets[r] = {}

\* A ticket has been announced no more than its position justifies.
Announced ==
    \A t \in Tickets :
        /\ opens[t] <= 1 /\ closes[t] <= 1
        /\ closes[t] = 1 => position[t] = "closed"
        /\ opens[t] = 1 => position[t] # "unopened" /\ t \notin Copied

\* What thread r knows of a ticket agrees with what has been announced of it.
KnowledgeOK(r, t) ==
    /\ t \in tracked_tickets[r] => position[t] # "unopened"
    /\ closes[t] = 1 /\ t \in tracked_tickets[r]
          => thread[r].pc = "forget" /\ thread[r].ticket = t
    /\ thread[r].pc = "forget" /\ thread[r].ticket = t => closes[t] = 1
    /\ opens[t] = 1 /\ position[t] = "open" => t \in tracked_tickets[r]
    /\ thread[r].pc = "diff" =>
          /\ t \in thread[r].current =>
                /\ closes[t] = 0 /\ position[t] # "unopened"
                /\ opens[t] = 1 => t \in tracked_tickets[r]
          /\ t \in tracked_tickets[r] \ thread[r].current => position[t] = "closed"
    /\ thread[r].pc \in {"send", "forget"} =>
          /\ t \in thread[r].new =>
                /\ opens[t] = 0 /\ closes[t] = 0 /\ t \notin tracked_tickets[r]
                /\ position[t] # "unopened" /\ t \notin Copied
          /\ t \in thread[r].gone =>
                closes[t] = 0 /\ t \in tracked_tickets[r] /\ position[t] = "closed"

Knowledge == \A r \in Runs : Alive(r) /\ thread[r].pc # "begin" =>
                 \A t \in Tickets : KnowledgeOK(r, t)

FeedInv == OneThread /\ Announced /\ Knowledge

\* A step of the only thread disturbs what the invariant says of that thread.
LEMMA OnlyThread ==
  ASSUME Typed, OneThread, Knowledge, NEW r \in Runs, Alive(r),
         \A s \in Runs : s # r => /\ thread'[s] = thread[s]
                                 /\ tracked_tickets'[s] = tracked_tickets[s],
         \/ thread'[r].pc = "dead"
         \/ /\ thread'[r].pc \notin {"none", "begin", "dead"} /\ thread'[r].rec = r
            /\ is_running' /\ recorder' = r /\ running'[r]
            /\ \A t \in Tickets : KnowledgeOK(r, t)'
  PROVE  OneThread' /\ Knowledge'
  <1>1. \A s \in Runs : s # r => ~Alive(s)  BY DEF OneThread
  <1>2. \A s \in Runs : s # r => ~Alive(s)'  BY <1>1 DEF Alive
  <1>3. OneThread'
    <2>1. ASSUME NEW s \in Runs, s # r
          PROVE  thread'[s].pc \in {"none", "begin"} => tracked_tickets'[s] = {}
      BY <2>1 DEF OneThread
    <2> QED  BY <1>2, <2>1 DEF OneThread, Alive
  <1>4. Knowledge'  BY <1>2 DEF Knowledge, Alive
  <1> QED  BY <1>3, <1>4

LEMMA ScanStep ==
  ASSUME Typed, FeedInv, Solo, NEW r \in Runs,
         Begin(r) \/ CheckLoop(r) \/ FetchPositions(r) \/ Diff(r) \/ EndScan(r)
  PROVE  FeedInv' /\ UNCHANGED feedVars
  <1> USE DEF At, Goto, controllerVars, worldVars, feedVars
  <1>1. UNCHANGED <<opens, closes, position>>
    BY DEF Begin, CheckLoop, FetchPositions, Diff, EndScan
  <1>2. Announced'  BY <1>1 DEF FeedInv, Announced
  <1>3. Alive(r) /\ is_running /\ recorder = r /\ running[r]
        /\ (thread[r].pc # "begin" => thread[r].rec = r)
    BY DEF Begin, CheckLoop, FetchPositions, Diff, EndScan, Alive, FeedInv, OneThread
  <1>4. UNCHANGED <<is_running, recorder, running>>
    BY Zenon DEF Begin, CheckLoop, FetchPositions, Diff, EndScan
  <1>5. is_running' /\ recorder' = r /\ running'[r]  BY <1>3, <1>4, Zenon
  <1>6. \A s \in Runs : s # r => /\ thread'[s] = thread[s]
                                /\ tracked_tickets'[s] = tracked_tickets[s]
    BY <1>3 DEF Begin, CheckLoop, FetchPositions, Diff, EndScan, Typed, TypeOK
  <1> DEFINE open == {t \in Tickets : position[t] = "open"}
  <1>7. Snapshots = {open}  BY DEF Snapshots, Solo
  <1>8. ASSUME NEW t \in Tickets
        PROVE  /\ opens[t] \in 0..1 /\ closes[t] \in 0..1
               /\ position[t] \in {"unopened", "open", "closed"}
               /\ closes[t] = 1 => position[t] = "closed"
               /\ opens[t] = 1 => position[t] # "unopened" /\ t \notin Copied
               /\ thread[r].pc # "begin" => KnowledgeOK(r, t)
    BY <1>3 DEF FeedInv, Announced, Knowledge, Typed, TypeOK
  <1>9. CASE Begin(r)
    <2>1. /\ thread[r].pc = "begin" /\ thread' = [thread EXCEPT ![r].rec = r, ![r].pc = "check"]
          /\ tracked_tickets' = [tracked_tickets EXCEPT ![r] = @ \cup (open \ Copied)]
      BY <1>3, <1>7, <1>9 DEF Begin
    <2>2. tracked_tickets[r] = {}  BY <2>1 DEF FeedInv, OneThread
    <2>3. tracked_tickets'[r] = open \ Copied  BY <2>1, <2>2 DEF Typed, TypeOK
    <2>4. thread'[r].pc = "check" /\ thread'[r].rec = r  BY <2>1 DEF Typed, TypeOK, Thread
    <2>5. ASSUME NEW t \in Tickets PROVE KnowledgeOK(r, t)'
      BY <1>1, <1>8, <2>3, <2>4 DEF KnowledgeOK
    <2> QED  BY <1>1, <1>2, <1>3, <1>5, <1>6, <2>4, <2>5, OnlyThread DEF FeedInv
  <1>10. CASE CheckLoop(r)
    <2>1. thread[r].pc = "check" /\ thread' = [thread EXCEPT ![r].pc = "fetch"]
          /\ UNCHANGED tracked_tickets
      BY <1>3, <1>10 DEF CheckLoop
    <2>2. thread'[r].pc = "fetch" /\ thread'[r].rec = r
      BY <1>3, <2>1 DEF Typed, TypeOK, Thread
    <2>3. ASSUME NEW t \in Tickets PROVE KnowledgeOK(r, t)'
      BY <1>1, <1>8, <2>1, <2>2 DEF KnowledgeOK
    <2> QED  BY <1>1, <1>2, <1>3, <1>5, <1>6, <2>2, <2>3, OnlyThread DEF FeedInv
  <1>11. CASE FetchPositions(r)
    <2>1. /\ thread[r].pc = "fetch" /\ UNCHANGED tracked_tickets
          /\ thread' = [thread EXCEPT ![r].current = open, ![r].pc = "diff"]
      BY <1>7, <1>11 DEF FetchPositions
    <2>2. thread'[r].pc = "diff" /\ thread'[r].rec = r /\ thread'[r].current = open
      BY <1>3, <2>1 DEF Typed, TypeOK, Thread
    <2>3. UNCHANGED tracked_tickets /\ thread[r].pc = "fetch"  BY <2>1
    <2>4. ASSUME NEW t \in Tickets PROVE KnowledgeOK(r, t)'
      <3>1. KnowledgeOK(r, t)  BY <1>8, <2>3
      <3>2. t \in open <=> position[t] = "open"  OBVIOUS
      <3>3. closes[t] = 1 => t \notin tracked_tickets[r]  BY <2>3, <3>1 DEF KnowledgeOK
      <3> HIDE DEF open
      <3> QED  BY <1>1, <1>8, <2>2, <2>3, <3>1, <3>2, <3>3 DEF KnowledgeOK
    <2> QED  BY <1>1, <1>2, <1>3, <1>5, <1>6, <2>2, <2>4, OnlyThread DEF FeedInv
  <1>12. CASE Diff(r)
    <2>1. /\ thread[r].pc = "diff" /\ UNCHANGED tracked_tickets
          /\ thread' = [thread EXCEPT
                 ![r].new = (thread[r].current \ tracked_tickets[r]) \ Copied,
                 ![r].gone = tracked_tickets[r] \ thread[r].current, ![r].pc = "send"]
      BY <1>3, <1>12 DEF Diff, Tracked
    <2>2. /\ thread'[r].pc = "send" /\ thread'[r].rec = r
          /\ thread'[r].new = (thread[r].current \ tracked_tickets[r]) \ Copied
          /\ thread'[r].gone = tracked_tickets[r] \ thread[r].current
      BY <1>3, <2>1 DEF Typed, TypeOK, Thread
    <2>3. UNCHANGED tracked_tickets /\ thread[r].pc = "diff"  BY <2>1
    <2>4. ASSUME NEW t \in Tickets PROVE KnowledgeOK(r, t)'
      <3>1. KnowledgeOK(r, t)  BY <1>8, <2>3
      <3>2. /\ t \in thread'[r].new <=> t \in thread[r].current
                                       /\ t \notin tracked_tickets[r] /\ t \notin Copied
            /\ t \in thread'[r].gone <=> t \in tracked_tickets[r] /\ t \notin thread[r].current
        BY <2>2
      <3>3. closes[t] = 1 => t \notin tracked_tickets[r]  BY <2>3, <3>1 DEF KnowledgeOK
      <3> QED  BY <1>1, <1>8, <2>2, <2>3, <3>1, <3>2, <3>3 DEF KnowledgeOK
    <2> QED  BY <1>1, <1>2, <1>3, <1>5, <1>6, <2>2, <2>4, OnlyThread DEF FeedInv
  <1>13. CASE EndScan(r)
    <2>1. /\ thread[r].pc = "send" /\ UNCHANGED tracked_tickets
          /\ thread' = [thread EXCEPT ![r].pc = "check"]
      BY <1>13 DEF EndScan
    <2>2. thread'[r].pc = "check" /\ thread'[r].rec = r
      BY <1>3, <2>1 DEF Typed, TypeOK, Thread
    <2>3. ASSUME NEW t \in Tickets PROVE KnowledgeOK(r, t)'
      BY <1>1, <1>8, <2>1, <2>2 DEF KnowledgeOK
    <2> QED  BY <1>1, <1>2, <1>3, <1>5, <1>6, <2>2, <2>3, OnlyThread DEF FeedInv
  <1> QED  BY <1>9, <1>10, <1>11, <1>12, <1>13

\* What a step of the only thread that announces or forgets keeps.
LEMMA SendStep ==
  ASSUME Typed, FeedInv, NEW r \in Runs, At(r, "send") \/ At(r, "forget"),
         NEW t \in Tickets, SendOpen(r, t) \/ SendClose(r, t) \/ Forget(r)
  PROVE  /\ Alive(r) /\ thread[r].rec = r /\ UNCHANGED position
         /\ \A s \in Runs : s # r => /\ thread'[s] = thread[s]
                                    /\ tracked_tickets'[s] = tracked_tickets[s]
         /\ \A u \in Tickets : KnowledgeOK(r, u)
         /\ UNCHANGED controllerVars => is_running' /\ recorder' = r /\ running'[r]
         /\ Raise(r) => thread'[r].pc = "dead"
  <1> USE DEF At, Goto, worldVars, feedVars, controllerVars
  <1>1. Alive(r) /\ thread[r].pc # "begin"  BY DEF Alive
  <1>2. is_running /\ recorder = r /\ running[r] /\ thread[r].rec = r
    BY <1>1 DEF FeedInv, OneThread
  <1>3. UNCHANGED <<running, position>>  BY Zenon DEF SendOpen, SendClose, Forget
  <1>4. ASSUME NEW s \in Runs, s # r
        PROVE  thread'[s] = thread[s] /\ tracked_tickets'[s] = tracked_tickets[s]
    <2>1. CASE SendOpen(r, t)  BY <1>2, <1>4, <2>1 DEF SendOpen, Raise, Typed, TypeOK
    <2>2. CASE SendClose(r, t)  BY <1>2, <1>4, <2>2 DEF SendClose, Raise, Typed, TypeOK
    <2>3. CASE Forget(r)
      <3>1. tracked_tickets' = [tracked_tickets EXCEPT ![r] = @ \ {thread[r].ticket}]
        BY <1>2, <2>3 DEF Forget
      <3>2. \/ thread' = [thread EXCEPT ![r].ticket = None, ![r].pc = "send"]
            \/ thread' = [thread EXCEPT ![r].pc = "dead"]
        BY <2>3, Zenon DEF Forget, Raise
      <3> QED  BY <1>4, <3>1, <3>2 DEF Typed, TypeOK
    <2> QED  BY <2>1, <2>2, <2>3
  <1>5. \A u \in Tickets : KnowledgeOK(r, u)  BY <1>1 DEF FeedInv, Knowledge
  <1>6. UNCHANGED controllerVars => is_running' /\ recorder' = r /\ running'[r]
    BY <1>2, <1>3, Zenon
  <1>7. Raise(r) => thread'[r].pc = "dead"  BY DEF Raise, Typed, TypeOK, Thread
  <1> QED  BY <1>1, <1>2, <1>3, <1>4, <1>5, <1>6, <1>7

LEMMA SendOpenStep ==
  ASSUME Typed, FeedInv, NEW r \in Runs, NEW t \in Tickets, SendOpen(r, t)
  PROVE  FeedInv' /\ (Feed!AnnounceOpen(t) \/ UNCHANGED feedVars)
  <1> USE DEF At, Goto, worldVars, feedVars, controllerVars
  <1>1. thread[r].pc = "send" /\ t \in thread[r].new /\ UNCHANGED closes  BY DEF SendOpen
  <1>2. /\ Alive(r) /\ thread[r].rec = r /\ UNCHANGED position
        /\ \A s \in Runs : s # r => /\ thread'[s] = thread[s]
                                   /\ tracked_tickets'[s] = tracked_tickets[s]
        /\ \A u \in Tickets : KnowledgeOK(r, u)
        /\ UNCHANGED controllerVars => is_running' /\ recorder' = r /\ running'[r]
        /\ Raise(r) => thread'[r].pc = "dead"
    BY <1>1, SendStep
  <1>3. /\ opens[t] = 0 /\ closes[t] = 0 /\ t \notin tracked_tickets[r]
        /\ position[t] # "unopened" /\ t \notin Copied
    BY <1>1, <1>2 DEF KnowledgeOK
  <1>4. CASE /\ opens' = [opens EXCEPT ![t] = Once(@)]
             /\ thread' = [thread EXCEPT ![r].new = @ \ {t}]
             /\ UNCHANGED controllerVars
    <2>1. opens' = [opens EXCEPT ![t] = 1]  BY <1>3, <1>4 DEF Once
    <2>2. Feed!AnnounceOpen(t)  BY <1>1, <1>3, <2>1 DEF Feed!AnnounceOpen
    <2>3. \A u \in Tickets : opens'[u] = IF u = t THEN 1 ELSE opens[u]
      BY <2>1 DEF Typed, TypeOK
    <2>4. Announced'  BY <1>1, <1>2, <1>3, <2>3 DEF FeedInv, Announced
    <2>5. /\ thread'[r].pc = "send" /\ thread'[r].rec = r
          /\ thread'[r].new = thread[r].new \ {t} /\ thread'[r].gone = thread[r].gone
      BY <1>1, <1>2, <1>4 DEF Typed, TypeOK, Thread
    <2>6. tracked_tickets'[r] = tracked_tickets[r] \cup {t}
      BY <1>2 DEF SendOpen, Typed, TypeOK
    <2>7. ASSUME NEW u \in Tickets PROVE KnowledgeOK(r, u)'
      <3>1. KnowledgeOK(r, u)  BY <1>2
      <3> QED  BY <1>1, <1>2, <1>3, <2>3, <2>5, <2>6, <3>1 DEF KnowledgeOK
    <2>8. OneThread' /\ Knowledge'
      BY <1>2, <1>4, <2>5, <2>7, OnlyThread DEF FeedInv
    <2> QED  BY <2>2, <2>4, <2>8 DEF FeedInv
  <1>5. CASE Raise(r) /\ UNCHANGED opens
    <2>1. Announced'  BY <1>1, <1>2, <1>5 DEF FeedInv, Announced
    <2>2. OneThread' /\ Knowledge'  BY <1>2, <1>5, OnlyThread DEF FeedInv
    <2> QED  BY <1>1, <1>5, <2>1, <2>2 DEF FeedInv
  <1> QED  BY <1>4, <1>5 DEF SendOpen

LEMMA SendCloseStep ==
  ASSUME Typed, FeedInv, NEW r \in Runs, NEW t \in Tickets, SendClose(r, t)
  PROVE  FeedInv' /\ (Feed!AnnounceClose(t) \/ UNCHANGED feedVars)
  <1> USE DEF At, Goto, worldVars, feedVars, controllerVars
  <1>1. /\ thread[r].pc = "send" /\ t \in thread[r].gone /\ thread[r].new = {}
        /\ UNCHANGED <<opens, tracked_tickets>>
    BY DEF SendClose
  <1>2. /\ Alive(r) /\ thread[r].rec = r /\ UNCHANGED position
        /\ \A s \in Runs : s # r => /\ thread'[s] = thread[s]
                                   /\ tracked_tickets'[s] = tracked_tickets[s]
        /\ \A u \in Tickets : KnowledgeOK(r, u)
        /\ UNCHANGED controllerVars => is_running' /\ recorder' = r /\ running'[r]
        /\ Raise(r) => thread'[r].pc = "dead"
    BY <1>1, SendStep
  <1>3. closes[t] = 0 /\ t \in tracked_tickets[r] /\ position[t] = "closed"
    BY <1>1, <1>2 DEF KnowledgeOK
  <1>4. CASE /\ closes' = [closes EXCEPT ![t] = Once(@)]
             /\ thread' = [thread EXCEPT ![r].gone = @ \ {t}, ![r].ticket = t,
                                         ![r].pc = "forget"]
             /\ UNCHANGED controllerVars
    <2>1. closes' = [closes EXCEPT ![t] = 1]  BY <1>3, <1>4 DEF Once
    <2>2. Feed!AnnounceClose(t)  BY <1>1, <1>3, <2>1 DEF Feed!AnnounceClose
    <2>3. \A u \in Tickets : closes'[u] = IF u = t THEN 1 ELSE closes[u]
      BY <2>1 DEF Typed, TypeOK
    <2>4. Announced'  BY <1>1, <1>2, <1>3, <2>3 DEF FeedInv, Announced
    <2>5. thread[r] \in Thread /\ thread \in [Runs -> Thread]  BY DEF Typed, TypeOK
    <2>6. thread'[r] = [thread[r] EXCEPT !.gone = @ \ {t}, !.ticket = t, !.pc = "forget"]
      BY <1>4, <2>5
    <2>7. /\ thread'[r].pc = "forget" /\ thread'[r].rec = r /\ thread'[r].ticket = t
          /\ thread'[r].new = thread[r].new /\ thread'[r].gone = thread[r].gone \ {t}
      BY <1>2, <2>5, <2>6 DEF Thread
    <2>8. ASSUME NEW u \in Tickets PROVE KnowledgeOK(r, u)'
      <3>1. KnowledgeOK(r, u)  BY <1>2
      <3> QED  BY <1>1, <1>2, <1>3, <2>3, <2>7, <3>1 DEF KnowledgeOK
    <2>9. OneThread' /\ Knowledge'
      BY <1>2, <1>4, <2>7, <2>8, OnlyThread DEF FeedInv
    <2> QED  BY <2>2, <2>4, <2>9 DEF FeedInv
  <1>5. CASE Raise(r) /\ UNCHANGED closes
    <2>1. Announced'  BY <1>1, <1>2, <1>5 DEF FeedInv, Announced
    <2>2. OneThread' /\ Knowledge'  BY <1>2, <1>5, OnlyThread DEF FeedInv
    <2> QED  BY <1>1, <1>5, <2>1, <2>2 DEF FeedInv
  <1> QED  BY <1>4, <1>5 DEF SendClose

LEMMA ForgetStep ==
  ASSUME Typed, FeedInv, NEW r \in Runs, Forget(r)
  PROVE  FeedInv' /\ UNCHANGED feedVars
  <1> USE DEF At, Goto, worldVars, feedVars, controllerVars
  <1> DEFINE t == thread[r].ticket
  <1>1. thread[r].pc = "forget" /\ UNCHANGED <<opens, closes>>  BY DEF Forget
  <1>2. t \in Tickets  BY <1>1, NoneAssumption DEF Typed, TypeOK, RecOK, Thread
  <1>3. /\ Alive(r) /\ thread[r].rec = r /\ UNCHANGED position
        /\ \A s \in Runs : s # r => /\ thread'[s] = thread[s]
                                   /\ tracked_tickets'[s] = tracked_tickets[s]
        /\ \A u \in Tickets : KnowledgeOK(r, u)
        /\ UNCHANGED controllerVars => is_running' /\ recorder' = r /\ running'[r]
        /\ Raise(r) => thread'[r].pc = "dead"
    BY <1>1, <1>2, SendStep
  <1>4. Announced'  BY <1>1, <1>3 DEF FeedInv, Announced
  <1>5. CASE thread' = [thread EXCEPT ![r].ticket = None, ![r].pc = "send"]
             /\ UNCHANGED controllerVars
    <2>1. thread[r] \in Thread /\ thread \in [Runs -> Thread]  BY DEF Typed, TypeOK
    <2>2. thread'[r] = [thread[r] EXCEPT !.ticket = None, !.pc = "send"]  BY <1>5, <2>1
    <2>3. /\ thread'[r].pc = "send" /\ thread'[r].rec = r
          /\ thread'[r].new = thread[r].new /\ thread'[r].gone = thread[r].gone
      BY <1>3, <2>1, <2>2 DEF Thread
    <2>4. tracked_tickets'[r] = tracked_tickets[r] \ {t}
      BY <1>3 DEF Forget, Typed, TypeOK
    <2>5. closes[t] = 1 /\ position[t] = "closed"
      BY <1>1, <1>2, <1>3 DEF KnowledgeOK, FeedInv, Announced
    <2>6. ASSUME NEW u \in Tickets PROVE KnowledgeOK(r, u)'
      <3>1. KnowledgeOK(r, u)  BY <1>3
      <3> HIDE DEF t
      <3>2. u # t => thread[r].ticket # u  BY DEF t
      <3> QED  BY <1>1, <1>3, <2>3, <2>4, <2>5, <3>1, <3>2 DEF KnowledgeOK
    <2>7. OneThread' /\ Knowledge'
      BY <1>3, <1>5, <2>3, <2>6, OnlyThread DEF FeedInv
    <2> QED  BY <1>1, <1>4, <2>7 DEF FeedInv
  <1>6. CASE Raise(r)
    <2>1. OneThread' /\ Knowledge'  BY <1>3, <1>6, OnlyThread DEF FeedInv
    <2> QED  BY <1>1, <1>4, <2>1 DEF FeedInv
  <1> QED  BY <1>5, <1>6 DEF Forget

\* The terminal, the socket and the start button.
LEMMA EnvironmentStep ==
  ASSUME Typed, FeedInv, Solo,
         \/ \E t \in Tickets : OpenPosition(t) \/ ClosePosition(t)
         \/ \E r \in Runs : StartBroadcasting(r)
         \/ Reconnect \/ StopBroadcasting \/ UNCHANGED vars
  PROVE  FeedInv' /\ UNCHANGED feedVars
  <1> USE DEF controllerVars, worldVars, feedVars
  <1>1. ASSUME NEW t \in Tickets, OpenPosition(t) \/ ClosePosition(t)
        PROVE  FeedInv' /\ UNCHANGED feedVars
    <2>1. UNCHANGED <<is_running, recorder, running, tracked_tickets, thread, opens, closes>>
      BY <1>1, Zenon DEF OpenPosition, ClosePosition
    <2>2. /\ \A u \in Tickets : u # t => position'[u] = position[u]
          /\ \/ position[t] = "unopened" /\ position'[t] = "open"
             \/ position[t] = "open" /\ position'[t] = "closed"
      BY <1>1 DEF OpenPosition, ClosePosition, Typed, TypeOK
    <2>3. OneThread'  BY <2>1, Zenon DEF FeedInv, OneThread, Alive
    <2>4. Announced'  BY <2>1, <2>2 DEF FeedInv, Announced
    <2>5. ASSUME NEW r \in Runs, NEW u \in Tickets, Alive(r), thread[r].pc # "begin"
          PROVE  KnowledgeOK(r, u)'
      <3>1. KnowledgeOK(r, u)  BY <2>5 DEF FeedInv, Knowledge
      <3>2. opens[u] = 1 => position[u] # "unopened"  BY DEF FeedInv, Announced
      <3>3. u # t => position'[u] = position[u]  BY <2>2
      <3> QED  BY <2>1, <2>2, <3>1, <3>2, <3>3 DEF KnowledgeOK
    <2>6. Knowledge'  BY <2>1, <2>5 DEF Knowledge, Alive
    <2> QED  BY <2>1, <2>3, <2>4, <2>6 DEF FeedInv
  <1>2. ASSUME NEW r \in Runs, StartBroadcasting(r)
        PROVE  FeedInv' /\ UNCHANGED feedVars
    <2>1. /\ ~is_running /\ thread[r].pc = "none"
          /\ thread' = [thread EXCEPT ![r].pc = "begin"] /\ recorder' = r
          /\ running' = [running EXCEPT ![r] = TRUE]
          /\ UNCHANGED <<tracked_tickets, position, opens, closes>>
      BY <1>2 DEF StartBroadcasting, At, Goto
    <2>2. is_running' = TRUE /\ running'[r] = TRUE
      BY <1>2, <2>1 DEF StartBroadcasting, Typed, TypeOK
    <2>3. is_running' /\ running'[r]  BY <2>2, Zenon
    <2>4. \A s \in Runs : ~Alive(s)  BY <2>1 DEF FeedInv, OneThread
    <2>5. thread'[r].pc = "begin" /\ \A s \in Runs : s # r => thread'[s] = thread[s]
      BY <2>1 DEF Typed, TypeOK, Thread
    <2>6. OneThread'
      <3>1. tracked_tickets'[r] = {}  BY <2>1 DEF FeedInv, OneThread
      <3> QED  BY <2>1, <2>3, <2>4, <2>5, <3>1 DEF FeedInv, OneThread, Alive
    <2>7. Knowledge'  BY <2>4, <2>5 DEF Knowledge, Alive
    <2>8. Announced'  BY <2>1 DEF FeedInv, Announced
    <2> QED  BY <2>1, <2>6, <2>7, <2>8 DEF FeedInv
  <1>3. CASE Reconnect \/ UNCHANGED vars
    <2>1. UNCHANGED <<is_running, recorder, running, tracked_tickets, thread, position,
                      opens, closes>>
      BY <1>3, Zenon DEF Reconnect, vars
    <2>2. OneThread'  BY <2>1, Zenon DEF FeedInv, OneThread, Alive
    <2>3. Announced'  BY <2>1 DEF FeedInv, Announced
    <2>4. \A r \in Runs, t \in Tickets : KnowledgeOK(r, t) => KnowledgeOK(r, t)'
      BY <2>1 DEF KnowledgeOK
    <2>5. Knowledge'  BY <2>1, <2>4 DEF FeedInv, Knowledge, Alive
    <2> QED  BY <2>1, <2>2, <2>3, <2>5 DEF FeedInv
  <1>4. ~StopBroadcasting  BY DEF StopBroadcasting, Solo
  <1> QED  BY <1>1, <1>2, <1>3, <1>4

LEMMA FeedStep ==
  ASSUME Typed, FeedInv, Solo, [Next]_vars
  PROVE  FeedInv' /\ [Feed!Next]_<<opens, closes>>
  <1>1. ASSUME NEW r \in Runs, RecorderStep(r)
        PROVE  FeedInv' /\ [Feed!Next]_<<opens, closes>>
    <2>1. CASE Begin(r) \/ CheckLoop(r) \/ FetchPositions(r) \/ Diff(r) \/ EndScan(r)
      BY <2>1, ScanStep DEF feedVars
    <2>2. ASSUME NEW t \in Tickets, SendOpen(r, t)
          PROVE  FeedInv' /\ [Feed!Next]_<<opens, closes>>
      BY <2>2, SendOpenStep DEF feedVars, Feed!Next
    <2>3. ASSUME NEW t \in Tickets, SendClose(r, t)
          PROVE  FeedInv' /\ [Feed!Next]_<<opens, closes>>
      BY <2>3, SendCloseStep DEF feedVars, Feed!Next
    <2>4. CASE Forget(r)  BY <2>4, ForgetStep DEF feedVars
    <2> QED  BY <1>1, <2>1, <2>2, <2>3, <2>4 DEF RecorderStep
  <1>2. CASE \/ \E t \in Tickets : OpenPosition(t) \/ ClosePosition(t)
             \/ \E r \in Runs : StartBroadcasting(r)
             \/ Reconnect \/ StopBroadcasting \/ UNCHANGED vars
    BY <1>2, EnvironmentStep DEF feedVars
  <1> QED  BY <1>1, <1>2 DEF Next

\* A recorder that is not restarted over a running thread implements the feed:
\* whatever positions open and close between any two of its requests, and however
\* often the socket fails and the user starts again, each ticket is announced OPEN
\* at most once and then CLOSE at most once.
THEOREM RecorderImplementsFeed == Solo => (Spec => FeedSpec)
  <1> SUFFICES ASSUME Solo PROVE Spec => FeedSpec  OBVIOUS
  <1>1. Init => FeedInv /\ Feed!Init
    <2> SUFFICES ASSUME Init PROVE FeedInv /\ Feed!Init  OBVIOUS
    <2>1. \A r \in Runs : thread[r].pc = "none" /\ tracked_tickets[r] = {}
      BY DEF Init, NoThread
    <2>2. \A t \in Tickets : opens[t] = 0 /\ closes[t] = 0  BY DEF Init
    <2>3. OneThread /\ Knowledge  BY <2>1 DEF OneThread, Knowledge, Alive
    <2>4. Announced
      <3> SUFFICES ASSUME NEW t \in Tickets
                   PROVE  opens[t] <= 1 /\ closes[t] <= 1 /\ opens[t] # 1 /\ closes[t] # 1
        BY Zenon DEF Announced
      <3>1. opens[t] = 0 /\ closes[t] = 0  BY <2>2
      <3> QED  BY <3>1
    <2> QED  BY <2>3, <2>4 DEF FeedInv, Init, Feed!Init
  <1>2. Typed /\ FeedInv /\ [Next]_vars => FeedInv' /\ [Feed!Next]_<<opens, closes>>
    BY FeedStep
  <1> QED  BY <1>1, <1>2, RecorderTypeCorrect, PTL DEF Spec, FeedSpec, Feed!Spec

----------------------------------------------------------------------------
(* Threads that begin before the next click run a recorder of their own *)

Running(r) == thread[r].pc \notin {"none", "begin", "dead"}

RunsOwn == \A r \in Runs : /\ thread[r].pc = "begin" => recorder = r
                           /\ Running(r) => thread[r].rec = r

\* A step of thread r is on its own recorder only, wherever it leads.
LEMMA OwnStep ==
  ASSUME Typed, RunsOwn, NEW r \in Runs, RecorderStep(r)
  PROVE  /\ RunsOwn'
         /\ Alive(r)
         /\ UNCHANGED <<recorder, running, position, connected>>
         /\ \A s \in Runs : s # r => /\ thread'[s] = thread[s]
                                    /\ tracked_tickets'[s] = tracked_tickets[s]
  <1> USE DEF At, Goto, Raise, Alive, Running, controllerVars, worldVars
  <1>1. UNCHANGED <<recorder, running, position, connected>>
    BY Zenon DEF RecorderStep, Begin, CheckLoop, FetchPositions, Diff, SendOpen, SendClose,
                 Forget, EndScan
  <1>2. ASSUME Begin(r)
        PROVE  /\ thread'[r].pc = "check" /\ thread'[r].rec = r /\ Alive(r)
               /\ \A s \in Runs : s # r => /\ thread'[s] = thread[s]
                                          /\ tracked_tickets'[s] = tracked_tickets[s]
    BY <1>2 DEF Begin, RunsOwn, Typed, TypeOK, Thread
  <1> DEFINE Own == /\ thread'[r].rec = thread[r].rec
                    /\ thread'[r].pc # "begin" /\ Running(r)
                    /\ \A s \in Runs : s # r => /\ thread'[s] = thread[s]
                                               /\ tracked_tickets'[s] = tracked_tickets[s]
  <1>3. ASSUME ~Begin(r) PROVE Own
    <2> USE DEF Typed, TypeOK, Thread
    <2>1. CASE CheckLoop(r) \/ EndScan(r)  BY <2>1 DEF CheckLoop, EndScan
    <2>5. CASE FetchPositions(r)  BY <2>5 DEF FetchPositions
    <2>6. CASE Diff(r)
      <3>1. PICK new \in SUBSET Tickets, gone \in SUBSET Tickets :
               thread' = [thread EXCEPT ![r].new = new, ![r].gone = gone, ![r].pc = "send"]
        BY <2>6 DEF Diff, Tracked, RunsOwn
      <3> QED  BY <2>6, <3>1 DEF Diff
    <2>2. ASSUME NEW t \in Tickets, SendOpen(r, t) PROVE Own
      BY <2>2 DEF SendOpen, RunsOwn
    <2>3. ASSUME NEW t \in Tickets, SendClose(r, t) PROVE Own
      <3>1. /\ thread[r].pc = "send" /\ tracked_tickets' = tracked_tickets
            /\ \/ thread' = [thread EXCEPT ![r].gone = @ \ {t}, ![r].ticket = t,
                                           ![r].pc = "forget"]
               \/ thread' = [thread EXCEPT ![r].pc = "dead"]
        BY <2>3, Zenon DEF SendClose
      <3> QED  BY <3>1
    <2>4. CASE Forget(r)
      <3>1. /\ thread[r].pc = "forget"
            /\ tracked_tickets' = [tracked_tickets EXCEPT ![r] = @ \ {thread[r].ticket}]
        BY <2>4 DEF Forget, RunsOwn
      <3>2. \/ thread' = [thread EXCEPT ![r].ticket = None, ![r].pc = "send"]
            \/ thread' = [thread EXCEPT ![r].pc = "dead"]
        BY <2>4, Zenon DEF Forget
      <3> QED  BY <3>1, <3>2
    <2> QED  BY <1>3, <2>1, <2>2, <2>3, <2>4, <2>5, <2>6 DEF RecorderStep
  <1> QED  BY <1>1, <1>2, <1>3 DEF RunsOwn

\* With no click before a thread has begun, a start finds none waiting to begin.
LEMMA StartOwn ==
  ASSUME Typed, RunsOwn, "late" \notin Env, NEW r \in Runs, StartBroadcasting(r)
  PROVE  /\ RunsOwn'
         /\ thread[r].pc = "none" /\ thread'[r].pc = "begin"
         /\ \A s \in Runs : s # r => thread'[s] = thread[s]
         /\ UNCHANGED <<tracked_tickets, position, connected, closes>>
  <1>1. /\ \A s \in Runs : thread[s].pc # "begin"
        /\ thread[r].pc = "none" /\ recorder' = r
        /\ UNCHANGED <<tracked_tickets, position, connected, closes>>
    BY DEF StartBroadcasting, ClicksInTime, At, worldVars, feedVars
  <1>2. thread'[r].pc = "begin" /\ \A s \in Runs : s # r => thread'[s] = thread[s]
    BY DEF StartBroadcasting, Goto, Typed, TypeOK, Thread
  <1> QED  BY <1>1, <1>2 DEF RunsOwn, Running

----------------------------------------------------------------------------
(* A CLOSE is only sent for a position that is closed *)

\* What thread r has seen of ticket t is true of its position: what it tracks has been
\* open, and what it takes for gone is closed.
SeenOK(r, t) ==
    /\ t \in tracked_tickets[r] => position[t] # "unopened"
    /\ thread[r].pc = "diff" =>
          /\ t \in thread[r].current => position[t] # "unopened"
          /\ t \in tracked_tickets[r] \ thread[r].current => position[t] = "closed"
    /\ thread[r].pc \in {"send", "forget"} =>
          /\ t \in thread[r].new => position[t] # "unopened"
          /\ t \in thread[r].gone => position[t] = "closed"

TruthInv == RunsOwn /\ CloseTruthful /\ \A r \in Runs, t \in Tickets : SeenOK(r, t)

\* A scan's steps, up to the announcements.
LEMMA TruthScan ==
  ASSUME Typed, TruthInv, "blank" \notin Env, NEW r \in Runs, NEW t \in Tickets,
         Begin(r) \/ CheckLoop(r) \/ FetchPositions(r) \/ Diff(r) \/ EndScan(r)
  PROVE  SeenOK(r, t)' /\ UNCHANGED closes
  <1> USE DEF At, Goto, feedVars, worldVars
  <1> DEFINE open == {u \in Tickets : position[u] = "open"}
  <1>1. Snapshots = {open}  BY DEF Snapshots
  <1>2. SeenOK(r, t) /\ position[t] \in {"unopened", "open", "closed"}
    BY DEF TruthInv, Typed, TypeOK
  <1>3. UNCHANGED <<position, closes>>
    BY DEF Begin, CheckLoop, FetchPositions, Diff, EndScan
  <1>4. CASE Begin(r)
    <2>1. /\ tracked_tickets' = [tracked_tickets EXCEPT ![recorder] = @ \cup (open \ Copied)]
          /\ thread' = [thread EXCEPT ![r].rec = recorder, ![r].pc = "check"]
          /\ recorder = r
      BY <1>1, <1>4 DEF Begin, TruthInv, RunsOwn
    <2>2. /\ tracked_tickets'[r] = tracked_tickets[r] \cup (open \ Copied)
          /\ thread'[r].pc = "check"
      BY <2>1 DEF Typed, TypeOK, Thread
    <2> QED  BY <1>2, <1>3, <2>2 DEF SeenOK
  <1>5. CASE CheckLoop(r) \/ EndScan(r)
    <2>1. thread'[r].pc \in {"fetch", "dead", "check"} /\ UNCHANGED tracked_tickets
      BY <1>5 DEF CheckLoop, EndScan, Typed, TypeOK, Thread
    <2> QED  BY <1>2, <1>3, <2>1 DEF SeenOK
  <1>6. CASE FetchPositions(r)
    <2>1. /\ thread' = [thread EXCEPT ![r].current = open, ![r].pc = "diff"]
          /\ UNCHANGED tracked_tickets
      BY <1>1, <1>6 DEF FetchPositions
    <2>2. thread'[r].pc = "diff" /\ thread'[r].current = open
      BY <2>1 DEF Typed, TypeOK, Thread
    <2> QED  BY <1>2, <1>3, <2>1, <2>2 DEF SeenOK
  <1>7. CASE Diff(r)
    <2>1. /\ thread[r].pc = "diff" /\ Tracked(r) = tracked_tickets[r]
          /\ UNCHANGED tracked_tickets
      BY <1>7 DEF Diff, TruthInv, RunsOwn, Running, Tracked
    <2>2. /\ thread'[r].pc = "send"
          /\ thread'[r].new = (thread[r].current \ tracked_tickets[r]) \ Copied
          /\ thread'[r].gone = tracked_tickets[r] \ thread[r].current
      BY <1>7, <2>1 DEF Diff, Typed, TypeOK, Thread
    <2> QED  BY <1>2, <1>3, <2>1, <2>2 DEF SeenOK
  <1> QED  BY <1>3, <1>4, <1>5, <1>6, <1>7

LEMMA TruthSend ==
  ASSUME Typed, TruthInv, NEW r \in Runs, NEW u \in Tickets,
         SendOpen(r, u) \/ SendClose(r, u) \/ Forget(r)
  PROVE  /\ \A t \in Tickets : SeenOK(r, t)'
         /\ \A t \in Tickets : closes'[t] > 0 => closes[t] > 0 \/ position[t] = "closed"
  <1> USE DEF At, Goto, Raise, feedVars, worldVars
  <1>1. UNCHANGED position  BY DEF SendOpen, SendClose, Forget
  <1>2. \A t \in Tickets : SeenOK(r, t)  BY DEF TruthInv
  <1>3. CASE SendOpen(r, u)
    <2>1. thread[r].pc = "send" /\ u \in thread[r].new /\ thread[r].rec = r /\ UNCHANGED closes
      BY <1>3 DEF SendOpen, TruthInv, RunsOwn, Running
    <2>2. tracked_tickets'[r] = tracked_tickets[r] \cup {u}
      BY <1>3, <2>1 DEF SendOpen, Typed, TypeOK
    <2>3. /\ thread'[r].pc \in {"send", "dead"}
          /\ thread'[r].new \subseteq thread[r].new /\ thread'[r].gone = thread[r].gone
      <3>1. \/ thread' = [thread EXCEPT ![r].new = @ \ {u}]
            \/ thread' = [thread EXCEPT ![r].pc = "dead"]
        BY <1>3, Zenon DEF SendOpen
      <3> QED  BY <2>1, <3>1 DEF Typed, TypeOK, Thread
    <2>4. position[u] # "unopened"  BY <1>2, <2>1 DEF SeenOK
    <2> QED  BY <1>1, <1>2, <2>1, <2>2, <2>3, <2>4 DEF SeenOK
  <1>4. CASE SendClose(r, u)
    <2>1. /\ thread[r].pc = "send" /\ u \in thread[r].gone /\ UNCHANGED tracked_tickets
          /\ closes' = [closes EXCEPT ![u] = Once(@)] \/ UNCHANGED closes
          /\ \/ thread' = [thread EXCEPT ![r].gone = @ \ {u}, ![r].ticket = u,
                                         ![r].pc = "forget"]
             \/ thread' = [thread EXCEPT ![r].pc = "dead"]
      BY <1>4, Zenon DEF SendClose
    <2>2. /\ thread'[r].pc \in {"forget", "dead"}
          /\ thread'[r].new = thread[r].new /\ thread'[r].gone \subseteq thread[r].gone
      BY <2>1 DEF Typed, TypeOK, Thread
    <2>3. position[u] = "closed"  BY <1>2, <2>1 DEF SeenOK
    <2>4. \A t \in Tickets : t # u => closes'[t] = closes[t]
      BY <2>1 DEF Typed, TypeOK
    <2> QED  BY <1>1, <1>2, <2>1, <2>2, <2>3, <2>4 DEF SeenOK
  <1>5. CASE Forget(r)
    <2>1. /\ thread[r].pc = "forget" /\ thread[r].rec = r /\ UNCHANGED closes
          /\ \/ thread' = [thread EXCEPT ![r].ticket = None, ![r].pc = "send"]
             \/ thread' = [thread EXCEPT ![r].pc = "dead"]
      BY <1>5, Zenon DEF Forget, TruthInv, RunsOwn, Running
    <2>2. tracked_tickets'[r] \subseteq tracked_tickets[r]
      BY <1>5, <2>1 DEF Forget, Typed, TypeOK
    <2>3. /\ thread'[r].pc \in {"send", "dead"}
          /\ thread'[r].new = thread[r].new /\ thread'[r].gone = thread[r].gone
      BY <2>1 DEF Typed, TypeOK, Thread
    <2> QED  BY <1>1, <1>2, <2>1, <2>2, <2>3 DEF SeenOK
  <1> QED  BY <1>3, <1>4, <1>5

LEMMA TruthStep ==
  ASSUME Typed, TruthInv, "late" \notin Env, "blank" \notin Env, [Next]_vars
  PROVE  TruthInv'
  <1>1. ASSUME NEW r \in Runs, RecorderStep(r) PROVE TruthInv'
    <2>1. /\ RunsOwn' /\ UNCHANGED position
          /\ \A s \in Runs : s # r => /\ thread'[s] = thread[s]
                                     /\ tracked_tickets'[s] = tracked_tickets[s]
      BY <1>1, OwnStep DEF TruthInv
    <2>2. /\ \A t \in Tickets : SeenOK(r, t)'
          /\ \A t \in Tickets : closes'[t] > 0 => closes[t] > 0 \/ position[t] = "closed"
      <3>1. CASE Begin(r) \/ CheckLoop(r) \/ FetchPositions(r) \/ Diff(r) \/ EndScan(r)
        BY <3>1, TruthScan
      <3>2. CASE \E t \in Tickets : SendOpen(r, t) \/ SendClose(r, t)
        BY <3>2, TruthSend
      <3>3. CASE Forget(r)
        <4>1. thread[r].ticket \in Tickets
          BY <3>3, NoneAssumption DEF Forget, At, Typed, TypeOK, RecOK, Thread
        <4> QED  BY <3>3, <4>1, TruthSend
      <3> QED  BY <1>1, <3>1, <3>2, <3>3 DEF RecorderStep
    <2>3. CloseTruthful'  BY <2>1, <2>2 DEF TruthInv, CloseTruthful
    <2>4. \A s \in Runs, t \in Tickets : SeenOK(s, t)'
      <3> SUFFICES ASSUME NEW s \in Runs, NEW t \in Tickets PROVE SeenOK(s, t)'  OBVIOUS
      <3>1. SeenOK(s, t)  BY DEF TruthInv
      <3>2. CASE s # r  BY <2>1, <3>1, <3>2 DEF SeenOK
      <3> QED  BY <2>2, <3>2
    <2> QED  BY <2>1, <2>3, <2>4 DEF TruthInv
  <1>2. ASSUME NEW r \in Runs, StartBroadcasting(r) PROVE TruthInv'
    <2>1. /\ RunsOwn' /\ thread'[r].pc = "begin"
          /\ \A s \in Runs : s # r => thread'[s] = thread[s]
          /\ UNCHANGED <<tracked_tickets, position, closes>>
      BY <1>2, StartOwn DEF TruthInv
    <2>2. CloseTruthful'  BY <2>1 DEF TruthInv, CloseTruthful
    <2>3. \A s \in Runs, t \in Tickets : SeenOK(s, t)'  BY <2>1 DEF TruthInv, SeenOK
    <2> QED  BY <2>1, <2>2, <2>3 DEF TruthInv
  <1>3. ASSUME NEW u \in Tickets, OpenPosition(u) \/ ClosePosition(u) PROVE TruthInv'
    <2>1. UNCHANGED <<recorder, tracked_tickets, thread, closes>>
      BY <1>3 DEF OpenPosition, ClosePosition, controllerVars, feedVars
    <2>2. \A t \in Tickets : /\ position[t] # "unopened" => position'[t] # "unopened"
                             /\ position[t] = "closed" => position'[t] = "closed"
      BY <1>3 DEF OpenPosition, ClosePosition, Typed, TypeOK
    <2>3. RunsOwn'  BY <2>1 DEF TruthInv, RunsOwn, Running
    <2>4. CloseTruthful'  BY <2>1, <2>2 DEF TruthInv, CloseTruthful
    <2>5. \A s \in Runs, t \in Tickets : SeenOK(s, t)'
      BY <2>1, <2>2 DEF TruthInv, SeenOK
    <2> QED  BY <2>3, <2>4, <2>5 DEF TruthInv
  <1>4. CASE Reconnect \/ StopBroadcasting \/ UNCHANGED vars
    <2>1. UNCHANGED <<recorder, tracked_tickets, thread, position, closes>>
      BY <1>4 DEF Reconnect, StopBroadcasting, vars, controllerVars, worldVars, feedVars
    <2> QED  BY <2>1 DEF TruthInv, RunsOwn, Running, CloseTruthful, SeenOK
  <1> QED  BY <1>1, <1>2, <1>3, <1>4 DEF Next

\* While the terminal answers and clicks come no faster than threads begin, a position
\* announced closed is closed: through stops and starts that leave old threads scanning
\* next to new ones, and through a socket that fails between any two of their steps.
THEOREM RecorderCloseTruthful ==
  "late" \notin Env /\ "blank" \notin Env => (Spec => []CloseTruthful)
  <1> SUFFICES ASSUME "late" \notin Env, "blank" \notin Env PROVE Spec => []CloseTruthful
    OBVIOUS
  <1>1. Init => TruthInv
    BY DEF Init, TruthInv, RunsOwn, Running, CloseTruthful, SeenOK, NoThread
  <1>2. Typed /\ TruthInv /\ [Next]_vars => TruthInv'  BY TruthStep
  <1>3. TruthInv => CloseTruthful  BY DEF TruthInv
  <1> QED  BY <1>1, <1>2, <1>3, RecorderTypeCorrect, PTL DEF Spec

----------------------------------------------------------------------------
(* The button tells the truth *)

\* The user only stops, or the socket only fails.
OneTrouble == "stop" \notin Env \/ "disconnect" \notin Env

\* What a thread is to announce closed, or has and is to forget, is tracked by its
\* recorder: no KeyError ends it.
NoKeyError ==
    \A r \in Runs :
        /\ thread[r].pc \in {"send", "forget"} => thread[r].gone \subseteq tracked_tickets[r]
        /\ thread[r].pc = "forget" =>
              thread[r].ticket \in tracked_tickets[r] /\ thread[r].ticket \notin thread[r].gone

\* A live recorder still switched on is the one the button is about.
Shown ==
    /\ "disconnect" \notin Env => connected
    /\ \A r \in Runs : Alive(r) /\ running[r] => is_running /\ recorder = r
    /\ "stop" \notin Env => \A r \in Runs : Alive(r) => running[r]

QuietInv == RunsOwn /\ NoKeyError /\ Shown

LEMMA NoKeyErrorStep ==
  ASSUME Typed, QuietInv, NEW r \in Runs, RecorderStep(r)
  PROVE  NoKeyError'
  <1> USE DEF At, Goto, Raise
  <1>1. \A s \in Runs : s # r => /\ thread'[s] = thread[s]
                                /\ tracked_tickets'[s] = tracked_tickets[s]
    BY OwnStep DEF QuietInv
  <1> DEFINE OK == /\ thread'[r].pc \in {"send", "forget"}
                         => thread'[r].gone \subseteq tracked_tickets'[r]
                   /\ thread'[r].pc = "forget" =>
                         /\ thread'[r].ticket \in tracked_tickets'[r]
                         /\ thread'[r].ticket \notin thread'[r].gone
  <1>2. CASE Begin(r) \/ CheckLoop(r) \/ FetchPositions(r) \/ EndScan(r)
    <2>1. thread'[r].pc \notin {"send", "forget"}
      <3> USE DEF Typed, TypeOK, Thread
      <3>1. CASE Begin(r)  BY <3>1 DEF Begin
      <3>2. CASE CheckLoop(r) \/ EndScan(r)  BY <3>2 DEF CheckLoop, EndScan
      <3>3. CASE FetchPositions(r)  BY <3>3 DEF FetchPositions
      <3> QED  BY <1>2, <3>1, <3>2, <3>3
    <2> QED  BY <1>1, <2>1 DEF QuietInv, NoKeyError
  <1>3. CASE Diff(r)
    <2>1. Tracked(r) = tracked_tickets[r] /\ UNCHANGED tracked_tickets
      BY <1>3 DEF Diff, QuietInv, RunsOwn, Running, Tracked
    <2>2. thread'[r].pc = "send" /\ thread'[r].gone = tracked_tickets[r] \ thread[r].current
      BY <1>3, <2>1 DEF Diff, Typed, TypeOK, Thread
    <2> QED  BY <1>1, <2>1, <2>2 DEF QuietInv, NoKeyError
  <1>4. ASSUME NEW t \in Tickets, SendOpen(r, t) PROVE NoKeyError'
    <2>1. thread[r].pc = "send" /\ thread[r].rec = r
      BY <1>4 DEF SendOpen, QuietInv, RunsOwn, Running
    <2>2. tracked_tickets'[r] = tracked_tickets[r] \cup {t}
      BY <1>4, <2>1 DEF SendOpen, Typed, TypeOK
    <2>3. thread'[r].pc \in {"send", "dead"} /\ thread'[r].gone = thread[r].gone
      <3>1. \/ thread' = [thread EXCEPT ![r].new = @ \ {t}]
            \/ thread' = [thread EXCEPT ![r].pc = "dead"]
        BY <1>4, Zenon DEF SendOpen
      <3> QED  BY <2>1, <3>1 DEF Typed, TypeOK, Thread
    <2>4. OK  BY <2>1, <2>2, <2>3 DEF QuietInv, NoKeyError
    <2> QED  BY <1>1, <2>4 DEF QuietInv, NoKeyError
  <1>5. ASSUME NEW t \in Tickets, SendClose(r, t) PROVE NoKeyError'
    <2>1. /\ thread[r].pc = "send" /\ t \in thread[r].gone /\ UNCHANGED tracked_tickets
          /\ \/ thread' = [thread EXCEPT ![r].gone = @ \ {t}, ![r].ticket = t,
                                         ![r].pc = "forget"]
             \/ thread' = [thread EXCEPT ![r].pc = "dead"]
      BY <1>5, Zenon DEF SendClose
    <2>2. \/ thread'[r].pc = "dead"
          \/ /\ thread'[r].pc = "forget" /\ thread'[r].ticket = t
             /\ thread'[r].gone = thread[r].gone \ {t}
      BY <2>1 DEF Typed, TypeOK, Thread
    <2>3. OK  BY <2>1, <2>2 DEF QuietInv, NoKeyError
    <2> QED  BY <1>1, <2>3 DEF QuietInv, NoKeyError
  <1>6. CASE Forget(r)
    <2>1. /\ thread[r].pc = "forget" /\ thread[r].rec = r
          /\ \/ thread' = [thread EXCEPT ![r].ticket = None, ![r].pc = "send"]
             \/ thread' = [thread EXCEPT ![r].pc = "dead"]
      BY <1>6, Zenon DEF Forget, QuietInv, RunsOwn, Running
    <2>2. tracked_tickets'[r] = tracked_tickets[r] \ {thread[r].ticket}
      BY <1>6, <2>1 DEF Forget, Typed, TypeOK
    <2>3. thread'[r].pc \in {"send", "dead"} /\ thread'[r].gone = thread[r].gone
      BY <2>1 DEF Typed, TypeOK, Thread
    <2>4. OK  BY <2>1, <2>2, <2>3 DEF QuietInv, NoKeyError
    <2> QED  BY <1>1, <2>4 DEF QuietInv, NoKeyError
  <1> QED  BY <1>2, <1>3, <1>4, <1>5, <1>6 DEF RecorderStep

\* A thread that goes on leaves the button alone; only a failed emit raises.
LEMMA RaisesOffline ==
  ASSUME Typed, QuietInv, NEW r \in Runs, RecorderStep(r)
  PROVE  \/ UNCHANGED controllerVars
         \/ ~connected /\ is_running' = FALSE /\ thread'[r].pc = "dead"
  <1>1. ASSUME Raise(r) PROVE is_running' = FALSE /\ thread'[r].pc = "dead"
    BY <1>1 DEF Raise, Goto, Typed, TypeOK, Thread
  <1>2. CASE Begin(r) \/ CheckLoop(r) \/ FetchPositions(r) \/ Diff(r) \/ EndScan(r)
    BY <1>2, Zenon DEF Begin, CheckLoop, FetchPositions, Diff, EndScan
  <1>3. ASSUME NEW t \in Tickets, SendOpen(r, t)
        PROVE  UNCHANGED controllerVars \/ (~connected /\ Raise(r))
    BY <1>3, Zenon DEF SendOpen
  <1>4. ASSUME NEW t \in Tickets, SendClose(r, t)
        PROVE  UNCHANGED controllerVars \/ (~connected /\ Raise(r))
    <2>1. Tracked(r) = tracked_tickets[r] /\ thread[r].pc = "send" /\ t \in thread[r].gone
      BY <1>4 DEF SendClose, At, QuietInv, RunsOwn, Running, Tracked
    <2>2. t \in Tracked(r)  BY <2>1 DEF QuietInv, NoKeyError
    <2> QED  BY <1>4, <2>2, Zenon DEF SendClose
  <1>5. CASE Forget(r)
    <2>1. Tracked(r) = tracked_tickets[r] /\ thread[r].pc = "forget"
      BY <1>5 DEF Forget, At, QuietInv, RunsOwn, Running, Tracked
    <2>2. thread[r].ticket \in Tracked(r)  BY <2>1 DEF QuietInv, NoKeyError
    <2> QED  BY <1>5, <2>2, Zenon DEF Forget
  <1> QED  BY <1>1, <1>2, <1>3, <1>4, <1>5, Zenon DEF RecorderStep

LEMMA QuietStep ==
  ASSUME Typed, QuietInv, OneTrouble, "late" \notin Env, [Next]_vars
  PROVE  QuietInv'
  <1> USE DEF QuietInv
  <1>1. ASSUME NEW r \in Runs, RecorderStep(r) PROVE QuietInv'
    <2>1. /\ RunsOwn' /\ Alive(r)
          /\ UNCHANGED <<recorder, running, connected>>
          /\ \A s \in Runs : s # r => thread'[s] = thread[s]
      BY <1>1, OwnStep
    <2>2. NoKeyError'  BY <1>1, NoKeyErrorStep
    <2>3. /\ \A s \in Runs : Alive(s)' => Alive(s)
          /\ \A s \in Runs : (running[s])' <=> running[s]
      BY <2>1 DEF Alive
    <2>4. ("disconnect" \notin Env => connected)'  BY <2>1, Zenon DEF Shown
    <2>5. ("stop" \notin Env => \A s \in Runs : Alive(s) => running[s])'
      BY <2>3, Zenon DEF Shown
    <2>6. (\A s \in Runs : Alive(s) /\ running[s] => is_running /\ recorder = s)'
      <3>1. CASE UNCHANGED controllerVars
        <4>1. UNCHANGED <<is_running, recorder>>  BY <3>1, Zenon DEF controllerVars
        <4> QED  BY <2>3, <4>1, Zenon DEF Shown
      <3>2. CASE ~connected /\ thread'[r].pc = "dead"
        <4>1. "stop" \notin Env  BY <3>2, Zenon DEF Shown, OneTrouble
        <4>2. \A s \in Runs : Alive(s) => recorder = s  BY <4>1, Zenon DEF Shown
        <4>3. \A s \in Runs : s # r => ~Alive(s)  BY <2>1, <4>2
        <4>4. ~Alive(r)'  BY <3>2 DEF Alive
        <4> QED  BY <2>3, <4>3, <4>4, Zenon
      <3> QED  BY <1>1, <3>1, <3>2, RaisesOffline
    <2> QED  BY <2>1, <2>2, <2>4, <2>5, <2>6, Zenon DEF Shown
  <1>2. ASSUME NEW r \in Runs, StartBroadcasting(r) PROVE QuietInv'
    <2>1. /\ RunsOwn' /\ thread'[r].pc = "begin"
          /\ \A s \in Runs : s # r => thread'[s] = thread[s]
          /\ UNCHANGED <<tracked_tickets, connected>>
      BY <1>2, StartOwn
    <2>2. NoKeyError'  BY <2>1 DEF NoKeyError
    <2>3. /\ ~is_running /\ is_running' = TRUE /\ recorder' = r
          /\ running' = [running EXCEPT ![r] = TRUE]
      BY <1>2, Zenon DEF StartBroadcasting
    <2>4. \A s \in Runs : s # r => running'[s] = running[s]  BY <2>3 DEF Typed, TypeOK
    <2>5. running'[r]  BY <2>3, Zenon DEF Typed, TypeOK
    <2>6. \A s \in Runs : s # r => (Alive(s)' <=> Alive(s))  BY <2>1 DEF Alive
    <2>7. \A s \in Runs : ~(Alive(s) /\ running[s])  BY <2>3, Zenon DEF Shown
    <2>8. ("disconnect" \notin Env => connected)'  BY <2>1, Zenon DEF Shown
    <2>9. ("stop" \notin Env => \A s \in Runs : Alive(s) => running[s])'
      BY <2>4, <2>5, <2>6, Zenon DEF Shown
    <2>10. (\A s \in Runs : Alive(s) /\ running[s] => is_running /\ recorder = s)'
      BY <2>3, <2>4, <2>6, <2>7, Zenon
    <2> QED  BY <2>1, <2>2, <2>8, <2>9, <2>10, Zenon DEF Shown
  <1>3. CASE StopBroadcasting
    <2>1. /\ "stop" \in Env /\ is_running
          /\ running' = [running EXCEPT ![recorder] = FALSE]
          /\ UNCHANGED <<recorder, tracked_tickets, thread, connected>>
      BY <1>3, Zenon DEF StopBroadcasting, worldVars
    <2>2. recorder \in Runs  BY <2>1 DEF Typed, TypeOK, RecOK
    <2>3. ~running'[recorder]  BY <2>1, <2>2, Zenon DEF Typed, TypeOK
    <2>4. \A s \in Runs : s # recorder => running'[s] = running[s]
      BY <2>1 DEF Typed, TypeOK
    <2>5. \A s \in Runs : ~(Alive(s) /\ running'[s])  BY <2>3, <2>4, Zenon DEF Shown
    <2>6. \A s \in Runs : Alive(s)' <=> Alive(s)  BY <2>1 DEF Alive
    <2>7. RunsOwn' /\ NoKeyError'  BY <2>1 DEF RunsOwn, Running, NoKeyError
    <2>8. Shown'  BY <2>1, <2>5, <2>6, Zenon DEF Shown
    <2> QED  BY <2>7, <2>8
  <1>4. CASE Reconnect
    <2>1. /\ "disconnect" \in Env
          /\ UNCHANGED <<is_running, recorder, running, tracked_tickets, thread>>
      BY <1>4, Zenon DEF Reconnect, controllerVars
    <2>2. RunsOwn' /\ NoKeyError'  BY <2>1 DEF RunsOwn, Running, NoKeyError
    <2>3. Shown'  BY <2>1, Zenon DEF Shown, Alive
    <2> QED  BY <2>2, <2>3
  <1>5. CASE (\E t \in Tickets : OpenPosition(t) \/ ClosePosition(t)) \/ UNCHANGED vars
    <2>1. UNCHANGED <<is_running, recorder, running, tracked_tickets, thread, connected>>
      BY <1>5, Zenon DEF OpenPosition, ClosePosition, vars, controllerVars, worldVars
    <2>2. RunsOwn' /\ NoKeyError'  BY <2>1 DEF RunsOwn, Running, NoKeyError
    <2>3. Shown'  BY <2>1, Zenon DEF Shown, Alive
    <2> QED  BY <2>2, <2>3
  <1> QED  BY <1>1, <1>2, <1>3, <1>4, <1>5 DEF Next

\* While clicks come no faster than threads begin, and the user stops or the socket
\* fails but not both, STOPPED means stopped: every thread still alive ends at its next
\* check, whatever was started before and whatever the terminal answers.
THEOREM RecorderStoppedIsQuiet ==
  OneTrouble /\ "late" \notin Env => (Spec => []StoppedIsQuiet)
  <1> SUFFICES ASSUME OneTrouble, "late" \notin Env PROVE Spec => []StoppedIsQuiet  OBVIOUS
  <1>1. Init => QuietInv
    <2> SUFFICES ASSUME Init PROVE QuietInv  OBVIOUS
    <2>1. \A r \in Runs : thread[r].pc = "none"  BY DEF Init, NoThread
    <2>2. RunsOwn /\ NoKeyError  BY <2>1 DEF RunsOwn, Running, NoKeyError
    <2>3. connected  BY Zenon DEF Init
    <2>4. Shown  BY <2>1, <2>3 DEF Shown, Alive
    <2> QED  BY <2>2, <2>4 DEF QuietInv
  <1>2. Typed /\ QuietInv /\ [Next]_vars => QuietInv'  BY QuietStep
  <1>3. QuietInv => StoppedIsQuiet
    <2> SUFFICES ASSUME QuietInv, ~is_running, NEW r \in Runs, Alive(r)
                 PROVE  ~running[IF At(r, "begin") THEN recorder ELSE thread[r].rec]
      BY DEF StoppedIsQuiet
    <2>1. (IF At(r, "begin") THEN recorder ELSE thread[r].rec) = r
      BY DEF QuietInv, RunsOwn, Running, Alive, At
    <2>2. ~running[r]  BY Zenon DEF QuietInv, Shown
    <2> QED  BY <2>1, <2>2, Zenon
  <1> QED  BY <1>1, <1>2, <1>3, RecorderTypeCorrect, PTL DEF Spec

============================================================================
