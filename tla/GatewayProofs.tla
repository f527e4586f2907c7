---------------------------- MODULE GatewayProofs ----------------------------
(***************************************************************************)
(* Proofs about the gateway: NodeRegistry by itself, for any sockets,      *)
(* users and subscriptions, then SignalRelay over it, for any number of    *)
(* nodes and tickets, in which any query may fail.  The registry's         *)
(* invariant ties each entry to the registration that made it; the relay's *)
(* says what a row holds whatever the interleaving of the handlers that    *)
(* save it.                                                                *)
(***************************************************************************)
EXTENDS SignalRelay, FiniteSetTheorems, TLAPS

\* An entry is made by the last step of a registration.
NoEntryBefore == \A s \in Sockets :
    /\ socket[s] = "new" => At(s, "idle")
    /\ ~At(s, "done") => connectedClients[s] = None
    /\ Waiting(s) => Connected(s) \/ s \in raced
    /\ s \in raced => socket[s] = "gone"

\* A slave's registration has its master when it waits for the second time, and a
\* master's entry names that master.
RoleKept == \A s \in Sockets :
    /\ At(s, "findSlaveId") =>
           NodeOf[s] \in Slaves /\ registration[s].subscribedMasterId # None
    /\ NodeOf[s] \in Masters => connectedClients[s] \in {None, NodeOf[s]}

\* The sockets with an entry for slave u in the room of m.
EntriesOf(m, u) == {s \in Sockets : NodeOf[s] = u /\ connectedClients[s] = m}

\* What the last event about a slave says, while it is on its way: online only if the
\* slave has an entry, and offline only if no socket but an outlived one has.
LastIsTrue == \A d \in updates :
    /\ NodeOf[d.socket] \in Slaves /\ d.master \in Windows
    /\ d.last /\ d.online => EntriesOf(d.master, NodeOf[d.socket]) # {}
    /\ d.last /\ ~d.online => \A s \in EntriesOf(d.master, NodeOf[d.socket]) :
                                 Connected(s) => s \in outlived

\* Only the windows that are followed show anything.
OnlyWindows == \A m \in Masters \ Windows : subscriber_online_status[m] = {}

RegistryInv ==
    /\ TypeOK /\ NoEntryBefore /\ RoleKept /\ GhostsAreRaced
    /\ LastIsTrue /\ OnlyWindows /\ ShownHasEntry /\ RegisteredIsShown

----------------------------------------------------------------------------
(* Types *)

LEMMA InitTyped == RegistryInit => TypeOK
  BY DEF RegistryInit, TypeOK, Registration

WindowTyped ==
    /\ subscriber_online_status \in [Masters -> SUBSET Slaves]
    /\ updates \subseteq [socket : Sockets, master : Masters, online : BOOLEAN, last : BOOLEAN]
    /\ unheard \subseteq Masters \X Slaves

\* What Tell does to the events on their way: those about the slave told of are not the
\* last any more, and a new one may be there, which is.
LEMMA TellEffect ==
  ASSUME WindowTyped, NEW s \in Sockets, NEW m \in Masters, NEW online \in BOOLEAN,
         Tell(s, m, online), m \in Windows
  PROVE  /\ \A d \in updates' :
               \/ d = [socket |-> s, master |-> m, online |-> online, last |-> TRUE]
               \/ \E e \in updates :
                    /\ d \in [socket : Sockets, master : Masters, online : BOOLEAN, last : BOOLEAN]
                    /\ d.socket = e.socket /\ d.master = e.master /\ d.online = e.online
                    /\ d.last => e.last /\ ~(e.master = m /\ NodeOf[e.socket] = NodeOf[s])
         /\ unheard' = unheard \cup {<<m, NodeOf[s]>>}
         /\ UNCHANGED subscriber_online_status
<1> DEFINE about(d) == d.master = m /\ NodeOf[d.socket] = NodeOf[s]
           demoted(d) == [d EXCEPT !.last = @ /\ ~about(d)]
           new == [socket |-> s, master |-> m, online |-> online, last |-> TRUE]
<1>1. \A d \in updates' : d = new \/ \E e \in updates : d = demoted(e)
  BY DEF Tell
<1>2. ASSUME NEW e \in updates
      PROVE  /\ demoted(e) \in [socket : Sockets, master : Masters, online : BOOLEAN, last : BOOLEAN]
             /\ demoted(e).socket = e.socket /\ demoted(e).master = e.master
             /\ demoted(e).online = e.online
             /\ demoted(e).last => e.last /\ ~about(e)
  <2>1. e \in [socket : Sockets, master : Masters, online : BOOLEAN, last : BOOLEAN]
    BY DEF WindowTyped
  <2>2. (e.last /\ ~about(e)) \in BOOLEAN  OBVIOUS
  <2> HIDE DEF about
  <2> QED  BY <2>1, <2>2
<1>3. /\ unheard' = unheard \cup {<<m, NodeOf[s]>>}
      /\ UNCHANGED subscriber_online_status
  BY DEF Tell
<1> HIDE DEF demoted, about, new
<1> QED  BY <1>1, <1>2, <1>3 DEF new, about

LEMMA TellTyped ==
  ASSUME WindowTyped, NEW s \in Sockets, NEW m \in Masters, NEW online \in BOOLEAN,
         NodeOf[s] \in Slaves, Tell(s, m, online)
  PROVE  WindowTyped'
<1>1. CASE m \in Windows
  <2> DEFINE Updates == [socket : Sockets, master : Masters, online : BOOLEAN, last : BOOLEAN]
             new == [socket |-> s, master |-> m, online |-> online, last |-> TRUE]
  <2>1. /\ \A d \in updates' : d = new \/ d \in Updates
        /\ unheard' = unheard \cup {<<m, NodeOf[s]>>}
        /\ UNCHANGED subscriber_online_status
    BY <1>1, TellEffect
  <2>2. new \in Updates  OBVIOUS
  <2> HIDE DEF Updates, new
  <2>3. updates' \subseteq Updates  BY <2>1, <2>2
  <2>4. unheard' \subseteq Masters \X Slaves  BY <2>1 DEF WindowTyped
  <2> QED  BY <2>1, <2>3, <2>4 DEF WindowTyped, Updates
<1>2. CASE m \notin Windows  BY <1>2 DEF Tell, WindowTyped, windowVars
<1> QED  BY <1>1, <1>2

\* Every step keeps the types: the next registration of a socket is again one.
LEMMA TypeStep ==
  ASSUME TypeOK, RoleKept, LastIsTrue, [RegistryNext]_registryVars
  PROVE  TypeOK'
<1> USE NodesAssumption, UsersAssumption, WindowsAssumption DEF TypeOK, Registration, windowVars
<1>1. ASSUME NEW s \in Sockets, Connect(s) PROVE TypeOK'
  BY <1>1 DEF Connect
<1>2. ASSUME NEW s \in Sockets, RegisterNode(s) PROVE TypeOK'
  BY <1>2 DEF RegisterNode
<1>3. ASSUME NEW s \in Sockets, RegisterFails(s) PROVE TypeOK'
  BY <1>3 DEF RegisterFails
<1>4. ASSUME NEW s \in Sockets, RegisterMaster(s) PROVE TypeOK'
  BY <1>4 DEF RegisterMaster
<1>5. ASSUME NEW s \in Sockets, FindSlave(s) PROVE TypeOK'
  BY <1>5 DEF FindSlave, At
<1>6. ASSUME NEW s \in Sockets, RegisterSlave(s) PROVE TypeOK'
  <2> DEFINE m == registration[s].subscribedMasterId
  <2>1. m \in Masters /\ NodeOf[s] \in Slaves
    BY <1>6 DEF RegisterSlave, RoleKept
  <2>2. Tell(s, m, TRUE)  BY <1>6 DEF RegisterSlave
  <2>3. WindowTyped'  BY <2>1, <2>2, TellTyped DEF WindowTyped
  <2> QED  BY <1>6, <2>1, <2>3 DEF RegisterSlave, WindowTyped
<1>7. ASSUME NEW s \in Sockets, Disconnect(s) PROVE TypeOK'
  <2>1. WindowTyped'
    <3>1. CASE NodeOf[s] \in Masters
      BY <1>7, <3>1 DEF Disconnect, LoseUpdates, WindowTyped
    <3>2. CASE NodeOf[s] \in Slaves /\ connectedClients[s] # None
      <4>1. Tell(s, connectedClients[s], FALSE)  BY <1>7, <3>2 DEF Disconnect
      <4> QED  BY <3>2, <4>1, TellTyped DEF WindowTyped
    <3>3. CASE NodeOf[s] \in Slaves /\ connectedClients[s] = None
      BY <1>7, <3>3 DEF Disconnect, WindowTyped
    <3> QED  BY <3>1, <3>2, <3>3
  <2> QED  BY <1>7, <2>1 DEF Disconnect, Gone, WindowTyped
<1>8. ASSUME NEW u \in Slaves, NEW m \in Masters \cup {None}, UpdateSubscription(u, m)
      PROVE  TypeOK'
  BY <1>8 DEF UpdateSubscription
<1>9. ASSUME NEW d \in updates, OnSubscriberUpdate(d) PROVE TypeOK'
  <2>1. d.master \in Masters /\ NodeOf[d.socket] \in Slaves  BY DEF LastIsTrue
  <2> QED  BY <1>9, <2>1 DEF OnSubscriberUpdate
<1>10. ASSUME NEW m \in Windows, Relaunch(m) PROVE TypeOK'
  <2>1. m \in Masters /\ subscriber_online_status[m] \subseteq Slaves  OBVIOUS
  <2>2. unheard' \subseteq Masters \X Slaves  BY <1>10, <2>1 DEF Relaunch
  <2> QED  BY <1>10, <2>1, <2>2 DEF Relaunch
<1>11. CASE UNCHANGED registryVars
  BY <1>11 DEF registryVars
<1> QED
  BY <1>1, <1>2, <1>3, <1>4, <1>5, <1>6, <1>7, <1>8, <1>9, <1>10, <1>11 DEF RegistryNext

----------------------------------------------------------------------------
(* The invariant *)

\* What each step does to the socket it is a step of, and that it leaves the others
\* alone: the cases of the lemmas that follow.
LEMMA SocketFrame ==
  ASSUME TypeOK, NEW s \in Sockets, NEW r \in Sockets, r # s,
         \/ Connect(s) \/ RegisterNode(s) \/ RegisterFails(s) \/ RegisterMaster(s)
         \/ FindSlave(s) \/ RegisterSlave(s) \/ Disconnect(s)
  PROVE  /\ socket'[r] = socket[r] /\ registration'[r] = registration[r]
         /\ connectedClients'[r] = connectedClients[r]
         /\ r \in raced <=> r \in raced'
<1> USE DEF TypeOK
<1>1. CASE Connect(s)  BY <1>1 DEF Connect
<1>2. CASE RegisterNode(s)  BY <1>2 DEF RegisterNode
<1>3. CASE RegisterFails(s)  BY <1>3 DEF RegisterFails
<1>4. CASE RegisterMaster(s)  BY <1>4 DEF RegisterMaster
<1>5. CASE FindSlave(s)  BY <1>5 DEF FindSlave
<1>6. CASE RegisterSlave(s)  BY <1>6 DEF RegisterSlave
<1>7. CASE Disconnect(s)  BY <1>7 DEF Disconnect, Gone
<1> QED  BY <1>1, <1>2, <1>3, <1>4, <1>5, <1>6, <1>7

\* NoEntryBefore, RoleKept and GhostsAreRaced, of one socket.
SocketOK(s) ==
    /\ socket[s] = "new" => At(s, "idle")
    /\ ~At(s, "done") => connectedClients[s] = None
    /\ Waiting(s) => Connected(s) \/ s \in raced
    /\ s \in raced => socket[s] = "gone"
    /\ At(s, "findSlaveId") =>
           NodeOf[s] \in Slaves /\ registration[s].subscribedMasterId # None
    /\ NodeOf[s] \in Masters => connectedClients[s] \in {None, NodeOf[s]}
    /\ connectedClients[s] # None => Connected(s) \/ s \in raced

LEMMA SocketsOK ==
  (\A s \in Sockets : SocketOK(s)) <=> NoEntryBefore /\ RoleKept /\ GhostsAreRaced
  BY DEF SocketOK, NoEntryBefore, RoleKept, GhostsAreRaced

LEMMA SocketStep ==
  ASSUME TypeOK, RoleKept, NEW s \in Sockets, SocketOK(s),
         \/ Connect(s) \/ RegisterNode(s) \/ RegisterFails(s) \/ RegisterMaster(s)
         \/ FindSlave(s) \/ RegisterSlave(s) \/ Disconnect(s)
  PROVE  SocketOK(s)'
<1> USE NodesAssumption, UsersAssumption DEF TypeOK, Registration, SocketOK, At, Waiting,
        Connected
<1>1. CASE Connect(s)  BY <1>1 DEF Connect
<1>2. CASE RegisterNode(s)  BY <1>2 DEF RegisterNode
<1>3. CASE RegisterFails(s)  BY <1>3 DEF RegisterFails
<1>4. CASE RegisterMaster(s)  BY <1>4 DEF RegisterMaster
<1>5. CASE FindSlave(s)  BY <1>5 DEF FindSlave
<1>6. CASE RegisterSlave(s)  BY <1>6 DEF RegisterSlave
<1>7. CASE Disconnect(s)  BY <1>7 DEF Disconnect, Gone
<1> QED  BY <1>1, <1>2, <1>3, <1>4, <1>5, <1>6, <1>7

LEMMA SocketsStep ==
  ASSUME TypeOK, NoEntryBefore, RoleKept, GhostsAreRaced, [RegistryNext]_registryVars
  PROVE  (NoEntryBefore /\ RoleKept /\ GhostsAreRaced)'
<1>0. \A s \in Sockets : SocketOK(s)  BY SocketsOK
<1>1. ASSUME NEW s \in Sockets,
             \/ Connect(s) \/ RegisterNode(s) \/ RegisterFails(s) \/ RegisterMaster(s)
             \/ FindSlave(s) \/ RegisterSlave(s) \/ Disconnect(s)
      PROVE  \A r \in Sockets : SocketOK(r)'
  <2>1. SocketOK(s)'  BY <1>0, <1>1, SocketStep
  <2>2. ASSUME NEW r \in Sockets, r # s PROVE SocketOK(r)'
    <3>1. SocketOK(r)  BY <1>0
    <3>2. /\ socket'[r] = socket[r] /\ registration'[r] = registration[r]
          /\ connectedClients'[r] = connectedClients[r]
          /\ r \in raced <=> r \in raced'
      BY <1>1, <2>2, SocketFrame
    <3> QED  BY <3>1, <3>2 DEF SocketOK, At, Waiting, Connected
  <2> QED  BY <2>1, <2>2
<1>2. ASSUME NEW u \in Slaves, NEW m \in Masters \cup {None}, UpdateSubscription(u, m)
      PROVE  \A r \in Sockets : SocketOK(r)'
  BY <1>0, <1>2 DEF UpdateSubscription, SocketOK, At, Waiting, Connected
<1>3. ASSUME \/ \E d \in updates : OnSubscriberUpdate(d)
             \/ \E m \in Windows : Relaunch(m)
             \/ UNCHANGED registryVars
      PROVE  \A r \in Sockets : SocketOK(r)'
  <2>1. UNCHANGED <<socket, registration, connectedClients, raced>>
    BY <1>3 DEF OnSubscriberUpdate, Relaunch, registryVars
  <2> QED  BY <1>0, <2>1 DEF SocketOK, At, Waiting, Connected
<1>4. \A s \in Sockets : SocketOK(s)'
  BY <1>1, <1>2, <1>3 DEF RegistryNext
<1> QED  BY <1>4 DEF SocketOK, NoEntryBefore, RoleKept, GhostsAreRaced, At, Waiting, Connected

----------------------------------------------------------------------------
(* The live masters *)

LiveHasEntry ==
    \A m \in connectedMasters : \E s \in Sockets : NodeOf[s] = m /\ connectedClients[s] = m

\* The step that deletes a master's entry takes it off the list, and leaves any other
\* socket that it has as an outlived one.
LEMMA LiveStep ==
  ASSUME RegistryInv, [RegistryNext]_registryVars
  PROVE  (LiveHasEntry /\ LiveIsListed)'
<1> USE NodesAssumption, UsersAssumption
        DEF RegistryInv, TypeOK, Registration, Connected, InRoom, RegisteredIsShown
<1>0. LiveHasEntry /\ LiveIsListed  BY DEF ShownHasEntry, LiveHasEntry
<1>1. ASSUME NEW s \in Sockets, Connect(s) PROVE (LiveHasEntry /\ LiveIsListed)'
  <2>1. connectedClients[s] = None  BY <1>1 DEF Connect, NoEntryBefore, At
  <2>2. /\ \A r \in Sockets : r # s => socket'[r] = socket[r]
        /\ UNCHANGED <<connectedClients, connectedMasters, outlived>>
    BY <1>1 DEF Connect
  <2> QED  BY <1>0, <2>1, <2>2 DEF LiveHasEntry, LiveIsListed
<1>2. ASSUME NEW s \in Sockets, RegisterMaster(s) PROVE (LiveHasEntry /\ LiveIsListed)'
  <2>1. connectedClients[s] = None  BY <1>2 DEF RegisterMaster, NoEntryBefore, At
  <2>2. /\ NodeOf[s] \in Masters /\ connectedClients'[s] = NodeOf[s]
        /\ connectedMasters' = connectedMasters \cup {NodeOf[s]}
        /\ UNCHANGED <<socket, outlived>>
        /\ \A r \in Sockets : r # s => connectedClients'[r] = connectedClients[r]
    BY <1>2 DEF RegisterMaster
  <2>3. LiveHasEntry'  BY <1>0, <2>1, <2>2 DEF LiveHasEntry
  <2>4. LiveIsListed'  BY <1>0, <2>2 DEF LiveIsListed
  <2> QED  BY <2>3, <2>4
<1>3. ASSUME NEW s \in Sockets, RegisterSlave(s) PROVE (LiveHasEntry /\ LiveIsListed)'
  <2>1. connectedClients[s] = None /\ NodeOf[s] \in Slaves
    BY <1>3 DEF RegisterSlave, NoEntryBefore, RoleKept, At
  <2>2. /\ UNCHANGED <<socket, connectedMasters, outlived>>
        /\ \A r \in Sockets : r # s => connectedClients'[r] = connectedClients[r]
    BY <1>3 DEF RegisterSlave
  <2>3. LiveHasEntry'  BY <1>0, <2>1, <2>2 DEF LiveHasEntry
  <2>4. LiveIsListed'  BY <1>0, <2>1, <2>2 DEF LiveIsListed
  <2> QED  BY <2>3, <2>4
<1>4. ASSUME NEW s \in Sockets, Disconnect(s) PROVE (LiveHasEntry /\ LiveIsListed)'
  <2> DEFINE u == NodeOf[s]
             m == connectedClients[s]
  <2>1. /\ connectedMasters' = IF u \in Masters THEN connectedMasters \ {m} ELSE connectedMasters
        /\ socket'[s] = "gone" /\ connectedClients'[s] = None
        /\ \A r \in Sockets : r # s => /\ socket'[r] = socket[r]
                                       /\ connectedClients'[r] = connectedClients[r]
        /\ outlived \subseteq outlived'
        /\ m # None => \A r \in Sockets : r # s /\ NodeOf[r] = u /\ connectedClients[r] = m
                                          => r \in outlived'
    BY <1>4 DEF Disconnect, Gone
  <2>2. u \in Masters => m \in {None, u}  BY DEF RoleKept
  <2>3. LiveHasEntry'
    <3> SUFFICES ASSUME NEW n \in connectedMasters'
                 PROVE  \E r \in Sockets : NodeOf[r] = n /\ connectedClients'[r] = n
      BY DEF LiveHasEntry
    <3>1. n \in connectedMasters /\ (u \in Masters => n # m)  BY <2>1
    <3>2. PICK r \in Sockets : NodeOf[r] = n /\ connectedClients[r] = n
      BY <1>0, <3>1 DEF LiveHasEntry
    <3>3. r # s  BY <3>1, <3>2
    <3> QED  BY <2>1, <3>2, <3>3
  <2>4. LiveIsListed'
    <3> SUFFICES ASSUME NEW r \in Sockets, NEW n \in Masters,
                        socket'[r] = "connected", connectedClients'[r] = n, NodeOf[r] = n
                 PROVE  n \in connectedMasters' \/ r \in outlived'
      BY DEF LiveIsListed
    <3>1. r # s /\ socket[r] = "connected" /\ connectedClients[r] = n  BY <2>1
    <3>2. n \in connectedMasters \/ r \in outlived  BY <1>0, <3>1 DEF LiveIsListed
    <3>3. CASE u \in Masters /\ n = m  BY <2>1, <2>2, <3>1, <3>3
    <3>4. CASE ~(u \in Masters /\ n = m)  BY <2>1, <3>2, <3>4
    <3> QED  BY <3>3, <3>4
  <2> QED  BY <2>3, <2>4
<1>5. ASSUME \/ \E s \in Sockets : RegisterNode(s) \/ RegisterFails(s) \/ FindSlave(s)
             \/ \E u \in Slaves, m \in Masters \cup {None} : UpdateSubscription(u, m)
             \/ \E d \in updates : OnSubscriberUpdate(d)
             \/ \E m \in Windows : Relaunch(m)
             \/ UNCHANGED registryVars
      PROVE  (LiveHasEntry /\ LiveIsListed)'
  <2>1. UNCHANGED <<socket, connectedClients, connectedMasters, outlived>>
    BY <1>5 DEF RegisterNode, RegisterFails, FindSlave, UpdateSubscription,
                OnSubscriberUpdate, Relaunch, registryVars
  <2> QED  BY <1>0, <2>1 DEF LiveHasEntry, LiveIsListed
<1> QED  BY <1>1, <1>2, <1>3, <1>4, <1>5 DEF RegistryNext

----------------------------------------------------------------------------
(* The windows of the masters *)

\* ShownHasEntry and OnlineIsShown of the windows, with the events on their way.
ShownIsTrue == \A m \in Masters : \A u \in subscriber_online_status[m] :
    <<m, u>> \in unheard \/ EntriesOf(m, u) # {}
EntryIsShown == \A m \in Windows, u \in Slaves : \A s \in EntriesOf(m, u) :
    Connected(s) => u \in subscriber_online_status[m] \/ <<m, u>> \in unheard \/ s \in outlived
WindowInv == LastIsTrue /\ OnlyWindows /\ ShownIsTrue /\ EntryIsShown

LEMMA WindowInvSame ==
  ASSUME TypeOK
  PROVE  LastIsTrue /\ OnlyWindows /\ ShownHasEntry /\ RegisteredIsShown
         <=> WindowInv /\ LiveHasEntry /\ LiveIsListed
<1>1. ShownHasEntry <=> LiveHasEntry /\ ShownIsTrue
  BY DEF ShownHasEntry, LiveHasEntry, ShownIsTrue, EntriesOf
<1>2. OnlineIsShown <=> EntryIsShown
  BY DEF OnlineIsShown, EntryIsShown, EntriesOf, InRoom
<1> QED  BY <1>1, <1>2 DEF WindowInv, RegisteredIsShown

\* A step that sends no event and leaves the entries of slaves in the rooms of the
\* followed windows as they are.
LEMMA WindowKept ==
  ASSUME TypeOK, WindowInv, WindowsAssumption,
         updates' \subseteq updates, UNCHANGED <<subscriber_online_status, unheard>>,
         outlived \subseteq outlived',
         \A m \in Windows, u \in Slaves : EntriesOf(m, u)' = EntriesOf(m, u),
         \A m \in Windows, u \in Slaves : \A s \in EntriesOf(m, u) : Connected(s)' => Connected(s)
  PROVE  WindowInv'
<1> USE DEF WindowInv
<1>1. LastIsTrue'  BY DEF LastIsTrue
<1>2. OnlyWindows'  BY DEF OnlyWindows
<1>3. ShownIsTrue'
  <2> SUFFICES ASSUME NEW m \in Masters, NEW u \in subscriber_online_status[m]
               PROVE  <<m, u>> \in unheard \/ EntriesOf(m, u)' # {}
    BY DEF ShownIsTrue
  <2>1. m \in Windows /\ u \in Slaves  BY DEF OnlyWindows, TypeOK
  <2> QED  BY <2>1 DEF ShownIsTrue
<1>4. EntryIsShown'  BY DEF EntryIsShown
<1> QED  BY <1>1, <1>2, <1>3, <1>4

\* A step that tells a followed window of one slave: the event says what is true of the
\* slave's entries after the step, and nothing else changes.
LEMMA WindowTold ==
  ASSUME TypeOK, WindowInv, WindowsAssumption, NEW s \in Sockets, NEW m \in Windows,
         NEW online \in BOOLEAN, NodeOf[s] \in Slaves, Tell(s, m, online),
         online => EntriesOf(m, NodeOf[s])' # {},
         ~online => \A r \in EntriesOf(m, NodeOf[s])' : Connected(r)' => r \in outlived',
         outlived \subseteq outlived',
         \A n \in Windows, u \in Slaves : n # m \/ u # NodeOf[s] =>
             EntriesOf(n, u)' = EntriesOf(n, u),
         \A n \in Windows, u \in Slaves : \A r \in EntriesOf(n, u) :
             Connected(r)' => Connected(r)
  PROVE  WindowInv'
<1> USE DEF WindowInv
<1>0. WindowTyped /\ m \in Masters  BY WindowsAssumption DEF TypeOK, WindowTyped
<1>1. /\ \A d \in updates' :
            \/ d = [socket |-> s, master |-> m, online |-> online, last |-> TRUE]
            \/ \E e \in updates :
                 /\ d \in [socket : Sockets, master : Masters, online : BOOLEAN, last : BOOLEAN]
                 /\ d.socket = e.socket /\ d.master = e.master /\ d.online = e.online
                 /\ d.last => e.last /\ ~(e.master = m /\ NodeOf[e.socket] = NodeOf[s])
      /\ unheard' = unheard \cup {<<m, NodeOf[s]>>}
      /\ UNCHANGED subscriber_online_status
  BY <1>0, TellEffect
<1>2. LastIsTrue'
  <2> SUFFICES ASSUME NEW d \in updates'
               PROVE  /\ NodeOf[d.socket] \in Slaves /\ d.master \in Windows
                      /\ d.last /\ d.online => EntriesOf(d.master, NodeOf[d.socket])' # {}
                      /\ d.last /\ ~d.online =>
                            \A r \in EntriesOf(d.master, NodeOf[d.socket])' :
                               Connected(r)' => r \in outlived'
    BY DEF LastIsTrue
  <2>1. CASE d = [socket |-> s, master |-> m, online |-> online, last |-> TRUE]
    BY <2>1
  <2>2. ASSUME NEW e \in updates,
               d.socket = e.socket, d.master = e.master, d.online = e.online,
               d.last => e.last /\ ~(e.master = m /\ NodeOf[e.socket] = NodeOf[s])
        PROVE  /\ NodeOf[d.socket] \in Slaves /\ d.master \in Windows
               /\ d.last /\ d.online => EntriesOf(d.master, NodeOf[d.socket])' # {}
               /\ d.last /\ ~d.online =>
                     \A r \in EntriesOf(d.master, NodeOf[d.socket])' :
                        Connected(r)' => r \in outlived'
    <3>1. /\ NodeOf[e.socket] \in Slaves /\ e.master \in Windows
          /\ e.last /\ e.online => EntriesOf(e.master, NodeOf[e.socket]) # {}
          /\ e.last /\ ~e.online => \A r \in EntriesOf(e.master, NodeOf[e.socket]) :
                                        Connected(r) => r \in outlived
      BY DEF LastIsTrue
    <3>2. d.last => EntriesOf(e.master, NodeOf[e.socket])' = EntriesOf(e.master, NodeOf[e.socket])
      BY <2>2, <3>1
    <3> QED  BY <2>2, <3>1, <3>2
  <2> QED  BY <1>1, <2>1, <2>2
<1>3. OnlyWindows'  BY <1>1 DEF OnlyWindows
<1>4. ShownIsTrue'
  <2> SUFFICES ASSUME NEW n \in Masters, NEW u \in subscriber_online_status[n]
               PROVE  <<n, u>> \in unheard' \/ EntriesOf(n, u)' # {}
    BY <1>1 DEF ShownIsTrue
  <2>1. n \in Windows /\ u \in Slaves  BY DEF OnlyWindows, TypeOK
  <2> QED  BY <1>1, <2>1 DEF ShownIsTrue
<1>5. EntryIsShown'
  <2> SUFFICES ASSUME NEW n \in Windows, NEW u \in Slaves, NEW r \in EntriesOf(n, u)',
                      Connected(r)'
               PROVE  \/ u \in subscriber_online_status[n] \/ <<n, u>> \in unheard'
                      \/ r \in outlived'
    BY <1>1 DEF EntryIsShown
  <2> QED  BY <1>1 DEF EntryIsShown
<1> QED  BY <1>2, <1>3, <1>4, <1>5

\* Every step keeps what the windows show in agreement with the entries.
LEMMA WindowStep ==
  ASSUME RegistryInv, WindowInv, [RegistryNext]_registryVars
  PROVE  WindowInv'
<1> USE NodesAssumption, UsersAssumption, WindowsAssumption
        DEF RegistryInv, TypeOK, Registration, windowVars
<1>0. TypeOK  OBVIOUS
<1>1. ASSUME NEW s \in Sockets, Connect(s) PROVE WindowInv'
  <2>1. connectedClients[s] = None  BY <1>1 DEF Connect, NoEntryBefore, At
  <2>2. /\ UNCHANGED <<connectedClients, windowVars, outlived>>
        /\ \A r \in Sockets : r # s => socket'[r] = socket[r]
    BY <1>1 DEF Connect
  <2>3. \A m \in Windows, u \in Slaves : EntriesOf(m, u)' = EntriesOf(m, u)
    BY <2>2 DEF EntriesOf
  <2>4. \A m \in Windows, u \in Slaves : \A r \in EntriesOf(m, u) : Connected(r)' => Connected(r)
    BY <2>1, <2>2 DEF EntriesOf, Connected
  <2> QED  BY <1>0, <2>2, <2>3, <2>4, WindowKept
<1>2. ASSUME NEW s \in Sockets, RegisterMaster(s) PROVE WindowInv'
  <2>1. connectedClients[s] = None  BY <1>2 DEF RegisterMaster, NoEntryBefore, At
  <2>2. /\ UNCHANGED <<socket, windowVars, outlived>> /\ NodeOf[s] \in Masters
        /\ \A r \in Sockets : r # s => connectedClients'[r] = connectedClients[r]
    BY <1>2 DEF RegisterMaster
  <2>3. \A m \in Windows, u \in Slaves : EntriesOf(m, u)' = EntriesOf(m, u)
    BY <2>2 DEF EntriesOf
  <2> QED  BY <1>0, <2>2, <2>3, WindowKept DEF Connected
<1>3. ASSUME NEW s \in Sockets, RegisterSlave(s) PROVE WindowInv'
  <2>0. PICK m \in Masters : m = registration[s].subscribedMasterId
    BY <1>3 DEF RegisterSlave, RoleKept
  <2>1. connectedClients[s] = None /\ NodeOf[s] \in Slaves
    BY <1>3 DEF RegisterSlave, NoEntryBefore, RoleKept, At
  <2>2. /\ UNCHANGED <<socket, outlived>> /\ Tell(s, m, TRUE) /\ connectedClients'[s] = m
        /\ \A r \in Sockets : r # s => connectedClients'[r] = connectedClients[r]
    BY <1>3, <2>0 DEF RegisterSlave
  <2>3. \A n \in Windows, u \in Slaves : n # m \/ u # NodeOf[s] =>
            EntriesOf(n, u)' = EntriesOf(n, u)
    BY <2>1, <2>2 DEF EntriesOf
  <2>4. \A n \in Windows, u \in Slaves : \A r \in EntriesOf(n, u) : Connected(r)' => Connected(r)
    BY <2>2 DEF Connected
  <2>5. CASE m \in Windows
    <3>1. EntriesOf(m, NodeOf[s])' # {}
      <4>1. s \in EntriesOf(m, NodeOf[s])'  BY <2>2 DEF EntriesOf
      <4> QED  BY <4>1
    <3> HIDE DEF RegistryInv, TypeOK, Registration, windowVars
    <3> QED  BY <1>0, <2>1, <2>2, <2>3, <2>4, <2>5, <3>1, WindowTold
  <2>6. CASE m \notin Windows
    <3>1. UNCHANGED windowVars  BY <2>2, <2>6 DEF Tell
    <3> QED  BY <1>0, <2>2, <2>3, <2>4, <2>6, <3>1, WindowKept
  <2> QED  BY <2>5, <2>6
<1>4. ASSUME NEW s \in Sockets, Disconnect(s) PROVE WindowInv'
  <2> DEFINE u == NodeOf[s]
  <2>0. PICK m \in Masters \cup {None} : m = connectedClients[s]  OBVIOUS
  <2>1. /\ Connected(s) /\ socket'[s] = "gone" /\ connectedClients'[s] = None
        /\ \A r \in Sockets : r # s => /\ socket'[r] = socket[r]
                                       /\ connectedClients'[r] = connectedClients[r]
        /\ outlived \subseteq outlived'
        /\ m # None => \A r \in Sockets : r # s /\ NodeOf[r] = u /\ connectedClients[r] = m
                                          => r \in outlived'
    BY <1>4, <2>0 DEF Disconnect, Gone
  <2>2. \A n \in Windows, v \in Slaves : n # m \/ v # u => EntriesOf(n, v)' = EntriesOf(n, v)
    BY <2>0, <2>1 DEF EntriesOf
  <2>3. \A n \in Windows, v \in Slaves : \A r \in EntriesOf(n, v) : Connected(r)' => Connected(r)
    BY <2>1 DEF EntriesOf, Connected
  <2>4. CASE u \in Slaves /\ m \in Windows
    <3>1. m # None /\ Tell(s, m, FALSE)  BY <1>4, <2>0, <2>4 DEF Disconnect
    <3>2. \A r \in EntriesOf(m, u)' : Connected(r)' => r \in outlived'
      BY <2>0, <2>1, <2>4, <3>1 DEF EntriesOf
    <3> QED  BY <1>0, <2>1, <2>2, <2>3, <2>4, <3>1, <3>2, WindowTold
  <2>5. CASE ~(u \in Slaves /\ m \in Windows)
    <3>1. updates' \subseteq updates /\ UNCHANGED <<subscriber_online_status, unheard>>
      <4>1. CASE u \in Masters  BY <1>4, <4>1 DEF Disconnect, LoseUpdates
      <4>2. CASE u \in Slaves /\ m = None  BY <1>4, <2>0, <4>2 DEF Disconnect
      <4>3. CASE u \in Slaves /\ m # None
        <5>1. Tell(s, m, FALSE)  BY <1>4, <2>0, <4>3 DEF Disconnect
        <5> QED  BY <2>5, <4>3, <5>1 DEF Tell
      <4> QED  BY <4>1, <4>2, <4>3
    <3>2. \A n \in Windows, v \in Slaves : EntriesOf(n, v)' = EntriesOf(n, v)
      BY <2>2, <2>5
    <3> QED  BY <1>0, <2>1, <2>3, <3>1, <3>2, WindowKept
  <2> QED  BY <2>4, <2>5
<1>5. ASSUME \/ \E s \in Sockets : RegisterNode(s) \/ RegisterFails(s) \/ FindSlave(s)
             \/ \E u \in Slaves, m \in Masters \cup {None} : UpdateSubscription(u, m)
             \/ UNCHANGED registryVars
      PROVE  WindowInv'
  <2>1. UNCHANGED <<socket, connectedClients, windowVars, outlived>>
    BY <1>5 DEF RegisterNode, RegisterFails, FindSlave, UpdateSubscription, registryVars
  <2>2. \A m \in Windows, u \in Slaves : EntriesOf(m, u)' = EntriesOf(m, u)
    BY <2>1 DEF EntriesOf
  <2> QED  BY <1>0, <2>1, <2>2, WindowKept DEF Connected
<1>6. ASSUME NEW d \in updates, OnSubscriberUpdate(d) PROVE WindowInv'
  <2> DEFINE m == d.master
             u == NodeOf[d.socket]
  <2>1. /\ m \in Windows /\ m \in Masters /\ u \in Slaves
        /\ d.last /\ d.online => EntriesOf(m, u) # {}
        /\ d.last /\ ~d.online => \A r \in EntriesOf(m, u) : Connected(r) => r \in outlived
    BY DEF WindowInv, LastIsTrue
  <2>2. /\ updates' \subseteq updates
        /\ subscriber_online_status' = [subscriber_online_status EXCEPT ![m] =
               IF d.online THEN @ \cup {u} ELSE @ \ {u}]
        /\ unheard' = IF d.last THEN unheard \ {<<m, u>>} ELSE unheard \cup {<<m, u>>}
        /\ UNCHANGED <<socket, connectedClients, outlived>>
    BY <1>6 DEF OnSubscriberUpdate
  <2> HIDE DEF m, u
  <2>3. /\ \A n, v : EntriesOf(n, v)' = EntriesOf(n, v)
        /\ \A r : Connected(r)' <=> Connected(r)
    BY <2>2 DEF EntriesOf, Connected
  <2>4. \A n \in Masters : \A v : n # m \/ v # u =>
            /\ v \in subscriber_online_status'[n] <=> v \in subscriber_online_status[n]
            /\ <<n, v>> \in unheard' <=> <<n, v>> \in unheard
    BY <2>1, <2>2
  <2>5. u \in subscriber_online_status'[m] <=> d.online
    BY <2>1, <2>2
  <2>6. LastIsTrue'  BY <2>2, <2>3 DEF WindowInv, LastIsTrue
  <2>7. OnlyWindows'  BY <2>1, <2>2 DEF WindowInv, OnlyWindows
  <2>8. ShownIsTrue'
    BY <2>1, <2>2, <2>3, <2>4, <2>5 DEF WindowInv, ShownIsTrue
  <2>9. EntryIsShown'
    <3> SUFFICES ASSUME NEW n \in Windows, NEW v \in Slaves, NEW r \in EntriesOf(n, v),
                        Connected(r)
                 PROVE  \/ v \in subscriber_online_status'[n] \/ <<n, v>> \in unheard'
                        \/ r \in outlived
      BY <2>2, <2>3 DEF EntryIsShown
    <3>1. CASE n = m /\ v = u  BY <2>1, <2>2, <2>5, <3>1
    <3>2. CASE ~(n = m /\ v = u)  BY <2>4, <3>2 DEF WindowInv, EntryIsShown
    <3> QED  BY <3>1, <3>2
  <2> QED  BY <2>6, <2>7, <2>8, <2>9 DEF WindowInv
<1>7. ASSUME NEW m \in Windows, Relaunch(m) PROVE WindowInv'
  <2>1. /\ updates' \subseteq updates
        /\ unheard' = unheard \cup ({m} \X subscriber_online_status[m])
        /\ subscriber_online_status' = [subscriber_online_status EXCEPT ![m] = {}]
        /\ UNCHANGED <<socket, connectedClients, outlived>>
    BY <1>7 DEF Relaunch
  <2>2. /\ \A n, v : EntriesOf(n, v)' = EntriesOf(n, v)
        /\ \A r : Connected(r)' <=> Connected(r)
    BY <2>1 DEF EntriesOf, Connected
  <2>3. LastIsTrue'  BY <2>1, <2>2 DEF WindowInv, LastIsTrue
  <2>4. OnlyWindows'  BY <2>1 DEF WindowInv, OnlyWindows
  <2>5. ShownIsTrue'  BY <2>1, <2>2 DEF WindowInv, ShownIsTrue
  <2>6. EntryIsShown'
    <3> SUFFICES ASSUME NEW n \in Windows, NEW v \in Slaves, NEW r \in EntriesOf(n, v),
                        Connected(r)
                 PROVE  \/ v \in subscriber_online_status'[n] \/ <<n, v>> \in unheard'
                        \/ r \in outlived
      BY <2>1, <2>2 DEF EntryIsShown
    <3>1. v \in subscriber_online_status[n] \/ <<n, v>> \in unheard \/ r \in outlived
      BY DEF WindowInv, EntryIsShown
    <3> QED  BY <2>1, <3>1
  <2> QED  BY <2>3, <2>4, <2>5, <2>6 DEF WindowInv
<1> QED  BY <1>1, <1>2, <1>3, <1>4, <1>5, <1>6, <1>7 DEF RegistryNext

LEMMA RegistryInvInit == RegistryInit => RegistryInv
<1> SUFFICES ASSUME RegistryInit PROVE RegistryInv  OBVIOUS
<1>1. TypeOK  BY InitTyped
<1>2. \A s \in Sockets : /\ socket[s] = "new" /\ connectedClients[s] = None
                         /\ registration[s] = [pc |-> "idle", subscribedMasterId |-> None]
  BY DEF RegistryInit
<1>3. NoEntryBefore /\ RoleKept /\ GhostsAreRaced
  BY <1>2, UsersAssumption DEF RegistryInit, NoEntryBefore, RoleKept, GhostsAreRaced, At, Waiting
<1>4. LastIsTrue /\ OnlyWindows
  <2>1. updates = {} /\ \A m \in Masters : subscriber_online_status[m] = {}
    BY DEF RegistryInit
  <2> QED  BY <2>1 DEF LastIsTrue, OnlyWindows
<1>5. ShownHasEntry  BY DEF RegistryInit, ShownHasEntry
<1>6. RegisteredIsShown
  BY <1>2, UsersAssumption, WindowsAssumption
  DEF RegisteredIsShown, LiveIsListed, OnlineIsShown, InRoom, Connected
<1> QED  BY <1>1, <1>3, <1>4, <1>5, <1>6 DEF RegistryInv

LEMMA RegistryInvStep == RegistryInv /\ [RegistryNext]_registryVars => RegistryInv'
<1> SUFFICES ASSUME RegistryInv, [RegistryNext]_registryVars PROVE RegistryInv'  OBVIOUS
<1>1. TypeOK'  BY TypeStep DEF RegistryInv
<1>2. (NoEntryBefore /\ RoleKept /\ GhostsAreRaced)'  BY SocketsStep DEF RegistryInv
<1>3. WindowInv  BY WindowInvSame DEF RegistryInv
<1>4. (WindowInv /\ LiveHasEntry /\ LiveIsListed)'  BY <1>3, WindowStep, LiveStep
<1>5. (LastIsTrue /\ OnlyWindows /\ ShownHasEntry /\ RegisteredIsShown)'
  BY <1>1, <1>4, WindowInvSame, PTL
<1> QED  BY <1>1, <1>2, <1>5 DEF RegistryInv

LEMMA RegistryInvariant == RegistrySpec => []RegistryInv
  BY RegistryInvInit, RegistryInvStep, PTL DEF RegistrySpec

\* The gateway's registry stays well typed, whatever order handlers end in.
THEOREM RegistryTypeCorrect == RegistrySpec => []TypeOK
  BY RegistryInvariant, PTL DEF RegistryInv

\* Only a socket lost while its registration waited leaves an entry behind: with any
\* number of sockets per user and with failing queries.
THEOREM RegistryGhosts == RegistrySpec => []GhostsAreRaced
  BY RegistryInvariant, PTL DEF RegistryInv

\* Nothing is listed as live without an entry, and no copier shown online to a master
\* who heard the last event about it as the last: also when users have several sockets,
\* change masters or are gone before their registration ends, and when a master's node
\* is away, begun anew, or handles events in another order.
THEOREM RegistryShown == RegistrySpec => []ShownHasEntry
  BY RegistryInvariant, PTL DEF RegistryInv

\* Whoever has a registered socket is listed, and shown to a master who heard the last
\* event about it, in the same environments; but for the user who lost the other of two
\* sockets in that room.
THEOREM RegistryListed == RegistrySpec => []RegisteredIsShown
  BY RegistryInvariant, PTL DEF RegistryInv

----------------------------------------------------------------------------
(* The relay's steps leave the registry alone *)

\* A step of the relay is a step of the registry or leaves it alone.
LEMMA RelayStepsRegistry == [Next]_vars => [RegistryNext]_registryVars
  BY DEF Next, vars, relayVars, TestSignal, ExecutionAck, SignalStep, TagOpen, LogClose,
         InsertRow, FindOpenRow, CompareClose, UpdateClose, SaveFails, Broadcast,
         HandleAck, AckFindRow, AckCompare, AckUpdate, AckFails

----------------------------------------------------------------------------
(* Types *)

RelayTyped == /\ tradeLog \in [Tickets -> Row \cup {NoRow}]
              /\ signal \in [Tickets \X Events -> Handler]
              /\ ack \in [Slaves \X Tickets -> Handler]

\* The slave of a tag: the only entry is one of a slave.
LEMMA TagTyped ==
  ASSUME NEW m
  PROVE  (IF Cardinality(SlaveEntries(m)) = 1
          THEN NodeOf[CHOOSE s \in SlaveEntries(m) : TRUE] ELSE None) \in Slaves \cup {None}
<1>1. CASE Cardinality(SlaveEntries(m)) = 1
  <2>1. SlaveEntries(m) # {}  BY <1>1, FS_EmptySet
  <2>2. (CHOOSE s \in SlaveEntries(m) : TRUE) \in SlaveEntries(m)  BY <2>1
  <2>3. NodeOf[CHOOSE s \in SlaveEntries(m) : TRUE] \in Slaves  BY <2>2 DEF SlaveEntries
  <2> QED  BY <1>1, <2>3
<1> QED  BY <1>1

----------------------------------------------------------------------------
(* What a save does to a row *)

Consistent(row) == row.pnl <=> row.status = "CLOSED"

\* A consistent row differs from a consistent entity in both of status and pnl or in
\* neither: no save between the two reads of a handler can separate them.
LEMMA DifferTogether ==
  ASSUME NEW t \in Tickets, NEW e \in Row, tradeLog[t] \in Row,
         Consistent(e), Consistent(tradeLog[t])
  PROVE  "status" \in Differing(e, t) <=> "pnl" \in Differing(e, t)
<1>1. e.pnl \in BOOLEAN /\ tradeLog[t].pnl \in BOOLEAN
      /\ e.status \in {"OPEN", "CLOSED"} /\ tradeLog[t].status \in {"OPEN", "CLOSED"}
  BY DEF Row
<1>2. e.pnl = tradeLog[t].pnl <=> e.status = tradeLog[t].status
  BY <1>1, Zenon DEF Consistent
<1> QED  BY <1>2 DEF Differing, Columns

\* An update that writes both of status and pnl, or neither, keeps the row consistent.
LEMMA UpdateConsistent ==
  ASSUME NEW t \in Tickets, NEW h \in Handler, tradeLog[t] \in Row, h.entity \in Row,
         Consistent(tradeLog[t]), Consistent(h.entity),
         "status" \in h.changed <=> "pnl" \in h.changed
  PROVE  Updated(h, t) \in Row /\ Consistent(Updated(h, t))
<1>1. Updated(h, t) \in Row
  BY DEF Updated, Row, Handler
<1>2. \/ /\ Updated(h, t).status = h.entity.status
         /\ Updated(h, t).pnl = h.entity.pnl
      \/ /\ Updated(h, t).status = tradeLog[t].status
         /\ Updated(h, t).pnl = tradeLog[t].pnl
  BY DEF Updated, Row
<1>3. Consistent(Updated(h, t))
  BY <1>2, Zenon DEF Consistent
<1> QED  BY <1>1, <1>3

----------------------------------------------------------------------------
(* The invariant *)

\* A handler between its reads and its write holds a consistent row of a ticket that
\* has one, and will write both of status and pnl or neither.
LoadedOK(h, row) ==
    /\ h.pc \in {"compare", "update"} =>
           h.entity \in Row /\ Consistent(h.entity) /\ row # NoRow
    /\ h.pc = "update" => ("status" \in h.changed <=> "pnl" \in h.changed)

\* An OPEN that is past its insert has its row, or its insert failed.
InsertedOK(t) == signal[Open(t)].pc \in {"send", "done"} =>
                     tradeLog[t] # NoRow \/ Open(t) \in failed

RelayInv == /\ RelayTyped
            /\ RowConsistent
            /\ \A g \in Tickets \X Events : LoadedOK(signal[g], tradeLog[g[1]])
            /\ \A a \in Slaves \X Tickets : LoadedOK(ack[a], tradeLog[a[2]])
            /\ \A t \in Tickets : InsertedOK(t)
            /\ PersistBeforeSend

LEMMA RelayInvInit == Init => RelayInv
<1> SUFFICES ASSUME Init PROVE RelayInv  OBVIOUS
<1>1. Idle \in Handler /\ Idle.pc = "none"
  BY DEF Idle, Handler, NoRow
<1>2. /\ tradeLog = [t \in Tickets |-> NoRow] /\ received = {}
      /\ signal = [g \in Tickets \X Events |-> Idle]
      /\ ack = [a \in Slaves \X Tickets |-> Idle]
  BY DEF Init
<1>3. RelayTyped  BY <1>1, <1>2 DEF RelayTyped
<1>4. RowConsistent /\ PersistBeforeSend  BY <1>2 DEF RowConsistent, PersistBeforeSend
<1>5. \A g \in Tickets \X Events : LoadedOK(signal[g], tradeLog[g[1]])
  BY <1>1, <1>2 DEF LoadedOK
<1>6. \A a \in Slaves \X Tickets : LoadedOK(ack[a], tradeLog[a[2]])
  BY <1>1, <1>2 DEF LoadedOK
<1>7. \A t \in Tickets : InsertedOK(t)
  <2>1. \A t \in Tickets : Open(t) \in Tickets \X Events  BY DEF Open, Events
  <2> QED  BY <1>1, <1>2, <2>1 DEF InsertedOK
<1> QED  BY <1>3, <1>4, <1>5, <1>6, <1>7 DEF RelayInv

\* What a step may do to a row: nothing, or make it a consistent one.
RowKept(t) == \/ tradeLog'[t] = tradeLog[t]
              \/ /\ tradeLog'[t] \in Row
                 /\ Consistent(tradeLog'[t])

\* A consistent row replaces that of one ticket.
LEMMA RowSaved ==
  ASSUME tradeLog \in [Tickets -> Row \cup {NoRow}], NEW t \in Tickets, NEW row \in Row,
         Consistent(row), tradeLog' = [tradeLog EXCEPT ![t] = row]
  PROVE  tradeLog' \in [Tickets -> Row \cup {NoRow}] /\ \A u \in Tickets : RowKept(u)
<1>1. tradeLog' \in [Tickets -> Row \cup {NoRow}]  OBVIOUS
<1>2. tradeLog'[t] = row /\ \A u \in Tickets : u # t => tradeLog'[u] = tradeLog[u]
  OBVIOUS
<1>3. RowKept(t)  BY <1>2, Zenon DEF RowKept
<1>4. ASSUME NEW u \in Tickets, u # t PROVE RowKept(u)  BY <1>2, <1>4, Zenon DEF RowKept
<1> QED  BY <1>1, <1>3, <1>4

\* The update of a handler that passed its reads.
LEMMA UpdateKeeps ==
  ASSUME RelayTyped, RowConsistent, NEW t \in Tickets, NEW h \in Handler,
         LoadedOK(h, tradeLog[t]), h.pc = "update", tradeLog' = [tradeLog EXCEPT ![t] = Updated(h, t)]
  PROVE  tradeLog' \in [Tickets -> Row \cup {NoRow}] /\ \A u \in Tickets : RowKept(u)
<1>1. tradeLog[t] \in Row /\ h.entity \in Row /\ Consistent(h.entity)
  BY DEF LoadedOK, RelayTyped
<1>2. Consistent(tradeLog[t])
  <2>1. tradeLog[t] # NoRow  BY DEF LoadedOK
  <2> QED  BY <2>1, Zenon DEF RowConsistent, Consistent
<1>3. Updated(h, t) \in Row /\ Consistent(Updated(h, t))
  BY <1>1, <1>2, UpdateConsistent DEF LoadedOK
<1> QED  BY <1>3, RowSaved DEF RelayTyped

LEMMA RowsKept ==
  ASSUME RelayInv, [Next]_vars
  PROVE  tradeLog' \in [Tickets -> Row \cup {NoRow}] /\ \A t \in Tickets : RowKept(t)
<1>1. ASSUME NEW t \in Tickets, InsertRow(t)
      PROVE  tradeLog' \in [Tickets -> Row \cup {NoRow}] /\ \A u \in Tickets : RowKept(u)
  <2> DEFINE row == [status |-> "OPEN", pnl |-> FALSE, slaveId |-> signal[Open(t)].slaveId,
                     copier |-> None]
  <2>1. Open(t) \in Tickets \X Events  BY DEF Open, Events
  <2>2. signal[Open(t)].slaveId \in Slaves \cup {None}
    BY <2>1 DEF RelayInv, RelayTyped, Handler
  <2>3. row \in Row  BY <2>2 DEF Row
  <2>4. ~row.pnl /\ row.status # "CLOSED"  OBVIOUS
  <2>5. Consistent(row)  BY <2>4, Zenon DEF Consistent
  <2>6. tradeLog' = [tradeLog EXCEPT ![t] = row]  BY <1>1 DEF InsertRow
  <2> HIDE DEF row
  <2> QED  BY <2>3, <2>5, <2>6, RowSaved DEF RelayInv, RelayTyped
<1>2. ASSUME NEW t \in Tickets, UpdateClose(t)
      PROVE  tradeLog' \in [Tickets -> Row \cup {NoRow}] /\ \A u \in Tickets : RowKept(u)
  <2>1. Close(t) \in Tickets \X Events /\ Close(t)[1] = t  BY DEF Close, Events
  <2>2. signal[Close(t)] \in Handler /\ LoadedOK(signal[Close(t)], tradeLog[t])
    BY <2>1 DEF RelayInv, RelayTyped
  <2> QED  BY <1>2, <2>2, UpdateKeeps DEF UpdateClose, Step, RelayInv
<1>3. ASSUME NEW a \in Slaves \X Tickets, AckUpdate(a)
      PROVE  tradeLog' \in [Tickets -> Row \cup {NoRow}] /\ \A u \in Tickets : RowKept(u)
  <2>1. ack[a] \in Handler /\ LoadedOK(ack[a], tradeLog[a[2]]) /\ a[2] \in Tickets
    BY DEF RelayInv, RelayTyped
  <2> QED  BY <1>3, <2>1, UpdateKeeps DEF AckUpdate, AckStep, RelayInv
<1>4. ASSUME UNCHANGED tradeLog
      PROVE  tradeLog' \in [Tickets -> Row \cup {NoRow}] /\ \A u \in Tickets : RowKept(u)
  <2>1. tradeLog' \in [Tickets -> Row \cup {NoRow}]  BY <1>4 DEF RelayInv, RelayTyped
  <2>2. \A u \in Tickets : RowKept(u)  BY <1>4, Zenon DEF RowKept
  <2> QED  BY <2>1, <2>2
<1>5. \/ \E t \in Tickets : InsertRow(t) \/ UpdateClose(t)
      \/ \E a \in Slaves \X Tickets : AckUpdate(a)
      \/ UNCHANGED tradeLog
  BY DEF Next, vars, relayVars, TestSignal, ExecutionAck, SignalStep, TagOpen, LogClose,
         FindOpenRow, CompareClose, SaveFails, Broadcast, HandleAck, AckFindRow, AckCompare,
         AckFails
<1> QED  BY <1>1, <1>2, <1>3, <1>4, <1>5

----------------------------------------------------------------------------
(* What a step does to a handler: nothing, or give it a state that is typed, loaded *)
(* and, of an OPEN, inserted                                                        *)

\* A handler that is at neither of the two steps between read and write.
LEMMA NothingLoaded ==
  ASSUME NEW h, NEW row, h.pc \notin {"compare", "update"}
  PROVE  LoadedOK(h, row)
  BY DEF LoadedOK

\* What was loaded stays good when rows only change as RowKept allows.
LEMMA LoadedKept ==
  ASSUME NEW h, NEW t, LoadedOK(h, tradeLog[t]), RowKept(t)
  PROVE  LoadedOK(h, tradeLog'[t])
<1>1. tradeLog[t] # NoRow => tradeLog'[t] # NoRow
  <2>1. \A row \in Row : row # NoRow  BY DEF Row, NoRow
  <2> QED  BY <2>1 DEF RowKept
<1> QED  BY <1>1, Zenon DEF LoadedOK

\* A row loaded while it is open, with columns changed that keep it consistent, and
\* the columns found to differ.
LEMMA LoadedRow ==
  ASSUME RelayTyped, RowConsistent, NEW t \in Tickets, tradeLog[t].status = "OPEN"
  PROVE  /\ tradeLog[t] \in Row /\ tradeLog[t] # NoRow
         /\ [tradeLog[t] EXCEPT !.status = "CLOSED", !.pnl = TRUE] \in Row
         /\ Consistent([tradeLog[t] EXCEPT !.status = "CLOSED", !.pnl = TRUE])
         /\ \A u \in Slaves : /\ [tradeLog[t] EXCEPT !.copier = u] \in Row
                              /\ Consistent([tradeLog[t] EXCEPT !.copier = u])
<1>1. tradeLog[t] # NoRow  BY DEF NoRow
<1>2. tradeLog[t] \in Row  BY <1>1 DEF RelayTyped
<1>3. Consistent(tradeLog[t])  BY <1>1, Zenon DEF RowConsistent, Consistent
<1> DEFINE closed == [tradeLog[t] EXCEPT !.status = "CLOSED", !.pnl = TRUE]
           acked(u) == [tradeLog[t] EXCEPT !.copier = u]
<1>4. closed \in Row /\ closed.status = "CLOSED" /\ closed.pnl = TRUE
  BY <1>2 DEF Row
<1>5. Consistent(closed)
  <2> HIDE DEF closed
  <2> QED  BY <1>4, Zenon DEF Consistent
<1>6. ASSUME NEW u \in Slaves PROVE acked(u) \in Row /\ Consistent(acked(u))
  <2>1. acked(u) \in Row /\ acked(u).status = tradeLog[t].status
        /\ acked(u).pnl = tradeLog[t].pnl
    BY <1>2 DEF Row
  <2> HIDE DEF acked
  <2> QED  BY <1>3, <2>1, Zenon DEF Consistent
<1> QED  BY <1>1, <1>2, <1>4, <1>5, <1>6

LEMMA ComparedRow ==
  ASSUME RelayTyped, RowConsistent, NEW t \in Tickets, NEW h \in Handler,
         LoadedOK(h, tradeLog[t]), h.pc = "compare"
  PROVE  /\ Differing(h.entity, t) \subseteq Columns
         /\ "status" \in Differing(h.entity, t) <=> "pnl" \in Differing(h.entity, t)
<1>1. h.entity \in Row /\ Consistent(h.entity) /\ tradeLog[t] # NoRow
  BY DEF LoadedOK
<1>2. tradeLog[t] \in Row  BY <1>1 DEF RelayTyped
<1>3. Consistent(tradeLog[t])  BY <1>1, Zenon DEF RowConsistent, Consistent
<1>4. "status" \in Differing(h.entity, t) <=> "pnl" \in Differing(h.entity, t)
  BY <1>1, <1>2, <1>3, DifferTogether
<1> QED  BY <1>4 DEF Differing

\* The next state of a handler that takes a step.
HandlerOK(h, t) == h \in Handler /\ LoadedOK(h, tradeLog[t])

LEMMA SignalMoves ==
  ASSUME RelayInv, NEW g \in Tickets \X Events, SignalStep(g)
  PROVE  \E h : HandlerOK(h, g[1]) /\ signal' = [signal EXCEPT ![g] = h]
<1>0. signal[g] \in Handler /\ signal \in [Tickets \X Events -> Handler]
      /\ LoadedOK(signal[g], tradeLog[g[1]]) /\ g[1] \in Tickets
  BY DEF RelayInv, RelayTyped
<1>1. ASSUME NEW p \in {"find", "send", "done"}, signal' = [signal EXCEPT ![g].pc = p]
      PROVE  \E h : HandlerOK(h, g[1]) /\ signal' = [signal EXCEPT ![g] = h]
  <2> DEFINE h == [signal[g] EXCEPT !.pc = p]
  <2>1. h \in Handler /\ h.pc \notin {"compare", "update"}  BY <1>0 DEF Handler
  <2>2. signal' = [signal EXCEPT ![g] = h]  BY <1>0, <1>1
  <2> HIDE DEF h
  <2> QED  BY <2>1, <2>2, NothingLoaded DEF HandlerOK
<1>2. ASSUME NEW t \in Tickets, g = Open(t), TagOpen(t)
      PROVE  \E h : HandlerOK(h, g[1]) /\ signal' = [signal EXCEPT ![g] = h]
  <2> DEFINE tag == IF Cardinality(SlaveEntries(OwnerOf[t])) = 1
                    THEN NodeOf[CHOOSE s \in SlaveEntries(OwnerOf[t]) : TRUE] ELSE None
             h == [signal[g] EXCEPT !.pc = "insert", !.slaveId = tag]
  <2>1. tag \in Slaves \cup {None}  BY TagTyped
  <2>2. signal' = [signal EXCEPT ![g].pc = "insert", ![g].slaveId = tag]
    BY <1>2 DEF TagOpen
  <2> HIDE DEF tag
  <2>3. h \in Handler /\ h.pc \notin {"compare", "update"}  BY <1>0, <2>1 DEF Handler
  <2>4. signal' = [signal EXCEPT ![g] = h]  BY <1>0, <2>2
  <2> HIDE DEF h
  <2> QED  BY <2>3, <2>4, NothingLoaded DEF HandlerOK
<1>3. ASSUME NEW t \in Tickets, g = Close(t), FindOpenRow(t)
      PROVE  \E h : HandlerOK(h, g[1]) /\ signal' = [signal EXCEPT ![g] = h]
  <2> DEFINE closed == [tradeLog[t] EXCEPT !.status = "CLOSED", !.pnl = TRUE]
             h == [signal[g] EXCEPT !.pc = "compare", !.entity = closed]
  <2>1. CASE tradeLog[t].status = "OPEN"
    <3>1. closed \in Row /\ Consistent(closed) /\ tradeLog[t] # NoRow
      BY <2>1, LoadedRow DEF RelayInv
    <3>2. signal' = [signal EXCEPT ![g].pc = "compare", ![g].entity = closed]
      BY <1>3, <2>1 DEF FindOpenRow
    <3> HIDE DEF closed
    <3>3. h \in Handler /\ h.pc = "compare" /\ h.entity = closed
      BY <1>0, <3>1 DEF Handler
    <3>4. signal' = [signal EXCEPT ![g] = h]  BY <1>0, <3>2
    <3> HIDE DEF h
    <3>5. g[1] = t  BY <1>3 DEF Close
    <3>6. LoadedOK(h, tradeLog[t])  BY <3>1, <3>3, Zenon DEF LoadedOK
    <3> QED  BY <3>3, <3>4, <3>5, <3>6 DEF HandlerOK
  <2>2. CASE tradeLog[t].status # "OPEN"
    <3>1. signal' = [signal EXCEPT ![g].pc = "send"]  BY <1>3, <2>2 DEF FindOpenRow
    <3> QED  BY <1>1, <3>1
  <2> QED  BY <2>1, <2>2
<1>4. ASSUME NEW t \in Tickets, g = Close(t), CompareClose(t)
      PROVE  \E h : HandlerOK(h, g[1]) /\ signal' = [signal EXCEPT ![g] = h]
  <2> DEFINE d == Differing(signal[g].entity, t)
             h == [signal[g] EXCEPT !.pc = "update", !.changed = d]
  <2>0. g[1] = t  BY <1>4 DEF Close
  <2>1. signal[g].pc = "compare" /\ signal' = [signal EXCEPT ![g].pc = "update", ![g].changed = d]
    BY <1>4 DEF CompareClose
  <2>2. d \subseteq Columns /\ ("status" \in d <=> "pnl" \in d)
    BY <1>0, <2>0, <2>1, ComparedRow DEF RelayInv
  <2> HIDE DEF d
  <2>3. h \in Handler /\ h.pc = "update" /\ h.entity = signal[g].entity /\ h.changed = d
    BY <1>0, <2>2 DEF Handler
  <2>4. signal' = [signal EXCEPT ![g] = h]  BY <1>0, <2>1
  <2> HIDE DEF h
  <2>5. LoadedOK(h, tradeLog[t])  BY <1>0, <2>0, <2>1, <2>2, <2>3, Zenon DEF LoadedOK
  <2> QED  BY <2>0, <2>3, <2>4, <2>5 DEF HandlerOK
<1>5. CASE \E t \in Tickets : g = Open(t) /\ InsertRow(t)
  BY <1>1, <1>5 DEF InsertRow, Step
<1>6. CASE \E t \in Tickets : g = Close(t) /\ (LogClose(t) \/ UpdateClose(t))
  BY <1>1, <1>6 DEF LogClose, UpdateClose, Step
<1>7. CASE SaveFails(g) \/ Broadcast(g)
  BY <1>1, <1>7 DEF SaveFails, Broadcast, Step
<1> QED  BY <1>2, <1>3, <1>4, <1>5, <1>6, <1>7 DEF SignalStep

LEMMA AckMoves ==
  ASSUME RelayInv, NEW a \in Slaves \X Tickets, HandleAck(a)
  PROVE  \E h : HandlerOK(h, a[2]) /\ ack' = [ack EXCEPT ![a] = h]
<1> DEFINE t == a[2]
<1>0. /\ ack[a] \in Handler /\ ack \in [Slaves \X Tickets -> Handler]
      /\ LoadedOK(ack[a], tradeLog[t]) /\ t \in Tickets /\ a[1] \in Slaves
  BY DEF RelayInv, RelayTyped
<1> HIDE DEF t
<1>1. ASSUME ack' = [ack EXCEPT ![a].pc = "done"]
      PROVE  \E h : HandlerOK(h, t) /\ ack' = [ack EXCEPT ![a] = h]
  <2> DEFINE h == [ack[a] EXCEPT !.pc = "done"]
  <2>1. h \in Handler /\ h.pc \notin {"compare", "update"}  BY <1>0 DEF Handler
  <2>2. ack' = [ack EXCEPT ![a] = h]  BY <1>0, <1>1
  <2> HIDE DEF h
  <2> QED  BY <2>1, <2>2, NothingLoaded DEF HandlerOK
<1>2. ASSUME AckFindRow(a), tradeLog[t].status = "OPEN"
      PROVE  \E h : HandlerOK(h, t) /\ ack' = [ack EXCEPT ![a] = h]
  <2> DEFINE acked == [tradeLog[t] EXCEPT !.copier = a[1]]
             h == [ack[a] EXCEPT !.pc = "compare", !.entity = acked]
  <2>1. acked \in Row /\ Consistent(acked) /\ tradeLog[t] # NoRow
    BY <1>0, <1>2, LoadedRow DEF RelayInv
  <2>2. ack' = [ack EXCEPT ![a].pc = "compare", ![a].entity = acked]
    BY <1>2 DEF AckFindRow, t
  <2> HIDE DEF acked
  <2>3. h \in Handler /\ h.pc = "compare" /\ h.entity = acked  BY <1>0, <2>1 DEF Handler
  <2>4. ack' = [ack EXCEPT ![a] = h]  BY <1>0, <2>2
  <2> HIDE DEF h
  <2>5. LoadedOK(h, tradeLog[t])  BY <2>1, <2>3, Zenon DEF LoadedOK
  <2> QED  BY <2>3, <2>4, <2>5 DEF HandlerOK
<1>3. ASSUME AckFindRow(a), tradeLog[t].status # "OPEN"
      PROVE  \E h : HandlerOK(h, t) /\ ack' = [ack EXCEPT ![a] = h]
  BY <1>1, <1>3 DEF AckFindRow, t
<1>4. ASSUME AckCompare(a)
      PROVE  \E h : HandlerOK(h, t) /\ ack' = [ack EXCEPT ![a] = h]
  <2> DEFINE d == Differing(ack[a].entity, t)
             h == [ack[a] EXCEPT !.pc = "update", !.changed = d]
  <2>1. ack[a].pc = "compare" /\ ack' = [ack EXCEPT ![a].pc = "update", ![a].changed = d]
    BY <1>4 DEF AckCompare, t
  <2>2. d \subseteq Columns /\ ("status" \in d <=> "pnl" \in d)
    BY <1>0, <2>1, ComparedRow DEF RelayInv
  <2> HIDE DEF d
  <2>3. h \in Handler /\ h.pc = "update" /\ h.entity = ack[a].entity /\ h.changed = d
    BY <1>0, <2>2 DEF Handler
  <2>4. ack' = [ack EXCEPT ![a] = h]  BY <1>0, <2>1
  <2> HIDE DEF h
  <2>5. LoadedOK(h, tradeLog[t])  BY <1>0, <2>1, <2>2, <2>3, Zenon DEF LoadedOK
  <2> QED  BY <2>3, <2>4, <2>5 DEF HandlerOK
<1>5. ASSUME AckUpdate(a) \/ AckFails(a)
      PROVE  \E h : HandlerOK(h, t) /\ ack' = [ack EXCEPT ![a] = h]
  BY <1>1, <1>5 DEF AckUpdate, AckFails, AckStep
<1> QED  BY <1>2, <1>3, <1>4, <1>5 DEF HandleAck, t

\* One handler takes a step, or none does.
LEMMA HandlersMove ==
  ASSUME RelayInv, [Next]_vars
  PROVE  /\ \/ UNCHANGED signal
            \/ \E g \in Tickets \X Events : \E h :
                  HandlerOK(h, g[1]) /\ signal' = [signal EXCEPT ![g] = h]
         /\ \/ UNCHANGED ack
            \/ \E a \in Slaves \X Tickets : \E h :
                  HandlerOK(h, a[2]) /\ ack' = [ack EXCEPT ![a] = h]
<1>1. CASE (RegistryNext /\ UNCHANGED relayVars) \/ UNCHANGED vars
  BY <1>1 DEF vars, relayVars
<1>2. ASSUME NEW s \in Sockets, NEW t \in Tickets, NEW e \in Events, TestSignal(s, t, e)
      PROVE  /\ UNCHANGED ack
             /\ \E g \in Tickets \X Events : \E h :
                   HandlerOK(h, g[1]) /\ signal' = [signal EXCEPT ![g] = h]
  <2> DEFINE g == <<t, e>>
  <2>0. g \in Tickets \X Events /\ g[1] = t  OBVIOUS
  <2>1. PICK p \in {"log", "blocked"} : signal' = [signal EXCEPT ![g].pc = p]
    BY <1>2 DEF TestSignal, Step
  <2>2. UNCHANGED ack  BY <1>2 DEF TestSignal
  <2> HIDE DEF g
  <2> DEFINE h == [signal[g] EXCEPT !.pc = p]
  <2>3. signal[g] \in Handler /\ signal \in [Tickets \X Events -> Handler]
    BY <2>0 DEF RelayInv, RelayTyped
  <2>4. h \in Handler /\ h.pc \notin {"compare", "update"}  BY <2>3 DEF Handler
  <2>5. signal' = [signal EXCEPT ![g] = h]  BY <2>1, <2>3
  <2> HIDE DEF h
  <2> QED  BY <2>0, <2>2, <2>4, <2>5, NothingLoaded DEF HandlerOK
<1>3. ASSUME NEW s \in Sockets, NEW t \in Tickets, ExecutionAck(s, t)
      PROVE  /\ UNCHANGED signal
             /\ \E a \in Slaves \X Tickets : \E h :
                   HandlerOK(h, a[2]) /\ ack' = [ack EXCEPT ![a] = h]
  <2> DEFINE a == <<NodeOf[s], t>>
  <2>0. a \in Slaves \X Tickets /\ a[2] = t  BY <1>3 DEF ExecutionAck
  <2>1. PICK p \in {"find", "done"} : ack' = [ack EXCEPT ![a].pc = p]
    BY <1>3 DEF ExecutionAck, AckStep
  <2>2. UNCHANGED signal  BY <1>3 DEF ExecutionAck
  <2> HIDE DEF a
  <2> DEFINE h == [ack[a] EXCEPT !.pc = p]
  <2>3. ack[a] \in Handler /\ ack \in [Slaves \X Tickets -> Handler]
    BY <2>0 DEF RelayInv, RelayTyped
  <2>4. h \in Handler /\ h.pc \notin {"compare", "update"}  BY <2>3 DEF Handler
  <2>5. ack' = [ack EXCEPT ![a] = h]  BY <2>1, <2>3
  <2> HIDE DEF h
  <2> QED  BY <2>0, <2>2, <2>4, <2>5, NothingLoaded DEF HandlerOK
<1>4. ASSUME NEW g \in Tickets \X Events, SignalStep(g)
      PROVE  /\ UNCHANGED ack
             /\ \E h : HandlerOK(h, g[1]) /\ signal' = [signal EXCEPT ![g] = h]
  <2>1. UNCHANGED ack
    BY <1>4 DEF SignalStep, TagOpen, InsertRow, LogClose, FindOpenRow, CompareClose,
                UpdateClose, SaveFails, Broadcast
  <2> QED  BY <1>4, <2>1, SignalMoves
<1>5. ASSUME NEW a \in Slaves \X Tickets, HandleAck(a)
      PROVE  /\ UNCHANGED signal
             /\ \E h : HandlerOK(h, a[2]) /\ ack' = [ack EXCEPT ![a] = h]
  <2>1. UNCHANGED signal
    BY <1>5 DEF HandleAck, AckFindRow, AckCompare, AckUpdate, AckFails
  <2> QED  BY <1>5, <2>1, AckMoves
<1> QED  BY <1>1, <1>2, <1>3, <1>4, <1>5, Zenon DEF Next

----------------------------------------------------------------------------
(* The insert comes before the broadcast *)

\* An OPEN gets to its broadcast by its insert or by the failure of it.
LEMMA InsertedStep ==
  ASSUME RelayInv, [Next]_vars, NEW t \in Tickets, RowKept(t)
  PROVE  InsertedOK(t)'
<1> DEFINE o == Open(t)
<1>0. /\ o \in Tickets \X Events /\ signal \in [Tickets \X Events -> Handler]
      /\ tradeLog \in [Tickets -> Row \cup {NoRow}]
      /\ \A row \in Row : row # NoRow
  BY DEF Open, Events, RelayInv, RelayTyped, Row, NoRow
<1>1. tradeLog[t] # NoRow => tradeLog'[t] # NoRow  BY <1>0 DEF RowKept
<1>2. failed \subseteq failed'
  BY DEF Next, vars, relayVars, TestSignal, ExecutionAck, SignalStep, TagOpen, LogClose,
         InsertRow, FindOpenRow, CompareClose, UpdateClose, SaveFails, Broadcast,
         HandleAck, AckFindRow, AckCompare, AckUpdate, AckFails
<1>3. CASE signal'[o].pc \in {"send", "done"} => signal[o].pc \in {"send", "done"}
  <2>1. InsertedOK(t)  BY DEF RelayInv
  <2> QED  BY <1>1, <1>2, <1>3, <2>1 DEF InsertedOK
<1>4. CASE signal'[o].pc \in {"send", "done"} /\ signal[o].pc \notin {"send", "done"}
  <2>1. ASSUME NEW s \in Sockets, NEW u \in Tickets, NEW e \in Events, TestSignal(s, u, e)
        PROVE  FALSE
    <3>1. PICK p \in {"log", "blocked"} : signal' = [signal EXCEPT ![<<u, e>>].pc = p]
      BY <2>1 DEF TestSignal, Step
    <3>2. <<u, e>> \in Tickets \X Events  OBVIOUS
    <3> HIDE DEF o
    <3> QED  BY <1>0, <1>4, <3>1, <3>2
  <2>2. PICK g \in Tickets \X Events : SignalStep(g)
    <3>1. ~UNCHANGED signal  BY <1>4
    <3>2. \A s \in Sockets, u \in Tickets : ~ExecutionAck(s, u)
      BY <3>1 DEF ExecutionAck
    <3>3. \A a \in Slaves \X Tickets : ~HandleAck(a)
      BY <3>1 DEF HandleAck, AckFindRow, AckCompare, AckUpdate, AckFails
    <3>4. ~UNCHANGED relayVars /\ ~UNCHANGED vars  BY <3>1 DEF vars, relayVars
    <3> QED  BY <2>1, <3>2, <3>3, <3>4, Zenon DEF Next
  <2>3. \E h : signal' = [signal EXCEPT ![g] = h]  BY <2>2, SignalMoves
  <2>4. g = o
    <3> HIDE DEF o
    <3> QED  BY <1>0, <1>4, <2>3
  <2>5. \A u \in Tickets : g # Close(u) /\ (g = Open(u) => u = t)
    BY <2>4 DEF Open, Close
  <2>6. InsertRow(t) \/ TagOpen(t) \/ SaveFails(g) \/ Broadcast(g)
    BY <2>2, <2>5, Zenon DEF SignalStep
  <2>7. CASE InsertRow(t)
    <3>1. tradeLog'[t].status = "OPEN"  BY <1>0, <2>7 DEF InsertRow
    <3> QED  BY <3>1 DEF InsertedOK, NoRow
  <2>8. CASE TagOpen(t)
    <3>1. signal'[o].pc = "insert"  BY <1>0, <2>8 DEF TagOpen
    <3> QED  BY <1>4, <3>1
  <2>9. CASE SaveFails(g)
    <3>1. o \in failed'  BY <2>4, <2>9 DEF SaveFails
    <3> QED  BY <3>1 DEF InsertedOK
  <2>10. CASE Broadcast(g)
    <3>1. signal[o].pc = "send"  BY <2>4, <2>10 DEF Broadcast, Step
    <3> QED  BY <1>4, <3>1
  <2> QED  BY <2>6, <2>7, <2>8, <2>9, <2>10
<1> QED  BY <1>3, <1>4

LEMMA ReceivedStep ==
  ASSUME RelayInv, [Next]_vars, \A t \in Tickets : RowKept(t) /\ InsertedOK(t)'
  PROVE  PersistBeforeSend'
<1> SUFFICES ASSUME NEW s \in Sockets, NEW t \in Tickets, <<s, t>> \in received'
             PROVE  tradeLog'[t] # NoRow \/ Open(t) \in failed'
  BY DEF PersistBeforeSend, Open
<1>1. CASE <<s, t>> \in received
  <2>1. tradeLog[t] # NoRow \/ Open(t) \in failed  BY <1>1 DEF RelayInv, PersistBeforeSend
  <2>2. tradeLog[t] # NoRow => tradeLog'[t] # NoRow
    <3>1. \A row \in Row : row # NoRow  BY DEF Row, NoRow
    <3> QED  BY <3>1 DEF RowKept
  <2>3. failed \subseteq failed'
    BY DEF Next, vars, relayVars, TestSignal, ExecutionAck, SignalStep, TagOpen, LogClose,
           InsertRow, FindOpenRow, CompareClose, UpdateClose, SaveFails, Broadcast,
           HandleAck, AckFindRow, AckCompare, AckUpdate, AckFails
  <2> QED  BY <2>1, <2>2, <2>3
<1>2. CASE <<s, t>> \notin received
  <2>1. PICK g \in Tickets \X Events : Broadcast(g) /\ g[2] = "OPEN" /\ g[1] = t
    <3>1. PICK g \in Tickets \X Events : Broadcast(g)
      BY <1>2 DEF Next, vars, relayVars, TestSignal, ExecutionAck, SignalStep, TagOpen,
             LogClose, InsertRow, FindOpenRow, CompareClose, UpdateClose, SaveFails,
             HandleAck, AckFindRow, AckCompare, AckUpdate, AckFails
    <3>2. g[2] = "OPEN" /\ g[1] = t  BY <1>2, <3>1 DEF Broadcast
    <3> QED  BY <3>1, <3>2
  <2>2. g = Open(t)  BY <2>1 DEF Open
  <2>3. signal'[Open(t)].pc = "done"
    <3>1. signal \in [Tickets \X Events -> Handler]  BY DEF RelayInv, RelayTyped
    <3>2. signal' = [signal EXCEPT ![Open(t)].pc = "done"]  BY <2>1, <2>2 DEF Broadcast, Step
    <3>3. Open(t) \in Tickets \X Events  BY <2>2
    <3> QED  BY <3>1, <3>2, <3>3 DEF Handler
  <2>4. InsertedOK(t)'  OBVIOUS
  <2> QED  BY <2>3, <2>4 DEF InsertedOK, Open
<1> QED  BY <1>1, <1>2

----------------------------------------------------------------------------

LEMMA RelayInvStep == ASSUME RelayInv, [Next]_vars PROVE RelayInv'
<1>1. tradeLog' \in [Tickets -> Row \cup {NoRow}] /\ \A t \in Tickets : RowKept(t)
  BY RowsKept
<1>2. /\ signal \in [Tickets \X Events -> Handler] /\ ack \in [Slaves \X Tickets -> Handler]
      /\ \A g \in Tickets \X Events : g[1] \in Tickets
      /\ \A a \in Slaves \X Tickets : a[2] \in Tickets
  BY DEF RelayInv, RelayTyped
<1>3. signal' \in [Tickets \X Events -> Handler]
  BY <1>2, HandlersMove DEF HandlerOK
<1>4. ack' \in [Slaves \X Tickets -> Handler]
  BY <1>2, HandlersMove DEF HandlerOK
<1>5. ASSUME NEW g \in Tickets \X Events PROVE LoadedOK(signal'[g], tradeLog'[g[1]])
  <2>1. LoadedOK(signal'[g], tradeLog[g[1]])
    <3>1. signal'[g] = signal[g] \/ HandlerOK(signal'[g], g[1])
      BY <1>2, HandlersMove
    <3> QED  BY <3>1, Zenon DEF RelayInv, HandlerOK
  <2> QED  BY <1>1, <1>2, <2>1, LoadedKept
<1>6. ASSUME NEW a \in Slaves \X Tickets PROVE LoadedOK(ack'[a], tradeLog'[a[2]])
  <2>1. LoadedOK(ack'[a], tradeLog[a[2]])
    <3>1. ack'[a] = ack[a] \/ HandlerOK(ack'[a], a[2])
      BY <1>2, HandlersMove
    <3> QED  BY <3>1, Zenon DEF RelayInv, HandlerOK
  <2> QED  BY <1>1, <1>2, <2>1, LoadedKept
<1>7. RowConsistent'
  <2>1. ASSUME NEW t \in Tickets, tradeLog'[t] # NoRow
        PROVE  tradeLog'[t].pnl <=> tradeLog'[t].status = "CLOSED"
    <3>1. CASE tradeLog'[t] = tradeLog[t]
      BY <2>1, <3>1, Zenon DEF RelayInv, RowConsistent
    <3>2. CASE Consistent(tradeLog'[t])
      BY <3>2, Zenon DEF Consistent
    <3> QED  BY <1>1, <3>1, <3>2, Zenon DEF RowKept
  <2> QED  BY <2>1, Zenon DEF RowConsistent, NoRow
<1>8. \A t \in Tickets : InsertedOK(t)'  BY <1>1, InsertedStep
<1>9. PersistBeforeSend'  BY <1>1, <1>8, ReceivedStep
<1> QED
  BY <1>1, <1>3, <1>4, <1>5, <1>6, <1>7, <1>8, <1>9 DEF RelayInv, RelayTyped, LoadedOK,
     Handler, Row, NoRow, Consistent

LEMMA RelayInvariant == Spec => []RelayInv
  BY RelayInvInit, RelayInvStep, PTL DEF Spec

\* No interleaving of saves leaves a row that is CLOSED without its profit or OPEN with
\* one, however many copiers report on it: each save reads the row again and writes
\* both columns or neither.
THEOREM RelayRowConsistent == Spec => []RowConsistent
  BY RelayInvariant, PTL DEF RelayInv

\* An OPEN is broadcast after its insert or the failure of it, for any number of
\* tickets whose handlers interleave.
THEOREM RelayPersistBeforeSend == Spec => []PersistBeforeSend
  BY RelayInvariant, PTL DEF RelayInv

----------------------------------------------------------------------------
(* A row that is closed stays closed *)

\* Of the handlers of a ticket: a row comes with the insert of its OPEN; a report
\* holds the row as it was open; until its update a CLOSE finds the row open and
\* will write its status; what it has loaded says that there is a row.
FinalOK(t) ==
    LET c == signal[Close(t)]
    IN  /\ tradeLog[t] # NoRow => signal[Open(t)].pc \in {"send", "done"}
        /\ \A u \in Slaves : ack[<<u, t>>].pc \in {"compare", "update"} =>
                                 ack[<<u, t>>].entity.status = "OPEN"
        /\ c.pc \in {"compare", "update"} =>
               c.entity.status = "CLOSED" /\ tradeLog[t].status = "OPEN"
        /\ c.pc = "update" => "status" \in c.changed
        /\ c.entity # NoRow =>
               c.pc \in {"compare", "update", "send", "done"} /\ tradeLog[t] # NoRow
        /\ (c.pc \in {"send", "done"} /\ Close(t) \notin failed /\ c.entity # NoRow) =>
               \/ tradeLog[t].status = "CLOSED"
               \/ \E u \in Slaves : /\ ack[<<u, t>>].pc = "done"
                                    /\ "status" \in ack[<<u, t>>].changed

LEMMA FinalInit == Init => \A t \in Tickets : FinalOK(t)
<1> SUFFICES ASSUME Init, NEW t \in Tickets PROVE FinalOK(t)  OBVIOUS
<1>1. Open(t) \in Tickets \X Events /\ Close(t) \in Tickets \X Events
  BY DEF Open, Close, Events
<1>2. /\ tradeLog[t] = NoRow /\ signal[Open(t)] = Idle /\ signal[Close(t)] = Idle
      /\ \A u \in Slaves : ack[<<u, t>>] = Idle
  BY <1>1 DEF Init
<1> QED  BY <1>2 DEF FinalOK, Idle

\* The status that an update leaves.
LEMMA UpdatedStatus ==
  ASSUME NEW t \in Tickets, tradeLog \in [Tickets -> Row \cup {NoRow}], NEW h \in Handler,
         LoadedOK(h, tradeLog[t]), h.pc = "update",
         tradeLog' = [tradeLog EXCEPT ![t] = Updated(h, t)]
  PROVE  /\ tradeLog'[t].status = IF "status" \in h.changed THEN h.entity.status
                                  ELSE tradeLog[t].status
         /\ tradeLog'[t] # NoRow
<1>1. tradeLog[t] \in Row /\ h.entity \in Row  BY DEF LoadedOK
<1>2. Updated(h, t) \in Row  BY <1>1 DEF Updated, Row, Handler
<1>3. Updated(h, t).status = IF "status" \in h.changed THEN h.entity.status
                             ELSE tradeLog[t].status
  BY <1>1 DEF Updated, Row
<1>4. tradeLog'[t] = Updated(h, t)  OBVIOUS
<1>5. \A row \in Row : row # NoRow  BY DEF Row, NoRow
<1> QED  BY <1>2, <1>3, <1>4, <1>5

\* The handler of a signal of this ticket takes a step.
LEMMA FinalSignal ==
  ASSUME RelayInv, NEW t \in Tickets, FinalOK(t), SignalStep(Open(t)) \/ SignalStep(Close(t))
  PROVE  FinalOK(t)'
<1> DEFINE o == Open(t)
           c == Close(t)
<1>0. /\ o \in Tickets \X Events /\ c \in Tickets \X Events /\ o # c
      /\ \A u \in Tickets : (Open(u) = o <=> u = t) /\ (Close(u) = c <=> u = t)
      /\ \A u \in Tickets : Open(u) # c /\ Close(u) # o
      /\ o[1] = t /\ c[1] = t
  BY DEF Open, Close, Events
<1>1. /\ signal \in [Tickets \X Events -> Handler] /\ tradeLog \in [Tickets -> Row \cup {NoRow}]
      /\ LoadedOK(signal[c], tradeLog[t])
      /\ \A row \in Row : row # NoRow
  BY <1>0 DEF RelayInv, RelayTyped, Row, NoRow
<1> HIDE DEF o, c
<1>2. ASSUME UNCHANGED <<tradeLog, ack>>, failed \subseteq failed',
             signal'[c] = signal[c], NEW p, signal' = [signal EXCEPT ![o] = p],
             tradeLog[t] # NoRow => p.pc \in {"send", "done"}
      PROVE  FinalOK(t)'
  BY <1>0, <1>1, <1>2 DEF FinalOK, o, c, Open, Close
<1>3. CASE TagOpen(t)
  <2>1. signal[o].pc = "log" /\ UNCHANGED <<tradeLog, ack, failed>>
        /\ signal'[c] = signal[c] /\ \E p : signal' = [signal EXCEPT ![o] = p]
    <3>1. signal[o].pc = "log" /\ UNCHANGED <<tradeLog, ack, failed>>
      BY <1>3 DEF TagOpen, o
    <3>2. SignalStep(Open(t))  BY <1>3 DEF SignalStep
    <3>3. PICK p : signal' = [signal EXCEPT ![o] = p]
      BY <1>0, <3>2, SignalMoves, Zenon DEF o
    <3> QED  BY <1>0, <1>1, <3>1, <3>3
  <2>2. tradeLog[t] = NoRow  BY <2>1 DEF FinalOK, o
  <2> QED  BY <1>2, <2>1, <2>2
<1>4. CASE InsertRow(t)
  <2>1. /\ signal[o].pc = "insert" /\ signal'[o].pc = "send" /\ signal'[c] = signal[c]
        /\ UNCHANGED <<ack, failed>> /\ tradeLog'[t].status = "OPEN"
    BY <1>0, <1>1, <1>4 DEF InsertRow, Step, o, Handler
  <2>2. tradeLog[t] = NoRow /\ tradeLog[t].status # "OPEN"  BY <2>1 DEF FinalOK, o, NoRow
  <2>3. signal[c].entity = NoRow /\ signal[c].pc \notin {"compare", "update"}
    BY <2>2 DEF FinalOK, c
  <2> QED  BY <2>1, <2>3 DEF FinalOK, o, c, Open, Close
<1>5. CASE LogClose(t)
  <2>1. /\ signal[c].pc = "log" /\ signal' = [signal EXCEPT ![c].pc = "find"]
        /\ UNCHANGED <<tradeLog, ack, failed>>
    BY <1>5 DEF LogClose, Step, c
  <2>2. /\ signal'[c].pc = "find" /\ signal'[c].entity = signal[c].entity
        /\ signal'[o] = signal[o]
    BY <1>0, <1>1, <2>1 DEF Handler
  <2> QED  BY <2>1, <2>2 DEF FinalOK, o, c, Open, Close
<1>6. CASE FindOpenRow(t) /\ tradeLog[t].status = "OPEN"
  <2>1. /\ signal' = [signal EXCEPT ![c].pc = "compare",
                        ![c].entity = [tradeLog[t] EXCEPT !.status = "CLOSED", !.pnl = TRUE]]
        /\ UNCHANGED <<tradeLog, ack, failed>>
    BY <1>6 DEF FindOpenRow, c
  <2>2. tradeLog[t] \in Row /\ tradeLog[t] # NoRow  BY <1>1, <1>6 DEF NoRow
  <2>3. /\ signal'[c].pc = "compare" /\ signal'[c].entity.status = "CLOSED"
        /\ signal'[o] = signal[o]
    BY <1>0, <1>1, <2>1, <2>2 DEF Handler, Row
  <2> QED  BY <1>6, <2>1, <2>2, <2>3 DEF FinalOK, o, c, Open, Close
<1>7. CASE FindOpenRow(t) /\ tradeLog[t].status # "OPEN"
  <2>1. /\ signal[c].pc = "find" /\ signal' = [signal EXCEPT ![c].pc = "send"]
        /\ UNCHANGED <<tradeLog, ack, failed>>
    BY <1>7 DEF FindOpenRow, c
  <2>2. /\ signal'[c].pc = "send" /\ signal'[c].entity = signal[c].entity
        /\ signal'[o] = signal[o]
    BY <1>0, <1>1, <2>1 DEF Handler
  <2>3. signal[c].entity = NoRow  BY <2>1 DEF FinalOK, c
  <2> QED  BY <2>1, <2>2, <2>3 DEF FinalOK, o, c, Open, Close
<1>8. CASE CompareClose(t)
  <2>1. /\ signal[c].pc = "compare" /\ UNCHANGED <<tradeLog, ack, failed>>
        /\ signal' = [signal EXCEPT ![c].pc = "update",
                          ![c].changed = Differing(signal[c].entity, t)]
    BY <1>8 DEF CompareClose, c
  <2>2. /\ signal'[c].pc = "update" /\ signal'[c].entity = signal[c].entity
        /\ signal'[c].changed = Differing(signal[c].entity, t) /\ signal'[o] = signal[o]
    BY <1>0, <1>1, <2>1 DEF Handler
  <2>3. signal[c].entity.status = "CLOSED" /\ tradeLog[t].status = "OPEN"
        /\ tradeLog[t] # NoRow
    BY <1>1, <2>1 DEF FinalOK, c, LoadedOK
  <2>4. "status" \in Differing(signal[c].entity, t)  BY <2>3 DEF Differing, Columns
  <2> QED  BY <2>1, <2>2, <2>3, <2>4 DEF FinalOK, o, c, Open, Close
<1>9. CASE UpdateClose(t)
  <2>1. /\ signal[c].pc = "update" /\ signal' = [signal EXCEPT ![c].pc = "send"]
        /\ tradeLog' = [tradeLog EXCEPT ![t] = Updated(signal[c], t)]
        /\ UNCHANGED <<ack, failed>>
    BY <1>9 DEF UpdateClose, Step, c
  <2>2. signal'[c].pc = "send" /\ signal'[o] = signal[o]
    BY <1>0, <1>1, <2>1 DEF Handler
  <2>3. /\ "status" \in signal[c].changed /\ signal[c].entity.status = "CLOSED"
        /\ tradeLog[t] # NoRow
    BY <1>1, <2>1 DEF FinalOK, c, LoadedOK
  <2>4. tradeLog'[t].status = "CLOSED" /\ tradeLog'[t] # NoRow
    BY <1>0, <1>1, <2>1, <2>3, UpdatedStatus
  <2>5. signal[o].pc \in {"send", "done"}  BY <2>3 DEF FinalOK, o
  <2> QED  BY <2>1, <2>2, <2>4, <2>5 DEF FinalOK, o, c, Open, Close
<1>10. CASE SaveFails(o) \/ Broadcast(o)
  <2>1. /\ \E p \in {"send", "done"} : signal' = [signal EXCEPT ![o].pc = p]
        /\ UNCHANGED <<tradeLog, ack>> /\ failed \subseteq failed'
    BY <1>10 DEF SaveFails, Broadcast, Step
  <2>2. signal'[o].pc \in {"send", "done"} /\ signal'[c] = signal[c]
    BY <1>0, <1>1, <2>1 DEF Handler
  <2> QED  BY <2>1, <2>2 DEF FinalOK, o, c, Open, Close
<1>11. CASE SaveFails(c)
  <2>1. /\ signal' = [signal EXCEPT ![c].pc = "send"] /\ c \in failed'
        /\ UNCHANGED <<tradeLog, ack>>
    BY <1>11 DEF SaveFails
  <2>2. signal'[c].pc = "send" /\ signal'[c].entity = signal[c].entity
        /\ signal'[o] = signal[o]
    BY <1>0, <1>1, <2>1 DEF Handler
  <2> QED  BY <2>1, <2>2 DEF FinalOK, o, c, Open, Close
<1>12. CASE Broadcast(c)
  <2>1. /\ signal[c].pc = "send" /\ signal' = [signal EXCEPT ![c].pc = "done"]
        /\ UNCHANGED <<tradeLog, ack, failed>>
    BY <1>12 DEF Broadcast, Step
  <2>2. signal'[c].pc = "done" /\ signal'[c].entity = signal[c].entity
        /\ signal'[o] = signal[o]
    BY <1>0, <1>1, <2>1 DEF Handler
  <2> QED  BY <2>1, <2>2 DEF FinalOK, o, c, Open, Close
<1>13. \/ TagOpen(t) \/ InsertRow(t) \/ LogClose(t) \/ FindOpenRow(t) \/ CompareClose(t)
       \/ UpdateClose(t) \/ SaveFails(o) \/ Broadcast(o) \/ SaveFails(c) \/ Broadcast(c)
  BY <1>0, Zenon DEF SignalStep, o, c
<1> QED
  BY <1>3, <1>4, <1>5, <1>6, <1>7, <1>8, <1>9, <1>10, <1>11, <1>12, <1>13, Zenon

\* The handler of a report on this ticket takes a step.
LEMMA FinalReport ==
  ASSUME RelayInv, NEW t \in Tickets, FinalOK(t), NEW v \in Slaves, HandleAck(<<v, t>>)
  PROVE  FinalOK(t)'
<1> DEFINE a == <<v, t>>
<1>0. /\ a \in Slaves \X Tickets /\ a[1] = v /\ a[2] = t
      /\ \A u \in Slaves : <<u, t>> \in Slaves \X Tickets /\ (<<u, t>> = a <=> u = v)
  OBVIOUS
<1>1. /\ ack \in [Slaves \X Tickets -> Handler] /\ tradeLog \in [Tickets -> Row \cup {NoRow}]
      /\ ack[a] \in Handler /\ LoadedOK(ack[a], tradeLog[t])
  BY <1>0 DEF RelayInv, RelayTyped
<1>2. a = <<v, t>> /\ (ack[a].pc \in {"compare", "update"} => ack[a].entity.status = "OPEN")
  BY DEF FinalOK
<1> HIDE DEF a
<1>3. ASSUME UNCHANGED <<tradeLog, signal, failed>>, ack[a].pc # "done",
             \A u \in Slaves : u # v => ack'[<<u, t>>] = ack[<<u, t>>],
             ack'[a].pc \in {"compare", "update"} => ack'[a].entity.status = "OPEN"
      PROVE  FinalOK(t)'
  BY <1>2, <1>3 DEF FinalOK, Open, Close
<1>4. CASE AckFindRow(a)
  <2>1. /\ ack[a].pc = "find" /\ UNCHANGED <<tradeLog, signal, failed>>
        /\ ack' = IF tradeLog[t].status = "OPEN"
                  THEN [ack EXCEPT ![a].pc = "compare",
                                   ![a].entity = [tradeLog[t] EXCEPT !.copier = v]]
                  ELSE [ack EXCEPT ![a].pc = "done"]
    BY <1>0, <1>4 DEF AckFindRow
  <2>2. \A u \in Slaves : u # v => ack'[<<u, t>>] = ack[<<u, t>>]
    BY <1>0, <1>1, <2>1
  <2>3. CASE tradeLog[t].status = "OPEN"
    <3>1. tradeLog[t] \in Row  BY <1>1, <2>3 DEF NoRow
    <3>2. ack'[a].entity.status = "OPEN"  BY <1>0, <1>1, <2>1, <2>3, <3>1 DEF Handler, Row
    <3> QED  BY <1>3, <2>1, <2>2, <3>2
  <2>4. CASE tradeLog[t].status # "OPEN"
    <3>1. ack'[a].pc = "done"  BY <1>0, <1>1, <2>1, <2>4 DEF Handler
    <3> QED  BY <1>3, <2>1, <2>2, <3>1
  <2> QED  BY <2>3, <2>4
<1>5. CASE AckCompare(a)
  <2>1. /\ ack[a].pc = "compare" /\ UNCHANGED <<tradeLog, signal, failed>>
        /\ ack' = [ack EXCEPT ![a].pc = "update", ![a].changed = Differing(ack[a].entity, t)]
    BY <1>0, <1>5 DEF AckCompare
  <2>2. /\ \A u \in Slaves : u # v => ack'[<<u, t>>] = ack[<<u, t>>]
        /\ ack'[a].entity = ack[a].entity
    BY <1>0, <1>1, <2>1 DEF Handler
  <2> QED  BY <1>2, <1>3, <2>1, <2>2
<1>6. CASE AckUpdate(a)
  <2>1. /\ ack[a].pc = "update" /\ ack' = [ack EXCEPT ![a].pc = "done"]
        /\ tradeLog' = [tradeLog EXCEPT ![t] = Updated(ack[a], t)]
        /\ UNCHANGED <<signal, failed>>
    BY <1>0, <1>6 DEF AckUpdate, AckStep
  <2>2. /\ \A u \in Slaves : u # v => ack'[<<u, t>>] = ack[<<u, t>>]
        /\ ack'[a].pc = "done" /\ ack'[a].changed = ack[a].changed
    BY <1>0, <1>1, <2>1 DEF Handler
  <2>3. /\ tradeLog'[t].status = IF "status" \in ack[a].changed THEN ack[a].entity.status
                                 ELSE tradeLog[t].status
        /\ tradeLog'[t] # NoRow
    BY <1>1, <2>1, UpdatedStatus
  <2>4. ack[a].entity.status = "OPEN" /\ tradeLog[t] # NoRow
    BY <1>1, <1>2, <2>1 DEF LoadedOK
  <2> QED  BY <1>2, <2>1, <2>2, <2>3, <2>4 DEF FinalOK, Open, Close
<1>7. CASE AckFails(a)
  <2>1. /\ ack[a].pc \in {"find", "compare", "update"} /\ ack' = [ack EXCEPT ![a].pc = "done"]
        /\ UNCHANGED <<tradeLog, signal, failed>>
    BY <1>7 DEF AckFails
  <2>2. /\ \A u \in Slaves : u # v => ack'[<<u, t>>] = ack[<<u, t>>]
        /\ ack'[a].pc = "done"
    BY <1>0, <1>1, <2>1 DEF Handler
  <2> QED  BY <1>3, <2>1, <2>2
<1> QED  BY <1>4, <1>5, <1>6, <1>7 DEF HandleAck, a

LEMMA FinalStep ==
  ASSUME RelayInv, [Next]_vars, NEW t \in Tickets, FinalOK(t)
  PROVE  FinalOK(t)'
<1>0. /\ Open(t) \in Tickets \X Events /\ Close(t) \in Tickets \X Events
      /\ \A u \in Slaves : <<u, t>> \in Slaves \X Tickets
      /\ \A g \in Tickets \X Events : g[1] = t => g = Open(t) \/ g = Close(t)
      /\ \A a \in Slaves \X Tickets : a[2] = t => \E u \in Slaves : a = <<u, t>>
      /\ signal \in [Tickets \X Events -> Handler] /\ ack \in [Slaves \X Tickets -> Handler]
      /\ tradeLog \in [Tickets -> Row \cup {NoRow}]
  BY DEF Open, Close, Events, RelayInv, RelayTyped
<1>1. ASSUME tradeLog'[t] = tradeLog[t], signal'[Open(t)] = signal[Open(t)],
             signal'[Close(t)] = signal[Close(t)], failed \subseteq failed',
             \A u \in Slaves : ack'[<<u, t>>] = ack[<<u, t>>]
      PROVE  FinalOK(t)'
  BY <1>1 DEF FinalOK, Open, Close
<1>2. CASE UNCHANGED relayVars
  BY <1>1, <1>2 DEF relayVars
<1>3. ASSUME NEW s \in Sockets, NEW u \in Tickets, NEW e \in Events, TestSignal(s, u, e)
      PROVE  FinalOK(t)'
  <2>1. /\ signal[<<u, e>>].pc = "none" /\ UNCHANGED <<tradeLog, ack, failed>>
        /\ \E p \in {"log", "blocked"} : signal' = [signal EXCEPT ![<<u, e>>].pc = p]
    BY <1>3 DEF TestSignal, Step
  <2>2. CASE u # t
    BY <1>1, <2>1, <2>2 DEF Open, Close
  <2>3. CASE <<u, e>> = Open(t)
    <3>1. tradeLog[t] = NoRow  BY <2>1, <2>3 DEF FinalOK
    <3>2. signal'[Close(t)] = signal[Close(t)]  BY <1>0, <2>1, <2>3 DEF Open, Close
    <3> QED  BY <2>1, <3>1, <3>2 DEF FinalOK, Close
  <2>4. CASE <<u, e>> = Close(t)
    <3>1. /\ signal'[Close(t)].pc \in {"log", "blocked"}
          /\ signal'[Close(t)].entity = signal[Close(t)].entity
          /\ signal'[Open(t)] = signal[Open(t)]
      BY <1>0, <2>1, <2>4 DEF Open, Close, Handler
    <3>2. signal[Close(t)].pc = "none"  BY <2>1, <2>4
    <3> QED  BY <2>1, <3>1, <3>2 DEF FinalOK, Open, Close
  <2> QED  BY <2>2, <2>3, <2>4 DEF Open, Close, Events
<1>4. ASSUME NEW s \in Sockets, NEW u \in Tickets, ExecutionAck(s, u)
      PROVE  FinalOK(t)'
  <2> DEFINE a == <<NodeOf[s], u>>
  <2>1. /\ a \in Slaves \X Tickets /\ ack[a].pc = "none"
        /\ UNCHANGED <<tradeLog, signal, failed>>
        /\ \E p \in {"find", "done"} : ack' = [ack EXCEPT ![a].pc = p]
    BY <1>4 DEF ExecutionAck, AckStep
  <2> HIDE DEF a
  <2>2. \A w \in Slaves : \/ ack'[<<w, t>>] = ack[<<w, t>>]
                          \/ ack[<<w, t>>].pc = "none" /\ ack'[<<w, t>>].pc \in {"find", "done"}
    <3>1. PICK p \in {"find", "done"} : ack' = [ack EXCEPT ![a].pc = p]  BY <2>1
    <3>2. ack'[a].pc = p /\ \A b \in Slaves \X Tickets : b # a => ack'[b] = ack[b]
      BY <1>0, <2>1, <3>1 DEF Handler
    <3> QED  BY <1>0, <2>1, <3>2
  <2> QED  BY <2>1, <2>2 DEF FinalOK, Open, Close
<1>5. ASSUME NEW g \in Tickets \X Events, SignalStep(g)
      PROVE  FinalOK(t)'
  <2>1. CASE g[1] = t  BY <1>0, <1>5, <2>1, FinalSignal
  <2>2. CASE g[1] # t
    <3>1. \E h : signal' = [signal EXCEPT ![g] = h]  BY <1>5, SignalMoves
    <3>2. UNCHANGED ack /\ failed \subseteq failed' /\ tradeLog'[t] = tradeLog[t]
      <4>1. \A u \in Tickets : Open(u)[1] = u /\ Close(u)[1] = u  BY DEF Open, Close
      <4> QED
        BY <1>0, <1>5, <2>2, <4>1 DEF SignalStep, TagOpen, InsertRow, LogClose, FindOpenRow,
           CompareClose, UpdateClose, SaveFails, Broadcast
    <3>3. g # Open(t) /\ g # Close(t)  BY <2>2 DEF Open, Close
    <3> QED  BY <1>0, <1>1, <3>1, <3>2, <3>3
  <2> QED  BY <2>1, <2>2
<1>6. ASSUME NEW a \in Slaves \X Tickets, HandleAck(a)
      PROVE  FinalOK(t)'
  <2>1. CASE a[2] = t  BY <1>0, <1>6, <2>1, FinalReport
  <2>2. CASE a[2] # t
    <3>1. \E h : ack' = [ack EXCEPT ![a] = h]  BY <1>6, AckMoves
    <3>2. UNCHANGED <<signal, failed>> /\ tradeLog'[t] = tradeLog[t]
      BY <1>0, <1>6, <2>2 DEF HandleAck, AckFindRow, AckCompare, AckUpdate, AckStep, AckFails
    <3>3. \A u \in Slaves : a # <<u, t>>  BY <2>2
    <3> QED  BY <1>0, <1>1, <3>1, <3>2, <3>3
  <2> QED  BY <2>1, <2>2
<1> QED  BY <1>2, <1>3, <1>4, <1>5, <1>6, Zenon DEF Next, vars

\* Once a CLOSE has saved its row, nothing but a report that saw it closed and had
\* loaded it before can open it again: for any number of tickets, copiers, sockets and
\* failing queries.
THEOREM RelayCloseFinalizes == Spec => []CloseFinalizes
<1>1. Init => RelayInv /\ \A t \in Tickets : FinalOK(t)  BY RelayInvInit, FinalInit
<1>2. RelayInv /\ (\A t \in Tickets : FinalOK(t)) /\ [Next]_vars =>
          RelayInv' /\ \A t \in Tickets : FinalOK(t)'
  BY RelayInvStep, FinalStep
<1>3. (\A t \in Tickets : FinalOK(t)) => CloseFinalizes  BY DEF FinalOK, CloseFinalizes
<1> DEFINE Inv == RelayInv /\ \A t \in Tickets : FinalOK(t)
<1>4. Init => Inv  BY <1>1
<1>5. Inv /\ [Next]_vars => Inv'  BY <1>2
<1>6. Inv => CloseFinalizes  BY <1>3
<1> HIDE DEF Inv
<1> QED  BY <1>4, <1>5, <1>6, PTL DEF Spec

----------------------------------------------------------------------------
(* The slave that an OPEN is tagged with *)

\* The tag's slave has a socket that received the signal, is gone, or is in the room
\* while the signal has still to be sent.
TagOK(t) ==
    LET h == signal[Open(t)]
    IN h.slaveId # None =>
         /\ h.pc \in {"insert", "send", "done"}
         /\ \E s \in Sockets : /\ NodeOf[s] = h.slaveId
                              /\ \/ <<s, t>> \in received
                                 \/ socket[s] = "gone"
                                 \/ h.pc # "done" /\ s \in InRoom(OwnerOf[t])

\* A socket leaves a room only when it is lost, and is lost for good.
LEMMA EntryStays ==
  ASSUME RegistryInv, [RegistryNext]_registryVars, NEW s \in Sockets, NEW m \in Masters
  PROVE  /\ socket[s] = "gone" => socket'[s] = "gone"
         /\ s \in InRoom(m) => s \in InRoom(m)' \/ socket'[s] = "gone"
<1> USE UsersAssumption DEF RegistryInv, TypeOK, Registration, InRoom, Connected
<1>1. ASSUME NEW r \in Sockets,
             \/ Connect(r) \/ RegisterNode(r) \/ RegisterFails(r) \/ RegisterMaster(r)
             \/ FindSlave(r) \/ RegisterSlave(r) \/ Disconnect(r)
      PROVE  /\ socket[s] = "gone" => socket'[s] = "gone"
             /\ s \in InRoom(m) => s \in InRoom(m)' \/ socket'[s] = "gone"
  <2>1. CASE r # s
    <3>1. socket'[s] = socket[s] /\ connectedClients'[s] = connectedClients[s]
      BY <1>1, <2>1, SocketFrame
    <3> QED  BY <3>1
  <2>2. CASE r = s
    <3>1. s \in InRoom(m) => At(s, "done") /\ socket[s] = "connected"  BY DEF NoEntryBefore
    <3>2. CASE Connect(s)  BY <3>2 DEF Connect
    <3>3. CASE RegisterNode(s) \/ RegisterFails(s) \/ FindSlave(s)
      BY <3>3 DEF RegisterNode, RegisterFails, FindSlave
    <3>4. CASE RegisterMaster(s) \/ RegisterSlave(s)
      <4>1. ~At(s, "done") /\ UNCHANGED socket  BY <3>4 DEF RegisterMaster, RegisterSlave, At
      <4> QED  BY <3>1, <4>1
    <3>5. CASE Disconnect(s)  BY <3>5 DEF Disconnect, Gone
    <3> QED  BY <1>1, <2>2, <3>2, <3>3, <3>4, <3>5
  <2> QED  BY <2>1, <2>2
<1>2. ASSUME \/ \E u \in Slaves, n \in Masters \cup {None} : UpdateSubscription(u, n)
             \/ \E d \in updates : OnSubscriberUpdate(d)
             \/ \E n \in Windows : Relaunch(n)
             \/ UNCHANGED registryVars
      PROVE  UNCHANGED <<socket, connectedClients>>
  BY <1>2 DEF UpdateSubscription, OnSubscriberUpdate, Relaunch, registryVars
<1> QED  BY <1>1, <1>2 DEF RegistryNext

\* The tag's witness survives a step that leaves the ticket's OPEN alone.
LEMMA TagKept ==
  ASSUME RegistryInv, RelayInv, [RegistryNext]_registryVars, NEW t \in Tickets, TagOK(t),
         signal'[Open(t)] = signal[Open(t)], received \subseteq received'
  PROVE  TagOK(t)'
<1> SUFFICES ASSUME signal[Open(t)].slaveId # None
             PROVE  \E s \in Sockets : /\ NodeOf[s] = signal[Open(t)].slaveId
                                      /\ \/ <<s, t>> \in received'
                                         \/ socket'[s] = "gone"
                                         \/ /\ signal[Open(t)].pc # "done"
                                            /\ s \in InRoom(OwnerOf[t])'
  BY DEF TagOK
<1>1. PICK s \in Sockets : /\ NodeOf[s] = signal[Open(t)].slaveId
                          /\ \/ <<s, t>> \in received
                             \/ socket[s] = "gone"
                             \/ signal[Open(t)].pc # "done" /\ s \in InRoom(OwnerOf[t])
  BY DEF TagOK
<1>2. OwnerOf[t] \in Masters  BY TicketsAssumption
<1>3. /\ socket[s] = "gone" => socket'[s] = "gone"
      /\ s \in InRoom(OwnerOf[t]) => s \in InRoom(OwnerOf[t])' \/ socket'[s] = "gone"
  BY <1>2, EntryStays
<1> QED  BY <1>1, <1>3

LEMMA TagStep ==
  ASSUME RegistryInv, RelayInv, [Next]_vars, NEW t \in Tickets, TagOK(t)
  PROVE  TagOK(t)'
<1>0. /\ Open(t) \in Tickets \X Events /\ signal \in [Tickets \X Events -> Handler]
      /\ OwnerOf[t] \in Masters /\ OwnerOf[t] # None
  BY TicketsAssumption, UsersAssumption DEF Open, Events, RelayInv, RelayTyped
<1>1. [RegistryNext]_registryVars  BY RelayStepsRegistry
<1>2. ASSUME NEW s \in Sockets, NEW u \in Tickets, NEW e \in Events, TestSignal(s, u, e)
      PROVE  TagOK(t)'
  <2>1. /\ signal[<<u, e>>].pc = "none" /\ UNCHANGED received
        /\ \E to \in {"log", "blocked"} : signal' = [signal EXCEPT ![<<u, e>>].pc = to]
    BY <1>2 DEF TestSignal, Step
  <2>2. CASE <<u, e>> = Open(t)
    <3>1. signal[Open(t)].slaveId = None  BY <2>1, <2>2 DEF TagOK
    <3>2. signal'[Open(t)].slaveId = signal[Open(t)].slaveId
      BY <1>0, <2>1, <2>2 DEF Handler
    <3> QED  BY <3>1, <3>2 DEF TagOK
  <2>3. CASE <<u, e>> # Open(t)
    <3>1. signal'[Open(t)] = signal[Open(t)]  BY <1>0, <2>1, <2>3
    <3> QED  BY <1>1, <2>1, <3>1, TagKept
  <2> QED  BY <2>2, <2>3
<1>3. ASSUME TagOpen(t) PROVE TagOK(t)'
  <2> DEFINE E == SlaveEntries(OwnerOf[t])
             tag == IF Cardinality(E) = 1 THEN NodeOf[CHOOSE s \in E : TRUE] ELSE None
  <2>1. /\ signal' = [signal EXCEPT ![Open(t)].pc = "insert", ![Open(t)].slaveId = tag]
        /\ UNCHANGED <<registryVars, received>>
    BY <1>3 DEF TagOpen
  <2> HIDE DEF tag
  <2>2. signal'[Open(t)].pc = "insert" /\ signal'[Open(t)].slaveId = tag
    BY <1>0, <2>1 DEF Handler
  <2>3. UNCHANGED <<socket, connectedClients>>  BY <2>1 DEF registryVars
  <2>4. CASE tag = None  BY <2>2, <2>4 DEF TagOK
  <2>5. CASE tag # None
    <3>1. Cardinality(E) = 1 /\ tag = NodeOf[CHOOSE s \in E : TRUE]  BY <2>5 DEF tag
    <3>2. E # {}  BY <3>1, FS_EmptySet
    <3>3. PICK r \in E : tag = NodeOf[r]  BY <3>1, <3>2
    <3>4. r \in Sockets /\ connectedClients[r] = OwnerOf[t]  BY DEF SlaveEntries
    <3>5. Connected(r) \/ socket[r] = "gone"
      BY <1>0, <3>4 DEF RegistryInv, GhostsAreRaced, NoEntryBefore
    <3>6. r \in InRoom(OwnerOf[t])' \/ socket'[r] = "gone"
      BY <2>3, <3>4, <3>5 DEF InRoom, Connected
    <3> QED  BY <2>2, <3>3, <3>4, <3>6 DEF TagOK
  <2> QED  BY <2>4, <2>5
<1>4. ASSUME InsertRow(t) \/ SaveFails(Open(t)) PROVE TagOK(t)'
  <2>1. /\ signal' = [signal EXCEPT ![Open(t)].pc = "send"]
        /\ signal[Open(t)].pc \in {"insert", "find", "compare", "update"}
        /\ UNCHANGED <<registryVars, received>>
    BY <1>4 DEF InsertRow, SaveFails, Step
  <2>2. signal'[Open(t)].pc = "send" /\ signal'[Open(t)].slaveId = signal[Open(t)].slaveId
    BY <1>0, <2>1 DEF Handler
  <2>3. UNCHANGED <<socket, connectedClients, received>>  BY <2>1 DEF registryVars
  <2> QED  BY <2>1, <2>2, <2>3 DEF TagOK, InRoom, Connected
<1>5. ASSUME Broadcast(Open(t)) PROVE TagOK(t)'
  <2>1. /\ signal' = [signal EXCEPT ![Open(t)].pc = "done"]
        /\ received' = received \cup (InRoom(OwnerOf[t]) \X {t})
        /\ UNCHANGED registryVars
    BY <1>5 DEF Broadcast, Step, Open
  <2>2. signal'[Open(t)].pc = "done" /\ signal'[Open(t)].slaveId = signal[Open(t)].slaveId
    BY <1>0, <2>1 DEF Handler
  <2>3. UNCHANGED <<socket, connectedClients>>  BY <2>1 DEF registryVars
  <2>4. \A s \in InRoom(OwnerOf[t]) : <<s, t>> \in received'  BY <2>1
  <2> QED  BY <2>1, <2>2, <2>3, <2>4 DEF TagOK
<1>6. ASSUME NEW g \in Tickets \X Events, g # Open(t), SignalStep(g) PROVE TagOK(t)'
  <2>1. \E h : signal' = [signal EXCEPT ![g] = h]  BY <1>6, SignalMoves
  <2>2. signal'[Open(t)] = signal[Open(t)]  BY <1>0, <1>6, <2>1
  <2>3. received \subseteq received'
    BY <1>6 DEF SignalStep, TagOpen, InsertRow, LogClose, FindOpenRow, CompareClose,
                UpdateClose, SaveFails, Broadcast
  <2> QED  BY <1>1, <2>2, <2>3, TagKept
<1>7. ASSUME \/ RegistryNext /\ UNCHANGED relayVars
             \/ \E s \in Sockets, u \in Tickets : ExecutionAck(s, u)
             \/ \E a \in Slaves \X Tickets : HandleAck(a)
             \/ UNCHANGED vars
      PROVE  TagOK(t)'
  <2>1. UNCHANGED <<signal, received>>
    BY <1>7 DEF relayVars, vars, ExecutionAck, HandleAck, AckFindRow, AckCompare, AckUpdate,
                AckFails
  <2> QED  BY <1>1, <2>1, TagKept
<1>8. ASSUME SignalStep(Open(t)) PROVE TagOK(t)'
  <2>1. \A u \in Tickets : (Open(t) = Open(u) => u = t) /\ Open(t) # Close(u)
    BY DEF Open, Close
  <2>2. \/ TagOpen(t) \/ InsertRow(t) \/ SaveFails(Open(t)) \/ Broadcast(Open(t))
    BY <1>8, <2>1 DEF SignalStep
  <2> QED  BY <1>3, <1>4, <1>5, <2>2
<1> QED  BY <1>2, <1>6, <1>7, <1>8 DEF Next

\* Whoever a row is booked on received the signal or lost a socket: for any number of
\* nodes and sockets per user, with registrations cut short, changing subscriptions and
\* failing queries.
THEOREM RelayTaggedIsReached == Spec => []TaggedIsReached
<1> DEFINE Inv == RegistryInv /\ RelayInv /\ \A t \in Tickets : TagOK(t)
<1>1. Init => Inv
  <2> SUFFICES ASSUME Init PROVE Inv  OBVIOUS
  <2>1. RegistryInv /\ RelayInv  BY RegistryInvInit, RelayInvInit DEF Init
  <2>2. \A t \in Tickets : signal[Open(t)].slaveId = None
    BY DEF Init, Idle, Open, Events
  <2> QED  BY <2>1, <2>2 DEF TagOK
<1>2. Inv /\ [Next]_vars => Inv'
  <2> SUFFICES ASSUME Inv, [Next]_vars PROVE Inv'  OBVIOUS
  <2>1. RegistryInv'  BY RelayStepsRegistry, RegistryInvStep
  <2>2. RelayInv'  BY RelayInvStep
  <2>3. \A t \in Tickets : TagOK(t)'  BY TagStep
  <2> QED  BY <2>1, <2>2, <2>3
<1>3. Inv => TaggedIsReached  BY DEF TagOK, TaggedIsReached
<1> HIDE DEF Inv
<1> QED  BY <1>1, <1>2, <1>3, PTL DEF Spec

=============================================================================
