---------------------------- MODULE NodeRegistry ----------------------------
(***************************************************************************)
(* The backend's registry of connected nodes (TradeGateway): which sockets *)
(* belong to which user, which masters are live, and the online flags that *)
(* a master's subscriber panel shows.  The flags are kept by the master's  *)
(* desktop node, which knows of its copiers what the gateway tells the     *)
(* room while the node is in it.                                           *)
(*                                                                         *)
(* A socket registers once, right after its connection.  The handler waits *)
(* for the database once for a master and twice for a slave; an action is  *)
(* the code between two waits.  One user may have several sockets: a new   *)
(* one connects before the loss of the old one is noticed, and a slave's   *)
(* web dashboard registers as that slave beside the desktop node.          *)
(*                                                                         *)
(* A connected socket with an entry is in its master's Socket.IO room, and *)
(* a master's carries its user: both are set in one step with the entry,   *)
(* so neither is a variable of its own.                                    *)
(***************************************************************************)

CONSTANTS
    Sockets,   \* bound: the connections ever made
    Masters, Slaves,
    NodeOf,    \* the user whose node or dashboard a socket belongs to
    Windows,   \* the masters whose desktop window is followed
    Env,       \* what networks, users and the database may do
    None

EnvKinds == {"overlap",    \* a user has a second socket while one is connected
             "hasty",      \* a socket disconnects while its registration waits
             "subscribe",  \* slaves change their subscription
             "relaunch",   \* a master's desktop program is ended and started anew
             "disorder",   \* a node handles two events about a slave in the other order
             "refuse"}     \* the user is not found, or the database fails

ASSUME NodesAssumption == NodeOf \in [Sockets -> Masters \cup Slaves]
ASSUME WindowsAssumption == Windows \subseteq Masters
ASSUME UsersAssumption == Masters \cap Slaves = {} /\ None \notin Masters \cup Slaves
ASSUME EnvAssumption == Env \subseteq EnvKinds

VARIABLES
    socket,                    \* "new", "connected" or "gone" (external)
    registration,              \* one run of handleRegisterNode per socket
    connectedClients,          \* socket -> subscribedMasterId of its entry; None: no entry
    connectedMasters,
    subscribedToId,            \* Users.subscribedToId, per slave
    subscriber_online_status,  \* the slaves a master's window shows as online
    updates,                   \* subscriber_update events sent to a master's node, and
                               \* whether each is the last one sent about its slave
    unheard,                   \* history: <<master, slave>> pairs whose window has not
                               \* handled the last event about the slave, or not as the last
    raced,                     \* history: sockets gone before their registration ended
    outlived                   \* history: sockets with a user that lost another socket
                               \* registered in the same room

windowVars == <<subscriber_online_status, updates, unheard>>
registryVars == <<socket, registration, connectedClients, connectedMasters,
                  subscribedToId, windowVars, raced, outlived>>

Registration == [pc : {"idle", "findUser", "findSlaveId", "done"},
                 subscribedMasterId : Masters \cup {None}]

TypeOK ==
    /\ socket \in [Sockets -> {"new", "connected", "gone"}]
    /\ registration \in [Sockets -> Registration]
    /\ connectedClients \in [Sockets -> Masters \cup {None}]
    /\ connectedMasters \subseteq Masters
    /\ subscribedToId \in [Slaves -> Masters \cup {None}]
    /\ subscriber_online_status \in [Masters -> SUBSET Slaves]
    /\ updates \subseteq [socket : Sockets, master : Masters, online : BOOLEAN, last : BOOLEAN]
    /\ unheard \subseteq Masters \X Slaves
    /\ raced \subseteq Sockets
    /\ outlived \subseteq Sockets

RegistryInit ==
    /\ socket = [s \in Sockets |-> "new"]
    /\ registration = [s \in Sockets |-> [pc |-> "idle", subscribedMasterId |-> None]]
    /\ connectedClients = [s \in Sockets |-> None]
    /\ connectedMasters = {}
    /\ subscribedToId \in [Slaves -> Masters \cup {None}]
    /\ subscriber_online_status = [m \in Masters |-> {}]
    /\ updates = {} /\ unheard = {}
    /\ raced = {} /\ outlived = {}

At(s, step) == registration[s].pc = step
Connected(s) == socket[s] = "connected"
Waiting(s) == registration[s].pc \in {"findUser", "findSlaveId"}

\* The sockets in room_master_m.
InRoom(m) == {s \in Sockets : Connected(s) /\ connectedClients[s] = m}

\* server.to(room).emit('subscriber_update'): sent to the master's node if that node
\* is in the room now.
Tell(s, m, online) ==
    LET about(d) == d.master = m /\ NodeOf[d.socket] = NodeOf[s]
        earlier == {[d EXCEPT !.last = @ /\ ~about(d)] : d \in updates}
        update == [socket |-> s, master |-> m, online |-> online, last |-> TRUE]
        heard == \E r \in InRoom(m) : NodeOf[r] = m
    IN IF m \in Windows
       THEN /\ updates' = earlier \cup (IF heard THEN {update} ELSE {})
            /\ unheard' = unheard \cup {<<m, NodeOf[s]>>}
            /\ UNCHANGED subscriber_online_status
       ELSE UNCHANGED windowVars

----------------------------------------------------------------------------
(* Connection and registration *)

Connect(s) ==
    /\ socket[s] = "new"
    /\ "overlap" \in Env \/ \A r \in Sockets : NodeOf[r] = NodeOf[s] => ~Connected(r)
    /\ socket' = [socket EXCEPT ![s] = "connected"]
    /\ UNCHANGED <<registration, connectedClients, connectedMasters, subscribedToId,
                   windowVars, raced, outlived>>

RegisterNode(s) ==
    /\ Connected(s) /\ At(s, "idle")
    /\ registration' = [registration EXCEPT ![s].pc = "findUser"]
    /\ UNCHANGED <<socket, connectedClients, connectedMasters, subscribedToId,
                   windowVars, raced, outlived>>

\* A master with an unknown license gets no reply; a failing query throws.
RegisterFails(s) ==
    /\ "refuse" \in Env /\ Waiting(s)
    /\ registration' = [registration EXCEPT ![s].pc = "done"]
    /\ UNCHANGED <<socket, connectedClients, connectedMasters, subscribedToId,
                   windowVars, raced, outlived>>

\* The handler goes on when the socket is gone by now.
RegisterMaster(s) ==
    /\ At(s, "findUser") /\ NodeOf[s] \in Masters
    /\ connectedClients' = [connectedClients EXCEPT ![s] = NodeOf[s]]
    /\ connectedMasters' = connectedMasters \cup {NodeOf[s]}
    /\ registration' = [registration EXCEPT ![s].pc = "done"]
    /\ UNCHANGED <<socket, subscribedToId, windowVars, raced, outlived>>

\* The subscription is read here; without one the room assignment fails.
FindSlave(s) ==
    /\ At(s, "findUser") /\ NodeOf[s] \in Slaves
    /\ LET m == subscribedToId[NodeOf[s]]
       IN registration' = [registration EXCEPT ![s] =
              [pc |-> IF m = None THEN "done" ELSE "findSlaveId", subscribedMasterId |-> m]]
    /\ UNCHANGED <<socket, connectedClients, connectedMasters, subscribedToId,
                   windowVars, raced, outlived>>

\* Mutant: the room that is told is looked up again after the wait.
RegisterSlaveRereads(s) ==
    /\ At(s, "findSlaveId")
    /\ connectedClients' =
           [connectedClients EXCEPT ![s] = registration[s].subscribedMasterId]
    /\ LET m == subscribedToId[NodeOf[s]]
       IN IF m = None THEN UNCHANGED windowVars ELSE Tell(s, m, TRUE)
    /\ registration' = [registration EXCEPT ![s].pc = "done"]
    /\ UNCHANGED <<socket, connectedMasters, subscribedToId, raced, outlived>>

RegisterSlave(s) ==
    /\ At(s, "findSlaveId")
    /\ LET m == registration[s].subscribedMasterId
       IN /\ connectedClients' = [connectedClients EXCEPT ![s] = m]
          /\ Tell(s, m, TRUE)
    /\ registration' = [registration EXCEPT ![s].pc = "done"]
    /\ UNCHANGED <<socket, connectedMasters, subscribedToId, raced, outlived>>

\* A socket is lost; the other sockets of its user in the same room outlive it.
Gone(s) ==
    LET others == {r \in Sockets \ {s} : /\ NodeOf[r] = NodeOf[s]
                                         /\ connectedClients[r] = connectedClients[s]}
    IN /\ Connected(s)
       /\ "hasty" \in Env \/ ~Waiting(s)
       /\ socket' = [socket EXCEPT ![s] = "gone"]
       /\ raced' = IF Waiting(s) THEN raced \cup {s} ELSE raced
       /\ outlived' = IF connectedClients[s] = None THEN outlived ELSE outlived \cup others
       /\ UNCHANGED <<registration, subscribedToId>>

\* What was sent to a master's node over a connection that is lost may not arrive.
LoseUpdates(m) ==
    /\ \E lost \in SUBSET {d \in updates : d.master = m} : updates' = updates \ lost
    /\ UNCHANGED <<subscriber_online_status, unheard>>

\* Mutant: the entry is deleted only for slaves, whose room must be told.
DisconnectKeepsMaster(s) ==
    LET m == connectedClients[s]
        u == NodeOf[s]
    IN /\ Gone(s)
       /\ connectedMasters' = IF u \in Masters THEN connectedMasters \ {m} ELSE connectedMasters
       /\ connectedClients' = IF u \in Slaves THEN [connectedClients EXCEPT ![s] = None]
                              ELSE connectedClients
       /\ CASE u \in Masters -> LoseUpdates(u)
            [] u \in Slaves /\ m # None -> Tell(s, m, FALSE)
            [] OTHER -> UNCHANGED windowVars

\* Mutant: the live master and the room are left as they are.
DisconnectTellsNobody(s) ==
    /\ Gone(s)
    /\ connectedClients' = [connectedClients EXCEPT ![s] = None]
    /\ UNCHANGED <<connectedMasters, windowVars>>

\* handleDisconnect undoes what the socket's own registration did.
Disconnect(s) ==
    LET m == connectedClients[s]
        u == NodeOf[s]
    IN /\ Gone(s)
       /\ connectedMasters' = IF u \in Masters THEN connectedMasters \ {m} ELSE connectedMasters
       /\ connectedClients' = [connectedClients EXCEPT ![s] = None]
       /\ CASE u \in Masters -> LoseUpdates(u)
            [] u \in Slaves /\ m # None -> Tell(s, m, FALSE)
            [] OTHER -> UNCHANGED windowVars

----------------------------------------------------------------------------
(* The master's desktop window (MasterController) *)

\* on_subscriber_update: the client runs every event in a thread of its own, so that
\* the last one may be handled before an earlier one.
OnSubscriberUpdate(d) ==
    LET u == NodeOf[d.socket]
    IN /\ d.last /\ "disorder" \notin Env =>
             \A e \in updates \ {d} : e.master = d.master => NodeOf[e.socket] # u
       /\ updates' = updates \ {d}
       /\ subscriber_online_status' = [subscriber_online_status EXCEPT ![d.master] =
              IF d.online THEN @ \cup {u} ELSE @ \ {u}]
       /\ unheard' = IF d.last THEN unheard \ {<<d.master, u>>}
                     ELSE unheard \cup {<<d.master, u>>}
       /\ UNCHANGED <<socket, registration, connectedClients, connectedMasters,
                      subscribedToId, raced, outlived>>

\* A new MasterController knows of no copier, whatever the one before it had heard.
Relaunch(m) ==
    /\ "relaunch" \in Env
    /\ \A s \in Sockets : NodeOf[s] = m => ~Connected(s)
    /\ updates' = {d \in updates : d.master # m}
    /\ unheard' = unheard \cup ({m} \X subscriber_online_status[m])
    /\ subscriber_online_status' = [subscriber_online_status EXCEPT ![m] = {}]
    /\ UNCHANGED <<socket, registration, connectedClients, connectedMasters,
                   subscribedToId, raced, outlived>>

----------------------------------------------------------------------------
(* AuthService.updateSubscription: the gateway is not told *)

UpdateSubscription(u, m) ==
    /\ "subscribe" \in Env
    /\ subscribedToId[u] # m
    /\ subscribedToId' = [subscribedToId EXCEPT ![u] = m]
    /\ UNCHANGED <<socket, registration, connectedClients, connectedMasters,
                   windowVars, raced, outlived>>

RegistryNext ==
    \/ \E d \in updates : OnSubscriberUpdate(d)
    \/ \E s \in Sockets : \/ Connect(s) \/ RegisterNode(s) \/ RegisterFails(s)
                          \/ RegisterMaster(s) \/ FindSlave(s) \/ RegisterSlave(s)
                          \/ Disconnect(s)
    \/ \E u \in Slaves, m \in Masters \cup {None} : UpdateSubscription(u, m)
    \/ \E m \in Windows : Relaunch(m)

RegistrySpec == RegistryInit /\ [][RegistryNext]_registryVars

----------------------------------------------------------------------------
(* Properties *)

\* handleDisconnect is the only place that deletes an entry, and it runs once per
\* socket: every entry belongs to a connected socket, except those a registration
\* made after its socket was gone.  These stay for good.
GhostsAreRaced ==
    \A s \in Sockets : connectedClients[s] # None => Connected(s) \/ s \in raced

\* The live set and the flags of a window are kept apart from the entries and agree
\* with them: a master listed as live has an entry of its own, and a slave shown
\* online has one in that master's room, once the window has handled the last event
\* about it as the last.  (An event sent while the node is not in the room is not
\* sent again, and one may be lost with the connection or handled too late.)
ShownHasEntry ==
    /\ \A m \in connectedMasters : \E s \in Sockets : NodeOf[s] = m /\ connectedClients[s] = m
    /\ \A m \in Masters : \A u \in subscriber_online_status[m] :
          <<m, u>> \in unheard \/ \E s \in Sockets : NodeOf[s] = u /\ connectedClients[s] = m

\* The converse: a master with a registered socket is listed as live (the LIVE badge
\* of the marketplace), and a slave with one is shown online to a master who has heard
\* the last event about it; in both cases unless the user had a second socket in the
\* same room and lost it.
LiveIsListed == \A s \in Sockets : \A m \in Masters :
    s \in InRoom(m) /\ NodeOf[s] = m => m \in connectedMasters \/ s \in outlived

OnlineIsShown == \A s \in Sockets : \A m \in Windows :
    s \in InRoom(m) /\ NodeOf[s] \in Slaves =>
        \/ NodeOf[s] \in subscriber_online_status[m]
        \/ <<m, NodeOf[s]>> \in unheard
        \/ s \in outlived

RegisteredIsShown == LiveIsListed /\ OnlineIsShown

============================================================================
