--------------------------- MODULE UserAccounts ---------------------------
(***************************************************************************)
(* The accounts on the server: auth.service.ts and the photos on its disk  *)
(* (avatar-storage.util.ts).  A handler loads a row, waits, and saves the  *)
(* entity it holds: every column of it that differs from the row is        *)
(* written, the ones another handler has changed meanwhile included.       *)
(* One master with a profile, a photo and a license; one copier with a     *)
(* subscription; an administrator; calls of theirs that overlap.  The      *)
(* pages that make the calls are in AccountPages.                          *)
(***************************************************************************)
EXTENDS Naturals, FiniteSets

CONSTANTS
    Calls,       \* requests at a time
    Bios, Exts,  \* texts of a profile, file types of a photo
    MaxDrawn,    \* bound: license keys and photo links that can be drawn
    Env,         \* what may go wrong: saves ("saveFails"), reads ("list", "dashboard", ...)
    None

VARIABLES
    users,       \* the rows "master" and "copier"
    files,       \* photos of the master on disk, by type
    drawn,       \* license keys and links drawn so far: random or stamped with the
                 \* time, they are taken never to repeat
    call,        \* requests: [op, arg, why, stage, copy, seen, ok, answer]
    flaws        \* (history) "stale": a save wrote back columns of a row that had
                 \* changed; "torn": a photo was written, its save failed

serverVars == <<users, files, drawn, call, flaws>>

Keys == 1 .. MaxDrawn
Links == [ext : Exts, v : Keys]      \* /uploads/avatars/<id>.<ext>?v=<time>

ASSUME AccountsAssumption == MaxDrawn \in Nat \ {0} /\ None \notin Links

Targets == {"master", "other", None}
Roles == [master |-> "MASTER", copier |-> "SLAVE", admin |-> "ADMIN"]

Row(sub, bio, avatar, key) ==
    [active |-> TRUE, license |-> key, sub |-> sub, bio |-> bio, avatar |-> avatar]

\* parseAvatarPathFromUrl: the file that a link names
Ext(avatar) == IF avatar = None THEN {} ELSE {avatar.ext}

Free == [op |-> None, arg |-> None, why |-> None, stage |-> "free",
         copy |-> None, seen |-> None, ok |-> FALSE, answer |-> None]

ServerInit ==
    /\ \E bio \in Bios, avatar \in [ext : Exts, v : {1}] \cup {None}, sub \in Targets :
        /\ users = [u \in {"master", "copier"} |->
                        IF u = "master" THEN Row(None, bio, avatar, 1)
                        ELSE Row(sub, None, None, 0)]
        /\ files = Ext(avatar)
    /\ drawn = 1
    /\ call = [c \in Calls |-> Free]
    /\ flaws = {}

----------------------------------------------------------------------------
(* A request: who sends it, which row it is about *)

At(c, stage) == call[c].stage = stage

Request(op, arg, why) ==
    [Free EXCEPT !.op = op, !.arg = arg, !.why = why,
                 !.stage = IF op = "revoke" THEN "check" ELSE "load"]

Sender(c) ==
    CASE call[c].op \in {"list", "license", "toggle"} -> "admin"
      [] call[c].op \in {"dashboard", "update", "avatar"} -> "master"
      [] OTHER -> "copier"

Target(c) ==
    CASE call[c].op \in {"license", "toggle"} -> call[c].arg
      [] call[c].op \in {"update", "avatar"} -> "master"
      [] OTHER -> "copier"

\* JwtStrategy.validate lets no disabled user in; reading a history or subscribers, and
\* what the desktop node asks for, take no session.
Admitted(c) ==
    Sender(c) \in DOMAIN users /\ call[c].op \notin {"history", "subscribers", "revoke"}
        => users[Sender(c)].active

Reply(c, ok, answer) ==
    call' = [call EXCEPT ![c].stage = "answered", ![c].ok = ok, ![c].answer = answer,
                         ![c].copy = None, ![c].seen = None]

----------------------------------------------------------------------------
(* The handlers, one action per wait *)

Reads == {"list", "dashboard", "history", "subscribers"}

ASSUME NoneAssumption ==
    None \notin Reads \cup {"verify", "license", "toggle", "subscribe", "revoke", "update", "avatar"}

\* getAllUsers, getMasterDashboard, getMasterHistory, getMasterSubscribers
ReadRows(c) ==
    /\ At(c, "load") /\ call[c].op \in Reads
    /\ \/ /\ Admitted(c)
          /\ Reply(c, TRUE, CASE call[c].op = "list" -> users
                              [] call[c].op = "dashboard" -> users["master"]
                              [] call[c].op = "subscribers" -> users["copier"].sub = "master"
                              [] OTHER -> call[c].arg)
       \/ /\ ~Admitted(c) \/ call[c].op \in Env
          /\ Reply(c, FALSE, None)
    /\ UNCHANGED <<users, files, drawn, flaws>>

\* verifyNode: the key is some master's, who is active.
VerifyNode(c) ==
    /\ At(c, "load") /\ call[c].op = "verify"
    /\ Reply(c, call[c].arg = users["master"].license /\ users["master"].active, "master")
    /\ UNCHANGED <<users, files, drawn, flaws>>

\* revokeSubscriber: the license is the master's and the master is active.
CheckLicense(c) ==
    /\ At(c, "check")
    /\ IF call[c].arg = users["master"].license /\ users["master"].active
       THEN call' = [call EXCEPT ![c].stage = "load", ![c].seen = users["master"]]
       ELSE Reply(c, FALSE, None)
    /\ UNCHANGED <<users, files, drawn, flaws>>

\* The role the handler asks for, and for a revocation, the subscription it ends
Allowed(c) ==
    /\ Admitted(c)
    /\ call[c].op = "license" => Roles[Target(c)] = "MASTER"
    /\ call[c].op = "toggle" => Roles[Target(c)] # "ADMIN"
    /\ call[c].op = "revoke" => users["copier"].sub = "master"

LoadRow(c) ==
    /\ At(c, "load") /\ call[c].op \notin Reads \cup {"verify"}
    /\ IF Allowed(c)
       THEN call' = [call EXCEPT ![c].stage = IF call[c].op = "avatar" THEN "write" ELSE "save",
                                 ![c].copy = users[Target(c)]]
       ELSE Reply(c, FALSE, None)
    /\ UNCHANGED <<users, files, drawn, flaws>>

\* Mutant: the former file stays.
WriteAvatarFileKeeps(c) ==
    /\ At(c, "write")
    /\ files' = files \cup {call[c].arg}
    /\ call' = [call EXCEPT ![c].stage = "save"]
    /\ UNCHANGED <<users, drawn, flaws>>

\* uploadMasterAvatar, between its queries: the new file is written, the former one,
\* of another type, deleted.
WriteAvatarFile(c) ==
    /\ At(c, "write")
    /\ files' = (files \ Ext(call[c].copy.avatar)) \cup {call[c].arg}
    /\ call' = [call EXCEPT ![c].stage = "save"]
    /\ UNCHANGED <<users, drawn, flaws>>

\* Mutant: saving a profile does not carry the photo over.
EntityWithoutPhoto(c) ==
    LET row == call[c].copy
        arg == call[c].arg
    IN  CASE call[c].op = "license" -> [row EXCEPT !.license = drawn + 1]
          [] call[c].op = "toggle" -> [row EXCEPT !.active = ~@]
          [] call[c].op = "subscribe" -> [row EXCEPT !.sub = arg]
          [] call[c].op = "revoke" -> [row EXCEPT !.sub = None]
          [] call[c].op = "update" -> [row EXCEPT !.bio = arg, !.avatar = None]
          [] call[c].op = "avatar" -> [row EXCEPT !.avatar = [ext |-> arg, v |-> drawn + 1]]

\* The entity as the handler changed it
Entity(c) ==
    LET row == call[c].copy
        arg == call[c].arg
    IN  CASE call[c].op = "license" -> [row EXCEPT !.license = drawn + 1]
          [] call[c].op = "toggle" -> [row EXCEPT !.active = ~@]
          [] call[c].op = "subscribe" -> [row EXCEPT !.sub = arg]
          [] call[c].op = "revoke" -> [row EXCEPT !.sub = None]
          [] call[c].op = "update" -> [row EXCEPT !.bio = arg]
          [] call[c].op = "avatar" -> [row EXCEPT !.avatar = [ext |-> arg, v |-> drawn + 1]]

Stale(c) ==
    \/ users[Target(c)] # call[c].copy
    \/ call[c].op = "revoke" /\ users["master"] # call[c].seen

SaveEntity(c) ==
    /\ At(c, "save")
    /\ users' = [users EXCEPT ![Target(c)] = Entity(c)]
    /\ drawn' = IF call[c].op \in {"license", "avatar"} THEN drawn + 1 ELSE drawn
    /\ drawn' <= MaxDrawn
    /\ flaws' = IF Stale(c) THEN flaws \cup {"stale"} ELSE flaws
    /\ Reply(c, TRUE, Entity(c))
    /\ UNCHANGED files

SaveFails(c) ==
    /\ "saveFails" \in Env
    /\ At(c, "save")
    /\ flaws' = IF call[c].op = "avatar" THEN flaws \cup {"torn"} ELSE flaws
    /\ Reply(c, FALSE, None)
    /\ UNCHANGED <<users, files, drawn>>

Serve(c) ==
    \/ ReadRows(c) \/ VerifyNode(c) \/ CheckLicense(c) \/ LoadRow(c) \/ WriteAvatarFile(c)
    \/ SaveEntity(c) \/ SaveFails(c)

----------------------------------------------------------------------------
(* Properties *)

Ledger == INSTANCE AccountLedger WITH
    Bios <- Bios, Links <- Links, Keys <- Keys, Targets <- Targets, None <- None, users <- users

\* Every change of the rows is one operation on one column, as AccountLedger has it,
\* unless a save wrote back a row that had changed since it was loaded: a kill switch
\* thrown during a revocation gives the copier its subscription back, a profile saved
\* during an upload takes the photo away.
LedgerStep == [][Ledger!Next \/ "stale" \in flaws']_users

Uploading == \E c \in Calls : call[c].op = "avatar" /\ call[c].stage = "save"

\* The photo a profile names is on the disk, and no other: unless a save was stale, or
\* failed after its file was written.
AvatarServed == ~Uploading /\ flaws = {} => files = Ext(users["master"].avatar)

============================================================================
