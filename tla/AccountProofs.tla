--------------------------- MODULE AccountProofs ---------------------------
(***************************************************************************)
(* Proofs about the accounts with their pages: for any number of calls,    *)
(* texts, photos and draws, every change of a row is one operation of      *)
(* AccountLedger, and the photo on the disk is the one the profile names,  *)
(* except as the model says.  The invariant follows a call from the click  *)
(* to its save.                                                            *)
(***************************************************************************)
EXTENDS CopierPages, TLAPS

Persons == {"master", "copier"}

AccountRow(u) ==
    [active : BOOLEAN, license : Keys \cup {0}, sub : Targets,
     bio : IF u = "master" THEN Bios ELSE {None},
     avatar : IF u = "master" THEN Links \cup {None} ELSE {None}]
Copies == AccountRow("master") \cup AccountRow("copier") \cup {None}

Writes == {"license", "toggle", "subscribe", "revoke", "update", "avatar"}
Args == Persons \cup Targets \cup Bios \cup Exts \cup Keys
Answers == Copies \cup BOOLEAN \cup Args \cup [Persons -> Copies]

Whys == {None, "admin", "retry", "after", "load", "save", "photo", "left", "copier", "copy", "desk"}

CallSet ==
    [op : Writes \cup Reads \cup {"verify", None}, arg : Args,
     why : Whys,
     stage : {"free", "check", "load", "write", "save", "answered"},
     copy : Copies, seen : Copies, ok : BOOLEAN, answer : Answers]

\* What the pages ask for
RequestOK(op, arg) ==
    \/ op \in {"license", "toggle"} /\ arg \in Persons
    \/ op = "subscribe" /\ arg \in Targets
    \/ op = "update" /\ arg \in Bios
    \/ op = "avatar" /\ arg \in Exts
    \/ op \in Reads \cup {"verify", "revoke"} /\ arg \in Args

TargetOf(h) == IF h.op \in {"license", "toggle"} THEN h.arg
               ELSE IF h.op \in {"update", "avatar"} THEN "master" ELSE "copier"

\* A call that gets to its save has passed the checks of its operation.
CallOK(h) ==
    /\ h \in CallSet
    /\ h.stage \in {"check", "load", "write", "save"} => RequestOK(h.op, h.arg)
    /\ h.stage = "check" => h.op = "revoke"
    /\ h.stage = "load" /\ h.op = "revoke" => h.seen.active
    /\ h.stage = "write" => h.op = "avatar"
    /\ h.stage \in {"write", "save"} =>
        /\ h.op \in Writes /\ TargetOf(h) \in Persons /\ h.copy \in AccountRow(TargetOf(h))
        /\ h.op = "license" => h.arg = "master"
        /\ h.op = "revoke" => h.seen.active /\ h.copy.sub = "master"
    /\ h.stage = "answered" /\ h.ok =>
        /\ h.op = "dashboard" => h.answer \in AccountRow("master")
        /\ h.op = "subscribe" => h.answer \in AccountRow("copier")

RowsOK ==
    /\ DOMAIN users = Persons /\ users = [u \in Persons |-> users[u]]
    /\ \A u \in Persons : users[u] \in AccountRow(u)
    /\ drawn \in Keys

CallsOK == call \in [Calls -> CallSet] /\ \A c \in Calls : CallOK(call[c])

\* A link has been drawn when it is saved: the next one is new.
DrawnBy(avatar, n) == avatar # None => avatar.v <= n
LinksOld ==
    /\ DrawnBy(users["master"].avatar, drawn)
    /\ \A c \in Calls : call[c].stage \in {"write", "save"} => DrawnBy(call[c].copy.avatar, drawn)

Written(c) == call[c].op = "avatar" /\ call[c].stage = "save"

\* While a single upload is between its file and its save, and no other photo has been
\* saved since it was loaded, the disk holds its file.
PhotosOK ==
    flaws = {} =>
        /\ (\A c \in Calls : ~Written(c)) => files = Ext(users["master"].avatar)
        /\ \A c \in Calls :
            /\ Written(c) /\ call[c].copy.avatar = users["master"].avatar
            /\ \A d \in Calls : Written(d) => d = c
            => files = {call[c].arg}

\* The form of a profile is opened on the profile last loaded, and holds a text.
PagesOK ==
    /\ prov \in [data : AccountRow("master") \cup {None}, loading : BOOLEAN, error : BOOLEAN,
                 tab : {"overview", "profile"}, baseline : Bios \cup {None},
                 form : Bios \cup {None}, mine : SUBSET Calls]
    /\ prov.tab = "profile" => prov.form \in Bios
    /\ desk \in [key : Args, listed : Answers]
    /\ cop \in [page : Providers \cup {"dashboard", "away"}, cur : Targets, history : Answers,
                loading : BOOLEAN, market : {"list", "insights", "shown", "failed"},
                masters : SUBSET Providers, trending : SUBSET Providers]

AccountInv == RowsOK /\ CallsOK /\ LinksOld /\ PhotosOK /\ PagesOK

LEMMA FreeOK == CallOK(Free)
<1>1. Free \in CallSet  BY DEF Free, CallSet, Copies, Answers, Args, Targets, Whys
<1> QED  BY <1>1 DEF Free, CallOK

LEMMA RequestIsOK ==
  ASSUME NEW op, NEW arg, NEW why, RequestOK(op, arg),
         why \in Whys
  PROVE  /\ CallOK(Request(op, arg, why))
         /\ Request(op, arg, why).stage \notin {"write", "save"}
<1> DEFINE stage == IF op = "revoke" THEN "check" ELSE "load"
<1>1. Request(op, arg, why) = [Free EXCEPT !.op = op, !.arg = arg, !.why = why, !.stage = stage]
  BY DEF Request
<1>2. stage \in {"check", "load"} /\ (stage = "check" => op = "revoke")
      /\ (stage = "load" => op # "revoke")
  OBVIOUS
<1> HIDE DEF stage
<1>3. [Free EXCEPT !.op = op, !.arg = arg, !.why = why, !.stage = stage] \in
          [op : {op}, arg : {arg}, why : {why}, stage : {stage},
           copy : {None}, seen : {None}, ok : BOOLEAN, answer : {None}]
  BY DEF Free
<1>4. op \in Writes \cup Reads \cup {"verify", None} /\ arg \in Args
  BY DEF RequestOK, Writes, Args
<1>5. None \in Copies /\ None \in Answers  BY DEF Copies, Answers
<1>6. Request(op, arg, why) \in CallSet  BY <1>1, <1>2, <1>3, <1>4, <1>5 DEF CallSet
<1> QED  BY <1>1, <1>2, <1>3, <1>6 DEF CallOK

LEMMA AccountInit == Init => AccountInv
<1> SUFFICES ASSUME Init PROVE AccountInv  OBVIOUS
<1>1. PICK bio \in Bios, avatar \in [ext : Exts, v : {1}] \cup {None}, sub \in Targets :
        /\ users = [u \in Persons |-> IF u = "master" THEN Row(None, bio, avatar, 1)
                                      ELSE Row(sub, None, None, 0)]
        /\ files = Ext(avatar)
  BY DEF Init, PanelsInit, ServerInit, Persons
<1>2. 1 \in Keys /\ None \in Targets /\ avatar \in Links \cup {None}
  BY AccountsAssumption DEF Keys, Targets, Links
<1>3. /\ users["master"] = Row(None, bio, avatar, 1) /\ users["copier"] = Row(sub, None, None, 0)
      /\ users["master"] \in AccountRow("master") /\ users["copier"] \in AccountRow("copier")
      /\ users["master"].avatar = avatar
  BY <1>1, <1>2 DEF Row, AccountRow, Persons
<1>4. RowsOK  BY <1>1, <1>2, <1>3 DEF RowsOK, Init, PanelsInit, ServerInit, Persons
<1>5. CallsOK
  <2>1. call = [c \in Calls |-> Free]  BY DEF Init, PanelsInit, ServerInit
  <2>2. Free \in CallSet  BY FreeOK DEF CallOK
  <2> QED  BY <2>1, <2>2, FreeOK DEF CallsOK
<1>6. LinksOld
  <2>1. DrawnBy(avatar, drawn)  BY AccountsAssumption DEF DrawnBy, Init, PanelsInit, ServerInit, Links, Keys
  <2>2. \A c \in Calls : call[c].stage = "free"  BY DEF Init, PanelsInit, ServerInit, Free
  <2> QED  BY <1>3, <2>1, <2>2 DEF LinksOld
<1>7. PhotosOK
  <2>1. \A c \in Calls : ~Written(c)  BY DEF Init, PanelsInit, ServerInit, Free, Written
  <2> QED  BY <1>1, <1>3, <2>1 DEF PhotosOK
<1>8. PagesOK
  <2>1. prov = [data |-> users["master"], loading |-> FALSE, error |-> FALSE, tab |-> "overview",
                baseline |-> None, form |-> None, mine |-> {}]
        /\ desk = [key |-> 1, listed |-> users["copier"].sub = "master"]
    BY DEF Init, PanelsInit
  <2>2. cop = [page |-> "away", cur |-> users["copier"].sub, history |-> None, loading |-> FALSE,
               market |-> "list", masters |-> {}, trending |-> {}]
    BY DEF Init, Dashboard
  <2>3. None \in Answers /\ 1 \in Args /\ users["copier"].sub \in Targets
        /\ (users["copier"].sub = "master") \in Answers
    BY <1>2, <1>3 DEF Answers, Copies, Args, AccountRow
  <2> QED  BY <1>3, <2>1, <2>2, <2>3 DEF PagesOK
<1> QED  BY <1>4, <1>5, <1>6, <1>7, <1>8 DEF AccountInv

----------------------------------------------------------------------------
(* The server *)

\* A step that changes no row and no call that is about to be saved
CallsKept ==
    /\ UNCHANGED <<users, files, drawn, flaws>>
    /\ CallsOK'
    /\ \A d \in Calls : {call[d].stage, call'[d].stage} \cap {"write", "save"} # {} =>
            /\ call'[d].stage = call[d].stage /\ call'[d].op = call[d].op
            /\ call'[d].arg = call[d].arg /\ call'[d].copy = call[d].copy

ServerOK == RowsOK /\ CallsOK /\ LinksOld /\ PhotosOK

LEMMA KeptIsOK ==
  ASSUME ServerOK, CallsKept
  PROVE  ServerOK'
<1>1. RowsOK'  BY DEF ServerOK, CallsKept, RowsOK
<1>2. LinksOld'  BY DEF ServerOK, CallsKept, LinksOld, DrawnBy
<1>3. PhotosOK'
  <2>1. \A d \in Calls : /\ Written(d)' <=> Written(d)
                         /\ Written(d) => /\ call'[d].arg = call[d].arg
                                          /\ call'[d].copy = call[d].copy
    BY DEF CallsKept, Written
  <2>2. UNCHANGED <<users, files, flaws>>  BY DEF CallsKept
  <2> QED  BY <2>1, <2>2 DEF ServerOK, PhotosOK, Ext
<1> QED  BY <1>1, <1>2, <1>3 DEF ServerOK, CallsKept

\* Replying ends a call, whatever it was.
LEMMA ReplyOK ==
  ASSUME CallsOK, NEW c \in Calls, NEW ok \in BOOLEAN, NEW answer \in Answers,
         Reply(c, ok, answer),
         ok => /\ call[c].op = "dashboard" => answer \in AccountRow("master")
               /\ call[c].op = "subscribe" => answer \in AccountRow("copier")
  PROVE  /\ CallsOK' /\ call'[c].stage = "answered"
         /\ \A d \in Calls : d # c => call'[d] = call[d]
<1>1. call[c] \in CallSet /\ None \in Copies  BY DEF CallsOK, Copies
<1>2. /\ call'[c] \in CallSet /\ call'[c].stage = "answered" /\ call'[c].op = call[c].op
      /\ call'[c].ok = ok /\ call'[c].answer = answer
  BY <1>1 DEF Reply, CallsOK, CallSet
<1>3. \A d \in Calls : d # c => call'[d] = call[d]  BY DEF Reply, CallsOK
<1>4. call' \in [Calls -> CallSet]
  <2>1. DOMAIN call' = Calls /\ call' = [d \in Calls |-> call'[d]]  BY DEF Reply, CallsOK
  <2> QED  BY <1>2, <1>3, <2>1 DEF CallsOK
<1>5. CallOK(call'[c])  BY <1>2 DEF CallOK
<1> QED  BY <1>2, <1>3, <1>4, <1>5 DEF CallsOK

LEMMA ReadsKeep ==
  ASSUME ServerOK, NEW c \in Calls, ReadRows(c) \/ VerifyNode(c)
  PROVE  ServerOK'
<1>0. /\ CallsOK /\ call[c].stage = "load" /\ UNCHANGED <<users, files, drawn, flaws>>
  BY DEF ServerOK, ReadRows, VerifyNode, At
<1>1. PICK ok \in BOOLEAN, answer \in Answers :
          /\ Reply(c, ok, answer)
          /\ ok => /\ call[c].op = "dashboard" => answer \in AccountRow("master")
                   /\ call[c].op = "subscribe" => answer \in AccountRow("copier")
  <2>1. /\ users \in Answers /\ users["master"] \in AccountRow("master")
        /\ users["master"] \in Answers /\ None \in Answers
        /\ (users["copier"].sub = "master") \in Answers /\ call[c].arg \in Answers
        /\ "master" \in Answers
    <3>1. /\ users = [u \in Persons |-> users[u]]
          /\ users["master"] \in AccountRow("master") /\ users["copier"] \in AccountRow("copier")
      BY DEF ServerOK, RowsOK, Persons
    <3>2. users \in [Persons -> Copies]  BY <3>1 DEF Persons, Copies
    <3>3. call[c].arg \in Args  BY <1>0 DEF CallsOK, CallSet
    <3> QED  BY <3>1, <3>2, <3>3 DEF Answers, Copies, Args, Persons
  <2>2. CASE ReadRows(c)
    <3>1. call[c].op \in {"list", "dashboard", "history", "subscribers"}
      BY <2>2 DEF ReadRows, Reads
    <3>2. \/ Reply(c, FALSE, None)
          \/ call[c].op = "list" /\ Reply(c, TRUE, users)
          \/ call[c].op = "dashboard" /\ Reply(c, TRUE, users["master"])
          \/ call[c].op = "subscribers" /\ Reply(c, TRUE, users["copier"].sub = "master")
          \/ call[c].op = "history" /\ Reply(c, TRUE, call[c].arg)
      BY <2>2, <3>1 DEF ReadRows
    <3> QED  BY <2>1, <3>2
  <2>3. CASE VerifyNode(c)
    <3>1. /\ call[c].op = "verify"
          /\ Reply(c, call[c].arg = users["master"].license /\ users["master"].active, "master")
      BY <2>3 DEF VerifyNode
    <3>2. (call[c].arg = users["master"].license /\ users["master"].active) \in BOOLEAN
      OBVIOUS
    <3> QED  BY <2>1, <3>1, <3>2
  <2> QED  BY <2>2, <2>3
<1>2. CallsKept
  <2>1. /\ CallsOK' /\ call'[c].stage = "answered"
        /\ \A d \in Calls : d # c => call'[d] = call[d]
    BY <1>0, <1>1, ReplyOK
  <2> QED  BY <1>0, <2>1 DEF CallsKept
<1> QED  BY <1>2, KeptIsOK

LEMMA CheckKeeps ==
  ASSUME ServerOK, NEW c \in Calls, CheckLicense(c)
  PROVE  ServerOK'
<1>0. /\ CallsOK /\ RowsOK /\ call[c] \in CallSet /\ call[c].stage = "check"
      /\ call[c].op = "revoke" /\ RequestOK(call[c].op, call[c].arg)
      /\ UNCHANGED <<users, files, drawn, flaws>>
  BY DEF ServerOK, CallsOK, CallOK, CheckLicense, At
<1>1. CASE Reply(c, FALSE, None)
  <2>1. FALSE \in BOOLEAN /\ None \in Answers  BY DEF Answers, Copies
  <2>2. /\ CallsOK' /\ call'[c].stage = "answered"
        /\ \A d \in Calls : d # c => call'[d] = call[d]
    BY <1>0, <1>1, <2>1, ReplyOK
  <2>3. CallsKept  BY <1>0, <2>2 DEF CallsKept
  <2> QED  BY <2>3, KeptIsOK
<1>2. CASE ~Reply(c, FALSE, None)
  <2>1. /\ call' = [call EXCEPT ![c].stage = "load", ![c].seen = users["master"]]
        /\ users["master"].active /\ users["master"] \in Copies
    BY <1>0, <1>2 DEF CheckLicense, RowsOK, Persons, Copies
  <2>2. /\ call'[c] \in CallSet /\ call'[c].stage = "load" /\ call'[c].op = "revoke"
        /\ call'[c].arg = call[c].arg /\ call'[c].seen = users["master"]
        /\ \A d \in Calls : d # c => call'[d] = call[d]
    BY <1>0, <2>1 DEF CallsOK, CallSet
  <2>3. CallOK(call'[c])  BY <1>0, <2>1, <2>2 DEF CallOK
  <2>4. call' \in [Calls -> CallSet]
    <3>1. DOMAIN call' = Calls /\ call' = [d \in Calls |-> call'[d]]  BY <1>0, <2>1 DEF CallsOK
    <3> QED  BY <1>0, <2>2, <3>1 DEF CallsOK
  <2>5. CallsKept  BY <1>0, <2>2, <2>3, <2>4 DEF CallsKept, CallsOK
  <2> QED  BY <2>5, KeptIsOK
<1> QED  BY <1>1, <1>2

\* A row is loaded for a write: the links in it have been drawn.
LEMMA LoadKeeps ==
  ASSUME ServerOK, NEW c \in Calls, LoadRow(c)
  PROVE  ServerOK'
<1>0. /\ CallsOK /\ RowsOK /\ LinksOld /\ PhotosOK /\ call[c] \in CallSet
      /\ call[c].stage = "load" /\ call[c].op \notin Reads \cup {"verify"}
      /\ RequestOK(call[c].op, call[c].arg)
      /\ call[c].op = "revoke" => call[c].seen.active
      /\ UNCHANGED <<users, files, drawn, flaws>>
  BY DEF ServerOK, CallsOK, CallOK, LoadRow, At
<1>1. CASE Reply(c, FALSE, None)
  <2>1. FALSE \in BOOLEAN /\ None \in Answers  BY DEF Answers, Copies
  <2>2. /\ CallsOK' /\ call'[c].stage = "answered"
        /\ \A d \in Calls : d # c => call'[d] = call[d]
    BY <1>0, <1>1, <2>1, ReplyOK
  <2>3. CallsKept  BY <1>0, <2>2 DEF CallsKept
  <2> QED  BY <2>3, KeptIsOK
<1>2. CASE ~Reply(c, FALSE, None)
  <2>1. /\ call' = [call EXCEPT ![c].stage = IF call[c].op = "avatar" THEN "write" ELSE "save",
                                ![c].copy = users[Target(c)]]
        /\ Allowed(c)
    BY <1>2 DEF LoadRow
  <2>2. call[c].op \in Writes  BY <1>0 DEF RequestOK, Writes
  <2>3. /\ Target(c) = TargetOf(call[c]) /\ TargetOf(call[c]) \in Persons
        /\ call[c].op = "license" => call[c].arg = "master"
    <3>1. Target(c) = TargetOf(call[c])  BY <2>2 DEF Target, TargetOf, Writes
    <3>2. TargetOf(call[c]) \in Persons  BY <1>0, <2>2 DEF RequestOK, TargetOf, Persons, Writes
    <3>3. ASSUME call[c].op = "license" PROVE call[c].arg = "master"
      BY <1>0, <2>1, <3>3 DEF Allowed, Target, Roles, RequestOK, Persons
    <3> QED  BY <3>1, <3>2, <3>3
  <2>4. /\ users[Target(c)] \in AccountRow(Target(c)) /\ users[Target(c)] \in Copies
        /\ DrawnBy(users[Target(c)].avatar, drawn)
    BY <1>0, <2>3 DEF RowsOK, LinksOld, Copies, Persons, AccountRow, DrawnBy
  <2>5. /\ call'[c] \in CallSet
        /\ call'[c].stage = IF call[c].op = "avatar" THEN "write" ELSE "save"
        /\ call'[c].op = call[c].op /\ call'[c].arg = call[c].arg
        /\ call'[c].seen = call[c].seen /\ call'[c].copy = users[Target(c)]
        /\ \A d \in Calls : d # c => call'[d] = call[d]
    BY <1>0, <2>1, <2>4 DEF CallsOK, CallSet
  <2>6. CallOK(call'[c])
    <3>1. TargetOf(call'[c]) = TargetOf(call[c])  BY <2>5 DEF TargetOf
    <3>2. call[c].op = "revoke" => users[Target(c)].sub = "master"
      BY <2>1 DEF Allowed, Target
    <3> QED  BY <1>0, <2>2, <2>3, <2>4, <2>5, <3>1, <3>2 DEF CallOK
  <2>7. call' \in [Calls -> CallSet]
    <3>1. DOMAIN call' = Calls /\ call' = [d \in Calls |-> call'[d]]  BY <1>0, <2>1 DEF CallsOK
    <3> QED  BY <1>0, <2>5, <3>1 DEF CallsOK
  <2>8. CallsOK'  BY <1>0, <2>5, <2>6, <2>7 DEF CallsOK
  <2>9. LinksOld'  BY <1>0, <2>4, <2>5 DEF LinksOld, DrawnBy
  <2>10. PhotosOK'
    <3>1. \A d \in Calls : /\ Written(d)' <=> Written(d)
                           /\ Written(d) => call'[d] = call[d]
      BY <1>0, <2>5 DEF Written
    <3> QED  BY <1>0, <3>1 DEF PhotosOK, Ext
  <2> QED  BY <1>0, <2>8, <2>9, <2>10 DEF ServerOK, RowsOK
<1> QED  BY <1>1, <1>2

\* The file of an upload is written: alone between file and save, and on the photo as
\* it is, the upload leaves its file and no other.
LEMMA WriteKeeps ==
  ASSUME ServerOK, NEW c \in Calls, WriteAvatarFile(c)
  PROVE  ServerOK'
<1>0. /\ CallsOK /\ RowsOK /\ LinksOld /\ PhotosOK /\ call[c] \in CallSet
      /\ call[c].stage = "write" /\ call[c].op = "avatar" /\ CallOK(call[c])
      /\ call' = [call EXCEPT ![c].stage = "save"]
      /\ files' = (files \ Ext(call[c].copy.avatar)) \cup {call[c].arg}
      /\ UNCHANGED <<users, drawn, flaws>>
  BY DEF ServerOK, CallsOK, CallOK, WriteAvatarFile, At
<1>1. /\ call'[c] \in CallSet /\ call'[c].stage = "save" /\ call'[c].op = "avatar"
      /\ call'[c].arg = call[c].arg /\ call'[c].copy = call[c].copy
      /\ \A d \in Calls : d # c => call'[d] = call[d]
  BY <1>0 DEF CallsOK, CallSet
<1>2. CallOK(call'[c])  BY <1>0, <1>1 DEF CallOK, TargetOf
<1>3. CallsOK'
  <2>1. DOMAIN call' = Calls /\ call' = [d \in Calls |-> call'[d]]  BY <1>0 DEF CallsOK
  <2> QED  BY <1>0, <1>1, <1>2, <2>1 DEF CallsOK
<1>4. LinksOld'  BY <1>0, <1>1 DEF LinksOld, DrawnBy
<1>5. PhotosOK'
  <2> SUFFICES ASSUME flaws = {}, NEW d \in Calls, Written(d)',
                      call'[d].copy.avatar = users["master"].avatar,
                      \A e \in Calls : Written(e)' => e = d
               PROVE  files' = {call'[d].arg}
    <3>1. Written(c)'  BY <1>1 DEF Written
    <3> QED  BY <1>0, <3>1 DEF PhotosOK, Written
  <2>1. d = c  BY <1>1 DEF Written
  <2>2. \A e \in Calls : ~Written(e)  BY <1>0, <1>1, <2>1 DEF Written
  <2>3. files = Ext(users["master"].avatar)  BY <1>0, <2>2 DEF PhotosOK
  <2> QED  BY <1>0, <1>1, <2>1, <2>3
<1> QED  BY <1>0, <1>3, <1>4, <1>5 DEF ServerOK, RowsOK

\* The entity that is saved is a row of its person.
LEMMA EntityIsRow ==
  ASSUME ServerOK, NEW c \in Calls, SaveEntity(c)
  PROVE  /\ Target(c) = TargetOf(call[c]) /\ Target(c) \in Persons
         /\ Entity(c) \in AccountRow(Target(c))
         /\ drawn' \in Keys /\ drawn <= drawn'
         /\ call[c].op = "avatar" =>
                /\ Target(c) = "master" /\ drawn' = drawn + 1
                /\ Entity(c).avatar = [ext |-> call[c].arg, v |-> drawn + 1]
         /\ call[c].op # "avatar" => Entity(c).avatar = call[c].copy.avatar
<1>0. /\ call[c].stage = "save" /\ call[c].op \in Writes /\ drawn \in Keys
      /\ call[c].copy \in AccountRow(TargetOf(call[c])) /\ TargetOf(call[c]) \in Persons
      /\ RequestOK(call[c].op, call[c].arg)
      /\ call[c].op = "license" => call[c].arg = "master"
      /\ drawn' = IF call[c].op \in {"license", "avatar"} THEN drawn + 1 ELSE drawn
      /\ drawn' <= MaxDrawn
  BY DEF ServerOK, CallsOK, CallOK, RowsOK, SaveEntity, At
<1>1. Target(c) = TargetOf(call[c])  BY <1>0 DEF Target, TargetOf, Writes
<1>2. drawn' \in Keys /\ drawn <= drawn'  BY <1>0, AccountsAssumption DEF Keys
<1> DEFINE row == call[c].copy
<1>3. CASE call[c].op = "license"
  <2>1. Entity(c) = [row EXCEPT !.license = drawn + 1] /\ Target(c) = "master"
    BY <1>0, <1>1, <1>3 DEF Entity, TargetOf
  <2> QED  BY <1>0, <1>1, <1>2, <1>3, <2>1 DEF AccountRow, Persons
<1>4. CASE call[c].op = "toggle"
  <2>1. Entity(c) = [row EXCEPT !.active = ~@]  BY <1>4 DEF Entity
  <2> QED  BY <1>0, <1>1, <1>2, <1>4, <2>1 DEF AccountRow
<1>5. CASE call[c].op = "subscribe"
  <2>1. Entity(c) = [row EXCEPT !.sub = call[c].arg] /\ call[c].arg \in Targets
    BY <1>0, <1>5 DEF Entity, RequestOK, Reads
  <2> QED  BY <1>0, <1>1, <1>2, <1>5, <2>1 DEF AccountRow
<1>6. CASE call[c].op = "revoke"
  <2>1. Entity(c) = [row EXCEPT !.sub = None] /\ None \in Targets
    BY <1>6 DEF Entity, Targets
  <2> QED  BY <1>0, <1>1, <1>2, <1>6, <2>1 DEF AccountRow
<1>7. CASE call[c].op = "update"
  <2>1. Entity(c) = [row EXCEPT !.bio = call[c].arg] /\ call[c].arg \in Bios
        /\ Target(c) = "master"
    BY <1>0, <1>1, <1>7 DEF Entity, RequestOK, Reads, TargetOf
  <2> QED  BY <1>0, <1>1, <1>2, <1>7, <2>1 DEF AccountRow
<1>8. CASE call[c].op = "avatar"
  <2>1. Entity(c) = [row EXCEPT !.avatar = [ext |-> call[c].arg, v |-> drawn + 1]]
        /\ call[c].arg \in Exts /\ Target(c) = "master" /\ drawn' = drawn + 1
    BY <1>0, <1>1, <1>8 DEF Entity, RequestOK, Reads, TargetOf
  <2>2. [ext |-> call[c].arg, v |-> drawn + 1] \in Links  BY <1>2, <2>1 DEF Links
  <2> QED  BY <1>0, <1>1, <1>2, <1>8, <2>1, <2>2 DEF AccountRow
<1> QED  BY <1>0, <1>3, <1>4, <1>5, <1>6, <1>7, <1>8 DEF Writes

\* A save of an entity that is as its row was: one operation of the ledger
LEMMA SaveIsOperation ==
  ASSUME ServerOK, NEW c \in Calls, SaveEntity(c), ~Stale(c)
  PROVE  Ledger!Next
<1>0. /\ call[c].stage = "save" /\ call[c].op \in Writes /\ drawn \in Keys
      /\ TargetOf(call[c]) \in Persons /\ RequestOK(call[c].op, call[c].arg)
      /\ call[c].op = "license" => call[c].arg = "master"
      /\ call[c].op = "revoke" => call[c].seen.active /\ call[c].copy.sub = "master"
      /\ users' = [users EXCEPT ![Target(c)] = Entity(c)] /\ DOMAIN users = Persons
      /\ users[Target(c)] = call[c].copy
      /\ call[c].op = "revoke" => users["master"] = call[c].seen
  BY DEF ServerOK, CallsOK, CallOK, RowsOK, SaveEntity, At, Stale
<1>1. Target(c) = TargetOf(call[c]) /\ drawn' \in Keys  BY EntityIsRow
<1>2. CASE call[c].op = "license"
  <2>1. /\ Target(c) = "master" /\ Entity(c) = [users["master"] EXCEPT !.license = drawn + 1]
        /\ drawn + 1 \in Keys
    BY <1>0, <1>1, <1>2 DEF Entity, TargetOf, SaveEntity
  <2>2. Ledger!GenerateLicense(drawn + 1)  BY <1>0, <2>1 DEF Ledger!GenerateLicense
  <2> QED  BY <2>1, <2>2 DEF Ledger!Next
<1>3. CASE call[c].op = "toggle"
  <2>1. Target(c) \in Persons /\ Entity(c) = [users[Target(c)] EXCEPT !.active = ~@]
    BY <1>0, <1>1, <1>3 DEF Entity
  <2>2. Ledger!ToggleStatus(Target(c))  BY <1>0, <2>1 DEF Ledger!ToggleStatus
  <2> QED  BY <2>1, <2>2 DEF Ledger!Next, Persons
<1>4. CASE call[c].op = "subscribe"
  <2>1. /\ Target(c) = "copier" /\ Entity(c) = [users["copier"] EXCEPT !.sub = call[c].arg]
        /\ call[c].arg \in Targets
    BY <1>0, <1>1, <1>4 DEF Entity, TargetOf, RequestOK, Reads
  <2>2. Ledger!UpdateSubscription(call[c].arg)  BY <1>0, <2>1 DEF Ledger!UpdateSubscription
  <2> QED  BY <2>1, <2>2 DEF Ledger!Next
<1>5. CASE call[c].op = "revoke"
  <2>1. /\ Target(c) = "copier" /\ Entity(c) = [users["copier"] EXCEPT !.sub = None]
        /\ users["master"].active /\ users["copier"].sub = "master"
    BY <1>0, <1>1, <1>5 DEF Entity, TargetOf
  <2>2. Ledger!RevokeSubscriber  BY <1>0, <2>1 DEF Ledger!RevokeSubscriber
  <2> QED  BY <2>2 DEF Ledger!Next
<1>6. CASE call[c].op = "update"
  <2>1. /\ Target(c) = "master" /\ Entity(c) = [users["master"] EXCEPT !.bio = call[c].arg]
        /\ call[c].arg \in Bios
    BY <1>0, <1>1, <1>6 DEF Entity, TargetOf, RequestOK, Reads
  <2>2. Ledger!UpdateProfile(call[c].arg)  BY <1>0, <2>1 DEF Ledger!UpdateProfile
  <2> QED  BY <2>1, <2>2 DEF Ledger!Next
<1>7. CASE call[c].op = "avatar"
  <2> DEFINE l == [ext |-> call[c].arg, v |-> drawn + 1]
  <2>1. /\ Target(c) = "master" /\ Entity(c) = [users["master"] EXCEPT !.avatar = l]
        /\ l \in Links
    <3>1. call[c].arg \in Exts /\ drawn' = drawn + 1
      BY <1>0, <1>7, EntityIsRow DEF RequestOK, Reads
    <3> QED  BY <1>0, <1>1, <1>7, <3>1 DEF Entity, TargetOf, Links
  <2> HIDE DEF l
  <2>2. Ledger!UploadAvatar(l)  BY <1>0, <2>1 DEF Ledger!UploadAvatar
  <2> QED  BY <2>1, <2>2 DEF Ledger!Next
<1> QED  BY <1>0, <1>2, <1>3, <1>4, <1>5, <1>6, <1>7 DEF Writes

LEMMA SaveKeeps ==
  ASSUME ServerOK, NEW c \in Calls, SaveEntity(c)
  PROVE  ServerOK'
<1>0. PICK row :
      /\ row = Entity(c)
      /\ CallsOK /\ RowsOK /\ LinksOld /\ PhotosOK /\ call[c] \in CallSet
      /\ call[c].stage = "save" /\ call[c].copy \in AccountRow(TargetOf(call[c]))
      /\ users' = [users EXCEPT ![Target(c)] = row]
      /\ flaws' = (IF Stale(c) THEN flaws \cup {"stale"} ELSE flaws)
      /\ Reply(c, TRUE, row) /\ UNCHANGED files
  BY DEF ServerOK, CallsOK, CallOK, SaveEntity, At
<1>1. /\ Target(c) = TargetOf(call[c]) /\ Target(c) \in Persons
      /\ row \in AccountRow(Target(c))
      /\ drawn' \in Keys /\ drawn <= drawn'
      /\ call[c].op = "avatar" =>
             /\ Target(c) = "master" /\ drawn' = drawn + 1
             /\ row.avatar = [ext |-> call[c].arg, v |-> drawn + 1]
      /\ call[c].op # "avatar" => row.avatar = call[c].copy.avatar
  BY <1>0, EntityIsRow
<1>2. /\ users'[Target(c)] = row
      /\ \A u \in Persons : u # Target(c) => users'[u] = users[u]
  BY <1>0, <1>1 DEF RowsOK
<1>3. RowsOK'
  <2>1. DOMAIN users' = Persons /\ users' = [u \in Persons |-> users'[u]]
    BY <1>0 DEF RowsOK
  <2> QED  BY <1>0, <1>1, <1>2, <2>1 DEF RowsOK
<1>4. /\ CallsOK' /\ call'[c].stage = "answered"
      /\ \A d \in Calls : d # c => call'[d] = call[d]
  <2>1. /\ TRUE \in BOOLEAN /\ row \in Answers
        /\ call[c].op = "dashboard" => row \in AccountRow("master")
        /\ call[c].op = "subscribe" => row \in AccountRow("copier")
    <3>1. call[c].op \in Writes  BY <1>0 DEF CallsOK, CallOK
    <3>2. call[c].op # "dashboard"  BY <3>1 DEF Writes
    <3> QED  BY <1>1, <3>2 DEF Answers, Copies, Persons, TargetOf
  <2> QED  BY <1>0, <2>1, ReplyOK
<1>5. /\ drawn \in Nat /\ drawn' \in Nat
      /\ \A l \in Links \cup {None} : DrawnBy(l, drawn) => DrawnBy(l, drawn')
      /\ DrawnBy(row.avatar, drawn')
  <2>1. drawn \in Nat /\ drawn' \in Nat  BY <1>0, <1>1 DEF RowsOK, Keys
  <2>2. ASSUME NEW l \in Links, l.v <= drawn PROVE l.v <= drawn'
    BY <1>1, <2>1, <2>2 DEF Links, Keys
  <2>3. \A l \in Links \cup {None} : DrawnBy(l, drawn) => DrawnBy(l, drawn')  BY <2>2 DEF DrawnBy
  <2>4. ASSUME call[c].op = "avatar" PROVE DrawnBy(row.avatar, drawn')
    <3>1. row.avatar.v = drawn' /\ drawn' <= drawn'  BY <1>1, <2>1, <2>4
    <3> QED  BY <3>1 DEF DrawnBy
  <2>5. ASSUME call[c].op # "avatar" PROVE DrawnBy(row.avatar, drawn')
    <3>1. DrawnBy(call[c].copy.avatar, drawn)  BY <1>0 DEF LinksOld
    <3>2. call[c].copy.avatar \in Links \cup {None}  BY <1>0 DEF AccountRow
    <3>3. DrawnBy(call[c].copy.avatar, drawn')  BY <2>2, <3>1, <3>2 DEF DrawnBy
    <3>4. row.avatar = call[c].copy.avatar  BY <1>1, <2>5
    <3> QED  BY <3>3, <3>4
  <2> QED  BY <2>1, <2>3, <2>4, <2>5
<1>6. users'["master"] \in AccountRow("master") /\ users'["master"].avatar \in Links \cup {None}
  BY <1>3 DEF RowsOK, Persons, AccountRow
<1>7. LinksOld'
  <2>1. DrawnBy(users'["master"].avatar, drawn')
    <3>1. CASE Target(c) = "master"
      BY <1>2, <1>5, <3>1 DEF DrawnBy
    <3>2. CASE Target(c) # "master"
      <4>1. users'["master"] = users["master"]  BY <1>2, <3>2 DEF Persons
      <4>2. DrawnBy(users["master"].avatar, drawn)  BY <1>0 DEF LinksOld
      <4> QED  BY <1>5, <1>6, <4>1, <4>2 DEF DrawnBy
    <3> QED  BY <3>1, <3>2
  <2>2. ASSUME NEW d \in Calls, call'[d].stage \in {"write", "save"}
        PROVE  DrawnBy(call'[d].copy.avatar, drawn')
    <3>1. d # c /\ call'[d] = call[d]  BY <1>4, <2>2
    <3>2. DrawnBy(call[d].copy.avatar, drawn) /\ call[d].copy.avatar \in Links \cup {None}
      <4>1. call[d].copy \in AccountRow(TargetOf(call[d])) /\ DrawnBy(call[d].copy.avatar, drawn)
        BY <1>0, <2>2, <3>1 DEF CallsOK, CallOK, LinksOld
      <4> QED  BY <4>1 DEF AccountRow
    <3> QED  BY <1>5, <3>1, <3>2 DEF DrawnBy
  <2> QED  BY <2>1, <2>2 DEF LinksOld, DrawnBy
<1>8. PhotosOK'
  <2> SUFFICES ASSUME flaws' = {}
               PROVE  /\ (\A d \in Calls : ~Written(d)') => files = Ext(users'["master"].avatar)
                      /\ \A d \in Calls :
                          /\ Written(d)' /\ call'[d].copy.avatar = users'["master"].avatar
                          /\ \A e \in Calls : Written(e)' => e = d
                          => files = {call'[d].arg}
    BY <1>0 DEF PhotosOK, Ext
  <2>0. flaws = {} /\ ~Stale(c) /\ users[Target(c)] = call[c].copy
    BY <1>0 DEF Stale
  <2>1. /\ ~Written(c)'
        /\ \A d \in Calls : d # c => (Written(d)' <=> Written(d)) /\ call'[d] = call[d]
    BY <1>4 DEF Written
  <2>2. CASE call[c].op = "avatar"
    <3>1. /\ Written(c) /\ Target(c) = "master"
          /\ call[c].copy.avatar = users["master"].avatar
          /\ users'["master"].avatar = [ext |-> call[c].arg, v |-> drawn + 1]
      BY <1>0, <1>1, <1>2, <2>0, <2>2 DEF Written
    <3>2. users'["master"].avatar # None  
      <4>1. row.avatar \in Links
        <5>1. call[c].arg \in Exts /\ drawn + 1 \in Keys
          BY <1>0, <1>1, <2>2 DEF CallsOK, CallOK, RequestOK, Reads
        <5> QED  BY <1>1, <2>2, <5>1 DEF Links
      <4> QED  BY <1>2, <3>1, <4>1, AccountsAssumption
    <3>3. ASSUME \A d \in Calls : ~Written(d)'
          PROVE  files = Ext(users'["master"].avatar)
      <4>1. \A d \in Calls : Written(d) => d = c  BY <2>1, <3>3
      <4>2. files = {call[c].arg}  BY <1>0, <2>0, <3>1, <4>1 DEF PhotosOK
      <4> QED  BY <3>1, <3>2, <4>2 DEF Ext
    <3>4. ASSUME NEW d \in Calls, Written(d)'
          PROVE  call'[d].copy.avatar # users'["master"].avatar
      <4>1. d # c /\ call'[d] = call[d] /\ Written(d)  BY <2>1, <3>4
      <4>2. DrawnBy(call[d].copy.avatar, drawn)  BY <1>0, <4>1 DEF LinksOld, Written
      <4>3. ~([ext |-> call[c].arg, v |-> drawn + 1].v <= drawn)  BY <1>5
      <4> QED  BY <3>1, <3>2, <4>1, <4>2, <4>3 DEF DrawnBy
    <3> QED  BY <3>3, <3>4
  <2>3. CASE call[c].op # "avatar"
    <3>1. users'["master"].avatar = users["master"].avatar
      <4>1. CASE Target(c) = "master"  BY <1>1, <1>2, <2>0, <2>3, <4>1
      <4>2. CASE Target(c) # "master"  BY <1>2, <4>2 DEF Persons
      <4> QED  BY <4>1, <4>2
    <3>2. ~Written(c)  BY <2>3 DEF Written
    <3> QED  BY <1>0, <2>0, <2>1, <3>1, <3>2 DEF PhotosOK, Ext
  <2> QED  BY <2>2, <2>3
<1> QED  BY <1>3, <1>4, <1>7, <1>8 DEF ServerOK

\* A save that fails after its photo was written is a flaw from then on.
LEMMA FailKeeps ==
  ASSUME ServerOK, NEW c \in Calls, SaveFails(c)
  PROVE  ServerOK'
<1>0. /\ CallsOK /\ RowsOK /\ LinksOld /\ PhotosOK /\ call[c].stage = "save"
      /\ flaws' = (IF call[c].op = "avatar" THEN flaws \cup {"torn"} ELSE flaws)
      /\ Reply(c, FALSE, None) /\ UNCHANGED <<users, files, drawn>>
  BY DEF ServerOK, SaveFails, At
<1>1. FALSE \in BOOLEAN /\ None \in Answers  BY DEF Answers, Copies
<1>2. /\ CallsOK' /\ call'[c].stage = "answered"
      /\ \A d \in Calls : d # c => call'[d] = call[d]
  BY <1>0, <1>1, ReplyOK
<1>3. LinksOld'  BY <1>0, <1>2 DEF LinksOld, DrawnBy
<1>4. PhotosOK'
  <2>1. CASE call[c].op = "avatar"
    BY <1>0, <2>1 DEF PhotosOK
  <2>2. CASE call[c].op # "avatar"
    <3>1. \A d \in Calls : /\ Written(d)' <=> Written(d)
                           /\ Written(d) => call'[d] = call[d]
      BY <1>0, <1>2, <2>2 DEF Written
    <3> QED  BY <1>0, <2>2, <3>1 DEF PhotosOK, Ext
  <2> QED  BY <2>1, <2>2
<1> QED  BY <1>0, <1>2, <1>3, <1>4 DEF ServerOK, RowsOK

LEMMA ServeKeeps ==
  ASSUME ServerOK, NEW c \in Calls, Serve(c)
  PROVE  ServerOK'
  BY ReadsKeep, CheckKeeps, LoadKeeps, WriteKeeps, SaveKeeps, FailKeeps DEF Serve
----------------------------------------------------------------------------
(* The pages send calls and take answers *)

\* A page may only take a call that is free or answered; of the others it may merely say
\* that nobody waits for them.
LEMMA PagesTake ==
  ASSUME CallsOK, UNCHANGED <<users, files, drawn, flaws>>,
         DOMAIN call' = Calls, call' = [d \in Calls |-> call'[d]],
         \A d \in Calls :
            \/ call'[d] = call[d]
            \/ call'[d] = [call[d] EXCEPT !.why = "left"]
            \/ /\ call[d].stage \in {"free", "answered"}
               /\ CallOK(call'[d]) /\ call'[d].stage \notin {"write", "save"}
  PROVE  CallsKept
<1>1. ASSUME NEW d \in Calls
      PROVE  /\ CallOK(call'[d])
             /\ {call[d].stage, call'[d].stage} \cap {"write", "save"} # {} =>
                    /\ call'[d].stage = call[d].stage /\ call'[d].op = call[d].op
                    /\ call'[d].arg = call[d].arg /\ call'[d].copy = call[d].copy
  <2>1. call[d] \in CallSet /\ CallOK(call[d])  BY DEF CallsOK
  <2>2. CASE call'[d] = call[d]  BY <2>1, <2>2
  <2>3. CASE call'[d] = [call[d] EXCEPT !.why = "left"]
    <3>1. /\ call'[d] \in CallSet
          /\ call'[d].stage = call[d].stage /\ call'[d].op = call[d].op
          /\ call'[d].arg = call[d].arg /\ call'[d].copy = call[d].copy
          /\ call'[d].seen = call[d].seen /\ call'[d].ok = call[d].ok
          /\ call'[d].answer = call[d].answer
      BY <2>1, <2>3 DEF CallSet, Whys
    <3>2. TargetOf(call'[d]) = TargetOf(call[d])  BY <3>1 DEF TargetOf
    <3> QED  BY <2>1, <3>1, <3>2 DEF CallOK
  <2>4. CASE call[d].stage \in {"free", "answered"} /\ CallOK(call'[d])
             /\ call'[d].stage \notin {"write", "save"}
    BY <2>4
  <2> QED  BY <2>2, <2>3, <2>4
<1>2. call' \in [Calls -> CallSet]
  <2>1. \A d \in Calls : call'[d] \in CallSet  BY <1>1 DEF CallOK
  <2> QED  BY <2>1
<1> QED  BY <1>1, <1>2 DEF CallsKept, CallsOK

LEMMA SendKept ==
  ASSUME CallsOK, NEW c \in Calls, call[c].stage \in {"free", "answered"},
         NEW op, NEW arg, NEW why \in Whys, RequestOK(op, arg), NEW left,
         SendIn(c, op, arg, why, left)
  PROVE  CallsKept
<1>1. /\ CallOK(Request(op, arg, why))
      /\ Request(op, arg, why).stage \notin {"write", "save"}
  BY RequestIsOK
<1>2. /\ call' = [d \in Calls |-> IF d = c THEN Request(op, arg, why)
                     ELSE IF d \in left THEN [call[d] EXCEPT !.why = "left"] ELSE call[d]]
      /\ UNCHANGED <<users, files, drawn, flaws>>
  BY DEF SendIn
<1>3. /\ DOMAIN call' = Calls /\ call' = [d \in Calls |-> call'[d]]
      /\ call'[c] = Request(op, arg, why)
      /\ \A d \in Calls : d # c =>
            call'[d] = call[d] \/ call'[d] = [call[d] EXCEPT !.why = "left"]
  BY <1>2
<1> QED  BY <1>1, <1>2, <1>3, PagesTake

LEMMA DoneKept ==
  ASSUME CallsOK, NEW c \in Calls, call[c].stage \in {"free", "answered"}, Ends(c)
  PROVE  CallsKept
<1>1. CallOK(Free) /\ Free.stage = "free"  BY FreeOK DEF Free
<1>2. /\ DOMAIN call' = Calls /\ call' = [d \in Calls |-> call'[d]]
      /\ call'[c] = Free /\ \A d \in Calls : d # c => call'[d] = call[d]
      /\ UNCHANGED <<users, files, drawn, flaws>>
  BY DEF Ends, CallsOK
<1> QED  BY <1>1, <1>2, PagesTake

LEMMA ForsakeKept ==
  ASSUME CallsOK, NEW c \in Calls, call[c].stage \in {"free", "answered"}, Forsake(c)
  PROVE  CallsKept
<1>1. CallOK(Free) /\ Free.stage = "free"  BY FreeOK DEF Free
<1>2. /\ DOMAIN call' = Calls /\ call' = [d \in Calls |-> call'[d]]
      /\ call'[c] = Free
      /\ \A d \in Calls : d # c =>
            call'[d] = call[d] \/ call'[d] = [call[d] EXCEPT !.why = "left"]
      /\ UNCHANGED <<users, files, drawn, flaws>>
  BY DEF Forsake
<1> QED  BY <1>1, <1>2, PagesTake

LEMMA LoadHistoryKept ==
  ASSUME CallsOK, NEW c \in Calls, call[c].stage \in {"free", "answered"},
         NEW sub \in Targets, LoadHistory(c, sub)
  PROVE  CallsKept
<1>1. RequestOK("history", sub) /\ "copier" \in Whys  BY DEF RequestOK, Reads, Args, Whys
<1> QED  BY <1>1, ForsakeKept, SendKept DEF LoadHistory

\* The steps of the panels, of the provider's dashboard and of the node's window
LEMMA PanelsKeep ==
  ASSUME AccountInv, NEW c \in Calls, Panels(c), UNCHANGED <<cop, detail, socket>>
  PROVE  CallsKept /\ PagesOK'
<1>0. CallsOK /\ PagesOK /\ RowsOK /\ call[c] \in CallSet /\ CallOK(call[c])
  BY DEF AccountInv, CallsOK
<1>1. \A op, arg, why : Send(c, op, arg, why) /\ RequestOK(op, arg) /\ why \in Whys
          /\ call[c].stage \in {"free", "answered"} => CallsKept
  BY <1>0, SendKept DEF Send
<1>2. call[c].stage \in {"free", "answered"} /\ (Done(c) \/ Ends(c)) => CallsKept
  BY <1>0, DoneKept DEF Done
<1>3. UNCHANGED <<prov, desk>> => PagesOK'
  BY <1>0 DEF PagesOK
<1>4. /\ \A op \in Reads : RequestOK(op, None)
      /\ \A k \in Args : RequestOK("verify", k) /\ RequestOK("revoke", k)
  BY DEF RequestOK, Args, Targets
<1>5. CASE \E u \in {"master", "copier"} : HandleGenerateLicense(c, u) \/ HandleToggleStatus(c, u)
  <2>1. PICK u \in Persons, op \in {"license", "toggle"} :
            Send(c, op, u, "admin") /\ At(c, "free") /\ UNCHANGED <<prov, desk>>
    BY <1>5 DEF HandleGenerateLicense, HandleToggleStatus, Click, Persons
  <2> QED  BY <1>1, <1>3, <2>1 DEF RequestOK, Whys, At
<1>6. CASE Retry(c)
  <2>1. Send(c, "list", None, "retry") /\ At(c, "free") /\ UNCHANGED <<prov, desk>>
    BY <1>6 DEF Retry, Click
  <2> QED  BY <1>1, <1>3, <1>4, <2>1 DEF Whys, At, Reads
<1>7. CASE AdminChanged(c)
  <2>1. (Send(c, "list", None, "after") \/ Done(c)) /\ At(c, "answered") /\ UNCHANGED <<prov, desk>>
    BY <1>7 DEF AdminChanged, Answer
  <2> QED  BY <1>1, <1>2, <1>3, <1>4, <2>1 DEF Whys, At, Reads
<1>8. CASE UsersFetched(c) \/ Unheard(c)
  <2>1. Done(c) /\ At(c, "answered") /\ UNCHANGED <<prov, desk>>
    BY <1>8 DEF UsersFetched, Unheard, Answer
  <2> QED  BY <1>2, <1>3, <2>1 DEF At
<1>9. CASE HandleSubmit(c) \/ \E e \in Exts : HandleAvatarSelect(c, e)
  <2>0. "save" \in Whys /\ "photo" \in Whys  BY DEF Whys
  <2>1. At(c, "free") /\ prov' = [prov EXCEPT !.mine = @ \cup {c}] /\ desk' = desk
    BY <1>9 DEF HandleSubmit, HandleAvatarSelect, Click
  <2>2. CallsKept
    <3>1. CASE HandleSubmit(c)
      <4>1. Send(c, "update", prov.form, "save") /\ prov.form \in Bios
        BY <1>0, <3>1 DEF HandleSubmit, Click, FormShown, PagesOK
      <4>2. RequestOK("update", prov.form)  BY <4>1 DEF RequestOK
      <4> QED  BY <1>1, <2>0, <2>1, <4>1, <4>2 DEF At
    <3>2. CASE \E e \in Exts : HandleAvatarSelect(c, e)
      <4>1. PICK e \in Exts : Send(c, "avatar", e, "photo")
        BY <3>2 DEF HandleAvatarSelect, Click
      <4>2. RequestOK("avatar", e)  BY DEF RequestOK
      <4> QED  BY <1>1, <2>0, <2>1, <4>1, <4>2 DEF At
    <3> QED  BY <1>9, <3>1, <3>2
  <2>3. PagesOK'  BY <1>0, <2>1 DEF PagesOK
  <2> QED  BY <2>2, <2>3
<1>10. CASE ProfileSaved(c)
  <2>1. CASE call[c].ok
    <3>1. Send(c, "dashboard", None, call[c].why) /\ UNCHANGED <<prov, desk>> /\ At(c, "answered")
      BY <1>10, <2>1 DEF ProfileSaved, Answer
    <3>2. call[c].why \in Whys  BY <1>0 DEF CallSet
    <3> QED  BY <1>1, <1>3, <1>4, <3>1, <3>2 DEF At, Reads
  <2>2. CASE ~call[c].ok
    <3>1. Done(c) /\ prov' = [prov EXCEPT !.mine = @ \ {c}] /\ desk' = desk /\ At(c, "answered")
      BY <1>10, <2>2 DEF ProfileSaved, Answer
    <3>2. PagesOK'  BY <1>0, <3>1 DEF PagesOK
    <3> QED  BY <1>2, <3>1, <3>2 DEF At
  <2> QED  BY <2>1, <2>2
<1>11. CASE DashboardLoaded(c)
  <2>1. Done(c) /\ At(c, "answered") /\ call[c].op = "dashboard" /\ desk' = desk
    BY <1>11 DEF DashboardLoaded, Answer
  <2>2. PICK data \in AccountRow("master") \cup {None} :
            prov' = [prov EXCEPT !.data = data, !.error = ~call[c].ok, !.loading = FALSE,
                                 !.tab = "overview", !.baseline = None, !.form = None, !.mine = {}]
    <3>1. call[c].ok => call[c].answer \in AccountRow("master")
      BY <1>0, <2>1 DEF CallOK, At
    <3>2. prov.data \in AccountRow("master") \cup {None}  BY <1>0 DEF PagesOK
    <3>3. DEFINE data == IF call[c].ok THEN call[c].answer ELSE prov.data
    <3>4. data \in AccountRow("master") \cup {None}  BY <3>1, <3>2
    <3>5. prov' = [prov EXCEPT !.data = data, !.error = ~call[c].ok, !.loading = FALSE,
                               !.tab = "overview", !.baseline = None, !.form = None, !.mine = {}]
      BY <1>0, <1>11 DEF DashboardLoaded, PagesOK
    <3> QED  BY <3>4, <3>5
  <2>3. PagesOK'  BY <1>0, <2>1, <2>2 DEF PagesOK, CallSet
  <2> QED  BY <1>2, <2>1, <2>3 DEF At
<1>12. CASE Revisit(c)
  <2>1. CallsKept
    <3>1. /\ CallOK(Request("dashboard", None, "load"))
          /\ Request("dashboard", None, "load").stage \notin {"write", "save"}
      BY <1>4, RequestIsOK DEF Reads, Whys
    <3>2. /\ DOMAIN call' = Calls /\ call' = [d \in Calls |-> call'[d]]
          /\ call'[c] = Request("dashboard", None, "load") /\ call[c].stage = "free"
          /\ \A d \in Calls : d # c =>
                call'[d] = call[d] \/ call'[d] = [call[d] EXCEPT !.why = "left"]
          /\ UNCHANGED <<users, files, drawn, flaws>>
      BY <1>12 DEF Revisit, At
    <3> QED  BY <1>0, <3>1, <3>2, PagesTake
  <2>2. PagesOK'
    <3>1. /\ desk' = desk
          /\ prov' = [data |-> None, loading |-> TRUE, error |-> FALSE, tab |-> "overview",
                      baseline |-> None, form |-> None, mine |-> {}]
      BY <1>12 DEF Revisit
    <3> QED  BY <1>0, <3>1 DEF PagesOK
  <2> QED  BY <2>1, <2>2
<1>13. CASE \/ \E k \in 1 .. drawn : LoginMt5(c, k)
            \/ RefreshSubscribers(c) \/ RevokeSubscriber(c)
  <2>1. PICK op, arg : /\ Send(c, op, arg, "desk") /\ RequestOK(op, arg) /\ At(c, "free")
                       /\ prov' = prov
    <3>1. ASSUME NEW k \in 1 .. drawn, LoginMt5(c, k)
          PROVE  /\ Send(c, "verify", k, "desk") /\ RequestOK("verify", k) /\ At(c, "free")
                 /\ prov' = prov
      <4>1. k \in Args  BY <1>0, AccountsAssumption DEF Args, Keys, RowsOK
      <4> QED  BY <1>4, <3>1, <4>1 DEF LoginMt5, DeskClick, Click
    <3>2. CASE RefreshSubscribers(c)
      BY <1>4, <3>2 DEF RefreshSubscribers, DeskClick, Click, Reads
    <3>3. CASE RevokeSubscriber(c)
      BY <1>0, <1>4, <3>3 DEF RevokeSubscriber, DeskClick, Click, PagesOK
    <3> QED  BY <1>13, <3>1, <3>2, <3>3
  <2>2. desk' \in {desk, [key |-> None, listed |-> FALSE]}
    BY <1>13 DEF LoginMt5, RefreshSubscribers, RevokeSubscriber
  <2>3. PagesOK'
    <3>1. None \in Args /\ FALSE \in Answers  BY DEF Args, Answers, Targets
    <3>2. cop' = cop /\ prov' = prov  BY <2>1
    <3>3. desk' \in [key : Args, listed : Answers]
      <4>1. desk \in [key : Args, listed : Answers]  BY <1>0 DEF PagesOK
      <4>2. [key |-> None, listed |-> FALSE] \in [key : Args, listed : Answers]  BY <3>1
      <4> QED  BY <2>2, <4>1, <4>2
    <3> QED  BY <1>0, <3>2, <3>3 DEF PagesOK
  <2>4. "desk" \in Whys  BY DEF Whys
  <2> QED  BY <1>1, <2>1, <2>3, <2>4 DEF At
<1>14. CASE DeskAnswered(c)
  <2>1. Send(c, "subscribers", None, "desk") \/ Done(c)
    BY <1>14 DEF DeskAnswered
  <2>2. At(c, "answered") /\ desk' \in {desk, [desk EXCEPT !.key = call[c].arg]} /\ prov' = prov
    BY <1>14 DEF DeskAnswered, Answer
  <2>3. PagesOK'  BY <1>0, <2>2 DEF PagesOK, CallSet
  <2> QED  BY <1>1, <1>2, <1>4, <2>1, <2>2, <2>3 DEF At, Reads, Whys
<1>15. CASE SubscribersFetched(c)
  <2>1. Ends(c) /\ At(c, "answered") /\ prov' = prov
        /\ desk' = [desk EXCEPT !.listed = IF call[c].ok THEN call[c].answer ELSE @]
    BY <1>15 DEF SubscribersFetched, Answer
  <2>2. PagesOK'  BY <1>0, <2>1 DEF PagesOK, CallSet
  <2> QED  BY <1>2, <2>1, <2>2 DEF At
<1>16. ASSUME NEW d \in Calls, DeskGivesUp(c, d)
       PROVE  CallsKept /\ PagesOK'
  <2>1. /\ SendIn(d, "subscribers", None, "desk", {c}) /\ call[d].stage = "free"
        /\ UNCHANGED <<prov, desk>>
    BY <1>16 DEF DeskGivesUp, At
  <2> QED  BY <1>0, <1>3, <1>4, <2>1, SendKept DEF Reads, Whys
<1> QED
  BY <1>5, <1>6, <1>7, <1>8, <1>9, <1>10, <1>11, <1>12, <1>13, <1>14, <1>15, <1>16 DEF Panels

\* The steps of the copier's pages
LEMMA CopiersKeep ==
  ASSUME AccountInv, NEW c \in Calls, Copiers(c)
  PROVE  CallsKept /\ PagesOK'
<1>0. CallsOK /\ PagesOK /\ RowsOK /\ call[c] \in CallSet /\ CallOK(call[c])
      /\ cop.cur \in Targets
  BY DEF AccountInv, CallsOK, PagesOK
<1>1. ASSUME NEW sub \in Targets, NEW page \in Providers \cup {"dashboard"},
             cop' = [Dashboard(sub) EXCEPT !.page = page, !.loading = FALSE]
                 \/ cop' = Dashboard(sub) \/ cop' = cop \/ cop' = [cop EXCEPT !.cur = sub]
                 \/ \E h \in Answers, b \in BOOLEAN :
                        cop' = [cop EXCEPT !.cur = sub, !.history = h, !.loading = b],
             UNCHANGED <<prov, desk>>
      PROVE  PagesOK'
  <2>1. Dashboard(sub) \in [page : {"dashboard"}, cur : Targets, history : Answers,
                            loading : BOOLEAN, market : {"list"}, masters : SUBSET Providers,
                            trending : SUBSET Providers]
    BY DEF Dashboard, Answers, Copies
  <2> DEFINE Cop == [page : Providers \cup {"dashboard", "away"}, cur : Targets,
                     history : Answers, loading : BOOLEAN,
                     market : {"list", "insights", "shown", "failed"},
                     masters : SUBSET Providers, trending : SUBSET Providers]
  <2>3. cop \in Cop  BY <1>0 DEF PagesOK
  <2>4. Dashboard(sub) \in Cop  BY <2>1
  <2>5. [Dashboard(sub) EXCEPT !.page = page, !.loading = FALSE] \in Cop  BY <2>4
  <2>6. [cop EXCEPT !.cur = sub] \in Cop  BY <2>3
  <2>7. ASSUME NEW h \in Answers, NEW b \in BOOLEAN
        PROVE  [cop EXCEPT !.cur = sub, !.history = h, !.loading = b] \in Cop
    BY <2>3
  <2>2. cop' \in Cop
    <3> HIDE DEF Cop
    <3> QED  BY <1>1, <2>3, <2>4, <2>5, <2>6, <2>7
  <2> QED  BY <1>0, <1>1, <2>2 DEF PagesOK
<1>2. CASE OpenDashboard(c)
  <2>1. /\ cop' = Dashboard(cop.cur) /\ UNCHANGED <<prov, desk>> /\ call[c].stage = "free"
        /\ LoadHistory(c, cop.cur)
    BY <1>2 DEF OpenDashboard, Mount, Visit, At
  <2>2. PagesOK'  BY <1>0, <1>1, <2>1
  <2> QED  BY <1>0, <2>1, <2>2, LoadHistoryKept
<1>3. CASE \E p \in Providers : OpenProvider(c, p)
  <2>1. PICK p \in Providers : OpenProvider(c, p)  BY <1>3
  <2>2. /\ cop' = [Dashboard(cop.cur) EXCEPT !.page = p, !.loading = FALSE]
        /\ UNCHANGED <<prov, desk>> /\ call[c].stage = "free" /\ Forsake(c)
    BY <2>1 DEF OpenProvider, Visit, At
  <2>3. PagesOK'  BY <1>0, <1>1, <2>2
  <2> QED  BY <1>0, <2>2, <2>3, ForsakeKept
<1>4. CASE HandleCopyProvider(c) \/ \E t \in Targets : HandleSubscribe(c, t)
  <2>1. PICK t \in Targets, why \in Whys : Send(c, "subscribe", t, why)
    <3>0. "copy" \in Whys /\ "copier" \in Whys  BY DEF Whys
    <3>1. CASE HandleCopyProvider(c)
      <4>1. cop.page \in Targets /\ Send(c, "subscribe", cop.page, "copy")
        BY <3>1 DEF HandleCopyProvider, Click, Providers
      <4> QED  BY <3>0, <4>1
    <3>2. CASE \E t \in Targets : HandleSubscribe(c, t)
      <4>1. PICK t \in Targets : Send(c, "subscribe", t, "copier")
        BY <3>2 DEF HandleSubscribe, Click
      <4> QED  BY <3>0, <4>1
    <3> QED  BY <1>4, <3>1, <3>2
  <2>2. call[c].stage = "free" /\ UNCHANGED <<prov, desk, cop>>
    BY <1>4 DEF HandleCopyProvider, HandleSubscribe, Click, At
  <2>3. RequestOK("subscribe", t)  BY DEF RequestOK
  <2>4. CallsKept  BY <1>0, <2>1, <2>2, <2>3, SendKept DEF Send
  <2> QED  BY <1>0, <2>2, <2>4 DEF PagesOK
<1>5. CASE SubscriptionChanged(c)
  <2>1. call[c].stage = "answered" /\ call[c].op = "subscribe" /\ UNCHANGED <<prov, desk>>
    BY <1>5 DEF SubscriptionChanged, Answer, At
  <2>2. PICK sub \in Targets :
            \/ Done(c) /\ cop' = cop
            \/ NewSubscription(c, sub)
            \/ Mount(c, sub)
            \/ Done(c) /\ cop' = [cop EXCEPT !.cur = sub]
    <3>1. ASSUME call[c].ok PROVE call[c].answer.sub \in Targets
      <4>1. call[c].answer \in AccountRow("copier")  BY <1>0, <2>1, <3>1 DEF CallOK
      <4> QED  BY <4>1 DEF AccountRow
    <3>2. CASE call[c].ok
      BY <1>5, <3>1, <3>2 DEF SubscriptionChanged
    <3>3. CASE ~call[c].ok
      BY <1>0, <1>5, <3>3 DEF SubscriptionChanged
    <3> QED  BY <3>2, <3>3
  <2>3. CASE Done(c) /\ (cop' = cop \/ cop' = [cop EXCEPT !.cur = sub])
    <3>1. PagesOK'  BY <1>0, <1>1, <2>1, <2>3
    <3> QED  BY <1>0, <2>1, <2>3, <3>1, DoneKept DEF Done
  <2>4. CASE NewSubscription(c, sub)
    <3>1. /\ LoadHistory(c, sub)
          /\ cop' = [cop EXCEPT !.cur = sub, !.history = IF sub = None THEN None ELSE @,
                                !.loading = sub # None]
      BY <2>4 DEF NewSubscription
    <3>2. PICK h \in Answers, b \in BOOLEAN :
              cop' = [cop EXCEPT !.cur = sub, !.history = h, !.loading = b]
      <4>1. None \in Answers /\ cop.history \in Answers /\ (sub # None) \in BOOLEAN
        BY <1>0 DEF Answers, Copies, PagesOK
      <4>2. CASE sub = None  BY <3>1, <4>1, <4>2
      <4>3. CASE sub # None  BY <1>0, <3>1, <4>1, <4>3 DEF PagesOK
      <4> QED  BY <4>2, <4>3
    <3>3. PagesOK'  BY <1>1, <2>1, <3>2
    <3> QED  BY <1>0, <2>1, <3>1, <3>3, LoadHistoryKept
  <2>5. CASE Mount(c, sub)
    <3>1. cop' = Dashboard(sub) /\ LoadHistory(c, sub)  BY <2>5 DEF Mount
    <3>2. PagesOK'  BY <1>1, <2>1, <3>1
    <3> QED  BY <1>0, <2>1, <3>1, <3>2, LoadHistoryKept
  <2> QED  BY <2>2, <2>3, <2>4, <2>5
<1>6. CASE HistoryLoaded(c)
  <2>1. /\ call[c].stage = "answered" /\ Done(c) /\ UNCHANGED <<prov, desk>>
        /\ cop' = [cop EXCEPT !.history = call[c].answer, !.loading = FALSE]
    BY <1>6 DEF HistoryLoaded, Answer, At
  <2>2. PagesOK'  BY <1>0, <2>1 DEF PagesOK, CallSet
  <2> QED  BY <1>0, <2>1, <2>2, DoneKept DEF Done
<1> QED  BY <1>2, <1>3, <1>4, <1>5, <1>6 DEF Copiers

----------------------------------------------------------------------------
(* Every step *)

LEMMA AccountStep == AccountInv /\ [Next]_vars => AccountInv'
<1> SUFFICES ASSUME AccountInv, [Next]_vars PROVE AccountInv'  OBVIOUS
<1>0. ServerOK /\ PagesOK /\ CallsOK  BY DEF AccountInv, ServerOK
<1>1. CallsKept => ServerOK'  BY <1>0, KeptIsOK
<1>2. UNCHANGED serverVars => CallsKept
  BY <1>0 DEF serverVars, CallsKept, CallsOK
<1>3. UNCHANGED <<prov, desk, cop>> => PagesOK'  BY <1>0 DEF PagesOK
<1>4. CASE UNCHANGED vars
  BY <1>1, <1>2, <1>3, <1>4 DEF vars, pageVars, copVars, AccountInv, ServerOK
<1>5. ASSUME NEW c \in Calls, Serve(c), UNCHANGED <<pageVars, cop, detail, socket>>
      PROVE  AccountInv'
  <2>1. ServerOK'  BY <1>0, <1>5, ServeKeeps
  <2>2. PagesOK'  BY <1>3, <1>5 DEF pageVars
  <2> QED  BY <2>1, <2>2 DEF AccountInv, ServerOK
<1>6. ASSUME NEW c \in Calls, Panels(c), UNCHANGED <<cop, detail, socket>>
      PROVE  AccountInv'
  BY <1>1, <1>6, PanelsKeep DEF AccountInv, ServerOK
<1>7. ASSUME NEW c \in Calls, Copiers(c)
      PROVE  AccountInv'
  BY <1>1, <1>7, CopiersKeep DEF AccountInv, ServerOK
<1>8. CASE Typing /\ UNCHANGED <<cop, detail, socket>>
  <2>1. UNCHANGED serverVars /\ desk' = desk  BY <1>8 DEF Typing, OpenTab, UpdateForm
  <2>2. PagesOK'
    <3>1. ASSUME NEW tab \in {"overview", "profile"}, OpenTab(tab)
          PROVE  PagesOK'
      <4>1. prov.data \in AccountRow("master")  BY <1>0, <3>1 DEF OpenTab, PagesOK
      <4>2. prov.data.bio \in Bios  BY <4>1 DEF AccountRow
      <4>3. CASE tab = "overview"
        <5>1. prov' = [prov EXCEPT !.baseline = None, !.form = None, !.mine = {}, !.tab = "overview"]
          BY <1>0, <3>1, <4>3 DEF OpenTab, NoForm, PagesOK
        <5> QED  BY <1>0, <1>8, <2>1, <5>1 DEF PagesOK
      <4>4. CASE tab = "profile"
        <5>1. prov' = [prov EXCEPT !.tab = "profile", !.baseline = prov.data.bio,
                                   !.form = prov.data.bio]
          BY <3>1, <4>4 DEF OpenTab
        <5> QED  BY <1>0, <1>8, <2>1, <4>2, <5>1 DEF PagesOK
      <4> QED  BY <4>3, <4>4
    <3>2. ASSUME NEW b \in Bios, UpdateForm(b)
          PROVE  PagesOK'
      BY <1>0, <1>8, <2>1, <3>2 DEF UpdateForm, PagesOK
    <3> QED  BY <1>8, <3>1, <3>2 DEF Typing
  <2> QED  BY <1>1, <1>2, <2>1, <2>2 DEF AccountInv, ServerOK
<1>9. CASE FetchMasters \/ FetchProfiles \/ LoadDetail
  <2>1. UNCHANGED serverVars /\ UNCHANGED <<prov, desk>>
    BY <1>9 DEF FetchMasters, FetchProfiles, LoadDetail, Loads, pageVars
  <2>2. PagesOK'
    <3>1. CASE FetchMasters
      <4>1. CASE Fails  BY <1>0, <2>1, <4>1 DEF Fails, PagesOK
      <4>2. CASE ~Fails
        <5>1. PICK masters \in SUBSET Providers : Listed(masters)
          BY <3>1, <4>2 DEF FetchMasters
        <5>2. PICK T \in SUBSET masters :
                  cop' = [cop EXCEPT !.masters = masters, !.trending = T, !.market = "insights"]
          BY <5>1 DEF Listed, Trending
        <5>3. T \in SUBSET Providers  BY <5>1, <5>2
        <5> QED  BY <1>0, <2>1, <5>1, <5>2, <5>3 DEF PagesOK
      <4> QED  BY <4>1, <4>2
    <3>2. CASE FetchProfiles  BY <1>0, <2>1, <3>2 DEF FetchProfiles, Fails, PagesOK
    <3>3. CASE LoadDetail  BY <1>3, <2>1, <3>3 DEF LoadDetail
    <3> QED  BY <1>9, <3>1, <3>2, <3>3
  <2> QED  BY <1>1, <1>2, <2>1, <2>2 DEF AccountInv, ServerOK
<1>10. CASE \/ SocketConnects \/ Registered \/ SocketDrops
            \/ \E event \in {"OPEN", "CLOSE"} : Signal(event)
  <2>1. UNCHANGED serverVars /\ UNCHANGED <<prov, desk, cop>>
    BY <1>10 DEF SocketConnects, Registered, SocketDrops, Signal, Hears, pageVars
  <2> QED  BY <1>1, <1>2, <1>3, <2>1 DEF AccountInv, ServerOK
<1> QED  BY <1>4, <1>5, <1>6, <1>7, <1>8, <1>9, <1>10 DEF Next

\* Only a save changes a row.
LEMMA RowsChangeBySaves ==
  ASSUME AccountInv, [Next]_vars
  PROVE  users' = users \/ \E c \in Calls : SaveEntity(c)
<1>1. CASE UNCHANGED vars  BY <1>1 DEF vars, serverVars
<1>2. ASSUME NEW c \in Calls, Serve(c)
      PROVE  users' = users \/ SaveEntity(c)
  BY <1>2 DEF Serve, ReadRows, VerifyNode, CheckLicense, LoadRow, WriteAvatarFile, SaveFails
<1>3. ASSUME NEW c \in Calls, Panels(c), UNCHANGED <<cop, detail, socket>>
      PROVE  users' = users
  BY <1>3, PanelsKeep DEF CallsKept
<1>4. ASSUME NEW c \in Calls, Copiers(c)
      PROVE  users' = users
  BY <1>4, CopiersKeep DEF CallsKept
<1>5. CASE Typing
  BY <1>5 DEF Typing, OpenTab, UpdateForm, serverVars
<1>6. CASE FetchMasters \/ FetchProfiles \/ LoadDetail
  BY <1>6 DEF FetchMasters, FetchProfiles, LoadDetail, Loads, serverVars
<1>7. CASE \/ SocketConnects \/ Registered \/ SocketDrops
           \/ \E event \in {"OPEN", "CLOSE"} : Signal(event)
  BY <1>7 DEF SocketConnects, Registered, SocketDrops, Signal, Hears, serverVars
<1> QED  BY <1>1, <1>2, <1>3, <1>4, <1>5, <1>6, <1>7 DEF Next

LEMMA AccountAlways == Spec => []AccountInv
<1>1. Init => AccountInv  BY AccountInit
<1>2. AccountInv /\ [Next]_vars => AccountInv'  BY AccountStep
<1> QED  BY <1>1, <1>2, PTL DEF Spec

----------------------------------------------------------------------------

\* Every change of the rows, whatever calls overlap, is one operation of AccountLedger on
\* one column, unless a save wrote back a row that had changed since it was loaded.
THEOREM AccountsKeepLedger == Spec => LedgerStep
<1>1. AccountInv /\ [Next]_vars => [Ledger!Next \/ "stale" \in flaws']_users
  <2> SUFFICES ASSUME AccountInv, [Next]_vars, users' # users
               PROVE  Ledger!Next \/ "stale" \in flaws'
    OBVIOUS
  <2>1. PICK c \in Calls : SaveEntity(c)  BY RowsChangeBySaves
  <2>2. ServerOK  BY DEF AccountInv, ServerOK
  <2>3. CASE Stale(c)  BY <2>1, <2>3 DEF SaveEntity
  <2>4. CASE ~Stale(c)  BY <2>1, <2>2, <2>4, SaveIsOperation
  <2> QED  BY <2>3, <2>4
<1> QED  BY <1>1, AccountAlways, PTL DEF Spec, LedgerStep

\* The photo that the profile names is on the disk and no other is, whatever uploads
\* overlap, unless a save was stale or failed after its file was written.
THEOREM AccountsServeAvatar == Spec => []AvatarServed
<1>1. AccountInv => AvatarServed
  BY DEF AccountInv, PhotosOK, AvatarServed, Uploading, Written
<1> QED  BY <1>1, AccountAlways, PTL

============================================================================
