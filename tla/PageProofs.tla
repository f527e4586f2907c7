---------------------------- MODULE PageProofs ----------------------------
(***************************************************************************)
(* Proofs about what the pages of an account show, over the invariant of   *)
(* AccountProofs: at rest the panel, the provider's dashboard, the node's  *)
(* window and the copier's pages are as the rows are, for any number of    *)
(* calls that overlap and answer in any order, unless the model's history  *)
(* says why not.  Calls come in five groups, each the business of one      *)
(* page; a step of another page leaves a group alone.                      *)
(***************************************************************************)
EXTENDS AccountProofs, FiniteSetTheorems, SequenceTheorems

AdminOps == {"list", "license", "toggle"}
MasterOps == {"dashboard", "update", "avatar"}

Leavable == MasterOps \cup {"history", "revoke"}

\* The page is gone only for loads of a history and for the provider's calls; and a
\* revocation may be given up.
LeftOK == \A d \in Calls : call[d].op \notin Leavable \cup {None} => call[d].why # "left"
FreeIsFree == \A d \in Calls : call[d].stage = "free" => call[d] = Free

InFlight(ops) == \E d \in Calls : call[d].op \in ops

\* A write of `ops` has been saved and its page does not know yet.
Saved(ops) ==
    \E d \in Calls : call[d].op \in ops /\ call[d].stage = "answered" /\ call[d].ok

Granted(d, op) == call[d].op = op /\ call[d].stage = "answered" /\ call[d].ok

CallsInv == AccountInv /\ LeftOK /\ FreeIsFree

----------------------------------------------------------------------------
(* What holds of each page *)

\* A table tells the licenses and the switches as they are.
TableIsNow(table) ==
    /\ DOMAIN table = Persons
    /\ table["master"].license = users["master"].license
    /\ \A u \in Persons : table[u].active = users[u].active

TableInv ==
    flaws = {} /\ "admin" \notin raced /\ ~Saved({"license", "toggle"}) =>
        /\ \A d \in Calls : Granted(d, "list") => TableIsNow(call[d].answer)
        /\ AdminView = "table" /\ ~InFlight({"list"}) => TableIsNow(admin.table)

DataIsNow(data) ==
    data.bio = users["master"].bio /\ data.avatar = users["master"].avatar

\* What the provider sent from a page that is gone has been served; the calls of the
\* page that is there bring what is saved, once its own saves are answered.
LeftServed ==
    \A d \in Calls : call[d].op \in {"update", "avatar"} /\ call[d].why = "left" =>
        call[d].stage = "answered"
SavedHere ==
    \E d \in Calls : /\ call[d].op \in {"update", "avatar"} /\ call[d].why # "left"
                     /\ call[d].stage = "answered" /\ call[d].ok
AnswersAreNow ==
    \A d \in Calls : Granted(d, "dashboard") /\ call[d].why # "left" => DataIsNow(call[d].answer)
PageIsNow ==
    ~prov.error /\ prov.data # None /\ ~UnderWay({"dashboard"}) => DataIsNow(prov.data)

DataInv ==
    raced \cap {"master", "left"} = {} =>
        LeftServed /\ (flaws = {} /\ ~SavedHere => AnswersAreNow /\ PageIsNow)

Subscribed == users["copier"].sub = "master"

\* The window waits for one call at a time.
OneAtDesk ==
    \A d, e \in Calls :
        {call[d].op, call[e].op} \subseteq DeskOps /\ "left" \notin {call[d].why, call[e].why} =>
            d = e

\* The only change of a subscription still to come is one the window waits for.
OnlyItsOwn ==
    \A d \in Calls :
        call[d].op \in {"subscribe", "revoke"} /\ call[d].stage \notin {"free", "answered"} =>
            call[d].op = "revoke" /\ call[d].why # "left"

ListIsNow ==
    /\ \A d \in Calls : Granted(d, "subscribers") => call[d].answer = Subscribed
    /\ desk.key # None /\ ~UnderWay(DeskOps) => desk.listed = Subscribed

DeskInv ==
    /\ OneAtDesk
    /\ InFlight({"verify"}) => desk.key = None
    /\ "desk" \notin raced => OnlyItsOwn /\ (flaws = {} => ListIsNow)

\* x is the subscription as it is, or was until the master revoked it.
SubIsNow(x) == x = users["copier"].sub \/ (x = "master" /\ users["copier"].sub = None)

SubInv ==
    "copier" \notin raced =>
        /\ \A d, e \in Calls : call[d].op = "subscribe" /\ call[e].op = "subscribe" => d = e
        /\ flaws = {} =>
            /\ \A d \in Calls : Granted(d, "subscribe") => SubIsNow(call[d].answer.sub)
            /\ ~Saved({"subscribe"}) => SubIsNow(cop.cur)

Asked(d) == call[d].op = "history" /\ call[d].why # "left"

HistoryInv ==
    /\ \A d \in Calls : Asked(d) =>
        /\ OnDashboard /\ call[d].arg = cop.cur
        /\ call[d].stage = "answered" => call[d].answer \in {None, cop.cur}
    /\ OnDashboard /\ ~cop.loading => cop.history \in {None, cop.cur}
    /\ OnDashboard /\ cop.loading => \E d \in Calls : Asked(d)

SinceInv ==
    /\ since.subs \subseteq Targets /\ users["copier"].sub \in since.subs
    /\ since.switch \subseteq BOOLEAN /\ users["master"].active \in since.switch

From == {socket.trades[i].from : i \in DOMAIN socket.trades}

Heard == [from : Providers, event : {"OPEN", "CLOSE"}]

SocketInv ==
    /\ socket \in [state : {None, "connecting", "connected", "disconnected"},
                   room : Targets \cup {"asked"}, trades : Seq(Heard), total : Nat]
    /\ Len(socket.trades) <= socket.total
    /\ OnDashboard =>
        /\ socket.room \in Providers => socket.room \in since.subs
        /\ From \subseteq since.subs

MarketInv ==
    OnDashboard /\ cop.market \in {"insights", "shown"} =>
        /\ \E b \in since.switch : cop.masters = {p \in Providers : p = "master" => b}
        /\ cop.trending \in Trending(cop.masters)

----------------------------------------------------------------------------
(* The server *)

\* What a step of the server does to its call; the others stay.
ServeSteps(c) ==
    /\ call[c].stage \notin {"free", "answered"} /\ call'[c].stage # "free"
    /\ call'[c].op = call[c].op /\ call'[c].arg = call[c].arg /\ call'[c].why = call[c].why
    /\ \A d \in Calls : d # c => call'[d] = call[d]
    /\ flaws \subseteq flaws'

\* The answer of a read is what the rows say.
ReadAnswer(c) ==
    /\ users' = users
    /\ call'[c].stage = "answered" /\ call'[c].ok =>
        /\ call[c].op \in Reads \cup {"verify"}
        /\ call[c].op = "list" => call'[c].answer = users
        /\ call[c].op = "dashboard" => call'[c].answer = users["master"]
        /\ call[c].op = "subscribers" => call'[c].answer = Subscribed
        /\ call[c].op = "history" => call'[c].answer = call[c].arg
    /\ call'[c].stage = "answered" /\ ~call'[c].ok /\ call[c].op = "history" =>
        call'[c].answer = None

LEMMA ReplyForm ==
  ASSUME CallsOK, NEW c \in Calls, NEW ok, NEW answer, Reply(c, ok, answer)
  PROVE  /\ call'[c].stage = "answered" /\ call'[c].ok = ok /\ call'[c].answer = answer
         /\ call'[c].op = call[c].op /\ call'[c].arg = call[c].arg /\ call'[c].why = call[c].why
         /\ \A d \in Calls : d # c => call'[d] = call[d]
<1>1. call[c] \in CallSet /\ DOMAIN call = Calls  BY DEF CallsOK
<1>2. call' = [call EXCEPT ![c] = [call[c] EXCEPT !.stage = "answered", !.ok = ok,
                                                 !.answer = answer, !.copy = None, !.seen = None]]
  BY <1>1 DEF Reply
<1> QED  BY <1>1, <1>2 DEF CallSet

LEMMA ServeForm ==
  ASSUME AccountInv, NEW c \in Calls, Serve(c)
  PROVE  ServeSteps(c) /\ (ReadAnswer(c) \/ SaveEntity(c))
<1>0. CallsOK /\ call[c] \in CallSet /\ DOMAIN call = Calls /\ CallOK(call[c])
  BY DEF AccountInv, CallsOK
<1>1. CASE ReadRows(c)
  <2>1. /\ call[c].stage = "load" /\ call[c].op \in Reads /\ UNCHANGED <<users, flaws>>
    BY <1>1 DEF ReadRows, At
  <2>2. PICK ok, answer :
            /\ Reply(c, ok, answer)
            /\ \/ /\ ok = TRUE
                  /\ answer = CASE call[c].op = "list" -> users
                                [] call[c].op = "dashboard" -> users["master"]
                                [] call[c].op = "subscribers" -> users["copier"].sub = "master"
                                [] OTHER -> call[c].arg
               \/ ok = FALSE /\ answer = None /\ (~Admitted(c) \/ call[c].op \in Env)
    BY <1>1 DEF ReadRows
  <2>3. /\ call'[c].stage = "answered" /\ call'[c].ok = ok /\ call'[c].answer = answer
        /\ call'[c].op = call[c].op /\ call'[c].arg = call[c].arg /\ call'[c].why = call[c].why
        /\ \A d \in Calls : d # c => call'[d] = call[d]
    BY <1>0, <2>2, ReplyForm
  <2> QED  BY <2>1, <2>2, <2>3 DEF ServeSteps, ReadAnswer, Subscribed, Reads
<1>2. CASE VerifyNode(c)
  <2>1. /\ call[c].stage = "load" /\ call[c].op = "verify" /\ UNCHANGED <<users, flaws>>
    BY <1>2 DEF VerifyNode, At
  <2>2. PICK ok : Reply(c, ok, "master")  BY <1>2 DEF VerifyNode
  <2>3. /\ call'[c].stage = "answered"
        /\ call'[c].op = call[c].op /\ call'[c].arg = call[c].arg /\ call'[c].why = call[c].why
        /\ \A d \in Calls : d # c => call'[d] = call[d]
    BY <1>0, <2>2, ReplyForm
  <2> QED  BY <2>1, <2>3 DEF ServeSteps, ReadAnswer
<1>3. CASE CheckLicense(c)
  <2>1. /\ call[c].stage = "check" /\ call[c].op = "revoke" /\ UNCHANGED <<users, flaws>>
    BY <1>0, <1>3 DEF CheckLicense, At, CallOK
  <2>2. CASE call' = [call EXCEPT ![c].stage = "load", ![c].seen = users["master"]]
    BY <1>0, <2>1, <2>2 DEF ServeSteps, ReadAnswer, CallSet
  <2>3. CASE Reply(c, FALSE, None)
    <3>1. /\ call'[c].stage = "answered" /\ ~call'[c].ok
          /\ call'[c].op = call[c].op /\ call'[c].arg = call[c].arg /\ call'[c].why = call[c].why
          /\ \A d \in Calls : d # c => call'[d] = call[d]
      BY <1>0, <2>3, ReplyForm
    <3> QED  BY <2>1, <3>1 DEF ServeSteps, ReadAnswer
  <2> QED  BY <1>3, <2>2, <2>3 DEF CheckLicense
<1>4. CASE LoadRow(c)
  <2>1. /\ call[c].stage = "load" /\ call[c].op \notin Reads /\ UNCHANGED <<users, flaws>>
    BY <1>4 DEF LoadRow, At
  <2>2. CASE call' = [call EXCEPT ![c].stage = IF call[c].op = "avatar" THEN "write" ELSE "save",
                                  ![c].copy = users[Target(c)]]
    <3>1. /\ call'[c].stage \in {"write", "save"}
          /\ call'[c].op = call[c].op /\ call'[c].arg = call[c].arg /\ call'[c].why = call[c].why
          /\ \A d \in Calls : d # c => call'[d] = call[d]
      BY <1>0, <2>2 DEF CallSet
    <3> QED  BY <2>1, <3>1 DEF ServeSteps, ReadAnswer
  <2>3. CASE Reply(c, FALSE, None)
    <3>1. /\ call'[c].stage = "answered" /\ ~call'[c].ok
          /\ call'[c].op = call[c].op /\ call'[c].arg = call[c].arg /\ call'[c].why = call[c].why
          /\ \A d \in Calls : d # c => call'[d] = call[d]
      BY <1>0, <2>3, ReplyForm
    <3> QED  BY <2>1, <3>1 DEF ServeSteps, ReadAnswer, Reads
  <2> QED  BY <1>4, <2>2, <2>3 DEF LoadRow
<1>5. CASE WriteAvatarFile(c)
  <2>1. /\ call[c].stage = "write" /\ UNCHANGED <<users, flaws>>
        /\ call' = [call EXCEPT ![c].stage = "save"]
    BY <1>5 DEF WriteAvatarFile, At
  <2> QED  BY <1>0, <2>1 DEF ServeSteps, ReadAnswer, CallSet
<1>6. CASE SaveEntity(c) \/ SaveFails(c)
  <2>1. PICK ok, answer :
            /\ Reply(c, ok, answer) /\ call[c].stage = "save" /\ flaws \subseteq flaws'
            /\ SaveEntity(c) \/ (ok = FALSE /\ users' = users)
    BY <1>6 DEF SaveEntity, SaveFails, At
  <2>2. /\ call'[c].stage = "answered" /\ call'[c].ok = ok
        /\ call'[c].op = call[c].op /\ call'[c].arg = call[c].arg /\ call'[c].why = call[c].why
        /\ \A d \in Calls : d # c => call'[d] = call[d]
    BY <1>0, <2>1, ReplyForm
  <2>3. ServeSteps(c)  BY <2>1, <2>2 DEF ServeSteps
  <2>4. call[c].op \notin Reads  BY <1>0, <2>1 DEF CallOK, Writes, Reads
  <2> QED  BY <2>1, <2>2, <2>3, <2>4 DEF ReadAnswer, Reads
<1> QED  BY <1>1, <1>2, <1>3, <1>4, <1>5, <1>6 DEF Serve

\* A save that is not stale changes the column of its operation.
LEMMA SaveForm ==
  ASSUME AccountInv, NEW c \in Calls, SaveEntity(c), flaws' = {}
  PROVE  /\ call[c].op \in Writes
         /\ call'[c].stage = "answered" /\ call'[c].ok
         /\ call[c].op \notin {"license", "toggle"} =>
                /\ users'["master"].license = users["master"].license
                /\ \A u \in Persons : users'[u].active = users[u].active
         /\ call[c].op \notin {"update", "avatar"} =>
                /\ users'["master"].bio = users["master"].bio
                /\ users'["master"].avatar = users["master"].avatar
         /\ call[c].op = "subscribe" => call'[c].answer.sub = users'["copier"].sub
         /\ call[c].op = "revoke" => users["copier"].sub = "master" /\ users'["copier"].sub = None
         /\ call[c].op \notin {"subscribe", "revoke"} => users'["copier"].sub = users["copier"].sub
<1>0. PICK row :
      /\ row = Entity(c) /\ ServerOK /\ CallsOK /\ RowsOK
      /\ call[c].op \in Writes /\ ~Stale(c)
      /\ call[c].op = "revoke" => call[c].copy.sub = "master"
      /\ users' = [users EXCEPT ![Target(c)] = row]
      /\ Reply(c, TRUE, row)
  BY DEF AccountInv, ServerOK, CallsOK, CallOK, SaveEntity, At
<1>1. /\ Target(c) = TargetOf(call[c]) /\ Target(c) \in Persons
      /\ row \in AccountRow(Target(c)) /\ users[Target(c)] = call[c].copy
      /\ users[Target(c)] \in AccountRow(Target(c))
  BY <1>0, EntityIsRow DEF Stale, RowsOK
<1>2. call'[c].stage = "answered" /\ call'[c].ok = TRUE /\ call'[c].answer = row
  <2>1. ASSUME NEW ok, Reply(c, ok, row)
        PROVE  call'[c].stage = "answered" /\ call'[c].ok = ok /\ call'[c].answer = row
    BY <1>0, <2>1, ReplyForm
  <2> QED  BY <1>0, <2>1, Zenon
<1>3. /\ users'[Target(c)] = row /\ \A u \in Persons : u # Target(c) => users'[u] = users[u]
  BY <1>0, <1>1 DEF RowsOK
<1>4. /\ call[c].op \notin {"license", "toggle"} =>
            row.license = users[Target(c)].license /\ row.active = users[Target(c)].active
      /\ call[c].op \notin {"update", "avatar"} =>
            row.bio = users[Target(c)].bio /\ row.avatar = users[Target(c)].avatar
      /\ call[c].op \notin {"subscribe", "revoke"} => row.sub = users[Target(c)].sub
      /\ call[c].op = "revoke" => row.sub = None
  BY <1>0, <1>1 DEF Entity, Writes, AccountRow
<1>5. call[c].op \in {"subscribe", "revoke"} => Target(c) = "copier"
  BY DEF Target
<1> QED  BY <1>0, <1>1, <1>2, <1>3, <1>4, <1>5 DEF Persons

----------------------------------------------------------------------------
(* The pages *)

AdminActs(c) ==
    \/ AdminChanged(c) \/ UsersFetched(c) \/ Retry(c)
    \/ \E u \in {"master", "copier"} : HandleGenerateLicense(c, u) \/ HandleToggleStatus(c, u)
MasterActs(c) ==
    \/ ProfileSaved(c) \/ DashboardLoaded(c) \/ Revisit(c) \/ HandleSubmit(c)
    \/ \E e \in Exts : HandleAvatarSelect(c, e)
DeskActs(c) ==
    \/ RefreshSubscribers(c) \/ RevokeSubscriber(c) \/ DeskAnswered(c) \/ SubscribersFetched(c)
    \/ \E k \in 1 .. drawn : LoginMt5(c, k)
    \/ \E d \in Calls : DeskGivesUp(c, d)

\* A step of a page whose calls are those of `ops`; it may settle the races of `who`.
PageTakes(ops, who) ==
    /\ UNCHANGED <<users, flaws>>
    /\ raced \ who \subseteq raced'
    /\ \A d \in Calls :
        \/ call'[d] = call[d]
        \/ call[d].op \in ops \cup {None} /\ call'[d] = Free
        \/ /\ call[d].op \in ops \cup {None} /\ call'[d].op \in ops /\ call'[d].stage # "free"
           /\ call'[d].op \notin Leavable => call'[d].why # "left"

\* A step that leaves the calls of `ops` alone, and settles none of the races of `tags`
Untouched(ops, tags) ==
    /\ UNCHANGED <<users, flaws>> /\ raced \cap tags \subseteq raced'
    /\ \A d \in Calls : {call[d].op, call'[d].op} \cap ops # {} => call'[d] = call[d]

LEMMA TakesUntouched ==
  ASSUME NEW ops, NEW who, PageTakes(ops, who), NEW others, ops \cap others = {}, None \notin others,
         NEW tags, who \cap tags = {}
  PROVE  Untouched(others, tags)
<1>1. raced \cap tags \subseteq raced'  BY DEF PageTakes
<1> QED  BY <1>1 DEF PageTakes, Untouched, Free

LEMMA RequestForm ==
  ASSUME NEW op, NEW arg, NEW why
  PROVE  /\ Request(op, arg, why).op = op /\ Request(op, arg, why).arg = arg
         /\ Request(op, arg, why).why = why /\ Request(op, arg, why).stage \in {"check", "load"}
         /\ ~Request(op, arg, why).ok
  BY DEF Request, Free

LEMMA SendTakes ==
  ASSUME NEW c \in Calls, NEW op, NEW arg, NEW why, Send(c, op, arg, why),
         NEW ops, NEW who, op \in ops, call[c].op \in ops \cup {None}, Settled(op) \subseteq who,
         op \notin Leavable => why # "left"
  PROVE  PageTakes(ops, who)
<1>1. /\ call'[c] = Request(op, arg, why) /\ raced' = (raced \ Settled(op)) \cup Racing(op)
      /\ \A d \in Calls : d # c => call'[d] = call[d]
      /\ UNCHANGED <<users, flaws>>
  BY DEF Send, SendIn
<1> QED  BY <1>1, RequestForm DEF PageTakes

LEMMA DoneTakes ==
  ASSUME CallsOK, NEW c \in Calls, Done(c), NEW ops, NEW who, call[c].op \in ops \cup {None}
  PROVE  /\ PageTakes(ops, who) /\ call'[c] = Free /\ raced' = raced
         /\ \A d \in Calls : d # c => call'[d] = call[d]
  BY DEF Done, Ends, CallsOK, PageTakes

LEMMA AdminTakes ==
  ASSUME CallsInv, NEW c \in Calls, AdminActs(c)
  PROVE  PageTakes(AdminOps, {}) /\ UNCHANGED <<prov, desk>>
<1>0. CallsOK /\ FreeIsFree  BY DEF CallsInv, AccountInv
<1>1. At(c, "free") => call[c].op = None  BY <1>0 DEF FreeIsFree, At, Free
<1>2. \A op, arg, why : Send(c, op, arg, why) /\ op \in AdminOps
          /\ why \in {"admin", "retry", "after"} /\ call[c].op \in AdminOps \cup {None}
          => PageTakes(AdminOps, {})
  BY SendTakes DEF Settled, AdminOps
<1>3. call[c].op \in AdminOps /\ Done(c) => PageTakes(AdminOps, {})
  BY <1>0, DoneTakes
<1>4. CASE AdminChanged(c) \/ UsersFetched(c)
  <2>1. /\ call[c].op \in AdminOps /\ UNCHANGED <<prov, desk>>
        /\ Done(c) \/ Send(c, "list", None, "after")
    BY <1>4 DEF AdminChanged, UsersFetched, Answer, AdminOps
  <2> QED  BY <1>2, <1>3, <2>1 DEF AdminOps
<1>5. CASE Retry(c)
  BY <1>1, <1>2, <1>5 DEF Retry, Click, AdminOps
<1>6. ASSUME NEW u, HandleGenerateLicense(c, u) \/ HandleToggleStatus(c, u)
      PROVE  PageTakes(AdminOps, {}) /\ UNCHANGED <<prov, desk>>
  BY <1>1, <1>2, <1>6 DEF HandleGenerateLicense, HandleToggleStatus, Click, AdminOps
<1> QED  BY <1>4, <1>5, <1>6 DEF AdminActs

LEMMA MasterTakes ==
  ASSUME CallsInv, NEW c \in Calls, MasterActs(c)
  PROVE  PageTakes(MasterOps, {"master", "left"}) /\ UNCHANGED <<admin, desk>>
<1>0. CallsOK /\ FreeIsFree  BY DEF CallsInv, AccountInv
<1>1. At(c, "free") => call[c].op = None  BY <1>0 DEF FreeIsFree, At, Free
<1>2. \A op, arg, why : Send(c, op, arg, why) /\ op \in MasterOps
          /\ call[c].op \in MasterOps \cup {None}
          => PageTakes(MasterOps, {"master", "left"})
  BY SendTakes DEF Settled, MasterOps, Leavable
<1>3. call[c].op \in MasterOps /\ Done(c) => PageTakes(MasterOps, {"master", "left"})
  BY <1>0, DoneTakes
<1>4. CASE ProfileSaved(c) \/ DashboardLoaded(c)
  <2>1. /\ call[c].op \in MasterOps /\ UNCHANGED <<admin, desk>>
        /\ Done(c) \/ Send(c, "dashboard", None, call[c].why)
    BY <1>4 DEF ProfileSaved, DashboardLoaded, Answer, MasterOps
  <2> QED  BY <1>2, <1>3, <2>1 DEF MasterOps
<1>5. CASE HandleSubmit(c) \/ \E e \in Exts : HandleAvatarSelect(c, e)
  <2>1. PICK op, arg, why : /\ op \in MasterOps /\ Send(c, op, arg, why) /\ At(c, "free")
                                /\ UNCHANGED <<admin, desk>>
    BY <1>5 DEF HandleSubmit, HandleAvatarSelect, Click, MasterOps
  <2> QED  BY <1>1, <1>2, <2>1
<1>6. CASE Revisit(c)
  <2>1. /\ UNCHANGED <<users, flaws, admin, desk>> /\ raced \ {"master", "left"} \subseteq raced'
        /\ call'[c] = Request("dashboard", None, "load") /\ call[c].op = None
        /\ \A d \in Calls : d # c =>
              \/ call'[d] = call[d]
              \/ call'[d] = [call[d] EXCEPT !.why = "left"] /\ Sender(d) = "master"
                 /\ call[d].stage # "free"
    BY <1>1, <1>6 DEF Revisit, At
  <2>2. \A d \in Calls : Sender(d) = "master" => call[d].op \in MasterOps
    BY DEF Sender, MasterOps
  <2>3. \A d \in Calls : call'[d] = [call[d] EXCEPT !.why = "left"] =>
            call'[d].op = call[d].op /\ call'[d].stage = call[d].stage
    BY <1>0 DEF CallsOK, CallSet
  <2>4. call'[c].op = "dashboard" /\ call'[c].stage # "free"  BY <2>1, RequestForm
  <2>5. ASSUME NEW d \in Calls, d # c, call'[d] # call[d]
        PROVE  call[d].op \in MasterOps /\ call'[d].op \in MasterOps /\ call'[d].stage # "free"
    BY <2>1, <2>2, <2>3, <2>5
  <2> QED  BY <2>1, <2>4, <2>5 DEF PageTakes, MasterOps, Leavable
<1> QED  BY <1>4, <1>5, <1>6 DEF MasterActs

LEMMA DeskTakes ==
  ASSUME CallsInv, NEW c \in Calls, DeskActs(c)
  PROVE  PageTakes(DeskOps, {"desk"}) /\ UNCHANGED <<admin, prov>>
<1>0. CallsOK /\ FreeIsFree  BY DEF CallsInv, AccountInv
<1>1. At(c, "free") => call[c].op = None  BY <1>0 DEF FreeIsFree, At, Free
<1>2. \A op, arg : Send(c, op, arg, "desk") /\ op \in DeskOps /\ call[c].op \in DeskOps \cup {None}
          => PageTakes(DeskOps, {"desk"})
  BY SendTakes DEF Settled, DeskOps
<1>3. CASE DeskAnswered(c)
  <2>1. /\ call[c].op \in DeskOps /\ UNCHANGED <<admin, prov>>
        /\ Done(c) \/ Send(c, "subscribers", None, "desk")
    BY <1>3 DEF DeskAnswered, Answer, DeskOps
  <2> QED  BY <1>0, <1>2, <2>1, DoneTakes DEF DeskOps
<1>4. CASE SubscribersFetched(c)
  BY <1>0, <1>4 DEF SubscribersFetched, Answer, Ends, CallsOK, PageTakes, DeskOps
<1>5. CASE RefreshSubscribers(c) \/ RevokeSubscriber(c) \/ \E k \in 1 .. drawn : LoginMt5(c, k)
  <2>1. PICK op, arg : /\ op \in DeskOps /\ Send(c, op, arg, "desk") /\ At(c, "free")
                           /\ UNCHANGED <<admin, prov>>
    BY <1>5 DEF RefreshSubscribers, RevokeSubscriber, LoginMt5, DeskClick, Click, DeskOps
  <2> QED  BY <1>1, <1>2, <2>1
<1>6. ASSUME NEW d \in Calls, DeskGivesUp(c, d)
      PROVE  PageTakes(DeskOps, {"desk"}) /\ UNCHANGED <<admin, prov>>
  <2>0. Free.op # "revoke"  BY NoneAssumption DEF Free
  <2>1. call[c].op = "revoke" /\ call[d] = Free /\ c # d /\ call[c].stage # "free"
    BY <1>0, <1>6, <2>0 DEF DeskGivesUp, At, FreeIsFree
  <2>2. /\ call'[d] = Request("subscribers", None, "desk")
        /\ call'[c] = [call[c] EXCEPT !.why = "left"]
        /\ \A e \in Calls : e \notin {c, d} => call'[e] = call[e]
        /\ raced \ {"desk"} \subseteq raced' /\ UNCHANGED <<users, flaws, admin, prov>>
    BY <1>6, <2>1 DEF DeskGivesUp, SendIn, Settled
  <2>3. call'[c].op = "revoke" /\ call'[c].stage # "free"
    BY <1>0, <2>1, <2>2 DEF CallsOK, CallSet
  <2>4. /\ call'[d].op = "subscribers" /\ call'[d].stage # "free" /\ call'[d].why # "left"
        /\ call[d].op = None
    BY <2>1, <2>2, RequestForm DEF Free
  <2> QED  BY <2>1, <2>2, <2>3, <2>4 DEF PageTakes, DeskOps, Leavable
<1> QED  BY <1>3, <1>4, <1>5, <1>6 DEF DeskActs

CopierOps == {"subscribe", "history"}

\* Nobody waits for a history that was under way.
HistoriesLeft(c) ==
    \A d \in Calls : d # c =>
        call'[d] = IF call[d].op = "history" THEN [call[d] EXCEPT !.why = "left"] ELSE call[d]

LEMMA HistoryTakes ==
  ASSUME CallsInv, NEW c \in Calls, call[c].op \in {None, "subscribe"}, NEW sub,
         LoadHistory(c, sub) \/ Forsake(c)
  PROVE  /\ PageTakes(CopierOps, {}) /\ raced' = raced /\ HistoriesLeft(c)
         /\ Forsake(c) => call'[c] = Free
         /\ LoadHistory(c, sub) =>
                call'[c] = IF sub = None THEN Free ELSE Request("history", sub, "copier")
<1>0. CallsOK /\ FreeIsFree  BY DEF CallsInv, AccountInv
<1>1. \A d \in Calls : d \in HistoryCalls <=> call[d].op = "history"  BY DEF HistoryCalls
<1>2. PICK next :
        /\ next = Free \/ (sub # None /\ next = Request("history", sub, "copier"))
        /\ Forsake(c) => next = Free
        /\ LoadHistory(c, sub) => next = IF sub = None THEN Free ELSE Request("history", sub, "copier")
        /\ call' = [d \in Calls |-> IF d = c THEN next
                                    ELSE IF d \in HistoryCalls THEN [call[d] EXCEPT !.why = "left"]
                                    ELSE call[d]]
        /\ raced' = raced /\ UNCHANGED <<users, flaws>>
  <2>1. CASE Forsake(c)
    <3>1. LoadHistory(c, sub) => sub = None
      <4> SUFFICES ASSUME LoadHistory(c, sub), sub # None PROVE FALSE  OBVIOUS
      <4>1. call'[c] = Free /\ call'[c] = Request("history", sub, "copier")
        BY <2>1 DEF Forsake, LoadHistory, SendIn
      <4> QED  BY <4>1, RequestForm DEF Free
    <3> QED  BY <2>1, <3>1 DEF Forsake
  <2>2. CASE ~Forsake(c)
    <3>1. sub # None /\ SendIn(c, "history", sub, "copier", HistoryCalls)
      BY <2>2 DEF LoadHistory
    <3> QED  BY <2>2, <3>1 DEF SendIn, Racing, Settled
  <2> QED  BY <2>1, <2>2
<1>3. call'[c] = next /\ HistoriesLeft(c)  BY <1>1, <1>2 DEF HistoriesLeft
<1>4. PageTakes(CopierOps, {})
  <2>1. ASSUME NEW d \in Calls, call[d].op = "history"
        PROVE  [call[d] EXCEPT !.why = "left"].op = "history"
               /\ [call[d] EXCEPT !.why = "left"].stage # "free"
    <3>1. call[d].stage # "free"
      BY <1>0, <2>1, NoneAssumption DEF FreeIsFree, Free, Reads
    <3> QED  BY <1>0, <2>1, <3>1 DEF CallsOK, CallSet
  <2>2. next = Free \/ (next.op = "history" /\ next.stage # "free")
    BY <1>2, RequestForm
  <2>3. ASSUME NEW d \in Calls, d # c, call'[d] # call[d]
        PROVE  call[d].op = "history" /\ call'[d].op = "history" /\ call'[d].stage # "free"
    BY <1>3, <2>1, <2>3 DEF HistoriesLeft
  <2> QED  BY <1>2, <1>3, <2>2, <2>3 DEF PageTakes, CopierOps, Leavable
<1> QED  BY <1>2, <1>3, <1>4

LEMMA CopierTakes ==
  ASSUME CallsInv, NEW c \in Calls, Copiers(c)
  PROVE  PageTakes(CopierOps, {}) /\ UNCHANGED <<admin, prov, desk>>
<1>0. CallsOK /\ FreeIsFree  BY DEF CallsInv, AccountInv
<1>1. At(c, "free") => call[c].op = None  BY <1>0 DEF FreeIsFree, At, Free
<1>3. CASE OpenDashboard(c) \/ \E p \in Providers : OpenProvider(c, p)
  <2>1. /\ UNCHANGED <<admin, prov, desk>> /\ At(c, "free")
        /\ LoadHistory(c, cop.cur) \/ Forsake(c)
    BY <1>3 DEF OpenDashboard, OpenProvider, Visit, Mount
  <2> QED  BY <1>1, <2>1, HistoryTakes
<1>4. CASE HandleCopyProvider(c) \/ \E t \in Targets : HandleSubscribe(c, t)
  <2>1. PICK t, why :
            why \in {"copy", "copier"} /\ Send(c, "subscribe", t, why) /\ At(c, "free") /\ UNCHANGED <<admin, prov, desk>>
    <3>1. CASE HandleCopyProvider(c)  BY <3>1 DEF HandleCopyProvider, Click
    <3>2. CASE \E t \in Targets : HandleSubscribe(c, t)
      <4>1. PICK t \in Targets : HandleSubscribe(c, t)  BY <3>2
      <4> QED  BY <4>1 DEF HandleSubscribe, Click
    <3> QED  BY <1>4, <3>1, <3>2
  <2>2. Settled("subscribe") \subseteq {} /\ "subscribe" \in CopierOps
        /\ why # "left" /\ call[c].op \in CopierOps \cup {None}
    BY <1>1, <2>1 DEF Settled, CopierOps
  <2> QED  BY <2>1, <2>2, SendTakes
<1>5. CASE SubscriptionChanged(c)
  <2>1. /\ call[c].op = "subscribe" /\ UNCHANGED <<admin, prov, desk>>
        /\ Done(c) \/ \E sub : LoadHistory(c, sub)
    BY <1>5 DEF SubscriptionChanged, Answer, NewSubscription, Mount
  <2>2. CASE Done(c)
    BY <1>0, <2>1, <2>2, DoneTakes DEF CopierOps
  <2>3. CASE \E sub : LoadHistory(c, sub)
    BY <2>1, <2>3, HistoryTakes
  <2> QED  BY <2>1, <2>2, <2>3
<1>6. CASE HistoryLoaded(c)
  <2>1. call[c].op = "history" /\ Done(c) /\ UNCHANGED <<admin, prov, desk>>
    BY <1>6 DEF HistoryLoaded, Answer
  <2> QED  BY <1>0, <2>1, DoneTakes DEF CopierOps
<1> QED  BY <1>3, <1>4, <1>5, <1>6 DEF Copiers

\* An answer nobody waits for is a history's, the provider's or a revocation's.
LEMMA UnheardTakes ==
  ASSUME CallsInv, NEW c \in Calls, Unheard(c)
  PROVE  /\ PageTakes(Leavable, {}) /\ UNCHANGED <<admin, prov, desk>>
         /\ call[c].why = "left" /\ call'[c] = Free
         /\ \A d \in Calls : d # c => call'[d] = call[d]
<1>1. /\ CallsOK /\ Done(c) /\ UNCHANGED <<admin, prov, desk>> /\ call[c].why = "left"
      /\ call[c].op \in Leavable \cup {None}
  BY DEF CallsInv, AccountInv, Unheard, LeftOK
<1> QED  BY <1>1, DoneTakes

\* A step takes calls of one group, or is the server's, or sends and answers none.
StepTakes ==
    \/ \E c \in Calls : AdminActs(c) /\ PageTakes(AdminOps, {})
                        /\ UNCHANGED <<prov, desk, cop, socket>>
    \/ \E c \in Calls : MasterActs(c) /\ PageTakes(MasterOps, {"master", "left"})
                        /\ UNCHANGED <<admin, desk, cop, socket>>
    \/ \E c \in Calls : DeskActs(c) /\ PageTakes(DeskOps, {"desk"})
                        /\ UNCHANGED <<admin, prov, cop, socket>>
    \/ \E c \in Calls : Copiers(c) /\ PageTakes(CopierOps, {})
                        /\ UNCHANGED <<admin, prov, desk>>
    \/ \E c \in Calls : Unheard(c) /\ PageTakes(Leavable, {})
                        /\ UNCHANGED <<admin, prov, desk, cop, socket>>

\* A step of the copier's pages that touches no call
CopierStill ==
    /\ cop'.page = cop.page /\ cop'.cur = cop.cur
    /\ cop'.history = cop.history /\ cop'.loading = cop.loading
    /\ cop' = cop \/ FetchMasters \/ FetchProfiles
    /\ \/ socket' = socket
       \/ SocketConnects \/ Registered \/ SocketDrops
       \/ \E event \in {"OPEN", "CLOSE"} : Signal(event)

Still ==
    /\ UNCHANGED <<users, call, flaws, raced, admin, desk>>
    /\ prov'.data = prov.data /\ prov'.error = prov.error
    /\ CopierStill

ServerStep(c) ==
    Serve(c) /\ ServeSteps(c) /\ (ReadAnswer(c) \/ SaveEntity(c)) /\ UNCHANGED <<raced, admin, prov, desk, cop, socket>>

LEMMA StepForm ==
  ASSUME CallsInv, [Next]_vars
  PROVE  StepTakes \/ Still \/ \E c \in Calls : ServerStep(c)
<1>0. AccountInv  BY DEF CallsInv
<1>1. CASE UNCHANGED vars
  BY <1>1 DEF vars, serverVars, pageVars, copVars, Still, CopierStill
<1>2. ASSUME NEW c \in Calls, Serve(c), UNCHANGED <<pageVars, cop, detail, socket>>
      PROVE  ServerStep(c)
  BY <1>0, <1>2, ServeForm DEF ServerStep, pageVars
<1>3. ASSUME NEW c \in Calls, Panels(c), UNCHANGED <<cop, detail, socket>>
      PROVE  StepTakes
  <2>1. AdminActs(c) \/ MasterActs(c) \/ DeskActs(c) \/ Unheard(c)
    BY <1>3 DEF Panels, AdminActs, MasterActs, DeskActs
  <2> QED  BY <1>3, <2>1, AdminTakes, MasterTakes, DeskTakes, UnheardTakes DEF StepTakes
<1>4. ASSUME NEW c \in Calls, Copiers(c)
      PROVE  StepTakes
  BY <1>4, CopierTakes DEF StepTakes
<1>5. CASE Typing /\ UNCHANGED <<cop, detail, socket>>
  <2>1. PagesOK  BY <1>0 DEF AccountInv
  <2>2. UNCHANGED <<serverVars, raced, admin, desk>>  BY <1>5 DEF Typing, OpenTab, UpdateForm
  <2>3. prov'.data = prov.data /\ prov'.error = prov.error
    <3>1. ASSUME NEW tab \in {"overview", "profile"}, OpenTab(tab)
          PROVE  prov'.data = prov.data /\ prov'.error = prov.error
      BY <2>1, <3>1 DEF OpenTab, NoForm, PagesOK
    <3>2. ASSUME NEW b \in Bios, UpdateForm(b)
          PROVE  prov'.data = prov.data /\ prov'.error = prov.error
      BY <2>1, <3>2 DEF UpdateForm, PagesOK
    <3> QED  BY <1>5, <3>1, <3>2 DEF Typing
  <2> QED  BY <1>5, <2>2, <2>3 DEF Still, CopierStill, serverVars
<1>6. CASE FetchMasters \/ FetchProfiles \/ LoadDetail
  <2>1. /\ UNCHANGED <<users, call, flaws, raced, admin, prov, desk, socket>>
        /\ FetchMasters \/ FetchProfiles \/ cop' = cop
    BY <1>6 DEF FetchMasters, FetchProfiles, LoadDetail, Loads, pageVars, serverVars
  <2>2. /\ cop'.page = cop.page /\ cop'.cur = cop.cur
        /\ cop'.history = cop.history /\ cop'.loading = cop.loading
    BY <1>0, <2>1 DEF FetchMasters, FetchProfiles, Listed, Fails, AccountInv, PagesOK
  <2> QED  BY <2>1, <2>2 DEF Still, CopierStill
<1>7. CASE \/ SocketConnects \/ Registered \/ SocketDrops
           \/ \E event \in {"OPEN", "CLOSE"} : Signal(event)
  <2>1. UNCHANGED <<users, call, flaws, raced, admin, prov, desk, cop>>
    BY <1>7 DEF SocketConnects, Registered, SocketDrops, Signal, Hears, pageVars, serverVars
  <2> QED  BY <1>7, <2>1 DEF Still, CopierStill
<1> QED  BY <1>1, <1>2, <1>3, <1>4, <1>5, <1>6, <1>7 DEF Next

LEMMA CallsStep == CallsInv /\ [Next]_vars => CallsInv'
<1> SUFFICES ASSUME CallsInv, [Next]_vars PROVE CallsInv'  OBVIOUS
<1>0. AccountInv /\ LeftOK /\ FreeIsFree  BY DEF CallsInv
<1>1. AccountInv'  BY <1>0, AccountStep
<1>2. ASSUME NEW ops, NEW who, PageTakes(ops, who)
      PROVE  (LeftOK /\ FreeIsFree)'
  <2>1. LeftOK'  BY <1>0, <1>2 DEF PageTakes, LeftOK, Free, Leavable, MasterOps
  <2>2. FreeIsFree'  BY <1>0, <1>2 DEF PageTakes, FreeIsFree, Free
  <2> QED  BY <2>1, <2>2
<1>3. ASSUME NEW c \in Calls, ServerStep(c)
      PROVE  (LeftOK /\ FreeIsFree)'
  BY <1>0, <1>3 DEF ServerStep, ServeSteps, LeftOK, FreeIsFree
<1>4. ASSUME Still PROVE (LeftOK /\ FreeIsFree)'
  BY <1>0, <1>4 DEF Still, LeftOK, FreeIsFree, Free, Leavable, MasterOps
<1> QED  BY <1>1, <1>2, <1>3, <1>4, StepForm DEF StepTakes, CallsInv

----------------------------------------------------------------------------
(* The users panel *)

LEMMA TableElsewhere ==
  ASSUME TableInv, Untouched(AdminOps, {"admin"}), admin' = admin
  PROVE  TableInv'
<1> SUFFICES ASSUME flaws' = {}, "admin" \notin raced', ~Saved({"license", "toggle"})'
             PROVE  /\ \A d \in Calls : Granted(d, "list")' => TableIsNow(call[d].answer)'
                    /\ AdminView' = "table" /\ ~InFlight({"list"})' => TableIsNow(admin.table)'
  BY DEF TableInv
<1>1. \A d \in Calls : call[d].op \in AdminOps \/ call'[d].op \in AdminOps => call'[d] = call[d]
  BY DEF Untouched
<1>2. flaws = {} /\ "admin" \notin raced /\ users' = users  BY DEF Untouched
<1>3. ~Saved({"license", "toggle"})
  BY <1>1 DEF Saved, AdminOps
<1>4. /\ \A d \in Calls : Granted(d, "list") => TableIsNow(call[d].answer)
      /\ AdminView = "table" /\ ~InFlight({"list"}) => TableIsNow(admin.table)
  BY <1>2, <1>3 DEF TableInv
<1>5. ASSUME NEW d \in Calls, Granted(d, "list")'
      PROVE  TableIsNow(call[d].answer)'
  <2>1. call'[d] = call[d]  BY <1>1, <1>5 DEF Granted, AdminOps
  <2>2. Granted(d, "list")  BY <1>5, <2>1 DEF Granted
  <2> QED  BY <1>2, <1>4, <2>1, <2>2 DEF TableIsNow, Persons
<1>6. ASSUME AdminView' = "table", ~InFlight({"list"})'
      PROVE  TableIsNow(admin.table)'
  <2>1. ~InFlight({"list"})  BY <1>1, <1>6 DEF InFlight, AdminOps
  <2>2. AdminView = "table"  BY <1>6 DEF AdminView
  <2> QED  BY <1>2, <1>4, <2>1, <2>2 DEF TableIsNow, Persons
<1> QED  BY <1>5, <1>6

\* A save that is not stale and that the panel is not told of changes no cell.
LEMMA TableServed ==
  ASSUME CallsInv, TableInv, NEW c \in Calls, ServerStep(c)
  PROVE  TableInv'
<1> SUFFICES ASSUME flaws' = {}, "admin" \notin raced', ~Saved({"license", "toggle"})'
             PROVE  /\ \A d \in Calls : Granted(d, "list")' => TableIsNow(call[d].answer)'
                    /\ AdminView' = "table" /\ ~InFlight({"list"})' => TableIsNow(admin.table)'
  BY DEF TableInv
<1>0. /\ ServeSteps(c) /\ raced' = raced /\ admin' = admin /\ AccountInv
      /\ \A d \in Calls : d # c => call'[d] = call[d]
      /\ call[c].stage # "answered" /\ call'[c].op = call[c].op
  BY DEF ServerStep, ServeSteps, CallsInv
<1>1. flaws = {} /\ "admin" \notin raced  BY <1>0 DEF ServeSteps
<1>2. ~Saved({"license", "toggle"})  BY <1>0 DEF Saved
<1>3. /\ \A d \in Calls : Granted(d, "list") => TableIsNow(call[d].answer)
      /\ AdminView = "table" /\ ~InFlight({"list"}) => TableIsNow(admin.table)
  BY <1>1, <1>2 DEF TableInv
<1>4. /\ users'["master"].license = users["master"].license
      /\ \A u \in Persons : users'[u].active = users[u].active
  <2>1. CASE users' = users  BY <2>1
  <2>2. CASE SaveEntity(c)
    <3>1. call'[c].stage = "answered" /\ call'[c].ok  BY <1>0, <2>2, SaveForm
    <3>2. call[c].op \notin {"license", "toggle"}  BY <1>0, <3>1 DEF Saved
    <3> QED  BY <1>0, <2>2, <3>2, SaveForm
  <2> QED  BY <2>1, <2>2 DEF ServerStep, ReadAnswer
<1>5. \A table : TableIsNow(table) =>
        /\ DOMAIN table = Persons /\ table["master"].license = users'["master"].license
        /\ \A u \in Persons : table[u].active = users'[u].active
  BY <1>4 DEF TableIsNow
<1>6. ASSUME NEW d \in Calls, Granted(d, "list")'
      PROVE  TableIsNow(call[d].answer)'
  <2>1. CASE d = c
    <3>1. call[c].op = "list" /\ call'[c].stage = "answered" /\ call'[c].ok
      BY <1>0, <1>6, <2>1 DEF Granted
    <3>2. ~SaveEntity(c)
      <4> SUFFICES ASSUME SaveEntity(c) PROVE FALSE  OBVIOUS
      <4>1. call[c].op \in Writes  BY <1>0, SaveForm
      <4> QED  BY <3>1, <4>1 DEF Writes
    <3>3. call'[c].answer = users'  BY <3>1, <3>2 DEF ServerStep, ReadAnswer
    <3>4. DOMAIN users' = Persons
      <4>1. users' = users  BY <3>2 DEF ServerStep, ReadAnswer
      <4> QED  BY <1>0, <4>1 DEF AccountInv, RowsOK
    <3> QED  BY <2>1, <3>3, <3>4 DEF TableIsNow, Persons
  <2>2. CASE d # c
    <3>1. call'[d] = call[d] /\ Granted(d, "list")  BY <1>0, <1>6, <2>2 DEF Granted
    <3> QED  BY <1>3, <1>5, <3>1 DEF TableIsNow, Persons
  <2> QED  BY <2>1, <2>2
<1>7. ASSUME AdminView' = "table", ~InFlight({"list"})'
      PROVE  TableIsNow(admin.table)'
  <2>1. ~InFlight({"list"})  BY <1>0, <1>7 DEF InFlight
  <2>2. AdminView = "table"  BY <1>0, <1>7 DEF AdminView
  <2> QED  BY <1>0, <1>3, <1>5, <2>1, <2>2 DEF TableIsNow, Persons
<1> QED  BY <1>6, <1>7

LEMMA TableActs ==
  ASSUME CallsInv, TableInv, NEW c \in Calls, AdminActs(c)
  PROVE  TableInv'
<1> SUFFICES ASSUME flaws' = {}, "admin" \notin raced', ~Saved({"license", "toggle"})'
             PROVE  /\ \A d \in Calls : Granted(d, "list")' => TableIsNow(call[d].answer)'
                    /\ AdminView' = "table" /\ ~InFlight({"list"})' => TableIsNow(admin.table)'
  BY DEF TableInv
<1>0. CallsOK /\ LeftOK /\ FreeIsFree /\ call[c] \in CallSet
  BY DEF CallsInv, AccountInv, CallsOK
<1>1. users' = users /\ flaws = {} /\ "admin" \notin raced
  BY AdminTakes DEF PageTakes
<1>2. \A table : TableIsNow(table) => TableIsNow(table)'
  BY <1>1 DEF TableIsNow, Persons
<1>3. UnderWay({"list"}) <=> InFlight({"list"})
  BY <1>0, NoneAssumption DEF UnderWay, InFlight, LeftOK, Leavable, MasterOps, Reads
<1>4. \A arg, why : Send(c, "list", arg, why) => ~InFlight({"list"})
  BY <1>3 DEF Send, SendIn, Racing
<1>5. ASSUME ~Saved({"license", "toggle"})
      PROVE  /\ \A d \in Calls : Granted(d, "list") => TableIsNow(call[d].answer)
             /\ AdminView = "table" /\ ~InFlight({"list"}) => TableIsNow(admin.table)
  BY <1>1, <1>5 DEF TableInv
\* A list is asked for: no other is under way.
<1>6. ASSUME NEW arg, NEW why, Send(c, "list", arg, why)
      PROVE  /\ \A d \in Calls : Granted(d, "list")' => TableIsNow(call[d].answer)'
             /\ InFlight({"list"})'
  <2>1. /\ call'[c] = Request("list", arg, why) /\ \A d \in Calls : d # c => call'[d] = call[d]
    BY <1>6 DEF Send, SendIn
  <2>2. call'[c].op = "list" /\ call'[c].stage # "answered"  BY <2>1, RequestForm
  <2> QED  BY <1>4, <1>6, <2>1, <2>2 DEF InFlight, Granted
\* A call ends that was no list, and no write that was saved.
<1>7. ASSUME Done(c), call[c].op # "list", ~(call[c].op \in {"license", "toggle"} /\ call[c].ok),
             admin'.table = admin.table, AdminView' = "table" => AdminView = "table"
      PROVE  /\ \A d \in Calls : Granted(d, "list")' => TableIsNow(call[d].answer)'
             /\ AdminView' = "table" /\ ~InFlight({"list"})' => TableIsNow(admin.table)'
  <2>1. call'[c] = Free /\ \A d \in Calls : d # c => call'[d] = call[d]
    BY <1>0, <1>7 DEF Done, Ends, CallsOK
  <2>2. ~Saved({"license", "toggle"})  BY <1>7, <2>1 DEF Saved, Free
  <2>3. \A d \in Calls : Granted(d, "list")' => Granted(d, "list") /\ call'[d] = call[d]
    BY <2>1 DEF Granted, Free
  <2>4. ~InFlight({"list"})' => ~InFlight({"list"})
    BY <1>7, <2>1 DEF InFlight
  <2> QED  BY <1>2, <1>5, <1>7, <2>2, <2>3, <2>4
<1>8. CASE AdminChanged(c)
  <2>1. CASE call[c].ok
    <3>1. Send(c, "list", None, "after")  BY <1>8, <2>1 DEF AdminChanged
    <3> QED  BY <1>6, <3>1
  <2>2. CASE ~call[c].ok
    <3>1. PagesOK /\ Done(c) /\ admin' = [admin EXCEPT !.action = None] /\ call[c].op # "list"
      BY <1>8, <2>2 DEF AdminChanged, Answer, CallsInv, AccountInv
    <3>2. admin'.table = admin.table /\ AdminView' = AdminView  BY <3>1 DEF AdminView
    <3> QED  BY <1>7, <2>2, <3>1, <3>2
  <2> QED  BY <2>1, <2>2
<1>9. CASE UsersFetched(c)
  <2>1. /\ Done(c) /\ call[c].op = "list" /\ call[c].stage = "answered"
        /\ admin'.table = (IF call[c].ok THEN call[c].answer ELSE admin.table)
        /\ admin'.error = ~call[c].ok
    BY <1>9 DEF UsersFetched, Answer, At
  <2>2. call'[c] = Free /\ \A d \in Calls : d # c => call'[d] = call[d]
    BY <1>0, <2>1 DEF Done, Ends, CallsOK
  <2>3. ~Saved({"license", "toggle"})  BY <2>1, <2>2 DEF Saved, Free
  <2>4. \A d \in Calls : Granted(d, "list")' => Granted(d, "list") /\ call'[d] = call[d]
    BY <2>2 DEF Granted, Free
  <2>5. AdminView' = "table" => call[c].ok  BY <2>1 DEF AdminView
  <2>6. call[c].ok => TableIsNow(call[c].answer)  BY <1>5, <2>1, <2>3 DEF Granted
  <2> QED  BY <1>2, <1>5, <2>1, <2>3, <2>4, <2>5, <2>6
<1>10. CASE Retry(c)
  <2>1. Send(c, "list", None, "retry")  BY <1>10 DEF Retry, Click
  <2> QED  BY <1>6, <2>1
<1>11. CASE \E u \in {"master", "copier"} : HandleGenerateLicense(c, u) \/ HandleToggleStatus(c, u)
  <2>1. PICK op, u, action : /\ op \in {"license", "toggle"} /\ Send(c, op, u, "admin") /\ At(c, "free")
                             /\ admin' = [admin EXCEPT !.action = action]
    BY <1>11 DEF HandleGenerateLicense, HandleToggleStatus, Click
  <2>2. /\ call'[c] = Request(op, u, "admin") /\ \A d \in Calls : d # c => call'[d] = call[d]
        /\ call[c] = Free
    BY <1>0, <2>1 DEF Send, SendIn, FreeIsFree, At
  <2>3. /\ call'[c].op \notin {"list", None} /\ call'[c].stage # "answered" /\ call[c].op = None
        /\ call[c].stage # "answered"
    BY <2>1, <2>2, RequestForm, NoneAssumption DEF Free
  <2>4. ~Saved({"license", "toggle"})  BY <2>2, <2>3 DEF Saved
  <2>5. \A d \in Calls : Granted(d, "list")' => Granted(d, "list") /\ call'[d] = call[d]
    BY <2>2, <2>3 DEF Granted
  <2>6. ~InFlight({"list"})' => ~InFlight({"list"})
    BY <2>2, <2>3, NoneAssumption DEF InFlight, Reads
  <2>7. admin'.table = admin.table /\ AdminView' = AdminView  BY <2>1 DEF AdminView
  <2> QED  BY <1>2, <1>5, <2>4, <2>5, <2>6, <2>7
<1> QED  BY <1>8, <1>9, <1>10, <1>11 DEF AdminActs

LEMMA TableStep == CallsInv /\ TableInv /\ [Next]_vars => TableInv'
<1> SUFFICES ASSUME CallsInv, TableInv, [Next]_vars PROVE TableInv'  OBVIOUS
<1>1. None \notin AdminOps  BY NoneAssumption DEF AdminOps, Reads
<1>2. ASSUME NEW ops, NEW who, PageTakes(ops, who), ops \cap AdminOps = {}, "admin" \notin who,
             admin' = admin
      PROVE  TableInv'
  BY <1>1, <1>2, TakesUntouched, TableElsewhere
<1>3. CASE Still
  <2>1. Untouched(AdminOps, {"admin"}) /\ admin' = admin  BY <1>3 DEF Still, Untouched
  <2> QED  BY <2>1, TableElsewhere
<1>4. AdminOps \cap MasterOps = {} /\ AdminOps \cap DeskOps = {} /\ AdminOps \cap CopierOps = {}
      /\ AdminOps \cap Leavable = {}
  BY DEF AdminOps, MasterOps, DeskOps, CopierOps, Leavable
<1>5. CASE StepTakes
  BY <1>2, <1>4, <1>5, TableActs DEF StepTakes
<1> QED  BY <1>3, <1>5, StepForm, TableServed

LEMMA CallsInit == Init => CallsInv
<1> SUFFICES ASSUME Init PROVE CallsInv  OBVIOUS
<1>1. \A d \in Calls : call[d] = Free  BY DEF Init, PanelsInit, ServerInit
<1>2. LeftOK  BY <1>1 DEF LeftOK, Free
<1>3. FreeIsFree  BY <1>1 DEF FreeIsFree
<1> QED  BY <1>2, <1>3, AccountInit DEF CallsInv

LEMMA TableInit == Init => TableInv
<1> SUFFICES ASSUME Init PROVE TableInv  OBVIOUS
<1>1. /\ \A d \in Calls : call[d].stage = "free"
      /\ admin.table = users
  BY DEF Init, PanelsInit, ServerInit, Free
<1>2. DOMAIN users = Persons  BY AccountInit DEF AccountInv, RowsOK
<1> QED  BY <1>1, <1>2 DEF TableInv, Granted, TableIsNow

LEMMA CallsAlways == Spec => []CallsInv
  BY CallsInit, CallsStep, PTL DEF Spec

LEMMA TableIsTrue ==
  ASSUME CallsInv, TableInv
  PROVE  AdminTableTrue
<1> SUFFICES ASSUME Quiet({"list", "license", "toggle"}), "admin" \notin raced, AdminView = "table"
             PROVE  /\ \A u \in DOMAIN users :
                        /\ LicenseCell(admin.table[u], u) = LicenseCell(users[u], u)
                        /\ StatusCell(admin.table[u]) = StatusCell(users[u])
                    /\ \A tile \in {"active", "disabled", "platformMasters"} :
                        Tiles(admin.table)[tile] = Tiles(users)[tile]
  BY DEF AdminTableTrue
<1>1. \A d \in Calls : call[d].op \notin {"list", "license", "toggle"}
  BY NoneAssumption DEF CallsInv, LeftOK, Quiet, UnderWay, Leavable, MasterOps, Reads
<1>2. TableIsNow(admin.table) /\ DOMAIN users = Persons
  BY <1>1 DEF TableInv, Saved, InFlight, Quiet, CallsInv, AccountInv, RowsOK
<1>3. ASSUME NEW u \in DOMAIN users
      PROVE  /\ LicenseCell(admin.table[u], u) = LicenseCell(users[u], u)
             /\ StatusCell(admin.table[u]) = StatusCell(users[u])
  BY <1>2, <1>3 DEF TableIsNow, LicenseCell, StatusCell, Roles, Persons
<1>4. /\ Tiles(admin.table)["active"] = Tiles(users)["active"]
      /\ Tiles(admin.table)["disabled"] = Tiles(users)["disabled"]
      /\ Tiles(admin.table)["platformMasters"] = Tiles(users)["platformMasters"]
  <2>1. /\ {u \in DOMAIN admin.table : admin.table[u].active} = {u \in DOMAIN users : users[u].active}
        /\ {u \in DOMAIN admin.table : ~admin.table[u].active} = {u \in DOMAIN users : ~users[u].active}
        /\ {u \in {v \in DOMAIN admin.table : Roles[v] = "MASTER"} : admin.table[u].active}
            = {u \in {v \in DOMAIN users : Roles[v] = "MASTER"} : users[u].active}
    BY <1>2 DEF TableIsNow
  <2> QED  BY <2>1 DEF Tiles
<1> QED  BY <1>3, <1>4

\* At rest, whatever calls have overlapped, the users panel tells each account's license
\* and switch as they are and counts them right, unless two of its fetches overlapped.
THEOREM PanelTableTrue == Spec => []AdminTableTrue
<1>1. CallsInv /\ TableInv => AdminTableTrue  BY TableIsTrue
<1> QED  BY <1>1, CallsAlways, TableInit, TableStep, PTL DEF Spec

----------------------------------------------------------------------------
(* The provider's dashboard *)

\* A step after which no more is known than before: loads stay under way, no answer is
\* new, no save was granted that the page has not been told of, and none is left.
LEMMA DataKept ==
  ASSUME DataInv, UNCHANGED <<users, flaws>>, raced \cap {"master", "left"} \subseteq raced',
         prov'.data = prov.data, prov'.error = prov.error,
         \A d \in Calls :
            /\ Granted(d, "dashboard")' /\ call'[d].why # "left" => call'[d] = call[d]
            /\ call[d].op = "dashboard" /\ call[d].why # "left" =>
                    call'[d].op = "dashboard" /\ call'[d].why # "left"
            /\ call'[d].op \in {"update", "avatar"} /\ call'[d].why = "left" => call'[d] = call[d]
            /\ call[d].op \in {"update", "avatar"} /\ call[d].why # "left"
                    /\ call[d].stage = "answered" /\ call[d].ok => call'[d] = call[d]
  PROVE  DataInv'
<1> SUFFICES ASSUME raced' \cap {"master", "left"} = {}
             PROVE  LeftServed' /\ (flaws' = {} /\ ~SavedHere' => AnswersAreNow' /\ PageIsNow')
  BY DEF DataInv
<1>1. LeftServed /\ (flaws = {} /\ ~SavedHere => AnswersAreNow /\ PageIsNow)
  BY DEF DataInv
<1>2. LeftServed'  BY <1>1 DEF LeftServed
<1>3. ~SavedHere' => ~SavedHere  BY DEF SavedHere
<1>4. ~UnderWay({"dashboard"})' => ~UnderWay({"dashboard"})  BY DEF UnderWay
<1>5. AnswersAreNow => AnswersAreNow'  BY DEF AnswersAreNow, Granted, DataIsNow
<1>6. PageIsNow => PageIsNow'  BY <1>4 DEF PageIsNow, DataIsNow
<1> QED  BY <1>1, <1>2, <1>3, <1>5, <1>6

LEMMA DataElsewhere ==
  ASSUME DataInv, Untouched(MasterOps, {"master", "left"}),
         prov'.data = prov.data, prov'.error = prov.error
  PROVE  DataInv'
<1>1. \A d \in Calls : call[d].op \in MasterOps \/ call'[d].op \in MasterOps => call'[d] = call[d]
  BY DEF Untouched
<1>2. UNCHANGED <<users, flaws>> /\ raced \cap {"master", "left"} \subseteq raced'  BY DEF Untouched
<1>3. \A d \in Calls :
        call[d].op \in {"dashboard", "update", "avatar"} \/ call'[d].op \in {"dashboard", "update", "avatar"}
            => call'[d] = call[d]
  BY <1>1 DEF MasterOps
<1> QED  BY <1>2, <1>3, DataKept DEF Granted

LEMMA DataServed ==
  ASSUME CallsInv, DataInv, NEW c \in Calls, ServerStep(c)
  PROVE  DataInv'
<1> SUFFICES ASSUME raced' \cap {"master", "left"} = {}
             PROVE  LeftServed' /\ (flaws' = {} /\ ~SavedHere' => AnswersAreNow' /\ PageIsNow')
  BY DEF DataInv
<1>0. /\ ServeSteps(c) /\ raced' = raced /\ prov' = prov /\ AccountInv
      /\ \A d \in Calls : d # c => call'[d] = call[d]
      /\ call[c].stage # "answered" /\ call'[c].op = call[c].op /\ call'[c].why = call[c].why
  BY DEF ServerStep, ServeSteps, CallsInv
<1>1. LeftServed /\ (flaws = {} /\ ~SavedHere => AnswersAreNow /\ PageIsNow)
  BY <1>0 DEF DataInv
<1>2. LeftServed'  BY <1>0, <1>1 DEF LeftServed
<1> SUFFICES ASSUME flaws' = {}, ~SavedHere'
             PROVE  AnswersAreNow' /\ PageIsNow'
  BY <1>2
<1>3. AnswersAreNow /\ PageIsNow
  <2>1. flaws = {}  BY <1>0 DEF ServeSteps
  <2>2. ~SavedHere  BY <1>0 DEF SavedHere
  <2> QED  BY <1>1, <2>1, <2>2
\* A save changes the profile only where the page is to be told.
<1>4. /\ users'["master"].bio = users["master"].bio
      /\ users'["master"].avatar = users["master"].avatar
  <2>1. CASE users' = users  BY <2>1
  <2>2. CASE SaveEntity(c)
    <3>1. call'[c].stage = "answered" /\ call'[c].ok  BY <1>0, <2>2, SaveForm
    <3>2. call[c].op \in {"update", "avatar"} => call[c].why # "left"  BY <1>0, <1>1 DEF LeftServed
    <3>3. call[c].op \notin {"update", "avatar"}  BY <1>0, <3>1, <3>2 DEF SavedHere
    <3> QED  BY <1>0, <2>2, <3>3, SaveForm
  <2> QED  BY <2>1, <2>2 DEF ServerStep, ReadAnswer
<1>5. ASSUME NEW d \in Calls, Granted(d, "dashboard")', call'[d].why # "left"
      PROVE  DataIsNow(call[d].answer)'
  <2>1. CASE d = c
    <3>1. call[c].op = "dashboard" /\ call'[c].stage = "answered" /\ call'[c].ok
      BY <1>0, <1>5, <2>1 DEF Granted
    <3>2. ~SaveEntity(c)
      <4> SUFFICES ASSUME SaveEntity(c) PROVE FALSE  OBVIOUS
      <4>1. call[c].op \in Writes  BY <1>0, SaveForm
      <4> QED  BY <3>1, <4>1 DEF Writes
    <3>3. call'[c].answer = users'["master"]  BY <3>1, <3>2 DEF ServerStep, ReadAnswer
    <3> QED  BY <2>1, <3>3 DEF DataIsNow
  <2>2. CASE d # c
    <3>1. call'[d] = call[d] /\ Granted(d, "dashboard")  BY <1>0, <1>5, <2>2 DEF Granted
    <3> QED  BY <1>3, <1>4, <1>5, <3>1 DEF DataIsNow, AnswersAreNow
  <2> QED  BY <2>1, <2>2
<1>6. ~UnderWay({"dashboard"})' => ~UnderWay({"dashboard"})  BY <1>0 DEF UnderWay
<1>7. AnswersAreNow'  BY <1>5 DEF AnswersAreNow
<1>8. PageIsNow'  BY <1>0, <1>3, <1>4, <1>6 DEF PageIsNow, DataIsNow
<1> QED  BY <1>7, <1>8

LEMMA DataActs ==
  ASSUME CallsInv, DataInv, NEW c \in Calls, MasterActs(c)
  PROVE  DataInv'
<1>0. CallsOK /\ PagesOK /\ FreeIsFree /\ call[c] \in CallSet
  BY DEF CallsInv, AccountInv, CallsOK
<1>1. UNCHANGED <<users, flaws>>  BY MasterTakes DEF PageTakes
\* The dashboard is asked for, and is not under way already.
<1>2. ASSUME raced' \cap {"master", "left"} = {} => LeftServed',
             call'[c].op = "dashboard", call'[c].why # "left", call'[c].stage # "answered",
             raced' \cap {"master", "left"} = {} =>
                \A d \in Calls : d # c /\ call'[d].op = "dashboard" => call'[d].why = "left"
      PROVE  DataInv'
  <2> SUFFICES ASSUME raced' \cap {"master", "left"} = {}
               PROVE  AnswersAreNow' /\ PageIsNow'
    BY <1>2 DEF DataInv
  <2>1. UnderWay({"dashboard"})'  BY <1>2 DEF UnderWay
  <2>2. AnswersAreNow'  BY <1>2 DEF AnswersAreNow, Granted
  <2> QED  BY <2>1, <2>2 DEF PageIsNow
<1>3. CASE ProfileSaved(c)
  <2>1. CASE call[c].ok
    <3>1. Send(c, "dashboard", None, call[c].why) /\ call[c].why # "left"
      BY <1>3, <2>1 DEF ProfileSaved, Answer
    <3>2. /\ call'[c] = Request("dashboard", None, call[c].why)
          /\ \A d \in Calls : d # c => call'[d] = call[d]
          /\ raced' = raced \cup Racing("dashboard")
      BY <3>1 DEF Send, SendIn, Settled
    <3>3. call'[c].op = "dashboard" /\ call'[c].why # "left" /\ call'[c].stage # "answered"
      BY <3>1, <3>2, RequestForm
    <3>4. ASSUME raced' \cap {"master", "left"} = {}
          PROVE  /\ LeftServed'
                 /\ \A d \in Calls : d # c /\ call'[d].op = "dashboard" => call'[d].why = "left"
      <4>1. ~UnderWay({"dashboard"})  BY <3>2, <3>4 DEF Racing
      <4>2. LeftServed  BY <3>2, <3>4 DEF DataInv
      <4> QED  BY <3>2, <3>3, <4>1, <4>2 DEF UnderWay, LeftServed
    <3> QED  BY <1>2, <3>3, <3>4
  <2>2. CASE ~call[c].ok
    <3>1. /\ Done(c) /\ prov' = [prov EXCEPT !.mine = @ \ {c}] /\ call[c].op \in {"update", "avatar"}
      BY <1>3, <2>2 DEF ProfileSaved, Answer
    <3>2. prov'.data = prov.data /\ prov'.error = prov.error  BY <1>0, <3>1 DEF PagesOK
    <3>3. call'[c] = Free /\ raced' = raced /\ \A d \in Calls : d # c => call'[d] = call[d]
      BY <1>0, <3>1 DEF Done, Ends, CallsOK
    <3> QED  BY <1>1, <2>2, <3>1, <3>2, <3>3, DataKept, NoneAssumption DEF Free, Granted
  <2> QED  BY <2>1, <2>2
<1>4. CASE DashboardLoaded(c)
  <2>1. /\ Done(c) /\ call[c].op = "dashboard" /\ call[c].stage = "answered" /\ call[c].why # "left"
        /\ prov'.data = (IF call[c].ok THEN call[c].answer ELSE prov.data)
        /\ prov'.error = ~call[c].ok
    <3>1. DEFINE loaded == [prov EXCEPT !.data = IF call[c].ok THEN call[c].answer ELSE @,
                                        !.error = ~call[c].ok, !.loading = FALSE]
    <3>2. /\ Done(c) /\ call[c].op = "dashboard" /\ call[c].stage = "answered" /\ call[c].why # "left"
          /\ prov' = [loaded EXCEPT !.tab = "overview", !.baseline = None, !.form = None, !.mine = {}]
      BY <1>4 DEF DashboardLoaded, Answer, At
    <3>3. /\ loaded.data = (IF call[c].ok THEN call[c].answer ELSE prov.data)
          /\ loaded.error = ~call[c].ok
      BY <1>0 DEF PagesOK
    <3>4. prov'.data = loaded.data /\ prov'.error = loaded.error
      BY <1>0, <3>2 DEF PagesOK
    <3> QED  BY <3>2, <3>3, <3>4
  <2>2. call'[c] = Free /\ raced' = raced /\ \A d \in Calls : d # c => call'[d] = call[d]
    BY <1>0, <2>1 DEF Done, Ends, CallsOK
  <2> SUFFICES ASSUME raced' \cap {"master", "left"} = {}
               PROVE  LeftServed' /\ (flaws' = {} /\ ~SavedHere' => AnswersAreNow' /\ PageIsNow')
    BY DEF DataInv
  <2>3. LeftServed /\ (flaws = {} /\ ~SavedHere => AnswersAreNow /\ PageIsNow)
    BY <2>2 DEF DataInv
  <2>4. LeftServed'  BY <2>2, <2>3, NoneAssumption DEF LeftServed, Free
  <2>5. ~SavedHere' => ~SavedHere  BY <2>1, <2>2 DEF SavedHere
  <2>6. AnswersAreNow => AnswersAreNow'
    BY <1>1, <2>2 DEF AnswersAreNow, Granted, Free, DataIsNow
  <2>7. AnswersAreNow => PageIsNow'
    BY <1>1, <2>1 DEF AnswersAreNow, Granted, PageIsNow, DataIsNow
  <2> QED  BY <1>1, <2>3, <2>4, <2>5, <2>6, <2>7
\* The calls of the former visit are left; its saves have been served, or it is known.
<1>5. CASE Revisit(c)
  <2>1. /\ call'[c] = Request("dashboard", None, "load") /\ At(c, "free")
        /\ \A d \in Calls : d # c =>
              call'[d] = IF Sender(d) = "master" /\ ~At(d, "free")
                         THEN [call[d] EXCEPT !.why = "left"] ELSE call[d]
        /\ Unserved({"update", "avatar"}) => "left" \in raced'
    BY <1>5 DEF Revisit
  <2>2. call'[c].op = "dashboard" /\ call'[c].why # "left" /\ call'[c].stage # "answered"
    BY <2>1, RequestForm
  <2>3. ASSUME NEW d \in Calls, d # c
        PROVE  /\ call'[d].op = call[d].op /\ call'[d].stage = call[d].stage
               /\ call[d].op = "dashboard" => call'[d].why = "left"
    <3>1. call[d] \in CallSet  BY <1>0 DEF CallsOK
    <3>2. call[d].op = "dashboard" => Sender(d) = "master" /\ ~At(d, "free")
      BY <1>0, NoneAssumption DEF Sender, At, FreeIsFree, Free, Reads
    <3> QED  BY <2>1, <2>3, <3>1, <3>2 DEF CallSet
  <2>4. ASSUME raced' \cap {"master", "left"} = {} PROVE LeftServed'
    <3>1. \A d \in Calls : call[d].op \in {"update", "avatar"} => call[d].stage \in {"free", "answered"}
      BY <2>1, <2>4 DEF Unserved
    <3>2. \A d \in Calls : call[d].op \in {"update", "avatar"} => call[d].stage # "free"
      BY <1>0, NoneAssumption DEF FreeIsFree, Free
    <3> QED  BY <2>2, <2>3, <3>1, <3>2 DEF LeftServed
  <2> QED  BY <1>2, <2>2, <2>3, <2>4
<1>6. CASE HandleSubmit(c) \/ \E e \in Exts : HandleAvatarSelect(c, e)
  <2>1. PICK op, arg, why :
            /\ op \in {"update", "avatar"} /\ why \in {"save", "photo"}
            /\ Send(c, op, arg, why) /\ At(c, "free")
            /\ prov' = [prov EXCEPT !.mine = @ \cup {c}]
    BY <1>6 DEF HandleSubmit, HandleAvatarSelect, Click
  <2>2. /\ call'[c] = Request(op, arg, why) /\ \A d \in Calls : d # c => call'[d] = call[d]
        /\ call[c] = Free /\ raced \subseteq raced'
    BY <1>0, <2>1 DEF Send, SendIn, FreeIsFree, At, Settled
  <2>3. /\ call'[c].op = op /\ call'[c].why = why /\ call'[c].stage # "answered"
        /\ call[c].op = None /\ call[c].stage # "answered"
    BY <2>2, RequestForm DEF Free
  <2>4. prov'.data = prov.data /\ prov'.error = prov.error  BY <1>0, <2>1 DEF PagesOK
  <2> QED  BY <1>1, <2>1, <2>2, <2>3, <2>4, DataKept, NoneAssumption DEF Granted, Reads
<1> QED  BY <1>3, <1>4, <1>5, <1>6 DEF MasterActs

LEMMA DataStep == CallsInv /\ DataInv /\ [Next]_vars => DataInv'
<1> SUFFICES ASSUME CallsInv, DataInv, [Next]_vars PROVE DataInv'  OBVIOUS
<1>1. None \notin MasterOps  BY NoneAssumption DEF MasterOps, Reads
<1>2. ASSUME NEW ops, NEW who, PageTakes(ops, who), ops \cap MasterOps = {},
             who \cap {"master", "left"} = {}, prov' = prov
      PROVE  DataInv'
  BY <1>1, <1>2, TakesUntouched, DataElsewhere
<1>3. CASE Still
  <2>1. Untouched(MasterOps, {"master", "left"})  BY <1>3 DEF Still, Untouched
  <2> QED  BY <1>3, <2>1, DataElsewhere DEF Still
<1>4. MasterOps \cap AdminOps = {} /\ MasterOps \cap DeskOps = {} /\ MasterOps \cap CopierOps = {}
  BY DEF AdminOps, MasterOps, DeskOps, CopierOps
<1>5. ASSUME NEW c \in Calls, Unheard(c)
      PROVE  DataInv'
  <2>1. /\ PageTakes(Leavable, {}) /\ prov' = prov
        /\ call[c].why = "left" /\ call'[c] = Free
        /\ \A d \in Calls : d # c => call'[d] = call[d]
    BY <1>5, UnheardTakes
  <2>2. UNCHANGED <<users, flaws>> /\ raced \subseteq raced'  BY <2>1 DEF PageTakes
  <2> QED  BY <2>1, <2>2, DataKept, NoneAssumption DEF Free, Granted
<1>6. CASE StepTakes
  BY <1>2, <1>4, <1>5, <1>6, DataActs DEF StepTakes
<1> QED  BY <1>3, <1>6, StepForm, DataServed

LEMMA DataInit == Init => DataInv
<1> SUFFICES ASSUME Init PROVE DataInv  OBVIOUS
<1>1. /\ \A d \in Calls : call[d].stage = "free" /\ call[d].op = None
      /\ prov.data = users["master"]
  BY DEF Init, PanelsInit, ServerInit, Free
<1> QED  BY <1>1, NoneAssumption DEF DataInv, LeftServed, AnswersAreNow, PageIsNow, Granted, DataIsNow

\* At rest the provider's dashboard shows the profile and the photo as they are saved,
\* however its saves, loads and visits overlapped, unless two loads of one visit did, a
\* save of a former visit was still to be written as the page was opened, or a save
\* was stale.
THEOREM ProviderDataTrue == Spec => []ProviderPageTrue
<1>1. ASSUME CallsInv, DataInv PROVE ProviderPageTrue
  <2> SUFFICES ASSUME Quiet({"dashboard", "update", "avatar"}), raced \cap {"master", "left"} = {},
                      ~prov.error, prov.data # None
               PROVE  DataIsNow(prov.data)
    BY DEF ProviderPageTrue, DataIsNow
  <2>1. flaws = {} /\ ~SavedHere /\ ~UnderWay({"dashboard"})
    BY DEF Quiet, UnderWay, SavedHere
  <2> QED  BY <1>1, <2>1 DEF DataInv, PageIsNow
<1> QED  BY <1>1, CallsAlways, DataInit, DataStep, PTL DEF Spec

----------------------------------------------------------------------------
(* What the copier's pages do to the calls that change its subscription *)

SubsKept(c) ==
    /\ call'[c].op # "subscribe"
    /\ \A d \in Calls : d # c /\ "subscribe" \in {call[d].op, call'[d].op} => call'[d] = call[d]

LEMMA CopierForm ==
  ASSUME CallsInv, NEW c \in Calls, Copiers(c)
  PROVE  /\ \/ SubsKept(c) /\ raced' = raced
            \/ \E t, why : Send(c, "subscribe", t, why) /\ At(c, "free") /\ cop' = cop
         /\ SubscriptionChanged(c) \/ (cop'.cur = cop.cur /\ call[c].op # "subscribe")
<1>0. CallsOK /\ PagesOK /\ FreeIsFree  BY DEF CallsInv, AccountInv
<1>1. At(c, "free") => call[c].op = None  BY <1>0 DEF FreeIsFree, At, Free
<1>2. None # "subscribe"  BY NoneAssumption
<1>3. ASSUME NEW sub, LoadHistory(c, sub) \/ Forsake(c), call[c].op \in {None, "subscribe"}
      PROVE  SubsKept(c) /\ raced' = raced
  <2>1. /\ raced' = raced /\ HistoriesLeft(c)
        /\ call'[c] = Free \/ call'[c] = Request("history", sub, "copier")
    BY <1>3, HistoryTakes
  <2>2. call'[c].op # "subscribe"  BY <1>2, <2>1, RequestForm DEF Free
  <2>3. ASSUME NEW d \in Calls, d # c, "subscribe" \in {call[d].op, call'[d].op}
        PROVE  call'[d] = call[d]
    <3>1. ASSUME call[d].op = "history" PROVE FALSE
      <4>1. call'[d] = [call[d] EXCEPT !.why = "left"]  BY <2>1, <2>3, <3>1 DEF HistoriesLeft
      <4>2. call'[d].op = "history"  BY <1>0, <3>1, <4>1 DEF CallsOK, CallSet
      <4> QED  BY <2>3, <3>1, <4>2
    <3> QED  BY <2>1, <2>3, <3>1 DEF HistoriesLeft
  <2> QED  BY <2>1, <2>2, <2>3 DEF SubsKept
<1>4. ASSUME Done(c) PROVE SubsKept(c) /\ raced' = raced
  <2>1. call'[c] = Free /\ raced' = raced /\ \A d \in Calls : d # c => call'[d] = call[d]
    BY <1>0, <1>4 DEF Done, Ends, CallsOK
  <2> QED  BY <1>2, <2>1 DEF SubsKept, Free
<1>5. CASE OpenDashboard(c) \/ \E p \in Providers : OpenProvider(c, p)
  <2>1. /\ At(c, "free") /\ cop'.cur = cop.cur
        /\ LoadHistory(c, cop.cur) \/ Forsake(c)
    <3>1. CASE OpenDashboard(c)  BY <3>1 DEF OpenDashboard, Mount, Dashboard
    <3>2. ASSUME NEW p \in Providers, OpenProvider(c, p)
          PROVE  At(c, "free") /\ cop'.cur = cop.cur /\ Forsake(c)
      BY <3>2 DEF OpenProvider, Dashboard
    <3> QED  BY <1>5, <3>1, <3>2
  <2> QED  BY <1>1, <1>2, <1>3, <2>1
<1>6. CASE HandleCopyProvider(c) \/ \E t \in Targets : HandleSubscribe(c, t)
  <2>1. cop' = cop /\ At(c, "free") /\ \E t, why : Send(c, "subscribe", t, why)
    <3>1. CASE HandleCopyProvider(c)  BY <3>1 DEF HandleCopyProvider, Click
    <3>2. ASSUME NEW t \in Targets, HandleSubscribe(c, t)
          PROVE  cop' = cop /\ At(c, "free") /\ \E x, why : Send(c, "subscribe", x, why)
      BY <3>2 DEF HandleSubscribe, Click
    <3> QED  BY <1>6, <3>1, <3>2
  <2> QED  BY <1>1, <1>2, <2>1
<1>7. CASE SubscriptionChanged(c)
  <2>1. call[c].op = "subscribe" /\ (Done(c) \/ \E sub : LoadHistory(c, sub))
    BY <1>7 DEF SubscriptionChanged, Answer, NewSubscription, Mount
  <2> QED  BY <1>3, <1>4, <1>7, <2>1
<1>8. CASE HistoryLoaded(c)
  <2>1. /\ Done(c) /\ call[c].op = "history"
        /\ cop' = [cop EXCEPT !.history = call[c].answer, !.loading = FALSE]
    BY <1>8 DEF HistoryLoaded, Answer
  <2>2. cop'.cur = cop.cur  BY <1>0, <2>1 DEF PagesOK
  <2> QED  BY <1>4, <2>1, <2>2
<1> QED  BY <1>5, <1>6, <1>7, <1>8 DEF Copiers

----------------------------------------------------------------------------
(* The window of the master's node *)

\* A step of others: what the window waits for goes on, a revocation given up may end,
\* and no subscription is asked for unless the list is known to be overtaken.
LEMMA DeskElsewhere ==
  ASSUME DeskInv, UNCHANGED <<users, flaws, desk>>, "desk" \in raced => "desk" \in raced',
         \A d \in Calls :
            /\ call[d].op \in DeskOps \/ call'[d].op \in DeskOps =>
                    call'[d] = call[d] \/ (call[d].why = "left" /\ call'[d] = Free)
            /\ call'[d].op = "subscribe" => call'[d] = call[d] \/ "desk" \in raced'
  PROVE  DeskInv'
<1>0. None \notin DeskOps \cup {"subscribe"}  BY NoneAssumption DEF DeskOps, Reads
<1>1. \A d \in Calls : call'[d].op \in DeskOps => call'[d] = call[d]  BY <1>0 DEF Free
<1>2. OneAtDesk'  BY <1>1 DEF DeskInv, OneAtDesk
<1>3. InFlight({"verify"})' => desk'.key = None
  BY <1>1 DEF DeskInv, InFlight, DeskOps
<1>4. ASSUME "desk" \notin raced'
      PROVE  OnlyItsOwn' /\ (flaws' = {} => ListIsNow')
  <2>1. OnlyItsOwn /\ (flaws = {} => ListIsNow)  BY <1>4 DEF DeskInv
  <2>2. OnlyItsOwn'  BY <1>1, <1>4, <2>1 DEF OnlyItsOwn, DeskOps
  <2>3. ~UnderWay(DeskOps)' => ~UnderWay(DeskOps)  BY DEF UnderWay
  <2>4. ListIsNow => ListIsNow'  BY <1>1, <2>3 DEF ListIsNow, Granted, Subscribed, DeskOps
  <2> QED  BY <2>1, <2>2, <2>4
<1> QED  BY <1>2, <1>3, <1>4 DEF DeskInv

LEMMA DeskServed ==
  ASSUME CallsInv, DeskInv, NEW c \in Calls, ServerStep(c)
  PROVE  DeskInv'
<1>0. /\ ServeSteps(c) /\ raced' = raced /\ desk' = desk /\ AccountInv
      /\ \A d \in Calls : d # c => call'[d] = call[d]
      /\ \A d \in Calls : call'[d].op = call[d].op /\ call'[d].why = call[d].why
      /\ call[c].stage \notin {"free", "answered"}
  BY DEF ServerStep, ServeSteps, CallsInv
<1>1. OneAtDesk'  BY <1>0 DEF DeskInv, OneAtDesk
<1>2. InFlight({"verify"})' => desk'.key = None
  BY <1>0 DEF DeskInv, InFlight
<1>3. ASSUME "desk" \notin raced'
      PROVE  OnlyItsOwn' /\ (flaws' = {} => ListIsNow')
  <2>1. OnlyItsOwn /\ (flaws = {} => ListIsNow)  BY <1>0, <1>3 DEF DeskInv
  <2>2. OnlyItsOwn'  BY <1>0, <2>1 DEF OnlyItsOwn
  <2> SUFFICES ASSUME flaws' = {} PROVE ListIsNow'
    BY <2>2
  <2>3. ListIsNow  BY <1>0, <2>1 DEF ServeSteps
\* The row changes only for a revocation that the window waits for.
  <2>4. ~(call[c].op = "revoke" /\ call[c].why # "left") => Subscribed' = Subscribed
    <3>1. CASE users' = users  BY <3>1 DEF Subscribed
    <3>2. CASE SaveEntity(c)
      <4>1. call[c].op = "subscribe" \/ call[c].op = "revoke" => call[c].op = "revoke" /\ call[c].why # "left"
        BY <1>0, <2>1 DEF OnlyItsOwn
      <4> QED  BY <1>0, <3>2, <4>1, SaveForm DEF Subscribed
    <3> QED  BY <3>1, <3>2 DEF ServerStep, ReadAnswer
  <2>5. ASSUME NEW d \in Calls, Granted(d, "subscribers")'
        PROVE  call'[d].answer = Subscribed'
    <3>1. CASE d = c
      <4>0. call[c].op = "subscribers" /\ call'[c].stage = "answered" /\ call'[c].ok
        BY <1>0, <2>5, <3>1 DEF Granted
      <4>1. ~SaveEntity(c)
        <5> SUFFICES ASSUME SaveEntity(c) PROVE FALSE  OBVIOUS
        <5>1. call[c].op \in Writes  BY <1>0, SaveForm
        <5> QED  BY <4>0, <5>1 DEF Writes
      <4>2. ReadAnswer(c)  BY <4>1 DEF ServerStep
      <4> QED  BY <3>1, <4>0, <4>2 DEF ReadAnswer, Subscribed
    <3>2. CASE d # c
      <4>1. call'[d] = call[d] /\ Granted(d, "subscribers")  BY <1>0, <2>5, <3>2 DEF Granted
      <4>2. call[d].why # "left"
        BY <4>1, NoneAssumption DEF CallsInv, LeftOK, Leavable, MasterOps, Granted, Reads
      <4>3. ~(call[c].op = "revoke" /\ call[c].why # "left")
        BY <3>2, <4>1, <4>2 DEF DeskInv, OneAtDesk, DeskOps, Granted
      <4> QED  BY <2>3, <2>4, <4>1, <4>3 DEF ListIsNow
    <3> QED  BY <3>1, <3>2
  <2>6. ASSUME desk'.key # None, ~UnderWay(DeskOps)'
        PROVE  desk'.listed = Subscribed'
    <3>1. ~UnderWay(DeskOps)  BY <1>0, <2>6 DEF UnderWay
    <3>2. ~(call[c].op = "revoke" /\ call[c].why # "left")  BY <3>1 DEF UnderWay, DeskOps
    <3> QED  BY <1>0, <2>3, <2>4, <2>6, <3>1, <3>2 DEF ListIsNow
  <2> QED  BY <2>5, <2>6 DEF ListIsNow
<1> QED  BY <1>1, <1>2, <1>3 DEF DeskInv

\* The window has one call at a time, and lists anew after every change of its own.
LEMMA DeskActsKeep ==
  ASSUME CallsInv, DeskInv, NEW c \in Calls, DeskActs(c)
  PROVE  DeskInv'
<1>0. CallsOK /\ PagesOK /\ FreeIsFree /\ LeftOK /\ call[c] \in CallSet
  BY DEF CallsInv, AccountInv, CallsOK
<1>1. UNCHANGED <<users, flaws>>
  BY DeskTakes DEF PageTakes
<1>2. None \notin DeskOps \cup {"subscribe", "revoke"}  BY NoneAssumption DEF DeskOps, Reads
<1>3. \A d \in Calls : call[d].op \in {"verify", "subscribers"} => call[d].why # "left"
  BY <1>0, NoneAssumption DEF LeftOK, Leavable, MasterOps, Reads
\* A call is sent, as d, when the window waits for no other.
<1>4. ASSUME NEW d \in Calls, NEW op \in DeskOps, NEW arg, call'[d] = Request(op, arg, "desk"),
             \A e \in Calls : e # d /\ call'[e].op \in DeskOps =>
                call'[e].op = "revoke" /\ call'[e].why = "left",
             op = "verify" => desk'.key = None,
             "desk" \notin raced' => OnlyItsOwn'
      PROVE  DeskInv'
  <2>1. /\ call'[d].op = op /\ call'[d].why # "left" /\ call'[d].stage # "answered"
    BY <1>4, RequestForm
  <2>2. OneAtDesk'  BY <1>4 DEF OneAtDesk
  <2>3. InFlight({"verify"})' => desk'.key = None  BY <1>4, <2>1 DEF InFlight, DeskOps
  <2>4. UnderWay(DeskOps)'  BY <1>4, <2>1 DEF UnderWay
  <2>5. ListIsNow'  BY <1>4, <2>1, <2>4 DEF ListIsNow, Granted, DeskOps
  <2> QED  BY <1>4, <2>2, <2>3, <2>5 DEF DeskInv
<1>5. ASSUME NEW op \in DeskOps, NEW arg, Send(c, op, arg, "desk"), call[c].op # "subscribe",
             \A d \in Calls : d # c /\ call[d].op \in DeskOps =>
                call[d].op = "revoke" /\ call[d].why = "left",
             op = "verify" => desk'.key = None
      PROVE  DeskInv'
  <2>1. /\ call'[c] = Request(op, arg, "desk") /\ \A d \in Calls : d # c => call'[d] = call[d]
        /\ raced' = (raced \ Settled(op)) \cup Racing(op)
    BY <1>5 DEF Send, SendIn
  <2>2. call'[c].op = op /\ call'[c].why = "desk"  BY <2>1, RequestForm
  <2>3. ASSUME "desk" \notin raced' PROVE OnlyItsOwn'
    <3>1. CASE op = "subscribers"
      <4>1. ~Unserved({"subscribe", "revoke"})  BY <2>1, <2>3, <3>1 DEF Racing
      <4> QED  BY <2>1, <2>2, <3>1, <4>1 DEF Unserved, OnlyItsOwn
    <3>2. CASE op # "subscribers"
      <4>1. OnlyItsOwn  BY <2>1, <2>3, <3>2 DEF Settled, DeskInv
      <4> QED  BY <1>5, <2>1, <2>2, <3>2, <4>1 DEF OnlyItsOwn, DeskOps
    <3> QED  BY <3>1, <3>2
  <2> QED  BY <1>4, <1>5, <2>1, <2>3
<1>6. CASE RefreshSubscribers(c) \/ RevokeSubscriber(c) \/ \E k \in 1 .. drawn : LoginMt5(c, k)
  <2>1. PICK op, arg : /\ op \in DeskOps /\ Send(c, op, arg, "desk") /\ At(c, "free")
                       /\ ~UnderWay(DeskOps)
                       /\ op = "verify" => desk'.key = None
    BY <1>6 DEF RefreshSubscribers, RevokeSubscriber, LoginMt5, DeskClick, Click, DeskOps
  <2>2. call[c].op # "subscribe"  BY <1>0, <1>2, <2>1 DEF FreeIsFree, At, Free
  <2>3. \A d \in Calls : call[d].op \in DeskOps => call[d].op = "revoke" /\ call[d].why = "left"
    BY <1>3, <2>1 DEF UnderWay, DeskOps
  <2> QED  BY <1>5, <2>1, <2>2, <2>3
<1>7. ASSUME call[c].op \in DeskOps, call[c].why # "left"
      PROVE  \A d \in Calls : d # c /\ call[d].op \in DeskOps =>
                call[d].op = "revoke" /\ call[d].why = "left"
  BY <1>3, <1>7 DEF DeskInv, OneAtDesk, DeskOps
\* A call ends: the window waits for none.
<1>8. ASSUME Ends(c), call[c].op \in DeskOps, call[c].why # "left", call[c].stage = "answered",
             "desk" \in raced => "desk" \in raced',
             "desk" \notin raced' /\ flaws = {} /\ desk'.key # None => desk'.listed = Subscribed
      PROVE  DeskInv'
  <2>1. call'[c] = Free /\ \A d \in Calls : d # c => call'[d] = call[d]
    BY <1>0, <1>8 DEF Ends, CallsOK
  <2>2. \A d \in Calls : call'[d].op \in DeskOps =>
            call'[d].op = "revoke" /\ call'[d].why = "left" /\ call'[d] = call[d]
    BY <1>2, <1>7, <1>8, <2>1 DEF Free
  <2>3. OneAtDesk' /\ ~InFlight({"verify"})'  BY <2>2 DEF OneAtDesk, InFlight, DeskOps
  <2>4. OnlyItsOwn => OnlyItsOwn'  BY <1>2, <2>1 DEF OnlyItsOwn, Free
  <2>5. "desk" \notin raced' /\ flaws' = {} => ListIsNow'
    BY <1>1, <1>8, <2>2 DEF ListIsNow, Granted, DeskOps, Subscribed
  <2> QED  BY <1>8, <2>3, <2>4, <2>5 DEF DeskInv
<1>9. CASE DeskAnswered(c)
  <2>1. call[c].op \in {"verify", "revoke"} /\ call[c].why # "left" /\ call[c].stage = "answered"
    BY <1>9 DEF DeskAnswered, Answer, At
  <2>2. CASE call[c].op = "verify" /\ Done(c) /\ desk' = desk
    <3>1. desk.key = None  BY <2>2 DEF DeskInv, InFlight
    <3> QED  BY <1>8, <2>1, <2>2, <3>1 DEF DeskOps, Done
  <2>3. CASE Send(c, "subscribers", None, "desk")
    BY <1>5, <1>7, <2>1, <2>3 DEF DeskOps
  <2> QED  BY <1>9, <2>2, <2>3 DEF DeskAnswered
<1>10. CASE SubscribersFetched(c)
  <2>1. /\ Ends(c) /\ call[c].op = "subscribers" /\ call[c].stage = "answered" /\ call[c].why # "left"
        /\ desk' = [desk EXCEPT !.listed = IF call[c].ok THEN call[c].answer ELSE @]
        /\ raced' = IF call[c].ok THEN raced ELSE raced \cup {"desk"}
    BY <1>10 DEF SubscribersFetched, Answer, At
  <2>2. ASSUME "desk" \notin raced', flaws = {} PROVE desk'.listed = Subscribed
    <3>1. call[c].ok /\ "desk" \notin raced  BY <2>1, <2>2
    <3>2. call[c].answer = Subscribed  BY <2>1, <2>2, <3>1 DEF DeskInv, ListIsNow, Granted
    <3> QED  BY <1>0, <2>1, <3>1, <3>2 DEF PagesOK
  <2> QED  BY <1>8, <2>1, <2>2 DEF DeskOps
\* A revocation is given up: the list that is asked for may come before it is carried out.
<1>11. ASSUME NEW d \in Calls, DeskGivesUp(c, d)
       PROVE  DeskInv'
  <2>0. Free.op # "revoke"  BY <1>2 DEF Free
  <2>1. call[c].op = "revoke" /\ call[c].why # "left" /\ call[d] = Free /\ c # d
        /\ call[c].stage \notin {"free", "answered"}
    BY <1>0, <1>11, <2>0 DEF DeskGivesUp, At, FreeIsFree
  <2>2. /\ call'[d] = Request("subscribers", None, "desk")
        /\ call'[c] = [call[c] EXCEPT !.why = "left"]
        /\ \A e \in Calls : e \notin {c, d} => call'[e] = call[e]
        /\ raced' = (raced \ Settled("subscribers")) \cup Racing("subscribers")
    BY <1>11, <2>1 DEF DeskGivesUp, SendIn
  <2>3. "desk" \in raced'  BY <2>1, <2>2 DEF Racing, Unserved
  <2>4. call'[c].op = "revoke" /\ call'[c].why = "left"  BY <1>0, <2>1, <2>2 DEF CallSet
  <2>5. \A e \in Calls : e # d /\ call'[e].op \in DeskOps =>
            call'[e].op = "revoke" /\ call'[e].why = "left"
    BY <1>7, <2>1, <2>2, <2>4 DEF DeskOps
  <2> QED  BY <1>4, <2>2, <2>3, <2>5 DEF DeskOps
<1> QED  BY <1>6, <1>9, <1>10, <1>11 DEF DeskActs

LEMMA DeskStep == CallsInv /\ DeskInv /\ [Next]_vars => DeskInv'
<1> SUFFICES ASSUME CallsInv, DeskInv, [Next]_vars PROVE DeskInv'  OBVIOUS
<1>1. None \notin DeskOps /\ None \notin {"subscribe"}  BY NoneAssumption DEF DeskOps, Reads
<1>2. ASSUME NEW ops, NEW who, PageTakes(ops, who), ops \cap DeskOps = {}, "subscribe" \notin ops,
             "desk" \notin who, desk' = desk
      PROVE  DeskInv'
  <2>1. Untouched(DeskOps, {"desk"}) /\ Untouched({"subscribe"}, {"desk"})
    BY <1>1, <1>2, TakesUntouched
  <2>2. \A d \in Calls : call'[d].op = "subscribe" => call'[d] = call[d]  BY <2>1 DEF Untouched
  <2>3. \A d \in Calls : call[d].op \in DeskOps \/ call'[d].op \in DeskOps => call'[d] = call[d]
    BY <2>1 DEF Untouched
  <2>4. UNCHANGED <<users, flaws>> /\ ("desk" \in raced => "desk" \in raced')  BY <2>1 DEF Untouched
  <2> QED  BY <1>2, <2>2, <2>3, <2>4, DeskElsewhere
<1>3. CASE Still
  BY <1>3, DeskElsewhere DEF Still
<1>4. /\ AdminOps \cap DeskOps = {} /\ MasterOps \cap DeskOps = {} /\ CopierOps \cap DeskOps = {}
      /\ "subscribe" \notin AdminOps \cup MasterOps
  BY DEF AdminOps, MasterOps, DeskOps, CopierOps
<1>5. ASSUME NEW c \in Calls, Copiers(c), PageTakes(CopierOps, {}), desk' = desk
      PROVE  DeskInv'
  <2>1. Untouched(DeskOps, {"desk"})  BY <1>1, <1>4, <1>5, TakesUntouched
  <2>2. ASSUME "desk" \notin raced', NEW d \in Calls, call'[d].op = "subscribe"
        PROVE  call'[d] = call[d]
    <3>1. ~\E t, why : Send(c, "subscribe", t, why)  BY <2>2 DEF Send, SendIn, Racing
    <3>2. SubsKept(c)  BY <1>5, <3>1, CopierForm
    <3> QED  BY <2>2, <3>2 DEF SubsKept
  <2>3. \A d \in Calls : call[d].op \in DeskOps \/ call'[d].op \in DeskOps => call'[d] = call[d]
    BY <2>1 DEF Untouched
  <2>4. UNCHANGED <<users, flaws>> /\ ("desk" \in raced => "desk" \in raced')  BY <2>1 DEF Untouched
  <2> QED  BY <1>5, <2>2, <2>3, <2>4, DeskElsewhere
<1>6. ASSUME NEW c \in Calls, Unheard(c), desk' = desk
      PROVE  DeskInv'
  <2>1. /\ PageTakes(Leavable, {}) /\ call[c].why = "left" /\ call'[c] = Free
        /\ \A d \in Calls : d # c => call'[d] = call[d]
    BY <1>6, UnheardTakes
  <2>2. UNCHANGED <<users, flaws>> /\ raced \subseteq raced'  BY <2>1 DEF PageTakes
  <2>3. Free.op # "subscribe"  BY <1>1 DEF Free
  <2> QED  BY <1>6, <2>1, <2>2, <2>3, DeskElsewhere
<1>7. CASE StepTakes
  BY <1>2, <1>4, <1>5, <1>6, <1>7, DeskActsKeep DEF StepTakes
<1> QED  BY <1>3, <1>7, StepForm, DeskServed

LEMMA DeskInit == Init => DeskInv
<1> SUFFICES ASSUME Init PROVE DeskInv  OBVIOUS
<1>1. /\ \A d \in Calls : call[d].op = None
      /\ desk = [key |-> 1, listed |-> users["copier"].sub = "master"]
  BY DEF Init, PanelsInit, ServerInit, Free
<1>2. None \notin DeskOps \cup {"subscribe"}  BY NoneAssumption DEF DeskOps, Reads
<1>3. \A d \in Calls : call[d].op \notin DeskOps \cup {"subscribe"}  BY <1>1, <1>2
<1> QED
  BY <1>1, <1>3 DEF DeskInv, OneAtDesk, OnlyItsOwn, ListIsNow, Granted, DeskOps, InFlight, Subscribed

\* At rest the node's window lists the copier exactly if it is subscribed, whether its
\* revocations were granted, refused or given up; unless since the list was asked for
\* the copier changed its subscription or a revocation given up was still to be carried
\* out, the list did not come, or a save was stale.
THEOREM WindowListTrue == Spec => []DeskListTrue
<1>1. ASSUME CallsInv, DeskInv PROVE DeskListTrue
  BY <1>1 DEF DeskListTrue, Subscribed, Quiet, DeskInv, ListIsNow
<1>2. CallsInv /\ DeskInv /\ [Next]_vars => DeskInv'  BY DeskStep
<1> QED  BY <1>1, <1>2, CallsAlways, DeskInit, PTL DEF Spec

----------------------------------------------------------------------------
(* What the copier knows of its subscription *)

LEMMA SubElsewhere ==
  ASSUME SubInv, cop'.cur = cop.cur, UNCHANGED <<users, flaws>>,
         "copier" \in raced => "copier" \in raced',
         \A d \in Calls : "subscribe" \in {call[d].op, call'[d].op} => call'[d] = call[d]
  PROVE  SubInv'
<1> SUFFICES ASSUME "copier" \notin raced'
             PROVE  /\ \A d, e \in Calls : call'[d].op = "subscribe" /\ call'[e].op = "subscribe" => d = e
                    /\ flaws' = {} =>
                        /\ \A d \in Calls : Granted(d, "subscribe")' => SubIsNow(call[d].answer.sub)'
                        /\ ~Saved({"subscribe"})' => SubIsNow(cop.cur)'
  BY DEF SubInv
<1>1. \A x : SubIsNow(x) => x = users'["copier"].sub \/ (x = "master" /\ users'["copier"].sub = None)
  BY DEF SubIsNow
<1>2. ASSUME flaws' = {}, NEW d \in Calls, Granted(d, "subscribe")' PROVE SubIsNow(call[d].answer.sub)'
  <2>1. call'[d] = call[d] /\ Granted(d, "subscribe")  BY <1>2 DEF Granted
  <2>2. SubIsNow(call[d].answer.sub)  BY <1>2, <2>1 DEF SubInv
  <2> QED  BY <1>1, <2>1, <2>2 DEF SubIsNow
<1>3. ASSUME flaws' = {}, ~Saved({"subscribe"})' PROVE SubIsNow(cop.cur)'
  <2>1. ~Saved({"subscribe"})  BY <1>3 DEF Saved
  <2>2. SubIsNow(cop.cur)  BY <1>3, <2>1 DEF SubInv
  <2> QED  BY <1>1, <2>2 DEF SubIsNow
<1> QED  BY <1>2, <1>3 DEF SubInv

\* A save that is not stale sets the subscription that the copier asked for, or ends
\* that with the master.
LEMMA SubServed ==
  ASSUME CallsInv, SubInv, NEW c \in Calls, ServerStep(c)
  PROVE  SubInv'
<1> SUFFICES ASSUME "copier" \notin raced'
             PROVE  /\ \A d, e \in Calls : call'[d].op = "subscribe" /\ call'[e].op = "subscribe" => d = e
                    /\ flaws' = {} =>
                        /\ \A d \in Calls : Granted(d, "subscribe")' => SubIsNow(call[d].answer.sub)'
                        /\ ~Saved({"subscribe"})' => SubIsNow(cop.cur)'
  BY DEF SubInv
<1>0. /\ ServeSteps(c) /\ raced' = raced /\ cop' = cop /\ AccountInv
      /\ \A d \in Calls : d # c => call'[d] = call[d]
      /\ \A d \in Calls : call'[d].op = call[d].op
      /\ call[c].stage # "answered"
  BY DEF ServerStep, ServeSteps, CallsInv
<1>1. \A d, e \in Calls : call[d].op = "subscribe" /\ call[e].op = "subscribe" => d = e
  BY <1>0 DEF SubInv
<1> SUFFICES ASSUME flaws' = {}
             PROVE  /\ \A d \in Calls : Granted(d, "subscribe")' => SubIsNow(call[d].answer.sub)'
                    /\ ~Saved({"subscribe"})' => SubIsNow(cop.cur)'
  BY <1>0, <1>1
<1>2. /\ \A d \in Calls : Granted(d, "subscribe") => SubIsNow(call[d].answer.sub)
      /\ ~Saved({"subscribe"}) => SubIsNow(cop.cur)
  BY <1>0 DEF ServeSteps, SubInv
<1>3. ~Saved({"subscribe"})' => ~Saved({"subscribe"})  BY <1>0 DEF Saved
<1>4. ASSUME call[c].op # "subscribe" \/ ~SaveEntity(c), NEW x, SubIsNow(x)
      PROVE  x = users'["copier"].sub \/ (x = "master" /\ users'["copier"].sub = None)
  <2>1. CASE users' = users  BY <1>4, <2>1 DEF SubIsNow
  <2>2. CASE SaveEntity(c)  BY <1>0, <1>4, <2>2, SaveForm DEF SubIsNow
  <2> QED  BY <2>1, <2>2 DEF ServerStep, ReadAnswer
<1>5. ASSUME NEW d \in Calls, Granted(d, "subscribe")' PROVE SubIsNow(call[d].answer.sub)'
  <2>1. CASE d = c
    <3>1. SaveEntity(c)
      BY <1>0, <1>5, <2>1 DEF ServerStep, ReadAnswer, Granted, Reads
    <3> QED  BY <1>0, <1>5, <2>1, <3>1, SaveForm DEF Granted, SubIsNow
  <2>2. CASE d # c
    <3>1. call'[d] = call[d] /\ Granted(d, "subscribe")  BY <1>0, <1>5, <2>2 DEF Granted
    <3>2. call[c].op # "subscribe"  BY <1>1, <2>2, <3>1 DEF Granted
    <3> QED  BY <1>2, <1>4, <3>1, <3>2 DEF SubIsNow
  <2> QED  BY <2>1, <2>2
<1>6. ASSUME ~Saved({"subscribe"})' PROVE SubIsNow(cop.cur)'
  <2>1. call[c].op # "subscribe" \/ ~SaveEntity(c)  BY <1>0, <1>6, SaveForm DEF Saved
  <2> QED  BY <1>0, <1>2, <1>3, <1>4, <1>6, <2>1 DEF SubIsNow
<1> QED  BY <1>5, <1>6

\* A second subscription is under way only where the page has been raced.
LEMMA SubAsked ==
  ASSUME CallsInv, SubInv, NEW c \in Calls, NEW t, NEW why, Send(c, "subscribe", t, why),
         At(c, "free"), cop' = cop
  PROVE  SubInv'
<1>0. LeftOK /\ FreeIsFree  BY DEF CallsInv
<1> SUFFICES ASSUME "copier" \notin raced'
             PROVE  /\ \A d, e \in Calls : call'[d].op = "subscribe" /\ call'[e].op = "subscribe" => d = e
                    /\ flaws' = {} =>
                        /\ \A d \in Calls : Granted(d, "subscribe")' => SubIsNow(call[d].answer.sub)'
                        /\ ~Saved({"subscribe"})' => SubIsNow(cop.cur)'
  BY DEF SubInv
<1>1. /\ call'[c] = Request("subscribe", t, why) /\ \A d \in Calls : d # c => call'[d] = call[d]
      /\ raced' = raced \cup Racing("subscribe") /\ UNCHANGED <<users, flaws>>
  BY DEF Send, SendIn, Settled
<1>2. ~UnderWay({"subscribe"}) /\ "copier" \notin raced  BY <1>1 DEF Racing
<1>3. \A d \in Calls : call[d].op # "subscribe"
  BY <1>0, <1>2, NoneAssumption DEF UnderWay, LeftOK, Leavable, MasterOps
<1>4. call'[c].stage # "answered"  BY <1>1, RequestForm
<1>5. \A d \in Calls : call'[d].op = "subscribe" => d = c  BY <1>1, <1>3
<1>6. ~Saved({"subscribe"})  BY <1>3 DEF Saved
<1> QED  BY <1>1, <1>2, <1>4, <1>5, <1>6 DEF SubInv, Granted, SubIsNow

\* Moving on to a page or to another subscription, an answer, or a click
Opened(c, sub) ==
    /\ ~OnDashboard /\ call[c].op \in {None, "subscribe"}
    /\ cop' = Dashboard(sub) /\ socket' = FreshSocket /\ LoadHistory(c, sub)
Left(c, p) ==
    /\ call[c].op = None /\ socket' = NoSocket /\ Forsake(c)
    /\ cop' = [Dashboard(cop.cur) EXCEPT !.page = p, !.loading = FALSE]
Changed(c, sub) ==
    /\ OnDashboard /\ call[c].op = "subscribe" /\ socket' = socket /\ LoadHistory(c, sub)
    /\ cop' = [cop EXCEPT !.cur = sub, !.history = IF sub = None THEN None ELSE @,
                          !.loading = sub # None]
Waited(c) ==
    /\ socket' = socket /\ call[c].op \in {None, "subscribe"}
    /\ cop' = cop \/ (~OnDashboard /\ \E sub : cop' = [cop EXCEPT !.cur = sub])
    /\ Done(c) \/ \E t, why : Send(c, "subscribe", t, why)

LEMMA CopierMoves ==
  ASSUME CallsInv, NEW c \in Calls, Copiers(c)
  PROVE  \/ \E sub : Opened(c, sub) \/ Changed(c, sub)
         \/ \E p \in Providers : Left(c, p)
         \/ HistoryLoaded(c) /\ socket' = socket
         \/ Waited(c)
<1>0. FreeIsFree  BY DEF CallsInv
<1>1. At(c, "free") => call[c].op = None  BY <1>0 DEF FreeIsFree, At, Free
<1>2. CASE OpenDashboard(c)
  BY <1>1, <1>2 DEF OpenDashboard, Mount, Opened
<1>3. ASSUME NEW p \in Providers, OpenProvider(c, p) PROVE Left(c, p)
  BY <1>1, <1>3 DEF OpenProvider, Left
<1>4. CASE HandleCopyProvider(c) \/ \E t \in Targets : HandleSubscribe(c, t)
  BY <1>1, <1>4 DEF HandleCopyProvider, HandleSubscribe, Click, Waited
<1>5. CASE SubscriptionChanged(c)
  <2>1. call[c].op = "subscribe"  BY <1>5 DEF SubscriptionChanged, Answer
  <2>2. \/ Done(c) /\ UNCHANGED <<cop, socket>>
        \/ \E sub : OnDashboard /\ NewSubscription(c, sub)
        \/ \E sub : ~OnDashboard /\ Mount(c, sub)
        \/ \E sub : ~OnDashboard /\ Done(c) /\ cop' = [cop EXCEPT !.cur = sub] /\ socket' = socket
    BY <1>5 DEF SubscriptionChanged
  <2> QED  BY <2>1, <2>2 DEF NewSubscription, Mount, Opened, Changed, Waited
<1>6. CASE HistoryLoaded(c)  BY <1>6 DEF HistoryLoaded
<1> QED  BY <1>2, <1>3, <1>4, <1>5, <1>6 DEF Copiers

LEMMA SubAnswered ==
  ASSUME CallsInv, SubInv, NEW c \in Calls, SubscriptionChanged(c), SubsKept(c),
         UNCHANGED <<users, flaws>>, raced' = raced
  PROVE  SubInv'
<1> SUFFICES ASSUME "copier" \notin raced'
             PROVE  /\ \A d, e \in Calls : call'[d].op = "subscribe" /\ call'[e].op = "subscribe" => d = e
                    /\ flaws' = {} =>
                        /\ \A d \in Calls : Granted(d, "subscribe")' => SubIsNow(call[d].answer.sub)'
                        /\ ~Saved({"subscribe"})' => SubIsNow(cop.cur)'
  BY DEF SubInv
<1>0. PagesOK /\ call[c].op = "subscribe" /\ At(c, "answered")
  BY DEF CallsInv, AccountInv, SubscriptionChanged, Answer
<1>1. \A d \in Calls : call[d].op = "subscribe" => d = c  BY <1>0 DEF SubInv
<1>2. \A d \in Calls : call'[d].op # "subscribe"  BY <1>1 DEF SubsKept
<1>3. ASSUME flaws' = {} PROVE SubIsNow(cop'.cur)
  <2>1. CASE ~call[c].ok
    <3>1. ~Saved({"subscribe"})  BY <1>1, <2>1 DEF Saved
    <3>2. cop' = cop  BY <2>1 DEF SubscriptionChanged
    <3> QED  BY <1>3, <3>1, <3>2 DEF SubInv
  <2>2. CASE call[c].ok
    <3>1. cop'.cur = call[c].answer.sub
      <4>1. PICK sub : /\ sub = call[c].answer.sub
                       /\ \/ cop' = cop /\ cop.cur = sub
                          \/ NewSubscription(c, sub) \/ Mount(c, sub)
                          \/ cop' = [cop EXCEPT !.cur = sub]
        BY <2>2, Zenon DEF SubscriptionChanged
      <4>2. NewSubscription(c, sub) => cop'.cur = sub  BY <1>0 DEF NewSubscription, PagesOK
      <4>3. Mount(c, sub) => cop'.cur = sub  BY DEF Mount, Dashboard
      <4>4. cop' = [cop EXCEPT !.cur = sub] => cop'.cur = sub  BY <1>0 DEF PagesOK
      <4> QED  BY <4>1, <4>2, <4>3, <4>4
    <3>2. Granted(c, "subscribe")  BY <1>0, <2>2 DEF Granted, At
    <3> QED  BY <1>3, <3>1, <3>2 DEF SubInv
  <2> QED  BY <2>1, <2>2
<1> QED  BY <1>2, <1>3 DEF Granted, SubIsNow

LEMMA SubStep == CallsInv /\ SubInv /\ [Next]_vars => SubInv'
<1> SUFFICES ASSUME CallsInv, SubInv, [Next]_vars PROVE SubInv'  OBVIOUS
<1>1. None \notin {"subscribe"}  BY NoneAssumption
<1>2. ASSUME NEW ops, NEW who, PageTakes(ops, who), "subscribe" \notin ops, "copier" \notin who,
             cop' = cop
      PROVE  SubInv'
  <2>1. Untouched({"subscribe"}, {"copier"})  BY <1>1, <1>2, TakesUntouched
  <2> QED  BY <1>2, <2>1, SubElsewhere DEF Untouched
<1>3. CASE Still
  BY <1>3, SubElsewhere DEF Still, CopierStill
<1>4. "subscribe" \notin AdminOps \cup MasterOps \cup DeskOps \cup Leavable
  BY DEF AdminOps, MasterOps, DeskOps, Leavable
<1>5. ASSUME NEW c \in Calls, Copiers(c), PageTakes(CopierOps, {})
      PROVE  SubInv'
  <2>1. UNCHANGED <<users, flaws>>  BY <1>5 DEF PageTakes
  <2>2. CASE \E t, why : Send(c, "subscribe", t, why) /\ At(c, "free") /\ cop' = cop
    BY <2>2, SubAsked
  <2>3. CASE SubsKept(c) /\ raced' = raced
    <3>1. CASE SubscriptionChanged(c)  BY <2>1, <2>3, <3>1, SubAnswered
    <3>2. CASE cop'.cur = cop.cur /\ call[c].op # "subscribe"
      BY <2>1, <2>3, <3>2, SubElsewhere DEF SubsKept
    <3> QED  BY <1>5, <3>1, <3>2, CopierForm
  <2> QED  BY <1>5, <2>2, <2>3, CopierForm
<1>6. CASE StepTakes
  BY <1>2, <1>4, <1>5, <1>6 DEF StepTakes
<1> QED  BY <1>3, <1>6, StepForm, SubServed

LEMMA SubInit == Init => SubInv
<1> SUFFICES ASSUME Init PROVE SubInv  OBVIOUS
<1>1. /\ \A d \in Calls : call[d].op = None
      /\ cop.cur = users["copier"].sub
  BY DEF Init, PanelsInit, ServerInit, Free, Dashboard
<1> QED  BY <1>1, NoneAssumption DEF SubInv, Granted, SubIsNow

----------------------------------------------------------------------------
(* The history on the copier's dashboard *)

LEMMA HistoryElsewhere ==
  ASSUME HistoryInv, cop'.page = cop.page, cop'.cur = cop.cur,
         cop'.history = cop.history, cop'.loading = cop.loading,
         \A d \in Calls : Asked(d) \/ Asked(d)' => call'[d] = call[d]
  PROVE  HistoryInv'
<1>1. \A d \in Calls : Asked(d)' <=> Asked(d)  BY DEF Asked
<1>2. OnDashboard' <=> OnDashboard  BY DEF OnDashboard
<1> QED  BY <1>1, <1>2 DEF HistoryInv

\* What was under way is left, and the history of `sub` is asked for, if any.
LEMMA HistoryAsked ==
  ASSUME CallsInv, NEW c \in Calls, call[c].op \in {None, "subscribe"}, NEW sub, LoadHistory(c, sub)
  PROVE  /\ \A d \in Calls : Asked(d)' =>
                d = c /\ sub # None /\ call'[d].arg = sub /\ call'[d].stage # "answered"
         /\ sub # None => Asked(c)'
<1>0. CallsOK  BY DEF CallsInv, AccountInv
<1>1. HistoriesLeft(c) /\ call'[c] = IF sub = None THEN Free ELSE Request("history", sub, "copier")
  BY HistoryTakes
<1>2. ASSUME NEW d \in Calls, d # c, Asked(d)' PROVE FALSE
  <2>1. CASE call[d].op = "history"
    <3>1. call'[d].why = "left"  BY <1>0, <1>1, <1>2, <2>1 DEF HistoriesLeft, CallsOK, CallSet
    <3> QED  BY <1>2, <3>1 DEF Asked
  <2>2. CASE call[d].op # "history"
    BY <1>1, <1>2, <2>2 DEF HistoriesLeft, Asked
  <2> QED  BY <2>1, <2>2
<1>3. CASE sub = None
  <2>1. ~Asked(c)'  BY <1>1, <1>3, NoneAssumption DEF Asked, Free, Reads
  <2> QED  BY <1>2, <1>3, <2>1
<1>4. CASE sub # None
  <2>1. call'[c] = Request("history", sub, "copier")  BY <1>1, <1>4
  <2>2. Asked(c)' /\ call'[c].arg = sub /\ call'[c].stage # "answered"
    BY <2>1, RequestForm DEF Asked
  <2> QED  BY <1>2, <1>4, <2>2
<1> QED  BY <1>3, <1>4

LEMMA HistoryForsaken ==
  ASSUME CallsInv, NEW c \in Calls, call[c].op \in {None, "subscribe"}, Forsake(c)
  PROVE  \A d \in Calls : ~Asked(d)'
<1>0. CallsOK  BY DEF CallsInv, AccountInv
<1>1. HistoriesLeft(c) /\ call'[c] = Free  BY HistoryTakes
<1>2. ~Asked(c)'  BY <1>1, NoneAssumption DEF Asked, Free, Reads
<1>3. ASSUME NEW d \in Calls, d # c, Asked(d)' PROVE FALSE
  <2>1. CASE call[d].op = "history"
    <3>1. call'[d].why = "left"  BY <1>0, <1>1, <1>3, <2>1 DEF HistoriesLeft, CallsOK, CallSet
    <3> QED  BY <1>3, <3>1 DEF Asked
  <2>2. CASE call[d].op # "history"
    BY <1>1, <1>3, <2>2 DEF HistoriesLeft, Asked
  <2> QED  BY <2>1, <2>2
<1> QED  BY <1>2, <1>3

LEMMA HistoryActs ==
  ASSUME CallsInv, HistoryInv, NEW c \in Calls, Copiers(c)
  PROVE  HistoryInv'
<1>0. PagesOK /\ CallsOK  BY DEF CallsInv, AccountInv
<1>1. ASSUME NEW sub, LoadHistory(c, sub), call[c].op \in {None, "subscribe"},
             cop'.page = "dashboard", cop'.cur = sub, cop'.loading = (sub # None),
             sub = None => cop'.history = None
      PROVE  HistoryInv'
  <2>1. /\ \A d \in Calls : Asked(d)' =>
                d = c /\ sub # None /\ call'[d].arg = sub /\ call'[d].stage # "answered"
        /\ sub # None => Asked(c)'
    BY <1>1, HistoryAsked
  <2> QED  BY <1>1, <2>1 DEF HistoryInv, OnDashboard
<1>2. ASSUME NEW sub, Opened(c, sub) PROVE HistoryInv'
  BY <1>1, <1>2 DEF Opened, Dashboard
<1>3. ASSUME NEW sub, Changed(c, sub) PROVE HistoryInv'
  BY <1>0, <1>1, <1>3 DEF Changed, PagesOK, OnDashboard
<1>4. ASSUME NEW p \in Providers, Left(c, p) PROVE HistoryInv'
  <2>1. \A d \in Calls : ~Asked(d)'  BY <1>4, HistoryForsaken DEF Left
  <2>2. ~OnDashboard'
    <3>1. cop'.page = p  BY <1>4 DEF Left, Dashboard
    <3> QED  BY <3>1 DEF OnDashboard, Providers, Targets
  <2> QED  BY <2>1, <2>2 DEF HistoryInv
<1>5. CASE HistoryLoaded(c)
  <2>1. /\ Asked(c) /\ call[c].stage = "answered" /\ Done(c)
        /\ cop' = [cop EXCEPT !.history = call[c].answer, !.loading = FALSE]
    BY <1>5 DEF HistoryLoaded, Answer, At, Asked
  <2>2. call'[c] = Free /\ \A d \in Calls : d # c => call'[d] = call[d]
    BY <1>0, <2>1 DEF Done, Ends, CallsOK
  <2>3. ~Asked(c)'  BY <2>2, NoneAssumption DEF Asked, Free, Reads
  <2>4. \A d \in Calls : Asked(d)' => Asked(d) /\ call'[d] = call[d]
    BY <2>2, <2>3 DEF Asked
  <2>5. /\ cop'.page = cop.page /\ cop'.cur = cop.cur
        /\ cop'.history = call[c].answer /\ cop'.loading = FALSE
    BY <1>0, <2>1 DEF PagesOK
  <2> QED  BY <2>1, <2>4, <2>5 DEF HistoryInv, OnDashboard
<1>6. CASE Waited(c)
  <2>1. \A d \in Calls : d # c => call'[d] = call[d]
    BY <1>0, <1>6 DEF Waited, Done, Ends, CallsOK, Send, SendIn
  <2>2. call'[c] = Free \/ \E t, why : call'[c] = Request("subscribe", t, why)
    BY <1>0, <1>6 DEF Waited, Done, Ends, CallsOK, Send, SendIn
  <2>3. call[c].op # "history" /\ call'[c].op # "history"
    BY <1>6, <2>2, RequestForm, NoneAssumption DEF Waited, Free, Reads
  <2>4. \A d \in Calls : Asked(d) \/ Asked(d)' => call'[d] = call[d]
    BY <2>1, <2>3 DEF Asked
  <2>5. CASE cop' = cop  BY <2>4, <2>5, HistoryElsewhere
  <2>6. CASE ~OnDashboard /\ \E sub : cop' = [cop EXCEPT !.cur = sub]
    <3>1. ~OnDashboard'  BY <1>0, <2>6 DEF PagesOK, OnDashboard
    <3>2. \A d \in Calls : ~Asked(d)  BY <2>6 DEF HistoryInv
    <3>3. \A d \in Calls : ~Asked(d)'  BY <2>4, <3>2 DEF Asked
    <3> QED  BY <3>1, <3>3 DEF HistoryInv
  <2> QED  BY <1>6, <2>5, <2>6 DEF Waited
<1> QED  BY <1>2, <1>3, <1>4, <1>5, <1>6, CopierMoves

LEMMA HistoryServed ==
  ASSUME CallsInv, HistoryInv, NEW c \in Calls, ServerStep(c)
  PROVE  HistoryInv'
<1>0. /\ ServeSteps(c) /\ cop' = cop /\ CallsOK
      /\ \A d \in Calls : d # c => call'[d] = call[d]
      /\ call'[c].op = call[c].op /\ call'[c].arg = call[c].arg /\ call'[c].why = call[c].why
  BY DEF ServerStep, ServeSteps, CallsInv, AccountInv
<1>1. \A d \in Calls : (Asked(d)' <=> Asked(d)) /\ call'[d].arg = call[d].arg
  BY <1>0 DEF Asked
<1>2. ASSUME Asked(c), call'[c].stage = "answered" PROVE call'[c].answer \in {None, cop.cur}
  <2>1. ~SaveEntity(c)
    <3>1. SaveEntity(c) => call[c].op \in Writes  BY <1>0 DEF SaveEntity, At, CallsOK, CallOK
    <3> QED  BY <1>2, <3>1 DEF Asked, Writes
  <2>2. ReadAnswer(c)  BY <2>1 DEF ServerStep
  <2>3. call[c].arg = cop.cur  BY <1>2 DEF HistoryInv
  <2> QED  BY <1>2, <2>2, <2>3 DEF ReadAnswer, Asked
<1>3. OnDashboard' <=> OnDashboard  BY <1>0 DEF OnDashboard
<1> QED  BY <1>0, <1>1, <1>2, <1>3 DEF HistoryInv

LEMMA HistoryStep == CallsInv /\ HistoryInv /\ [Next]_vars => HistoryInv'
<1> SUFFICES ASSUME CallsInv, HistoryInv, [Next]_vars PROVE HistoryInv'  OBVIOUS
<1>1. None \notin {"history"}  BY NoneAssumption DEF Reads
<1>2. ASSUME NEW ops, NEW who, PageTakes(ops, who), "history" \notin ops, cop' = cop
      PROVE  HistoryInv'
  <2>1. Untouched({"history"}, {})  BY <1>1, <1>2, TakesUntouched
  <2> QED  BY <1>2, <2>1, HistoryElsewhere DEF Untouched, Asked
<1>3. CASE Still
  BY <1>3, HistoryElsewhere DEF Still, CopierStill
<1>4. "history" \notin AdminOps \cup MasterOps \cup DeskOps
  BY DEF AdminOps, MasterOps, DeskOps
<1>5. ASSUME NEW c \in Calls, Unheard(c), cop' = cop PROVE HistoryInv'
  <2>1. /\ call[c].why = "left" /\ call'[c] = Free
        /\ \A d \in Calls : d # c => call'[d] = call[d]
    BY <1>5, UnheardTakes
  <2>2. ~Asked(c) /\ ~Asked(c)'  BY <1>1, <2>1 DEF Asked, Free
  <2>3. \A d \in Calls : Asked(d) \/ Asked(d)' => call'[d] = call[d]  BY <2>1, <2>2
  <2> QED  BY <1>5, <2>3, HistoryElsewhere
<1>6. CASE StepTakes
  BY <1>2, <1>4, <1>5, <1>6, HistoryActs DEF StepTakes
<1> QED  BY <1>3, <1>6, StepForm, HistoryServed

LEMMA HistoryInit == Init => HistoryInv
<1> SUFFICES ASSUME Init PROVE HistoryInv  OBVIOUS
<1>1. /\ \A d \in Calls : call[d].op = None
      /\ cop.page = "away"
  BY DEF Init, PanelsInit, ServerInit, Free, Dashboard
<1> QED  BY <1>1, NoneAssumption DEF HistoryInv, Asked, OnDashboard, Reads

\* The copier's dashboard never shows the trade history of another provider than the
\* one it names, however subscriptions, visits and answers overlapped; and at rest
\* this provider is the subscription as saved, or one its master has revoked,
\* unless two subscriptions overlapped.
THEOREM CopierSeesItsProvider == Spec => []CopierPageTrue
<1>1. ASSUME CallsInv, HistoryInv, SubInv PROVE CopierPageTrue
  <2>0. PagesOK /\ LeftOK  BY <1>1 DEF CallsInv, AccountInv
  <2>1. ASSUME OnDashboard, "history" \in Sections
        PROVE  /\ HistoryTable \in {cop.cur, "No trade history yet", "skeleton"}
               /\ HistoryTable = "skeleton" => UnderWay({"history"})
    <3>1. CASE cop.loading
      <4>1. PICK d \in Calls : Asked(d)  BY <1>1, <2>1, <3>1 DEF HistoryInv
      <4> QED  BY <3>1, <4>1 DEF HistoryTable, Asked, UnderWay
    <3>2. CASE ~cop.loading
      <4>1. cop.history \in {None, cop.cur}  BY <1>1, <2>1, <3>2 DEF HistoryInv
      <4>2. cop.cur \in {"master", "other", None}  BY <2>0 DEF PagesOK, Targets
      <4> QED  BY <3>2, <4>1, <4>2 DEF HistoryTable
    <3> QED  BY <3>1, <3>2
  <2>2. ASSUME Quiet({"subscribe"}), "copier" \notin raced
        PROVE  SubIsNow(cop.cur)
    <3>1. ~Saved({"subscribe"})
      BY <2>0, <2>2, NoneAssumption DEF Saved, Quiet, UnderWay, LeftOK, Leavable, MasterOps
    <3> QED  BY <1>1, <2>2, <3>1 DEF SubInv, Quiet
  <2> QED  BY <2>1, <2>2 DEF CopierPageTrue, SubIsNow
<1> QED  BY <1>1, CallsAlways, HistoryInit, HistoryStep, SubInit, SubStep, PTL DEF Spec

----------------------------------------------------------------------------
(* What the page has seen since the dashboard was opened *)

\* What has been so stays on the record until the dashboard is opened anew.
SinceGrows ==
    OnDashboard' =>
        \/ OnDashboard /\ since.subs \subseteq since'.subs /\ since.switch \subseteq since'.switch
        \/ ~OnDashboard /\ since' = Now(users')

LEMMA SinceStep ==
  ASSUME CallsInv, SinceInv, [Next]_vars
  PROVE  SinceInv' /\ SinceGrows
<1>1. CASE UNCHANGED vars
  BY <1>1 DEF vars, serverVars, copVars, SinceInv, SinceGrows, OnDashboard
<1>2. CASE Next
  <2>1. RowsOK'
    <3>1. AccountInv  BY DEF CallsInv
    <3> QED  BY <3>1, AccountStep DEF AccountInv
  <2>2. users'["copier"].sub \in Targets /\ users'["master"].active \in BOOLEAN
    BY <2>1 DEF RowsOK, AccountRow, Persons
  <2>3. since' = IF cop'.page = "dashboard" /\ ~OnDashboard THEN Now(users')
                 ELSE [subs |-> since.subs \cup Now(users').subs,
                       switch |-> since.switch \cup Now(users').switch]
    BY <1>2 DEF Next
  <2>4. Now(users') = [subs |-> {users'["copier"].sub}, switch |-> {users'["master"].active}]
    BY DEF Now
  <2>5. /\ since'.subs \subseteq Targets /\ users'["copier"].sub \in since'.subs
        /\ since'.switch \subseteq BOOLEAN /\ users'["master"].active \in since'.switch
    <3>1. CASE cop'.page = "dashboard" /\ ~OnDashboard
      BY <2>2, <2>3, <2>4, <3>1
    <3>2. CASE ~(cop'.page = "dashboard" /\ ~OnDashboard)
      BY <2>2, <2>3, <2>4, <3>2 DEF SinceInv
    <3> QED  BY <3>1, <3>2
  <2> QED  BY <2>3, <2>5 DEF SinceInv, SinceGrows, OnDashboard
<1> QED  BY <1>1, <1>2

LEMMA SinceInit == Init => SinceInv
<1> SUFFICES ASSUME Init PROVE SinceInv  OBVIOUS
<1>1. RowsOK  BY AccountInit DEF AccountInv
<1>2. since = Now(users)  BY DEF Init
<1> QED  BY <1>1, <1>2 DEF SinceInv, Now, RowsOK, AccountRow, Persons

----------------------------------------------------------------------------
(* The signals that the copier's dashboard keeps *)

LEMMA Rooms == "asked" \notin Providers /\ None \notin Providers /\ "dashboard" \notin Providers
                /\ Providers \subseteq Targets
  BY DEF Providers, Targets

LEMMA FromForm ==
  ASSUME NEW s \in Seq(Heard), NEW S
  PROVE  {s[i].from : i \in DOMAIN s} \subseteq S <=> \A i \in 1 .. Len(s) : s[i].from \in S
<1>1. DOMAIN s = 1 .. Len(s)  OBVIOUS
<1> QED  BY <1>1

\* A signal is put in front, and the last ones go beyond the cap.
LEMMA HeardForm ==
  ASSUME SocketInv, socket.room \in Providers, NEW event \in {"OPEN", "CLOSE"}, Signal(event)
  PROVE  /\ socket'.trades \in Seq(Heard) /\ Len(socket'.trades) <= Len(socket.trades) + 1
         /\ \A i \in 1 .. Len(socket'.trades) :
                \/ socket'.trades[i].from = socket.room
                \/ \E j \in 1 .. Len(socket.trades) : socket'.trades[i] = socket.trades[j]
         /\ socket' = [socket EXCEPT !.trades = socket'.trades, !.total = @ + 1]
<1> DEFINE heard == <<[from |-> socket.room, event |-> event]>> \o socket.trades
           n == IF Len(heard) > TradesCap THEN TradesCap ELSE Len(heard)
<1>1. socket.trades \in Seq(Heard) /\ <<[from |-> socket.room, event |-> event]>> \in Seq(Heard)
      /\ Len(<<[from |-> socket.room, event |-> event]>>) = 1
  BY DEF SocketInv, Heard
<1>2. /\ heard \in Seq(Heard) /\ Len(heard) = 1 + Len(socket.trades)
      /\ \A i \in 1 .. Len(heard) :
            heard[i] = IF i <= 1 THEN <<[from |-> socket.room, event |-> event]>>[i]
                       ELSE socket.trades[i - 1]
  BY <1>1, ConcatProperties
<1>3. socket' = [socket EXCEPT !.trades = SubSeq(heard, 1, n), !.total = @ + 1]
  BY DEF Signal
<1>4. socket'.trades = SubSeq(heard, 1, n)  BY <1>3 DEF SocketInv
<1>5. n \in Nat /\ n <= Len(heard)  BY <1>2, PagesAssumption
<1> HIDE DEF n
<1>6. \A i \in 1 .. n : heard[i] \in Heard  BY <1>2, <1>5
<1> HIDE DEF heard
<1>7. /\ socket'.trades \in Seq(Heard) /\ Len(socket'.trades) = n
      /\ \A i \in 1 .. n : socket'.trades[i] = heard[i]
  <2>1. /\ SubSeq(heard, 1, n) \in Seq(Heard)
        /\ Len(SubSeq(heard, 1, n)) = IF 1 <= n THEN n - 1 + 1 ELSE 0
        /\ \A i \in 1 .. n - 1 + 1 : SubSeq(heard, 1, n)[i] = heard[1 + i - 1]
    BY <1>5, <1>6, SubSeqProperties
  <2> QED  BY <1>4, <1>5, <2>1
<1>8. ASSUME NEW i \in 1 .. n
      PROVE  \/ heard[i].from = socket.room
             \/ \E j \in 1 .. Len(socket.trades) : heard[i] = socket.trades[j]
  <2>1. CASE i = 1  BY <1>2, <1>5, <2>1
  <2>2. CASE i # 1
    <3>1. i - 1 \in 1 .. Len(socket.trades) /\ heard[i] = socket.trades[i - 1]
      BY <1>1, <1>2, <1>5, <2>2
    <3> QED  BY <3>1
  <2> QED  BY <2>1, <2>2
<1>9. Len(socket'.trades) <= Len(socket.trades) + 1  BY <1>1, <1>2, <1>5, <1>7
<1> QED  BY <1>3, <1>4, <1>7, <1>8, <1>9

LEMMA SocketStays ==
  ASSUME SocketInv, SinceGrows, socket' = socket, OnDashboard' => OnDashboard
  PROVE  SocketInv'
<1>1. OnDashboard' => since.subs \subseteq since'.subs  BY DEF SinceGrows
<1>2. From' = From  BY DEF From
<1> QED  BY <1>1, <1>2 DEF SocketInv

LEMMA SocketAnew ==
  ASSUME socket' \in {NoSocket, FreshSocket}
  PROVE  SocketInv'
<1>1. /\ socket'.trades = <<>> /\ socket'.room = None /\ socket'.total = 0
      /\ socket' \in [state : {None, "connecting", "connected", "disconnected"},
                      room : Targets \cup {"asked"}, trades : Seq(Heard), total : Nat]
  <2>1. <<>> \in Seq(Heard) /\ None \in Targets  BY DEF Targets
  <2>2. FreshSocket = [state |-> "connecting", room |-> None, trades |-> <<>>, total |-> 0]
    BY DEF FreshSocket, NoSocket
  <2>3. CASE socket' = NoSocket  BY <2>1, <2>3 DEF NoSocket
  <2>4. CASE socket' = FreshSocket  BY <2>1, <2>2, <2>4
  <2> QED  BY <2>3, <2>4
<1>2. From' = {}  BY <1>1 DEF From
<1> QED  BY <1>1, <1>2, Rooms DEF SocketInv

LEMMA SocketActs ==
  ASSUME CallsInv, SinceInv, SinceInv', SocketInv, SinceGrows, CopierStill, users' = users
  PROVE  SocketInv'
<1>0. OnDashboard' <=> OnDashboard  BY DEF CopierStill, OnDashboard
<1>1. OnDashboard' => since.subs \subseteq since'.subs  BY <1>0 DEF SinceGrows
<1>2. users["copier"].sub \in Targets /\ users["copier"].sub \in since'.subs
  BY DEF SinceInv
<1>3. ASSUME NEW state \in {"connecting", "connected", "disconnected"},
             NEW room \in Targets \cup {"asked"}, room \in Providers => room \in since'.subs,
             socket' = [socket EXCEPT !.state = state, !.room = room]
      PROVE  SocketInv'
  <2>1. /\ socket' \in [state : {None, "connecting", "connected", "disconnected"},
                        room : Targets \cup {"asked"}, trades : Seq(Heard), total : Nat]
        /\ socket'.trades = socket.trades /\ socket'.total = socket.total /\ socket'.room = room
    BY <1>3 DEF SocketInv
  <2>2. From' = From  BY <2>1 DEF From
  <2> QED  BY <1>0, <1>1, <1>3, <2>1, <2>2 DEF SocketInv
<1>4. CASE socket' = socket  BY <1>0, <1>4, SocketStays
<1>5. CASE SocketConnects
  BY <1>3, <1>5, Rooms DEF SocketConnects
<1>6. CASE Registered
  <2>1. socket' = [socket EXCEPT !.state = "connected", !.room = users["copier"].sub]
    BY <1>6 DEF Registered, SocketInv
  <2> QED  BY <1>2, <1>3, <2>1
<1>7. CASE SocketDrops
  BY <1>3, <1>7, Rooms DEF SocketDrops, Targets
<1>8. ASSUME NEW event \in {"OPEN", "CLOSE"}, Signal(event) PROVE SocketInv'
  <2>0. socket.room \in Providers  BY <1>8 DEF Signal
  <2>1. /\ socket'.trades \in Seq(Heard) /\ Len(socket'.trades) <= Len(socket.trades) + 1
        /\ \A i \in 1 .. Len(socket'.trades) :
                \/ socket'.trades[i].from = socket.room
                \/ \E j \in 1 .. Len(socket.trades) : socket'.trades[i] = socket.trades[j]
        /\ socket' = [socket EXCEPT !.trades = socket'.trades, !.total = @ + 1]
    BY <1>8, <2>0, HeardForm
  <2>2. socket.trades \in Seq(Heard) /\ socket.total \in Nat  BY DEF SocketInv
  <2>3. /\ socket' \in [state : {None, "connecting", "connected", "disconnected"},
                        room : Targets \cup {"asked"}, trades : Seq(Heard), total : Nat]
        /\ socket'.total = socket.total + 1 /\ socket'.room = socket.room
    <3>1. PICK trades \in Seq(Heard) : socket' = [socket EXCEPT !.trades = trades, !.total = @ + 1]
      BY <2>1
    <3>2. socket.total + 1 \in Nat  BY <2>2
    <3> QED  BY <3>1, <3>2 DEF SocketInv
  <2>4. Len(socket'.trades) <= socket'.total  BY <2>1, <2>2, <2>3 DEF SocketInv
  <2>5. ASSUME OnDashboard'
        PROVE  socket'.room \in since'.subs /\ From' \subseteq since'.subs
    <3>1. From \subseteq since.subs /\ socket.room \in since.subs /\ since.subs \subseteq since'.subs
      BY <1>0, <1>1, <2>0, <2>5 DEF SocketInv
    <3>2. \A j \in 1 .. Len(socket.trades) : socket.trades[j].from \in since.subs
      BY <2>2, <3>1, FromForm DEF From
    <3>3. \A i \in 1 .. Len(socket'.trades) : socket'.trades[i].from \in since'.subs
      BY <2>1, <3>1, <3>2
    <3>4. {socket'.trades[i].from : i \in DOMAIN socket'.trades} \subseteq since'.subs
      BY <2>1, <3>3, FromForm
    <3> QED  BY <2>3, <3>1, <3>4 DEF From
  <2> QED  BY <2>3, <2>4, <2>5 DEF SocketInv
<1> QED  BY <1>4, <1>5, <1>6, <1>7, <1>8 DEF CopierStill

LEMMA SocketStep == CallsInv /\ SinceInv /\ SocketInv /\ [Next]_vars => SocketInv'
<1> SUFFICES ASSUME CallsInv, SinceInv, SocketInv, [Next]_vars PROVE SocketInv'  OBVIOUS
<1>1. SinceInv' /\ SinceGrows  BY SinceStep
<1>2. ASSUME socket' = socket, cop' = cop PROVE SocketInv'
  BY <1>1, <1>2, SocketStays DEF OnDashboard
<1>3. ASSUME NEW c \in Calls, Copiers(c) PROVE SocketInv'
  <2>0. PagesOK  BY DEF CallsInv, AccountInv
  <2>1. CASE \E sub : Opened(c, sub)
    BY <2>1, SocketAnew DEF Opened
  <2>2. CASE \E p \in Providers : Left(c, p)
    BY <2>2, SocketAnew DEF Left
  <2>3. CASE \/ \E sub : Changed(c, sub)
             \/ HistoryLoaded(c) /\ socket' = socket
             \/ Waited(c)
    <3>1. socket' = socket  BY <2>3 DEF Changed, Waited
    <3>2. cop'.page = cop.page
      BY <2>0, <2>3 DEF Changed, Waited, HistoryLoaded, PagesOK
    <3> QED  BY <1>1, <3>1, <3>2, SocketStays DEF OnDashboard
  <2> QED  BY <1>3, <2>1, <2>2, <2>3, CopierMoves
<1>4. CASE StepTakes  BY <1>2, <1>3, <1>4 DEF StepTakes
<1>5. CASE Still  BY <1>1, <1>5, SocketActs DEF Still
<1>6. ASSUME NEW c \in Calls, ServerStep(c) PROVE SocketInv'
  BY <1>2, <1>6 DEF ServerStep
<1> QED  BY <1>4, <1>5, <1>6, StepForm

LEMMA SocketInit == Init => SocketInv
<1> SUFFICES ASSUME Init PROVE SocketInv  OBVIOUS
<1>1. socket = NoSocket /\ ~OnDashboard  BY DEF Init, Dashboard, OnDashboard
<1> QED  BY <1>1 DEF SocketInv, NoSocket, Targets

\* Every signal on the copier's dashboard came from a provider it was subscribed to since
\* the dashboard was opened; at rest, when the subscription has not changed since, from
\* the one the page names; and it counts no more copied trades than signals.
THEOREM SignalsFromProvider == Spec => []SignalsAreTheProviders
<1>1. ASSUME CallsInv, SubInv, SinceInv, SocketInv PROVE SignalsAreTheProviders
  <2>0. /\ PagesOK /\ LeftOK /\ socket.trades \in Seq(Heard) /\ socket.total \in Nat
        /\ socket.state \in {None, "connecting", "connected", "disconnected"}
    BY <1>1 DEF CallsInv, AccountInv, SocketInv
  <2>1. OnDashboard => From \subseteq since.subs  BY <1>1 DEF SocketInv
  <2>2. ASSUME OnDashboard, Quiet({"subscribe"}), "copier" \notin raced,
               Cardinality(since.subs) = 1, From # {}
        PROVE  From = {cop.cur} /\ Status # "not-subscribed"
    <3>1. IsFiniteSet({"master", "other", None})
      <4>1. IsFiniteSet({"master"})  BY FS_Singleton
      <4>2. IsFiniteSet({"master"} \cup {"other"})  BY <4>1, FS_AddElement
      <4>3. IsFiniteSet({"master"} \cup {"other"} \cup {None})  BY <4>2, FS_AddElement
      <4>4. {"master"} \cup {"other"} \cup {None} = {"master", "other", None}  OBVIOUS
      <4> QED  BY <4>3, <4>4
    <3>2. IsFiniteSet(since.subs)  BY <1>1, <3>1, FS_Subset DEF SinceInv, Targets
    <3>3. PICK x : since.subs = {x}  BY <2>2, <3>2, FS_Singleton
    <3>4. since.subs = {users["copier"].sub}  BY <1>1, <3>3 DEF SinceInv
    <3>5. From \subseteq Providers
      <4>1. \A i \in 1 .. Len(socket.trades) : socket.trades[i].from \in Providers
        <5>1. \A i \in 1 .. Len(socket.trades) : socket.trades[i] \in Heard  BY <2>0
        <5> QED  BY <5>1 DEF Heard
      <4> QED  BY <2>0, <4>1, FromForm DEF From
    <3>6. From = {users["copier"].sub} /\ users["copier"].sub \in Providers
      BY <2>1, <2>2, <3>4, <3>5
    <3>7. ~Saved({"subscribe"})
      BY <2>0, <2>2, NoneAssumption DEF Saved, Quiet, UnderWay, LeftOK, Leavable, MasterOps
    <3>8. SubIsNow(cop.cur)  BY <1>1, <2>2, <3>7 DEF SubInv, Quiet
    <3>9. cop.cur = users["copier"].sub /\ cop.cur # None  BY <3>6, <3>8, Rooms DEF SubIsNow
    <3> QED  BY <3>6, <3>9 DEF Status
  <2>3. SubscriptionCard.mirrored <= SubscriptionCard.today
    <3>1. DOMAIN socket.trades = 1 .. Len(socket.trades) /\ Len(socket.trades) \in Nat  BY <2>0
    <3>2. /\ IsFiniteSet(1 .. Len(socket.trades))
          /\ Cardinality(1 .. Len(socket.trades)) = Len(socket.trades)
      BY <3>1, FS_Interval
    <3> DEFINE opens == {i \in DOMAIN socket.trades : socket.trades[i].event = "OPEN"}
    <3>3. opens \in SUBSET (1 .. Len(socket.trades))  BY <3>1
    <3>4. IsFiniteSet(opens) /\ Cardinality(opens) <= Len(socket.trades)
      BY <3>2, <3>3, FS_Subset
    <3>5. Cardinality(opens) \in Nat  BY <3>4, FS_CardinalityType
    <3> HIDE DEF opens
    <3>6. Cardinality(opens) <= socket.total  BY <1>1, <2>0, <3>1, <3>4, <3>5 DEF SocketInv
    <3> QED  BY <3>6 DEF SubscriptionCard, MirroredTrades, TodayCount, opens
  <2> QED  BY <2>1, <2>2, <2>3 DEF SignalsAreTheProviders, From
<1>2. CallsInv /\ SinceInv /\ [Next]_vars => SinceInv'  BY SinceStep
<1> QED
  BY <1>1, <1>2, CallsAlways, SubInit, SubStep, SinceInit, SocketInit, SocketStep, PTL DEF Spec

----------------------------------------------------------------------------
(* The marketplace on the copier's dashboard *)

LEMMA MarketStays ==
  ASSUME MarketInv, SinceInv', SinceGrows, OnDashboard' => OnDashboard,
         cop'.market = cop.market, cop'.masters = cop.masters, cop'.trending = cop.trending
  PROVE  MarketInv'
<1>1. OnDashboard' => since.switch \subseteq since'.switch  BY DEF SinceGrows
<1> QED  BY <1>1 DEF MarketInv, Trending

\* The list is of the masters that are active as it is fetched; the profiles change none
\* of it.
LEMMA MarketFetched ==
  ASSUME CallsInv, MarketInv, SinceInv', SinceGrows, users' = users,
         FetchMasters \/ FetchProfiles
  PROVE  MarketInv'
<1>0. PagesOK  BY DEF CallsInv, AccountInv
<1>1. OnDashboard /\ users["master"].active \in since'.switch
  BY DEF FetchMasters, FetchProfiles, SinceInv
<1>2. ASSUME Fails PROVE MarketInv'
  BY <1>0, <1>2 DEF Fails, PagesOK, MarketInv
<1>3. CASE FetchMasters /\ ~Fails
  <2>1. PICK masters : masters = {p \in Providers : ActiveMaster(p)}  OBVIOUS
  <2>2. PICK T \in Trending(masters) :
            cop' = [cop EXCEPT !.masters = masters, !.trending = T, !.market = "insights"]
    BY <1>3, <2>1 DEF FetchMasters, Listed
  <2>3. cop'.masters = masters /\ cop'.trending = T  BY <1>0, <2>2 DEF PagesOK
  <2>4. masters = {p \in Providers : p = "master" => users["master"].active}
    BY <2>1 DEF ActiveMaster
  <2> QED  BY <1>1, <2>3, <2>4 DEF MarketInv, Trending
<1>4. CASE FetchProfiles /\ ~Fails
  <2>1. /\ cop.market = "insights" /\ cop'.masters = cop.masters /\ cop'.trending = cop.trending
    BY <1>0, <1>4 DEF FetchProfiles, PagesOK
  <2>2. OnDashboard' => since.switch \subseteq since'.switch  BY <1>1 DEF SinceGrows
  <2> QED  BY <1>1, <2>1, <2>2 DEF MarketInv, Trending
<1> QED  BY <1>2, <1>3, <1>4

LEMMA MarketStep == CallsInv /\ SinceInv /\ MarketInv /\ [Next]_vars => MarketInv'
<1> SUFFICES ASSUME CallsInv, SinceInv, MarketInv, [Next]_vars PROVE MarketInv'  OBVIOUS
<1>0. PagesOK  BY DEF CallsInv, AccountInv
<1>1. SinceInv' /\ SinceGrows  BY SinceStep
<1>2. ASSUME cop' = cop PROVE MarketInv'
  BY <1>1, <1>2, MarketStays DEF OnDashboard
<1>3. ASSUME NEW c \in Calls, Copiers(c) PROVE MarketInv'
  <2>1. ASSUME NEW sub, Opened(c, sub) PROVE MarketInv'
    <3>1. cop'.market = "list"  BY <2>1 DEF Opened, Dashboard
    <3> QED  BY <3>1 DEF MarketInv
  <2>2. ASSUME NEW p \in Providers, Left(c, p) PROVE MarketInv'
    <3>1. cop'.page = p  BY <2>2 DEF Left, Dashboard
    <3> QED  BY <3>1, Rooms DEF MarketInv, OnDashboard
  <2>3. CASE (\E sub : Changed(c, sub)) \/ HistoryLoaded(c) \/ Waited(c)
    <3>1. /\ cop'.page = cop.page /\ cop'.market = cop.market
          /\ cop'.masters = cop.masters /\ cop'.trending = cop.trending
      BY <1>0, <2>3 DEF Changed, Waited, HistoryLoaded, PagesOK
    <3> QED  BY <1>1, <3>1, MarketStays DEF OnDashboard
  <2> QED  BY <1>3, <2>1, <2>2, <2>3, CopierMoves
<1>4. CASE StepTakes  BY <1>2, <1>3, <1>4 DEF StepTakes
<1>5. CASE Still  BY <1>1, <1>2, <1>5, MarketFetched DEF Still, CopierStill
<1>6. ASSUME NEW c \in Calls, ServerStep(c) PROVE MarketInv'
  BY <1>2, <1>6 DEF ServerStep
<1> QED  BY <1>4, <1>5, <1>6, StepForm

LEMMA MarketInit == Init => MarketInv
  BY DEF Init, Dashboard, MarketInv, OnDashboard

\* While no master is switched, the marketplace that is shown offers a subscribed copier
\* exactly the other active providers and names its own, and a copier without one as
\* many active ones as it has places for; one disabled all along is never offered.
THEOREM MarketplaceIsWhole == Spec => []MarketplaceWhole
<1>1. ASSUME CallsInv, SinceInv, MarketInv PROVE MarketplaceWhole
  <2> SUFFICES ASSUME OnDashboard
               PROVE  /\ \A p \in Providers : SubscribeEnabled(p) => p # "master" \/ TRUE \in since.switch
                      /\ cop.market = "shown" /\ Cardinality(since.switch) = 1 =>
                            LET active == {p \in Providers : ActiveMaster(p)}
                                offers == {p \in Providers : SubscribeEnabled(p)}
                            IN  /\ cop.cur # None => offers = active \ {cop.cur}
                                /\ cop.cur = None =>
                                    /\ offers \subseteq active
                                    /\ Cardinality(offers) = IF Cardinality(active) > TrendingCap
                                                             THEN TrendingCap ELSE Cardinality(active)
                                /\ SubscriptionCard.name = "Loading provider" =>
                                    cop.cur = None \/ (cop.cur = "master" /\ ~users["master"].active)
    BY DEF MarketplaceWhole
  <2>0. PagesOK /\ since.switch \subseteq BOOLEAN /\ users["master"].active \in since.switch
    BY <1>1 DEF CallsInv, AccountInv, SinceInv
  <2>1. ASSUME cop.market = "shown"
        PROVE  /\ \E b \in since.switch : cop.masters = {p \in Providers : p = "master" => b}
               /\ cop.trending \in Trending(cop.masters)
    BY <1>1, <2>1 DEF MarketInv
  <2>2. ASSUME NEW p \in Providers, SubscribeEnabled(p)
        PROVE  p # "master" \/ TRUE \in since.switch
    <3>1. cop.market = "shown" /\ p \in cop.masters
      BY <2>1, <2>2 DEF SubscribeEnabled, Offered, Trending
    <3>2. PICK b \in since.switch : cop.masters = {q \in Providers : q = "master" => b}
      BY <2>1, <3>1
    <3>3. p = "master" => b = TRUE  BY <2>0, <3>1, <3>2
    <3> QED  BY <3>2, <3>3
  <2> SUFFICES ASSUME cop.market = "shown", Cardinality(since.switch) = 1,
                      NEW active, active = {p \in Providers : ActiveMaster(p)},
                      NEW offers, offers = {p \in Providers : SubscribeEnabled(p)}
               PROVE  /\ cop.cur # None => offers = active \ {cop.cur}
                      /\ cop.cur = None =>
                            /\ offers \subseteq active
                            /\ Cardinality(offers) = IF Cardinality(active) > TrendingCap
                                                     THEN TrendingCap ELSE Cardinality(active)
                      /\ SubscriptionCard.name = "Loading provider" =>
                            cop.cur = None \/ (cop.cur = "master" /\ ~users["master"].active)
    BY <2>2
  <2>3. PICK b \in since.switch : cop.masters = {p \in Providers : p = "master" => b}
    BY <2>1
  <2>4. b = users["master"].active
    <3>1. IsFiniteSet(since.switch)
      <4>1. IsFiniteSet({TRUE})  BY FS_Singleton
      <4>2. IsFiniteSet({TRUE} \cup {FALSE})  BY <4>1, FS_AddElement
      <4>3. since.switch \subseteq {TRUE} \cup {FALSE}  BY <2>0
      <4> QED  BY <4>2, <4>3, FS_Subset
    <3>2. PICK x : since.switch = {x}  BY <3>1, FS_Singleton
    <3> QED  BY <2>0, <2>3, <3>2
  <2>5. cop.masters = active  BY <2>3, <2>4 DEF ActiveMaster
  <2>6. (Marketplace = "cards" <=> cop.masters # {}) /\ cop.masters \subseteq Providers
    BY <2>3 DEF Marketplace
  <2>7. cop.cur # None => offers = active \ {cop.cur}
    BY <2>5, <2>6 DEF SubscribeEnabled, Offered
  <2>8. ASSUME cop.cur = None PROVE offers = cop.trending
    <3>1. cop.trending \subseteq cop.masters  BY <2>1 DEF Trending
    <3>2. None \notin cop.trending  BY <2>6, <3>1 DEF Providers
    <3> QED  BY <2>6, <2>8, <3>1, <3>2 DEF SubscribeEnabled, Offered
  <2>9. cop.trending \subseteq active
        /\ Cardinality(cop.trending) = IF Cardinality(active) > TrendingCap
                                       THEN TrendingCap ELSE Cardinality(active)
    BY <2>1, <2>5 DEF Trending
  <2>10. ASSUME SubscriptionCard.name = "Loading provider"
         PROVE  cop.cur = None \/ (cop.cur = "master" /\ ~users["master"].active)
    <3>1. cop.cur \in Targets  BY <2>0 DEF PagesOK
    <3>2. CASE cop.cur \in cop.masters
      <4>1. cop.cur = "Loading provider"  BY <2>10, <3>2 DEF SubscriptionCard
      <4> QED  BY <3>1, <4>1 DEF Targets
    <3>3. CASE cop.cur \notin cop.masters
      BY <2>3, <2>4, <3>1, <3>3 DEF Providers
    <3> QED  BY <3>2, <3>3
  <2> QED  BY <2>7, <2>8, <2>9, <2>10
<1>2. CallsInv /\ SinceInv /\ [Next]_vars => SinceInv'  BY SinceStep
<1> QED
  BY <1>1, <1>2, CallsAlways, SinceInit, MarketInit, MarketStep, PTL DEF Spec

============================================================================
