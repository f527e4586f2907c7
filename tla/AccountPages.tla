--------------------------- MODULE AccountPages ---------------------------
(***************************************************************************)
(* The pages that administer accounts, over UserAccounts: the users panel  *)
(* (app/admin/page.tsx), the provider's dashboard with its profile form    *)
(* (ProviderDashboard.tsx).  The copier's pages are in CopierPages.        *)
(* Clicks are possible while earlier calls are under way wherever the page *)
(* leaves its buttons enabled; answers come in any order.  In the window of *)
(* the master's desktop node, which waits for each of its calls, copiers   *)
(* are listed and revoked meanwhile.                                       *)
(***************************************************************************)
EXTENDS UserAccounts

CONSTANTS
    Budgets      \* bound: the clicks that each of "admin", "master", "copier" and "node"
                 \* may make in a behaviour (and the pages the copier may "visit")

VARIABLES
    admin,       \* users panel: [table, loading, error, action]
    prov,        \* provider's dashboard: [data, loading, error, tab, baseline, form, mine]
    desk,        \* window of the master's node: [key, listed]; it lists the copier
    raced,       \* (history) what may have overtaken what a page shows: "admin",
                 \* "copier", "master": two of its loads or subscriptions overlapped;
                 \* "left": the provider's page was opened while a save of its former visit
                 \* was still to be written; "desk": the subscription may have changed
                 \* since the window asked for its list, or the list did not come
    clicks       \* what is left of the budget; who has none is not at work

pageVars == <<admin, prov, desk, raced, clicks>>

PanelsInit ==
    /\ ServerInit
    /\ admin = [table |-> users, loading |-> FALSE, error |-> FALSE, action |-> None]
    /\ prov = [data |-> users["master"], loading |-> FALSE, error |-> FALSE, tab |-> "overview",
               baseline |-> None, form |-> None, mine |-> {}]
    /\ desk = [key |-> 1, listed |-> users["copier"].sub = "master"]
    /\ raced = {}
    /\ clicks \in Budgets

----------------------------------------------------------------------------
(* Sending *)

UnderWay(ops) == \E c \in Calls : call[c].op \in ops /\ call[c].why # "left"

\* The server has still to deal with one of `ops`, whether or not its page waits for it.
Unserved(ops) ==
    \E c \in Calls : call[c].op \in ops /\ call[c].stage \notin {"free", "answered"}

\* The requests of one page whose answers must not overtake each other, and the changes
\* that may overtake a list of subscribers
Racing(op) ==
    CASE op = "list" -> IF UnderWay({"list"}) THEN {"admin"} ELSE {}
      [] op = "dashboard" -> IF UnderWay({"dashboard"}) THEN {"master"} ELSE {}
      [] op = "subscribe" -> IF UnderWay({"subscribe"}) THEN {"copier", "desk"} ELSE {"desk"}
      [] op = "subscribers" -> IF Unserved({"subscribe", "revoke"}) THEN {"desk"} ELSE {}
      [] OTHER -> {}

\* A list that is asked for anew knows of every change made before.
Settled(op) == IF op = "subscribers" THEN {"desk"} ELSE {}

\* The calls of `left` are of a page that is gone: their answers change nothing.
SendIn(c, op, arg, why, left) ==
    /\ call' = [d \in Calls |-> IF d = c THEN Request(op, arg, why)
                                ELSE IF d \in left THEN [call[d] EXCEPT !.why = "left"] ELSE call[d]]
    /\ raced' = (raced \ Settled(op)) \cup Racing(op)
    /\ UNCHANGED <<users, files, drawn, flaws>>

Send(c, op, arg, why) == SendIn(c, op, arg, why, {})

Spend(who) ==
    /\ who \in DOMAIN clicks /\ clicks[who] > 0
    /\ clicks' = [clicks EXCEPT ![who] = @ - 1]

Click(c, who, op, arg, why) ==
    /\ Spend(who)
    /\ At(c, "free")
    /\ Send(c, op, arg, why)

Ends(c) ==
    /\ call' = [call EXCEPT ![c] = Free]
    /\ UNCHANGED <<users, files, drawn, flaws>>

Done(c) == Ends(c) /\ raced' = raced

Answer(c, ops) == At(c, "answered") /\ call[c].op \in ops /\ call[c].why # "left"

----------------------------------------------------------------------------
(* app/admin/page.tsx *)

\* What the panel shows: placeholders while it loads, or the error, or the table
AdminView == IF admin.loading THEN "loading" ELSE IF admin.error THEN "error" ELSE "table"

\* Only the button of the action under way is disabled, and a later action takes
\* its place.
Clickable(u, action) ==
    /\ AdminView = "table"
    /\ action = "license" => Roles[u] = "MASTER"
    /\ admin.action # <<u, action>>

HandleGenerateLicense(c, u) ==
    /\ Clickable(u, "license")
    /\ Click(c, "admin", "license", u, "admin")
    /\ admin' = [admin EXCEPT !.action = <<u, "license">>]
    /\ UNCHANGED <<prov, desk>>

HandleToggleStatus(c, u) ==
    /\ Clickable(u, "toggle")
    /\ Click(c, "admin", "toggle", u, "admin")
    /\ admin' = [admin EXCEPT !.action = <<u, "toggle">>]
    /\ UNCHANGED <<prov, desk>>

Retry(c) ==
    /\ AdminView = "error"
    /\ Click(c, "admin", "list", None, "retry")
    /\ admin' = [admin EXCEPT !.loading = TRUE]
    /\ UNCHANGED <<prov, desk>>

\* Mutant: the table is not fetched anew.
AdminChangedSkips(c) ==
    /\ Answer(c, {"license", "toggle"})
    /\ Done(c) /\ admin' = [admin EXCEPT !.action = None]
    /\ UNCHANGED <<prov, desk, clicks>>

\* After a change the handler waits for the table to be fetched anew.
AdminChanged(c) ==
    /\ Answer(c, {"license", "toggle"})
    /\ IF call[c].ok
       THEN Send(c, "list", None, "after") /\ admin' = [admin EXCEPT !.loading = TRUE]
       ELSE Done(c) /\ admin' = [admin EXCEPT !.action = None]
    /\ UNCHANGED <<prov, desk, clicks>>

\* fetchUsers; the handler that waited for it clears the action.
UsersFetched(c) ==
    /\ Answer(c, {"list"})
    /\ admin' = [table |-> IF call[c].ok THEN call[c].answer ELSE admin.table,
                 loading |-> FALSE, error |-> ~call[c].ok,
                 action |-> IF call[c].why = "after" THEN None ELSE admin.action]
    /\ Done(c)
    /\ UNCHANGED <<prov, desk, clicks>>

----------------------------------------------------------------------------
(* ProviderDashboard.tsx *)

FormShown == prov.tab = "profile" /\ ~prov.loading /\ ~prov.error /\ prov.data # None

\* The form of a mounted ProviderProfileForm; it forgets everything when it goes.
NoForm == [prov EXCEPT !.baseline = None, !.form = None, !.mine = {}]

\* TabBar, and the links to the profile from the overview
OpenTab(tab) ==
    /\ "master" \in DOMAIN clicks
    /\ ~prov.loading /\ ~prov.error /\ prov.data # None /\ prov.tab # tab
    /\ prov' = IF tab = "overview" THEN [NoForm EXCEPT !.tab = tab]
               ELSE [prov EXCEPT !.tab = tab, !.baseline = prov.data.bio, !.form = prov.data.bio]
    /\ UNCHANGED <<serverVars, admin, desk, raced, clicks>>

UpdateForm(b) ==
    /\ FormShown
    /\ b # prov.form
    /\ prov' = [prov EXCEPT !.form = b]
    /\ UNCHANGED <<serverVars, admin, desk, raced, clicks>>

\* The calls this form waits for, for the spinner of `why`
Waiting(why) == \E c \in prov.mine : call[c].why = why

\* Only what differs from the profile as last loaded is sent.
HandleSubmit(c) ==
    /\ FormShown /\ ~Waiting("save")
    /\ prov.form # prov.baseline
    /\ Click(c, "master", "update", prov.form, "save")
    /\ prov' = [prov EXCEPT !.mine = @ \cup {c}]
    /\ UNCHANGED <<admin, desk>>

HandleAvatarSelect(c, ext) ==
    /\ FormShown /\ ~Waiting("photo")
    /\ Click(c, "master", "avatar", ext, "photo")
    /\ prov' = [prov EXCEPT !.mine = @ \cup {c}]
    /\ UNCHANGED <<admin, desk>>

\* Mutant: the dashboard is not loaded anew.
ProfileSavedSkips(c) ==
    /\ Answer(c, {"update", "avatar"})
    /\ Done(c) /\ prov' = [prov EXCEPT !.mine = @ \ {c}]
    /\ UNCHANGED <<admin, desk, clicks>>

\* onSaved: the dashboard is loaded anew, whether or not the form is still there.
ProfileSaved(c) ==
    /\ Answer(c, {"update", "avatar"})
    /\ IF call[c].ok
       THEN Send(c, "dashboard", None, call[c].why) /\ prov' = prov
       ELSE Done(c) /\ prov' = [prov EXCEPT !.mine = @ \ {c}]
    /\ UNCHANGED <<admin, desk, clicks>>

\* loadDashboard, which catches its failure; onSaved then leads back to the overview,
\* and the form goes with what was typed into it since.  (A first load finds the
\* overview open.)
DashboardLoaded(c) ==
    /\ Answer(c, {"dashboard"})
    /\ prov' = LET loaded == [prov EXCEPT !.data = IF call[c].ok THEN call[c].answer ELSE @,
                                          !.error = ~call[c].ok, !.loading = FALSE]
               IN  [loaded EXCEPT !.tab = "overview", !.baseline = None, !.form = None, !.mine = {}]
    /\ Done(c)
    /\ UNCHANGED <<admin, desk, clicks>>

\* The provider leaves the page and comes back: no answer to the former visit is heard,
\* but what it sent is served all the same.
Revisit(c) ==
    /\ Spend("master")
    /\ At(c, "free")
    /\ call' = [d \in Calls |-> IF d = c THEN Request("dashboard", None, "load")
                                ELSE IF Sender(d) = "master" /\ ~At(d, "free")
                                THEN [call[d] EXCEPT !.why = "left"] ELSE call[d]]
    /\ prov' = [data |-> None, loading |-> TRUE, error |-> FALSE, tab |-> "overview",
                baseline |-> None, form |-> None, mine |-> {}]
    /\ raced' = (raced \ {"master", "left"})
                    \cup (IF Unserved({"update", "avatar"}) THEN {"left"} ELSE {})
    /\ UNCHANGED <<users, files, drawn, flaws, admin, desk>>

----------------------------------------------------------------------------

(* The window of the master's desktop node: master_controller.py *)

DeskOps == {"verify", "revoke", "subscribers"}

\* The window stands still until its call is answered.
DeskClick(c, op, arg) ==
    /\ ~UnderWay(DeskOps)
    /\ Click(c, "node", op, arg, "desk")
    /\ UNCHANGED <<admin, prov>>

\* login_mt5, in a client started anew, with any key the master has been given
LoginMt5(c, k) ==
    /\ DeskClick(c, "verify", k)
    /\ desk' = [key |-> None, listed |-> FALSE]

\* Refresh, or a revocation of a listed copier with the key of the login
RefreshSubscribers(c) ==
    /\ desk.key # None
    /\ DeskClick(c, "subscribers", None)
    /\ UNCHANGED desk

RevokeSubscriber(c) ==
    /\ desk.key # None /\ desk.listed
    /\ DeskClick(c, "revoke", desk.key)
    /\ UNCHANGED desk

\* Mutant: the list is not fetched anew.
DeskAnsweredSkips(c) ==
    /\ Answer(c, {"verify", "revoke"})
    /\ Done(c)
    /\ desk' = IF call[c].op = "verify" /\ call[c].ok THEN [desk EXCEPT !.key = call[c].arg] ELSE desk
    /\ UNCHANGED <<admin, prov, clicks>>

\* Once logged in, and after a revocation, granted or not, the list is fetched.  The
\* terminal may refuse a login that the server has accepted.
DeskAnswered(c) ==
    /\ Answer(c, {"verify", "revoke"})
    /\ \/ call[c].op = "verify" /\ Done(c) /\ desk' = desk
       \/ /\ call[c].op = "verify" => call[c].ok
          /\ Send(c, "subscribers", None, "desk")
          /\ desk' = IF call[c].op = "verify" THEN [desk EXCEPT !.key = call[c].arg] ELSE desk
    /\ UNCHANGED <<admin, prov, clicks>>

\* A revocation that takes too long is given up, the list fetched all the same; the
\* server may still carry it out.
DeskGivesUp(c, d) ==
    /\ call[c].op = "revoke" /\ call[c].why # "left" /\ ~At(c, "answered")
    /\ At(d, "free")
    /\ SendIn(d, "subscribers", None, "desk", {c})
    /\ UNCHANGED <<admin, prov, desk, clicks>>

\* fetch_subscribers: a list that is refused or takes too long leaves the one shown.
SubscribersFetched(c) ==
    /\ Answer(c, {"subscribers"})
    /\ Ends(c)
    /\ desk' = [desk EXCEPT !.listed = IF call[c].ok THEN call[c].answer ELSE @]
    /\ raced' = IF call[c].ok THEN raced ELSE raced \cup {"desk"}
    /\ UNCHANGED <<admin, prov, clicks>>

----------------------------------------------------------------------------

\* An answer nobody waits for
Unheard(c) ==
    /\ At(c, "answered") /\ call[c].why = "left"
    /\ Done(c)
    /\ UNCHANGED <<admin, prov, desk, clicks>>

Panels(c) ==
    \/ AdminChanged(c) \/ UsersFetched(c) \/ ProfileSaved(c) \/ DashboardLoaded(c) \/ Unheard(c)
    \/ \E u \in {"master", "copier"} : HandleGenerateLicense(c, u) \/ HandleToggleStatus(c, u)
    \/ Retry(c)
    \/ HandleSubmit(c) \/ \E e \in Exts : HandleAvatarSelect(c, e)
    \/ Revisit(c)
    \/ \E k \in 1 .. drawn : LoginMt5(c, k)
    \/ RefreshSubscribers(c) \/ RevokeSubscriber(c) \/ DeskAnswered(c) \/ SubscribersFetched(c)
    \/ \E d \in Calls : DeskGivesUp(c, d)

Typing ==
    \/ \E tab \in {"overview", "profile"} : OpenTab(tab)
    \/ \E b \in Bios : UpdateForm(b)

----------------------------------------------------------------------------
(* What the panel shows of its table *)

LicenseCell(row, u) == IF Roles[u] = "MASTER" THEN row.license ELSE None

StatusCell(row) == IF row.active THEN "Active" ELSE "Disabled"

\* The tiles and the header, of whatever table was fetched last
Tiles(table) ==
    LET Of(role) == {u \in DOMAIN table : Roles[u] = role}
    IN  [masters |-> Cardinality(Of("MASTER")), slaves |-> Cardinality(Of("SLAVE")),
         active |-> Cardinality({u \in DOMAIN table : table[u].active}),
         disabled |-> Cardinality({u \in DOMAIN table : ~table[u].active}),
         subscriptions |-> Cardinality({u \in Of("SLAVE") : table[u].sub # None}),
         platformMasters |-> Cardinality({u \in Of("MASTER") : table[u].active})]

----------------------------------------------------------------------------
(* Properties *)

Quiet(ops) == flaws = {} /\ ~UnderWay(ops)

\* At rest the users panel tells every account's license and switch as they are, and
\* its tiles count them so, unless two fetches overlapped: the action of another row
\* may start while one is under way.  (Only the panel changes those columns; its
\* tile of subscriptions ages with what the copier and the master do.)
AdminTableTrue ==
    (Quiet({"list", "license", "toggle"}) /\ "admin" \notin raced /\ AdminView = "table") =>
        /\ \A u \in DOMAIN users :
            /\ LicenseCell(admin.table[u], u) = LicenseCell(users[u], u)
            /\ StatusCell(admin.table[u]) = StatusCell(users[u])
        /\ \A tile \in {"active", "disabled", "platformMasters"} :
            Tiles(admin.table)[tile] = Tiles(users)[tile]

\* At rest the provider's dashboard shows the profile and the photo as they are saved;
\* unless two of its loads overlapped, a photo and a text being on their way together,
\* or the page was opened while a save of its former visit was still to be written:
\* then, until it is opened again, it may show what was before.  (And no save stale.)
ProviderPageTrue ==
    (/\ Quiet({"dashboard", "update", "avatar"}) /\ raced \cap {"master", "left"} = {}
     /\ ~prov.error /\ prov.data # None) =>
        /\ prov.data.bio = users["master"].bio
        /\ prov.data.avatar = users["master"].avatar

\* At rest the node's window lists the copier exactly if it is subscribed, whether its
\* revocations were granted or refused; unless, since the list was asked for, the copier
\* changed its subscription or a revocation given up was still to be carried out, or
\* the list did not come: then it may be behind until one comes.  (And no save was
\* stale: one of the master's row may give the copier its subscription back.)
DeskListTrue ==
    (Quiet(DeskOps) /\ "desk" \notin raced /\ desk.key # None) =>
        desk.listed = (users["copier"].sub = "master")

============================================================================
