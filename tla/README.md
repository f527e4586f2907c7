# TradeSync in TLA+

TradeSync copies the trades of a signal provider (*master*) to the accounts of
its subscribers (*slaves*, here also *copiers*). A desktop node beside the
master's MetaTrader terminal polls the open positions and sends `OPEN` and
`CLOSE` signals; a NestJS backend stores them and broadcasts them to the
master's room; a desktop node beside each copier's terminal executes them and
reports back; a web frontend shows all of it.

This directory holds TLA+ modules translated from that code, TLC configurations
that check them on small instances, and TLAPS proofs of what matters most for
every instance. Paths below are relative to `src/`; `client` is
`trade-sync-client`, `backend` is `trade-sync-backend/src`, `frontend` is
`trade-sync-frontend/src`. `PROJECT.json` maps every definition to its lines.

```
 master terminal      MasterRecorder  --test_signal-->  TradeGateway
 (positions_get)      (thread)                          | NodeRegistry: who is connected
                                                        | SignalRelay:  rows, broadcast
 copier terminal  <-- SlaveController <--trade_execution-- room_master_<id>
 (order_send)         (thread per message) --trade_execution_ack--> TradeGateway
 web dashboard    <-- registers as the slave, reads the same room

 web pages (AuthPages, AccountPages, CopierPages, WebSession)
     --requests--> AuthService, OtpService (OneTimeCodes, UserAccounts)
     <--figures--- master-analytics.util (MasterFigures, MasterInsights, ProviderViews)
```

To check: `tlc -config SlaveThreads.cfg MCSlaveCopier` (each `.cfg` with the
module the table of runs names), `tlapm SlaveCopierProofs.tla`.

## 1. Inventory

Each part with its state, its operations, who it talks to, what is hard about
it, and what makes it correct.

**Copier node** (`client/controllers/ui_controllers/slave_controller.py`,
`client/models/slave_state.py`, `client/controllers/mt5_adapter.py`).
State: `ticket_map` (master ticket to own ticket), the risk settings and
`symbol_map`, `daily_pnl`, `copying_paused_by_loss`, `open_trades`.
Operations: `on_trade_signal`, start and stop listening, settings, reset of the
daily statistics. It receives `trade_execution`, sends requests to the terminal
and `trade_execution_ack` to the backend. Hard: python-socketio runs each
message in a thread of its own and nothing is locked, so the check of a cap and
the write it guards, or the lookup of a `CLOSE` and the write of its `OPEN`,
interleave; every state is in memory. Correct when every live copy can be
reached by its `CLOSE`, the caps and the loss limit bound what is at risk, and
what is reported is what is kept.

**Master recorder node** (`client/master_recorder.py`,
`client/controllers/ui_controllers/master_controller.py`). State: the button's
`is_running`, the latest recorder, and per recorder `is_running` and
`tracked_tickets`. Operations: start, stop, the scan (snapshot, difference,
announcements). Hard: a stop does not wait for the thread, so two recorders may
scan side by side; snapshots are old when acted on; an emit may raise half-way.
Correct when each ticket is announced at most once as `OPEN` and then at most
once as `CLOSE`, truthfully, never for a position a copier opened (an echo),
and eventually.

**Node registry** (`backend/trade/trade.gateway.ts`: `handleRegisterNode`,
`handleDisconnect`). State: `connectedClients`, `connectedMasters`, the rooms, and,
in each master's window (`master_controller.py`), `subscriber_online_status`,
which changes by `subscriber_update` events to the room. Hard: the registration
waits for the database once or twice while sockets come and go and subscriptions
change; one user has several sockets (a reconnect, the dashboard); an event
reaches only who is in the room, is not sent again, and is handled in a thread of
its own. Correct when the entries, the live set and the online flags speak of
the same sockets.

**Signal relay and trade rows** (`backend/trade/trade.gateway.ts`:
`handleTestSignal`, `handleTradeExecutionAck`; `backend/trade/trade.service.ts`;
`backend/database/tradelog.entity.ts`). State: the rows of TradeLogs. Hard:
handlers of an `OPEN`, its `CLOSE` and several reports interleave at each query,
and saving a loaded entity is a read, a comparison and a write. Correct
when a signal is stored before it is sent, reaches the room also when the
database fails, and the row ends as the trade did.

**Accounts and subscriptions** (`backend/auth/auth.service.ts`,
`auth.controller.ts`). State: users, roles, licenses, `subscribedToId`,
`isActive`. Operations: update and revoke a subscription, kill switch, license,
profile, verify a node. Hard: a handler loads a row, waits and saves the whole
of it; rooms and tokens outlive the row they were made from. Correct when each
operation changes its own column and nothing else.

**One-time codes and password reset** (`backend/auth/otp.service.ts`,
`auth.service.ts`). State: codes with attempts, expiry, consumed flag, and the
user they verify. Hard: attempts are read and written by concurrent
verifications; throttle and issue are several queries; mail fails after the row
is saved. Correct when only a code lets in, a code is used once and tried at
most `maxAttempts` times, and a password that was set stays.

**Avatar storage** (`backend/auth/avatar-storage.util.ts`). State: a file per
type and the link in the row. Hard: file, deletion and save fail apart.

**Web session** (`frontend/redux/slices/authSlice.ts`, `lib/authStorage.ts`,
`services/api.ts`). State: the store of each tab and two browser storages. Hard:
several tabs, expiry, an answer that comes after a logout. Correct when the user
shown, the token kept and the token sent are one person's, and a guarded page
does not stay blank.

**Pages for signing in** (`frontend/app/(auth)`): steps, countdowns and
redirections over the one-time codes. **Pages of an account**
(`frontend/app/admin/page.tsx`, `components/dashboard`, `app/traders/[id]`):
tables, forms and buttons over the accounts; their answers come in any order.
Correct when what they show at rest is what is saved.

**Web signal feed** (`frontend/hooks/useIncomingSignals.ts`): a socket that
registers as the slave, the last ten messages and what is counted from them.

**Master analytics** (`backend/auth/master-analytics.util.ts`, the queries of
`getMasterProfile`, `getMasterDashboard`, `getMasterHistory`, `getTopMasters`):
risk figures, curve and hours computed from rows that are read in several
queries while they are written. Correct when the figures are what they are
called, add up, and agree from page to page.

**Node sockets** (`client/controllers/socket_manager.py`), **Node windows**
(`client/views`, opened by `client/main_master.py` and `client/main_slave.py`),
**Access control**, **Mail**, **Trade queries**, **Console slave**
(`client/main.py`): see section 7.

The hazards of these parts, each at its line with the properties that would
catch it, are listed in `PROJECT.json`.

## 2. The modules

| module | models | checked by | proved in |
|---|---|---|---|
| `SlaveCopier` | the copier node and its broker | `MCSlaveCopier` | `SlaveCopierProofs` |
| `SignalFeed` | abstract: what a master promises | through `MasterRecorder` | |
| `MasterRecorder` | the recorder threads, the button, the terminal | `MCMasterRecorder` | `MasterRecorderProofs` |
| `NodeRegistry` | registration and loss of sockets | `MCNodeRegistry` | `GatewayProofs` |
| `SignalRelay` | signals, rows and reports, over `NodeRegistry` | `MCSignalRelay` | `GatewayProofs` |
| `OneTimeCodes` | registration, verification, reset and login on the server | through `AuthPages` | |
| `AuthPages` | the pages for signing in, over `OneTimeCodes` | `MCAuthPages` | `AuthProofs` |
| `AccountLedger` | abstract: what the account operations promise | through `UserAccounts` | |
| `UserAccounts` | rows and photos on the server | through `CopierPages` | `AccountProofs` |
| `AccountPages` | administrator's, provider's and desktop pages, over `UserAccounts` | through `CopierPages` | `PageProofs` |
| `CopierPages` | the copier's pages and socket, over `AccountPages` | `MCCopierPages` | `PageProofs` |
| `WebSession` | the session in the tabs of a browser | `MCWebSession` | `WebSessionProofs` |
| `MasterFigures` | the pure functions over closed rows, with reference definitions | through `MasterInsights` | `InsightsProofs` |
| `ProviderViews` | what the pages make of the figures | through `MasterInsights` | `InsightsProofs` |
| `MasterInsights` | the queries behind an answer, one by one | `MCMasterInsights` | `InsightsProofs` |

`SignalRelay` composes the registry with the relay, `AuthPages` and
`CopierPages` compose pages with the server they talk to. One thing is modelled
in two modules that do not meet: the row of a user. `OneTimeCodes` has its password
and verification, `UserAccounts` the columns of the account. In the code a save
writes the whole entity that was loaded: in TypeORM the columns in which it differs from
the row read again at the save. So a verification, a reset or the migration
in `login` that overlaps an account operation may write back its column too, and an
account operation a password; each module has this race among its own columns
(`clobbered`, `flaws`) and leaves out the other's handlers.

Most modules have a constant `Env`, the set of things their environment may do. A
property that needs a quiet environment says so in its comment; its theorem has
the same condition as an assumption. Where a property holds unless two steps
overlapped in a certain way, a variable marked *(history)* remembers that they
did; no action reads it.

### SlaveCopier

`thread[h]` is one run of `on_trade_signal`; its `pc` names the next step in the
order of the code, its fields are the handler's locals. Threads change at calls,
so an action is one guard, one request to the broker, or one update of shared
state, with the locals it sets and the acknowledgement it sends.

| action | code |
|---|---|
| `Receive`, `Lose` | a message starts a thread, or the socket is down when it is sent |
| `Ack` | `_emit_execution_ack`: sent, or lost when there is no socket or the emit raises, which it swallows |
| `CheckRunning`, `GuardPaused`, `GuardConcurrent`, `MapSymbol`, `GuardSlippage` | the guards in their order; the symbol mapping applies to `CLOSE` too, the whitelist to `OPEN` only |
| `ExecuteTrade`, `ExecuteTradeFails` | `mt5.execute_trade` and the test of its retcode |
| `RecordTicket`, `AddOpenTrade` | `ticket_map[m] = res.order`, then the session row and the `EXECUTED` report |
| `LookupTicket` ... `CheckLossLimit` | `CLOSE`: lookup, `close_trade`, deletion of the entry, `daily_pnl` read and written apart, the archive, the comparison with the limit |
| `StartListening` ... `ResetDailyStats`, `Restart` | the user |
| `BrokerStopOut` | the broker ends a position by itself (external) |

Abstract: volumes, prices and log lines; the guards on quotes and equity
either block or do not. The master alternates `OPEN` and `CLOSE` per ticket; a
`CLOSE` without its `OPEN` finds no entry and changes nothing. Rounding of
`daily_pnl` is the identity on the integers used. `MaxOpens` bounds the
`OPEN` signals per ticket, `Handlers` the threads in progress, `TopCap` the caps
the user enters. A node is connected, and so hears signals, before the user
clicks START (`Init`); `ListeningSpec` starts it listening.

### MasterRecorder and SignalFeed

Each member of `Runs` is one click on START: a new recorder and its thread.
`Begin` is what the thread does first (`self.recorder` is read when the thread
begins, which is why a late thread may run another start's recorder), `CheckLoop`
the test of `is_running`, `FetchPositions` the request to the terminal,
`Diff` the two differences, `SendOpen` and `SendClose` one emit each with the
write to `tracked_tickets` that precedes it, `Forget` the deletion after a
`CLOSE`. An emit over a lost connection raises and ends the thread (`Raise`),
which clears the controller's `is_running`. Counters of signals stop at 2,
"more than once".

`SignalFeed` is the promise: per ticket at most one `OPEN`, then at most one
`CLOSE`. `MasterRecorder!FeedSpec` is `SignalFeed!Spec` over the recorder's own
counters, checked as a property and proved as a refinement.

### NodeRegistry

`registration[s]` is the run of `handleRegisterNode` for socket `s`, split at
its waits: `RegisterNode`, then `RegisterMaster`, or `FindSlave` and
`RegisterSlave` (whose subscription is the one read before the second wait), or
`RegisterFails`. `Disconnect` is the whole of `handleDisconnect`.
`connectedClients[s]` keeps the `subscribedMasterId` of the entry; the room a
socket is in and the user it carries are set in the same step and follow from
it. `Tell` is the emit to the room: the event joins `updates` if the master's
node is in the room then, and is gone otherwise. `OnSubscriberUpdate` is the
node's handler, which writes `subscriber_online_status`; every event is a thread
of the client's, so their order may change. `LoseUpdates` loses events with the
connection, `Relaunch` ends the program and starts it anew with no flags. Two
histories name what a flag may miss: `unheard`, the pairs of a window and a slave
whose last event that window has not handled as the last, and `outlived`, the
sockets whose user lost another one in the same room. `Windows` are the masters
whose window is followed. A subscription changes in one step: its saves touch
nothing the gateway keeps. `Env`: `overlap` (a second socket of a user while one
is connected), `hasty` (a socket lost before its registration ended),
`subscribe`, `relaunch`, `disorder`, `refuse` (unknown user, or a query fails).

### SignalRelay

Extends `NodeRegistry` with its variables and actions and adds the rows and one
handler per signal and per report; the relay reads no window, so its runs follow
none (`Windows = {}`). `TagOpen` counts the slave entries of the
room, `InsertRow` inserts; the `CLOSE` and each report load the open row
(`FindOpenRow`, `AckFindRow`), and their save is `Compare` (TypeORM reads the
row again and keeps the columns that differ) and `Update` (writes those
columns). `SaveFails` is the `catch` that logs and goes on to the broadcast.
`DbFails` lets queries on TradeLogs fail; the legacy insert before them is
caught by itself and its failure changes nothing. A ticket is announced as
`SignalFeed` promises. `pnl` stands for `pnl` and `closedAt`, `copier` for the
columns of a report.

### OneTimeCodes and AuthPages

`call[c]` is one request; `at` names the code it waits in, and an action is the
code between two waits of `auth.service.ts` and `otp.service.ts`: `Throttle`,
`InvalidateOtps`, `InsertOtp` (and the mail, which may be refused after the row
is in), `Lookup`, `Lock`, `WrongGuess`, `RightCode`, then the user's part,
`CreateUser`, `FindUser`, `LoadUser`, `SaveUser`, `InvalidateResets`,
`FreshUser`. The code of row `r` is the number `r`; dates are ages in ticks.
A save writes the columns in which the loaded entity differs from the row. A
reset token is a call that may come too late (`TokenExpires`).

A tab of `AuthPages` shows one page, or one of the four steps of
forgot-password. `Submit` is a click on a form that is not loading, `Hear` the
continuation of a request. Leaving a page cancels nothing: the continuation
still pushes its page on the router, from wherever the tab is by then.
`countdown` is the page's own; `Redirect` is the timer after a reset.

### UserAccounts, AccountLedger, AccountPages and CopierPages

`Serve(c)` takes a request through its queries: `ReadRows`, `VerifyNode`,
`CheckLicense`, `LoadRow`, `WriteAvatarFile` (the new file is written and the
former one deleted), `SaveEntity`, `SaveFails`. `flaws` remembers a save that
wrote back columns another handler had changed ("stale"), and a photo whose save
failed after its file was written ("torn"). `AccountLedger` is the promise, one
column of one row per operation; `LedgerStep` says how far it is kept.

`admin`, `prov`, `desk`, `cop`, `detail` and `socket` are the windows' states;
clicks are enabled as the pages enable their buttons, and the calls they make
overlap and are answered in any order. `Click` is a handler up to its `await`,
the actions named after what was asked (`AdminChanged`, `DashboardLoaded`,
`NewSubscription`) are its continuation. `LoginMt5`, `RefreshSubscribers` and
`RevokeSubscriber` belong to the window of the master's desktop node, which
waits for each of its calls, but gives a revocation up after its time limit
(`DeskGivesUp`) and fetches the list while the server may still carry it out; a
list that does not come leaves the one shown (`SubscribersFetched`).
`SocketConnects`, `Registered`, `Signal` and
`SocketDrops` are the copier's socket, whose room is looked up once, at
registration. `FetchMasters` and `FetchProfiles` draw the marketplace, or fail
into its error; a copier without a provider is offered `TrendingCap` of the
cards. `Env` says which saves and requests may fail. `raced` *(history)* names
what may have overtaken a page: two loads of the panel ("admin"), of one visit of
the provider's dashboard ("master") or two subscriptions ("copier"); a save of the
provider's former visit that was still to be written when the page was opened
again ("left"); a change of the subscription since the window asked for its list,
a revocation given up and still to be carried out, or a list that did not come
("desk"). `Budgets` bounds the clicks.

### WebSession

`auth[t]` is the Redux store of a tab; `localStorage` is shared,
`sessionStorage[t]` is the tab's. `Hydrate` and `Guard` are the effects React
schedules; `SignedIn`, `Subscribe`, `Fetch`, `HandleLogout`, `Load` and `Follow`
the user's; `SubscribeDone`, `FetchDone`, `Fails` and `Unauthorized` the
answers, the last one with the interceptor that signs out. Tokens are numbers
with an `owner`; `Expire` and `Disable` happen to them at any time.

### MasterFigures, ProviderViews and MasterInsights

`MasterFigures` writes each loop of `master-analytics.util.ts` as a function of
the number of rows it has passed (its body is an operator: `Fall`, `Streak`,
`Fuller`), beside reference definitions without loops that say what their names
promise (`PeakTo`, `LosingRuns`, `DaySum`). `ProviderViews` is what the pages make of an answer: mapping, cards,
curves, totals. In `MasterInsights` an action is one query (`FindMaster`,
`CountAll`, `CountClosed`, `ReadClosed`, `ReadVolumes`, `ReadNewest`,
`ReadRecent`, `CountOpen`, `RankMasters`, `ReadSide`), and between two of them
`OpenTrade`, `CloseTrade`, `SwitchMaster` and `OthersChange` write the tables. One
master's rows are followed; of the `others`, in the order of their accounts, the
number of trades is known, which is what the showcase ranks by before it cuts
(`TopCap`). `moved` *(history)* remembers
that one was written since the call began: an answer the writes overtook mixes
two moments, and nothing is claimed of it.

## 3. The runs

Sets are small but the interesting cases are all reached: two threads at one
guard, two entries in one room, a `CLOSE` beside its `OPEN`, a report beside a
`CLOSE`, two verifications of one code, a save beside a revocation. A run with
`CHECK_DEADLOCK FALSE` stops where a bound named in its `.cfg` is used up.

| run | bounds and environment | properties |
|---|---|---|
| `SlaveThreads` | 3 tickets, cap 1, 2 threads; reset, quotes, rejects, lost signals and acknowledgements, mapping | `NoOrphan`, `NoDangling`, `LossLimitEnforced`, `AckMatchesMap`, `CapOvershoot` |
| `SlaveSerial` | 2 tickets, 1 thread; stop, restart, reset, changing settings, quotes, stop-outs, results that do not arrive; fairness | `TradesViewSound`, `CloseMirrored` |
| `SlaveCloseRace` | 2 tickets, 2 threads, a node that listens from the start, quiet environment | violates `ClosedWhenQuiet` |
| `RecorderRestarts` | 2 tickets (one copied), 2 starts, stops | `NoEcho`, `CloseTruthful`, `StoppedIsQuiet` |
| `RecorderDrops` | 2 tickets, 2 starts, a socket that fails; fairness | `FeedSpec`, `OpenAnnounced`, `CloseAnnounced` |
| `Registry` | two sockets of a master and two of a slave, also at a time, and a second master; every kind of environment step | `GhostsAreRaced`, `ShownHasEntry`, `RegisteredIsShown` |
| `Relay` | a master, two slaves, a ticket, failing queries; fairness | `PersistBeforeSend`, `RowConsistent`, `CloseFinalizes`, `TaggedIsReached`, `SignalReaches` |
| `RelayTagEarly` | the same | violates `TagIsConfirmed` |
| `Codes` | 2 calls at a time, 3 requests, 1 tab, 2 passwords, 2 codes of 1 attempt; no account, an unverified, an old and a disabled one; mail that fails, tokens that expire | `SignedInVerified`, `CodesAreSpent`, `ResetSticks`, `LinkIsHonest` |
| `Session` | 2 tabs, a copier and an administrator, 2 logins, 1 request; fairness | `SessionIsOnePersons`, `NextRequestIsOwn`, `BlankEnds` |
| `Insights` | every table of 3 rows or fewer over two days, longer ones of 4 and 5, other masters with more and fewer trades around a showcase of 2; one write during the call; small caps | `FiguresAddUp`, `AnalyticsExact`, `DetailAgrees`, `ShowcaseComplete` |
| `Accounts` | 2 calls at a time, 2 texts, 2 file types, at most 3 clicks in two windows; one trending card; saves and reads of every page that fail, a revocation given up | `AvatarServed`, `LedgerStep`, `AdminTableTrue`, `ProviderPageTrue`, `DeskListTrue`, `CopierPageTrue`, `SignalsAreTheProviders`, `MarketplaceWhole` |

What they show, and why the bounds are enough:

- **The copier's dictionary.** `NoOrphan` and `NoDangling` say together that
  `ticket_map` is exactly the live copies, up to the step a thread is about to
  take. Two threads and three tickets let two `OPEN`s pass Guard 1 together
  while a third entry is closed. `CapOvershoot` says by how much the cap can be
  exceeded: one per thread beyond the first. The code promises less, a check and
  nothing more; the bound is what a user can rely on.
- **The loss limit** is compared after every `CLOSE`, and threads may overwrite
  each other's `daily_pnl`. `LossLimitEnforced` holds all the same: a thread
  that takes it to the limit has yet to compare the two.
- **Acknowledgements** may be lost one by one, so `AckMatchesMap` is about those
  that are sent: a refusal or an execution that was reported is what the node
  keeps. That one arrives is not claimed.
- **Rooms and flags.** `Registry` gives each of two users two sockets, one after
  the other or both at a time, with the loss of either during any wait of a
  registration; a third socket of a user would repeat the same steps. The two
  properties of the flags hold in both directions for whoever has heard the last
  event (`unheard`) and lost no other socket (`outlived`); what they excuse does
  happen, below.
- **Tags.** `TaggedIsReached` is what a tag is worth: the copier it names has
  been sent the signal or lost a socket. It is not the one whose copy was
  confirmed (`RelayTagEarly`).
- **Rows.** One ticket is enough for the handlers that share a row; tickets do
  not share state. Two copiers report on the row beside its `CLOSE`.
  `CloseFinalizes` names the one thing that can undo a `CLOSE` that was saved: a
  report that loaded the row before.
- **Codes.** Two requests at a time are any two handlers at one row or one user.
  One attempt is the smallest lock that can be exceeded; two codes let a second
  one replace the first. The exceptions of `CodesAreSpent` and `ResetSticks` are
  exactly the saves of a copy that had gone stale, not any overlap.
- **Accounts.** Two calls at a time are two handlers at one row, or two answers
  to one page in either order. Two windows work at a time (`SmallBudgets` lists
  the pairs that share state); more clicks only repeat what those leave behind.
  The properties of the pages hold at rest: nothing of theirs under way. What each
  excuses is named in `raced` or `flaws` and stated with the property; opening the
  page again, or a list that comes, ends the excuse. There are two providers, so
  one place among the trending cards is already too few.
- **Session.** A second tab is what shares `localStorage`; the two users differ in
  role, so that guards send them to different pages. One request in flight is
  answered after any logout or login of either tab.
- **Figures.** Three rows hold each shape the loops tell apart (a loss between
  gains, two on a day, an open row between closed ones), four and five a curve
  longer than its three points and a table longer than its cap. Three other masters
  are more than the showcase has cards for, with ties in their numbers of trades.
- **More tickets, threads, sockets, calls and tabs** are where the theorems go
  beyond the runs.

### Fairness

`SlaveSerial` and `RecorderDrops` assume that a started thread takes its next
step (weak fairness of `HandlerStep(h)`, `RecorderStep(r)`): the interpreter
gives the lock to every runnable thread, and each call has a time limit or an
outcome in the model. `Relay` assumes that the event loop resumes every handler
whose query has ended (weak fairness of `SignalStep(g)`), failure being an
ending. `Session` assumes that React runs the effects it has scheduled in a tab
(weak fairness of `Browser(t)`, which is `Hydrate` and `Guard`). Nothing is
assumed of users, of the market, of the broker's stop-outs, of connections or of
the arrival of messages and answers: the liveness properties are conditional on
a thread, a socket, a signal or a page that exists.

### What the code does against what is written

`SlaveCloseRace` shows the one that costs most: a `CLOSE` whose thread looks up
the ticket while the `OPEN` thread waits for the broker is ignored for good, and
the copy stays open, where the README promises that a `CLOSE` closes it.
`RelayTagEarly` shows a row booked on a slave before any copy of it: the tag is
written with the insert, where `tradelog.entity.ts` and the contract matrix have it
recorded once the copy is confirmed. So a signal that the slave's guards block, or that it
does not hear, stays booked on it.

The others were met while modelling and are conditions of a property rather than
runs of their own.

*Nodes.* START after STOP may run beside the former recorder, and both announce
what they find (`Solo` excludes it). The loss pause does not react to a lowered
limit (`risk_view.py`) until the next `CLOSE`; two `CLOSE` threads may lose an
update of `daily_pnl`; a new session empties `open_trades` while copies live on;
a partial fill is taken for a failure and its position is in no map; after a
stop and a lost connection together the button can show STOPPED while a recorder
works; a failed `positions_get()` reads as an empty account and announces every
tracked ticket closed; a `CLOSE` whose emit failed is not sent by the next
recorder.

*Gateway.* When one of two sockets of a slave is lost (its dashboard, or the old
socket of a reconnect), the master is told that the slave is offline while it
copies on; a master that reconnects before the loss of its old socket is noticed
is not listed as live. The online and offline events go to whoever is in the
room and are not sent again: a master's window that was away shows a copier as it
was, and a window begun anew shows the ones online that connect from then on
(`clientReadme.md` says `True` = currently connected). A report that loaded the row before its `CLOSE` was saved, and
compares after, writes `OPEN` back; the `CLOSE` of a trade closed at once can
find no row, and the row then stays `OPEN`. A signal sent before the
registration has ended is dropped; a slave with an open dashboard counts as two
entries, so its rows are left untagged; a room outlives the subscription it
stands for, revoked or changed.

*Accounts and codes.* `login`, the verification and the reset save a user loaded
before, and each can undo another (`ResetSticks` names which); so do a kill
switch and a revocation, a saved profile and an upload (`LedgerStep`). The reset
token is called single-use and is good until it expires; `requestPasswordReset`
answers generically except for the throttle and for a mail that fails; the
automatic submission of `OtpInput` never fires. `updateSubscription` does not
check that its target is a master, and a revocation is not told to the copier's
page.

*Pages.* The desktop window lists a copier whose revocation it gave up on as
subscribed although it is revoked, or the reverse after a list that did not
come. A provider's page opened while a save of the visit before is on its way
shows the profile from before it. A failed save after a photo was written leaves a link to a deleted
file. Switching tabs on the provider's dashboard enables Save and Upload while
one is under way, and the reload after either discards what was typed. One
profile that cannot be read empties every card of the marketplace; a copier of a
disabled provider sees "Loading provider" for ever; after a change of provider
the dashboard shows the former one's trades, as its room was looked up once;
"Since session started" sums the last ten messages; a late answer to "Copy"
leads back to the dashboard from wherever the copier is.
`ProviderDashboard.tsx` announces "the profile card copiers will see", which
differs from theirs in its return and its curve: the three sources of a card
compute both differently.

*Figures.* The win rate passes 100 % when a row closes between two counts; the
showcase fails as a whole when a master is disabled between its list and its
profile. `/trades/history` and two raw inserts name a table `TradeLog` that the
schema calls `TradeLogs`, so that the home page always shows its samples.

## 4. The proofs

TLAPS checks these for every value of the constants that satisfies the modules'
named assumptions (finite sets of tickets and threads, caps bounded by `TopCap`,
lists of bounded length, `None` outside the sets it is added to).

| theorem | says | argument |
|---|---|---|
| `SlaveTypeCorrect` | the state is well typed; no thread uses a missing local | `Typed` = `TypeOK` and, per thread, the locals its `pc` needs |
| `SlaveCapOvershoot` | `CapOvershoot` | `CapInv`: only a thread that saw room makes a claim; at that step it is not among the claims, so at most the other threads are |
| `SlaveNoOrphan` | `NoOrphan`, if `Undisturbed` | `OrphanInv`, below |
| `SlaveLiveWithinCap` | no more live copies than the cap and the threads beyond the first, if `Undisturbed` | live positions inject into entries and claims |
| `SlaveNoDangling` | `NoDangling`, if `Reported`: positions end by a reported `CLOSE` and by nothing else; the master may reopen tickets and the node may restart | `DanglingInv`, below |
| `SlaveAcks` | `AckMatchesMap`, if `MaxOpens <= 1` and without restarts | `AckInv`: until an `OPEN` thread reports, its ticket is in no acknowledgement; a ticket reported `EXECUTED` has its entry until the thread of its `CLOSE` deletes it |
| `SlaveTradesView` | `TradesViewSound`, if `MaxOpens <= 1` and messages are handled one at a time | `TradesInv`: the single thread works on the entry of its ticket, and a ticket's only row is added after its entry |
| `SlaveLossLimit` | `LossLimitEnforced` for a limit that does not change | inductive with `Typed` |
| `RecorderTypeCorrect` | the recorder's state is well typed, in every environment | `Typed` |
| `RecorderNoEcho` | `NoEcho`, in every environment | copied tickets are in no `tracked_tickets` and in no list of announcements |
| `RecorderCloseTruthful` | `CloseTruthful`, if clicks are no faster than threads begin ("late" is not in `Env`) and snapshots are answered ("blank" is not) | `TruthInv`, below |
| `RecorderStoppedIsQuiet` | `StoppedIsQuiet`, if the user stops or the socket fails but not both (`OneTrouble`), and "late" is not in `Env` | `QuietInv`, below |
| `RecorderImplementsFeed` | the recorder refines `SignalFeed`, if `Solo` | below |
| `RegistryTypeCorrect`, `RegistryGhosts`, `RegistryShown`, `RegistryListed` | `TypeOK`, `GhostsAreRaced`, `ShownHasEntry`, `RegisteredIsShown`, in every environment | `RegistryInv`, below |
| `RelayRowConsistent`, `RelayPersistBeforeSend`, `RelayCloseFinalizes` | the properties of those names, with failing queries | `RelayInv`, and `FinalOK` for the last |
| `RelayTaggedIsReached` | `TaggedIsReached`, in every environment | below |
| `AuthTyped` | the state of pages and codes is well typed | `AuthInv` |
| `CodesSpent`, `CodesSignIn`, `CodesResetStick` | `CodesAreSpent`, `SignedInVerified`, `ResetSticks`, for any number of requests, tabs, codes and attempts | `AuthInv`, below |
| `CodesLinkHonest` | `LinkIsHonest` | `LinkInv`, below |
| `SessionTyped`, `SessionOnePerson`, `SessionSendsOwn` | `TypeOK`, `SessionIsOnePersons`, `NextRequestIsOwn`, for any tabs, users and roles | `SessionInv`: a storage never holds half a session, even when a store does |
| `AccountsKeepLedger` | `LedgerStep`: the rows implement `AccountLedger` step by step, but for stale saves | `AccountInv` follows a call from its click to its save: the entity saved is the loaded copy with one column set |
| `AccountsServeAvatar` | `AvatarServed` | `AccountInv`: the only photo on disk is the row's, or the one an upload is about to save |
| `PanelTableTrue` | `AdminTableTrue` | `TableInv` |
| `ProviderDataTrue` | `ProviderPageTrue`, whatever requests fail | `DataInv` |
| `WindowListTrue` | `DeskListTrue`, with revocations given up and lists that do not come | `DeskInv` |
| `CopierSeesItsProvider` | `CopierPageTrue` | `SubInv`, `HistoryInv` |
| `SignalsFromProvider` | `SignalsAreTheProviders` | `SinceInv`, `SubInv`, `SocketInv` |
| `MarketplaceIsWhole` | `MarketplaceWhole` | `SinceInv`, `MarketInv` |
| `AnalyticsReference` | the loops yield their references, over any closed rows, oldest first | induction on the rows passed, below |
| `InsightInvariant` | an answer in the making is typed and holds what its queries have read | `InsightInv`, below |
| `FiguresInvariant`, `AnalyticsInvariant`, `DetailInvariant`, `ShowcaseInvariant` | `FiguresAddUp`, `AnalyticsExact`, `DetailAgrees`, `ShowcaseComplete`, for tables of any length and every cap | `InsightInv`, `AnalyticsReference`, and lemmas on what filters, sums and reversals keep |

- **`OrphanInv`.** `NoOrphan` alone is not inductive: a thread could delete or
  overwrite the entry of a live position. `OneSignal` says that no two
  threads handle the same kind of signal for one ticket, since a master opens a
  ticket once; `EntryOwned` says that there is no entry until the `OPEN` thread
  writes it, and that from its lookup to its deletion a `CLOSE` thread works on
  the entry the map still has. Then the only step that ends an entry follows the end of its
  position. `Undisturbed` is `MaxOpens <= 1` with results that arrive
  and no restart: the map is in memory, so a restart does lose it.
- **`DanglingInv`.** An entry is written two steps after its position was opened
  and deleted one step after it was closed, by threads that hold its ticket in
  a local in between. `OneOwner` says that no two threads hold one slave ticket
  and that a ticket on its way into the map is not yet in it; `Fresh` that the
  broker never gives a number twice, so that a deletion cannot meet the entry of a
  later copy; `Symbolic` that a `CLOSE` reaches the broker with a known symbol.
  `OneSignal` is not needed, which is why the master may reopen a ticket here.
- **`TruthInv`.** `CloseTruthful` compares an announcement with the terminal as it
  is now, while the announcer uses a snapshot that is old. `RunsOwn` gives each
  thread its own recorder; `SeenOK` says that what it tracks has been open and
  what its snapshot lacks has been closed, which no later step undoes.
- **`QuietInv`.** `Shown`: a live recorder that is switched on is the one the
  button is about. A thread that raises clears the button, so `NoKeyError` has
  to say that the deletions of a scan never raise, whatever their order.
- **The refinement.** `Solo` excludes a stop (no second recorder beside the
  first), a late thread and a failed snapshot. The invariant relates the feed's
  counters to what the only thread tracks and has left to announce: a ticket still
  to be announced has not been, and one still tracked has not been announced
  closed. It has to
  survive a thread that dies between any two emits and a new recorder that starts
  from a new snapshot.
- **`RegistryInv`.** A live master or an online flag could outlive its entry if
  a registration ended with another master than it carries: `RoleKept` ties the
  master an entry names to the user of its socket, `NoEntryBefore` says that a
  socket has no entry before its registration ends. A flag is as true as the event
  that set it, so `LastIsTrue` says it of an event on its way: the last one sent
  about a slave tells it online only if it has an entry, and offline only if no
  socket has but an outlived one. Since a window's flag then follows the last event
  it handled, it is true wherever that was the last one sent.
- **The tag.** The slave is in the room when the row is tagged and need not be when
  the signal is sent; `TagOK` follows one of its sockets from there: it is in the
  room, has received the signal, or is gone for good (`EntryStays`).
- **`RelayInv`.** Every loaded entity has its profit exactly when it is CLOSED,
  and the columns to write are both of status and profit or neither; each
  handler past the insert has a row or a recorded failure.

- **`AuthInv`.** `RowsOK`: a row no stale save has touched has counted each
  wrong guess compared with it and is consumed once it was accepted; a copy
  about to be compared is not consumed and has attempts left. `UserSound`: only
  accounts from before verification are not hashed, and these count as
  verified, so that the migration in `login`, the one handler that saves a whole
  user without a code, concerns old accounts only. `ByCode` (old, or let in by
  an accepted `SIGNUP` code) is stable; it is carried by the copy a handler
  saves, by a login that was answered and by a tab on the dashboard.
- **The pages.** Every property of a page holds at rest, and in between its calls
  are anywhere. First the calls are divided among the pages: a step is the
  business of the server, or of one page, which moves calls of its own kind only
  (`PageTakes`) and leaves the others (`Untouched`); `StepTakes` says so of every
  action, so that each page's invariant is proved against one page's actions and
  three kinds of step, and not against all of `Next`. All rest on `CallsInv`:
  `AccountInv`, and what a free call is.
  Then each invariant says the same thing at three moments: of an answer on its
  way, of the page that has heard it, and of the time in between, when a saved
  write that is still unanswered suspends the claim (`Saved`). `TableInv` and
  `DataInv` say it of a list and a dashboard and are suspended for good by the
  overlaps recorded in `raced`, `DataInv` until the page is opened again: then it
  says too that the saves of the former visit have been served (`LeftServed`).
  `DeskInv` adds that the window waits for one call at a time (`OneAtDesk`) and that,
  but for what `raced` records, the only change of the subscription still to come is
  the one it waits for (`OnlyItsOwn`). `SubInv` allows the one difference the page
  cannot know of, the master's revocation. `HistoryInv` ties the loads under way
  to the visit of the dashboard that asked for them: those of an earlier visit are
  marked "left", and a dashboard that is loading has one of its own.
  `SinceInv` says that all values of a column since the dashboard was opened are
  on record; `SocketInv` and `MarketInv` say that what the page heard is among
  them, though each was read once and at another time, and that the cards offered
  to a copier without a provider are as many of the list as there are places.
- **`LinkInv`** adds a sum: for a tab told of a row, the row's age and the
  page's countdown are together at least the throttle, as a tick moves both; and
  a request that is heard belongs to the page that sent it.

- **`InsightInv`.** Each of the four properties speaks of a finished answer, read
  in up to seven queries. `Progress` says which fields an answer holds at each
  stage of its kind of call; `Fresh` says that, unless a table was written since
  the call began, each field it holds is that of the tables as they are (`Now`),
  that the analytics are `BuildAnalytics` of the newest closed rows in some order
  of equal closing times, and that a master past `FindMaster` is active. What
  then remains concerns the tables alone: counts as cardinalities, sums that a
  filter of closed rows or a reversal does not change.
- **The loops.** The induction theorems of the library take a predicate or a step
  as an operator, which the prover cannot instantiate. Here a predicate on the rows
  passed is the set of numbers it holds of (`Induct`), and the body of a loop a
  function (`LoopRuns`, `LoopTyped`): the set has a least number it lacks
  (`Least`), and recursion is a function that agrees with the body at each
  step. So every loop is shown to pass the values its body says, and each of
  `MaxDrawdownExact`, `LosingStreakExact`, `BestDayExact`, `AvgPerDayExact`,
  `ActiveWindowExact`, `SparklineExact` and `CurveFramed` is an invariant of one
  loop: the largest drop so far, the streak that ends here and the longest so
  far, the sum of each day so far. A filter is followed by the increasing list
  of indices it picks (`Picks`), from which its length and its sum follow.

The assumptions on the constants of `MasterInsights` say what a row is
(`RowsAssumption`), that a cap is a number, that of the closed rows and the length of a
sampled curve not the smallest (`CapsAssumption`; 2000 and 50 in the code), that
the invented curve has points (`SyntheticAssumption`) and that `None` is not one
of the values it stands in for (`NoneAssumption`).

Only model-checked: the liveness properties (`CloseMirrored`, `OpenAnnounced`,
`CloseAnnounced`, `SignalReaches`, `BlankEnds`), as the prover has no fairness.
`ClosedWhenQuiet` and `TagIsConfirmed` are refuted by their runs. No module uses `RECURSIVE`.

The conditions of the theorems are conditions on the environment (`Env`,
`MaxOpens`, the number of threads), and each is there because the property fails
without it: a stop-out leaves its entry behind, a second START lets a late
thread run another's recorder, a restart forgets the entry of a ticket reported
executed. The runs named in section 3 satisfy them.

## 5. Plan

Done, in the order of importance: the copier, the recorder with its feed, the
registry, the relay over the registry, the one-time codes under their pages, the
accounts under theirs, the session, the figures; and a theorem for every safety
property that a run checks.

Not done: a composition of a recorder's feed, the relay and one copier, with a
mirror (a copy per master position, opened once and closed once) as its abstract
specification. It would need the losses between them as exceptions; each is
stated in the module of the part that loses.

## 6. Conventions

Names follow the code (`ticket_map`, `connectedMasters`, `handleTestSignal` as
`TestSignal`); each definition's comment says what of the code it leaves out.
`None` is a missing key, a null column or no value. A definition whose comment
begins with "Mutant:" is a plausible bug of the definition after it; it is used
only to confirm that a property can fail, and no specification refers to it.
A module `MC...` gives the constants their values; symmetry is declared for sets
of model values and only in runs without liveness properties.

## 7. Not modelled, and why

- **Console slave** (`client/main.py`): a console program without registration
  or guards, which the README calls legacy. The entry points in use,
  `main_master.py` and `main_slave.py`, open a window each and keep nothing; starting
  one anew is `Relaunch` of `NodeRegistry` and `Restart` of `SlaveCopier`.
- **Amounts**: lot sizes, prices, profits. No control depends on them except the
  guards on quotes and equity (free choices) and the sum `daily_pnl` (kept).
- **Access control** is one stateless check per request; whom it lets in is
  `Accepted` of `WebSession` and `Admitted` of `UserAccounts`, signing and
  verifying a token are the library's. **Mail** is sent or refused
  (`InsertOtp`); its text is left out. **Trade queries** other than the insert
  of `SignalRelay` read and change nothing.
- **Node sockets**: reconnection and registration are actions of `NodeRegistry`
  and `MasterRecorder`; the health label shown is left out. **Node windows**:
  what they write into the settings is in `SlaveCopier`, the master's window in
  `AccountPages`; painting is left out.
- **Pages**: layout, search, sorting, texts and the validation of fields, for
  what it rejects is not sent. Components no page uses (`layout/Navbar`,
  `MasterProfileSetup`, `MasterProfileCard`, `LiveTradeTable`, `LoginForm`,
  `RegisterSlaveForm`, `RegisterMasterForm`, `TopTradersSection`) and the design
  mock-up of the client (`client/design`) are no part of the running system.
- **Between two queries.** The read and the write of a TypeORM save are apart in
  `SignalRelay`, where a report and a `CLOSE` meet at them, and one step in
  `OneTimeCodes` and `UserAccounts`. A 401 signs the page out in `WebSession`;
  in `AccountPages` and `CopierPages` the call just fails.
- **Lost answers.** A request of a web page that writes is answered or refused: that it is
  carried out and its answer lost, so that the page shows a failure of what was
  done, is not modelled. For reads a failure is one of the outcomes, and the desktop
  window's revocation may be carried out after it was given up.
