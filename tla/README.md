# game-support-ops: a TLA+ development

The repository is the customer-service system of an online game. Staff collect
work orders ("operation groups": send items, kick, ban, warp a player), review
them, and have approved ones carried out in the game by GM accounts that a
second service keeps logged in. A third service lets players form teams for two
daily bosses, whose rewards come back as approved work orders.

This directory models the parts of it where order, failure and concurrency
decide whether the system is right, checks them with TLC on small instances and
proves the results that hold for every instance with TLAPS.

Paths below are relative to the repository (`src/` here). `auto/` stands for
`mxd-auto-process/backend-auto-process/internal/`, `player/` for
`mxd-player/backend-player/internal/player/`, `sop/` for `backend/src/modules/`.

    tlasany M.tla                      parse a module
    tlc -config Orders.cfg MCOperationGroups.tla
    tlapm OperationGroups_proofs.tla

`PROJECT.json` maps every definition to its source lines, and lists runs,
mutants (changes of one mapped definition that a run must notice), hazards,
findings and theorems.


## 1. Inventory

### SOP backend (TypeScript, one Node process, SQLite)

| Component | State | Operations | What makes it correct |
|---|---|---|---|
| Work orders, `sop/operation-groups/domain` | the table `operation_groups`: status, revision, approval, reminder, failure, note, offline verification, idempotency key | submit, update, cancel, approve, reject, issue, complete, remind, verify-offline, mark-online, three automation results, approved reward batch | nothing is released without the review of what it now says; nothing of an old revision survives an edit; a repeated submission makes no second order; final orders never change |
| Automation workflow, `sop/operation-groups/application` and `sop/auto-integration` | the connection switch; requests in flight | send an approved order, retry after the player came online, apply the answer, time out | what is sent was approved; an answer is applied to what it answers; a verification is used for the revision it was given for |
| Staff accounts and sessions, `sop/auth` | users, roles, rights, session table | sign in and out, create, change, delete an account | a session never outlives the password, role and activation it was given for; an active super administrator is always left |
| Team view, `sop/team-view` | a snapshot of the day's teams, the timer, clears | daily pull at 00:05, retry, abort, import of clears, apply for rewards | each member of an eligible team is rewarded once a day, all of a list or none; the teams of the day arrive |
| Server names, `sop/auto-integration/domain/server-options.ts` | a durable projection of the auto process's catalogue | merge the answer of a change, refresh every 15 s | a name does not go back; the pages come to show the present one |
| Activities, `sop/activities` | one list | read it, replace it | a change loses nothing that its page saw |
| Change events, `sop/operation-groups/domain/changes.ts`, `interface/http.ts` | open streams | publish a change to the lists before and after it | nobody who watches a list misses a change of it |
| Player integration, player directory, item catalogue, potential tables, command generation | reference data, the mode and switch of the connection | single-row edits, lookups, a pure text generator | - |
| Stores | SQLite, one synchronous statement or transaction per operation | | an operation happens wholly or not at all |

### auto-process (Go, one process, SQLite)

| Component | State | Operations | What makes it correct |
|---|---|---|---|
| Batch execution, `auto/operatorapi/execution*.go`, `auto/autostore/executions.go` | a row per execution, the round-robin cursor, `executionMu` | execute, retry, retry with a confirmation, change of account, process restart | a command known to have taken effect is never sent again, and one left without an answer not before an operator releases it; anything else is resent only on a retry; commands go out in order; the answer says what happened |
| Game session, `auto/gamesession` | session state, transport, reconnector flags, monitor and heartbeat goroutines | login, select, enter, chat, receive, heartbeat, reconnect, hand-over, close | one login at a time, no leaked connection, nobody waits for ever, closed is closed, a lost connection is recovered |
| Session and account managers, `auto/sessioncontrol` | sessions and reservations, accounts, watcher | create, start, stop, update, delete, reconnect, reconcile | capacity is never exceeded or leaked; one session per account; an account's stored state agrees with its session; an account of a disabled server has none in the end |
| Operator HTTP API, store, catalogue | rows, configuration | CRUD, audit, overview | - |
| Game protocol, `auto/gameprotocol` | a buffered connection | frames, messages | framing survives a cancelled read |

### mxd-player (Go, one process, SQLite in WAL mode)

| Component | State | Operations | What makes it correct |
|---|---|---|---|
| Player teams | `player_teams`, `player_team_members`, `player_team_applications`, `player_team_merge_applications`, the Beijing date | create, join, approve, reject, leave, ask for a merger, approve it, midnight | one team per player, boss and day; the limit of ten; leaders belong; every pending application can be decided; a merger loses nobody |
| Player accounts, integration, history | accounts, roles, tokens | sign in, import, export | - |

### Web frontends (React)

Three frontends show what these services answer. Most of it is layout and forms;
these parts hold state of their own that can be wrong:

| Part | State | What makes it correct |
|---|---|---|
| Lists and counts of work orders, `frontend/src/api/client.ts`, `CustomerView`, `ManagerView`, `App` | response cache, shared reads, load ids, event stream, dirty flags | own changes show, a list never goes back, what is shown becomes right |
| Server workspace, `modules/server-operations` | account dialog, its session, polled overview | no session is left behind; the row shows the account |
| Potential editor, `modules/potential` | a session saved in localStorage, shared by tabs | a tab drops a session that is gone |
| Server names, `useAppOptions.ts` | one request at a time, dirty flag | the names become right |
| Message panels of both operator pages, `ServerMessagePanel.tsx`, `MessagePanel.tsx` | confirmation dialog, lock, draft | a confirmation delivers once, what and to whom it said |
| Activities, `ActivityView`, `CustomerView` | localStorage copy, migration flag, drafts | hidden activities are not offered; nothing is lost unseen |
| Account administration, `App`, `UserAdminView` | the user a tab believes in | a tab shows the account its requests are made for, unless another tab of the browser logged in as somebody else |
| Player registration, `mxd-player/frontend-player` | one tab | not modelled |

### How they interact

    staff/customers --HTTP--> SOP work orders --(approved)--> automation workflow
                                    ^                               |
                                    |  result, by group id          | POST /servers/{id}/executions
                                    +-------------------------------+        (may time out)
                                                                    v
                                              auto-process: executor, one batch at a time
                                                                    | ChatIfOnline
                                              account manager -> game session --TCP--> game
    players --HTTP--> mxd-player teams --(pull at 00:05)--> SOP team view --> approved batch

### What is hard

* *Two processes and one answer.* The SOP awaits the executor; the order can be
  edited, cancelled, finished by hand or approved again before the answer comes,
  the answer may be lost, or the request may be repeated.
* *Exactly-once against a game that is not transactional.* A chat frame may be
  written and its answer never seen; the process may stop between the frame and
  the save of its outcome.
* *Locks held across waits.* `Session.mu` is held through a login, a chat and a
  hand-over, `transportMu` through the monitor's read, which has no deadline;
  flags (`automaticRunning`, `reconnecting`) cover the time between two locked
  sections.
* *Long sequences of legal calls.* Edits, reminders, verifications and results on
  an order; applications, teams and mergers on a day's list.
* *Time.* The day of a player request is read before its transaction; the daily
  pull straddles midnight, restarts and a connection that is switched.
* *Resources with no lock around them.* A game session is held by a number that a
  dialog, a browser's storage, an account or a request in flight has; numbers are
  given again after a restart.
* *Copies.* A page's cache, its shared reads, the stream of events, localStorage
  and the projection of the server names all age differently.

`hazards` in PROJECT.json lists each at its line with the property that covers
it, or why none does.


## 2. Modules

| Module | Models | Used by |
|---|---|---|
| `OperationGroups` | work orders | `AutomationWorkflow` (INSTANCE), proofs |
| `AutoExecution` | batch execution with accounts, confirmations, restarts | refines `Delivery`, proofs |
| `Delivery` | abstract: what the executor promises about one execution | `AutoExecution` (refinement), `AutomationWorkflow` (INSTANCE) |
| `AutomationWorkflow` | SOP workflow between the two processes | composes `OperationGroups` and `Delivery`, proofs |
| `GameSession` | one managed game session and its goroutines | refines `ManagedSession`, proofs |
| `ManagedSession` | abstract: what a managed session promises to those who hold it | `GameSession` (refinement) |
| `PlayerTeams` | teams of the player service | proofs |
| `Staff` | staff accounts, their sessions and the tabs that use them | proofs |
| `Rewards` | the daily pull of the teams, clears, and the rewards applied for | proofs (`PlayerTeams_proofs`) |
| `Servers` | the names of the game servers from the auto process to a page | proofs |
| `Accounts` | who holds a live game session: account manager, account dialog, potential editor | abstracts the session of `GameSession` to its state, proofs (`GameSession_proofs`) |
| `Desk` | what a page shows of an order: cache, loads, events | the order is that of `OperationGroups`, abstracted to a status, proofs (`Pages_proofs`) |
| `Activities` | the shared list of activities, its editing pages, forms and caches | proofs (`Pages_proofs`) |
| `Messages` | messages sent by hand from either operator page | proofs (`Pages_proofs`) |
| `OperationGroups_proofs`, `Staff_proofs`, `Servers_proofs` | TLAPS proofs | |
| `AutoExecution_proofs` | TLAPS proofs of the executor's invariant and promises, and that it implements `Delivery` | |
| `PlayerTeams_proofs` | TLAPS proofs about `PlayerTeams` and `Rewards` | |
| `GameSession_proofs` | TLAPS proofs about `GameSession`, that it implements `ManagedSession`, and about `Accounts` | |
| `Pages_proofs` | TLAPS proofs about `Desk`, `Activities` and `Messages` | |
| `AutomationWorkflow_proofs` | TLAPS proofs of the composition | takes `OperationGroups_proofs` by INSTANCE |
| `MC*` | constants, symmetry and bounds of the TLC instances | |

Inside a module, an operator whose comment says `slip:` is not part of the
model: it is the mutated form of the definition after it, the mistake the code
avoids there, and exists so that `mutants` can show which property would notice.

A proof module may extend several components, whose names must then differ: the
specification and the type invariant of `Rewards`, `Accounts`, `Activities` and
`Messages` carry the name of their module (`AccountsSpec`, `AccountsTypeOK`), and
their absent value is `Nothing` or `Nil`. The components share no constant and no
variable, and a theorem speaks of one of them alone.

### OperationGroups

`groups[g]` is the stored record, cut down to what transitions look at.
Timestamps are revision numbers (`approvedAt = revision` reads "approved as it
now stands"); the request is the set of operation types in it, from which
`IsIssuanceGroup` and `IsNoReviewGroup` decide. Each method of
`OperationGroupsService` is one action, because it runs to its end in one turn of
the event loop with one write. A refused call changes nothing and is the
stuttering step. `Access` gives the workspaces of a user, as `requireWorkspace`
checks them.

### AutoExecution and Delivery

A request (`call[c]`) waits for `executionMu` (`holder`), is answered from the
stored row (`Replay`), refused (`Conflict`), or starts; then it selects accounts,
writes a frame (`WriteFrame`) and gets one of the game's answers. Steps are cut
where something else can happen: before the lock, at the list of accounts, before
a frame, between frame and answer. `work` is the handler's copy of the row,
`store` what is saved; `Crash` may come between any two steps and loses
everything but `store` and `cursor`. `fate`, `under` and `released` are history:
what really became of each command, and which confirmations were used. Account
states change at any time. The change of account inside a batch follows
`execution.go:166-216`, and `NextRoundRobin` the statement in `autostore`.

`Delivery` says it in four stages per execution (unsent, partial, unknown,
delivered) and two actions. The refinement mapping takes the stage from `fate`,
and the mark from `under`. What `Delivery` does not forbid is what the code does
not prevent: after a connection broke with a frame out the stage is "partial"
(see finding `BrokenIsNotResent`).

### AutomationWorkflow

The SOP side is one Node process: the transition that triggers the automation,
the check of the switch and the start of the HTTP request are one step, what
follows the await is another (`RecordResult`, `Timeout`). The executor serves one
call at a time and advances `delivery` by `Delivery`'s actions. A call the SOP
gave up on (`Timeout`, `Restart`) may still be served. History variables say who
finished an order, which revisions were authorised and for which revision a
verification was given.

### GameSession

`mu` is held through every exchange, so those are single steps; the variable `mu`
appears only for the one step that waits while holding it, `replaceTransport`
(`TakeSession`, `ReplaceTransport`). Drivers are the automatic loop and callers of
`Session.Reconnect`; their program counters follow
`TryReconnect` (`reconnect.go`), with the locked sections as steps. A connection
is in `open` while this process has not closed it, and in `lost` when the other
end is gone. `Told` models the `stateChanged` channel. `stopChan` ends an attempt
before it dials or while it waits; a dial that the stop finds under way may still
succeed after it, because another goroutine passes it on (`contextWithStop`).

`ManagedSession` is what remains of all this for those who hold the session: a
phase (starting, ready, down, ended), the connection of the session, those that are
open, and the one login that may be under way, complete or not. The mapping reads
the phase off `state` (`Phase`), and the login off `fresh` and the drivers that have
entered the game (`LoginsOf`). The monitor, the heartbeat, the chats, the flag, the
locks and the attempts are not in it.

### PlayerTeams

Two steps per request: `Arrives` takes the day (`tomorrow()`), then one action is
the whole SQLite transaction, or `Refused` rolls it back. The database allows
this: in WAL mode a transaction that read what another has changed since fails at
its first write (BUSY_SNAPSHOT), so committed transactions are serialisable. The
UNIQUE index on account, boss and day is the guard `~InTeam`. Accounts are those
of one game server. The choice of a character is left out.

### Staff

A request is one turn of the event loop, but a change of an account writes twice,
first the row and then the removal of its sessions (`UpdateUser`, `Revoke`), and
`Crash` may come between. `grants` counts the passwords, roles and activations an
account has had; a session carries the count it was made under, which is how the
model knows whether it is current. `screen` is what a tab believes: the user and
rights of the answer of its last login or `/auth/me`, and its workspace. The tabs
of a browser (`BrowserOf`) share its `cookie`, and none looks at what another did:
a tab that shows somebody when another one logs in as somebody else keeps showing
the old user, while its requests are judged as the new one's. `displaced` remembers
those tabs until they are loaded again, logged out or agree with the cookie again,
and `ScreensAreHonest` says that nothing else parts a tab from its cookie. Rights
are three workspaces and one upload, one of each kind of default.

### Rewards

`clock` counts half days, so that "before 00:05" and "after" are states. The
scheduler (`timer`, `pending`, `completed`) follows `scheduler.ts`: the call of the
player service starts in `Fire` and ends in `PullSucceeds` or `PullFails`, and
`connectionChanged` aborts it. `link` is the mode and switch of the connection,
each change of which waits for a health check (`checks`). What the two player
services locked is the constant `Rosters`. `granted` holds the orders by their
key, `JSON.stringify([date, server, type, character])` in the code; that they are
orders is the business of `OperationGroups`.

### Servers

A name is the number of the change that gave it. `auto` is the catalogue of the
auto process, `options`/`stored` the projection in memory and table, `refresh` the
read under way with `moved` for "the revision changed since it began". An edit
goes through `Send`, `Apply` (auto process), `Answer` (SOP), `Receive` (page) and
may be lost at each. `page` is `useAppOptions`: one request, one dirty flag.

### Accounts

A session is named by its number and the life of the process, which is what
`created_at` tells apart. `account` is the one managed account, `job` the section
that holds its lock, `adopting` the part of `create` that does not take the lock.
A request of a page (`calls`) is served and answered in separate steps; one that
its page gave up on goes on alone (`adrift`). `dialog` and `shown` are the server
workspace, `store` and `tab` the potential editor. `Held` lists everybody who
could still stop a session, and `NoSilentLeak` says that a live session leaves
those hands only by a fault or by one of the two overlaps that the module names.
A change of the game server takes two steps, as in the code: `StopServer` stops the
account's session and gives its lock back, `Upsert` stores the new entry, and the
watcher may log in between (`server.changing`). The address of the server is left
out: a change of it alone is one that leaves `enabled` as it was.

### Desk

The order is the sequence of its statuses; a read is identified by how many of
them it saw. `wire` holds the reads under way, with `fresh` for "the cache was not
dropped since" (`requestEpoch === cacheEpoch`) and `latest` for "its load is the
last one" (`requestId === loadRequest.current`). The list of the open view and the
counts of the navigation load by the same means and meet only in the cache, so
that a behaviour watches one of them (`view = "counts"` or a list).

### Activities

An activity is the number of the change that wrote it, and whether it is visible.
Every change sends the whole list (`Request`'s `list`, made from its page's
`base`), and the server replaces all there is. A browser has a cache, a migration
flag, an editing page and a form; `told` are storage events to be dispatched.

### Messages

Both pages are one module with the variable `desk`, because their panels are
copies; where they differ (status poll, staleness) the guard says so. `account` is
the account as it is, `known` as the page shows it, and a target stands for what
the dialog shows: address, user name, character. A message goes from `Confirm`
over the lock of the account (`Serve`) and the write (`WriteToGame`) to `Answer`,
and `received` is what the game got.


## 3. Runs

Bounds are named in the modules (`MaxRevision`, `MaxReminders`, `MaxAttempts`,
`MaxMembers`, `MaxDay`, `MaxTime`, `MaxGrants`, `LastDay`, `MaxChecks`,
`MaxChanges`, `MaxReads`, `MaxFaults`, `MaxOpens`, `MaxCalls`, `MaxSessions`,
`MaxSends`, `MaxEdits`, `MaxEditions`, `MaxLosses`) or in the MC modules (`TwoOrders`, `FirstBatch`,
`OneOrder`, `OnlyItemsEdited`, `OffWhenCalm`, `FewPages`). Every run is expected to pass.

| Run | States | Question | Instance, and why it is enough |
|---|---|---|---|
| Orders | 500,584 | Do the order rules hold under any interleaving of customer, staff, automation and reward batches? | 2 submitted orders and 1 reward, at most 2 at once; 2 users with different workspaces; item, kick and warp orders (issued, completed, never reviewed); 1 key, 2 verifications, one edit, one reminder. Properties speak of one order, or of two with one key. |
| Execution | 345,200 | Does the executor keep its promises with restarts, account changes and repeated requests? And does a request end? | 2 commands (order, partial success), 2 accounts (a change and its end), 2 requests (a repeat, a retry, a conflict, a wait for the lock), 2 batches, 1 confirmation. `FirstBatch` leaves out only the mirror images in which the batches are exchanged. |
| Workflow | 570,742 | Is only what was approved sent, finished only after a delivery, released only by its own verification? | one order at a time (`OneOrder`), submitted or from a batch of rewards, of items or exempt from review; 1 edit, of an item order (`OnlyItemsEdited`: the exempt kinds differ only at their submission); 2 calls in flight, one while the switch is off (`OffWhenCalm`: a call reads the switch once, at its start), time-outs, restarts |
| Session | 275,644 | Safety of reconnecting, handing over and closing; is every step one of `ManagedSession`? Does Close end everything? | 2 connections (old and new), 1 chat, the loop and one caller, 2 attempts |
| Teams | 340,116 | Do teams keep their rules through approvals, mergers, departures and midnight? | 3 accounts, 3 teams, 2 bosses, limit 2, 1 midnight: chains of mergers, a full team, a request that straddles midnight. One request in flight: transactions are serialisable and share only the day, which `today` and one stale request already distinguish. |
| Staff | 1,012,182 | Do sessions and tabs follow the accounts, and is a super administrator left? | 2 accounts, 3 tabs in 2 browsers (two share a cookie), 2 tokens, five kinds of change (promotion, demotion with a password, off, on, all workspaces taken), one tick for an expiry, one change that takes sessions per account. `FewPages` shows two tabs at a time, of one browser or of two, and one after the tick: what a tab does touches one cookie, and only tabs of one browser meet there. |
| Rewards | 661,248 | Are rewards earned, whole and final, and do the teams of the day arrive? | 2 days (a pull that straddles midnight), 2 player services that disagree, which agree on the first day and disagree on the second, 3 characters, one not in every directory, 2 health checks at once |
| Servers | 275,064 | Do the names of a server go forward only, and reach the page? | 1 server of the configuration, 2 edits under way (an overtaking answer), 2 changes; servers do not interact but by the capacity, which the second place leaves open |
| Accounts | 241,524 | Is a live session ever left without anybody, does an enabled account come back, is a disabled server left alone in the end, does a tab drop a dead session? | the workspace, the editor, or the editor in two tabs; 3 places for sessions, one fault (a lost answer, a break, a change of an enabled server, a page left, a restart) at any point |
| Desk | 817,986 | Does a page show its own changes, never go back, and come to be right? | an order with 2 changes (one's own and another's), 3 reads at once, one fault; list and counts are watched one at a time; only first pages, views queue and ready of a manager, and one change of one's own under way at a time; "closed" is issued or cancelled |
| Activities | 1,392,078 | What may a change lose, and what may a form offer? | 2 browsers, 2 activities, 2 changes, 2 openings, 2 requests at once, one failure; one browser with a list of its own and the form; accounts change only while no page is open |
| Messages | 954,164 | What may a confirmation deliver, may the page go back, is the lock given back? | 2 messages, 2 targets and one edit, one text and one quick command; one operator, whose page has no other action of its own that locks |

Deadlock is checked in all runs but `Execution`, `Session` and `Activities`: all
requests may have been answered, a closed session has stopped, and all changes,
openings and failures that the bounds allow may have been made.

Symmetry is used on identities only, never with a liveness property.

Several properties are conjunctions of named parts that one run looks at
together:

* `ReviewIsRespected`: `ReviewedBeforeRelease`, `ReviewStartsClean`.
  `RecordsAgree`: `FailureIsReminded`, `VerificationMatchesNote`, `OneGroupPerKey`.
* `ExecutionsAreConsistent`: `TypeOK`, `SequentialDelivery`, `UnknownIsRemembered`.
  `SendingIsSafe`: `AnswersTellTheFate`, `MarkedIsNotResent`, `OnlyRetriesResend`,
  `ConfirmationIsNotReused`.
* `ReleaseAndFinishAreEarned`: `ReleasedForItsRevision`,
  `AutoFinishIsOfADelivery`.
* `ConnectionsAreSound`: `OneReconnectAtATime`, `NoConnectionLeaks`,
  `ReadyIsConnected`, `WaitersAreTold`. `ManagedSpec`: the session implements
  `ManagedSession`, which `ClosedIsFinal` follows from.
* `MembershipIsSound`: `TypeOK`, `TeamFits`, `OneTeamPerBossAndDay`,
  `LeadersBelong`. `RequestsAreDecidable`: `PendingCanBeDecided`,
  `ApprovedBelong`, `MergersEndInATeam`.
* `AccountsAreSound`: `TypeOK`, `SuperAdminRemains`. `RewardsAreSound`:
  `RewardsTypeOK`, `RewardsAreEarned`, `DisabledIsQuiet`. `SessionsAreKept`:
  `AccountsTypeOK`, `NoSilentLeak`. `PagesAreSound`: `TypeOK`, `ReadYourWrites`.
  `ListsAreSound`: `ActivitiesTypeOK`, `HiddenIsNotOffered`. `MessagesAreHonest`:
  `MessagesTypeOK`, `OncePerConfirmation`, `OnlyNewerEditsMislead`,
  `ResultIsOfItsMessage`.

### Fairness

* `Execution`: weak fairness of the handler's steps (`HandlerStep(c)`): Go runs
  the goroutine that holds the lock, and every wait in it (for an account, for
  an answer of the game) has a deadline. Nothing is assumed of accounts, of new
  requests or of the crash.
* `Session`: weak fairness of the goroutines' own steps, because locks are granted
  and every network wait of a reconnect has a deadline. The monitor's read has
  none in the code and gets none here; requests, operators and failures happen or
  not. `CloseEndsEverything` holds because `Close` closes the transport, which
  ends the read.
* `Rewards`: the timer and the end of a pull are weakly fair; that a pull asked
  often enough succeeds is strong fairness, as the player service is up most of
  the time. `DayIsFetched` further assumes that the process stays up and the
  connection on during the last half day.
* `Servers`: timers and the end of a failed read weakly, each step of a request
  that is made again and again strongly (a request may always be lost). The
  property is for a backend that restarts finitely often.
* `Accounts`: the watcher's ticker, requests, answers and polls weakly; a login and
  an entry that are tried again and again succeed at last (strongly). Nothing is
  assumed of users, nor of reconnections: a session may stay "reconnecting" for ever
  (finding 4), and the watcher takes that for work. `EnabledComesBack` therefore
  speaks of accounts that are again and again not reconnecting, and of operators who
  do not ask for reconnections for ever.
* `Desk`: answers, the stream's reopening and its events, and the timers of a page
  in front, weakly. Nothing of users, nor of the order.
* `Activities`: the server's turn, the arrival of answers and storage events.
* `Messages`: a message gets its turn at the account's lock, its handling ends
  (each wait in it has a deadline), an answer or its loss reaches the page.


## 4. What the code and its documents disagree on

The modules state what the documents say where a model refutes it, as a definition
that no run has as a property. TLC finds a counterexample when it is given as an
invariant or property with the constants of the module's run, or those named:

1. **Broken after write** (`AutoExecution!BrokenIsNotResent`). A chat whose frame was
   written but whose read failed is recorded as failed, not unknown
   (`auto/operatorapi/execution.go:166-184`), and a retry sends it again. The
   comment at `execution.go:108-110` asks for an operator's verification, and
   `mxd-auto-process/docs/modules/operator-api.md:96-98` says such errors "are not
   automatically replayed on another account".
2. **Replayed confirmation** (`AutoExecution!VerificationReleasesOnce`, with 1
   command, 1 account, 4 calls, 2 confirmations, `Batches = {b1}`, the specification
   `Spec` and `SYMMETRY Symmetry`: without them TLC needs much longer). A confirmation whose command
   was answered afterwards is forgotten, and the same id releases a later unknown
   command; `execution_verification.go:5-6` says it cannot.
3. **Stale result** (`AutomationWorkflow!AutoFinishIsDelivered`). The answer for
   revision 0, applied by group id alone (`automation-workflow.ts:49`), finishes
   revision 1, if that was approved before it arrived.
4. **Nobody reconnects** (`GameSession!ReconnectIsDriven`). A report between the
   loop's last look and its reset of `automaticRunning` starts nothing
   (`reconnect.go:84`, `:93-106`); `RECONNECT_IMPLEMENTATION.md:255` promises
   recovery without the user.
5. **Blocked hand-over** (`GameSession!ReadIsCancelledFirst`). An operator's reconnect
   does not cancel the monitor's read (`reconnect_support.go:87-103`); the hand-over
   waits for it holding `Session.mu`. The comment at `:158-159` says to cancel first.
6. **Leaving after a merger** (`PlayerTeams!LeavingIsRecorded`, with a limit of 3).
   The approval on the merged team stays "approved" (`team_leave.go:71-73`);
   `mxd-player/CONTRACTS.md:56-57` says it is recorded as rejected.
7. **The other list stays behind** (`Desk!ActingManagerIsCurrent`). A manager who
   approves and opens the other list before the answer: the handler loads the list
   the action was made in, and drops the load of the one that is open, which stays
   empty until the next event. `ManagerView.tsx:146-147` says the acting manager must
   not depend on one.

Noticed on the way; each is part of its model and stated by no property:

*Orders, executor, sessions, teams*

* `docs/contracts/operation-groups.md:400` leaves approved orders to the staff
  while the connection is off, but an approved order that is neither for issuance
  nor exempt from review has no completion by hand (`CanComplete`).
* A retry of a stored batch while no account is online answers `failure` without
  `no_online_accounts` if an earlier call had chosen an account
  (`execution.go:88-93`); `operator-api.md:87-90` reads otherwise.
* A process that stops after the last command and before the final save leaves the
  row "running", and a retry without accounts then says "failure" of a delivered
  batch (comment at `AnswersTellTheFate`).
* A caller of `Session.Reconnect` whose attempts failed marks the session failed
  even if the loop has brought it back (`MarkFailed`); no production code calls it.
* A frame that was out when the process stopped, or when its row could not be saved,
  is remembered nowhere, and a retry sends it again (`OnlyRetriesResend` says that it
  takes a retry, or an execution that has no row yet).
* A report about the old connection that comes after the hand-over closes the new one
  (`message_monitor.go:131`); the session then reconnects once more.
* A player request that took its day before midnight commits to it after.
* A merger that can no longer be approved stays pending; no endpoint rejects it.
* `setConnection` of the player integration reads the mode before its health check
  and saves after it, and so reverts a switch of the mode made meanwhile.

*Staff accounts* (`Staff`)

* Tabs of one browser share its cookie and do not tell each other of a login
  (`App.tsx:55`, `:59`): a tab goes on showing the user, the rights and the
  workspace of before, its requests are made as the new user, and its logout ends
  the new user's session. So does a change of the password of the account it shows,
  which logs the tab out (`UserAdminView.tsx`, `onRequireRelogin`).
* A stop between the write of an account and the removal of its sessions leaves
  them, with the rights the row has now (`service.ts:232-236`).

*Game sessions and the pages that hold them* (`Accounts`)

* `updateServer` stops the sessions of the server before it stores the new entry
  (`server_handlers.go:43-49`), and the watcher may log in between with the old one. A
  disabled server loses that session again (`DisabledServerIsQuiet`); with a new
  address it stays on the old one, though the comment at
  `account_manager_watch.go:19-20` keeps the accounts enabled so that the watcher
  applies the new one. (The address is not in the model.)
* A creation that adopts its session after the account was halted leaves a disabled
  account with a session, which the watcher does not look at.
* A creation adopts its session outside the account's lock, while the watcher may be
  logging the new account in too (`account_manager.go:84-85`, `:106`): one of the two
  sessions is left without an owner.
* A second login over a session whose stop failed drops that session.
* Numbers are given again after a restart: a list or save sent before the next poll
  goes to another session, and the editor accepts it.
* A "clear" storage event that is handled late erases the newer session of another
  tab; so does a late logout answer.
* The edit dialog saves the enabled flag it was opened with.

*Pages of work orders* (`Desk`)

* `docs/contracts/operation-groups.md:395-396` says a reconnected event stream
  invalidates and refreshes once; nothing does (`missed`). A change between the
  initial load and the opening of the stream is missed the same way.
* The refresh button may answer from the cache, up to 15 seconds old.

*Activities*

* The request form writes the cache without the migration flag
  (`CustomerView.tsx:72`), as a change of a visibility does: an editing page opened
  later, when the server's list has been emptied, "migrates" deleted activities
  back (`ActivityView.tsx:57-64`; `docs/contracts/activities.md:6` speaks of the
  browser's own list).
* A page whose load failed shows the cached list, which a form may have filtered;
  its first change sends that list whole.
* A draft keeps the visibility it was opened with, so that saving shows an activity
  again that was hidden meanwhile.

*Messages*

* After a lost answer both panels say that sending failed and may be tried again,
  though the message may have been delivered.
* The auto process takes the account by its id: one edited between the page's last
  overview and the send receives a message confirmed for another character
  (`OnlyNewerEditsMislead` says only then).
* The SOP's page becomes usable on a status answer while its overview is an old one;
  the auto process's page never looks at the age of its overview.

*Read, not modelled*: `approve(id)` carries no revision, so that a reviewer approves
what the order has become since it was shown; the request form makes a new
idempotency key for every click on submit; the player registration page keeps the teams of the last account when a refresh fails after
another one logged in (`PlayerRegistrationApp.tsx:47-81`), and a join request whose
applicant re-applies with another character keeps its id, so that a leader may
approve another character than the dialog named.


## 5. Proofs

### `OperationGroups_proofs`

For all users, access tables, orders, keys, requests and verifications, and with
unbounded numbers of each: type correctness and every property of run
`Orders`, in their parts and as the run checks them (`ReviewHolds`,
`RecordsAlwaysAgree`). The properties of the state but one speak of a single order, so the
inductive invariant is a predicate of a stored record, `GroupInv(grp)`, for every
order. It is stronger than the properties: a released order is approved at its
present revision (or exempt, or a warp), and an order under review *or rejected*
is clean, because an edit of a rejected order must start clean as well. One lemma per
operation shows that the record it stores satisfies `GroupInv`;
`ReplaceKeepsInv` lifts that to the table. The batch stores many records and has
its own lemma. `SubmissionIsIdempotent` needs that no operation but a submission
gives a key; `FinalOrdersNeverChange` is an action property and follows from the
guards under the invariant.

### `PlayerTeams_proofs`

For any number of accounts, teams, bosses, requests in flight, midnights and any
limit: type correctness and all properties of run `Teams`
(`MembershipHolds`, `RequestsHold`, `MembersStay`). None of the properties
of the tables is inductive alone. `OneTeamPerBossAndDay` survives a merger
because both teams are on one list, so nobody is in both (`MergersFit`);
`PendingCanBeDecided` needs that teams not created yet have no applications
(`AbsentIsEmpty`); `MergersEndInATeam` stays acyclic because a merger points
at an active team, which points nowhere. `IInv` is their conjunction. The limit
(`TeamsFit`) is a second invariant on top of it that counts finite sets with the
library's `FiniteSetTheorems`. `MembersStay` is an action property.

`Rewards`, for any player services, rosters, directories, days, lists and numbers
of tickets: `RewardsAreSound` (`RewardsHold`) and `GrantsAreWhole` (`GrantsHold`).
That the connection is quiet once it is off needs that a pull goes on only while
the scheduler runs (`PullIsRun`). That an application grants to all eligible teams
or to none rests on arithmetic: a team's share, the tickets divided by its members
and rounded up, is nothing only when the list has no tickets (`ShareIsNumber`), so
that what was granted can be told from what was not.

### `GameSession_proofs`

For any connections, chats, callers of `Reconnect` and number of attempts: type
correctness, `ConnectionsAreSound` (`ConnectionsHold`) and `ClosedIsFinal`. The
invariant adds what each driver holds (`Control`): it has `Session.mu` exactly
while it is "swapping", a connection exactly between the dial and the hand-over,
and one more attempt as long as it is not done. With one driver in an attempt at
a time there is then one fresh connection at most, which is why the hand-over may
close the old one without looking. `Closing` says that the hand-over never holds
`mu` in a closed session, which is what makes `ClosedIsFinal` and
`ReadyIsConnected` survive its wait for `transportMu`. Most steps touch none of
this and share one lemma (`QuietInv`).

That a session implements `ManagedSession` (`SessionImplementsManaged`) needs one
fact more: nobody makes an attempt before the start has come to an end, and nothing
returns to the start (`StartIsOver`). An attempt has the only login under way
(`OwnLogin`), so that its dial, its entry into the game, its failure and its hand-over
are a `LogIn`, `Complete`, `GiveUp` and `HandOver`; the end of `Close` is a `Release`
because the connection is open until then (`Sockets`); what moves drivers outside of
the game keeps the logins (`SameLogins`) and at most changes the phase
(`PhaseRefines`). `ReconnectIsDriven` and
`ReadIsCancelledFirst` are false (section 4) and not part of it.

`Accounts`, for any number of sessions and faults: `SessionsAreKept`
(`SessionsKept`). `NoSilentLeak` is a property of steps, and a step can only be
judged by what those who hold a session know. The invariant (`AccInv`) collects
it:

* `Orderly` and `Answers`: a request of the dialog is one its step lets it make and
  is about the session it holds; the answer to it names a session of the same
  number and of no earlier life; a session that was answered as stopped stays so
  while its number is mentioned, because a number is given again only when nobody
  mentions it (`Fresh`).
* `Created`: between the answer of a creation and its handling nobody deletes the
  account, so that closing the dialog leaves the session with it.
* `Stale` and `Alone`: a dialog whose session is of an earlier life may be told
  "entered" about another session of the same number. It is that of the account,
  because beside such a dialog nobody else can have one: no other page is in use,
  and no login or creation is under way. This is the part that a reader of the code
  would least expect to be needed.
* `OneTab`: with a single tab, storage and tab agree, requests are about the saved
  session, and a poll that found another one shows that the saved one is gone.

`EffectIs` says once what serving a request may do, whoever waits for it, and
`Manages` what the account manager may do of its own accord; every step then keeps
`AccInv` and the hold on each session (`KeepsHold`). TLC checked `AccInv` as an
invariant, with 2 sessions and 2 faults and with 3 and 2, before it was proved.

### `AutoExecution_proofs`

For any executions, batches, commands, accounts, requests and confirmations:
`ExecutionsAreConsistent` and `SendingIsSafe` (`ExecutionsHold`, `SendingHolds`).
What the row says and what the game did differ at any moment, by a frame whose
answer is out, or by a process that died with it; the invariant says exactly by
what. `Tells` relates a row, stored or in the handler's hands, to the fates of its
commands: successful exactly when applied, unknown exactly when nobody saw the
outcome, and then with the verification it was tried under. `OpenFrames` says that
a frame is out only while its handler waits, `Handling` what the handler knows: no
command of its row is unknown while it sends, nothing is resent without a retry,
and no account was ever chosen only if the game did nothing it knew of. That the
next command is the first unfinished one needs a least element of a set of
numbers (`LeastIsLeast`), from the library's well-foundedness of `<`. Each of the
four action properties is then a question of the three ways in which a fate can
change (`FateChanges`: released, written, settled). `SendingHolds` says no more than
the row can keep apart: a command that is marked successful or unknown is not
resent, or not before its release, and every other one only on a retry. A frame
whose connection broke, or that was lost with the process, may have been delivered
and is among the others.

The refinement (`ExecutorImplementsDelivery`) reads the stage and the mark off the
fates. They are functions of one execution's fates, so that a step is an `Attempt`
or a `Release` of that execution or a stutter; the mark is well defined because
delivery in order leaves one command unobserved at most (`OneUnobserved`), and a
frame whose answer is forgotten stutters (`ForgottenStutters`).

### `AutomationWorkflow_proofs`

For any users, orders, verifications, revisions and calls: all three properties of
run `Workflow`. The proof is modular: `OperationGroups_proofs` is instantiated,
every step is one of its steps or leaves the orders alone, because the actions are
made of the instance's own, and so its invariant holds here. On top of it `WInv` relates the two
processes: an approved order is of an authorised revision, and the verification it
holds was given for the revision it has (`Orders`); a call under way was made of an
authorised revision with no other verification, and its successful answer tells of
a delivery (`Sent`). Both speak of what only grows (`Grows`: revisions,
authorisations, verifications handed out, deliveries), which is why an answer that
comes late, after edits, is still true of the revision it was asked for.

### `Staff_proofs` and `Servers_proofs`

`Staff`, for any accounts, tokens, browsers, tabs and changes: all three safety
properties. What a tab shows is not inductive: an account that was switched off may
be switched on again, so that the invariant must speak of sessions that are not
accepted at present too (`Backed`), of every tab that was not displaced.

`Servers`, for any servers, changes under way and capacity: the types and
`NamesGoForward`. A name that anyone holds was given by the auto process and is not
newer than the present one (`NotNewer`); a catalogue that was read and not overtaken
is not older than the projection (`ReadIsCurrent`), which the revision check of
`refresh` is there for.

### `Pages_proofs`

`Desk`, for any changes of the order, reads under way and faults: `PagesAreSound`
(`PagesHold`) and `NeverGoesBack` (`NoneGoesBack`). The reads under way, the cache
and what is shown are one record, and the invariant says that it is `Tidy`: a read
that may still be cached or displayed is no older than what is shown, what is
cached has the page's own last change, and a load that outlives an invalidation
leaves nothing cached beside it. Each operation of the client (`Invalidated`,
`Loaded`, `Kept`) has a lemma that it keeps a tidy client tidy, and the steps are
made of those. `Settled` adds what the load under way is bound to bring, which is
what `ReadYourWrites` is short of.

`Activities`, for any activities, browsers and changes: `ListsAreSound`
(`ListsHold`) and `OnlyUnseenIsLost` (`OthersAreKept`). A change that is under way
differs from the list its page had seen in one activity (`ChangesOne`); when that
list is still the server's, replacing it whole spares the others.

`Messages`, for any texts, quick commands, targets and numbers of messages and
edits: `MessagesAreHonest` (`MessagesHold`) and `NothingGoesBack`
(`NothingIsLost`). The invariant follows a message from the dialog that asks
(`Asking`) over its request (`Asked`) to the game (`Reached`). Whatever the page
shows, loads or has put into a request is a state that the account has had
(`NotNewer`), so that a message that reached another target was overtaken by an
edit.

### Assumptions

Only the named ASSUMEs of the modules: absent values are distinct from present
ones, ids of submitted orders and rewards are disjoint, numbers are natural, a batch
has a command and the limit of a team is positive. TLC evaluates them in every run.

### Only model-checked

Liveness (`EveryRequestEnds`, `CloseEndsEverything`, `DayIsFetched`,
`CatalogueReachesPage`, `EnabledComesBack`, `DisabledServerIsQuiet`,
`DeadSessionIsDropped`, `ViewConverges`, `FormFollowsCache`, `SendingEnds`): beyond
the prover, which has no rule for fairness. Every other property of a run is a theorem.


## 6. Not modelled

* Byte level framing and message encoding (`gameprotocol`), and which text of the
  game means success (`chat_response.go`): the models take whether an exchange
  succeeds, and the answer, as given.
* The text of commands; the item catalogue, quick fill and potential tables:
  reference data and pure functions.
* Paging beyond the first page, search, exports, history, the audit log, migrations,
  password hashing, the validation of what is typed in: a refused request is a
  stuttering step.
* The player registration page, and the accounts, import and history of the player
  service: one tab, and single statements. `PlayerTeams` takes accounts as given.
* The JSON stores, which only tests use (`app.ts:103-111`).
* The reservation of a slot and the login it is for are one step of `Accounts`; the
  capacity itself is `MaxSessions`.

`components` in PROJECT.json gives the reason for each.


## 7. Plan

Done, in this order: `OperationGroups`, `AutoExecution` with `Delivery`,
`AutomationWorkflow`, `GameSession`, `PlayerTeams`; then `Staff`, `Rewards`,
`Servers`, `Accounts`, `Desk`, `Activities`, `Messages`; then the proofs of section
5, of every safety and action property that a run checks; then `ManagedSession`.

What is left, by importance:

1. An abstract statement of what a page may show of a table (it has been there, its
   own changes are in it, it does not go back), implemented by `Desk` and by the
   page of `Servers`; and the composition of `Accounts` with one `ManagedSession` for
   each of its sessions, which it takes for their state only.
2. The framing of `gameprotocol` under a cancelled read, and the matching of answers
   to commands by their text.
3. The player registration page against `PlayerTeams`.
