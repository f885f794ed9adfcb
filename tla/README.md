# Verification of olcrtc-panel-lite

TLA+ models of the panel that manages olcRTC instances (`src/cmd/olcrtc-panel`
and `src/internal`), the TLC configurations that check them on small
instances, and theorems about them that the TLA+ proof system checks for every
value of the constants.

`PROJECT.json` maps every definition to the source lines it stands for, lists
the runs, one mutant per checked property, the findings, the hazards and the
theorems.

## The system

| Component | State it keeps | Operations | What is hard | What makes it correct |
|---|---|---|---|---|
| Instance manager (`instance/manager.go`, `store/instances.go`) | a SQLite row, `config.yaml`, `key.hex`, a systemd unit per instance | create, duplicate, update, change room, update WB token, rotate key / client id, start, stop, restart, delete, reconcile | the four places change one after another, without a lock, in concurrent HTTP handlers; rollback; crash; a client that disconnects cancels the handler's context; systemd restarts units on its own | file follows row; a reported rollback has happened; deleted things stay deleted and leave nothing; identities unique |
| Subscriptions and mirror (`subscription/service.go`, `mirror/mirror.go`, `server/subscriptions.go`, `store/subscriptions.go`) | subscription rows with mirror URL and status, the public file at Yandex Disk | create, update, delete, entries, sync, import | background goroutines race with updates; remote call fails or its answer is lost; crash between upload and database | deletion leaves no public file behind; the published feed catches up |
| Traffic accounting (`traffic/traffic.go`, `store/traffic.go`) | counters, ledger of journal cursors | follow the journal, apply, periodic and manual reset | the follower is restarted and reads events again; inserts fail; instances are deleted | every event counts exactly once |
| WB session (`server/settings.go`, `assets/files/wb`) | three settings, three files shared with a browser worker, a systemd unit, the one-use token | start, poll, extend, stop, profile reset; a monitor goroutine; the worker | polled by many tabs; monitors outlive their session; the mutex is released while the token is applied | the token is applied once; what is shown belongs to the last session; progress that is shown ends |
| Auto-setup (`server/auto_setup.go`) | one state record in the settings, driven by browser tabs | start, restart, progress, skip, complete, dismiss, trigger | read and save are separate critical sections | every transition is atomic |
| Feeds and connection URIs (`subscription/service.go`, `instance/uri.go`, `server/subscriptions.go`) | entries and their order; nothing while rendering | create, update, delete, reorder, import; render in two formats | a rendering reads the subscription, the entries and each instance one after the other while all of them change | the order that was set; well-formed lines; no withheld token; nothing lost |
| Sign-in (`server/auth.go`, `server/server.go`, `store/auth.go`) | administrator, sessions, failed logins (in memory) | login, authenticate, logout, revoke all, change credentials | the check of a limit and its update are apart; sessions are written back late; addresses come from headers | old sessions end with the old credentials; a limit on failures per client |
| Settings and certificates (`server/settings.go`, `store/settings.go`, `certificates/certificates.go`) | key/value table, certificate and key files | read, update | applied field by field, without a lock; two renames for one pair | the panel can start again with what is stored |
| Release update (`assets/files/update/update.sh`, `assets/assets.go`) | bundles, links `current` and `previous`, shared data, embedded assets | download, switch, health check, roll back | killed between two steps; a health check that fails; settings that change meanwhile | a way back to a bundle that works; a failure restores |
| Operations (`server/settings.go`, `server/operations.go`) | map of long operations, state files | start, finish, read | the panel that tracks the update is restarted by it | "completed" is said when it is true |
| systemd client (`systemd/systemd.go`) | none (development map under a mutex) | status, start, stop, restart, wait | polling | reports only what systemd said |
| Reset scheduler (`cmd/main.go`) | none | compare dates, reset | | a reset at the boundary |
| Secrets, backup, `sysinfo`, `releases.go`, `redact`, web UI (`web/`) | key file, archive, static files | read, encrypt, archive | | |

Interactions: HTTP handlers call the manager, the subscription service and the
store directly, behind `requireAuth`; every successful change of an instance
"touches" the subscriptions that list it and starts a background mirror sync; the
WB session and auto-setup drive the instance manager; the traffic collector and
the reset scheduler are goroutines of the same process; `update.sh` restarts the
process, which then reads the settings and the certificate anew.

## Modules

| Module | What it is | Run |
|---|---|---|
| `InstanceManager` | handlers, rollback, systemd and crashes, step by step | `InstApart`, `InstRace`, `InstRegistry` |
| `InstanceRegistry` | abstract: calls that are atomic on the table | refined by `InstanceManager` |
| `TrafficLedger` | journal, collector, ledger, counters | `TrafficExact` |
| `TrafficMeter` | abstract: a plain counter of each event, once | refined by `TrafficLedger` |
| `SubscriptionMirror` | one subscription, its revision and its public file | `SubsSafe`, `SubsCatchUp`, `SubsOrphan` |
| `SubscriptionFeed` | entries, their order, and the rendering of a feed | `Feed` |
| `ConnectionUri` | the two URI formats, pure operators | through `SubscriptionFeed` |
| `WBSession` | the browser session that captures a token | `WBSession` |
| `AutoSetup` | the wizard's state under several tabs, its flags, the instances it creates | `AutoSetup` |
| `AuthSessions` | login, limiter, sessions, credentials | `Auth` |
| `PanelStart` | settings requests, the certificate, what the panel needs to start | through `ReleaseUpdate` |
| `ReleaseUpdate` | `update.sh` composed with `PanelStart`, the panel process, the tracker | `Update` |
| `...Proofs` | theorems, see below | |

`MC...` modules add the symmetry, the views and the sets of inputs the
configurations choose from. `ReleaseUpdate` extends `PanelStart` (the script asks
for the URL the settings give and restarts a panel that loads them),
`SubscriptionFeed` extends `ConnectionUri`.

## Instances: InstanceManager

One action is one step that the code takes without interruption by another
handler: a SQL statement or transaction, an atomic file replacement, a
`systemctl` call. Each action has the name of its step and `PROJECT.json` gives
its lines.

| Variable | Code |
|---|---|
| `rows`, `nextId` | table `instances`, its AUTOINCREMENT counter |
| `yaml`, `key` | `config.yaml` and `key.hex` of each instance; a failed rollback may leave `config.yaml` empty (`EmptyFile`) |
| `unit` | the state of `olcrtc-instance@<id>.service`, and the files its process has read |
| `up` | whether the panel process runs; `Boot` is `Reconcile` at its start |
| `op[p]` | the local variables of handler goroutine `p`: `pc` is its next step, `old`, `new`, `oldYaml`, `oldKey` what it keeps for a rollback, `cancelled` its context |
| `minted` | the next random client id or key: fresh values never repeat |
| `left` | what the bounds still allow |

Three runs with properties that hold, each with a different degree of freedom:

- `InstApart`: two handlers at work on different instances (`MaxOverlaps = 0`),
  with every fault. File, row, key and process agree when nobody is at work; a
  rollback that is reported has put everything back; a deletion leaves nothing.
  The code has no lock per instance, and the specification lets requests overlap;
  these properties only speak of the time until two of them have (`KeptApart`:
  none of `MaxOverlaps` is spent). After that five of the six are false, as TLC
  shows with `KeptApart == TRUE` and `MaxOverlaps = 3` (`RunningMatchesDisk` would
  need a fourth request to tell): a room change undoes a token update, although the
  comment at `manager.go:323` says that it updates only the room; a start between
  the steps of a deletion leaves a process; two updates leave the file of one and the
  row of the other. All six are proved as they stand.
- `InstRace`: any overlap (`MaxOverlaps = 3`). Identities stay unique and deleted instances stay
  deleted; both are proved as well.
- `InstRegistry`: one handler, the implementation of `InstanceRegistry` and the
  end of every request. The refinement mapping hides a row until its handler can
  no longer take it back.

`Spared(faults)` in a property says that these faults have not occurred. Each
such exception is there because the code drops the error, and TLC shows the
property violated without it: file errors and a cancelled context defeat
rollbacks (`_ = m.store.UpdateInstance(ctx, ...)`), a crash between two places
leaves them apart until `Reconcile`, which repairs only `config.yaml`.

`RollbackRestores` excepts disconnects for a reason: the rollback of a client-id
rotation runs with the context of the request (`manager.go:224`) and its error is
dropped, so after a disconnect it is reported as done and has not happened,
against the comment at `manager.go:211`.

Two exceptions were found while proving, and TLC then showed them with four
requests. `RunningMatchesDisk`: a process may die while `Update` is between the
file and the row; systemd then starts it with the new `config.yaml`, and when
the row is refused (`manager.go:129`) the file is put back and the process is
not restarted. `unit.early` is a history field for just that gap. `NoLeftovers`:
a creation that fails and whose removal of the files fails too (`manager.go:80`
drops that error) leaves files, so the claim is for one failing file operation.

## Traffic: TrafficLedger and TrafficMeter

The journal is an immutable sequence with an index for what has been vacuumed;
a position stands for a cursor. `reader` is the collector goroutine: `ReadCursor`
asks the ledger for the newest event, `StartJournal` runs journalctl after that
cursor or, when that fails, `JournalFails` falls back to one second before the
event, `ReadEntry` is one `ApplyTrafficEvent` transaction, and `Stop` the end of
journalctl or of the panel, which then opens the database anew. A counter is abstracted to how often it contains each
event. `Reconnect` is the hourly replacement of the only connection by one that
has not run `PRAGMA foreign_keys`.

`TrafficExact` checks that no event is in a counter twice, that a collector at
the end of the journal has recorded everything that follows the event the
accounts began with and is still in the journal (unless a database call failed),
that it gets there in the end, and that the ledger implements `TrafficMeter`, in which each event is
counted at most once, once and for all, or belongs to a deleted instance.
The exception of `NoGaps` is a database call that fails: the reader drops the error
of `ApplyTrafficEvent` (`traffic.go:131`) and reads on, and the next recorded event
moves the resume cursor past the lost one. `origin` is a history variable, the event
that was recorded when the ledger was empty. `NoGaps` claims nothing of what was
written before it, and cannot: a fallback by time also records older events of
that second, oldest first, and when it is interrupted the next start resumes
behind the newest, so that some of the older ones are counted and others are not.
It takes three stops to see this, hence the bound.

## Subscriptions: SubscriptionMirror

One subscription; what its feed says is a version number. `op` holds the HTTP
handlers (update reads the row, then writes all of it; entries and instances
change the content, then `touch` the revision, then spawn a sync), `task` the
goroutines that wait for or hold `mirrorMu`, `file` what is at Yandex Disk below
each base path. Every remote call may fail before or after it had its effect.
`happened` remembers faults and the events that the properties except.

`SubsSafe` checks that a deleted subscription leaves no file, that the URL in
the bundle is one of a public file, that a subscriber who fetched something else
sees another revision, and that an upload never replaces a newer feed. The
exceptions of `DeleteRemoves` are a mirror that was turned off before the
deletion (finding `SubsOrphan`) and a changed base path. `SubsCatchUp` checks
under fairness that a mirror that is behind catches up.

## The browser session: WBSession

`state`, `job` and `control` are the three JSON files that the panel and the
worker share, `expires`, `extended` and `wbToken` settings, `service` the unit
with its worker. `task` holds the requests and the monitors; a monitor has the
number of the start that created it, and so have the token its session
captures and the state the worker writes. `current` and `generation` are
`wbSessionMonitor`, `stateMu` is `wbSessionStateMu`. Each handler is cut where
another goroutine can come in between: at the mutexes, the settings, the files
and the systemctl calls. A second in which the monitor finds nothing to do is
no step.

A poll reads the file, looks whether a monitor runs, and takes the token itself
when none does; its answer is then its own copy of the state, whatever the file
says by now. `shown` is the last success that a poll answered, the token that
came with it and the session that was the last one at that moment. The calls
whose errors the handlers drop may fail: systemctl stop (`StaysOn`), the write
of "error" by the monitor and after a token that could not be stored.

`WBSession` (the run) checks that UpdateWBToken is called at most once per
token, although the monitor and the polls of all tabs look for it; that a
success in the file, and one that a poll answers, is that of the last session,
with its token, whatever an earlier one is still doing; that progress which is
shown has somebody who will end it. The exceptions are behaviours TLC found.
Of `StateOfSession`: two sessions that apply at once, a unit that a new session
could not stop, and for the answer a session that is started while the poll is
under way: the poll then answers the success of the session before. Of
`Progress`: a crash or a start that timed out leaves the browser without a
monitor, the monitor of an expired session kills the next one or marks it as
failed, a profile reset deletes the deadline of the next session, a unit that
could not be stopped, or "error" that could not be written, leaves progress that
nobody ends. No document promises otherwise, so they are not findings.

## The wizard: AutoSetup

`saved` is the row `auto_setup_state`, `completed` and `forced` are the settings
`first_run_completed` and `auto_setup_forced`; `req[t]` is a request with its
copy of the state (`copy`; `base` is the one on which Start reports an error).
A request is cut at each critical section of `autoSetupMu` and each other call
of the store. `components`, `tracker` and `unit` are the browser components and
the operation `wb` that installs or removes them: after a restart of the panel
only the unit's file tells how far it is. `instances` holds all instances there
have ever been; creating one is one step, `InstanceManager` shows its inside.

The run `AutoSetup` checks that a wizard that is completed without an error has
an instance of the right name and provider for each room it has recorded, also
when two tabs complete at once, a name is taken or the panel ends halfway (an
instance of that name that was there before counts, whatever its room: the
wizard changes no instances); that the wizard is shown after it was asked for,
and no more after it was completed or dismissed, unless the two overlapped
(`verdict`); and that polls, skips, dismissals and completions lose no room and
no skip, unless they save a copy that was overtaken (`stale`).
The last exception is a real gap: the state is read and saved in two critical
sections (`auto_setup.go:560` and `:622`), so a poll of another tab writes an older
step over "dismissed", although `server.go:58` says that every transition must be
atomic.

## Feeds and URIs: SubscriptionFeed and ConnectionUri

`ConnectionUri` has the two formats of `uri.go` and the validation of both, as
operators over abstract texts (which kinds of characters a text contains).
`SubscriptionFeed` has the table of entries with its `sort_order`, the handlers that
write it (`op[p]`: each reads the subscription, validates, then writes), and
one request for the feed: `reader` is `render` with its local variables, which reads
the subscription, then the entries, then each instance twice (`ResolveGet` is
`Manager.Get`, `ResolveURI` is `ClientURI` or `StandardURI`). The sums of
`aggregateEntries` grow with the lines (`Publish`): they only depend on what `Get` has
read by then, so nothing changes but the time of an addition. Instances are edited and deleted
meanwhile, and after `Reconnect` the database no longer checks foreign keys
(`SetConnMaxLifetime` replaces the only connection, the pragma was run once).

The run `Feed` checks that entries keep the order that was set, that each line
passes the panel's own validation, that no token is published which was
withheld all the time since the request began, that no entry which was there all
the time is missing, that the totals in the header agree with the lines, and
that a feed fails only because of something that changed under it. What the
exceptions are about:

- a rendering that finds an instance deleted between the two readings fails as a
  whole, although an instance that is gone before the first one is skipped
  (`service.go:333`); when removing files succeeds and the row stays, every feed with that
  instance fails from then on;
- an instance without a token in a subscription that leaves tokens out makes the
  whole feed of the client format fail: `Included` lets it pass, `ClientURI` refuses it;
- an entry is skipped whenever `Get` fails (`service.go:331-335`), also because the
  database or the status of the unit cannot be read: `NothingLost` is about the entries
  `Get` could read;
- instances may have settings the validation of manual URIs refuses (`Beyond`). Client
  format: a frame rate above 120, a batch above 64, a DNS server given by name, with
  port 0 or a port that is no number (`Validate` only splits host and port,
  `config.go:139`). OLCBOX: a `video_qr_recovery` that is blank or contains a separator
  (`Garbled`; `Validate` never looks at it). Both: a room of more than 16 KiB;
- a new entry is placed at the number of entries, so after deletions it may come
  before entries that were there (the order of those that were there remains).

## Sign-in: AuthSessions

`tracked`, `fails`, `first`, `until` are the map of `loginLimiter`; `live` with
`created`, `expires`, `seen` the table of sessions; `version` counts changes of
the credentials; `pc[p]` and the columns beside it are a request: a login
(`LoginAllow`, `LoginRead`, then `LoginFail`, or `LoginSuccess` and
`LoginCreate`) or a request with a session (`AuthRead`, `AuthPlan`, `AuthTouch`,
then what it asks for). `ClientIP` is `resolveClientIP`; `Arrivals`, what the
clients and proxies send, is external.

The run `Auth` checks that a change of the credentials ends every session that was
opened before it, that what was ended stays ended, that the columns of a session
agree whichever request wrote last, that the limiter exceeds its limit only by
logins that were already under way, and that a client is counted under its own
address behind proxies. "Opened before" is meant literally: a login that has
verified the old password and has not created its session yet creates it after
the change. `NoReturn` lets an expired session come back while a request
that read it in time is about to extend it. A client that hangs up while its
password is verified counts as a failed login, and the limiter starts empty
after a restart; both are in the model.

## Settings, certificate and update: PanelStart and ReleaseUpdate

`PanelStart` has what a panel reads when it starts: the rows `port`, `panel_path`,
`subscription_path`, and the pair `server.crt` and `server.key`. A settings request
goes through `cert`, `key`, `port`, `read`, `write`, as `handleSettingsPut` does, and
requests interleave. A path is the sequence of its segments.

`ReleaseUpdate` adds `update.sh`, one step for each change it makes: the
files of a bundle (`disk`), the links `current` and `previous`, the names in
`releases/data` (`names`, `surnames`), the installed `assets`, the restarts of the panel (`exe`,
`url`) and the instances (`unit`), the state file, the transient unit that runs it
(`pc`). `tracker` is `operationTracker`, `Progress` what the page shows. The panel
may die, the host may restart, systemd-run may be killed, any command may fail, and
settings requests go on meanwhile. So does the second writer of the assets: the
start of a browser session runs `assets refresh-wb` in a unit of its own
(`settings.go:903`), with the binary that was selected when it began
(`refresher`), and writes the files of the browser worker (`WBAssets`) one after the
other while the script may be anywhere. `todo` and `stale` are what either writer
has still to write.

The run `Update` checks that the panel finds settings it accepts and a pair that
belongs together; that at any time the selected or the previous bundle has answered
before and is whole; that an installation which fails its health check puts the old
bundle, its assets and its panel back; that "completed" is shown only for the bundle
that was chosen, selected, proven, with its own names and assets. What the
exceptions are about:

- `update.sh` neither stops nor waits for a refresh of the browser's assets. One that
  began before the link changed may write the assets of the other bundle after
  `assets install` (`update.sh:196`), and "completed" is shown all the same
  (`crossed`; without this exception, `InPlace` being `assets[a] = current`, both
  `VerdictHonest` and `FailureRestores` are violated). The next start of a browser
  session repairs them. The assets that no refresh writes, and all of them when
  none was under way at the switch, are always those of the selected bundle;

- two regenerations that overlap (of the settings, or of `handleRegenerateCertificate`
  in `server/system.go`, in the model a request with only the address), or one that is cut short between its two
  renames, leave a certificate with the key of another one (`torn`);
- after an installation that failed, `previous` names the same bundle as
  `current`; an update away from a bundle that has never answered
  has nothing to go back to (`blind`); installing the running bundle again replaces
  its files in place;
- `rollback` in the script asks for the URL of the old binary at that time; settings that
  change afterwards make a good rollback look lost (`moved`);
- under `set -e` a command that fails after the switch ends the script without
  going back (`Abort`);
- the shared names are not put back by the automatic rollback, and by a manual
  one only when they are missing, although `docs/data-directory-architecture.md:66`,
  `:112` and `:142` say that a rollback restores them. `VerdictHonest` therefore
  speaks of the names only after an installation.

## Bounds

| Run | Bounds | Why they are enough |
|---|---|---|
| `InstApart`, `InstRace` | 2 handlers, 2 ids, 3 requests, one fault of each kind (two of the disk in `InstApart`) | a create, and two more requests that overlap; every fault may hit every step, also in a rollback; a second id shows what one instance does to another, and freed names |
| `InstRegistry` | 1 handler, 3 requests, one crash, disk fault and death | the mapping is per handler; two handlers at once are covered by `InstRace` |
| `TrafficExact` | 2 units, 3 entries, 2 stops, one of every other event | reread after a stop needs one recorded event and one more; the third is lost or vacuumed; the second stop interrupts the reading that follows the first (with 3 stops the same holds, 1.1 million states); `Shows = 1` stands for the ten lines of journalctl |
| `SubsSafe`, `SubsCatchUp` | 2 requests, 2 goroutines at the mutex, one request of each kind, one kind of fault (`SubsSafe`), 2 base paths (`SubsCatchUp`) | two syncs that overlap, or a sync and a deletion, while an update holds a row it read |
| `WBSession` | 2 requests, 2 starts, one stop, reset, extension or poll, 3 ticks, one fault | two sessions and their monitors overlap with a third request; a deadline, an extension and the expiry after it. With `MaxRequests = 2, MaxFaults = 0` the same properties hold (4.5 million states) |
| `AutoSetup` | 2 requests, 2 rooms, 1 event (fault, or something elsewhere in the panel) | each pair of requests in every order; a completion that fails or finds a name taken for one of its instances; 3 requests without an event were checked with one room |
| `Feed` | 1 instance with 5 configurations, 2 manual URIs, 2 requests at once, 3 entries, 2 subscriptions, 3 changes, 1 rendering | a change in each gap of a rendering, after a deletion or a reorder; both formats and every provider with and without token |
| `Auth` | 2 requests at once, 4 in all, 2 clients and a proxy, 2 sessions, limit 2, clock 4, 1 change of credentials | a touch that is overtaken by a revocation, two attempts at the limit, windows and sessions that run out |
| `Update` | 3 bundles (one does not serve), 2 assets (one of them the browser's), 2 settings requests, a budget of 4 requests, refreshes and mishaps | an installation that fails, then another or a rollback, with settings, a refresh of the assets or a mishap in between; two requests that could combine into overlapping paths |

`CHECK_DEADLOCK FALSE` is said everywhere because a bounded instance stops when
its bounds are used up and every request has been answered. Symmetry is used
only where no liveness is checked.

## Fairness

Fairness is assumed only where liveness is checked. Weak fairness of a handler
or worker step: the Go scheduler runs every goroutine, `WaitActive` has a
deadline, calls to Yandex Disk time out after 20 seconds. Strong fairness of
`Acquire`: `sync.Mutex` hands itself over to a waiter that starves. Weak
fairness of `Boot`: systemd restarts a panel that was killed (`Restart=on-failure`). Weak fairness
of `Collect`: `supervise` runs the collector again 5 seconds after it ends.
Nothing is assumed of clients, clocks, faults, instances or the remote service.
`WBSession` has no fairness: its `Progress` is a safety property, that somebody
is in charge. `SubscriptionFeed`, `AuthSessions` and `ReleaseUpdate` have none either:
their properties are about what is never the case.

## Proofs

For every value of the constants, from the assumptions on them that TLC also
evaluates:

- `InstanceManagerProofs!TypeCorrect`. `TypeOK` is not inductive: a handler at
  `write_yaml` uses the row it read, and only its step says that it did. `Shape`
  states, step by step, what a handler has read; `Typed == TypeOK /\ HandlerInv`
  is inductive, with one lemma for each group of actions.
- `InstanceManagerProofs!NoResurrectionHolds`: each step keeps freed ids free.
- `InstanceManagerProofs!NoClientIdClashHolds`. The inductive invariant is
  `Claims`: a client id below `minted` is claimed by at most one instance, where
  claims are the rows and all values that handlers may still write back.
- `InstanceManagerProofs`, its second part, for any number of handlers, instances,
  requests and overlaps; the properties, and so the layers of the invariant, only claim
  something until two requests have overlapped (`KeptApart`; once false it stays
  false) and until the faults that each of them names have occurred. None of the
  properties is inductive: each speaks of a moment when the handler is done, and
  what it did is spread over row, files, unit and its local variables. `AloneInv`
  says whose an instance is (`Apart`), so that everything about it is a function of
  the step of one handler. On it rest, in layers, `TableInv` (the row at each step;
  names; which instances have the new token), `Budgets` (a cancelled context or a
  panel that is down has been paid for), `FileInv` (what `config.yaml` and the
  key are at each step while nothing has failed), `NewInv` (unused ids have no
  files), `RunInv` (what a running process has read, and at which steps that may
  be out of date) and `LeftInv` (what one failing file operation leaves). One lemma
  for each group of actions and layer, and frame lemmas for the instances a handler
  is not working on.
- `TrafficLedgerProofs`: `Inv == TypeOK /\ Consistent`, a counter contains
  recorded events of its own instance, each once. `CountedOnce` follows, and the
  refinement of `TrafficMeter` step by step. `Gapless` adds that nothing between
  the origin and a recorded event, the cursor, or the place of the running
  journalctl is missing (`Whole`); entries are in the order of the clock, so the
  fallback starts at or before the cursor. It gives `NoGaps`, whichever of the
  events of the last second `Newest` takes.
- `SubscriptionMirrorProofs`: `TypeOK` with the mutex; `Ordered` (what is being
  uploaded was rendered after all that is at Yandex Disk), `Owned` (a file
  belongs to a row whose mirror is on), `Located`. They give `DeleteRemoves` and
  `MirrorNotOlder`.
- `SubscriptionMirrorProofs`, on what clients see. `Revisions`: who has fetched another feed than there is
  now has an older revision, or a request is at its `Touch`; an instance request
  that reads no link stays right as long as no link is late. It gives `ClientsNotice`.
  `Urls`: each URL that is in the row, or was read by an update that will write it
  back, is that of a public file, and a sync behind the upload has made its file
  what the next step needs; this ends when a deletion has removed the file, and then
  the row goes next. It gives `BundleMirrorExists`, also for several base paths.
- `AuthSessionsProofs`. `Reading` says what a request that has read a session is
  going to write: columns that agree. With it the type invariant,
  `ChangeSignsOut` and `SessionWindow` are inductive, and `NoReturn` follows for
  each step. `OwnAddress` needs no history: the headers that trusted proxies build
  (`Forwarded`) end in the client's address or in that and a trusted one. `Blocked` (an address with all its failures is blocked until its
  window ends) carries `LockoutBounded`, which needs the cardinality of the
  attempts under way.
- `WBSessionProofs`. `Fits` says which steps a goroutine of each kind goes through,
  `Mutex` who holds `wbSessionStateMu`. `Once` follows the token of a session: a
  start that has not launched its unit, the unit, the state file, and the goroutine
  that has it in hand. It is in at most one of these places, in none when it was
  applied; that two goroutines never hold the same token is where the mutex is
  needed. It gives `AppliedOnce`. `Session` says what the file may say at each step:
  whoever holds the mutex with a token, or applies one, does it for the last
  session, unless two apply at once; it holds until a unit could not be stopped.
  `Shown` says the same of a poll that holds a success, from the file or its own,
  until a session is started beside it. Both give `StateOfSession`. `Progress` needs
  five parts at once, all of them for histories without its exceptions except the
  first: `Fresh` (a session has one start, and no monitor before that is done),
  `Monitors` (only the current monitor has not been told to end; there is none
  while a start prepares a session), `Seen` (a unit that runs, and a file that shows
  progress, belong to the current monitor or to a request that will stop or
  delete them), `Deadlined` with `Deadlines` (there is a deadline once a monitor
  runs, or a stop that has deleted it is about to stop the unit) and `Tasked` (a
  token that is shown as being applied has a goroutine that applies it).
- `SubscriptionFeedProofs`, for any instances, entries and writers. Lemmas about
  `ConnectionUri` come first, for every instance that `Validate` accepts: each format
  fails exactly for a bad key or, in the client format, for an instance the client has
  no use for (`StandardSaid`, `ClientSaid`); what it says passes that format's
  validation but for what `Beyond` names, in spite of the aliases (`ShortParses`,
  `Carried`: no option but `video_qr_recovery` can be one a payload cannot carry, which
  rests on `GarbledAssumption`, that such a value is neither a number nor a codec); and
  removing the token leaves
  a URI of which both still hold (`StripShort`). The invariant has two halves.
  `Ordered` is about the table: the entries that were ordered have IDs that were given
  out, so an insertion is never one of them. The assumptions are that instances are
  valid (`ConfigsAssumption`) and that imported entries are links or manual URIs
  (`FileAssumption`). `Rendered` is about a request
  under way: what its `todo` says of an entry that stayed as it was is still so
  (`Matching`), what `Get` has read is what `URI` reads, or that is noted (`Reading`,
  `Noted`), an entry that can be said is still to come or there (`Covered`), and the
  sums belong to the lines (`Sums`). Writers are shown to be changes `Around` a
  rendering, and `AroundRendered` is proved once for all of them; each step of
  the rendering has a lemma of its own.
- `AutoSetupProofs`, for any number of tabs, rooms and instances. A wizard state
  travels: it is read, changed and saved in separate critical sections, so the
  invariant speaks of the saved state and of every copy that a request will still
  write (`Written`), and, while instances are created, of the part of the work that is
  done (`Creating`). `Honest` says that a state which claims completion without an
  error names an instance for every room. It gives `CompletionHonest`; `Sure`
  and `Decided`, about the flags and the requests between two of them, give
  `VerdictHolds`. That the list of wanted names is worked off uses the least number
  principle from `WellFoundedInduction`, on sets.
- `ReleaseUpdateProofs`, for any bundles, assets, paths and requests. `Settled` says
  that the only handler which is replacing the pair completes it, `Linked` what
  the links name at each step of the script, `Written` whose assets its two writers
  have written and have still to write, `Chosen` and `PutBack` what is in
  place after each step forward and back. Together they are inductive and give
  `StartsAgain`, `WayBack`, `FailureRestores` and `VerdictHonest`.

Only model-checked: liveness (`RequestsFinish`, `EventuallyCounted`,
`MirrorCatchesUp`) and everything else that uses fairness or ENABLED, which is
out of the prover's reach; `RefinesRegistry`, whose mapping is for one handler;
`NothingForgotten` of `AutoSetup`, which depends on what the fold `FirstRooms`
computes. A type invariant is
proved where the module has proofs; the runs spend their time on the other
properties. No module uses a RECURSIVE operator.

## What is left out

- Components without a module: the reset scheduler and, of the systemd client,
  everything but its effects (they compare dates and poll); secrets, backup,
  `sysinfo`, `releases.go`, `redact` and the web files (no state that two steps
  share). `components` in `PROJECT.json` has the reason for each, and what is left out
  of those that are modelled in part. A hazard without a property carries a note.
- Instances: `MaxInstances` is a constant, although the setting may change it;
  `Reconcile` at the start of the panel is one step per outcome; every instance
  is one of provider wbstream, the only one the token update applies to. The limit
  is read and the row inserted by two statements (`manager.go:62`), so creates that
  overlap may exceed it: the model allows it, no property forbids it.
- Traffic: the wall clock of the journal is monotone; lines that are not
  traffic events are left out. `ORDER BY event_at` compares texts whose order within one
  second is not that of time: any event of the newest second may come first.
  What is lost before the first recorded event is not claimed.
- Subscriptions: one subscription, since subscriptions share only the mutex and
  the settings; the import (see `SubscriptionFeed`); inputs that only the API
  accepts and the web interface never sends (`mirror_status` in a PUT,
  `mirror_public_url` in a POST). Traffic alone does not refresh a mirror, in
  the code as in the model.
- Browser session: provider telemost, the token entered by hand, the removal of
  the browser components (which also deletes token and deadline), the directory
  of the browser profile, partial failures inside UpdateWBToken (those are in
  `InstanceManager`). Two extensions at once are modelled, their limit of one is
  not a property of a run.
- Wizard: messages, percentages and `completed_steps`, which are only shown;
  development mode without systemd; the time of the worker's report
  (a poll may or may not be shown a room); whether the Wildberries token is
  there (chosen freely); `created_instances` sent by a client, and the steps of
  drafts that no tab sends.
- Feeds: traffic of manual entries, the wording of names, a name, token or client ID so
  long or blank that a URI fails for it (the page sends none: the panel makes client
  IDs), errors of the key file other than its absence, of the database while the entries
  are read, the mirror (see `SubscriptionMirror`); an instance is edited in one step (see `InstanceManager`).
- Sign-in: `windowLimiter`, which counts requests, and `CleanupSessions`, which
  nothing calls; passwords and tokens are right or wrong; expiry is compared as
  a number although the code compares the texts of two times.
- Update: the 35 minutes after which the page calls an old state a failure;
  `public_origin`; the first creation of the certificate and an error before its
  first replacement; the fallback of `configuredPublicSettings` after a database error;
  requests to start and stop instances while the script runs; the migration and repair of
  the browser profile that `assets refresh-wb` also does. A refresh may begin and end
  at any time: that the restart of the panel waits for the request that began
  one, while its unit runs, is not modelled. The port in `config.yaml`
  is taken to be the one the panel shows.
