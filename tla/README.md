# ShareCodex in TLA+

ShareCodex lets a group share Claude, ChatGPT and Google subscriptions. A tray
app on every member's device reads the session logs the coding CLIs write,
attributes each response to the subscription that was signed in at the time and
uploads it; a server keeps the common ledger, reconstructs how much of each
quota window every member used, and shows it to members and to an admin.

This directory holds TLA+ models of the program, TLC configurations that check
them on small instances, and theorems proved with TLAPS. Every definition that
models code names, in `PROJECT.json` under `map`, the lines it stands for.

## The system

| Component | Source | State | Operations | Hard because |
| --- | --- | --- | --- | --- |
| Device ledger | `internal/client/storage`, `internal/client/agent/{ingest,observe,resync}.go` | SQLite: observations, events, snapshots, limit events, files, outbox, review flag | add observation, ingest a file, add or correct a snapshot, reset and requeue | identity checks, scans, usage probes and uploads run concurrently on one store; only scans and resyncs exclude each other |
| Upload | `internal/client/agent/syncing.go`, `internal/client/sync` | a batch under way | read a batch, send, delete through its last id | replies get lost, the client gives up after a minute while the server works on, two uploads at once during a resync |
| Server ledger | `internal/server/storage`, `internal/server/httpapi` | PostgreSQL: persons, devices, invites, accounts, memberships, usage events, snapshots, limit events | pair, authenticate, ingest, revoke, delete | several devices of one person report one response; corrections, gateway moves and reclassification must commute with duplicates |
| Sessions of the app | `internal/client/agent/{agent,syncing,settings}.go`, `internal/client/secret`, `internal/client/settings` | settings file, keychain token, client in memory, revoked flag | join, leave, sync, restart | three stores updated one after another; network calls between reading and writing memory |
| Claude sign-ins | `internal/client/agent/usage.go`, `internal/provider/anthropic/oauthusage` | sign-in rows, tokens in the keychain | link, unlink, probe, refresh | a refresh spends the old refresh token before the new one is stored |
| Quota windows | `internal/quota`, `internal/server/query` | none (pure), plan intervals | latest readings, window inference, capacity replay | boundaries, resets, readings out of order |
| Log parsers | `internal/provider/*/{transcript,rollout,antigravity,opencodex}` | parser state per file | parse a file | streamed duplicates, replayed history, running totals |
| Admin pages | `internal/server/admin` | admin sessions, plan intervals | login, person, account and plan operations | concurrent plan edits, login throttling |
| statusLine capture | `internal/provider/anthropic/{statusline,config}` | Claude Code's settings file, spool files | install, restore, spool | a third program edits the same file |
| Desktop shell | `main.go`, `desktop*.go`, `internal/client/{desktop,autostart,update}`, `frontend` | widgets, autostart entry | show, toggle | user interface and operating system glue |

The agent runs five loops (`agent.go:187`): identity checks every five minutes,
usage probes, update checks, scans and syncs. Loops talk through two one-slot
channels (`kickScan`, `kickSync`) and the store. A device reaches the server
over HTTP with a bearer token; the server handles every request in one
database transaction. What one part hands to another:

- a log file grows; a scan reads it, attributes each response with the sign-in
  timeline and writes the events, the file's state and the outbox in one SQLite
  transaction;
- an upload reads a prefix of the outbox, posts it and deletes through its last
  id; the server upserts every item in one transaction and answers with an
  overview of the caller's accounts;
- a 401 stops the device for good, until the app restarts or joins again;
- the admin revokes devices and deletes members and accounts under the feet of
  uploads;
- overview and capacity report are computed from the server's rows on request.

What makes each part correct:

| Component | Correct when |
| --- | --- |
| Device ledger, upload | nothing recorded is lost between store, outbox and server; what is uploaded ends up equal to what is recorded; everything recorded is delivered |
| Server ledger | only the owner's devices change a record; nothing known is unlearned; the record follows the account its owner's devices agree on |
| Sessions of the app | the settings always name a device whose token is stored; nothing stays of a device left; a joined device keeps syncing; the revoked banner tells the truth |
| Members | a join link pairs one device; no record, device, link or membership survives its owner; deletion is all or nothing; who left stays out; a refusal is final |
| Quota windows, capacity | a stale figure never lowers the value shown; one reset is listed once; a replay counts each request once and refuses only past the limit; figures do not depend on upload or map order |
| Claude sign-ins | a refresh token that was spent has a stored successor; an unlinked sign-in does not come back |
| Quota snapshots | a corrected reading exists once, under its last account |
| Plan intervals, accounts | intervals do not overlap; a plan with its tier is not lost to one without; a deleted account stays deleted |
| statusLine capture | Claude Code's own setting is what is restored |
| Log parsers | a response is counted once, however often its log repeats it, on the subscription it drew on |
| Overview and reports | what is divided adds up to what was reported, the same in every report |
| Public dashboard | no masked email leaves the console; before it is published only an admin sees it |

## The modules

| Module | Models | Composed with |
| --- | --- | --- |
| `DeviceSync` | one device's store, scanner, identity checks, uploads and resync, the requests in flight and the server's copy | `MCDeviceSync` (instances), `DeviceSync_proofs` |
| `UsageLedger` | one record in `usage_events` and the devices that report it | `MCUsageLedger`, `UsageLedger_proofs` |
| `AgentSession` | settings file, credential store and memory of the app, and the sync under way | `AgentSession_proofs` |
| `Members` | a member's devices, links, records and share on the server, transaction by transaction | `MCMembers`, `MCServer`, `Members_proofs` |
| `Delivery` | abstract: a store that copies the records of another | implemented by `DeviceSync` |
| `Readings` | statusLine readings from the spool to the server's snapshots, with the uploads under way | `MCReadings` (bounds), `MCServer`, `Readings_proofs` |
| `ClaudeLogins` | ShareCodex's own Claude sign-ins: store, list, probe loop, sign-in and sign-out | `ClaudeLogins_proofs` |
| `UsageProbe` | readings with another program's credential around a switch of accounts | `MCParts`, `MCParts_proofs` |
| `StatusLine` | Claude Code's statusLine setting and the original it replaced | `MCParts`, `MCParts_proofs` |
| `Accounts` | account rows, plan intervals, order and deletion on the server | `MCParts`, `MCParts_proofs` |
| `Dashboard` | admin sessions and the public dashboard with its cache | `MCParts`, `MCParts_proofs` |
| `Rollout` | a Codex session file and what passes over it leave in the ledger | `MCReports`, `Reports_proofs` |
| `Transcript` | Claude Code requests, OpenCodex's log, and the way to the server | `MCReports`, `Reports_proofs` |
| `Reports` | overview, usage reports, attribution and the queries under them | extends `Quota`; `MCReports` |
| `Quota` | the value and the resets an overview shows of one limit | `Capacity` and `Reports` extend it |
| `Capacity` | windows and samples from readings, rates, rolling demand, replays, series | `MCCapacity` (all small inputs), `MCUsageLedger`, `UsageLedger_proofs` |

`MCParts`, `MCReports`, `MCServer` and `MCUsageLedger` put components side by
side that share no state: a variable says which one a behaviour is about, and
the others stay as they began. `Readings` names its specification
`ReadingsSpec`, so that `MCServer` extends it and `Members`.

`DeviceSync` and `UsageLedger` meet at the server's upsert: the first has one
device with its whole pipeline, the second many devices with only the queue of
reports of one response. `DeviceSync`'s rows leave out person, evidence,
third-party mark and gateway, which never vary for one device whose logs do not
go through a gateway.

### DeviceSync

`timeline`, `local`, `seen`, `reviewed`, `outbox` and `nextId` are the SQLite
tables; `log` is what is on disk. One action is one SQLite transaction or one
step of a server transaction; between two of them anything else may happen.

- `ObserveAnswer`, `ObserveStore`: an identity check gets its answer and stores
  it later, so answers are stored out of order (`observe.go`).
- `ScanStart` lists the files and loads the timeline, `ScanReload` loads it
  again, `IngestFile` reads one file (upsert, previous account, outbox item),
  `ScanDone` marks the review done, `ScanStop` is a pass that ends early.
- `ResetLedger` deletes the ledger and queues the timeline again; a rescan under
  the same lock follows.
- `UploadRead`, `TxBegin`, `TxIngest`, `TxCommit`, `DeleteOutboxThrough`: one
  sync. `UploadFail` loses the request or the reply; the request may outlive
  its client (`orphans`, `TxBeginOrphan`). `TxAbort` rolls back. `Crash` stops
  the app anywhere.

A file holds one response; `KeyOf` says which, so that a response copied into
a resumed session's log is two files with one key. `out` stands for the fields
that only grow. Ingest transactions run one after another: `ensureAccount`
locks the account's row (`server/storage/storage.go:458-487`). Left out:
gateways and limit events (`Transcript`), snapshots (`Readings`), sub-agents and
desktop sessions. `MaxResets`
bounds resyncs; the command-line resync asks that the app is closed
(`main.go:281-285`).

`Abs == INSTANCE Delivery` maps the device's rows to the records held, the keys
with an item in the outbox to the marked ones, and the server's rows to the
copy. `Delivers` says that `DeviceSync` is an implementation: an item leaves the
outbox only when the server's row is the device's, the server changes only rows
the device has queued, and nothing stays queued for good.

### UsageLedger

`ReadLog` is a client that reads the request in its log: it comes to an
attribution, updates its row and queues a report naming the account it
replaces. `Deliver` sends the oldest unanswered report, with the reply perhaps
lost; `DeliverLate` is a duplicate of an answered one. `Upserted`, `Moved` and
`Reclassified` are the three statements of `Ingest` on one row.

### AgentSession

`JoinPair`, `JoinToken`, `JoinSwitch`, `SaveSwitch`, `DeleteToken` are the
writes of a join in order, `LeaveClear` starts a leave, `SetPreference` and
`SavePreference` copy the settings under the lock and save them outside it.
`WriteFails` is any of them failing, with the code's undo. `SyncStart` captures
the client; `SyncUploaded`, `SyncRejected`, `SyncOverview`, `SyncError` are the
answers to it. With an empty outbox no upload is sent, so `SyncUploaded` can
happen for a revoked device; only an upload's 401 sets `revoked`, and a refused
overview is one of the errors of `SyncError`.

### Members

Each action is one statement of a PostgreSQL transaction at READ COMMITTED: it
sees what is committed, waits for a row another transaction holds (a guard) and
fails on a foreign key. A deadlock, a timeout or a stopped server is an abort
action. There is one member, since members do not touch each other's rows, and
one account.

### ClaudeLogins

Anthropic is `grants` (whose a sign-in is, and its newest refresh token) and
`planNow`; the device is the credential store `tokens`, the table `rows` and the
pauses. `RoundStarts`, `NextLogin`, `ReadSecret`, `Renew`, `SaveRenewed`,
`UsageRead` and `UsageUnread` are `probeUsage` and `probeLogin` between two
places where something else can run; `StartLogin` to `LinkDone` the sign-in in
the app, `Link` the one of the command line; `Unlink`, `UnlinkToken`,
`UnlinkRow` the sign-out, which deletes the token first. A write that fails, an
answer that is lost and a crash are counted by `fails`.

### UsageProbe

A credential does not say whose it is, so a reading goes to the account of the
latest identity check. `RoundStarts`, `RoundChecks`, `RoundStores`,
`RoundReloads`, `RoundReads`, `RoundSaves` are the steps of a round;
`CheckAnswered` and `CheckStored` those of the identity loop; `Switch` and
`Expiry` what the other program does.

### StatusLine

`file` is the setting, `original` the remembered line in memory and in the
settings file. `InstallStatusLine` and `RestoreStatusLine` decide on a plan and
start saving; `Save`, `ApplyReads`, `ApplyWrites` and `Forget` are the writes
in order, each of which may fail; `RepairInstalledPaths` runs at the start of
the app; `UserEdits` may come between any two.

### Readings

`Spool` is the shim, `IngestStatusLine` a pass over the spool files, `Correct`
the move of a reading to another account with its two queued items, `Requeue`
the part of `ResetLedger` about readings. An upload is `Send` (the oldest items
are read and posted), `Receive` (the server ingests the request, `Store` being
its two statements on one item), `Answer` (`DeleteOutboxThrough`) and `Lose`,
which may come at any point: a request whose client gave up stays on `wire`
while the next one is sent, and is received later or never. Several requests are
under way at once: the sync loop's, a resync's (`resync.go:17`), and those
nobody waits for. Requests are received whole: two that carry one item take the
lock of its account's row in `ensureAccount`, and one waits for the other.

`wire` keeps of each request how many of its items are still in the outbox
(`covers`), which stands for the ids: an answer removes these, none after a
resync, since ids are handed out upwards. `reached` is how many of the outbox's
items the server has ingested, and `late` is set when a request arrives out of
turn (`InTurn`): after the answer to some of its items, after a resync, or after
a request that carried more. `ReadingsAgree` is what holds until then, and
`DuplicatesIgnored` what the code says of requests that come late.

The loops of the code, over the spool's files and over the items of a request,
are recursive functions `after` with a value for each step of the loop, so that
a proof can follow them.

### Accounts and Dashboard

`Accounts`: `Upload` is `ensureAccount`; the admin's actions are the statements
of `SetAccountOrder`, `SavePlanInterval` and `DeleteAccount`, which hold the
locks the code takes (`FOR UPDATE` on the account's row), after a form that was
filled in from what the page showed. `Dashboard`: sessions live in memory, a
visit asks for the setting, takes the kept overview or builds one with two
queries (`BuildOverview`, `BuildHints`), and shows the page.

### Rollout and Transcript

The logs are environment: Codex writes a record of each request and then the
session's total, or only the total (`Request`, `Count`), and may be updated in
mid-session; Claude Code writes a first line of a streamed response and a last
one (`Stream`, `Finish`), OpenCodex its own record before that. `Pass` reads
the file from its start, in the state it is in: `Parse` is the parser, with what
it has gathered after each line in `Gathered` or `ReadLine`, `Upsert` and
`Ingest` the device's table; `Ingested` is the loop over a transcript's events
and limit events. `CountedOnce` says that rows and requests correspond one to
one, each row being its request's. `Transcript` goes on to the server with
`Upload` and `Store`.

### Reports

Pure operators over the server's rows, as `Overview`, `UsageBy` and the SQL
under them compute them. A percentage is kept as its numerator over the
window's total cost; where a window has cost nothing nobody used it, and only
the members of the account are listed (`attribution.go:86-88`, told apart by
`ReportsAddUp`). `MCReports` adds a request, a reading, a share weight or a
sign-in at a time and compares every report with every other.

### Quota and Capacity

Pure functions, translated as sets, folds, quantifiers and, for the loops that
are proved about, recursive functions; `MCCapacity` grows a ledger of readings
or requests record by record and states what the functions promise of every
such ledger; `MCUsageLedger` runs it as its scene "capacity". Times are
integers, weights of demand are integers, and use of a limit is kept in units
of demand (percent is use / capacity * 100). Percentiles are taken at 50 and
90. The highest use of a window and its saturation, the medians of a
calibration, `WeeklyRate`, `Fit`, `Merge` and `WorstWeekly` are left out.

## The runs

| Run | Question | Instance | Result |
| --- | --- | --- | --- |
| `sync_resync` | is anything lost between resyncs, lost requests and crashes | 1 file, 2 accounts, 1 resync, 1 orphan, 6 ids | `TypeOK`, `EventsKept`, `ObservationsKept`, `LedgerAgrees` |
| `sync_delivery` | is the upload a delivery | 1 response in the logs of 2 sessions, 2 accounts, a correction, fairness | `Delivers` (refinement of `Delivery`, with liveness) |
| `session` | three joins, a leave, a preference, faults | 3 devices, 1 each of preference, failed write, restart, revocation | `TypeOK`, `TokenForSettings`, `NoTokenLeft`, `JoinedSyncs` |
| `session_revoked` | is the revoked banner about this device | 2 devices, 1 revocation | violated (finding) |
| `ledger` | is anything unlearned, does anyone else change it, does it follow its owner's devices; do overview and capacity report compute what they promise | 3 devices, 2 persons, gateway, output to 2, 1 late duplicate; 2 devices, 3 accounts, 4 reads of the log each; up to 3 readings, 4 requests, 2 samples a plan | `TypeOK`, `AgreedAccountHeld`, `OnlyOwnersChange`, `NothingUnlearned`; `LatestSettled`, `ResetsShown`, `CurvesTrue`, `ReplaysAddUp`, `RateMeasured` |
| `server` | links, deletion, leaving, refusals; and does the server end up with the device's readings | see Bounds | `TypeOK`, `InviteOnce`, `NothingOrphaned`, `RefusedForGood`, `LeftStaysOut`, `FailsOnUnnamed`, `ReadingsAgree` |
| `members_limits` | can a member with limit events be deleted | the members of `server` | violated (finding) |
| `logins` | do list, credential store and Anthropic agree, is every sign-in read | 2 accounts, 2 sign-ins, 1 renewal each, 1 failure, 1 change of plan, fairness | `TypeOK`, `StoredTokenWorks`, `TokenAndRow`, `SignInsAreRead` |
| `logins_out` | does signing out forget | the same, smaller | violated (finding) |
| `readings_late` | does a request that comes late do no harm | 1 session, 1 limit, 2 requests | violated (finding) |
| `parts` | four components side by side | see Bounds | `TypeOK`, `OwnReading`, `OriginalKept`, `PutsBack`, `PlanFollowsNewest`, `AdminsApart`, `NoEmailShown`, `PreviewIsAdmins` |
| `reports` | are requests counted once and where they belong, do reports add up | see Bounds | `CountedOnce`, `RequestsPlaced`, `ReportsAddUp` |

The names of the composed properties (`LatestSettled`, `RateMeasured`,
`AdminsApart`, ...) are conjunctions of the ones stated beside them in the
module, each about a function or a hazard of its own.

### Bounds

- `DeviceSync`: two accounts are enough for a correction and its return. An
  outbox id is used up by every queued item, so `MaxId` also bounds how often
  the timeline and the response change; 6 leaves room for a sign-in, a response,
  its correction, and both again after a resync. `LedgerAgrees` is checked with
  one correction per response and before any resync; `UsageLedger` has the
  longer chains.
- `UsageLedger`: four reads per device let two devices go to a third account
  and back. The instance with three devices has three reads each, and four
  reports queued at once.
- `AgentSession`: three devices allow a join, a join on top of it and a join
  after a leave. Device ids and preferences run out, hence
  `CHECK_DEADLOCK FALSE`.
- `Members`: two of each are what an interleaving needs, and two kinds of
  records, one in a table `DeletePerson` does not name; ids run out and the
  member is deleted, hence `CHECK_DEADLOCK FALSE`.
- `Capacity`: a window is 3 units, a week 5, a minute 2, resets are the same
  within 4, and the period is [2, 7), so that windows and weeks lie before,
  across and after both of its ends. Ledgers stop growing, hence
  `CHECK_DEADLOCK FALSE`.
- `ClaudeLogins`: one renewal of each sign-in is spent by one reader while
  another holds the token before it; one failure is where a sequence of writes
  is cut.
- `Readings`, in `server`: two sessions, two limits, two moments, two readings in the
  device's table, batches of two, two requests. A pass begins with up to one
  item queued, so a reading's first upload can be under way, unanswered or lost
  when its correction is queued behind it, and is sent again, alone or with a
  part of the correction (1,818,757 states). `MCReadings` names four more bounds:
  a behaviour ends once a correction was dropped or a request came late, of which
  `ReadingsAgree` says nothing; a request that could only come late is lost
  (`Timely`); and the clock, logs, sign-ins and spool stay while requests are
  under way (`Quiet`), since a pass among requests may have learned before them
  what it learned during them: left out is a second pass, among the same
  requests, that knows more than the first. `ServerHasTheReadings` is proved
  without any of these.
- `parts`: three moments and a reading for `UsageProbe`, where a check is current
  for one; three edits and three failed writes for `StatusLine`; two admins and four
  steps of theirs for `Accounts`, with the plan readings of one account, since
  an account's plan depends on no other's; two visitors, two masked emails and
  two sign-ins for `Dashboard`, where a session and a kept overview last for the
  moment they began in, unless a logout or a restart ends them before.
- `reports`: two requests, six lines after the first and one line with limits
  for `Rollout`, which leaves room for a change of model, both kinds of line and
  an update of Codex; two requests of ten kinds for `Transcript`, where
  OpenCodex's record lies up to one moment from a line, with error lines in a
  behaviour of their own; three requests of nine kinds, two limits with readings
  and every share weight for `Reports`. Everything is bounded, hence
  `CHECK_DEADLOCK FALSE`.

Symmetry is used where no member of the set is singled out: `Accounts` in the
safety run of `DeviceSync`, the two devices of one person in `ledger`, the
requests of `Transcript`, sessions, limits and requests of `Readings`.

### Fairness

- `DeviceSync`: `syncLoop` runs for as long as the app does and tries again
  after every error (`agent.go:265-300`), so a read that stays possible happens
  (weak fairness of `UploadRead`), and of the steps that a fault can spoil
  (a transaction starting, ingesting one more item, committing, the reply
  arriving) each happens at some time if it is possible again and again (strong
  fairness). A transaction whose client is gone ends in some way. Nothing is
  assumed of logs, sign-ins, crashes or faults.
- `AgentSession`: weak fairness of `SyncStart`, strong of the two answers that
  a network error can spoil.
- `ClaudeLogins`: the probe loop runs for as long as the app does
  (`agent.go:187`), and a pause ends with the clock: weak fairness of both.
  Nothing is assumed of the user, of Anthropic or of failures.
- The other specifications state safety only.

### What the properties leave aside

- `StaleNeverLowers` is checked with reset times that jitter by no more than
  `sameWindowSlack`. "The same window" is not transitive: with readings whose
  resets drift by up to the slack each, a chain of them can take the value
  shown down again.
- The comment of `ThinSeries` says "at most seriesMaxPoints". The buckets are
  aligned to absolute time, so the first and last are partial and a series can
  have two more points; `SeriesShowsPeak` allows these.
- `FiveHourWindows` looks at the plan at a window's start and at its readings.
  A plan left and taken up again between two of them goes unseen; the histories
  of `MCCapacity` have none.
- An identity check that is answered before a scan lists the files and stored
  during it is not applied to what the scan reads, and a file is read again
  only when it changes. `docs/plan.md:100` says that an event belongs to the
  latest observation before it. `DeviceSync` has the behaviour; no run asks
  about it.
- After a resync the events of a response name no previous account, so that the
  server keeps the account it has (`resync.go:17` promises a fresh reading).
  `LedgerAgrees` holds until a resync.
- A late duplicate of a correction that was taken back meanwhile is applied
  again and takes the record to the wrong account for good
  (`syncing.go:22-23`, `server/storage/storage.go:343`); `AgreedAccountHeld` is
  checked without one.
- A resync drops a reading's correction that was queued and not uploaded, and
  queues the reading without the account it replaces
  (`client/storage/storage.go:396-413`): the server keeps both. `ReadingsAgree`
  is about histories without it.
- A request that comes late can carry a reading's first upload after its
  correction was ingested: the row the correction deleted is inserted again and
  stays (`server/storage/storage.go:410-426`; the finding of `readings_late`).
  `ReadingsAgree` is about histories without such a request. Whatever is sent
  again in order, on its own or with what was queued since, it covers.
- A reading made within a minute of a switch, or while the identity check
  fails, lands on the account before; `OwnReading` allows exactly these.
- Installing the capture over a line the user set while another was remembered
  keeps the older one (`statusline.go:13-14` says so); `OriginalKept` is about
  the line chosen last while no shim was installed.
- When Codex is updated in mid-session, a scan that starts afresh finds records
  and drops what only totals told: `CountedOnce` then demands "never twice" and
  not "none missing".
- A request whose OpenCodex record was written only after its last line was
  read stays first-party, since the file is not read again; `Transcript` has
  OpenCodex write first, as it does. A partial output count equal to another
  request's record of the same prompt marks a request for good; `Confusable`
  sets such pairs aside.
- The device's own row does not take up a third-party mark it learns later; the
  server's does. `RequestsPlaced` is about the server.

## Findings

Four runs end in a violation, each of a sentence the repository says of
itself; `PROJECT.json` quotes it and says how the run ends.

- `RevokedIsTrue` (`internal/client/agent/syncing.go:48`): the answer to the
  device just replaced marks the new one revoked.
- `RemovesEverything` (`internal/server/storage/storage.go:128`): a member with
  limit events cannot be deleted. (`DeleteAccount` leaves the same table out.)
- `DuplicatesIgnored` (`internal/server/storage/storage.go:420`): a reading sent
  before its correction and ingested after it is stored again under the account
  it was corrected from, for good.
- `UnlinkForgets` (`internal/client/agent/usage.go:264`): a read that renewed
  the token while the user signed out stores it again.

## The proofs

TLAPS proves these for every value of the constants that satisfies the named
assumptions of the modules (`ConstantsAssumption` and `MarkersAssumption`,
`LedgerConstants` and `NoRowAssumption`, `SessionConstants`,
`MembersConstants`, `LoginConstants`, `ReadingsConstants`, `PartsConstants` and `PartsNone`,
`PartsAssumption` of `MCReports`, which are `RolloutConstants` and
`TranscriptConstants`, `CapacityAssumption`). The assumptions say that bounds are natural numbers,
functions have their domains, the sessions of a device are finitely many, and
markers such as `NoRow` are no values; TLC evaluates each of them. Where a theorem needs more, its statement says so.

| Theorem | States | By |
| --- | --- | --- |
| `DeviceSync_proofs!TypeCorrect` | `[]TypeOK` | `Typed`, which adds that timeline and outbox are finite and that a file never shrinks |
| `DeviceSync_proofs!NothingLost`, `ObservationsSurvive` | `[](EventsKept /\ ObservationsKept)`, `[]ObservationsKept` | `Kept == Typed /\ Safe` |
| `DeviceSync_proofs!LedgersAgree` | `[]LedgerAgrees` if `InTurn` | `Copying` |
| `DeviceSync_proofs!UploadDelivers` | `Abs!Spec`, the safety half of `Delivers`, if `InTurn` and without a resync | `Copying`, step by step |
| `UsageLedger_proofs!TypeCorrect` | `[]TypeOK` | `TInv` |
| `UsageLedger_proofs!OwnersOnly` | `OnlyOwnersChange` | a step ingests one report; one of another person's is ignored |
| `UsageLedger_proofs!RecordKept` | `NothingUnlearned` | each of the three statements keeps it |
| `UsageLedger_proofs!AgreedHeld` | `[]AgreedAccountHeld` | `Chain` and `Held`; needs one provider and no late duplicate |
| `AgentSession_proofs!TypeCorrect` | `[]TypeOK` | itself |
| `AgentSession_proofs!TokenKept` | `[]TokenForSettings` if `Overlap = FALSE` | `Ordered` |
| `AgentSession_proofs!TokensAccounted` | `[]NoTokenLeft` if `Overlap = FALSE` | `Ordered /\ Accounted` |
| `Members_proofs!TypeCorrect` | `[]TypeOK` | itself |
| `Members_proofs!OneDevicePerLink` | `[]InviteOnce` | `Links` |
| `Members_proofs!NoOrphans` | `[]NothingOrphaned` | `Holding` |
| `Members_proofs!RefusedStaysRefused` | `[]RefusedForGood` | `Standing` |
| `Members_proofs!LeaversStayOut` | `LeftStaysOut` | `Standing` |
| `Members_proofs!RemovalFailsOnUnnamed` | `FailsOnUnnamed` | `Alone` |
| `ClaudeLogins_proofs!LoginsTypeCorrect` | `[]TypeOK` | `LoginsTyped` |
| `ClaudeLogins_proofs!StoredTokensWork` | `[]StoredTokenWorks` | `LInv` |
| `ClaudeLogins_proofs!SignInsAreWhole` | `[]TokenAndRow` | `LInv` |
| `Readings_proofs!ServerHasTheReadings` | `[]ReadingsAgree`, for any number of requests at once and without the bounds of `MCReadings` | `ReadingsTyped /\ ReadingsFollow` |
| `Readings_proofs!ReadingsTypeCorrect` | `[]ReadingsTypeOK` | `ReadingsTyped` |
| `MCParts_proofs!PlansFollow` | `[]PlanFollowsNewest` | `AcctInv` |
| `MCParts_proofs!AdminsKeptApart` | `[]AdminsApart` | `AcctInv` |
| `MCParts_proofs!OriginalRemembered`, `OriginalPutBack` | `[]OriginalKept`, `PutsBack` | `LineKept` |
| `MCParts_proofs!OwnReadings` | `[]OwnReading`, for Claude Code's readings and agy's | `ProbeOwn` |
| `MCParts_proofs!EmailsStayInside`, `PreviewsAreAdmins` | `[]NoEmailShown`, `PreviewIsAdmins` | `DashNamed`, `DashSessions` |
| `MCParts_proofs!TypeCorrect` | `[]TypeOK` of `MCParts` | the type invariants of the parts |
| `MCParts_proofs!PartsImplement`, `PartsKeepPromises` | the composition runs each component under its own specification, so that the theorems above hold in it | each step of `MCParts` is one of a part |
| `Reports_proofs!RequestsCountedOnce` | `[]CountedOnce` of a Codex session | `CodexTyped /\ CodexCounted` |
| `Reports_proofs!CountedOnceInReports` | `[]CountedOnce` in `MCReports` | each step of `MCReports` is one of `Rollout` or leaves it alone |
| `Reports_proofs!RequestsArePlaced` | `[]RequestsPlaced` of a Claude Code transcript | `LogTyped /\ Logged /\ Placed` |
| `Reports_proofs!RequestsPlacedInReports` | `[]RequestsPlaced` in `MCReports` | each step of `MCReports` is one of `Transcript` or leaves it alone |
| `UsageLedger_proofs!FirstWeekHoldsFrom` | the first week of a replay holds the start of its period | the remainder of Go's division |
| `UsageLedger_proofs!WeeksCoverPeriod` | the weeks of a replay follow one another and cover the period: what `WeeksTile` says of them | the set that `ReplayWeekly` counts is an interval |
| `UsageLedger_proofs!AnchorsAgree` | a replay anchored any number of weeks off is the same replay | the first week is the same |
| `UsageLedger_proofs!RefusalsFollowHits` | a replay counts a hit exactly if a session's use went past the limit, one a session, and refuses only what is left when each of them had the limit and the request past it: what `SessionsRefuse` says of one limit | `Sound`, over the requests |
| `UsageLedger_proofs!LargerLimitEases` | a larger limit sees the same sessions, demand and use over time, and no more hits and refusals: what `SessionsRefuse` says of two limits | `Eased`, step by step |
| `UsageLedger_proofs!RateUnordered` | a derived rate is from one plan, whatever order the calibrations are met in, and no plan has more samples: what `RateDetermined` says | `Best`, over the calibrations |

The inductive invariants:

- `Safe` (`DeviceSync_proofs`). `EventsKept` alone is not inductive: deleting
  through an id is safe only because ids are handed out upwards (`FreshIds`),
  what an upload holds is everything then queued up to its last id
  (`BatchesArePrefixes`), a transaction works on its sender's batch (`TxOwner`)
  and will have stored all of it when it commits (`TxHolds`), and an upload
  that was answered was stored (`AnswersAreTrue`).
- `Copying` (`DeviceSync_proofs`). While an item of a response waits, its row on
  the server is behind the device's, and must be behind on the path that the
  items queued lead along: each item was made from the account the one before
  it left, the last one left the device's (`Leads`), and the server stands
  somewhere on that path, after what was ingested of it (`Follows`). `Copied`
  says it of the row on the server, of the one an open transaction would leave
  and of the one an unread answer speaks of; `Queued` that what is under way is
  older than what is queued since. `Copying` was checked with TLC on instances
  of `DeviceSync` before it was proved.
- `Chain`, `Held` (`UsageLedger_proofs`). Each report names the account the one
  before it left, so the last report of a device carries its present account;
  the record is with the account of the report that some device of the owner had
  answered last, or of its next one, so that this device's next correction names
  the record's account. A late duplicate breaks this.
- `Ordered` (`AgentSession_proofs`). One operation at a time; what memory and
  file name has its token; a copy about to be saved is what memory holds; the
  device about to be forgotten is not in it. `Accounted` says whose tokens are
  stored after each write of a join or a leave.
- `Links` (`Members_proofs`). Two redemptions do not hold one link or insert
  one device; a link that is held is neither used nor deleted; the link of a
  device is used or gone.
- `Holding` (`Members_proofs`). An upload, a pairing and a removal hold the rows
  that keep a concurrent deletion waiting or make it fail.
- `Standing` (`Members_proofs`). A device that was refused is revoked or gone;
  an upload whose membership is not committed found none, and one upload at a
  time is past `ensureAccount`.
- `Alone` (`Members_proofs`). A removal that nothing disturbed has emptied every
  table it names before the statement it is at, so a foreign key that stops the
  next one is that of a record in a table it does not name. There is such a
  table, `limit_events`: `server` has a record of it, and `members_limits` asks
  whether the removal succeeds.
- `LInv` (`ClaudeLogins_proofs`). A token is of a sign-in Anthropic approved for
  its account (`TokensGenuine`); one just approved has no token yet
  (`FreshSignIn`); a read that renewed a token holds the newest of its sign-in,
  and if that can be replaced once more no other reader and no entry of the
  store does (`RenewedIsNewest`); a read past the store's entry and a sign-in
  about to store its row have a token beside them, a sign-out about to delete
  the row has none (`Kept`).
- `AcctInv` (`MCParts_proofs`). Row numbers are handed out once
  (`AcctNumbered`); a save that checks for overlaps or writes holds the lock of
  its account's row (`AcctLocked`), so an interval about to be written still
  overlaps no stored one (`AcctApart`); one admin saves an order at a time, and
  rows that are not in it have lost their position (`AcctOrdered`); a row is as
  old as the reading its plan is from (`AcctPlanned`).
- `ReadingsFollow` (`Readings_proofs`). The device's table went from one state
  to the next with each item it queued (`Course`): an item that corrects nothing
  found its row missing or there already, a correction found the row it
  replaces. What the server has of an account and moment, the device had before
  or after one of the items still queued that it has not ingested (`Follows`),
  so with an empty queue both have the same. A request in turn begins where the
  outbox does and ends no earlier than what the server ingested (`Underway`), so
  ingesting it, for the first time or again, leaves the server on the same
  course; one that comes late need not, and nothing is said after it. The account a reading moves to may have another row of
  that moment, which then stays: such a row is settled (`Settled`), no spool
  file will ever correct it, since files are only rewritten with a later time.
- `CodexCounted` (`Reports_proofs`). The totals after each request, and the first
  of the requests that a record tells of, fix the key of every request: the
  session's total if only totals told of it or it went elsewhere, else its own
  id. Every request has tokens, so totals grow and two requests have two keys
  (`KeysApart`). A pass over the file as it is gathers one record for each
  request that has one, or one count for each whose total was written, with
  these keys (`Tells`), and the ledger holds requests under their keys with
  their rows (`Ledgers`), so storing what a pass gathered adds rows and changes
  none. The invariant was checked with TLC on the Codex half of `reports.cfg`
  (668,834 states) before it was proved.
- `Logged`, `Placed` (`Reports_proofs`). A line was written after its request
  was sent, with the first or the whole count, and the whole one of a request
  through OpenCodex after OpenCodex's record (`LineTrue`); there is one record of
  a request at most. So what a pass tells of a response has the count of one of
  its lines (`Told`), the only record that fits a request OpenCodex's log can
  tell apart is its own (`FitsOwn`), and it is there once the whole count is
  (`MatchFinds`): the event with the whole count is marked right, and one with
  part of it is marked only if it must be (`Right`). The device has every line
  that was read (`Covered`), with at least its count; the server has what the
  device has or will get it from the queue (`Arrives`), and keeps the larger
  count and every mark, so its row becomes right with the event that brings the
  whole count. Whether the log can tell (`Clear`) only goes from yes to no, so
  what was right stays so. The invariant was checked with TLC on the Claude half
  of `reports.cfg` (1,265,629 states) before it was proved.
- `LineKept`, `ProbeOwn`, `DashNamed`, `DashSessions` (`MCParts_proofs`). What is
  remembered and what a restore carries is the user's own line; what timeline,
  check and round know of another account was learned before the last switch;
  no masked email is in the kept overview or on a page under way; no session
  outlasts its time, and one that was ended is not open.

What the hypotheses mean:

- `Overlap = FALSE`: the window calls one operation after another.
- `InTurn`: no request goes on at the server after its client gave up, and
  uploads take turns. Both are how the app runs when nothing times out. Without
  it `LedgerAgrees` is false in general: a late duplicate of a correction that
  was taken back meanwhile is applied again. `sync_resync` has such requests,
  and its bounds leave no room for a correction to be taken back.
- `Calibrations(cal)`: the calibrations are those of named plans, and an order
  tells the names of the plans with a published multiple apart. `Calibrate` has
  no others: a window without a plan is excluded, and Go orders strings.
- A replay's limit is positive: with none `ReplaySessions` and `ReplayWeekly`
  return nothing (`capacity.go:510`, `582`). Its demand is in any order and of any
  weight; the code sorts it and passes over what has none.

Only model-checked:

- Liveness and `ENABLED`, which the prover does not do: the second half of
  `Delivers` (nothing stays queued for good), `JoinedSyncs`, `SignInsAreRead`.
- `ReportsAddUp` of `MCReports`, and what `MCCapacity` states but for the
  bounds of the weeks, hits and refusals of a replay and the plan a rate is
  derived from. The library's induction theorems take an operator as a
  parameter, which the installed provers cannot instantiate, so what a fold or
  a sum computes for every input is out of reach. A loop that is written as a
  recursive function is not: `Readings_proofs`, `Reports_proofs` and
  `UsageLedger_proofs` prove from the well-foundedness of `<` that a set of
  numbers has a least one (`Least`), from that induction as a fact about a set
  (`UpTo`), and that a loop runs through (`Loop`).

## What is not modelled

- `clampFuture` (`httpapi.go:176-203`): a batch of a device whose clock runs
  ahead is dated with its arrival, so its readings become one and one sent twice
  becomes two. The models have one clock.
- How `AccountCapacity` selects what it gives to the calculations of `Capacity`
  and fills in its report, and the medians of a calibration.
- Antigravity's conversation database, sub-agents' files, the desktop app's own
  sessions in `DeviceSync`, the backup copy of Claude Code's settings.
- Asking other programs who is signed in, the price table, rendering, the
  window, autostart, updates, most of the command line, the front end and
  packaging: input and output without a state of their own that other parts rely
  on.
- Two processes of the app that save settings, clients of several versions (a
  gateway request first uploaded as plain usage by an older one is moved only by
  a report of the same account), and overlapping changes of a preference
  (`AgentSession` has them with `Overlap = TRUE`; the newer one can be lost).

## Plan

1. Done: the modules above, with the runs above; theorems for every invariant
   and action property of `DeviceSync`, `UsageLedger`, `AgentSession`,
   `Members`, `ClaudeLogins`, `Readings`, `Accounts`, `StatusLine`,
   `UsageProbe`, `Dashboard`, `Rollout` and `Transcript`, the safety half of the refinement of
   `Delivery`, the weeks and sessions of a replay, and derived rates.
2. Theorems next: the resets an overview shows and the rolling demand of a
   window, whose loops over readings would have to be recursive functions; what
   survives of `LedgerAgrees` with late duplicates.
3. Model next: the assembly of the capacity report; several versions of clients
   at the server.

Runs are kept few: instances that share a specification and its bounds are one
run with all of its properties, and components without common state share a run.
