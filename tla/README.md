# SEIMlite in TLA+

SEIMlite is a small SIEM for one host: it reads the SSH log, watches the
processes of SSH sessions, correlates what it sees into alerts, keeps them in
SQLite and shows them live in a browser. This directory holds TLA+ models of
its concurrent and stateful parts, the TLC configurations that check them on
small instances, and proofs for every value of the constants, checked by TLAPS.
Paths below are relative to `src/`.

```
cd tla
tlc -workers 2 -config correlator_detection.cfg MCCorrelator.tla   # one run
tlapm HubProofs.tla                                                # one proof module
```

## 1. The system

### Components

| component | code | state | operations |
|---|---|---|---|
| correlation engine | `internal/correlator/engine.go`, `rule.go`, `notifier.go` | one `RuleContext` (map of sliding windows) per rule, a mutex | main loop: receive, lock, evaluate each rule, insert, notify, unlock; cleanup goroutine every 60 s |
| correlation rules | `internal/correlator/service/ssh.go` | none of their own, they use their `RuleContext` | `Evaluate` of eight rules |
| event channel | `cmd/SEIMlite/main.go` | 1000 buffered events | send (normalizer, monitor), receive (engine) |
| websocket hub | `internal/api/hub.go` | map of clients | register, unregister, broadcast; `BroadcastAlert` from the engine's goroutine |
| websocket client | `internal/api/client.go` | queue of 256 alerts, the connection | `ServeWs`, read pump, write pump |
| configuration store | `internal/config/config.go`, `handleSSHConfig` in `internal/api/server.go` | `GlobalConfig`, `configMutex`, the settings file | `LoadConfig`, `GetConfig`, `SaveConfig`, POST |
| alert API | `internal/api/server.go`, `notifier.go` | a slice of the last 50 alerts, with no lock | `NotifyAlert`, GET handlers |
| SSH process monitor | `internal/collector/ssh_monitor.go` | time of the last event per PID and rule | periodic scan, judgement, event, kill |
| SSH log normalizer | `internal/normalizer/*.go` | position in the log, cache of account names, `normalized_ssh.log` | read a line, parse, look the user up, store, send, write |
| storage | `internal/storage/db.go` | SQLite tables | inserts, the security queries |
| event store interface | `internal/eventstore/store.go` | - | the contract of those queries |
| dashboard | `web/static/script.js` | a timeline, a table of recent alerts, a count | load, websocket updates, settings form |
| service discovery | `internal/discovery/services.go` | none | one-shot probes |
| data types | `internal/models/alerts.go` | - | - |

### How they interact

Normalizer and monitor send events on one bounded channel. The engine receives
them one at a time and holds its mutex from before the first rule to after the
last, across the insertion in the database and the call of `NotifyAlert`. That
call appends to the list of recent alerts and then blocks on the hub's unbuffered
`broadcast` channel. The hub puts the alert in each client's queue without
waiting, and drops a client whose queue is full. Every rule calls `GetConfig` when
it evaluates an event, and so sees the struct that the handler of the settings
form rewrites, field by field, with no lock. A ticker wakes the cleanup
goroutine, which takes the engine's mutex and prunes the windows of all rules.

### What is hard, and what correctness means

* **Engine and rules.** Two goroutines rewrite the windows, the clock moves
  between rules, settings change in the middle of an event, an insertion can
  fail. No attempt may be counted twice, invented or lost; one attempt may not
  raise two alerts of a rule; the window of the success rule, which never prunes,
  must stay bounded; every failed login must reach the dashboard; every event must
  be evaluated and the cleanup must get the mutex.
* **Hub and clients.** Two parties close a client's queue; a connection dies in
  four ways; the engine waits for the hub with its mutex held. A closed channel
  may not be closed or sent on, a served client may not miss an alert, a slow
  browser may not hold up detection, a dead connection must be forgotten.
* **Configuration.** Copies without lock, saves with one, a file that is
  truncated before it is written, crashes, a program that runs on without
  `GlobalConfig` after an undecodable file. Acknowledged settings must be the ones
  in force and on disk, now and after a restart, until a later request replaces them,
  and file and memory must agree when no request is at work.
* **Monitor.** Processes are read one by one while they start, change and end;
  a PID is judged, reported to a channel that can block, and only then killed;
  entries that suppress repeated events expire and outlive the process they were
  made for. Every offence below sshd must be reported, none too often, an
  offender must end, and nobody else may be killed.
* **Normalizer.** A line is read while it is written, the log is rotated under the
  reader, the program ends between the three places an event goes to, accounts
  change while a cache of them is in use, a record is two writes that can fail. Each
  recognised line must give one event, in order, with the right validity of its user, and
  may be missing where a write failed and nowhere else.
* **Alert list and page.** A slice is evicted from and appended to while handlers
  read it; the page fetches alerts and a count and opens its websocket only
  afterwards; a failed request ends the whole load. The newest alerts must be on
  top, one alert may be shown twice only in a known case, the page may lack only what
  fell between fetch and connection or what the oldest end of a list that is full, or
  broke off, cuts away, and the count may be off by no more than one.
* **Queries.** Events are inserted while a rule asks, and one question takes two
  SELECTs, the second of which can break off unnoticed; bursts are looked for in fixed
  slices; a subnet is a prefix of a text. An answer must be right for one moment, and the
  slices, if all were read, must bound every burst.

## 2. Modules

| module | what it is |
|---|---|
| `Detector` | abstract: what a counting rule promises for one address, with no pruning, cleanup or locks |
| `Correlator` | engine, eight rules, cleanup goroutine, event channel, clock, settings |
| `MCCorrelator` | event and settings sets for TLC; the refinement to `Detector`; two statements of the code's comments and texts |
| `CorrelatorProofs` | theorems about `Correlator` |
| `DetectorProofs` | the brute force rule in the engine implements `Detector` |
| `Feed` | abstract: a gap-free, in-order feed that may stop at any time |
| `Hub` | hub, handlers, read and write pumps, browsers; refinement to `Feed` |
| `HubProofs` | theorems about `Hub`, the refinement among them |
| `ConfigStore` | settings in memory and on disk, concurrent requests, disk failures, crashes |
| `ConfigStoreProofs` | theorems about `ConfigStore` |
| `Monitor` | process monitor, the processes of the machine, the channel it shares |
| `MCMonitor` | the strict settings for TLC |
| `MonitorProofs` | theorems about `Monitor` |
| `Normalizer` | normalizer, the log and its rotation, the journal, accounts, restarts |
| `MCNormalizer` | the lines for TLC |
| `NormalizerProofs` | theorems about `Normalizer` |
| `AlertFeed` | the server's list of recent alerts, its handlers, and a page that loads and listens; composed with `Feed` |
| `AlertFeedProofs` | theorems about `AlertFeed` |
| `EventStore` | the table of events and the four questions about it |
| `MCEventStore` | the events and questions for TLC |
| `EventStoreProofs` | theorems about `EventStore` |

Operators whose comment begins with *Mutant of* are not part of any
specification. Each is a plausible bug in the definition that follows it, and
`PROJECT.json` names the property that TLC finds violated when it takes that
definition's place.

### Correlator

A window is a set of *stamps*: the slice of Unix times in the code, with each time
tagged by the event that caused it, so the length of the slice is the cardinality
of the set. A missing map key and an empty slice are both `{}`; no rule tells
them apart. `history` is a ghost: the same windows, emptied when an alert spends
them, but never pruned.

| action | code |
|---|---|
| `Produce` | a send on `eventChan`; a full channel blocks the sender |
| `Tick` | the clock; the ticker's channel holds one tick and drops others |
| `CopyField` | the assignment `cfg.SSH = sshConfig` of the POST handler, a field at a time, in any order: it is a data race with the rules |
| `TickRecv`, `CleanupLock`, `Sweep` | the cleanup goroutine, `engine.go` 50-56 and 96-116; the sweep of all windows is one step because the mutex excludes every other access |
| `Receive`, `Lock`, `Unlock` | the main loop, 58-61 and 91-93 |
| `Bruteforce` ... `UnauthorizedProcess` | `Evaluate` of the rule whose turn it is; one step, since the engine holds the mutex |
| `Insert`, `Notify` | 70-90; a failed insertion is only logged |

Each rule reads clock and settings at its own step, and both may change before
the next one. Within one `Evaluate` the code reads the fields of the settings one
after the other; a step that reads them together allows the same combinations,
because `CopyField` puts the struct into every intermediate mixture.

Severity, texts and metadata of alerts are left out. Of an event, what remains is
its kind, source, whether the user exists and whether it is root. The values
`MaxEvents` and `MaxTime` bound the model, not the code.

### Hub

`register`, `unregister` and `broadcast` are unbuffered, so one action is the
meeting of both sides. Gorilla's connection is modelled by how `client.go` uses
it: a read fails when the connection is closed or the peer has been silent for
`pongWait`; after the first failed write all writes fail (`broken`); a text
write's error is ignored by the pump and a ping's is not. The read limit and the
origin check are left out. `Hub.mu` is left out: only the goroutine of `Run`
takes it. Alerts are numbers, in the order in which the hub received them.

`delivered` and `joined` are ghosts.

### ConfigStore

`heap` holds the struct that `LoadConfig` made and one per handler, the defaults
that `GetConfig` returns while `GlobalConfig` is nil. A request is a sequence of
steps: `Post` (decode, `GetConfig`), `CopyField` for each field, `LockForSave`,
`Encode`, `Truncate` and `Write` (the two effects of `os.WriteFile`), `Publish`
(`GlobalConfig = cfg`, unlock), `Reply`. `SaveFails` is the early return at any
of the three points where the disk can fail. `Crash` keeps the file, with what
has reached it, and loses everything else. The GET handler changes nothing and is left
out. `unsaved`, `before`, `solo`, `settled` and `apart` are ghosts: `settled` holds the
settings last acknowledged until `Truncate` destroys them in the file, and `apart` is
set while the settings in force may be others.

### Monitor

| action | code |
|---|---|
| `Fork`, `Exec`, `Exit` | the machine: PIDs are used again, the children of a process that ends go to PID 1 |
| `Tick` | time passes for the entries of `alertedPIDs` |
| `OtherEvent`, `Drain` | the normalizer's sends and the engine's receives on the shared channel |
| `StartScan`, `Read` | `Start`, which copies the settings, and `getAllProcesses`, one process at a time |
| `Judge` | the expiry of entries and the search for children of sshd, `ssh_monitor.go` 75-102 |
| `Pick`, `NextProcess`, `EndScan` | the loop over those children, in any order: `procs` is a map |
| `Suppress`, `Report`, `Send`, `Kill` | `emitViolation`: the early return; the entry and the insertion; the send that can block; the kill of whoever has the PID |

Times are kept as ages that stop growing one past `StaleAfter`, so the clock is
unbounded. The name and the command line of a process are one *program*, and its three
files in `/proc` are read in one step. The check of the processor is left out
because it cannot fail: `getAllProcesses` sets `CPUPercent` to 0. The sshd daemon
always runs, so the early return without one is not taken. Whoever runs the monitor
may kill. A scan that cannot list `/proc` returns at once (70-73) and changes nothing, so
it is no step of its own. `last`, `begun`, `still` and `due` are ghosts.

### Normalizer

The log is the sequence of all its lines across rotations, and the number of a line
stands for its event in the database (`stored`, or `unstored` when refused), on the
channel (`sent`) and in `normalized_ssh.log` (`written`, if it has a record of its own).
`tail` is what follows the last newline of that file: nothing, the text of one event, or
something torn. Of a line, what parsing
depends on remains: whether one of the nine patterns matches it, whether one still
does without the prefix that syslog puts in front, and its user. Which pattern, and so
the kind of the event, no property tells apart; the kinds are in `Correlator`.

| action | code |
|---|---|
| `Log`, `LogRest`, `Rotate`, `ChangeUser`, `Tick` | the machine; a line reaches the log in two parts, with or without a read in between, and the journal in one |
| `OtherEvent`, `Drain` | the monitor's sends and the engine's receives on the shared channel |
| `Crash`, `Begin` | the program ends at any step and starts again |
| `Seed`, `OpenLog`, `OpenJournal`, `Stop` | `Start`: the cache is read, then the log opened at its end, or `journalctl -f` run, which begins with old entries; `Stop` is every return of `Start` |
| `ReadLine`, `ReadPart` | `ReadString` in the loop: a line, or with `io.EOF` a part of one, which is dropped |
| `LookUp` | `generateAlert` with `isValidSystemUser`; reading `/etc/passwd` can fail |
| `InsertEvent`, `Send` | the rest of `processLine`; a failed insertion is only printed |
| `Write`, `WriteNewline` | its last two statements, `ssh.go` 362-363: the text and the newline of the record; each may fail, the first also in part, and no error is looked at |

Whether there is a log or only the journal does not change during a behaviour. The log is
rotated by renaming, between two lines. Where the file is opened again after a crash, it
is appended to wherever it ends, in the middle of a record too. `from`, `torn`,
`unstored`, `unwritten`, `changed` and `unreadable` are ghosts.

### AlertFeed

Alerts are numbered as they are raised, and the n-th is always at position n, whatever
the array. So a Go slice is its array, its first position and its length; `filled` and
`end` say per array how far it is written and how far it reaches. `AddAlert`
decides on a new slice and then stores its words and the new slot in any order
(`Store`), for there is no lock and the compiler and the processor may choose.

| action | code |
|---|---|
| `Raise`, `InsertAlert` | a rule returns an alert, `engine.go` 63 and 83; an insertion may fail |
| `Evict`, `AppendAlert`, `Store` | `server.go` 37-40; `append` grows in place or copies, with any spare room up to `Keep` |
| `BroadcastAlert` | 42: `Publish` of `Feed`, which `Hub` implements |
| `ReadTotal`, `LoadLen`, `LoadPtr`, `RangeAlerts` | `handleStats` and the loop of `handleTopology`; a nil slot panics and fails the request; beyond the array anything may happen, the end of the program included |
| `handleAlerts`, `GetRecentAlerts` | the query of the newest `Limit`, in any order among equal times; an error of the query or of `Scan`, and an empty table, which is sent as `null`, come to the same; an error between two rows ends the loop and what was read so far is a success, because `rows.Err()` is not asked (`db.go` 210-220) |
| `Fetch`, `FetchSucceeds`, `FetchFails` | `fetchInitialData`: all requests at once, and all of them or nothing |
| `Connect`, `OnMessage` | `connectWebSocket`, after the fetches, and `onmessage` |

`len(s.alerts)` and the words that `range` copies are separate loads. The clock of
the machine does not go back. The handlers of other pages do not
write, so the run has one page, and of the two handlers that go through the list
only that of the stats, which does all that the other does. The list of services, which
only reads `/proc`, is left out. `loaded`, `asked`, `cut` (the answer broke off) and a
handler's `begun` are ghosts.

### EventStore

| action | code |
|---|---|
| `Observe` | `NewNormalizedEvent` or `generateAlert` stamps an event; one at a time per source |
| `InsertEvent` | `InsertEvent` of `storage/db.go`: the type derived from the description; may fail |
| `Ask` | a rule's call, which reads the clock first |
| `CountFailuresSince`, `GetLastSuccessfulLogin`, `GetDistinctServicesForSubnet` | one SELECT each |
| `CountTotal`, `CountSlices` | the two SELECTs of `CountFailuresInWindow`; events may be inserted in between |
| `QueryFails` | an error of `QueryRow`, `Query` or `Scan`, which is returned |

An error while the rows of the second SELECT are stepped through is not returned: the
loop of `db.go` 271-280 does not ask `rows.Err()`, so it ends as if all slices were read
and the total is accepted. `CountSlices` leaves any of the slices unread, and keeps in the
ghost `unread` which.

Time passes at any step. An address is the sequence of its characters, only as many as
tell two networks apart, since `LIKE` compares texts. `RuleContext.Store`
gives every rule these questions and no rule asks one yet; what is checked is what
a rule could rely on.

## 3. Runs

Deadlock checking is off in every run because the bounds stop the models: no
event, alert or request is left to send. Where somebody must not wait for ever,
a liveness property says so.

| run | instance | checks |
|---|---|---|
| `correlator_detection` | one address, events "failure" and "success", 3 events, 6 clock values, threshold switched between 2 and the default 3 | `TypeOK`, `NeverOvercounts`, `NeverUndercounts`, `SpentOnce`, `StaleBound`, `SuccessCaught`, `BruteForceDetector` |
| `correlator_rules` | two events of six kinds, a threshold of 2, failing insertions, one toggle switched | `EveryFailureNotified`, `EventsEvaluated`, `CleanupRuns` |
| `hub` | two clients, queue of 1, two alerts | `TypeOK`, `NeverPanics`, `NothingLost`, `ImplementsFeed`, `BroadcastReturns`, `DeadIsForgotten` |
| `config` | two handlers, two fields, two values, two posts, one crash, any initial file | `TypeOK`, `AcknowledgedSurvive`, `QuietAgreement`, `RequestsEnd` |
| `monitor` | two PIDs, the sshd session, a shell and a miner, all settings strict, chain of 2, suppression 2, expiry 2, channel of 1 | `TypeOK`, `OffencesReported`, `RepeatsAreApart`, `OffendersEnd` |
| `normalizer` | a log or a journal, two lines of two sorts, one account, cache of 1, channel of 1, one crash | `TypeOK`, `ReportedOnce`, `NothingSkipped`, `TrailsNested`, `FreshUsers`, `LinesArrive` |
| `alertfeed` | a list of one alert, two old alerts and two new, one page, 1 of the fetched in the recent list, limits of 2 and 3, a fetch of 3, two clock values | `TypeOK`, `NewestFirst`, `ShownOnce`, `OnlyTheGapIsMissing`, `CountAtMostOneAhead`, `StatsNearTruth` |
| `eventstore` | two sources, four sorts of events, 3 events, 4 clock values, slices of 2, windows of 1 and 2, a maximum of 2, two networks named 1. and 10. | `TypeOK`, `WindowAnswerHeld`, `BurstsBounded`, `QuestionsAnswered` |
| `correlator_success_window` | as the first run, fixed settings | finding: `SuccessWithinFiveMinutes` is violated |
| `correlator_backlog` | one kind of event, channel of 2 | finding: `AttemptsWithinWindow` is violated |
| `config_refused` | one post | finding: `RefusedChangesNothing` is violated |
| `monitor_kill` | one PID, used twice | finding: `OnlyOffendersKilled` is violated |

What the main properties say:

* `NeverOvercounts`, `NeverUndercounts`: a window holds only unspent attempts of its
  address, and all of them that are younger than both the retention of the cleanup
  and every brute force window that can be posted (for the other rules: their own
  window). So neither pruning nor sweeping decides what is counted.
* `SpentOnce`: two alerts of the same counting rule share no attempt.
* `StaleBound`: once the cleanup has served its last tick, no window holds a stamp
  that was past the retention at that tick. The success rule appends and never
  prunes, so this is all that bounds its memory.
* `BruteForceDetector`: for an address the brute force rule raises exactly the
  alarms of `Detector`, whatever the cleanup does and however the threshold changes.
  The window is fixed and shorter than the retention: see the divergences below.
* `SuccessCaught`: a step of the success rule on a watched login raises an alert
  whenever two unspent failures are younger than the retention.
* `NothingLost`, `ImplementsFeed`: a browser sees a gap-free, in-order
  sequence, starting with the first alert after its registration; while the hub serves
  it and its connection works, what it has and what is queued is all there is.
* `AcknowledgedSurvive`: settings that were acknowledged with 200, to a request
  that no other overlapped, stay in the file until a later save opens it: through
  crashes, restarts, later requests that are still copying and saves that failed before
  they opened it. They are in force until a later request copies, and after every restart
  that can read the file. From the moment a later save has truncated the file it
  promises nothing: see "Seen while reading" in section 4.
* `OffencesReported`: when a scan ends that no change disturbed before its judgement,
  each offence of a process below sshd has an event of this scan, or one that is
  less than the suppression older. The reference counts generations from sshd
  downwards over the machine, where the code climbs from each process over what it read.
* `RepeatsAreApart`: two events of a PID and rule are a suppression apart: the
  expiry of entries never lets one return early.
* `OffendersEnd`: where the settings kill, a process that keeps offending below
  sshd ends, although entries are kept by PID and that of an earlier offender
  suppresses its own events at first.
* `ReportedOnce`: each event of a log is stored and sent once and in the order of the
  log, through restarts. The journal is exempt: `journalctl -f` repeats its last ten entries
  at every start.
* `NothingSkipped`: every recognised line, unless a part of it was read by itself, has been
  offered to the database, sent to the engine and written to the file as a record of its
  own, except for the records that a failed write cost: its own, or an earlier one, or one
  that the end of the program cut, after which the next event follows in the same record.
* `LinesArrive`: each recognised line of the file that is open is sent to the engine, also
  after that file was rotated away.
* `TrailsNested`: after a crash the three differ only in the order of `processLine`.
* `FreshUsers`: the validity of a user is right if the account has not changed for
  longer than the cache is kept, unless `/etc/passwd` cannot be read at that time.
* `QuietAgreement`: with no request at work, file and memory agree, although copies
  and saves of overlapping requests can come in different orders; unless the
  last save failed.
* `StatsNearTruth`: handlers that read the list with no lock still find a size
  between one less than it was when the page asked and that of the list once
  the alerts begun since are added, and exactly that size if none was. A list from which
  nothing is evicted breaks it. And a handler meets a slot without an alert, which fails
  the load, or reads past the array, which may end the program, only when an `AddAlert`
  overlaps its request.
* `NewestFirst`: the timeline is in the order of time and the table of recent alerts is the
  top of it: taking one entry off the end never loses a newer one than it keeps.
* `ShownOnce`: only the first alert that came over the websocket can be shown twice,
  because it was stored before the fetch and broadcast after the connection.
* `OnlyTheGapIsMissing`: a stored alert that the page does not show was
  stored after its query and broadcast before its connection, or is queued, or is no newer
  than all that the page shows while the timeline is full or the database's answer broke
  off. So such an answer costs the oldest alerts and never one in the middle.
* `CountAtMostOneAhead`: count and list are of different moments, yet after a
  successful load the count never exceeds what was broadcast by more than one.
* `WindowAnswerHeld`: an accepted total is the number of attempts in the window at the first
  SELECT, and no slice that was read was full then; a refusal has a full slice at the
  second. Full is a slice that reaches the maximum, as in the code.
* `BurstsBounded`: a window that was accepted with all its slices read has in no `SubWindow`
  seconds more than twice what one slice may hold; a refused one has a burst of the limit.
* `QuestionsAnswered`: the other three, in terms of what was observed instead of what
  the rows say.

**Bounds, and why they are enough.** The times in the configurations keep the
order of the code's durations, not their proportions: brute force window 1 and cleanup
period 2 (60 s each), retention and enumeration window 3 (120 s), success window 5
(300 s).
Three events are one more than the threshold of 2 and reach the default of 3; six clock
values let an attempt age past the retention, meet two sweeps and outlive the
brute force window. The mutants confirm it: `>` for `>=` in a window, a sweep
with the wrong period, a missing delete and a threshold off by one are all
found in this instance. In `correlator_rules` two events raise the alert of every rule but
`ssh_bruteforce_success`, which takes three events and is reached in
`correlator_detection`. In `hub` a queue of one is the smallest that is
empty, full and overrun; two alerts overrun it; two clients let one die during the
broadcast to the other. In `config` two handlers and two fields are the smallest
race of copies; the second post overwrites the first, and one crash falls between
any two steps. In `monitor` two PIDs are a parent and a child, and a chain of 2 has
an edge that both its sides reach; two changes of the processes let a PID be used
twice, or a process change under the scan; the miner fails three checks, two of
which have one rule; a channel of one is full after a single event. The suppression
equals the expiry, the tightest case the assumption allows (60 s and 120 s in the code).
In `normalizer` two lines are one that is processed and one that is written, rotated
away or waiting meanwhile; of the lines, one is recognised and one is noise. A line that is
recognised only by what syslog puts in front of it is like the first in a log and like the
second in the journal. One crash falls between any two steps. A cache of 1 has an age below, at
and above its limit.
In `alertfeed` a list of one is full after the first alert, so that the second
evicts, and its `append` grows in place or copies; an alert more than the list holds, raised
before the fetch, in the gap or after the connection, is enough to be missing, repeated or
on its way, and the run reaches nil slots and reads beyond an array. A fetch of
3 fills the timeline and one of 1 or 2, from a smaller table or an answer that broke off,
does not; the recent list begins with one entry and grows to its limit of 2; two clock
values make ties and their absence. Limits below the fetch, 20 and 50 in the code, are left
to the theorems. With both handlers in `Handlers` the same
instance holds as well, in a few minutes. In `eventstore` a maximum of 2 lets a slice
hold one event, so that a burst of two across an edge is accepted, and three events are one more
than that; a window of 2 on four clock values is aligned with the slices of 2, or
cuts two of them.

**Fairness.** *Weak* fairness of the engine, the pumps, the hub and a request's
handler: goroutines that can run are run. *Strong* fairness of `Lock`,
`CleanupLock` and `LockForSave`: `sync.Mutex` and `sync.RWMutex` hand over to a
waiter that starves. *Strong* fairness of the hub's `Broadcast` and `Unregister`:
`select` chooses among ready cases at random, so a case that is ready again
and again is taken. Weak fairness of the read pump and the write pump also stands
for deadlines and pings that expire. Nothing makes a producer send, an
operator post, a browser connect, the clock advance or a crashed program start.
Database insertions are assumed to return. Weak fairness of the steps of the monitor and of
the normalizer, and of the passing of time; *strong* fairness of their `Send`, because Go serves the blocked
senders of a channel first come, first served, and weak fairness of the engine's receives,
which `EventsEvaluated` and `BroadcastReturns` justify. For the monitor this includes that
it does not fail to list `/proc` for ever.

## 4. Findings

1. **Five minutes are two.** `service/ssh.go:210` calls the success rule's cutoff
   a "5 min window", and `engine.go:105` keeps two minutes for all rules. Two failures
   followed, between two and five minutes later, by a login raise nothing once a
   sweep ran (`correlator_success_window`).
2. **A backlog compresses time.** The alert says "within %d seconds"
   (`service/ssh.go:58`), but attempts are stamped with `time.Now()` at evaluation.
   Events that waited in the channel count as simultaneous (`correlator_backlog`).
3. **A refused request changes the settings.** The handler copies the posted
   settings into the shared struct before it saves them; after "Failed to save
   config" (`server.go:266`) the rules use the new ones and the file has the old
   ones, or is damaged (`config_refused`).
4. **The process killed need not be the one judged.** "Terminating violating
   process PID %d (%s)" (`ssh_monitor.go:220`) names what was read from `/proc`; since
   then the scan went on, an event was stored and sent on a channel that blocks when
   full, and the PID may have passed to another process (`monitor_kill`).

Seen while reading, without a run:

* **A save can lose the settings of an earlier one.** `os.WriteFile` truncates the file
  before it writes (`config.go:124`). If the program dies, or the disk fails, in between,
  the settings that were acknowledged before ("SSH configuration updated",
  `server.go:272`) are gone with the new ones, and the next start leaves `GlobalConfig` nil
  and runs on the defaults. `AcknowledgedSurvive` ends at that truncation.
* **An error between two rows is not seen.** No loop over rows asks `rows.Err()`. A window
  whose slices were not all read is accepted (`db.go:271-280`), full slices and all,
  where the interface promises a total "only if no sub-window (2-minute slice) exceeds
  maxSubWindowFailures" (`eventstore/store.go:18-19`); a list of alerts that broke off is
  sent as a success (`db.go:210-220`), where the comment says that "the most recent alerts
  (up to limit)" are returned (`db.go:192`).
* **Exceeds or reaches.** That interface refuses a slice that *exceeds* the maximum, the
  code one that equals it (`db.go:276`).
* **Records can be lost or joined.** The errors of both writes of a record are dropped
  (`normalizer/ssh.go:362-363`): a failed write loses its record, and after one that was cut,
  a failed newline or a crash between the two, the next event follows in the same line of
  `normalized_ssh.log`.

And in short: a stamp exactly 120 s old is dropped by the cleanup
(`>`) and counted by the enumeration rule (`>=`); a posted brute force window
longer than 120 s is cut to 120 s by the cleanup (hence the retention in
`NeverUndercounts`); the dashboard's form always posts a window of 60; the monitor's limit on the
processor is never exceeded, since `CPUPercent` is always 0; its checks of
forbidden, blocked and unlisted processes share a rule description, so that the first
to fail suppresses the others; a process more than five generations below sshd
is not recognised; a line that is read while it is written is lost,
unless its second part says ssh and matches; after a rotation nothing is read from the new log
until the program starts again; the fallback to the journal parses the bare
message, where lines such as "Invalid user" and "Connection closed by authenticating
user" do not say ssh and so are filtered out (`ssh.go:138`); when journalctl ends, nothing
restarts it; "keep last 50 for initial load" (`server.go:20`, `34`) is about a
list that the initial load does not use, since `handleAlerts` asks the database; a
request for the stats or the topology can meet a nil slot of that list, and its failure
makes the page drop the answers of all four; a slice of which one word is old and
one new can reach past its array; a table with no alerts is sent as `null`, on which
the load ends with an error; after any failed load the page keeps the 47 it is
served with (`index.html:71`) and counts on from there; the limit of 20 entries is not
enforced on what was fetched, since one entry is taken off per alert; an alert in the
gap between fetch and websocket is not shown until the next load, and one that is just
being raised may be shown twice; a subnet in CIDR notation matches no address; services are
counted by decoder, so that ssh counts as two, `sshd` and `sshd-monitor`, and no other exists;
`CountFailuresSince` has no upper end of time; saving the settings form resets
the settings it does not show (`script.js:818`, `823-824`).

## 5. Proofs

Every safety property that a passing run checks is also a theorem: invariants, action
properties and the two refinements. TLAPS checks them for every value of the
constants, under the named assumptions of the modules (positive windows, thresholds and
capacities; events, settings and questions of the right shape; the unknown address
is not an address; the limits of the page's lists in the order the code has them).

| theorem | states |
|---|---|
| `CorrelatorProofs!TypeCorrect` | `Spec => []TypeOK` |
| `CorrelatorProofs!NoOvercount`, `NoUndercount` | `Spec => []NeverOvercounts`, `[]NeverUndercounts` |
| `CorrelatorProofs!ReportedAtMostOnce` | `Spec => []SpentOnce` |
| `CorrelatorProofs!WindowsFresh` | `Spec => []StaleBound` |
| `CorrelatorProofs!SuccessAlwaysCaught` | `Spec => SuccessCaught`, an action property |
| `CorrelatorProofs!FailuresNotified` | `Spec => EveryFailureNotified`, an action property |
| `DetectorProofs!DetectorImplemented` | `Spec => BruteForceDetector`, a refinement, if `OneWindow` |
| `HubProofs!TypeCorrect` | `Spec => []TypeOK` |
| `HubProofs!NoPanic` | `Spec => []NeverPanics` |
| `HubProofs!NoAlertLost` | `Spec => []NothingLost` |
| `HubProofs!FeedImplemented` | `Spec => ImplementsFeed`, a refinement |
| `ConfigStoreProofs!TypeCorrect` | `Spec => []TypeOK` |
| `ConfigStoreProofs!AcknowledgedSafe` | `Spec => []AcknowledgedSurvive` |
| `ConfigStoreProofs!QuietAgrees` | `Spec => []QuietAgreement` |
| `MonitorProofs!TypeCorrect` | `Spec => []TypeOK` |
| `MonitorProofs!ChildrenRight` | the processes a scan picks out are those below sshd |
| `MonitorProofs!OffencesFound` | `Spec => []OffencesReported` |
| `MonitorProofs!NoEarlyRepeat` | `Spec => RepeatsAreApart`, an action property |
| `NormalizerProofs!TypeCorrect` | `Spec => []TypeOK` |
| `NormalizerProofs!EachLineOnce` | `Spec => []ReportedOnce` |
| `NormalizerProofs!NoLineSkipped` | `Spec => []NothingSkipped` |
| `NormalizerProofs!TrailsAgree` | `Spec => []TrailsNested` |
| `NormalizerProofs!ValidityIsFresh` | `Spec => FreshUsers`, an action property |
| `AlertFeedProofs!TypeCorrect` | `Spec => []TypeOK` |
| `AlertFeedProofs!NewestShownFirst` | `Spec => []NewestFirst` |
| `AlertFeedProofs!ShownAtMostOnce` | `Spec => []ShownOnce` |
| `AlertFeedProofs!GapIsAllThatIsMissing` | `Spec => []OnlyTheGapIsMissing` |
| `AlertFeedProofs!CountNearPublished` | `Spec => []CountAtMostOneAhead` |
| `AlertFeedProofs!StatsCorrect` | `Spec => StatsNearTruth`, an action property |
| `EventStoreProofs!TypeCorrect` | `Spec => []TypeOK` |
| `EventStoreProofs!WindowRight` | `Spec => []WindowAnswerHeld` |
| `EventStoreProofs!BurstsRight` | `Spec => []BurstsBounded` |
| `EventStoreProofs!QuestionsRight` | `Spec => []QuestionsAnswered` |

*Correlator.* `TypeOK` is inductive by itself: it says which goroutine holds the mutex
at each program counter and when an alert is pending. The counts need
`CountsInv`: both count properties, that histories are finite (so that
cardinalities are monotone), and that the brute force window in force is that of
some posted setting, since a mixture of two posts takes each field from one of them.
`NeverUndercounts` is inductive because pruning removes only stamps outside the
window in force, and a sweep only those outside the retention; both are outside the
*kept* set of the property, which only shrinks as the clock advances.
`SuccessAlwaysCaught` follows: kept stamps of the success rule are a subset of what
the rule counts. `SpentOnce` does not exclude that a rule still holds, or is about
to be handed, an attempt it has reported. `SpentInv` does: event numbers grow along the
channel, what a rule remembers was sent before all that it has yet to evaluate, and
what it has reported it no longer remembers. `StaleBound` is nearly inductive:
`FreshInv` states it from the start, not only after the first tick; appended stamps
carry the present time, and a tick that fires suspends the claim until the sweep
restores it. `ToldInv` follows the alert of a failed login by the index of the rule:
raised at the second rule, notified from the third on.

*Detector.* Every step of the engine is a step of the detector for the address or
none. The step that counts needs both count properties: the window holds no attempt
that the history lacks, and of the history everything that is inside the brute force
window. The last needs `OneWindow`, that every posted window is the same one and shorter than
the retention: the program allows others, and with those the claim is false (see
the divergences in section 4).

*Hub.* `PanicInv` adds to `~panicked` that the queue of every client in the map,
and of every client that has not registered yet, is open; a queue is closed
in the step that removes its client. `FeedInv` says of each client that nothing
is queued before it registered, that its queue holds the consecutive numbers after
those delivered, that delivered and queued never exceed what was published,
and that they are exactly that for a client of the hub (one less while the
broadcast has yet to visit it). The refinement reads off it that the head of the
queue is the next alert of the feed. A dead connection (`broken`) is exempt: its
queue is drained into nothing, and `Feed` lets a subscription stop.

*ConfigStore.* Overlapping requests share a struct and copy into it without a lock, so
neither property is inductive. `IInv` adds what makes them safe: what a handler inside
`SaveConfig` encoded is what its struct holds unless another request is still copying, and
the file holds what its writer encoded until it unlocks (for `QuietAgreement`); a
request that none overlapped has brought its settings exactly as far as its step,
and no save has opened the file while settings count as acknowledged (for
`AcknowledgedSurvive`).

*Monitor.* `EntriesInv` relates `alertedPIDs` to the ghost of the events: the entry of a
PID and rule is as old as the last event, or it has expired and that event is older
than `StaleAfter`. Entry and ghost are set in one step and age together, and expiry
drops only what is older than `StaleAfter`. With the assumption
`SuppressFor <= StaleAfter` an event that could be repeated is never a recent one; a
mutant whose entries expire sooner violates the property. `OffencesReported` looks at the end of
a scan only. `SnapInv` says that a scan nothing disturbed has read what is there, and `DueInv` where
each offence stands: its process is to be picked, or it is under evaluation with a check
of that rule left, or the event exists and is young enough, as it stays while the scan's
own age grows. The step of `Judge` needs that the code, which climbs from each process,
and the reference, which descends from sshd, find the same processes:
`ChildrenAreBelow`, an induction over generations. Both are recursive functions;
`Iterates` shows that such a function exists, and `SetInduction`, which takes the
numbers with a property as a set, that all generations agree.

*Normalizer.* `OrderInv`: where there is a log, only complete lines have events, and only
lines before the next one to read, so that neither reading on nor opening the log
at its end meets one that has. `SkipInv`: each line that is due is on all trails or is the
one in `processLine`, and on those that its stage is past; between the two writes, the text
at the end of the file is its own, or its record counts as unwritten. `TrailInv` says
the same of that line for the order of the trails. `CacheInv`: the cache is right about
every account whose last change is older than the cache, since time ages both alike;
a cache in use is no older than its limit.

*AlertFeed.* `ListOK` describes the words of the list at every point of `AddAlert`: at rest,
while the shorter slice is stored, and while the slice with the new alert is. It gives
`ReaderOK`, that what a handler has read lies between the sizes that the list had
around it. `EngineOK` says that the times of alerts never decrease, `FeedOK` that a live
page got a prefix of what was published since it connected. With both, `PageOK` holds
for each page: an answer of the database is a beginning of the newest that were stored when
it was asked for, all of them if it was not cut, and the properties, with what a page shows before it is live. The
assumption on the limits is the order of the code's: 6 fetched alerts go to the recent table,
which holds 10, the timeline 20, and 50 are fetched.

*EventStore.* A question is answered about a table that grows. `IInv` says of each
answer that it is right for the rows it saw; rows are only added and never change, so
it stays right. Between the two SELECTs of a window the total is known, and a
slice that is full has only grown fuller since, so that a slice that was read and not full
at the second SELECT was not full at the first. `BurstsRight` rests on `TwoSlices`, that
any `SubWindow` seconds meet at most two adjacent slices, each bounded because it was read. That the newest login exists is an
argument about well-founded sets; that a subnet's prefix matches its own hosts and
no other follows from the dot that closes it.

## 6. Only model-checked

Liveness (`EventsEvaluated`, `CleanupRuns`, `BroadcastReturns`,
`DeadIsForgotten`, `RequestsEnd`, `OffendersEnd`, `LinesArrive`): reasoning under fairness is out of the prover's
reach. TLC checks these on the instances of section 3 only.

## 7. Not modelled, and the plan

Left out for good: service discovery (one-shot probes of `/proc`, no state), the rendering
of the dashboard, its themes and the fields of its form, static files, jumps of the wall
clock backwards, running out of memory or disk other than as a failed write.

A composition of channel, engine and hub into one module is not built. What it would
show, that a browser that does not read never stops the normalizer, is the chain of
three properties: `BroadcastReturns` (the hub always takes the alert),
`EventsEvaluated` (the engine, given that, empties the channel) and `LinesArrive` (the
normalizer, given that, is never held up).

What is left: the conditions of `DetectorImplemented` could be widened, to an operator who
changes the window while no attempt is remembered; and the step of each liveness argument that is
not temporal, such as that a measure decreases, could be stated and proved.
