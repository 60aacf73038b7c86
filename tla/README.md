# OrbiCheck: a formal model of its core

OrbiCheck scans websites with 34 modules, monitors them, and sends reports and
alerts. This directory holds TLA+ modules for the parts of it where processes
race, messages repeat and processes die, the TLC configurations that check
them, and TLAPS proofs of their most important properties. Paths below are
relative to `backend/app/` (the Python API and workers) or `backend/scan/`
(the Node.js scan service); those of the dashboard start at the repository's
root.

- [The system](#the-system)
- [What is modelled](#what-is-modelled)
- [Runs](#runs)
- [What disagrees with its documentation](#what-disagrees-with-its-documentation)
- [Theorems](#theorems)
- [What is not modelled](#what-is-not-modelled)
- [Plan](#plan)

## The system

Processes: a FastAPI application, Celery workers (prefork, `task_acks_late`,
prefetch 1) and Celery beat, with PostgreSQL for rows and Redis for both the
broker and small keys; the scan service, one Node.js process that runs the
scan modules; a Next.js dashboard.

| Component | Source | State | Operations | Hard behaviour | What makes it correct | Module |
|---|---|---|---|---|---|---|
| Scan lifecycle | `tasks/scan_tasks.py`, `services/scan_service.py`, `api/v1/endpoints/scans.py` | scan row, module rows, `scan:{id}:cancel_requested`, `scan:{id}:progress`, messages | create, execute, cancel, rescan, delete, retry a module, follow progress | redelivery, cancel at any moment, worker and request loss, Redis failures | an ended scan stays ended, a cancel stops work, every module is settled, every scan and stream ends | `ScanLifecycle` |
| Report schedules | `tasks/report_schedule_tasks.py`, `services/report_schedule_service.py` | schedules, runs with status and lease, reports | dispatch, publish, claim, generate, deliver, pause, run now, delete | doubtful publication, expired lease, redelivery, crash around an email | one report and at most one delivery per run, a truthful receipt, no forgotten run | `ReportScheduleRun`, `OnceDelivery` |
| URL group runs | `tasks/url_group_run_tasks.py`, `services/url_group_run_service.py` | run row, member rows, one scan per member | start, execute members in batches, cancel, finalise | redelivery, cancel between commits, drafts of a session | no member is scanned twice, cancel reaches every member, a run ends | `UrlGroupRun` |
| Monitors and alert policy | `tasks/monitor_tasks.py`, `services/monitor_service.py`, `alert_service.py` | monitor row, check lock in Redis, alert events | dispatch due checks, check, alert, recover, pause, resume | lock expiry, manual checks, flush order, rollback after sending | overlap is bounded, the cooldown holds, down is earned, an incident shows | `MonitorCheck` |
| Notifications | `services/notification_channels/dispatch_log.py`, `tasks/notification_tasks.py` | dispatch log rows, row locks | reserve, send, record, retry tick, manual retry | overlapping ticks, a crash after sending, rollback of a whole tick, deadlock | attempts are bounded and counted, nothing is abandoned | `NotificationDispatch` |
| Circuit breaker | `_common/circuit-breaker.js`, `_common/http.js` | per host: state, failures, probes in flight | let a call through, record its outcome | outcomes that arrive late, unrecorded outcomes | exact probe budget, closed exactly when healthy, never stuck | `CircuitBreaker` |
| Browser pool | `_common/playwright-browser.js` | shared Chromium, slots, queue | acquire, release, launch, close | aborts in every position, failing launches, a browser that goes away | slots are exact and passed on in order, nobody waits in vain | `BrowserPool`, `SlotPool` |
| Module runner and host limiter | `server.js`, `runner.js`, `_common/host-limiter.js`, `_common/middleware.js` | two queues, timers, signals | run a batch | timeouts against late results, handlers that never end | a timer runs with its slot, slots return, a batch is answered | `ModuleBatch` |
| Port scan | `ports.js` | list of ports, sockets, nmap call | scan | workers over one list, abort, two timers | each port once, nothing goes on behind an answer | `PortScan` |
| Following scans in the dashboard | `app/dashboard/scan/`, `lib/hooks/`, `lib/stores/` | active scan, EventSource, query caches | submit, rescan, cancel, navigate, stream, poll | late answers, dropped streams, navigation | no silent card, no twin stream, an end is shown | `ScanWatch` |
| Retention | `services/snapshot_retention.py`, `change_retention.py`, `visual_retention.py` | snapshots, changes | select what to delete | boundary values | the newest and the referenced stay | |
| Manual reports | `tasks/report_tasks.py`, `services/report_service.py` | report rows | generate, download | worker loss | a report ends | |
| Scan analysis | `services/transformers.py`, `security_analyzer.py`, `finding_observation.py` | none, finding rows | score, project findings | none concurrent | pure functions | |
| Other scan modules, channels | `*.js`, `services/notification_channels/*.py` | none | one probe or one message | none | parsing and formatting | |
| Authentication, URL safety, configuration | `core/`, `utils/url_safety.py` | sessions | check a request | none | sequential checks | |
| Rest of the dashboard | `app/`, `components/`, `lib/` | browser state | show, ask | refetching | presentation | |

How they interact: the API commits a row and publishes a Celery message that
names it; a worker reads the row, calls the scan service over HTTP, commits
results and writes the progress key; the API's progress stream polls that key
for the dashboard; a cancel writes the row, the two Redis keys and a revoke;
beat starts the dispatchers of monitors, report schedules and notification
retries every 10 to 60 seconds. A group run calls `execute_scan` inside its own
threads, one scan per member. A monitor check sends alerts inside its own
transaction and leaves the failed ones to the notification retries. In the scan
service a batch's modules pass the batch's limit and the host's; their
outbound calls pass the circuit breaker of the hostname, and the modules that
need a page take a slot of the browser pool.

In the models these seams are explicit: what `UrlGroupRun` assumes of a scan
(its thread ends, and with it the scan unless the scan's own handler has failed)
is what `ScanLifecycle!EventuallyEnds` checks; the message that
`MonitorCheck` sends is the first attempt of `NotificationDispatch`; the
timeout and abort that reach `BrowserPool` and `PortScan` are the ones
`ModuleBatch` produces; the server that `ScanWatch` polls is reduced to the
life of a scan, and a stream may end or break at any time.

`PROJECT.json` lists the hazards of this code at the lines where they bite,
with the properties that cover each, or the reason none does.

## What is modelled

### ScanLifecycle

One scan with all the processes that touch it. A step is what one process does
between two points at which another can observe it: a committed statement, a
Redis command, a message. `pc[w]` walks through `execute_scan` in source
order, and its labels are the awaited or blocking points:

| Labels | Lines of `tasks/scan_tasks.py` |
|---|---|
| `gate`, `cas`, `recheck`, `begin` | 122-243 |
| `top`, `announce`, `setprog`, `precall`, `docall`, `call` | 249-365 |
| `markretry`, `retryprog`, `retry`, `retrydo`, `retrycall`, `closebatch` | 367-506 |
| `after`, `setend` | 508-530 |
| `final`, `commit`, `paydone` | 532-640 |
| `fatal`, `fatalcommit` | 641-712 |

A request flushes its UPDATE before it commits. In PostgreSQL this holds the
row lock: other writers wait and readers see the old row. `lock` is that
lock, and each action that writes the row has `lock = Free` in its guard. The
window between the Redis writes of a cancel or rescan and their commit is
therefore in the model, and so is the publication of the rescan's message
inside that window.

Messages are `unused`, `queued`, `taken` or `acked`. `Crash` is the loss of a
whole worker: its message is delivered again. `Killed` is the loss of the
child process alone, by the SIGTERM of a cancel's revoke or, with fault
"child", for another reason: with Celery's default setting the message is then
acknowledged. A revoke is a broadcast and may reach nobody, so `CancelRead`
may leave `revoked` unchanged.

`Raises` is a Redis command or a statement that fails, at every label that
makes one (`UsesRedis`, `UsesDb`): the abort check's read (69), the progress
writes (273, 404, 516), the last payload after the final commit (616) and every
commit. A write that raises may have arrived. It leads to the handler, which has
nothing around itself: `HandlerRaises` is the failure of its Redis write (643,
before anything else, so the row is not touched) or of its session (704). The
task then returns, its message is acknowledged, and `escaped` remembers which it
was. The publications of the creating request (`scans.py:126`) and of a rescan
may fail too (`CreatePublishFails`, `RescanPublishFails`). A batch's answer may
break off after some of its modules were recorded (`BatchFails`). These faults
are not counted: each can happen at any time and again.

Data is abstracted to what the properties tell apart. A module's result is
"ok" or "bad"; the progress payload is one of six kinds, "full" being a
batch's own payload that says progress 100; module rows are one status per
module with `gen` as their identity, because a rescan deletes and recreates
them and a retry that read the old ones must fail.

History: `late` counts the calls a worker begins while the committed status is
CANCELLED, since the cancel's commit.

### ReportScheduleRun and OnceDelivery

One schedule and its runs. `next_dispatch_at` is abstracted to the holder of
the lease: a publisher, or nobody (`Due`) once the time has passed. `Tick` is
the dispatcher's single transaction: new run, next date, and the lease of every
overdue pending run. A publication may fail with or without the message being
accepted. `Release` gives a lease back only if it is still the publisher's own.
`Claim` is one transaction under `SELECT ... FOR UPDATE`; `Generate`,
`MarkDelivering`, `Deliver` and `Record` follow the task. `report` is the status
of the report a run builds, which is committed as GENERATING with the claim and
ends with the run: whatever raises in the generation leads to label `fail`, where
one commit fails both rows (`Fail`, `_fail_run`), and a schedule paused meanwhile
fails the run in the commit that completes the report. `Fail`'s commit may itself
raise, with nothing behind it; the message is acknowledged and both rows stay as
they are. `abandoned` holds these runs and the ones whose worker was lost before
the intent to deliver. A worker may be lost at each label, its message delivered
again or not, and a message may also be delivered again under a worker that still
runs. `sent` and `reports` count what happened to the outside world.

`OnceDelivery` states the promise without any of this: a run is committed to
delivery, sent at most once, and settled, or dropped before the commitment and
then never sent. `ImplementsOnce` is the refinement, with the phase computed
from status and receipt.

### UrlGroupRun

One run of a URL group. `Step(w)` follows `process_url_group_run` from commit
to commit: the members found queued (`Take`), a batch of `Limit` members after
`db.refresh` (`NextBatch`), a row per member marked creating and then given a
scan (`BeginMember`, `MakeScan`), the check between the batch's creation and
its start (`Gate`), scans that end in threads (`Start`, `ScanEnds`, `Collect`),
and the counts and final status (`CountMembers`, `EndRun`, `Leave`).
`ScanRaises` is a thread whose `execute_scan.run` raises, which it does when the
scan's own handler fails: the scan's row is then what its last commit made it,
live or ended, and `Collect` marks the member FAILED without looking at it
(377-385). `thrown` remembers these scans.

What a session has written and not committed is `draft`; it is lost with the
worker. `cancel_group_run` reads first and commits later (`CancelReads`,
`CancelCommits`), so a scan that ends in between is overwritten or spared,
according to which of its reads came first. A request that dies in between
(`CancelDies`) leaves nothing but the flags it has set in Redis, `hit`, on which
live scans then stop calling modules. Faults are that, a raising thread, a lost
worker (message delivered again), a lost child (message acknowledged), a
delivery beside a worker that is still busy, and an exception that reaches the
task's handler (`Fatal`). The handler writes FAILED whatever the row says, or
fails itself on its new session (432-458) and leaves the row as it is; the
message is acknowledged either way, and `acked` says for which reason a run was
left to nobody. History: `late` counts batches a lone worker begins after a
cancel's commit, `twins` says that two workers have been at work at once.

### MonitorCheck

Checks of one uptime monitor by Celery workers (under the Redis lock) and by
manual requests (without it). A checker loads the row and probes; reads
`is_enabled` again; sets counters and status, whose first flush takes the row
lock, and decides about an alert (`Settle`); sends it (`Notify`); and commits.
The flush writes only columns that differ from what the session loaded, which
is what makes overlapping checks lose updates. The lock has a TTL and no owner:
`Expire` frees it under a running check, and `Close` deletes it whoever holds
it. `Fail` is an exception that rolls back and retries the task, `Crash` a lost
worker. A resolve that raises is swallowed
(`_dispatch_recovery_for_enabled_capabilities`): `Notify` may leave the incident
open and go on to the commit. Besides "ok", "bad", "slow" and "lost" a result may
be "unsafe", an address that the safety check refuses: it counts as a failure and
can make the monitor DOWN, but raises no alert.

A pause or resume has two steps. `Ask` loads the row and notes the columns that
the request will change; `Pause` and `Resume` are its UPDATE, which waits for the
row lock and then writes over what a check has committed meanwhile. Maintenance
windows are the set of what they suppress, "probes" (the dispatcher skips the
monitor) and "alerts" (the check runs, and mutes what it would send).

Time is `due` (the interval) and `cooling` (alerts within the
cooldown). History variables record what really happened: failed checks since
the last success (`failed`), triggers without a resolve (`incident`), downtime
alerts sent and rolled back in a cooldown (`burst`, `undone`).

### NotificationDispatch

Rows of the dispatch log: the first attempt in the transaction of the check
that raised the alert (`Alert`), retry ticks over all due rows (`Tick`), and a
manual retry of one row (`Single`). A session works on copies it read without
a lock (`seen`); a flush takes the row's lock (or waits for it), a commit
publishes all rows of the session together. The UPDATE of a flush carries the
changed columns only (`Update`). `Fail` rolls a whole session back after its
messages went out, `Deadlocked` is what PostgreSQL does to two ticks that took
the same rows in different orders. `sends` and `accepted` count what the
channel saw.

### CircuitBreaker

One hostname. `canRequest`, `recordSuccess` and `recordFailure` each run in
one turn of the event loop; what interleaves is the start of calls and the
arrival of outcomes. `Unrecorded` is a call that ends with an error the
adapter itself throws (a name that does not resolve, a redirect to a refused
address, too many redirects). Such an error has no `config`, and `http.js`
then records nothing. History: `cur` are the calls let through as probes of
the present half-open period; `muted` counts probes of the period that ended
unrecorded; `streak` counts recorded failures since the last recorded success,
independently of the code's counter.

### BrowserPool and SlotPool

The shared Chromium and calls of `withBrowserContext`. Events (a call arrives,
a signal fires, Playwright answers, the browser disappears) happen when `Quiet`
holds, that is when no promise reaction is pending; the reactions (`Resume`,
`EnsureStep`, `Leave`) run before the next event. This keeps the window between
a waiter's wake-up and its re-check in the model, and nothing wider than the
event loop allows. `promise` is `sharedBrowserPromise`, which a disconnect or
`closeSharedBrowser` clears while the launch it stands for goes on, and which a
failed launch leaves rejected.

`SlotPool` states what such a limiter promises: a slot belongs to at most as many
callers as there are slots, it passes to the first in line as it is given back,
those behind one who gives up move up, and who asks while others wait goes to the
end. `ImplementsPool` is the refinement. In the code a slot that is given back is
free until the woken waiter counts itself, and `Begin` looks at `activeContexts`
alone; the mapping says a woken waiter has its slot already, so it shows that no
call arrives in between.

### ModuleBatch

`POST /api/scan/batch`: the jobs of several batches against one host, from the
batch's p-limit to the host's limiter, through the middleware's safety check to
the handler and its race against the abort. `timer`, `aborted` and `told` are
the runner's timer, its signal and the handler's linked signal. A handler may
run on after its answer, and may never end; the module says who has been told,
and that slots and answers do not depend on it.

### PortScan

One call of the ports module: the nmap scanner if configured, the fallback to
TCP connects by a few workers over one shared index, the global timer and the
middleware's signal. An action is a callback with the promise reactions it sets
off. The signal reaches the handler only until it has answered, because the
middleware then unlinks it: this is why work can go on behind the answer of the
global timer.

### ScanWatch

One tab of the dashboard: the active scan of the store, the EventSource that
the scan layout keeps for it, the list query, the detail pages with their own
query and EventSource, navigation between them, and the requests of submit,
rescan and cancel with answers that arrive after the user has gone elsewhere.
`Rerender` is the effect of `layout.tsx`, `Shown` what the list page displays.
The server is a scan that is absent, running or ended.

## Runs

All bounds are constants of the cfg files; `MC*` modules define the few values
that a cfg cannot write.

| Run | Instance | Properties |
|---|---|---|
| ScanSafety | 1 module, 2 workers, 2 messages, 2 requests (all four operations), lost workers and children, dying requests, publications that fail, 1 crash | `CancelStopsWork`, `TerminalLeftOnlyByRescan` |
| ScanEnds | 2 batches of one module, 1 worker, 1 request (cancel or retry), 2 lost workers; Redis, the database and the first publication fail at any time, handlers included; fairness | `CompletedIsSettled`, `EventuallyEnds`, `StreamEnds` |
| ScanCancelOverwritten | 1 module, 1 worker, 1 cancel, no fault | `CancelledNotOverwritten` (violated) |
| ReportRun | 1 run, 2 publishers, 2 workers, 2 faults, 2 messages of a run, 1 pause or resume, fairness | `OneReport`, `ReceiptMatches`, `GeneratingIsHeld`, `ImplementsOnce`, `PendingIsClaimed` |
| UrlGroupRun | 3 members, 2 workers, batches of 2, 2 faults (lost workers, failing tasks and handlers, raising threads, a dying cancel), fairness | `OneScan`, `CancelStopsBatches`, `EndedIsSettled`, `RunEnds` |
| MonitorCheck | 2 workers, 1 manual request, 1 user who pauses and resumes, threshold 2, 1 interval, 3 pauses, resumes or windows, 1 fault | `OverlapBounded`, `CooldownKept`, `DownEarned`, `IncidentVisible` |
| NotificationDispatch | 2 rows, one with an unregistered channel, 2 sessions, 3 attempts, 1 fault, fairness | `AttemptsWereSent`, `EndedForReason`, `EndedStays`, `FailedEnds` |
| Breaker | 5 calls, threshold 3, 2 probes, fairness | `BudgetExact`, `ClosedIffHealthy`, `RefusalEnds` |
| BrowserPool | 3 calls, 2 Chromium processes at a time, 2 slots, 1 close, fairness | `SlotsExact`, `FewBrowsers`, `ImplementsPool`, `CallEnds` |
| ModuleBatch | 2 batches, of three modules and of one, both limits 2, fairness | `BudgetIsSlotTime`, `SlotGivenBack`, `OutsidersTold`, `AnswersStand`, `BatchEnds` |
| PortScan | 5 ports, 2 workers, fairness | `PortsAccounted`, `LateWorkIsTimeout`, `ScanStops` |
| ScanWatch | 2 scans, the detail page of one, fairness | `StreamOrNotice`, `NoTwinStream`, `EndShown` |

What the runs show, beyond the names: the comment above each property says
which behaviour of the code it is about and what would break it, and each has a
faulty variant of one code definition beside the definition (`... Faulty
variant`) under which it is violated.

Why the bounds are enough.

- Scan: two batches show the loop, its last iteration and everything between;
  within a batch only "some module has no result yet" is tested by the code.
  Two workers, a redelivered message and the one a rescan publishes give every
  overlap the compare-and-set guards against. Two requests give each pair of
  operations in every interleaving. The run for liveness has one worker and one
  request, because there is one message and what can prevent the end is a
  failure and not an overlap; its failures of Redis and the database are not
  bounded.
- Report run: runs share only the dispatcher's page and the schedule; two
  publishers and two workers are what a double publication and a double claim
  need.
- Group run: three members and a limit of two make a full and a partial batch.
  `MaxShared = 1` restricts a delivery beside a busy worker to runs with one
  member that is not skipped, because two workers on several members multiply
  the states; all that two busy workers do to one another, they do through one
  member and the run's row. Deliveries after a lost worker are not restricted.
  Two faults allow a raising thread beside a lost worker, a dying cancel, or a
  failing task.
- Monitor: two workers and a manual request are the three kinds of overlap
  (through an expired lock, by hand, both). Threshold 2 is the least that
  distinguishes a count from an alert; the kinds of result are success, bad
  status and refused address ("slow" and "lost" lead to statuses and alerts of
  the same shape, and the proofs cover all five). Three changes are
  a pause, a resume and a window in any order.
- Dispatch: two rows in opposite orders are what a deadlock needs, and three
  attempts leave one between the first and the last.
- Breaker: with five calls, three failures can open the breaker while two more
  are still out as late answers or probes.
- Browser pool: three calls over two slots have a waiter beside two holders and
  a wake-up beside a holder, and the identity of a Chromium process is used
  again when it is gone. Two waiters, who have an order, need four calls: the
  safety properties and `ImplementsPool` were checked on that instance too
  (96,000 states), but its liveness check is too slow for a regular run; the
  theorem `Refinement` covers lines of any length.
- Batch: the two batches compete for the host's slots, and the larger one is
  larger than its own limit.
- Ports: five ports over two workers let each worker take several and end on
  an odd one.
- Dashboard: one scan can be active while another is open, rescanned or
  cancelled.

Deadlock is not checked: every instance ends when its requests, messages and
faults are used up, and a run that cannot continue is what the liveness
properties look for.

Some properties are conditional, for reasons the code gives.
`CompletedIsSettled` speaks of scans without a rescan: a worker of the old
execution may finish after a rescan has recreated the module rows.
`EventuallyEnds` and `StreamEnds` excuse what `escaped` records: the failures
behind which the code has nothing, in the handler of `execute_scan` and at the
publication after `create_scan`'s commit. For the stream a failing session of the
handler is no excuse, because its payload has been written by then. `StreamEnds`
further excuses cancelled and deleted scans, whose final payload a worker may
overwrite or a delete removes and whose own Redis writes may fail, and holds for
instances whose last batch is not empty.
`GeneratingIsHeld` excuses `abandoned` runs, those whose worker was lost or whose
handler raised, and a report whose run was deleted under it; the rest of it, that
run and report leave GENERATING together, has no exception but that one.
`OneScan` excuses deliveries beside a busy worker, under which the code does scan
twice; it counts scans by worker, so a worker's second scan of a member would
show only in the other worker, which is its equal. `EndedIsSettled` excuses
members after a lost worker or an exception of the task, and live scans whose
thread has raised (`thrown`) or whose flag a cancel request set before it died
(`hit`). `RunEnds` excuses a message acknowledged for a lost child or behind a
handler that failed (`acked`).
`IncidentVisible` excuses four kinds of step (`muddled`) that do hide an incident,
until a check on its own ends: a pause or resume that writes over the status, a
rollback behind a trigger, a resolve that raised and was swallowed, and
overlapping checks. `RefusalEnds` excuses half-open periods with an
unrecorded probe, and `EndShown` an active scan whose stream was lost with a
notice. `FailedEnds` assumes that ticks roll back finitely often: a row that
raises in every tick is retried for ever, and keeps the others of its tick back.
Each of these exceptions is described in the next section.

### Fairness

No fault, request or press of a button is ever obliged to happen.

- `ScanLifecycle`: a worker takes a queued message and continues a task it has
  begun; a request that has begun goes on to its end; the creating request
  does too; an open stream polls. The code justifies it: every blocking call
  has a timeout (`SCAN_PER_MODULE_RETRY_TIMEOUT_S` and the batch timeout in
  `services/scan_client.py`), and workers are restarted by their supervisor.
  `WF_vars(ExecuteScan(w))` is for the whole task, so it does not choose which
  of a batch's outcomes happens, and the actions that stand for a fault have
  no fairness at all. `EventuallyEnds` is checked with worker loss and with
  failures of Redis, the database and the first publication, but without the
  "child" and "api" faults. With them it does not hold: a child lost on its
  own is acknowledged, and a request that dies between its revoke and its
  commit has killed the task without cancelling the row. No part of the code
  looks for RUNNING rows afterwards.
- `ReportScheduleRun`: beat ticks, leases expire with time, publishers and
  workers continue. `PublishFails` and `PublisherDies` are faults, bounded by
  `MaxFaults`, so the broker is up in the end.
- `UrlGroupRun`: each worker goes on, and the threads in which it runs scans end,
  with an exception or without.
- `NotificationDispatch`: beat ticks, each session goes on (a send has a
  timeout, a row lock is handed to one who waits), times pass.
- `CircuitBreaker`: time passes, each call ends (axios has a timeout), and
  scans keep asking for the host.
- `BrowserPool`: promise reactions run; each awaited answer arrives. Because
  other calls make `Quiet` false again and again, an answer is only enabled
  infinitely often: the event loop's queue serves it in the end, hence strong
  fairness.
- `ModuleBatch`: limiters and timers work and DNS answers. Nothing is assumed
  of handlers, which may never end.
- `PortScan`: sockets, the scanner's call and the handler have timers.
- `ScanWatch`: requests are answered or fail, queries that are due run, and a
  stream ends or breaks.
- `MonitorCheck` has safety properties only.

## What disagrees with its documentation

With a run:

| Run | Statement | What happens |
|---|---|---|
| ScanCancelOverwritten | `tasks/scan_tasks.py:532` "avoid overwriting CANCELLED" | the final UPDATE has no condition, and a cancel after the last read is overwritten |

Met while modelling, and excused or left outside by the properties above, with
the lines that show each:

*Scans.*
- A rescan's message is published before the endpoint's commit
  (`services/scan_service.py:443`, commit in `api/v1/endpoints/scans.py:90`); a
  fast worker reads the old terminal status and drops it, and the scan stays
  RUNNING (the docstring at 367 says "re-trigger the Celery task").
- The last batch's payload says progress 100 and ends the stream while the row
  is RUNNING (`tasks/scan_tasks.py:516`).
- A cancel during the retries returns at 424 and leaves modules RETRYING,
  which `models/scan.py:89` calls a passing state.
- `RetryProgress` (404) can replace the terminal payload that a cancel has
  written. When the last batch has no selected module and a worker is lost
  after the final commit, no terminal payload is ever written.
- Overlapping rescans duplicate module rows (`services/scan_service.py:376`).
- The handler of `execute_scan` writes to Redis first, outside any try
  (`tasks/scan_tasks.py:643`). While Redis is down, the failure that led there
  makes the handler fail too: the message is acknowledged, the row stays RUNNING
  and no terminal payload exists. When its session fails (659-704) the browser is
  told of an error and the row stays RUNNING.
- A write of the last payload that raises (616-631) comes after the final
  commit; the handler turns the COMPLETED scan into a FAILED one.
- A publication that fails in `POST /scans` (`api/v1/endpoints/scans.py:126`)
  leaves a committed PENDING row that nothing takes up.
- A cancel's Redis writes are best effort; without them an open stream gets no
  end from the cancel.

*Reports.*
- What raises in the handler of a generation
  (`tasks/report_schedule_tasks.py:146-153`, its commit at 174) leaves run and
  report GENERATING with the message acknowledged.
- A schedule deleted under a generation takes the run with it and leaves the
  report GENERATING.

*Group runs.*
- A redelivered run ends, possibly COMPLETED, with members that stay
  CREATING_SCAN or RUNNING: only queued members are taken up
  (`tasks/url_group_run_tasks.py:269`), and their scans run nowhere.
- The commit of the final status (429) overwrites a cancel that came between
  the last refresh and it; the handler at 441 makes the run FAILED also when
  only the last publication (430) failed.
- A second delivery takes a RUNNING run up again (237), and both workers scan
  its queued members.
- A thread that raises makes its member FAILED (`tasks/url_group_run_tasks.py:377-385`)
  whatever its scan is: still RUNNING, or COMPLETED.
- The task's handler opens a session and commits outside any try (432-458). If
  what failed the task is still failing, the run stays RUNNING and its message is
  acknowledged.
- A cancel request that dies before its commit leaves the flags it has set:
  scans stop, and stay RUNNING, in a run that nobody has cancelled.
- `_ensure_no_active_run` (`services/url_group_run_service.py:156`) checks
  before it acts; a request that dies before its publication leaves the run
  PENDING; a crash between 429 and 430 leaves the stream without its end.

*Monitors.*
- A DOWN monitor that is paused and resumed is PENDING, and its next success
  sends no resolve (`services/monitor_service.py:2683` looks at the loaded
  status).
- A check that is past its second `is_enabled` read overwrites PAUSED; a resume
  that has read PAUSED and waits for the check's row lock overwrites a committed
  DOWN with PENDING (2781-2787).
- A recovery whose dispatch raises is logged and forgotten (2701-2714): the check
  commits UP, and no later success resolves the incident.
- After overlapping checks an incident may be open behind a status of UP.
- Manual checks take no lock (2792).

*Notifications.*
- An attempt is lost by a crash between flush and commit
  (`dispatch_log.py:92`), although 76-77 say the row survives.
- Overlapping retries send a row twice, and the last failure may make a
  SUCCEEDED row DEAD.

*Scan service.*
- A half-open probe that ends with an adapter's error is never counted back
  (`_common/http.js:137`), and the host is refused until the process restarts;
  a late failure ends the period while its probe is out, so more than "exactly
  one probe" (`_common/circuit-breaker.js:11`) can be under way.
- A rejected launch stays in `sharedBrowserPromise`
  (`_common/playwright-browser.js:81-96`), and every later call fails.
- Timed-out handlers run on outside the host's cap
  (`_common/host-limiter.js:12-14`).
- The global timer of `ports.js` (45 s) caps `MODULE_TIMEOUT_PORTS_MS`, which
  `config.js:16-17` offers for longer scans; an nmap call that hangs (60 s)
  falls back to a native scan behind the answer (38, 44, 611-628).

*Dashboard.*
- `useRescan` invalidates `["scan", id]` (`lib/hooks/use-scan-list.ts:75`), the
  detail query's key is `["scan-detail", id]` (`use-scan-detail.ts:17`).
- The answer to a cancel of one scan clears whichever scan is active by then
  (`app/dashboard/scan/page.tsx:243`).

## Theorems

Each holds for every value of the constants that satisfies the named
assumptions of its module: bounds are natural numbers, limits and thresholds
positive, sets whose members are counted finite, batches of a scan sequences of
sets of modules, special values not members of the sets they mark. No
assumption is about the behaviour of the system.

| Theorem | States |
|---|---|
| `ScanLifecycleProofs!TypeCorrect` | `Spec => []TypeOK` |
| `ScanLifecycleProofs!CancelStops` | `Spec => []CancelStopsWork` |
| `ScanLifecycleProofs!CompletedSettled` | `Spec => []CompletedIsSettled` |
| `ScanLifecycleProofs!OnlyRescanRevives` | `Spec => TerminalLeftOnlyByRescan` |
| `ScanLifecycleProofs!TabTypeCorrect`, `ActiveIsStreamed`, `OneStreamEach` | `WatchSpec => []WatchTypeOK`, `[]StreamOrNotice`, `[]NoTwinStream` |
| `ReportScheduleRunProofs!TypeCorrect` | `Spec => []TypeOK` |
| `ReportScheduleRunProofs!AtMostOnce`, `AtMostOneReport`, `ReceiptsMatch`, `GeneratingHeld` | `Spec => []DeliveredOnce`, `[]OneReport`, `[]ReceiptMatches`, `[]GeneratingIsHeld` |
| `ReportScheduleRunProofs!Refinement` | `Spec => ImplementsOnce` |
| `UrlGroupRunProofs!TypeCorrect`, `ScannedOnce`, `CancelHeeded`, `Settled` | `Spec => []TypeOK`, `[]OneScan`, `[]CancelStopsBatches`, `[]EndedIsSettled` |
| `MonitorCheckProofs!TypeCorrect`, `OverlapsBounded`, `CooldownHolds`, `DownIsEarned`, `IncidentShows` | `Spec => []TypeOK`, `[]OverlapBounded`, `[]CooldownKept`, `[]DownEarned`, `[]IncidentVisible` |
| `NotificationDispatchProofs!TypeCorrect`, `AttemptsCount`, `EndsForReason` | `Spec => []TypeOK`, `[]AttemptsWereSent`, `[]EndedForReason` |
| `NotificationDispatchProofs!NeverReopened` | `Spec => EndedStays` |
| `OutboundProofs!TypeCorrect`, `ProbeBudget`, `Healthy` | `Spec => []TypeOK`, `[]BudgetExact`, `[]ClosedIffHealthy` |
| `OutboundProofs!PortsTypeCorrect`, `PortsShared`, `LateWork` | `PortSpec => []PortTypeOK`, `[]PortsAccounted`, `[]LateWorkIsTimeout` |
| `BrowserPoolProofs!TypeCorrect`, `SlotsCounted`, `NobodyWaitsInVain`, `BrowsersFew` | `Spec => []TypeOK`, `[]SlotsExact`, `[]WaitsOnlyWhenFull`, `[]FewBrowsers` |
| `BrowserPoolProofs!Refinement` | `Spec => ImplementsPool` |
| `ModuleBatchProofs!TypeCorrect`, `BudgetsExact`, `SlotsReturn`, `OutsidersAreTold` | `Spec => []TypeOK`, `[]BudgetIsSlotTime`, `[]SlotGivenBack`, `[]OutsidersTold` |
| `ModuleBatchProofs!AnswersNeverChange` | `Spec => AnswersStand` |

Two modules of proofs hold the theorems of two components: the tab beside the
scans it follows, and the port scan beside the breaker, both of which bound
what the service does to other hosts. `ScanWatch` and `PortScan` therefore give
their `Init`, `Next` and `Spec` a prefix.

Arguments. Each module of proofs states its inductive invariant `IInv` (or
`LateInv`) as a conjunction of named parts and proves that every action keeps
every part.

*Scan.* `CancelStopsWork` is not inductive, because a worker that has begun one
late call must be known to make a check before the next. `LateInv` adds that:
while the scan is cancelled a worker with `late = 1` is at no label that leads
to a call without passing an abort check, and the committed status CANCELLED
makes that check return. *OnlyRescanRevives*: each worker step and each request
step either keeps the status, or sets a terminal one, or needs a pending row
(the compare-and-set), or is `RescanCommit`.

*CompletedSettled* is about any number of workers, of which several may hold
messages of the scan. Until a rescan commits (`gen = 0`) only one of them is
past the gate (`Alone`): before the scan ends, the creation's message is the
only one (`Fresh`) and one worker holds it (`HoldsMessage`); after that, every
delivery returns at the gate. The lone worker knows the rows: what it has a
result for is settled in them (`Recorded`), and it has a result for each module
of the batches it left behind (`Progressed`), so at its final commit everything
is settled, and nobody writes a row afterwards (`Over`). `Locking` keeps that
commit from passing a cancel or rescan that has flushed its own UPDATE.

*Tab.* `Streams` says that the layout's EventSource is the active scan's, and
the detail page's that page's own scan, which is then not the active one. Every
event that changes the active scan, the route or the cached detail renders
again, and `Rerender` restores it.

*Report runs.* `OwnerInv` says what a worker past the claim knows of its row
(GENERATING before the intent to deliver is committed, DELIVERING with an
unconfirmed receipt after, or deleted), and that nothing was sent while it is
about to deliver. `Exclusive` says no two such workers hold the same run.
`RunInv` bounds `sent` and `reports` and ties them to status and receipt.
Exclusivity follows from the claim: it needs PENDING and leaves GENERATING, and
no step returns to PENDING. *GeneratingHeld* is inductive beside these: the one
claim of a run makes its worker the holder (`HeldInv`), a holder keeps the row
until it commits the intent to deliver or the failure, and otherwise abandons it,
by a loss or in its handler; `RowsInv` ties the report to the run in each of
these commits. *Refinement* then maps each worker step to one step
of `OnceDelivery` or to a stutter, and `Tick`, `Toggle` and the publishers to
stutters.

*Group runs.* `Fresh` says a queued member has no scan, `InHand` and `Apart`
where each member a worker has still to do is, `Alone` that a worker which has
never met another finds everything ahead of it unscanned: a redelivered task
takes only queued members, and a member stops being queued in the same commit
that precedes its scan. `Ending` says where a lone worker can be once a cancel
is committed: before a batch's start only as long as no batch was begun late.
*Settled* needs to know where everything unfinished is. `Kept` says that as long
as no worker was lost and no task raised, a queued member waits in a pending run
or in a worker's list, one being created or running is in a worker's session,
and a live scan is somebody's to end: a thread's, or a cancel's that has hit it;
or its thread has raised, and it is in `thrown`, which only grows.
`Carried` empties those hands where a worker passes from one batch to the next
or ends the run; `Cancelling` says a committed cancel left no member queued.

*Monitor.* `RowHeld` says a check between its flush and its commit has the row
lock, so two of them cannot both find no alert within the cooldown; `Cooling`
counts the alerts sent in it against those rolled back. *IncidentShows*: while
nothing has muddled the checks of a monitor, at most one has the row open
(`Clear`); when it leaves an incident open, its own alert is what the status
becomes next, or the status shows an earlier one (`Told`, `Cause`). A request's
UPDATE passes only while no check holds the row, and counts as muddling whenever
it changes the status of an open incident or under an open check; a resolve that
raises does too. `Counted` keeps every
copy of the failure count, in the row and in the sessions, below the number of
failures that really happened; it needs that a check on its own finds the row
as it loaded it (`Alone`). *OverlapsBounded* counts workers against expired
locks, with the cardinality facts of finite sets.

*Dispatch log.* `GoodVersion` is what holds of each version of a row, committed
or flushed, and `GoodCopy` of each copy a session has: an outdated copy is
never ahead of the messages sent, and it is a failed or pending one, so an
UPDATE from it writes an outcome and never "pending". `Kept` says the version
under a lock on an ended row is an ended one, because a status equal to the
loaded one is left out of the UPDATE.

*Breaker.* `PeriodInv` (no probe of "this" period outside one), `CountInv`
(while closed the code's counter is the streak; otherwise both are at the
threshold) and `BudgetExact` together are inductive.

*Browser pool.* `Waiting` says the queue holds each waiter once and nobody
else; `Counted` that slots are the holders' and that woken waiters find one
free, so a slot freed is never given to two. It also says that the queue is
empty while a slot is neither held nor promised to a woken waiter
(*NobodyWaitsInVain*). For *BrowsersFew*, `Launches` bounds the Chromium
processes beyond the shared one and the launching one by the closes: a launch
that ends after a close or a newer launch trades one orphan for another, and
only a close makes one more. *Refinement*: `Begin` maps to a free slot taken or
to the end of the line because of `Counted`, `Leave` to a slot given back,
`AbortQueued` to a waiter who gives up, and the rest to stutters.

*Ports.* `Started` says what runs when: sockets are open only while the TCP scan
runs, that starts after the scanner was absent or failed, and never on a signal
that has fired. With it the accounts of the list, the bound on sockets and the
completeness of a finished scan are inductive together; the bound is a matter of
cardinalities, one socket closed for each that a worker opens.

*Batch.* `Queue` is the same for the host's queue; `JobOK(j)` collects what
each position of a job implies for its timer, answer, signal and handler. Its
three parts are the three invariants, which need one another.

Every invariant, action property and refinement that a passing run checks is
stated by a theorem, and so is the type invariant of every module that has one.
Only model-checked are the liveness properties, which are about fairness and
ENABLED and so outside the prover.

## What is not modelled

In the modelled parts:

- Scan: the error path of the progress stream, the expiry of the progress key
  and the cancel flag (one hour and one day); `APP_ENV=development`, where tasks
  run inside the API process; the broker's visibility timeout (a second worker
  on a RUNNING scan is reached by a rescan's message instead); two rescans of
  one scan at once; bulk delete; a batch answer that lacks a module;
  `retry_module`'s score refresh, and all scores and findings.
- Report schedules: several schedules, the dispatcher's page of 25 runs,
  calendar arithmetic.
- Group runs: creation and its checks, retry of failed members (a run of its
  own), group editing, inline execution in development mode.
- Monitors: capabilities other than uptime, statistics, live streams, the
  recurrence and scope of windows, the choice of channels, acknowledgements.
- Notifications: several channels of one alert on one session, the backoff's
  arithmetic, the batch limit of a tick.
- Circuit breaker: the kill switch, policy values of zero, test seams, the
  choice of retries by axios-retry.
- Browser pool: `launchChromium`, request routing.
- Batch: the routes for a single module, screenshots and page sources; handlers
  without `runDirect`; eviction of limiters; the middleware's own timer, which
  has the runner's duration and starts later.
- Ports: banners, service names, what nmap's output is made into.
- Dashboard: monitors, reports, groups, settings, filters, forms and
  everything that only renders.

Components without a module, with the reason:

- Retention, scan analysis, monitor probes and content comparison: functions of
  fetched data without concurrency; the first is planned.
- Manual reports: a two-step task around a rendering; its failure handling is
  the one of report schedules.
- Notification channels and the other scan modules: formatting and one network
  call each.
- Authentication, configuration, middleware and URL safety: checks within one
  request. What they mean for others is in the models: the rollback of `get_db`
  in `ScanLifecycle`, refused addresses in `CircuitBreaker` and `ModuleBatch`.
- Types, schemas, translations and mock data, which are a large part of the
  repository's lines, have no behaviour.

## Plan

1. Done: the modules above and their proofs, in the order in which the effects
   they guard cannot be taken back: scans, report delivery, the outbound HTTP
   breaker, then notifications, group runs, monitors, the scan service's pools
   and limits, and the dashboard's view of a scan.
2. Retention selections as pure operators against a reference definition over
   all small histories.
3. `UrlGroupRun` beside the dashboard's group card (`group-card.tsx:75`,
   `use-url-groups.ts:164-208`), which may go on showing a run that has ended.
4. Several channels of one alert on one session (`registry.py:230` gathers
   their sends concurrently).
5. `ModuleBatch`'s host limiter as a second implementation of `SlotPool`.
