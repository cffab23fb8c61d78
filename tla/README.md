# A&I gateway server and monitor bot: a TLA+ verification project

The repository holds two programs:

- the **gateway** (`src/src/main/kotlin/com/aandi/gateway/`): a Spring Cloud
  Gateway with filters for rate limiting, request validation, access policy,
  availability toggles, and a token-context cache in Redis;
- the **monitor bot** (`src/monitor-bot/`, Go): a Discord bot that keeps
  dashboards up to date, posts alerts, feeds log rows into channels, watches
  assignments, and answers `/ops` commands. Its state is one JSON file.

The interesting concurrency and failure handling is in the bot: four loops and
any number of command goroutines share one `state.Store`, each *reads a
snapshot, talks to the network for seconds or minutes, and writes back into
whatever the store holds by then*. All four loops are modelled, and so are the
process around them (start, interactions, the client of the report service) and
the part of the gateway that keeps state (rate limit, availability toggles,
token context cache).

## 1. Inventory

`PROJECT.json` lists the components with their sources and status, and the
hazards with their source lines. In short:

### Monitor bot

| component | state it keeps | operations | interacts with |
|---|---|---|---|
| service alerts (`monitor/alerts.go`) | `Data.Alerts` (active, LastSentAt per cooldown key), alert switch, channels of the two routes | `PollAlerts` and its steps; `/ops alert on/off/channel` | CloudWatch queries, Discord posts, store |
| dashboard watches (`monitor/dashboard.go`) | `Data.ServiceDashboards`, and the version 1 fields `DashboardChannelID`, `DashboardMessageID` | watch, unwatch, `RefreshDashboardWatch`, `dashboardLoop` | Discord edit and send, store |
| log feeds (`monitor/log_feeds.go`) | `Data.LogFeeds`: channel, baseline, fingerprints already seen | watch, unwatch, refresh, loop | CloudWatch, Discord, store |
| assignment operations (`monitor/assignment_ops.go`, `assignment_issue_*.go`) | snapshots, issue states, event cooldowns | poll, diff, persist, digest; ack and unack commands | report admin API, Discord, store |
| assignment audit (`monitor/assignment_audit.go`) | fingerprints of events already sent | poll, send, persist | CloudWatch, Discord, store |
| state store (`state/store.go`) | `Data` in memory under a mutex and the JSON file | `Load` (with migration), `Update`, `Snapshot` | every loop and command |
| report admin client (`reportadmin/client.go`) | access and refresh token, in memory | request, retry once after a 401, rotate | auth service |
| interaction handler (`discord/interactions.go`) | none of its own | verify, acknowledge, run the command in a goroutine with a timeout | every command |
| startup (`cmd/monitor-bot/main.go`) | readiness flags, the installed handler | start the HTTP server, load, install, start loops | `/healthz` |
| log classification (`opslog/v2.go`), formatting, configuration, REST and CloudWatch clients | none | pure functions and I/O | |

### Gateway

| component | state it keeps | operations |
|---|---|---|
| auth rate limit (`security/FixedWindowRateLimiter.kt`) | a Count-Min sketch for the current minute | count and compare |
| token context cache (`cache/`) | Redis entries per token, an index set per subject | put, index, look up, invalidate one or all |
| backend availability (`availability/`) | a Redis flag per service | read (fails open), toggle |
| request and access policy (`security/GatewayRequestPolicyFilter.kt`, `MethodPathPolicyEvaluator.kt`, catalogues) | none | deny list, allow list, first match |
| request validation and body cache, token validation, identity headers, logging, error bodies | one request only | stateless |

### What is hard, and what makes each component correct

- **Service alerts.** A poll takes minutes; queries fail one by one; a post may
  succeed without the bot learning of it; the process may die between a post and
  its record. Correct means: the record agrees with what the channel shows; an
  open alert is not repeated within the cooldown; "resolved" is said only by
  somebody who looked; nothing is forgotten.
- **Dashboard watches.** A refresh works from a stale snapshot and writes the
  entry back. Correct means: orders are obeyed for good, the fields that two
  versions of the file share do not contradict each other, and every watch ends
  with a message that exists, where it was asked for.
- **Log feeds.** Rows are queried, cut off at a limit, posted and recorded as
  known; a message shows only the first of them, as many as its text can hold.
  Correct means: a row becomes known only with a message or a baseline, no row is
  shown twice, and none that the query keeps finding is left out for good. That
  every known row was shown is not so (finding 4).
- **Assignments, audit.** The same pattern with other orders of
  *send* and *persist*: one can repeat, the other can lose a notification;
  an acknowledgement can be overwritten by a poll that started before it; a poll
  that fails in part must neither take what it did not see for gone nor send what
  it saw before.
- **Report admin client.** Refresh tokens rotate; two clients start with the
  same one, and the callers of one client meet an expired access token at once.
- **Interactions and start.** A request arrives at any moment of the start; the
  work goes on in a goroutine with a deadline, which is also that of its answer;
  it waits for the mutex of the client without heeding the deadline, so whoever
  holds the mutex must give it back on every path.
- **Rate limiter.** Collisions may only make the count larger, and not larger
  than all calls of the minute together.
- **Token context cache.** Put and index are three Redis calls, invalidation is
  two; where no interleaving or failure interferes, every entry is found.

## 2. Modules

| module | models | code it stands for |
|---|---|---|
| `IncidentNotices` | the promise of the alerts to the readers of a channel: open alerts repeat only after the cooldown, only open alerts resolve, except where the bot lost track | (abstract specification) |
| `ServiceAlerts` | the alert loop, its commands, its part of the store, time, faults, restarts; refines `IncidentNotices` | `alerts.go`, parts of `store.go` |
| `OpsLog` | how a row of a log is judged (error code, domain, severity, alert) and which rows the alert query returns | `opslog/v2.go`, parts of `queries.go` |
| `DashboardWatches` | dashboard watches, the loop and the commands as concurrent workers, the version 1 migration, Discord's messages, faults, restarts | `dashboard.go`, parts of `store.go` |
| `LogFeeds` | the log feeds: logged rows and the window of the query, watch with its baseline, unwatch, the loop with its query budget, faults, restarts | `log_feeds.go`, parts of `store.go`, the sort orders of `queries.go` |
| `AssignmentDiagnosis` | what is concluded from one course, one assignment, and two snapshots of one | `assignment_diagnosis.go` |
| `IssueNotices` | the promise of the assignment feed: a known open issue is announced again only with new evidence and never changes silently, unless somebody touched it | (abstract specification) |
| `AssignmentOps` | the poll with its calls and budgets, the life of an issue, the acknowledgement commands, faults, restarts; refines `IssueNotices` | `assignment_ops.go`, `assignment_issue_*.go` |
| `AssignmentEvents` | the changes a poll finds (recorded, then sent) and the audit events a query finds (sent, then recorded) | `assignment_ops.go`, `assignment_audit.go`, `logs_client.go` |
| `OpsCommands` | which requests are let through and what each command means: queries, calls of the report service, a method of the controller, or only a reply | `interactions*.go`, `signature.go`, `components.go`, `validate.go` |
| `ReportAdminClient` | calls, 401 and repetition, refresh under the mutex, rotation; also the abstract specification that `MonitorBot` refines | `reportadmin/client.go` |
| `MonitorBot` | the process: start, `/healthz`, interactions as goroutines, the poll as the other user of the report service, restarts; composes the two above | `main.go`, `server.go`, `interactions.go`, `rest.go` |
| `FixedWindowRateLimiter` | the counters, windows and limits of the authentication endpoints | `FixedWindowRateLimiter.kt`, `AuthRateLimitFilter.kt` |
| `Gateway` | requests on their way through toggles, limit and cache, the webhook, Redis and its failures; composes the limiter | `availability/`, `cache/`, parts of `security/` |

`MC*` modules hold the instances for TLC, `*_proofs` the theorems. The incidents
and domains of the `ServiceAlerts` instances stand for rows of a log:
`RowsAssumption` in `MCServiceAlerts` checks that they are what `OpsLog` makes of
these rows, so a change of the classification does not go unnoticed.

### ServiceAlerts and the code

`mem` is `Store.data`, `disk` the file; `Update` is `Store.Update` (memory
changes, then the write may fail, and nobody undoes the change). The poll is one
goroutine, so its program counter and its local variables (`rows`, `found`,
`observed`, `pending`) are plain variables. Every network call is a step of its
own; operators, time and crashes may act between any two steps.

| code | action |
|---|---|
| `PollAlerts`, the switch and channel tests at its start | `Begin` |
| `collectAlertsWithCoverage` | the action of this name: an arbitrary subset of the services within the query budget answers, and the rows come from these |
| `shouldSendAlert`, `sendAlert`, `markAlertSent`, `recordSuppressedAlertEvidence` | `PostAlert`, `sendAlertFails`, `markAlertSent`, `recordSuppressedAlertEvidence` |
| `sendResolvedAlerts`: one snapshot decides what to resolve, then one post and one record per incident | `sendResolvedAlerts`, `resolveLegacy`, `PostResolved`, `PostResolvedFails`, `markResolved`, `EndPoll` |
| `/ops alert` | `SetChannel`, `SetEnabled` |
| crash and `Load` | `Restart` |

A timestamp is represented by its age, counted up to `Cooldown`: the code only
ever compares `now - LastSentAt` with the cooldown, and a zero time counts as
long ago. `notice`, `quiet` and `doubtful` are history: what the channel shows,
how long ago the last alert was, and of which incidents the bot has lost track
(a reply that never came, a restart that forgot a record). Go iterates maps in
no particular order, so `pending` is a set; rows are a sequence because their
order decides which of two rows of one key sends.

### DashboardWatches and the code

Each goroutine that can be inside `RefreshDashboardWatch` is a worker: the loop
and the commands. `pc` and `job` are its program counter and locals.

| code | action |
|---|---|
| the snapshot of `RefreshDashboardWatch`, its early returns and its fall back to the version 1 and environment fields | `Snapshot`, used by `RefreshWatched` and `refreshNext` |
| `EditChannelMessage` and the `Update` after it | `EditChannelMessage`, `EditFails`, `RecordEdit` |
| `SendChannelMessage` and the `Update` after it | `SendChannelMessage`, `SendFails`, `RecordSend` |
| `refreshDueDashboards` | `refreshDueDashboards` (one snapshot), then `refreshNext` per key, in any order |
| `WatchDashboardScope`, `UnwatchDashboardScope` | actions of the same names |
| `Load`, `normalize`, `migrateV2` | `Loaded`, at the start and in `Restart` |

`due` stands for "LastUpdatedAt is zero or the interval has passed". An
entry that is gone by the time a refresh writes its result is re-created, as
Go's zero value of a map entry is. `asked` and `raced` are history: the last
order about a key, and whether it raced with a refresh or was not saved.

### LogFeeds and the code

The loop is one goroutine: `todo` is what is left of its snapshot, `job` the
locals `feed`, `known` and `fresh` of `refreshLogFeed`. Each watch command is a
goroutine; `command` holds what it found and will store.

| code | action |
|---|---|
| `refreshDueLogFeeds`: snapshot, due feeds, query budget | `refreshDueLogFeeds`; Go's map order decides which feeds get the budget, so the choice is free |
| `refreshLogFeed`: query, fresh rows | `QuerySucceeds`, `QueryFails` |
| `formatLogFeedMessage`: ten rows at most, the text cut off at 2000 characters | `formatLogFeedMessage`: the first rows, as many as `Shown` and one of `Fits` allow |
| its `SendChannelMessage` and its `Update` | `SendChannelMessage`, `SendFails`, `Record` |
| `WatchLogFeed`: the query, then the `Update` | `WatchQueries`, `WatchStores` |
| `UnwatchLogFeed` | `UnwatchLogFeed` |

A row is a number, newer rows have larger ones; a fingerprint stands for the row
(rows of one trace share it, and are one row here). The query returns the first
rows of the window in its order, newest or slowest first, up to the limit; the
alert query that mode `errors` uses has a limit of its own (`OwnLimit`), so it
may return more rows than the feed's limit, and only there can the cut at
`feed.Limit` bite. A row is known for a day after it was found and the longest
window is a day, so pruning never makes a row of the window unknown, up to the
1000 fingerprints a feed keeps; the model leaves pruning out. `Fits` is the set
of numbers of rows that a text may hold: how long a row is depends on what was
logged, so each message takes any of them. `told` (shown by the current watch),
`accounted` (shown, or part of a baseline), `cut` (part of a message that did not
show it), `since`, `asked`, `lost`, `raced` and `unsaved` are history.

### AssignmentOps, AssignmentEvents and the code

A poll is one goroutine; `poll` is what it has read so far, `seen` the snapshot
of the store from which `applyAssignmentEventLifecycle` computes, `outbox` what
it is about to send. Both modules model the same poll: `AssignmentOps` with one
step per course and with the commands, for the issues; `AssignmentEvents` with
one step for all calls, and then with the audit query, for the feeds that know
no issues. What the first needs of the second (which sends fail) changes no
issue, and the other way round; the product of the two would be too large to
check.

| code | action |
|---|---|
| `collectAssignmentOps`: courses, assignments, details within the budget | `ListCourses`, `ListAssignments` and their failures; in `AssignmentEvents` `collectAssignmentOps` |
| `applyAssignmentEventLifecycle` | the action of this name reads the store; `IssueStates` and `Notices` are its results |
| `persistAssignmentOps` | the action of this name: issues, snapshots and event times in one `Update`, before anything is sent |
| `upsertAssignmentDashboard`, `sendAssignmentEventNotifications` | actions of the same names |
| `AcknowledgeAssignmentIssue`, `UnacknowledgeAssignmentIssue` | actions of the same names, at any moment |
| `Query` of the audit log: start, results, end | `StartQuery`, `QueryCompletes`, `QueryFails`, `StartQueryFails` |
| `refreshAssignmentAuditEvents`, `persistAssignmentAuditEvent` | `SendAudit`, `SendAuditFails`, `persistAssignmentAuditEvent` per event |

`batch` is the set of rows that the round may still post. The code sends them
oldest first, so the model takes the oldest of the set (`Oldest`); rows of one
request become one message, which the newest of them stands for.

An assignment is a record of the fields that the diagnosis reads; the evidence
hash is the tuple of the fields it is computed from. History: `touched` (changed
by a command or a restart since the last poll), `promised`, `again` and `lost`
(changes that may be sent again, and why), `posts`, `loose`, `missed`, `crowded`.

### MonitorBot, ReportAdminClient, OpsCommands and the code

`main` is the program counter of `main()`; `work[i]` is the goroutine of
interaction `i`, and a command is a record that says what it will do: `op` is
`reply`, `query`, `lookup`, `report` (with the number of its `calls`), or the
method of the controller. The calls are those of `ReportAdminClient`. Queries,
health checks and alarm pages, in any number, are one step, and so is a method of
the controller, since none of them can hold up another request; the deadline may
pass before or after that step, as it may between any two others.

| code | action |
|---|---|
| `get`: the token is read, perhaps refreshed first | `Call` |
| `refreshAccessToken`, which holds `mu` until it returns | `refreshAccessToken`, then `RefreshGranted`, `RefreshDenied` or `RefreshBroken` |
| `doGet` with `applyV2Headers` | `Send`, then `Answered`, `Unauthorized` or `GetBroken` |
| the one repetition after a 401 | `Unauthorized` |
| `main` | `Listen`, `LoadDefaultConfig`, `registerCommandsIfEnabled`, `SetOpsController`, `SetHandler`, `SetInteractionReady`, `StartLoops` |
| `ServeHTTP` and its goroutine | `Deliver`, `executeInteraction`, `StartCall`, `EndCall`, `RunQueries`, `SendFollowUp` |
| the context of the goroutine | `Deadline` |

Tokens are numbered in the order of their issue; 0 is the configured refresh
token. A refresh may or may not rotate the refresh token, and its answer may be
lost after the service granted it. History: `stranded` are clients that cannot
know a live refresh token, `unlucky` callers whose new access token expired
before its use. The commands that change state (`WatchLogFeed` and the others)
appear here as the name of the method, which takes a step on the context of the
interaction: what it does is in its own module.

### Gateway, FixedWindowRateLimiter and the code

Each filter of a request is a step, each Redis command too; `evictBySubjectIndex`
is two (`SMEMBERS`, then one `DEL` of index and members).

| code | action |
|---|---|
| `BackendServiceAvailabilityFilter`, `isEnabled` | `CheckAvailability`, `CheckAvailabilityFails` (then everything passes) |
| `AuthRateLimitFilter`, `AuthRequestBodyCache`, `AuthRequestValidationFilter` | `Limit` with `allow`, `TooLarge`, `validates` |
| `FixedWindowRateLimiter.allow`, synchronized | `allow`; the window is compared with the system clock, which `ClockSetBack` moves |
| `TokenContextCacheService.resolve` | `Get`, `Put`, `Add`, `Expire`, `ContextFails` |
| `evictBySubjectIndex` | `ReadMembers`, `DeleteMembers`, `InvalidationFails` |
| `AdminServiceAvailabilityController.update` | `setEnabled` |

`bucketIndexes` is a parameter: which keys share which counters is left to the
instance, and the theorems hold for all of them. History: `calls`, `total`,
`passed`, `reopened`, `barred` (arrived while its service was disabled), `loose`
(entries that may not be in the index).

## 3. Runs

| run | instance | what it shows |
|---|---|---|
| `service_alerts` | three incidents (a critical one, one of another service, a legacy key), two rows per poll, cooldown 2, one fault | types, agreement of records and channels, cooldown, coverage, refinement of `IncidentNotices`; under fairness of the loop and of time, an incident that stays is alerted again and again and one that is gone becomes inactive |
| `dashboard_watches` | two dashboards, two channels, the loop and one command goroutine, three messages, three commands, two faults | types, the version 1 fields mirror the watch, orders that race with nothing are obeyed for good, what is forgotten stays forgotten |
| `dashboard_watches_live` | one dashboard with an environment default, two commands, one fault | every watch converges to an existing message in its channel |
| `dashboard_unwatch` | no faults | *violation*: `UnwatchedStays` (finding 1) |
| `log_feeds` | one feed with `OwnLimit`, two channels, two rows, limits 1 and 2, messages that show one row or none, two commands, two faults | types, a row is known only with a baseline or a message that was posted, the feed asked for is served, no row twice, only new rows; under fairness of the loop, found rows become known |
| `log_feed_limit` | one feed, two rows, limit 2, one row shown, no faults | *violation*: `NewRowsShown` (finding 4) |
| `assignment_ops` | one assignment with three records it may have, a second course that ends, three moments, one command, one fault | types, acknowledged issues stay silent, refinement of `IssueNotices`; under fairness of the poll, standing issues are on record and gone ones resolved |
| `assignment_ack` | an assignment that never changes, only calls fail | *violation*: `AckSuppressesUntilExpiry` (finding 2) |
| `assignment_events` | one assignment, one count call a poll, cooldown 2, interval 1, polls of up to one tick, window 3, three audit rows of two requests, row limit 2, two faults | types, a change is sent once and repeats are a cooldown apart, an audit event is posted once, and leaves the window unposted only if failed rounds make up for the window |
| `alert_query` | every service, category and detail of an error code, four types of rows | *violation*: `AlertsAreQueried` (finding 3) |
| `monitor_bot` | start, two interactions (one checks an assignment, one is any of six requests), the poll, two clients, two granted refreshes, one fault | types, readiness, the mutex, the session, hidden expiry, refinement of `ClientSpec` |
| `gateway` | two requests of six kinds, three arrivals, three keys on two rows of two counters, one webhook call, two tokens of one subject, two minutes, one fault | types, the limit holds and refuses only a busy minute, a disabled service stays out, entries are found |

**Why the bounds are enough.** For the alerts, one fault is a failed or lost post, a
failed save or a crash; chains of them, such as a lost record followed by a crash,
are left to the theorems of section 5, which hold for every number of faults and
prove each safety property of this run. Two rows a poll give two rows of one key
(the second is suppressed by the record of the first) and rows of two services.
Cooldown 2 separates "just sent", "inside" and "over". Three incidents cover the
three treatments of a key: normal, other service, legacy.

For the dashboards, two of them separate the key `all`, which has the version 1
fields and a fall back, from the others; two channels make "moved" possible; three
commands make watch, unwatch, watch elsewhere possible; two faults suffice for a
failed save followed by a restart. One command goroutine and the loop already give
two refreshes of one key at once. In the liveness run the bound of eight messages
is never reached (commands, faults and races are what causes new messages, and
they are bounded), so it does not block a fair step.

For the log feeds, `OwnLimit` makes the query find more than the limit 1, so that the
limit bites in the refresh; the limit 2 is above the one row that a message shows,
and `Fits = {0, 1}` cuts its text off before that row or not at all. So a row may be
shown, cut off by the limit and found again, or known without being shown. Two
commands give watch and watch again, elsewhere or with another limit, or watch and
unwatch, each before, during and after a refresh; two faults give a lost reply or a
failed save, and then a restart. One feed is enough, since the entries of two meet
only in the snapshot of the loop, which may be stale for one feed just as well; the
budget then always allows it. With a budget below the number of due feeds, only the
random order of Go's maps sees to it that each feed gets its turn, and
`FoundRowsDelivered` would hold with probability one but not in every run. That the
query itself stops at the limit is in `log_feed_limit` and in the theorems, which
hold for every number of feeds, whatever their mode. `log_feed_limit` is finding 4 at
its smallest: one row more than a message shows.

For the assignments, three records give an issue that comes and goes with a
detail (`omitted`), one that comes with publication and one with a missing date;
three moments give before, at and after the end of an acknowledgement; the second
course is what fails while the first is read. One fault is a failed save or a
crash; calls of the report service fail without limit in `AssignmentOps`. In
`AssignmentEvents` two faults are needed for a failed record followed by a crash,
and for two rounds that miss an audit event; three rows are one more than the
row limit, and two of them belong to one request.

`AuditEventsDelivered` relates the window to the rounds. A round that fails
takes an `Interval` and what its poll takes (at most `MaxDelay`), and the first
round after an event may have begun before it; an event may leave the window
unposted once `missed` failed rounds account for the whole window. Here a window
of 3 outlives no failure, and without one no event may be lost: 3 is exactly
`Interval + MaxDelay + MaxDelay`. In the code the window is the interval and five
minutes, between 15 minutes and an hour, so without a failure an event is lost
only if the interval comes close to an hour or polls take minutes.

For the bot, two interactions on one client and the poll on the other are the
shortest way to two callers that share a client while another client rotates the
token they started from; two refreshes let a token be exchanged twice. The
requests of the first interaction cover each way through `executeInteraction`
(report calls, a command of the controller, queries, a look-up) and two refusals:
one that is a second too old, one without the role.

For the gateway, the three keys share counters in both rows in such a way that
one of them shares each of its counters with another; `refresh` and `logout` share
a key, as in the code; `IntMax` is 2 so that saturation happens, and the limits
are 1 and 0. Two requests fill the cache at once; the webhook reads before, between
and after their commands; `Ttl` 2 makes the index outlive the first entry.

`CHECK_DEADLOCK FALSE` is set where all commands, arrivals or the time of an
instance may be used up and nothing happens then: dashboards, log feeds,
assignment events, bot and gateway.

**Fairness.** `alertLoop`, `dashboardLoop`, `logFeedLoop` and `assignmentOpsLoop`
run until the process ends and wait on a timer between rounds; every HTTP call of
a poll and of a refresh has the HTTP client's timeout, and queries have the query
timeout. So a poll step that is possible is eventually taken (`WF(PollStep)`),
each worker's refresh goes on (`WF(RefreshStep(w))`), the loop comes back to its
list (`WF(LoopStep)`), and time passes (`WF(Tick)`, `WF(IntervalElapses(k))`); the
log feeds have the same. There is no fairness on commands, on calls, queries or
posts that succeed, or on faults. `PersistentIncidentsAlert`,
`GoneIncidentsResolve`, `StandingIssuesRecorded` and `GoneIssuesResolved` name
what they need of the environment in their own premises (for instance that polls
keep finding the issue and from some point on never read its assignment without
it).

The bot and the gateway have no liveness property: each of their requests ends by a
timeout, except that a wait for the mutex of a client heeds none, and ends because
whoever holds the mutex is in a request that ends by its timeout
(`MutexHeldByRefresh`).

## 4. Findings

1. *Unwatch during a refresh.* The refresh writes its result whether or not the
   entry still exists, so the watch that the reply called stopped comes back and
   keeps being refreshed. `UnracedOrdersObeyed` states what does hold.
2. *An acknowledgement and a failed detail.* `collectAssignmentOps` ignores a
   detail call that fails and judges the assignment from its summary. An issue
   that only the detail shows is then resolved although it is acknowledged, and
   the next poll announces it as reopened, before the acknowledgement expires.
   `MutedStaysMuted` and `KeepsPromise` state what does hold.
3. *Alerts that no query returns.* `DecideV2Alert` alerts some rows by their code
   alone (34801, 44801, 54801, 64801 and others); the alert query filters by
   digits of the code that these do not have, so with a status below 500 they are
   never seen.
4. *Rows that a message leaves out.* A refresh marks all its fresh rows as known,
   up to the limit of the watch, which may be 20. The message shows ten of them at
   most, and fewer if its text would pass 2000 characters. The rest is never sent,
   although the reply to the watch says that new rows are. `NothingSwallowed`
   states what does hold: the rest was part of a message that was posted, and no
   failure, race or restart makes a row known in another way.

**Known limits of the code** that the models contain, or exclude by a named
premise, without a run of their own:

- An incident that one poll misses is resolved and the next poll alerts it at
  once, within the cooldown (`README.md:95` of the repository promises less
  repetition). `CooldownRespected` speaks of incidents that stay open.
- A key whose domain `NormalizeService` does not know (the auth log group yields
  `user`) counts as looked for even if its query failed; `ResolvedMeansLookedFor`
  assumes that keys name the service of their log group.
- "Delivered" in `FoundRowsDelivered` means known: a row that its message left out
  (finding 4) counts.
- Nothing keeps the work of a command shorter than its deadline. The deadline is
  five query timeouts and eight seconds (`interactions.go:266-275`), but the pages of
  alarms (`interactions_dashboard.go:121`) have no timeout of their own, one call
  of the report service may make four requests (refresh, `GET`, refresh, `GET`) and
  wait for the mutex besides, and a watch command queries and refreshes on the same
  context. So no property says that a command fits its deadline. One whose time is over
  is answered by nothing; that it leaves the client usable, and the mutex returned,
  is `UsesClient` and `MutexHeldByRefresh`.
- The baseline of a feed sorted by latency holds the slowest rows only, so older
  rows may move up and be posted; `OnlyNewRows` leaves these feeds (`ByLatency`) out.
- A log-feed refresh in flight during a watch stores the known rows of the old
  entry over the new baseline; `NoRowTwice` and `OnlyNewRows` leave such feeds
  (`raced`) out, `ServedAsAsked` does not.
- A watch whose save failed is in memory but not in the file, and a restart brings
  the old entry and its old baseline back; `OnlyNewRows` and `ServedAsAsked` leave
  such feeds (`unsaved`) out.
- A submission count that is not read, by failure or by budget, is stored as 0 and
  looks like a completed grading in the next poll: `again` in `ChangesSentOnce`.
- A change or an issue is recorded before its message, so a message that Discord
  refuses is not repeated. The loop never resends it by itself.
- After AWS fails to configure, `main` does not try again and `/interactions`
  answers 503 until a restart; `/healthz` says so (`HealthyMeansUsable`).
- Two bots' worth of clients share one configured refresh token (`stranded` in
  `HoldsLiveToken`): if the auth service rotates it, one client loses its session,
  and so does the bot after a restart.
- An entry of the token cache that was indexed between the two steps of an
  invalidation keeps no index and is served until it expires (`loose` in
  `EntriesAreFound`); a webhook whose Redis commands fail answers as if there had
  been nothing to delete.
- A clock that is set back within a minute starts its count anew (`reopened`), and
  the counters are those of one process.

## 5. Theorems

`ServiceAlerts_proofs` proves, for every set of incidents and services, every
cooldown, every number of rows and of faults:

- `InductiveInvariant`: `Inductive == TypeOK /\ PollConsistent /\
  RecordMatchesNotices` holds always. None of the three is inductive alone:
  `RecordMatchesNotices` excuses the posted but unrecorded message, so the step
  that records it needs to know that this message is the last one the channel
  shows, and that what is about to be resolved is active (`PollConsistent`);
  `PollConsistent` needs that rows are incidents (`TypeOK`).
- `TypeCorrect`, `PollIsConsistent`, `RecordsAgree`: its three parts.
- `CooldownHolds`: from `RecordMatchesNotices` (the recorded age of an open
  alert is at most its real age), `shouldSendAlert` implies that the cooldown is
  over, and only the two steps that call `sendAlert` post.
- `ResolvedMeansLookedFor`: assumes `Domain = Source`, i.e. every key names the
  service whose log group holds the incident; without this it is false
  (see the known limits).
- `LoopKeepsPromise`: every step of the loop is a step of `IncidentNotices` or
  leaves its variables alone.

The assumptions are those of the module: the sets are subsets of what they
should be (`SetsAssumption`), `Source` and `Domain` are total and `Unmapped` is
no service (`DomainAssumption`), and the numbers are numbers, with a cooldown of
at least one tick (`NumbersAssumption`; `alertCooldown` replaces a cooldown that
is not positive by the default).

`DashboardWatches_proofs` proves, for every set of dashboards, channels and
command goroutines and every bound:

- `InductiveInvariant`: `Inductive == TypeOK /\ JobsHaveChannels /\
  LegacyMirrorsAll /\ DiskMirrors`. `TypeOK` alone is not inductive: a refresh
  writes the channel of its job into the store, so jobs past their snapshot must
  have one (`JobsHaveChannels`); a restart loads the file, so the file must be
  consistent or a version 1 file (`DiskMirrors`); and the fall back of `all` must
  not find a channel after an unwatch (`LegacyMirrorsAll`).
- `TypeCorrect`, `LegacyFieldsMirror`: two of its parts.
- `OrdersAreObeyed`: needs in addition `JobsObeyOrders`, that a refresh in
  flight with which no order raced is about to write the channel asked for. This
  is exactly what a race breaks (finding 1), and why the property is stated for
  the keys outside `raced`.
- `ForgottenIsForgotten`: step by step, from `Inductive`.

Assumptions: `NamesAssumption` (names are distinct), `BoundsAssumption` (the
bounds are natural numbers, with at least one message), `NoWatchAssumption` (the
absence of an entry is no entry).

`LogFeeds_proofs` proves, for every set of feeds, channels and command goroutines,
every budget and every bound:

- `TypeCorrect`.
- `ServedIsAsked`: from `Served`, the same statement about memory and file, since
  a restart loads the file. It needs no exception for races: `refreshLogFeed`
  writes fields of the entry it finds, where the dashboard refresh writes the
  channel it started with.
- `NothingIsSwallowed`, for every limit, `Shown` and `Fits`: from `Accounted`,
  which follows known rows through the snapshot, the refresh in progress, memory
  and file. A known row is `Credited`: shown, part of a baseline, or part of a
  message that did not show it. Between the query and the post the fresh rows are
  none of these, and the refresh keeps them apart until the post succeeds.
- `RowsShownOnce` (`NoRowTwice`): from `Remembered`, which follows the rows that
  were shown through the same places. A message whose `Update` is still to come
  is the one place where the entry does not know a shown row yet; a restart or a
  failed save there makes the row `lost`, which the property grants.
- `OnlyNewRowsPosted` (`OnlyNewRows`): from `BaselineKept`. That a row logged
  before the watch is not posted does not mean that it is known: the query of the
  watch has a limit, so older rows stay out of the baseline, and they must stay out
  of every later query too. `Covers` says so: an old row is known, or at least as
  many newer old rows as the query returns are known (rows only leave the window
  from its old end). This must hold of the entry, of its file, of the snapshot of
  the loop, and of what a watch command is about to store (`CommandCovers`); a
  query of the alert kind returns everything, and for it all old rows are known
  (`OwnLimit`).

Assumptions: `NamesAssumption`, `LatencyAssumption`, `NumbersAssumption` (limits,
the shown rows and the budget are positive, as the code's defaults make them; a
text holds some number of rows, perhaps none),
`SentinelsAssumption`.

`AssignmentOps_proofs` proves, for every finite set of assignments, all courses,
variants, budgets, commands and faults:

- `InductiveInvariant`: `Inductive == Typed /\ RecordsAnnounced /\
  SnapshotCurrent /\ OutboxOpen`. `MutedStaysMuted` is not inductive: that a
  notice is not about an acknowledged issue follows from the poll having stored the
  issue as open (`OutboxOpen`).
- `TypeCorrect`, `MutedIssuesStayMuted`.
- `WatchKeepsPromise`: every step is a step of `IssueNotices` or leaves its
  variables alone. The one step with something to show is `persistAssignmentOps`,
  which decides on a snapshot: outside `touched` this is the current store
  (`SnapshotCurrent`), and a record that counts as announced has its severity and
  its evidence (`RecordsAnnounced`), so that a raised severity, a resolved or an
  expired record was not shown as open (`AnnouncedIsNews`), and what is not
  announced shows the old evidence or nothing (`UnannouncedIsOld`).

Assumptions: `SetsAssumption` (what the service lists is finite, a course lists
its own assignments, `Absent` is no snapshot) and `NumbersAssumption`.

`AssignmentEvents_proofs` proves, for every set of assignments and their variants,
every timing, and every number of rows and of faults:

- `TypeCorrect`, from `Typed`.
- `AuditPostedOnceCorrect`: from `AuditKnown`. What was posted is known to the
  store, or is the row that is just being recorded, unless its record was lost; and
  the rows of a round are unknown and of different requests, so that recording one
  makes no other of them a repetition.
- `AuditEventsDeliveredCorrect`: from `Rounds`, a deadline for every row: it is
  posted, crowded out or excused, or the round at hand is about it, or the next
  round starts early enough to find it in its window. A round that fails moves the
  deadline by one period and counts as missed, which moves the excuse as far.
- `CooldownBetweenChangesCorrect`: from `Recorded`. A change that was sent has an
  event time in the store that is not before it was sent, unless that was lost.
- `ChangesSentOnceCorrect`: from `Settled`. A change is sent because two snapshots
  differ by it. `Compared` says that the difference between the stored snapshot
  and what the service now shows holds no change that was sent already; it stays
  so because a poll that read everything stores what the service showed
  (`PollReads`), and because the snapshot stored with a change shows it, so that a
  difference from that snapshot cannot be the same change (`OutboxShown`).

Assumption: `EventsAssumption` (variants are assignments, `Absent` is no snapshot,
`TraceOf` is a finite sequence, the numbers are natural, the interval is positive,
and the least window is at most the largest).

`ReportAdminClient_proofs` proves, for every set of clients and callers and every
number of tokens and faults, of `ClientSpec`:

- `ClientTypeCorrect`, `MutexIsReturned`, `RefreshesInTurn`, `SessionIsKept`,
  `ExpiryStaysHidden`, from `ClientInv == ClientTypeOK /\ Locked /\ HoldsLiveToken
  /\ Fresh /\ ExpiryIsHidden`. `Locked` says in both directions that the mutex is
  held exactly by a caller that refreshes, and that it presents what its client
  holds; `HoldsLiveToken` needs this, since a second caller must not bring a spent
  token. `ExpiryIsHidden` alone is not inductive, because the 401 that returns to
  the caller is decided by a token that it read steps earlier, perhaps one that
  another caller brought: `Fresh` follows that token.

`MonitorBot_proofs` proves, for every set of interactions, requests and
configurations:

- `BotRefinesClient`: every step of the bot is a step of `ClientSpec` or leaves
  the client alone; so `BotKeepsClientPromises`.
- `HealthIsTrue` and `ControllerFirst`, from an invariant that ties the program
  counter of `main` to the handler, its controller and the flags.
- `BotTypeCorrect`: from `BotTypes`. The work of an interaction is one of `Plans`,
  a set that does not depend on the request: `ExecuteIsPlan` goes through every
  command and option of `executeInteraction` and bounds its calls by nine, those of
  the overview of eight courses.

`Gateway_proofs` proves, for every set of keys, every assignment of keys to
counters, all limits, toggles, tokens, and bounds:

- `GatewayInvariant`: `GatewayInv`, the conjunction of `LimiterInv` (a counter is
  at least the calls in this window of each key that maps to it, or saturated, and
  at most all calls of the window; what passed in its minute is at most the calls
  of the key), `RequestInv` (where a request is fits what it is, and a barred one
  is refused or about to read that its service is off) and `CacheInv` (entries
  expire within a `Ttl`, so an index that was renewed outlives them; types of what
  the webhook holds).
- `TypeCorrect`, `LimitHolds`, `RefusalsAreBusy`, `DisabledStaysOut`,
  `InvalidationFindsEntries`. `AllowedWithinLimit` does not mention the counters,
  so it is far from inductive; `RaiseBounds` shows that raising only the least
  counters keeps both bounds.

Assumptions: `ClientAssumption`, `BotAssumption`, `CoursesAssumption`,
`LimiterAssumption` (limits below `Int.MAX_VALUE`) and `GatewayAssumption`.

Every invariant, action property and refinement of a passing run has a theorem.
Only model-checked are the six liveness properties
(`PersistentIncidentsAlert`, `GoneIncidentsResolve`, `WatchesConverge`,
`FoundRowsDelivered`, `StandingIssuesRecorded`, `GoneIssuesResolved`), because
liveness under fairness is outside what the proof system handles.

## 6. Not modelled

In the modelled components:

- Wording, layout, buttons, mentions, trace lists and the evidence that
  `recordSuppressedAlertEvidence` adds to a record: they decide nothing.
- `CooldownSec` in the state: the cooldown is a constant of an instance.
- The refreshed interval of a dashboard watch: `due` becomes true at any time.
- An unreadable or corrupt state file: `Load` succeeds in these modules. The bot
  only logs the failure and starts empty (`main.go:90`).
- Pruning of old records in the store: it only drops what no window can see.
- Two processes on one state file: the deployment runs one.
- How long queries, checks and calls take: a deadline may pass at any moment.
- How a key is hashed to its counters, the tokens and payloads of the cache, what
  a valid body is.
- A `DEL` of more keys than one command takes, and one that fails in part.

Components that are not modelled at all, and why:

- *Message formatting*: wording; no decision and no state depends on it.
- *Gateway request policy*: a pure function of method and path over constant lists.
- *Token validation and identity headers*: stateless checks of one request.
- *Gateway logging and error responses*: formatting, no shared state.

Partly modelled are the components whose remaining code is I/O or a payload: the
store's pruning and backup, Discord's REST payloads, CloudWatch alarms, retention
and query texts, health probes, the parsing of the environment, and what read-only
commands show. `PROJECT.json` says for each what is left.

## 7. Plan

1. `OpsLog`: what `DecideV2Alert` and the alert query agree on, as a lemma for every
   status and code (finding 3 is where they do not).
2. `ResolvedMeansLookedFor` under a weaker premise: for keys of mapped domains only.
3. The store with an unreadable file and its pruning, if the code around it changes.
