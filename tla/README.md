# The status page, specified

TLA+ models of `status_service`, the external status page of YourBot, with the
TLC runs that check them and the TLAPS proofs about them. Paths below are
relative to `src/src/status_service/` unless they start with `src/`.

- [The system](#the-system)
- [Modules](#modules)
- [Runs, bounds and what they show](#runs-bounds-and-what-they-show)
- [Where code and documentation disagree](#where-code-and-documentation-disagree)
- [Proofs](#proofs)
- [What is not modelled, and the plan](#what-is-not-modelled-and-the-plan)

## The system

One process (FastAPI on one asyncio loop) over one SQLite database. Two tasks
run beside the request handlers: the probe cycle (`scheduler.py`, once a minute)
and the live test (its own loop). Database calls are synchronous, so code
between two `await`s is atomic towards the other tasks; but every statement
commits on its own (`isolation_level=None`), so it is *not* atomic towards a
crash or an exception. Only a release event and `remeasure --apply` use a
transaction. `remeasure` is a second process on the same database.

| Component | State | Operations | Talks to | Hard because |
|---|---|---|---|---|
| Releases (`ingest.py` 243-409, `POST /ingest/release`) | table `releases`, memory of signatures in `meta_kv` | start, finish; notice on the page, windows for incident labels | deploy machines → it; page, incident list, alert board ← it | two senders with different clocks, replays, pipelines that die |
| Website check and verdict (`scheduler.py` 214-275, 474-512, `probes/http.py`, `probes/monitor.py`) | local to a cycle | attempts, vote, control check | reads vantage reports; its row goes to the roll-up | the world moves between the awaits; one's own connection fails |
| Vantage reports (`ingest.py` 158-240, `src/deploy/vantage-worker`) | `meta_kv`, one report per place | store, read the fresh ones | voted on by the cycle | late, repeated, reordered reports, foreign clocks |
| Incident roll-up (`aggregator.py` 803-899, `scheduler.py` 395-425) | `probe_results`, `incidents`, `_last_prune_day` | persist, open, close, close cold, prune | fed by the cycle; read by page, alerter, feed | cycles that stop half-way; start looked for in the past |
| Reset (`db.py` 305-321) | seven tables | wipe | admin panel | seven statements, no transaction |
| Platform report and shards (`scheduler.py` 198-212, 277-331, 427-462, `probes/proxy.py`) | held report, `shard_snapshot` | fetch, receive, merge, mark unknown | cycle → roll-up | two roads to one report, services that come and go |
| Live test (`probes/live_test.py`) | `meta_kv` latest result, webhook that answered | post, poll, confirm, remember | Discord; read by the cycle | two loops, late answers, "never answered yet" |
| Events and explanations (`aggregator.py` 473-617, `routes/admin_ui.py` 284-318, `routes/admin.py` 207-233) | `incidents.cause`, `cause_at` | group incidents into events; write and withdraw an explanation for an event or a row | page, history, feed, panel | the list is made anew for every reader while its rows change |
| Uptime figures (`aggregator.py` 311-470, 902-931, `snapshot.py` 67-123) | `daily_uptime` | roll up a day, sum windows, weakest check, bars, figure over all | page, API, SLA alert | pruned raw data, day boundaries, rounding |
| Remeasure (`remeasure.py`) | corrects `probe_results`, `daily_uptime`, `incidents` | analyze, apply | other process | stale plan, repeated runs |
| Headline and components (`aggregator.py` 40-283, `components.py`) | none | current status of every check, of every component, overall status | page, badge, alerter | partial knowledge, rows that go stale at different times |
| Alerter (`alerter.py`) | message ids and last state in `meta_kv`, `alert_state` | board, ping, stream alerts, daily warnings | Discord | lost answers, crashes between send and store |
| Announcements and subscribers (`routes/admin*.py`, `subscribers.py`) | `announcements`, `webhook_subscribers` | announce, update, resolve, edit, cancel, expire; subscribe, unsubscribe, broadcast | Discord | the table changes while a broadcast waits |
| Admin accounts (`admin_auth.py`, `routes/admin_ui.py`) | `admin_users` | set up, log in, lock, reset, delete | – | expiring links, one-time codes |
| Page snapshot and caches (`snapshot.py`, `routes/ui.py`) | two in-memory caches | build, clear | – | a cache over a cache |
| DNS, certificate and Discord probes; configuration; rate limiter; templates | – | – | – | single requests and presentation |

What makes each component correct, in a line: releases follow one another and
are announced exactly while they go out; the site is called down when, and only
when, most of the places that looked could not reach it; a confirmed outage is
in an incident and good news is in none; nothing not measured is counted; the
alerter says a thing once; silence of the live test is an outage only where the
bot has answered before; a subscriber is removed only on evidence about its own
webhook; running the correction twice is running it once; the verdict, the list
under it, the bars and the figures tell one story; a one-time code serves once.

`PROJECT.json` lists every hazard with its line and the properties that cover it.

## Modules

Every model of a component has its variables, `Init`, one action per handler or
step, `Next` and `Spec`; an `MC` module that gives the constants small values;
and a module of proofs. Operators named `Faulty...`, `Hasty...`, `Deaf...` or `Careless...` are
plausible mistakes in the definition they precede. No model uses them: they are
there to see that a property would notice the mistake.

### `Releases`, `ReleaseNotice`

`releases` is the table, `seen` the signatures in `meta_kv`; `accepted` and
`visit` are history variables (the requests accepted, and a moment at which a
visitor was shown a release). A request is its fields, since equal timestamp and
body give an equal signature. `Deliver` is one accepted request: the window of
`verify`, `_refuse_a_repeat`, and `StartRelease` or `FinishRelease`, together,
because the code runs them in one `BEGIN IMMEDIATE` transaction. A refused
request rolls back and is no step. There is no network variable: any request
some machine could have signed by now may arrive at any time, any number of
times or never, which is delay, loss, reordering and replay at once. `Ahead`
bounds how far a sender's clock runs before ours; how far behind does not need a
bound, since the window refuses what is too old. `Current`, `Windows` and
`ReleaseAt` are the readers `current_release`, `release_windows`, `release_at`.

`ReleaseNotice` is the abstract specification: one notice, put up by an
announcement, only ever extended for the release it names, replaced by another
release, withdrawn at the finish, and down by itself when its time has run out.
`Releases` implements it with `shown` and `until` read off `Current`.

### `SiteVerdict`

`world` records for every time so far who could reach the site and whether our
own connection worked, so that a property can compare a verdict with what was
true when each place looked. The cycle is cut at its awaits: `Attempt` (one
request of `probe_readiness`), `Vote` (read the fresh reports and
`site_consensus`, no await in between), `AskControls` (`monitor_online`),
`FinishCycle`; `Crash` drops everything but `held`, which is in the database.
`Receive` is `store_vantage_report` behind `verify`, for a check made at any
earlier time and signed with a clock up to `Skew` wrong. `Tick` may happen
between any two steps. "up" stands for operational and degraded, which the code
treats alike here.

### `Incidents`

One cycle's synchronous end: `Persist` stores one row per reported service (a
service may be missing from a report, and a crash between two inserts looks the
same), `RollUp(s)` is `_update_incidents` coming to `s` (`Opens`, `Recovers`,
`GoesCold` or `LeftAlone`, the two loops in their order), `FinishCycle` ends
with `_prune_if_due`. `StopCycle` is an exception `run_forever` logs before it
goes on, or a crash with restart; `lost` remembers which rows no roll-up saw as
their own cycle's. `Reset` may stop after the first of the two tables modelled.

`Incidents` takes any result for any service, so it covers whatever
`SiteVerdict` and the other probes store; the two need no shared variables.

### `IncidentTable`

The abstract specification of the table `incidents`, which is what the page, the
feed and the panel read: a service is in one incident at a time, an incident begins
at most `OpensBack` before it is opened and ends once, at any moment between its
start and now, rows may be deleted, ids are not used again. `Incidents` implements
it (`ImplementsTable`), with the rows by their ids (`ById`) and the age of the
oldest usable row as `OpensBack`; `IncidentEvents` takes it as the world it reads.
What a correction deletes (`Remeasure`) is a `Remove` as well.

### `PlatformReport`

The second half of the cycle: `held` is the report last sent to us, `latest` the
newest row of each service, `snapshot` the shards as last listed. The cycle is
again cut at its awaits. `StartCycle` reads the services to answer for
(`_expected_proxy_services`), `CheckSite` has the website's verdict, derives
Database and Cache from `/readiness` and looks at the sent report,
`FetchStatus` and `FetchShards` are the two requests, `TakePlatform` decides what
to believe and writes the snapshot, `FinishCycle` merges and stores the rows.
`StopCycle` is an exception or a restart, and may fall between the statements
that write the snapshot. `Receive` is `store_platform_report` behind `verify`.

The website's verdict is any that `SiteVerdict` allows (`PossibleSites`), with
what our own request saw beside it, because the code asks the one in some places
and the other in others. In a row or a report, `made` is when the platform spoke
and `asked` when the cycle began; both are history, no code reads them. A step
that uses a value for the last time also forgets it, and nothing happens after
the last cycle (`Running`); both only keep the states few.

### `Alerter`

One action per request and per stretch of code between two requests. In board
style `StartBoard` reads the page (any of `Views`; `overall_status` says "outage"
of some), `EditBoard` and `CreateBoard` are the two requests of
`_board_send_or_edit`, `OutagePing` is the part of `_outage_ping` before its
request, `SendPing` and `CleanPing` the requests. An answer is "accepted",
"refused" (any error, or nothing reached Discord), "lost" (done, but not answered)
or, for an edit, "gone". In stream style `StartStream` reads everything the two
loops decide on, so the alarms and recoveries of an evaluation are fixed there;
`TellAlarm` and `TellRecovery` send one each and record it. `Stop` is an exception
(memory kept) or a restart (memory lost) at any point; `Delete` is a person
deleting a message. `channel` and `posted` are Discord's; `unsure`, `stray`,
`rung`, `rounds` and `said` are history. Incidents come and go between two
evaluations as `IncidentTable` says they do, opened and closed up to `Back` late. The two styles share a specification
because they share `evaluate`; a behaviour has one of them. The ping is modelled
with a mention configured.

### `LiveTest`

Two loops: the test's own (`RunStep`: `Start`, `Posted` or `NotPosted`, `Ask`,
`NothingSeen`, `Seen`, `Gone`, `ReadsOver`, `DeleteOver`, one per request and
answer of `attempt_once`) and the prober's cycle, of which only the reader
`LiveTestResult` (`_live_test_result`) matters. `React` is the bot. Time is in
ticks, and no variable holds a moment: `timer` is the time in the present phase,
`elapsed` since the run began, `latest.age` the age of the result. A request
takes any time up to its timeout (`MayPass`), so a run can be as long as the
code lets it. `remember` is two statements: `CrashInRemember` falls between them.
`Restart` may come with another webhook. `via` and `proven` are history: the
webhook a result came through, and those the bot has ever answered through.

### `Subscribers`, `Announcements`

`Subscribers` is the table of webhooks, `tests` the test messages and
`deliveries` the messages of broadcasts whose answers are awaited. `Broadcast`
reads the list once; `Send` takes one of the slots of the semaphore; the answer is
applied by url (`Delivered`, `Dead`, `Failed`), that of a test message by token
(`Dropped`). The two statements of `_bump_failures` may be cut (`CrashInBump`).
`refusals` is history: what Discord said of a webhook.

`Announcements` composes it with the table of announcements: every operation of
`admin.py` and of the panel's forms stores first and then takes the step
`Broadcast` of `Subscribers`; `Cycle` is `expire_ended_maintenance`, which the
prober calls. `CrashInUpdate` and `Crash` stop between statements and lose what
was in memory. Of the updates of an announcement only `told` is kept: whether
one says that it is resolved.

### `Remeasure`

A day of cycles of the prober that measured by other rules and the next one, of
the present one; `history` is what the old one met, and is what the properties
compare with. `Plan` is `analyze`, outside of any transaction, `Apply`
is the transaction, `Drop` a dry run or a process that dies; `Cycle` and `Prune`
are the prober's, in between and beside. `Verdict`, `Flanked`, `Recounted`,
`Adjusted` and `Unsupported` are the rules for one failed check, one day and one
incident. `FirstFullDay` takes the oldest day as complete when a row of its first
three minutes is left (`Margin`, `remeasure.py` 216), whether or not the checks
before that row are; `Lost` are the checks that may be missing then. `Explain` and `Retract` are the panel's form, beside all of it. `done` is
history, as is `late`: the incidents explained while a correction that removes
them was waiting.

### `AdminAccounts`

No handler awaits anything between its first read and its last write, so each is
one step. A unit of time is one step of the one-time codes. Passwords, links
and secrets are what can be done with them. `accepted` and `wrong` are history:
the codes an account's present secret was used with, and its wrong attempts.

### `Headline`, `Catalogue`

`latest` is the newest row of each service with its age, `ever` the optional
services with a row in `daily_uptime`. `Store`, `RollUp`, `Reset` and `Tick`
change them in any order, which covers cycles that crash half-way. The rest are
the readers: `Status` and `Shown` (`latest_per_service`), `Overall`
(`overall_status`), `Silent` (`silent_core_components`), `RollupOf` (`_rollup`).
`quiet` is history: how long ago any row was stored.

`Catalogue` is `components.py` as it stands. `Headline` does not depend on it:
it has assumptions on whatever catalogue it is given (`CatalogueFits`), among
them that a diagnostic of a core component has a check beside it that is always
shown. TLC evaluates that for the whole catalogue, shards and unknown services
included (`WholeCatalogueFits` in `MCPage`).

### `IncidentEvents`

The incidents are any that `IncidentTable` allows: a step of the table (`TableStep`)
leaves the explanations of the rows that stay and takes those of deleted rows with
them. `Clusters` is the sweep of `incident_events`, `TimeDown`
`_union_seconds`, `Events` what is listed. `Explain` and `Retract` are the form
for an event, which looks the event up when it is sent, `ExplainRow` and
`RetractRow` those for one row. `explained` is history: the newest explanation
written for an event that the incident was in.

### `Uptime`

`days` is `daily_uptime`, a day at a time, the last one today's; `live` is what the
raw checks of today say (`_live_uptime_for_day`); `recent` are the checks with a row
of the last four hours, where that decides whether a check is listed. `StoreChecks`
stores rows, `RollUpToday` is the roll-up, `Midnight` the date that changes (a cycle
may have stopped between its rows and its roll-up, and the day's last rows are then
never counted), `Correct` what `remeasure` does to today, `NoVerdict` and
`FallSilent` let checks come and go. What a correction does to earlier days leaves
rows that such a day might have had from the start.

Figures and bars are computed apart, as in the code. A figure (`Uptime`) is that of
the weakest check among those *listed at the moment* (`OnPage`, `latest_per_service`:
the catalogue's, optional ones once they have a daily row, all others while they have
a recent one), from the rolled-up rows, and Other has one as well. A bar (`Cell`) is
that of the weakest of *all* checks with rows on that day, today's counted live
(`Today`), and only components of `GROUPS` have any.

`Rounded` is `round()` with its ties, `Pct` `_pct`, `Weakest` `_group_window`, `Text`
and `Floored` `fmt_pct` and `fmt_pct_value`, `Mean` and `OverallText` the figure over
all, `Bar` a cell of `_timeline_cells`. Shares are integers: thousandths of a percent
as rounded by the code. Binary fractions may put a printed figure a hundredth lower.
`UptimeAssumption` says how many checks a window may hold.

### `Page`

The three modules about the page read different tables and share nothing that
changes, so one specification has them all: a behaviour is about the present, the
history or the figures.

## Runs, bounds and what they show

| Run | Module, configuration | States | Checks |
|---|---|---|---|
| `releases` | `MCReleases`, `MCReleases.cfg` | 1.2 M | `ReleasesInSequence`, `AcceptedOnce`, `NoticeInWindows`, `LabelsOnlySharpen`, `ImplementsNotice` |
| `incidents` | `MCIncidents`, `MCIncidents.cfg` | 2.8 M | `IncidentsInSequence`, `OutagesRecorded`, `IncidentsHonest`, `OpenRestsOnEvidence`, `ImplementsTable` |
| `site` | `MCSiteVerdict`, `MCSiteVerdict.cfg` | 0.5 M | `OutageIsReal`, `OutageIsSeen`, `OwnFaultIsNoOutage` |
| `platform` | `MCPlatformReport`, `MCPlatformReport.cfg` | 2.1 M | `VerdictsAreRecent`, `NothingLeftShowing`, `PushedInOrder` |
| `alerter` | `MCAlerter`, `MCAlerter.cfg` | 3.4 M | `BoardTells`, `ChannelKept`, `RungOnce`, `RecoveriesInTurn`, `OpenIsAlarmed` |
| `announcements` | `MCAnnouncements`, `MCAnnouncements.cfg` | 0.2 M | `TypeOK`, `PrunedOnEvidence`, `ResolvedIsFinal`, `WindowsEnd`, `BroadcastsEnd` |
| `live_test` | `MCLiveTest`, `MCLiveTest.cfg` | 1.0 M | `ResultsNeverLapse`, `DownIsProven`, `RunsEnd` |
| `remeasure` | `MCRemeasure`, `MCRemeasure.cfg` | 0.5 M | `TypeOK`, `WhatReachedUsStands`, `OldDaysExact`, `NothingLeftToDo` |
| `accounts` | `MCAdminAccounts`, `MCAdminAccounts.cfg` | 0.9 M | `AttemptsGuarded` |
| `page` | `MCPage`, `MCPage.cfg` | 0.1 M | `HeadlineAgrees`, `AllGoodIsMeasured`, `StoppedIsNoData`, `EventsHangTogether`, `ExplanationsKept`, `BarsMatchFigures` |
| `alerter_repeat` | `MCAlerter`, `MCAlerterRepeat.cfg` | – | `RecoveryOnce`, violated |
| `uptime_overall` | `MCUptime`, `MCUptimeOverall.cfg` | – | `OverallHonest`, violated |

The type invariants of the first five, of `LiveTest`, of `AdminAccounts` and of
`Page` are proved and not run; those that are run are proved as well.

Further configurations are kept beside these and are run by hand
(`tlc -config X.cfg M`). One passes: `MCSiteDelays.cfg` (5.1 M states) is `site` with
one other place, five instants, a clock that differs and reports that are held and go
stale. The others end in the counterexamples described in the next section:
`MCReleasesFastClock.cfg`, `MCIncidentsCold.cfg`, `MCSiteOffline.cfg`,
`MCPlatformShards.cfg`, `MCRemeasureAgain.cfg`, `MCRemeasureMidnight.cfg`,
`MCUptimeSilent.cfg`, `MCLiveTestMoved.cfg` and `MCAnnouncementsSilence.cfg`.

*releases.* Two versions (a release and the one that replaces it), three accepted
events, five units of time, notices of 1 to 3 units, a window and a slack of one
unit each. A notice can run out, be extended, be replaced and overrun within a
run, and a request can be delivered again after its memory has been cut. The two
versions are symmetric. `expected_minutes` is missing, below or above its bounds;
the values between add nothing, being results of the clamp already.

*incidents.* Services never read each other's rows and the order within a loop
does not matter between them, so one service covers the histories. Six cycles
with windows of 2, 2, 3 and 4 (10 minutes, 30 minutes, 4 hours, 30 days, in the
same order) let every window run out, a prune fall inside an outage, and a second
incident start near the end of the first.

*site.* With two other places one can be outvoted, and the lists of votes 0 to 3
of 3 all occur; three instants, two attempts. A report may be measured one
instant before it arrives, arrive twice or after a newer one, and votes in the
instant it arrives. One cycle is enough, as a cycle hands nothing to the next but
`held`, which starts arbitrary as far as reports can make it. In this run a report
counts only in the instant it came (`Fresh` 0). Held reports and foreign clocks are in
`MCSiteDelays.cfg` and in the proofs, which have any; so that a held report is taken
for a working connection (`scheduler.py` 258) is what `MCSiteDelays.cfg` and the
theorem `OwnFault` are about, not this run.

*platform.* One service that is always reported, one that comes and goes, one
that `/readiness` reports as well, two shards (the least that are listed one by
one) or one. Two bodies, two lists and two sent reports make a service appear,
disappear, change and disagree between the roads. Two cycles, because a property
compares a row with the one before it; three instants, with a report usable only
at the instant it came (`Fresh` 0), signed up to one instant away, and rows shown
and looked for one instant long, so that each of the four ages is exceeded in
some behaviour. The platform's clock is right in this run; a wrong one is left to
the proof, which has any `Skew`.

*alerter.* Two views, in outage or not, since the code compares views and asks
that of them; four messages let a board and a ping be lost, replaced and lost
again. Services share nothing, so one is enough; an incident begins, and ends,
up to one instant before it is opened or closed. Two incidents, four evaluations
and a cool-down of two instants within four let an alarm be repeated, suppressed
and followed by the recovery of another incident.

*announcements.* Two webhooks, two rows, removal after two failures, one slot:
a webhook can be registered again while an answer about its old row is out, a
message can wait for a slot held by another, and a row can be deleted, by each of
the four ways, under a waiting message. One announcement and two broadcasts (it
is made and resolved), two moments, three windows: none, one that ends, one that
starts later.

*live_test.* A tick is about ten seconds: two messages, an interval of three
ticks, a deadline of two, timeouts of one, and an allowance and a slack in the
proportion of the code's 20 s and 30 s. The real numbers satisfy the assumption
that the model makes of them: two messages cost at most their two deadlines and
2 * (10 + 15 + 8) s, and 70 s are allowed.

*remeasure.* Every history of three old cycles over what the old prober may have
met, which are one day; two of them are its first minutes (`Margin`), so that a
prune may leave the day complete in the code's eyes and short of its first check, in
part, or not at all, before, between and after corrections. For that the retention is
one cycle and not thirty days: only the old day's rows leave, as in the code, where
the rows of a day leave during one day. The present prober has two cycles. One
incident may get an explanation, and lose it, at any time.
`WhatReachedUsStands` says of an incident that is gone that it had no real failure
in it; a service's may have had one in the cycle before or after an outage of the
website that covers the rest, which is the 90 s that an older incident may stick
out.

*accounts.* Two names and two accounts (an owner and one more, or the same name
twice), a lock after two attempts, three moments after the first: a code of the
step before, of now or of the next one, a lock that runs out, a link that does.

*page.* Four checks of the catalogue, which are critical, diagnostic, optional
and third-party, in a core component with a diagnostic, a core component with an
optional check only, and a third party's; a moment is three hours, the time a
certificate's row may describe the present. Three incidents are enough for one
to lie inside, across or after a union of two others, and for an event to split
and merge, also because one of them is deleted; the window of three moments, of
which there are five, lets every row leave it. For the figures, the bot with a
shard (a check of the catalogue and one that is listed only while it reports), a
component with one optional check, and Other. Days hold no data, all good, one
failure of 14400 (which rounding could hide) or nothing but failures, three of
them in windows of two, with midnights before and after the roll-up.

*uptime_overall.* The eight core components with one check each, of which one
fails, and days of 14400 checks, ten real ones at one check a minute; three of them
are the thirty days of the page, and two of them are enough.

All bounds are guards (`MaxTime`, `MaxEvents`, `MaxCycles`, `MaxMessages`,
`MaxRounds`, `MaxIncidents`, `MaxTokens`, `MaxBroadcasts`, `MaxAnnouncements`,
`MaxId`, `MaxTexts`, `MaxDays`, `TableIds`, `Horizon`, `Back`); the runs say `CHECK_DEADLOCK FALSE` because a
model stops at its bound.

Fairness is assumed in two models, and only where the code schedules the step
itself. In `Announcements`, weak fairness of `Cycle` (the prober's loop goes on
whatever a cycle raises, and `expire_ended_maintenance` is called in it) and of
`Deliver` (a message has a timeout of eight seconds, and a slot that is freed is
taken by a waiting one). In `LiveTest`, weak fairness of `RunStep` and of `Tick`
(every request has a timeout, the loop goes on whatever a run raises). Nobody has
to subscribe, announce, resolve or react. The other properties are safety
properties; promises of progress that rest on a check arriving are stated as what
may not be the case once the step has run.

## Where code and documentation disagree

Two have a run:

1. `alerter_repeat`: in stream style, "recording 'resolved' here is also what stops
   a repeat announcement on the next cycle" (`alerter.py` 280). The record is kept
   per service and read once per evaluation, while the loop takes every incident
   that ended within the cool-down. In the trace, incident A ends before anybody is
   told of it and B of the same service is open: B is announced down, A "recovered";
   that recovery resets the record, B is announced down again, and A "recovered"
   once more. Any alarm for a later incident does it; B need not recover, and A need
   not have been announced down. What does hold is `RecoveriesInTurn`.
2. `uptime_overall`: the figure at the top of the page is the mean of the
   components' shares, rounded to three decimals; `fmt_pct_value` prints "100%" from
   100.0 on, before it floors. One failed check of 28800 in one of eight components
   (twenty days; the same holds of thirty) gives a mean of 99.999625, and the page
   reads "100%", although `core_failed` is computed for the very purpose of not
   saying so (`snapshot.py` 67-84, 267-276).

The others are shown by a configuration of their own:

3. `MCReleasesFastClock.cfg`, `AcceptedOnce`: a signature is remembered for the
   window plus a minute after it was *received* (`ingest.py` 286), but is valid
   until the window after its *own timestamp*, which may lie up to a window in our
   future. With a sender more than a minute fast, and still accepted, the same
   signed request is accepted twice. The docstring says it "only has to be
   remembered that long". `NoReplay` proves that a clock at most that minute fast
   is safe.
4. `MCIncidentsCold.cfg`, `ColdIncidentsClosed`: the half hour after which an
   incident with no fresh evidence is closed is only looked at when the service's
   latest row of four hours is no verdict (`aggregator.py` 862). A service that is
   no longer reported at all keeps its last verdict, and its incident stays open
   for those four hours. What does hold is `OpenRestsOnEvidence`.
5. `MCSiteOffline.cfg`, `OfflineIsNoOutage`: the control check is skipped whenever
   a vantage report is held (`scheduler.py` 258), on the ground that its arrival
   shows our connection to work. The report may have arrived up to 100 seconds
   before the connection failed. What does hold is `OwnFaultIsNoOutage`.
6. `MCPlatformShards.cfg`, `PushedReportUsed`: README 148 says of the sent report
   that it is "used whenever this service cannot fetch it". Its shard list is used
   only when the *service list* could not be fetched either (`scheduler.py` 305).
7. `MCRemeasureAgain.cfg`, `IncidentsStayKept`: "Running it again finds nothing left
   to do" (`remeasure.py` 45-46). An incident with raw checks is judged by them,
   one whose raw checks are pruned by whether it lies inside one of the website's
   (`remeasure.py` 290): a later run may remove an incident the first one had
   looked at and kept. What a later run removes had no real failure in it but at the
   edge, or one of the checks that entry 11 is about (`IncidentsStand`, a part of
   `WhatReachedUsStands`). Rows do keep to the docstring (`NothingLeftToDo`).
8. `MCUptimeSilent.cfg`, `NeverOverstates`: "A component is only as available as its
   least available part, and this never overstates" (`aggregator.py` 380-382). A
   shard that was down and has not been reported for four hours is no longer
   listed: the component's figure returns to that of the other checks, 100%
   perhaps, above bars that show the shard's downtime. `BarsMatchFigures` says what
   holds while a check is off the list, and between a stored row and its roll-up.
9. `MCLiveTestMoved.cfg`, `DownWasProven`: the stored result does not say which
   webhook it came through. After a restart with a webhook that has worked before,
   a silence measured through another one that never has is published as an outage
   for as long as the result is fresh. `DownIsProven` holds of the webhook that is
   configured.
10. `MCAnnouncementsSilence.cfg`, `UnsubscribedIsSilent`: "that webhook will no
    longer receive status updates" (`routes/subscribe.py` 70). A broadcast that waits
    for a slot has its list, and still sends.
11. `MCRemeasureMidnight.cfg`, `DaysSettle`: "Days whose raw checks are all still
    present. The oldest day in the table was partly pruned, so it is handled with the
    older days" (`remeasure.py` 210-211). A row before 00:03 is enough (216), and the
    daily prune runs in the first cycle after midnight with a cutoff of thirty days
    to the second (`scheduler.py` 395-425, `db.py` 324-331), so the oldest day
    usually lacks its first checks and counts as complete all the same. It is then
    counted anew from the rows that are left: a failed check that reached the platform
    can vanish from its figure, a second run finds a day to change where "nothing
    left to do" is promised, and an incident that began there is judged without its
    first check. What does hold is that no more than those checks are lost
    (`WhatReachedUsStands`, `OldDaysExact`, `NothingLeftToDo`, with `Lost`).

Not counted here, because each needs a failed request or is a choice of the code:
an outage whose ping is refused, or that begins within the cool-down of the last,
is never rung; an edit done without an answer, when the page then goes back,
leaves the board wrong until the next change (the `unsure` of `BoardTells`); one
read that shows the message makes a missing reaction "missing" although all later
reads failed (`live_test.py` 200); only one webhook is remembered as having
answered, so that going back to an earlier one makes its silence "no data" until
it answers (`live_test.py` 270); an event at the edge of the window loses its
first rows, and may split there; an explanation written between the planning and
the writing of a correction goes with its incident (`remeasure.py` 422; the `late`
of `IncidentsStand`); an incident that has been open for longer than
the page's seven days is not in the list; Other has figures but no bars, so its
days all read "not measured" (`aggregator.py` 452, `snapshot.py` 225); `sla_summary`'s
last N days are N + 1 (`aggregator.py` 783); a share is rounded to three decimals before
it is floored to two (`aggregator.py` 317), so that 10 good checks of 42 (23.8095%) read
"23.81%".

## Proofs

Checked by TLAPS for every value of the constants that satisfies the named
assumptions of the modules (`ReleaseAssumption`, `IncidentsAssumption`,
`SiteAssumption`, `PlatformAssumption`, `AlerterAssumption`,
`AdminAccountsAssumption`, `LiveTestAssumption`, `SubscribersAssumption`,
`AnnouncementsAssumption`, `RemeasureAssumption`, `ExplainedAssumption`, `HeadlineAssumption`,
`TableAssumption`, `EventsAssumption`, `UptimeAssumption`): any number of versions, services, places,
views, accounts, webhooks and incidents, any catalogue that fits, any windows,
timeouts and clocks. The bounds of the runs are constants like any other, so
nothing rests on their being small. TLC evaluates each assumption for the
constants of the runs.

| Module | Theorems | Argument |
|---|---|---|
| `ReleasesProofs` | `TypeCorrect`, `Sequence`, `NoReplay`, `NoticeLabels`, `LabelsSharpen`, `Implements` | Ids are below `nextId` and unique, an open row is the newest, and rows end before the next begins; with that, `Current` is the one open row that has not run out, and each event maps to a step of `ReleaseNotice` or to none. `NoReplay` assumes `Ahead <= SeenSlack` and keeps: an accepted request whose window is still open is still in `seen`. `NoticeLabels` keeps a row that covers the visit. `LabelsSharpen`: a label says which rows cover a moment or ended shortly before it (`LabelsAgree`), and whatever an event does to a row, its start stays and its end, as far as one can tell by then, only moves on (`EndsMoveOn`). |
| `IncidentsProofs` | `TypeCorrect`, `Sequence`, `Recorded`, `Honest`, `Evidence`, `Implements` | The properties are not inductive one by one. `IInv` adds that rows are never newer than the last cycle and one per service and time (`RowsInv`), that ids are ordered (`IdsInv`), where a streak can begin (`StartInv`) and that the past is settled (`PastInv`). `Evidence`: an incident left open belongs to a service that is down, was last seen down recently enough, or has no row left and began recently (`LeftAloneRests`). That a non-empty set of times has a greatest element comes from the well-foundedness of `<` on `Nat`. `Implements`: ids are unique, so that the rows are a function of them (`ByIdIs`); opening and closing are steps of `IncidentTable` because every start is an earlier check no older than `Recent` and after the service's last incident (`OpenedAfter`), and every end a check not before the start (`TableOpens`, `TableEnds`); all else deletes or leaves the table (`TableKept`). |
| `ProbesProofs` | of `SiteVerdict`: `TypeCorrect`, `Real`, `NotHidden`, `OwnFault` | `HeldInv`: each report held was true of its place at some time at most the replay window and the clock's error before it was received, over a working connection. `OwnInv`: what our check saw was there. The vote is then a counting lemma (`Counted`) on the two sets of voters. The world's past does not change (`TickWorld`). |
| | of `LiveTest`: `LiveTypes`, `Proven`, `NeverLapse` | `InTime`: no phase outlasts its timeout and a run has room for another message. `AgeBound`: the age of the last result is at most the interval, the cost of the messages so far and the present message's share; `RunFits` and `MessagesFit` are the arithmetic that puts it under `_live_test_fresh_seconds`. `NoteIsTrue`: the webhook noted as having answered did. |
| `PlatformReportProofs` | `TypeCorrect`, `Recency`, `NoneLeft`, `SentOrder` | `HeldInv`, `CycleInv`: what is held was made at most the window and the clock's error before it came, and what a cycle looked at was fresh when it did. `ExternalInv` and `ExpectedInv` say which services have readings by which road, `AnsweredInv` that after `TakePlatform` every expected service has one. `OrderInv` and `ReadingsOrderInv` put the rows and the readings of the sent road before what is held now. A merged reading exists because the order of `Better` has eight ranks (`BestReading`). |
| `AlerterProofs` | `TypeCorrect`, `Board`, `Channel`, `Rung`, `Turns`, `Alarmed` | The invariant has a part for each style, and each survives the other's steps (`BoardKept`, `StreamKept`). Board: ids are given out in order and a board is only created while none is there (`IdsInv`), nothing kept track of is in the channel when a ping is about to be sent (`PingInv`), an outage not noted was not rung (`RungInv`). Stream: what `alert_state` says was said (`StateSaid`), what is open for long will be or was announced (`AlarmsInv`), and a recorded recovery is settled until the next alarm (`SettledInv`). |
| `AdminAccountsProofs` | `TypeCorrect`, `Attempts` | `Remembers`: the columns of an account say what the history says, its step is that of the newest accepted code, its count that of the wrong attempts in a row, and its lock covers the last of them. A later code and a longer lock then follow for every step. |
| `PageProofs` | of `Announcements`: `TypeCorrect`, `Pruned`, `Resolved` | A token is handed out once (`TokensInv`), so an answer that comes by token is about the row it was sent for, and a row counts no more failures than its webhook has had since it last answered (`FailuresInv`); each of the ways a row goes then has its evidence (`TestOnEvidence`, `FailureOnEvidence`, `AnswerOnEvidence`). What a handler and a cycle may write of an announcement (`HandlerWrites`, `CycleWrites`) gives `Resolved`. |
| | of `Headline`: `HeadlineTypes`, `HeadlineOneStory`, `AllGood`, `Stopped` | `QuietInv`: no row is younger than the last row stored. The rest is true of every state with the right types and needs the cases of `Overall` and `RollupOf` (`OverallIs`, `RollupIs`); that a core component with a silent diagnostic still shows a check is the assumption on the catalogue. |
| | of `IncidentEvents`: `EventsTypes`, `Together`, `Explained` | Inductive: an incident begins before it ends and not in the future (`SpansInv`), and a row's cause is the newest explanation written for its event (`CausesInv`), whatever opens, ends or is deleted (`RowsFit`, `TableKeepsRows`). The readers: the list is in order since the places are counted (`InOrderIs`); where the sweep stands is the furthest end so far (`ClustersAre`); so rows of one cluster hang together without a gap (`Unbroken`) and rows of two are apart (`SetApart`). The time down of an event is the size of the union of its rows, each row adding what lies beyond the earlier ones (`SumIsDowntime`). |
| | of `Uptime`: `UptimeTypes`, `Matched` | `RoundedIs` says of `round()` that it is within a half and even on a tie, `RoundedGrows` that it keeps the order; with fewer than 200000 checks a failure always shows in the share (`PctIs`), so that texts are in the order of shares (`TextIs`, `TextGrows`). A sum is the number of its units (`SumIs`); a window is nothing just where all its days are (`SummedIs`) and is not worse than each of them (`WorstDay`: else the parts would add up to less than the whole). `DrawnIs` says what a bar counts and that it is the row once today is rolled up, `ShownAre` what is left of the sums when only listed checks count; `FigureIs` and `BarIs` then say the same of the figure and of each bar, and `FiguresMatch` what each of the two says of the other. |
| | of `Page`: `PageIsItsParts`, `PageTypes` | Each step of the page is a step of one part and leaves the others alone, so what holds of the parts holds of the page. |
| `RemeasureProofs` | `TypeCorrect`, `Stands`, `Exact`, `Settled` | `Presence`: the rows that are left are the last ones, of all services alike. `RowsAre`: a row is what was written, or a correction of what was not real. `FiguresAre`: what was first published of a day is kept, and its figure is that or the true one. `PlanIs`: a plan that waits stays true of the rows, since pruning only takes away what it would change (`PrunedShrinks`, `WaitingPlan`), so that it does no harm when it is applied late. `DoneIs`: after a full correction nothing changeable is left, and a day counts what its rows said when it was written, of which only checks of its first minutes can have been pruned if it still counts as complete. `IncidentsAre`: the incidents are outages of the old days, what a waiting plan would remove is `Groundless` and was not explained when it was planned. A row whose failed checks all change had no real one (`RemovedAreGroundless`), and pruning only moves the first whole day on (`RawIs`, from `FullFromIs`), so that what was once judged groundless stays so (`GroundlessStays`). `RecountIs` is the counting of a day with and without the corrected rows, `DayIs` and `FullDays` the arithmetic of cycles and days. |

Eight modules hold all proofs. `ProbesProofs` and `PageProofs` extend more than one
component, which is why the names of `Headline`, `IncidentEvents`, `Uptime` and `LiveTest`
that every model has (`Init`, `Next`, `Spec`, `TypeOK`) carry a prefix.

Recursive functions (the sweep, the sums) are reasoned about by a least
counterexample: were the claim false, there would be a smallest place where it is,
and one step of the recursion from the place before refutes it (`ClustersAre`,
`OneByOne`). That such a function exists is shown by naming one that satisfies
the recursion, for a sum the number of its units. That a set of numbers has a
least element is the well-foundedness of `<` (`LeastExists`).

What the proofs changed in the models: a page with no moment at all has no
initial state, so `MaxTime` of `Announcements` is not 0; `InOrder` of
`IncidentEvents` puts a row at the place that the number of earlier rows gives
it, instead of choosing some sorted sequence; `Weakest` of `Uptime` chooses among
places of the list instead of from a shortened one. Of `Remeasure` they showed what
exactly is left of a day whose first checks are gone: the truth of the day but for
those checks and no others, whichever correction met it (`Truth`, `Lost`). The
environment of
`IncidentEvents` was once written down beside it and was narrower than what
`Incidents` does: there an incident may end at any earlier check, may begin as far
back as the latest usable row when older rows are all there is, and rows are deleted
by a reset and by a correction. Both sides now meet in `IncidentTable`, which one
is proved to implement and over which the other's theorems are proved. The assumptions of
`Announcements`, `Remeasure`, `Headline`, `IncidentEvents` and `Uptime` are what
their proofs needed. The code's settings satisfy them, except that nothing keeps
`PROBE_INTERVAL_SECONDS` from being set below 39: ninety days then hold 200000
checks, a single failed one rounds to nothing, and a component of two checks may
read "100%" above a bar with downtime. At the interval of 60, a third is to spare.

Only model-checked: liveness and `ENABLED` (`WindowsEnd`, `BroadcastsEnd`,
`RunsEnd`), which are out of the prover's reach, and the violated statements.

## What is not modelled, and the plan

Not modelled, and why:

- The page snapshot and its caches: the build is synchronous and the caches keep
  a copy for a configured number of seconds, so the page may be as old as both
  together. Nothing else depends on it, and the rest of `snapshot.py` is formatting.
- DNS, certificate and Discord probes: one request, one row, no state of their own.
- Of the uptime figures: the rolling 24 hours (the same figures over raw rows), the
  chart of response times, `sla_summary`, and a midnight between the reads of one
  page.
- Of the list of events: its limit (`events[:max_count]`, `aggregator.py` 600), the
  two windows it is made for (the page's 7 days and the form's 90; the model has
  one), the incidents of a third party, which are skipped, and a closed row without
  an end, which is given one from its duration (542-545).
- Of the alerter: the daily certificate and SLA warnings, the empty mention, the
  disabled webhook.
- Of `remeasure`: an incident open at the handover, two corrections at once, the
  last cycle of a day that is rolled up after midnight, the report and the backup.
- Of the reset: five of the seven tables, and a reset from the command line in the
  middle of a cycle, which that other process may make (in `Incidents` it comes
  between two). Of the vantage reports: `places()`.
- Of the live test: requests that last longer than their timeout, which the HTTP
  library allows for each phase of a request and not for the whole
  (`ResultsNeverLapse` rests on their lasting at most the timeout); the text it posts
  and a database that cannot be read (the
  result is then believed as it is, `scheduler.py` 194-196).
- The text of messages, rows' error strings, response times, templates, scripts and
  host setup, and the cryptography itself (a signature is taken to identify its
  request).

Not claimed: that a report fetched in one cycle is never followed by an older
one sent to us. The code does not compare the two roads, and a service may go
back by up to `MaxAge`. Nor that a broadcast is completed after a restart: nothing
sends it again.

The plan: the rolling 24 hours and `sla_summary`, which are two more sums over the
same rows; what a correction leaves of incidents, with one open at the handover.
