---------------------------- MODULE PlatformReport ----------------------------
(***************************************************************************)
(* What the page knows of the services behind the website.  The platform   *)
(* reports on itself by two roads: a cycle fetches the report through the  *)
(* website (probes/proxy.py), and the platform's checker sends it to us    *)
(* (ingest.py, store_platform_report), late, repeated or out of order.     *)
(* The cycle (scheduler.py, _cycle) reads the list of services to answer   *)
(* for first, then awaits the website, the report and the shard list,      *)
(* decides which report to believe, writes the shard snapshot, awaits      *)
(* Discord, and stores one row per service.                                *)
(* Module SiteVerdict tells how the website's verdict comes about; here it *)
(* is any verdict that can come about.                                     *)
(***************************************************************************)
EXTENDS Integers, FiniteSets

CONSTANTS
  Core,               \* PROXY_INTERNAL_SERVICES
  Optional,           \* what else the platform may report
  FromReadiness,      \* Database and Cache, which /readiness reports as well
  Shards,             \* the shards, each a service once there are several
  Bodies,             \* what the platform may say of its services
  ShardLists,         \* what it may say of its shards
  Sent,               \* the reports it may send: a body, and a list or none
  Fresh,              \* PLATFORM_FRESH_SECONDS
  ReplayWindow,       \* how far a signature's time may be from ours
  Skew,               \* how far the platform's clock may be from ours
  Stale,              \* STALE_AFTER_SECONDS: how long a row is shown
  Recent,             \* how far back the latest rows are looked for
  MaxTime,            \* bound on the time a run covers
  MaxCycles           \* bound on the cycles in a run

Services == Core \cup Optional \cup FromReadiness
Reported == Services \cup Shards

Statuses == {"unknown", "operational", "degraded", "down"}

Nothing == [kind |-> "nothing"]

SentLists == [kind : {"list"}, states : ShardLists] \cup {Nothing}

\* A report names some of the services and shards.
PartialReports(named) == UNION {[part -> Statuses] : part \in SUBSET named}

ASSUME PlatformAssumption ==
  /\ Shards \cap Services = {} /\ FromReadiness \cap (Core \cup Optional) = {}
  /\ Bodies \subseteq PartialReports(Services)
  /\ ShardLists \subseteq PartialReports(Shards)
  /\ Sent \subseteq [body : Bodies, shards : SentLists]
  /\ {Fresh, ReplayWindow, Skew, Stale, Recent, MaxTime, MaxCycles} \subseteq Nat
  /\ Stale <= Recent

VARIABLES
  now,                \* our clock
  offset,             \* the platform's clock minus ours
  held,               \* the report last received (meta_kv)
  latest,             \* the latest row of each service (probe_results)
  snapshot,           \* the shards as last listed (shard_snapshot)
  pc,                 \* where the cycle is
  started,            \* when it began
  expected,           \* the services it answers for
  pushed,             \* the held report, if fresh when it was looked at
  fetched,            \* what /status/api answered
  listed,             \* what /status/api/shards answered
  readings,           \* the readings so far, several of a service maybe
  cycles              \* the cycles begun

cycleVars == <<started, expected, pushed, fetched, listed, readings>>
vars == <<now, offset, held, latest, snapshot, pc, cycleVars, cycles>>

Failed == [kind |-> "failed"]

\* A report and a list of shards, and when the platform made them.
ReportsBy(time) == [kind : {"report"}, body : Bodies, made : time]
ListsBy(time) == [kind : {"list"}, states : ShardLists, made : time]

HeldReports == [kind : {"report"}, body : Bodies, shards : SentLists, made : Nat, ts : Int, at : Nat]

Never == -1
Roads == {"external", "proxy", "push"}

\* One reading of one service; made is when the platform said so, or Never.
Readings == [service : Reported, status : Statuses, road : Roads, made : Nat \cup {Never}]

\* A row: a reading, the time it was stored and the time its cycle began.
Rows == [status : Statuses, road : Roads, made : Nat \cup {Never}, at : Nat, asked : Nat]

Sites == [reached : BOOLEAN, verdict : {"up", "down", "nodata"},
          body : [FromReadiness -> {"ok", "error", "missing"}]]

TypeOK ==
  /\ now \in Nat
  /\ offset \in (-Skew)..Skew
  /\ held \in HeldReports \cup {Nothing}
  /\ latest \in [Reported -> Rows \cup {Nothing}]
  /\ snapshot \in PartialReports(Shards)
  /\ pc \in {"idle", "site", "status", "shards", "platform", "others"}
  /\ started \in 0..now
  /\ expected \subseteq Reported
  /\ pushed \in HeldReports \cup {Nothing}
  /\ fetched \in ReportsBy(0..now) \cup {Nothing, Failed}
  /\ listed \in ListsBy(0..now) \cup {Nothing, Failed}
  /\ readings \subseteq Readings
  /\ cycles \in Nat

\* The run ends with its last cycle: nothing that happens later is looked at.
Running == cycles < MaxCycles \/ pc # "idle"

-----------------------------------------------------------------------------
(* The report that is sent.  Definitions named Faulty... are mistakes one  *)
(* could make in the definition that follows them; no model uses them.     *)

FaultyNotOlder(ts) == TRUE

\* store_platform_report: a report signed before the one held is refused.
NotOlder(ts) == held # Nothing => held.ts <= ts

InWindow(ts) == now - ts <= ReplayWindow /\ ts - now <= ReplayWindow

\* A report the platform made at some time arrives now.
Receive(made, report) ==
  LET ts == made + offset IN
  /\ Running /\ pc # "platform"
  /\ InWindow(ts)
  /\ NotOlder(ts)
  /\ held' = [kind |-> "report", body |-> report.body, shards |-> report.shards, made |-> made, ts |-> ts, at |-> now]
  /\ UNCHANGED <<now, offset, latest, snapshot, pc, cycleVars, cycles>>

\* Whatever is held is believed.
FaultyFreshReport == held

\* fresh_platform_report: the held report, if it came recently enough.
FreshReport == IF held # Nothing /\ now - held.at <= Fresh THEN held ELSE Nothing

-----------------------------------------------------------------------------
(* The cycle.                                                              *)

\* The services with a recent row that came from the platform's report.
RecentlyReported ==
  {s \in Reported : /\ latest[s] # Nothing
                    /\ now - latest[s].at <= Recent
                    /\ latest[s].road \in {"proxy", "push"}}

\* Only the services that are always there.
FaultyExpected == Core

\* _expected_proxy_services: Database and Cache are answered for by /readiness.
Expected == Core \cup (RecentlyReported \ FromReadiness)

StartCycle ==
  /\ pc = "idle" /\ cycles < MaxCycles
  /\ cycles' = cycles + 1
  /\ pc' = "site"
  /\ started' = now
  /\ expected' = Expected
  /\ UNCHANGED <<now, offset, held, latest, snapshot, pushed, fetched, listed, readings>>

\* The verdicts module SiteVerdict allows: with other places voting it need not
\* be what we saw ourselves, and only a failure of ours can be our connection's.
\* An answer that is an error can have a body, and does not reach the site.  The
\* body is only looked at if the verdict is "up".
PossibleSites ==
  {s \in Sites : /\ s.verdict = "nodata" => ~s.reached
                 /\ s.verdict # "up" => \A d \in FromReadiness : s.body[d] = "missing"}

FromBody(word) == CASE word = "ok" -> "operational"
                    [] word = "error" -> "down"
                    [] OTHER -> "unknown"

\* A website that is down takes its database down with it.
FaultyReadinessReadings(s) ==
  {[service |-> d,
    status |-> IF s.verdict = "down" THEN "down" ELSE FromBody(s.body[d]),
    road |-> "external",
    made |-> IF s.verdict = "up" /\ s.body[d] # "missing" THEN now ELSE Never] : d \in FromReadiness}

\* derive_db_redis: what /readiness says of Database and Cache, unless the
\* website is down or nothing was measured.
ReadinessReadings(s) ==
  {[service |-> d,
    status |-> IF s.verdict = "up" THEN FromBody(s.body[d]) ELSE "unknown",
    road |-> "external",
    made |-> IF s.verdict = "up" /\ s.body[d] # "missing" THEN now ELSE Never] : d \in FromReadiness}

\* The website's verdict is known; the sent report is looked at now, before the
\* fetches.  Whether to fetch depends on our own request, not on the verdict.
CheckSite(s) ==
  /\ pc = "site"
  /\ readings' = ReadinessReadings(s)
  /\ pushed' = IF s.verdict = "nodata" THEN Nothing ELSE FreshReport
  /\ pc' = IF s.reached THEN "status" ELSE "platform"
  /\ UNCHANGED <<now, offset, held, latest, snapshot, started, expected, fetched, listed, cycles>>

FetchStatus(answer) ==
  /\ pc = "status"
  /\ fetched' = answer
  /\ pc' = "shards"
  /\ UNCHANGED <<now, offset, held, latest, snapshot, started, expected, pushed, listed,
                 readings, cycles>>

FetchShards(answer) ==
  /\ pc = "shards"
  /\ listed' = answer
  /\ pc' = "platform"
  /\ UNCHANGED <<now, offset, held, latest, snapshot, started, expected, pushed, fetched,
                 readings, cycles>>

-----------------------------------------------------------------------------
(* Which report to believe: no await from here to the stored snapshot.     *)

NoData(services, road) ==
  {[service |-> s, status |-> "unknown", road |-> road, made |-> Never] : s \in services}

\* results_from_status_body
Of(states, road, made) ==
  {[service |-> s, status |-> states[s], road |-> road,
    made |-> IF states[s] = "unknown" THEN Never ELSE made] : s \in DOMAIN states}

UsePush == fetched.kind # "report" /\ pushed # Nothing

\* What the sent report leaves out is not answered for.
FaultyPlatformReadings ==
  IF fetched.kind = "report" THEN Of(fetched.body, "proxy", fetched.made)
  ELSE IF UsePush THEN Of(pushed.body, "push", pushed.made)
  ELSE NoData(expected, "proxy")

\* The fetched report; else the sent one, with "no data" for what it leaves
\* out; else "no data" for all.
PlatformReadings ==
  IF fetched.kind = "report" THEN Of(fetched.body, "proxy", fetched.made)
  ELSE IF UsePush THEN Of(pushed.body, "push", pushed.made)
                         \cup NoData(expected \ DOMAIN pushed.body, "push")
  ELSE NoData(expected, "proxy")

\* The shard list and its road.  The sent one stands in only if the sent report
\* does.
ShardList ==
  IF listed.kind = "list" THEN [states |-> listed.states, road |-> "proxy", made |-> listed.made]
  ELSE IF UsePush /\ pushed.shards # Nothing
       THEN [states |-> pushed.shards.states, road |-> "push", made |-> pushed.made]
  ELSE Nothing

\* shard_results: each shard is a check of its own if there are several.
ShardReadings(list) ==
  IF Cardinality(DOMAIN list.states) < 2 THEN {} ELSE Of(list.states, list.road, list.made)

AllUnknown == [s \in DOMAIN snapshot |-> "unknown"]

\* _store_shard_snapshot: a list that names no shard changes nothing.
StoredSnapshot(states) == IF DOMAIN states = {} THEN snapshot ELSE states

\* What has been used is forgotten here, to keep the states few.
TakePlatform ==
  /\ pc = "platform"
  /\ \/ /\ ShardList = Nothing
        /\ snapshot' = AllUnknown
        /\ readings' = readings \cup PlatformReadings
     \/ /\ ShardList # Nothing
        /\ snapshot' = StoredSnapshot(ShardList.states)
        /\ readings' = readings \cup PlatformReadings \cup ShardReadings(ShardList)
  /\ pc' = "others"
  /\ expected' = {} /\ pushed' = Nothing /\ listed' = Nothing
  /\ UNCHANGED <<now, offset, held, latest, started, fetched, cycles>>

-----------------------------------------------------------------------------
(* The end of the cycle.                                                   *)

Rank == [unknown |-> 0, operational |-> 1, degraded |-> 2, down |-> 3]

\* merge_cycle_results: the worse verdict, and of equal ones the platform's.
Better(r, q) ==
  \/ Rank[r.status] > Rank[q.status]
  \/ Rank[r.status] = Rank[q.status] /\ r.road # "external" /\ q.road = "external"

ReadingsOf(s) == {r \in readings : r.service = s}

Merged(s) == CHOOSE r \in ReadingsOf(s) : \A q \in ReadingsOf(s) : ~Better(q, r)

Row(r) == [status |-> r.status, road |-> r.road, made |-> r.made, at |-> now, asked |-> started]

Forget ==
  /\ pc' = "idle"
  /\ started' = 0 /\ expected' = {} /\ readings' = {}
  /\ pushed' = Nothing /\ fetched' = Nothing /\ listed' = Nothing

\* _persist, and the cycle ends (module Incidents goes on from these rows).
FinishCycle ==
  /\ pc = "others"
  /\ latest' = [s \in Reported |-> IF ReadingsOf(s) = {} THEN latest[s] ELSE Row(Merged(s))]
  /\ Forget
  /\ UNCHANGED <<now, offset, held, snapshot, cycles>>

\* An exception, which run_forever logs, or the process stops and starts again.
\* The snapshot is written statement by statement.
StopCycle ==
  /\ pc # "idle"
  /\ Forget
  /\ \/ UNCHANGED snapshot
     \/ /\ pc = "platform" /\ ShardList # Nothing /\ DOMAIN ShardList.states # {}
        /\ \E part \in SUBSET DOMAIN ShardList.states :
             snapshot' = [s \in part |-> ShardList.states[s]]
  /\ UNCHANGED <<now, offset, held, latest, cycles>>

\* reset_monitoring_data, cut short or not; what was sent stays.
Reset ==
  /\ Running
  /\ latest' = [s \in Reported |-> Nothing]
  /\ snapshot' \in {snapshot, [s \in {} |-> "unknown"]}
  /\ UNCHANGED <<now, offset, held, pc, cycleVars, cycles>>

Tick ==
  /\ Running /\ now < MaxTime /\ pc # "platform"
  /\ now' = now + 1
  /\ UNCHANGED <<offset, held, latest, snapshot, pc, cycleVars, cycles>>

Init ==
  /\ now = 0
  /\ offset \in (-Skew)..Skew
  /\ held = Nothing
  /\ latest = [s \in Reported |-> Nothing]
  /\ snapshot = [s \in {} |-> "unknown"]
  /\ pc = "idle"
  /\ started = 0 /\ expected = {} /\ readings = {}
  /\ pushed = Nothing /\ fetched = Nothing /\ listed = Nothing
  /\ cycles = 0

Next ==
  \/ \E made \in 0..now, report \in Sent : Receive(made, report)
  \/ StartCycle
  \/ \E s \in PossibleSites : CheckSite(s)
  \/ \E answer \in ReportsBy({now}) \cup {Failed} : FetchStatus(answer)
  \/ \E answer \in ListsBy({now}) \cup {Failed} : FetchShards(answer)
  \/ TakePlatform
  \/ FinishCycle
  \/ StopCycle
  \/ Reset
  \/ Tick

Spec == Init /\ [][Next]_vars

-----------------------------------------------------------------------------
(* Properties.                                                             *)

\* latest_per_service: what the page shows of a row; an old one is no verdict.
ShownOf(row) ==
  IF row # Nothing /\ now - row.at <= Stale THEN row.status ELSE "unknown"

\* "None is left showing its last 'operational' into an outage": in a cycle that
\* could not fetch the platform's report, every verdict the page then shows is
\* one of that very cycle, for services that come and go as well.
NothingLeftShowing ==
  [][FinishCycle /\ fetched.kind # "report" =>
       \A s \in Reported : ShownOf(latest'[s]) # "unknown" => ReadingsOf(s) # {}]_vars

\* How old what a cycle believes may be.
MaxAge == Fresh + ReplayWindow + Skew

\* A verdict is something the platform said, and said at most MaxAge before the
\* cycle that stored it: a website that is down is never copied onto the
\* services behind it, and a report that was delayed, repeated, signed with a
\* wrong clock and held is not shown for ever.
VerdictsAreRecent ==
  \A s \in Reported :
    latest[s] # Nothing /\ latest[s].status # "unknown" =>
      latest[s].made # Never /\ latest[s].asked - latest[s].made <= MaxAge

\* "A delayed or replayed request must not turn the clock back": what the page
\* shows of a sent report is never followed by what an older one said.
PushedInOrder ==
  [][\A s \in Reported :
       /\ latest[s] # Nothing /\ latest[s].road = "push" /\ latest[s].status # "unknown"
       /\ latest'[s] # Nothing /\ latest'[s].road = "push" /\ latest'[s].status # "unknown"
       => latest[s].made <= latest'[s].made]_vars

\* The sent report is "used whenever this service cannot fetch it" (README): a
\* shard list that could not be fetched is taken from the sent report, if that
\* is fresh and has one.
PushedReportUsed ==
  [][TakePlatform /\ listed.kind # "list" /\ pushed # Nothing =>
       pushed.shards = Nothing \/ snapshot' = StoredSnapshot(pushed.shards.states)]_vars

=============================================================================
