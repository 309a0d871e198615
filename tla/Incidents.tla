------------------------------ MODULE Incidents ------------------------------
(***************************************************************************)
(* From check results to incidents.  Each probe cycle ends with one piece  *)
(* of code that runs without giving way to other tasks: the rows of the    *)
(* cycle are stored one by one (scheduler.py, _persist), each service's    *)
(* incident is opened, closed or left alone (aggregator.py,                *)
(* _update_incidents), and once a day old rows are pruned.  Every          *)
(* statement commits on its own, so a crash, or an error the scheduler     *)
(* logs and continues after, can fall between any two of them.  Times are  *)
(* the cycle's; services are the site's own (the third-party ones and      *)
(* the monitor's "__" rows never get an incident).                         *)
(***************************************************************************)
EXTENDS Integers, FiniteSets

CONSTANTS
  Services,           \* the services that can have an incident
  StreakWindow,       \* how far back an incident's start is looked for
  NoDataClose,        \* how long an incident stays open on no evidence
  Recent,             \* the latest row of a service is not older than this
  Retention,          \* rows older than this are pruned
  Day,                \* rows are pruned once in this long
  MaxTime             \* bound on the time a run covers

ASSUME IncidentsAssumption ==
  /\ {StreakWindow, NoDataClose, Recent, Retention, Day, MaxTime} \subseteq Nat
  /\ 0 < MaxTime
  /\ StreakWindow <= Recent /\ Recent <= Retention
  /\ 0 < NoDataClose /\ NoDataClose <= Recent /\ 0 < Day

VARIABLES
  now,                \* the time
  rows,               \* the table probe_results
  incidents,          \* the table incidents
  nextId,             \* its next id
  phase,              \* "idle" between cycles, "rollup" once the rows are stored
  todo,               \* the services _update_incidents has not come to yet
  lastCycle,          \* when the last cycle stored its rows
  lastPrune,          \* _last_prune_day
  lost                \* history: the rows no roll-up has seen as the cycle's own

vars == <<now, rows, incidents, nextId, phase, todo, lastCycle, lastPrune, lost>>

NotEnded == -1
Never == -1

\* "up" stands for operational and degraded, which are treated alike here.
Statuses == {"up", "down", "nodata"}

Rows == [service : Services, status : Statuses, at : Nat]

\* resolved=1 is the same as having an end.
IncidentRows ==
  [id : Nat, service : Services, started : Nat, ended : Nat \cup {NotEnded}]

TypeOK ==
  /\ now \in Nat
  /\ rows \subseteq Rows
  /\ incidents \subseteq IncidentRows
  /\ nextId \in Nat
  /\ phase \in {"idle", "rollup"}
  /\ todo \subseteq Services
  /\ lastCycle \in Nat
  /\ lastPrune \in Nat \cup {Never}
  /\ lost \subseteq Services \X Nat

-----------------------------------------------------------------------------
(* What the roll-up reads.  A definition named Faulty... is a plausible    *)
(* mistake in the code of the definition that follows it; nothing uses it  *)
(* but the check that a property notices the mistake.                      *)

RowsOf(s) == {r \in rows : r.service = s}

DownRowsOf(s) == {r \in RowsOf(s) : r.status = "down"}

\* The latest row of s, as a set of one row or none (_recent_latest_rows).
Latest(s) ==
  {r \in RowsOf(s) : r.at >= now - Recent /\ \A q \in RowsOf(s) : q.at <= r.at}

\* Any row at all keeps an incident from going cold.
FaultyHasVerdict(s) == Latest(s) # {}

HasVerdict(s) == \E r \in Latest(s) : r.status \in {"up", "down"}

OpenOf(s) == {i \in incidents : i.service = s /\ i.ended = NotEnded}

\* The latest unbroken run of down rows of s, cut off by the window only.
FaultyStreak(s) == {r \in DownRowsOf(s) : r.at >= now - StreakWindow}

\* _streak_start: the latest unbroken run of down rows of s, as far back as
\* the window goes.  A row with no data breaks it too.
Streak(s) ==
  {r \in RowsOf(s) : /\ r.at >= now - StreakWindow
                     /\ \A q \in RowsOf(s) : q.at >= r.at => q.status = "down"}

\* The whole unbroken run, however old.
FaultyStartOf(s, row) ==
  LET run == {r \in RowsOf(s) : \A q \in RowsOf(s) : q.at >= r.at => q.status = "down"}
  IN  {r.at : r \in {q \in run : \A other \in run : q.at <= other.at}}

\* When the incident that the row opens began: at the start of the streak, or
\* at the row itself if even that is older than the window.
StartOf(s, row) ==
  {r.at : r \in {q \in Streak(s) : \A other \in Streak(s) : q.at <= other.at}}
    \cup {t \in {row.at} : Streak(s) = {}}

\* The check the incident began with.
FaultyLastDown(s, i) == {i.started}

\* The last confirmed-down check of s, or the incident's start if none is left.
LastDown(s, i) ==
  {r.at : r \in {q \in DownRowsOf(s) : \A other \in DownRowsOf(s) : other.at <= q.at}}
    \cup {t \in {i.started} : DownRowsOf(s) = {}}

-----------------------------------------------------------------------------
(* The cycle.                                                              *)

\* _persist: one row at most per service (merge_cycle_results); a service can
\* be missing, because the platform's report did not name it, or because the
\* process stopped between two rows.
Persist(report) ==
  /\ phase = "idle"
  /\ lastCycle < now
  /\ rows' = rows \cup {[service |-> s, status |-> report[s], at |-> now] : s \in DOMAIN report}
  /\ phase' = "rollup"
  /\ todo' = Services
  /\ lastCycle' = now
  /\ UNCHANGED <<now, incidents, nextId, lastPrune, lost>>

Reports == UNION {[served -> Statuses] : served \in SUBSET Services}

\* _close_incident
Close(i, end) == incidents' = (incidents \ {i}) \cup {[i EXCEPT !.ended = end]}

\* A down row opens an incident unless one is open.
Opens(s) ==
  /\ OpenOf(s) = {}
  /\ \E row \in Latest(s) :
       /\ row.status = "down"
       /\ \E start \in StartOf(s, row) :
            incidents' = incidents \cup
              {[id |-> nextId, service |-> s, started |-> start, ended |-> NotEnded]}
  /\ nextId' = nextId + 1

\* A row that says the service is back closes the open incident at that row.
Recovers(s) ==
  /\ \E row \in Latest(s), i \in OpenOf(s) : row.status = "up" /\ Close(i, row.at)
  /\ UNCHANGED nextId

\* The evidence has gone cold: nothing recent says up or down.  The incident
\* ends at the last confirmed-down check, not now.
GoesCold(s) ==
  /\ ~HasVerdict(s)
  /\ \E i \in OpenOf(s) : \E end \in LastDown(s, i) :
       now - end >= NoDataClose /\ Close(i, end)
  /\ UNCHANGED nextId

\* Nothing to do: neither of the two loops has anything to say.
LeftAlone(s) ==
  /\ \A row \in Latest(s) :
       /\ row.status = "down" => OpenOf(s) # {}
       /\ row.status = "up" => OpenOf(s) = {}
  /\ HasVerdict(s) \/ \A i \in OpenOf(s) : \A end \in LastDown(s, i) : now - end < NoDataClose
  /\ UNCHANGED <<incidents, nextId>>

\* _update_incidents comes to s.  Its first loop takes the services with a
\* verdict, its second the open incidents of the others.
RollUp(s) ==
  /\ phase = "rollup" /\ s \in todo
  /\ HasVerdict(s) \/ \A other \in todo : ~HasVerdict(other)
  /\ todo' = todo \ {s}
  /\ Opens(s) \/ Recovers(s) \/ GoesCold(s) \/ LeftAlone(s)
  /\ UNCHANGED <<now, rows, phase, lastCycle, lastPrune, lost>>

\* _prune_if_due: the first cycle of a day deletes the rows beyond the
\* retention.  The day counts as done even when the deletion fails.
PruneIfDue ==
  \/ /\ lastPrune = now \div Day
     /\ UNCHANGED <<rows, lastPrune>>
  \/ /\ lastPrune # now \div Day
     /\ lastPrune' = now \div Day
     /\ rows' = {r \in rows : r.at >= now - Retention} \/ UNCHANGED rows

FinishCycle ==
  /\ phase = "rollup" /\ todo = {}
  /\ PruneIfDue
  /\ phase' = "idle"
  /\ UNCHANGED <<now, incidents, nextId, todo, lastCycle, lost>>

\* The cycle stops here: an exception the scheduler logs before it goes on
\* with the next cycle, or a crash and a restart of the process.
StopCycle ==
  /\ phase = "rollup"
  /\ phase' = "idle"
  /\ todo' = {}
  /\ lost' = lost \cup {<<s, lastCycle>> : s \in todo}
  /\ lastPrune' \in {lastPrune, Never}
  /\ UNCHANGED <<now, rows, incidents, nextId, lastCycle>>

-----------------------------------------------------------------------------
(* Between the cycles.                                                     *)

\* The owner wipes the history.  The tables are emptied one after the other,
\* probe_results first, and a crash can fall in between.
Reset ==
  /\ phase = "idle"
  /\ rows' = {}
  /\ incidents' = {} \/ UNCHANGED incidents
  /\ UNCHANGED <<now, nextId, phase, todo, lastCycle, lastPrune, lost>>

Tick ==
  /\ phase = "idle" /\ now < MaxTime
  /\ now' = now + 1
  /\ UNCHANGED <<rows, incidents, nextId, phase, todo, lastCycle, lastPrune, lost>>

Init ==
  /\ now = 1
  /\ rows = {}
  /\ incidents = {}
  /\ nextId = 1
  /\ phase = "idle"
  /\ todo = {}
  /\ lastCycle = 0
  /\ lastPrune = Never
  /\ lost = {}

Next ==
  \/ \E report \in Reports : Persist(report)
  \/ \E s \in Services : RollUp(s)
  \/ FinishCycle
  \/ StopCycle
  \/ Reset
  \/ Tick

Spec == Init /\ [][Next]_vars

-----------------------------------------------------------------------------
(* Properties.                                                             *)

\* A row still waiting for its own cycle's roll-up, or that lost it.
Unseen(r) ==
  \/ r.service \in todo /\ r.at = lastCycle
  \/ <<r.service, r.at>> \in lost

Covers(i, t) == i.started <= t /\ (i.ended = NotEnded \/ t <= i.ended)

\* A service is in one incident at a time: at most one is open, an incident
\* does not end before it starts, and the next starts after the one before it
\* has ended, however many cycles stop half-way (the start is looked for in
\* the past, where an earlier incident may lie).
IncidentsInSequence ==
  /\ \A i \in incidents : i.ended # NotEnded => i.started <= i.ended
  /\ \A i, j \in incidents :
       i.service = j.service /\ i.id < j.id => i.ended # NotEnded /\ i.ended <= j.started

\* Every check that found a service down lies in an incident of that service,
\* unless its own cycle stopped before the roll-up: no other order of checks,
\* gaps, pruning and closing on cold evidence loses a confirmed outage.
OutagesRecorded ==
  \A s \in Services : \A r \in DownRowsOf(s) :
    Unseen(r) \/ \E i \in incidents : i.service = s /\ Covers(i, r.at)

\* No check that found a service working lies inside an incident of it, with
\* the same exception: "no data" may lengthen an incident, good news never.
IncidentsHonest ==
  \A s \in Services : \A r \in RowsOf(s), i \in incidents :
    /\ r.status = "up" /\ i.service = s
    /\ i.started < r.at /\ (i.ended = NotEnded \/ r.at < i.ended)
    => Unseen(r)

\* Once the roll-up has come to a service, an incident it leaves open rests on
\* a down check no older than Recent (or began less than NoDataClose ago, when
\* a reset stopped half-way has taken its rows): none stays open for ever.
OpenRestsOnEvidence ==
  phase = "rollup" => \A s \in Services \ todo : \A i \in OpenOf(s) :
    \/ \E r \in DownRowsOf(s) : r.at >= now - Recent
    \/ DownRowsOf(s) = {} /\ i.started > now - NoDataClose

\* "An open incident left without fresh evidence for half an hour is closed at
\* its last confirmed-down check" (the docstring of _update_incidents), looked
\* at when no cycle has ever stopped half-way.
ColdIncidentsClosed ==
  phase = "rollup" /\ lost = {} => \A s \in Services \ todo : \A i \in OpenOf(s) :
    \/ \E r \in DownRowsOf(s) : r.at > now - NoDataClose
    \/ DownRowsOf(s) = {} /\ i.started > now - NoDataClose

-----------------------------------------------------------------------------
(***************************************************************************)
(* What the readers of the table may rely on.                              *)
(***************************************************************************)
\* A table by its ids.
ById(table) ==
  [id \in {i.id : i \in table} |->
     LET i == CHOOSE j \in table : j.id = id
     IN  [service |-> i.service, started |-> i.started, ended |-> i.ended]]

Table == INSTANCE IncidentTable WITH
           EventServices <- Services, OpensBack <- Recent, TableIds <- Nat, Horizon <- MaxTime,
           clock <- now, incidents <- ById(incidents)

\* Whatever the cycle does, and wherever it stops, the table changes only in the
\* ways that module IncidentTable allows and IncidentEvents counts on.
ImplementsTable == Table!TableSpec
=============================================================================
