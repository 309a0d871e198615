------------------------------ MODULE Remeasure ------------------------------
(***************************************************************************)
(* The correction of the stored history (remeasure.py), the daily figures  *)
(* it corrects (aggregator.py) and the pruning it has to live with.        *)
(*                                                                         *)
(* A history is what the old prober may have met: per cycle what the       *)
(* website check gave, whether the name lookup failed beside it, and how   *)
(* the one fanned-out service was; when the website check failed the old   *)
(* prober guessed that service to be down.  From Handover on the current   *)
(* prober writes.  A correction is planned, and then written in one        *)
(* transaction, by a process of its own: the prober goes on in between.    *)
(*                                                                         *)
(* Time is counted in cycles, PerDay of them in a day; the history starts  *)
(* with a day.  Rows of one cycle are less than _SAME_CYCLE apart, those   *)
(* of neighbouring cycles less than the 90 s an older incident may stick   *)
(* out.  Incidents are those that had ended when the prober changed.       *)
(***************************************************************************)
EXTENDS Naturals, FiniteSets, FiniteSetsExt

CONSTANTS
  PerDay,     \* cycles in a day
  Margin,     \* those of its first three minutes: a day with a row in them
              \* counts as complete
  Handover,   \* the first cycle of the current prober, db.rules_since
  Retention,  \* PROBE_RETENTION_DAYS, in cycles
  MaxCycle,   \* bound: the last cycle
  Met,        \* what the old prober may have met in a cycle
  Explained   \* bound: service and start of the incidents that explanations are
              \* written on

Cycles == 1..MaxCycle
OldCycles == {k \in Cycles : k < Handover}
Day(k) == (k - 1) \div PerDay
Offset(k) == (k - 1) % PerDay
Days == {Day(k) : k \in Cycles}
OldDays == {d \in Days : d < Day(Handover)}
CyclesOf(day) == {k \in Cycles : Day(k) = day}

\* What the website check gave: a good answer, a failure that reached the
\* platform (an error status, or connected and then no answer in time), no
\* lookup of the name, no connection.
SiteKinds == {"good", "reached", "resolver", "connect"}
Services == {"site", "dns", "service"}
Outcome == [site : SiteKinds, dns : BOOLEAN, service : BOOLEAN]

ASSUME RemeasureAssumption ==
  /\ {PerDay, Margin, Handover} \subseteq Nat \ {0}
  /\ {Retention, MaxCycle} \subseteq Nat
  /\ 1 < Handover /\ Handover <= MaxCycle
  /\ Met \subseteq Outcome
ASSUME ExplainedAssumption == Explained \subseteq Services \X Nat

NoRow == [status |-> "none"]
Good(row) == row.status = "up"

VARIABLES
  history,    \* what the old prober met; never changes
  now,        \* the cycle made last
  rows,       \* probe_results, by service and cycle; NoRow when pruned
  daily,      \* daily_uptime, by service and day: checks and failures
  original,   \* daily_uptime_orig
  incidents,  \* ended incidents
  causes,     \* those with an explanation; history: also when they are gone
  late,       \* history: those explained while a correction that removes them
              \* was waiting to be written
  plan,       \* the correction that was planned and is not written yet
  done        \* corrections written: "none", "some", or "full" when one
              \* without --keep-isolated had a newer website check to look at

vars == <<history, now, rows, daily, original, incidents, causes, late, plan, done>>

NoFigure == [total |-> 0, failed |-> 0]
Figures == [Services \X Days -> [total : 0..PerDay, failed : 0..PerDay]]
NoPlan == [kind |-> "none"]

\* The old prober's rows.
OldRow(s, k) ==
  LET o == history[k]
      up == CASE s = "site" -> o.site = "good"
              [] s = "dns" -> o.dns
              [] s = "service" -> o.site = "good" /\ o.service
  IN  [status |-> IF up THEN "up" ELSE "down",
       error |-> CASE s = "site" -> o.site
                   [] s = "dns" -> "lookup"
                   [] s = "service" -> IF o.site = "good" THEN "own" ELSE "guessed",
       orig |-> "none"]

Present(s) == {k \in Cycles : rows[<<s, k>>] # NoRow}

\* _live_uptime_for_day: completed checks and failures of one day.
Count(r, s, day) ==
  LET up == {k \in CyclesOf(day) : r[<<s, k>>].status = "up"}
      down == {k \in CyclesOf(day) : r[<<s, k>>].status = "down"}
  IN  [total |-> Cardinality(up) + Cardinality(down), failed |-> Cardinality(down)]

\* An incident runs from its first failed check to the check that ended it.
Streaks(s) ==
  {[service |-> s, from |-> x[1], to |-> x[2]] :
     x \in {y \in OldCycles \X OldCycles :
              /\ y[1] < y[2]
              /\ \A k \in y[1]..(y[2] - 1) : OldRow(s, k).status = "down"
              /\ OldRow(s, y[2]).status = "up"
              /\ y[1] = 1 \/ OldRow(s, y[1] - 1).status = "up"}}
Outages == UNION {Streaks(s) : s \in Services}

Init ==
  /\ history \in [OldCycles -> Met]
  /\ now = Handover - 1
  /\ rows = [x \in Services \X Cycles |-> IF x[2] < Handover THEN OldRow(x[1], x[2]) ELSE NoRow]
  /\ daily = [x \in Services \X Days |-> Count(rows, x[1], x[2])]
  /\ original = [x \in Services \X Days |-> NoFigure]
  /\ incidents = Outages
  /\ causes = {} /\ late = {}
  /\ plan = NoPlan
  /\ done = "none"

-----------------------------------------------------------------------------
(***************************************************************************)
(* Reading the history (analyze).  Definitions named Faulty... are         *)
(* plausible mistakes; nothing uses them.                                  *)
(***************************************************************************)
OldRules(k) == k < Handover

Failed(s) == {k \in Present(s) : rows[<<s, k>>].status = "down"}

\* Good checks directly before and after it; row order is cycle order.
Before(k) == {a \in Present("site") : a < k}
After(k) == {b \in Present("site") : b > k}
GoodBefore(k) == Before(k) # {} /\ Good(rows[<<"site", Max(Before(k))>>])
GoodAfter(k) == After(k) # {} /\ Good(rows[<<"site", Min(After(k))>>])
FaultyFlanked(k) == GoodBefore(k) \/ GoodAfter(k)
Flanked(k) == GoodBefore(k) /\ GoodAfter(k)

\* How a failed website check is read, the first that fits.
Verdict(k, keepIsolated) ==
  LET error == rows[<<"site", k>>].error IN
  CASE error = "reached" -> "kept"
    [] error = "resolver" -> "monitor"
    [] error = "connect" /\ k \in Failed("dns") -> "monitor"
    [] OTHER -> IF Flanked(k) /\ ~keepIsolated THEN "unconfirmed" ELSE "repeated"

Excused(k, keepIsolated) ==
  /\ k \in Failed("site") /\ OldRules(k)
  /\ Verdict(k, keepIsolated) \in {"monitor", "unconfirmed"}

\* The rows that stop counting as downtime.
GuessedRows == {x \in {"service"} \X Failed("service") : rows[x].error = "guessed"}
SiteRows(keep) == {x \in {"site"} \X Failed("site") : Excused(x[2], keep)}
DnsRows(keep) ==
  {x \in {"dns"} \X Failed("dns") :
     /\ OldRules(x[2])
     /\ x[2] \in Present("site")
     /\ rows[<<"site", x[2]>>].status # "down" \/ Excused(x[2], keep)}
Changes(keep) == GuessedRows \cup SiteRows(keep) \cup DnsRows(keep)

\* The first day that counts as having all its raw checks.  The oldest one may
\* have been pruned in part; a row of its first three minutes is enough, also
\* when the checks before it are gone.
FaultyFirstFullDay == Day(Min(Present("site")))
FirstFullDay ==
  LET lo == Min(Present("site")) IN
  IF Offset(lo) < Margin THEN Day(lo) ELSE Day(lo) + 1

\* A day with raw checks is counted again.
FaultyRecounted(s, day, changes) ==
  LET c == Count(rows, s, day)
      fewer == Cardinality({x \in changes : Day(x[2]) = day})
  IN  [total |-> c.total - fewer, failed |-> c.failed - fewer]

Recounted(s, day, changes) ==
  LET c == Count(rows, s, day)
      fewer == Cardinality({x \in changes : x[1] = s /\ Day(x[2]) = day})
  IN  [total |-> c.total - fewer, failed |-> c.failed - fewer]

Minus(a, b) == IF a > b THEN a - b ELSE 0
Larger(a, b) == IF a > b THEN a ELSE b

\* An older day loses one failure of the service per failed website check,
\* always starting from the figures that were published first.
FaultyPublished(s, day) == daily[<<s, day>>]
Published(s, day) == IF original[<<s, day>>] # NoFigure THEN original[<<s, day>>] ELSE daily[<<s, day>>]

Adjusted(s, day) ==
  LET row == Published(s, day)
      guessed == Published("site", day).failed
      failed == Minus(row.failed, guessed)
  IN  IF guessed = 0 \/ row.failed = 0 THEN daily[<<s, day>>]
      ELSE [total |-> Larger(failed, Minus(row.total, guessed)), failed |-> failed]

Older(day) == day < FirstFullDay /\ day < Day(Handover)

NewFigure(s, day, changes) ==
  IF day >= FirstFullDay /\ day <= Day(now) THEN Recounted(s, day, changes)
  ELSE IF Older(day) /\ s = "service" THEN Adjusted(s, day)
  ELSE daily[<<s, day>>]

\* An incident with raw checks goes when it has failed checks and all of them
\* change; an older one of the service when it lies inside one of the website.
InRaw(i) == Day(i.from) >= FirstFullDay
FaultyUnsupported(i, changes) ==
  \E k \in i.from..i.to : <<i.service, k>> \in changes
Unsupported(i, changes) ==
  IF InRaw(i)
  THEN LET down == {k \in Failed(i.service) : k \in i.from..i.to}
       IN  down # {} /\ \A k \in down : <<i.service, k>> \in changes
  ELSE /\ i.service = "service"
       /\ \E j \in incidents : j.service = "site" /\ j.from - 1 <= i.from /\ i.to <= j.to + 1

FaultyRemoved(changes) == {i \in incidents : OldRules(i.from) /\ Unsupported(i, changes)}
Removed(changes) ==
  {i \in incidents : OldRules(i.from) /\ i \notin causes /\ Unsupported(i, changes)}

Analysis(keep) ==
  LET changes == Changes(keep) IN
  [kind |-> "plan", keep |-> keep, changes |-> changes, before |-> daily,
   daily |-> [x \in Services \X Days |-> NewFigure(x[1], x[2], changes)],
   drop |-> Removed(changes),
   newer |-> now >= Handover]

-----------------------------------------------------------------------------
(***************************************************************************)
(* The operator's process.                                                 *)
(***************************************************************************)
Plan(keep) ==
  /\ plan = NoPlan
  /\ plan' = Analysis(keep)
  /\ UNCHANGED <<history, now, rows, daily, original, incidents, causes, late, done>>

\* A dry run, or a process that dies before it has written.
Drop ==
  /\ plan # NoPlan
  /\ plan' = NoPlan
  /\ late' = late \ incidents
  /\ UNCHANGED <<history, now, rows, daily, original, incidents, causes, done>>

\* apply: only rows that are still there and still down; a figure that is
\* replaced is kept where none was kept before.
Corrected(x) ==
  IF x \in plan.changes /\ rows[x].status = "down"
  THEN [rows[x] EXCEPT !.status = "unknown", !.error = "corrected",
                       !.orig = IF @ = "none" THEN "down" ELSE @]
  ELSE rows[x]

Replaced == {x \in Services \X Days : plan.daily[x] # plan.before[x]}

Kept(x) == IF x \in Replaced /\ original[x] = NoFigure THEN daily[x] ELSE original[x]

Apply ==
  /\ plan # NoPlan
  /\ rows' = [x \in Services \X Cycles |-> Corrected(x)]
  /\ daily' = [x \in Services \X Days |-> IF x \in Replaced THEN plan.daily[x] ELSE daily[x]]
  /\ original' = [x \in Services \X Days |-> Kept(x)]
  /\ incidents' = incidents \ plan.drop
  /\ late' = late \ incidents'
  /\ done' = IF done = "full" \/ (plan.newer /\ ~plan.keep) THEN "full" ELSE "some"
  /\ plan' = NoPlan
  /\ UNCHANGED <<history, now, causes>>

-----------------------------------------------------------------------------
(***************************************************************************)
(* The service, which goes on beside it.                                   *)
(***************************************************************************)
\* A confirmed outage of the website leaves the service without data; the
\* roll-up counts today's rows again and touches no other day.
NewRow(s, good) ==
  [status |-> IF good \/ s = "dns" THEN "up" ELSE IF s = "site" THEN "down" ELSE "unknown",
   error |-> IF good THEN "good" ELSE "connect", orig |-> "none"]

Cycle(good) ==
  /\ now < MaxCycle
  /\ now' = now + 1
  /\ rows' = [x \in Services \X Cycles |-> IF x[2] = now' THEN NewRow(x[1], good) ELSE rows[x]]
  /\ daily' = [x \in Services \X Days |->
       LET c == Count(rows', x[1], x[2]) IN IF x[2] = Day(now') /\ c # NoFigure THEN c ELSE daily[x]]
  /\ UNCHANGED <<history, original, incidents, causes, late, plan, done>>

Prune ==
  /\ rows' = [x \in Services \X Cycles |-> IF x[2] + Retention < now THEN NoRow ELSE rows[x]]
  /\ rows' # rows
  /\ UNCHANGED <<history, now, daily, original, incidents, causes, late, plan, done>>

\* The panel: an explanation is written or withdrawn.
Explain(i) ==
  /\ <<i.service, i.from>> \in Explained /\ i \notin causes
  /\ causes' = causes \cup {i}
  /\ late' = IF plan # NoPlan /\ i \in plan.drop THEN late \cup {i} ELSE late
  /\ UNCHANGED <<history, now, rows, daily, original, incidents, plan, done>>

Retract(i) ==
  /\ i \in causes
  /\ causes' = causes \ {i}
  /\ late' = late \ {i}
  /\ UNCHANGED <<history, now, rows, daily, original, incidents, plan, done>>

Next ==
  \/ \E keep \in BOOLEAN : Plan(keep)
  \/ Drop \/ Apply \/ Prune
  \/ \E good \in BOOLEAN : Cycle(good)
  \/ \E i \in incidents : Explain(i) \/ Retract(i)

Spec == Init /\ [][Next]_vars

-----------------------------------------------------------------------------
(***************************************************************************)
(* Properties.                                                             *)
(***************************************************************************)
Row == [status : {"up", "down", "unknown"}, error : SiteKinds \cup {"lookup", "own", "guessed", "corrected"},
        orig : {"none", "down"}]

\* Type invariant.  A figure never has more failures than checks, and a plan
\* holds such figures (the subtractions of remeasure.py:208, 250).
TypeOK ==
  /\ history \in [OldCycles -> Outcome] /\ now \in Cycles
  /\ rows \in [Services \X Cycles -> Row \cup {NoRow}]
  /\ \A f \in {daily, original} \cup (IF plan = NoPlan THEN {} ELSE {plan.daily}) :
       f \in Figures /\ \A x \in Services \X Days : f[x].failed <= f[x].total
  /\ \A i \in incidents \cup causes : i.service \in Services /\ i.from < i.to /\ i.to \in OldCycles
  /\ late \subseteq causes
  /\ done \in {"none", "some", "full"}

\* Rows the correction must leave alone: what reached the platform and went
\* wrong, and the lookup that failed beside it; what failed to connect and
\* failed again one cycle later while the name was found; a failure of the
\* service that was looked at.
Real(s, k) ==
  \/ k >= Handover
  \/ s = "site" /\ history[k].site = "reached"
  \/ s = "dns" /\ history[k].site = "reached" /\ ~history[k].dns
  \/ /\ s = "site" /\ history[k].site = "connect" /\ history[k].dns
     /\ k + 1 < Handover /\ history[k + 1].site # "good"
  \/ s = "service" /\ history[k].site = "good"

\* Checks of a day's first minutes that were pruned while the day may still
\* have counted as complete; a guessed row was never a check.
Lost(s, day) ==
  {k \in CyclesOf(day) :
     /\ Offset(k) < Margin - 1 /\ rows[<<s, k>>] = NoRow
     /\ s = "service" => history[k].site = "good"}

\* An outage of the old days that is no longer in the list has no real failure
\* in it, but perhaps a lost one.  Of the service one may have been in the
\* cycle before or after an outage of the website that covers the rest, and
\* only once its raw checks were pruned: that is how far an older incident may
\* stick out.  One that somebody had explained when the correction was planned
\* is still there.
Groundless(i) ==
  LET real == {k \in i.from..(i.to - 1) : Real(i.service, k)} IN
  \/ real \subseteq Lost(i.service, Day(i.from))
  \/ /\ i.service = "service" /\ ~InRaw(i)
     /\ \E j \in Streaks("site") : real \subseteq {j.from - 1, j.to}

IncidentsStand ==
  /\ \A i \in Outages \ incidents : Groundless(i)
  /\ causes \subseteq incidents \cup late

\* However often the correction runs, beside cycles and pruning: a failed
\* check that reached the platform, that repeated, or that the current prober
\* confirmed stays down (remeasure.py:25-28, 36-40); a website day keeps at
\* least the failures that reached us, but for the lost checks of its first
\* minutes (216); a corrected row says what it was; and only incidents without
\* such a check go, the explained ones excepted (267-303).
WhatReachedUsStands ==
  /\ \A s \in Services, k \in Cycles :
       rows[<<s, k>>] # NoRow =>
         /\ Real(s, k) => rows[<<s, k>>].error # "corrected"
         /\ rows[<<s, k>>].error = "corrected" <=> rows[<<s, k>>].orig = "down"
  /\ \A d \in OldDays :
       LET reached == {k \in CyclesOf(d) : history[k].site = "reached"}
       IN  daily[<<"site", d>>].failed >= Cardinality(reached \ Lost("site", d))
  /\ IncidentsStand

\* The checks of the fanned-out service that were really made on an old day,
\* the first few left out.
Truth(day, few) ==
  LET looked == {k \in CyclesOf(day) : few <= Offset(k) /\ history[k].site = "good"} IN
  [total |-> Cardinality(looked), failed |-> Cardinality({k \in looked : ~history[k].service})]

\* Once a correction was written, every day before the handover shows for the
\* service the checks that were made, however often it ran: all of them, when
\* the correction met the day's rows all there or had to reckon without them
\* (remeasure.py:30-33, 222-224, 236-254), and without the day's first ones
\* when it met the day after exactly those had been pruned (216).
OldDaysExact ==
  done # "none" =>
    \A d \in OldDays : \E few \in 0..(Margin - 1) :
      /\ \A k \in CyclesOf(d) : Offset(k) < few => rows[<<"service", k>>] = NoRow
      /\ daily[<<"service", d>>] = Truth(d, few)

\* How far two figures are apart.
Within(n, f, g) ==
  /\ Minus(f.total, g.total) <= n /\ Minus(g.total, f.total) <= n
  /\ Minus(f.failed, g.failed) <= n /\ Minus(g.failed, f.failed) <= n

\* What a full correction has seen, the next one finds in order: no row is
\* left to change, and the figures of a day before the handover change by no
\* more than the checks of its first minutes that were pruned since, so not at
\* all while those are there (remeasure.py:45-46, 216).
NothingLeftToDo ==
  done = "full" =>
    LET a == Analysis(FALSE) IN
    /\ a.changes = {}
    /\ \A s \in Services, d \in OldDays :
         Within(Cardinality(Lost(s, d)), a.daily[<<s, d>>], daily[<<s, d>>])

\* What remeasure.py says without the exception, of days (25-28, 45-46): all
\* that reached the platform stays counted, and a full correction leaves no
\* day for the next one to change.
DaysSettle ==
  /\ \A d \in OldDays :
       daily[<<"site", d>>].failed >= Cardinality({k \in CyclesOf(d) : history[k].site = "reached"})
  /\ done = "full" =>
       \A s \in Services, d \in OldDays : Analysis(FALSE).daily[<<s, d>>] = daily[<<s, d>>]

\* The same of incidents: the next correction removes none that a full one
\* has kept (remeasure.py:45-46, "Running it again finds nothing left to do").
IncidentsStayKept == done = "full" => Analysis(FALSE).drop = {}
=============================================================================
