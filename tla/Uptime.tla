-------------------------------- MODULE Uptime --------------------------------
(***************************************************************************)
(* The uptime figures of the page: daily rows summed over a window, a      *)
(* component's figure (that of its weakest counted check that is listed),  *)
(* the bars of the last days, and the one figure over all core components. *)
(*                                                                         *)
(* Figure and bars come from different places.  The figure is read from    *)
(* daily_uptime, for the checks that the page lists at the moment, Other   *)
(* included; the bars are drawn for GROUPS only, from every check that has *)
(* rows, and today's is counted afresh from the raw checks.  What a        *)
(* correction does to earlier days is in the module Remeasure: rows as it  *)
(* leaves them are rows that such a day may have here from the start.      *)
(*                                                                         *)
(* Shares are thousandths of a percent as the code rounds them, texts are  *)
(* hundredths of a percent (where binary fractions may put a hundredth     *)
(* less than here).  100000 times the failures of a window has to fit      *)
(* TLC's integers.                                                         *)
(*                                                                         *)
(* Definitions named Faulty... are plausible mistakes; nothing uses them.  *)
(***************************************************************************)
EXTENDS Integers, Sequences, FiniteSetsExt

CONSTANTS
  Groups,          \* the components
  Leftovers,       \* those that GROUPS does not know: Other, which has no bars
  UptimeCore,      \* those that count towards the figure over all
  ChecksOf,        \* the checks of a component in the catalogue's order, those
                   \* named at run time last, without its diagnostics
                   \* (ADVISORY_SERVICES)
  AlwaysListed,    \* checks of the catalogue that are not optional
  ListedOnceSeen,  \* checks of the catalogue that are
  UptimeDays,      \* the days of the window, and those the bars go back
  DayRows,         \* what a day may hold: [total, failed] for each check
  MaxDays          \* bound

VARIABLES
  days,   \* daily_uptime, the last one is today's
  live,   \* what probe_results say of today
  recent  \* checks, of those not always listed, with a row of the last four
          \* hours, whatever it says

uptimeVars == <<days, live, recent>>

Counted(c) == Range(ChecksOf[c])
Checks == UNION {Counted(c) : c \in Groups}

Full == 100000
Nothing == [total |-> 0, failed |-> 0]
Blank == [s \in Checks |-> Nothing]

\* A check's count of a day.
Counts == {row[s] : row \in DayRows, s \in Checks} \cup {Nothing}

\* A single failed check shows in a share of three decimals as long as there
\* are fewer than 200000: ninety days of one check a minute, which is the
\* longest window at the interval that is configured, are 129600.
ASSUME UptimeAssumption ==
  /\ UptimeDays \in Nat \ {0} /\ MaxDays \in Nat \ {0}
  /\ \A c \in Groups : ChecksOf[c] \in Seq(Counted(c))
  /\ DayRows \subseteq [Checks -> [total : Nat, failed : Nat]]
  /\ \A row \in DayRows, s \in Checks :
       row[s].failed <= row[s].total /\ UptimeDays * row[s].total < 2 * Full

Measured(w) == w.total > 0

\* The checks on the page.  A row of daily_uptime with no checks in it, which
\* a correction may leave, would list one more, with nothing to count.
OnPage ==
  AlwaysListed \cup recent
    \cup {s \in ListedOnceSeen : \E d \in DOMAIN days : Measured(days[d][s])}

\* Today as it is counted live; a check without a live count keeps its row.
Today == [s \in Checks |-> IF Measured(live[s]) THEN live[s] ELSE days[Len(days)][s]]

RolledUp == days[Len(days)] = Today

UptimeInit == days = <<Blank>> /\ live = Blank /\ recent = {}

\* Raw checks of some cycles.
StoreChecks(row) ==
  /\ \A s \in Checks :
       /\ row[s].failed >= live[s].failed
       /\ row[s].total - row[s].failed >= live[s].total - live[s].failed
  /\ live' = row
  /\ recent' = recent \cup {s \in Checks \ AlwaysListed : row[s] # live[s]}
  /\ UNCHANGED days

\* A row that says no more than that there is no data.
NoVerdict(s) ==
  /\ recent' = recent \cup {s}
  /\ UNCHANGED <<days, live>>

\* Four hours without a row.
FallSilent(s) ==
  /\ recent' = recent \ {s}
  /\ UNCHANGED <<days, live>>

RollUpToday ==
  /\ days' = [days EXCEPT ![Len(days)] = Today]
  /\ UNCHANGED <<live, recent>>

\* Failed checks of today become "no data"; today's rows are counted anew if
\* the day is whole.
Correct(row) ==
  /\ row # live
  /\ \A s \in Checks :
       /\ row[s].failed <= live[s].failed
       /\ row[s].total - row[s].failed = live[s].total - live[s].failed
  /\ live' = row
  /\ days' \in {days, [days EXCEPT ![Len(days)] = row]}
  /\ UNCHANGED recent

\* The date changes, whether or not the last checks were rolled up.
Midnight ==
  /\ Len(days) < MaxDays
  /\ days' = Append(days, Blank)
  /\ live' = Blank
  /\ UNCHANGED recent

UptimeNext ==
  \/ \E row \in DayRows : StoreChecks(row) \/ Correct(row)
  \/ \E s \in Checks \ AlwaysListed : NoVerdict(s) \/ FallSilent(s)
  \/ RollUpToday
  \/ Midnight

UptimeSpec == UptimeInit /\ [][UptimeNext]_uptimeVars

-----------------------------------------------------------------------------
(* Shares.                                                                 *)

\* n / d as round() does it: to the nearest, a tie to the even one.
Rounded(n, d) ==
  LET q == n \div d
      r == n % d
  IN  IF 2 * r > d \/ (2 * r = d /\ q % 2 = 1) THEN q + 1 ELSE q

Pct(w) == Full - Rounded(Full * w.failed, w.total)

\* Days since `cutoff`, today included.
FaultyInWindow == {d \in DOMAIN days : d >= Len(days) - UptimeDays}
InWindow == {d \in DOMAIN days : d > Len(days) - UptimeDays}

Summed ==
  [s \in Checks |->
     [total |-> SumFunction([d \in InWindow |-> days[d][s].total]),
      failed |-> SumFunction([d \in InWindow |-> days[d][s].failed])]]

\* The first of the checks with the lowest share, among those measured.
MeasuredOf(c, figures) == {k \in DOMAIN ChecksOf[c] : Measured(figures[ChecksOf[c][k]])}

FaultyWeakest(c, figures) ==
  LET seen == MeasuredOf(c, figures)
  IN  IF seen = {} THEN Nothing ELSE figures[ChecksOf[c][Min(seen)]]

Weakest(c, figures) ==
  LET seen == MeasuredOf(c, figures)
      share == [k \in seen |-> Pct(figures[ChecksOf[c][k]])]
      first == CHOOSE k \in seen : \A j \in seen :
                 share[k] < share[j] \/ (share[k] = share[j] /\ k <= j)
  IN  IF seen = {} THEN Nothing ELSE figures[ChecksOf[c][first]]

-----------------------------------------------------------------------------
(* What the page says.                                                     *)

NoFigure == -1
Hundred == 10000

Floored(pct) == Min({pct \div 10, Hundred - 1})

FaultyText(w) == IF ~Measured(w) THEN NoFigure ELSE (Pct(w) + 5) \div 10
Text(w) ==
  IF ~Measured(w) THEN NoFigure
  ELSE IF w.failed = 0 THEN Hundred
  ELSE Floored(Pct(w))

Uptime ==
  LET sums == Summed
      shown == [s \in Checks |-> IF s \in OnPage THEN sums[s] ELSE Nothing]
  IN  [c \in Groups |-> Weakest(c, shown)]

\* The mean over the core components that have a figure.
Figured(uptime) == {c \in UptimeCore : Measured(uptime[c])}
SumOfShares(uptime) == SumFunction([c \in Figured(uptime) |-> Pct(uptime[c])])

Mean(uptime) == Rounded(SumOfShares(uptime), Cardinality(Figured(uptime)))

OverallText(uptime) ==
  IF Figured(uptime) = {} THEN NoFigure
  ELSE IF Mean(uptime) >= Full \/ \A c \in Figured(uptime) : uptime[c].failed = 0 THEN Hundred
  ELSE Floored(Mean(uptime))

\* One bar of a component: its weakest check of that day, listed or not.  The
\* bars go back as far as the figure above them.
ShownDays == {d \in DOMAIN days : Len(days) - d < UptimeDays}
MajorDay == 99000

Drawn(d) == IF d = Len(days) THEN Today ELSE days[d]
Cell(c, d) == Weakest(c, Drawn(d))
Bar(c, d) ==
  LET w == Cell(c, d) IN
  CASE ~Measured(w) -> "none"
    [] Measured(w) /\ w.failed = 0 -> "ok"
    [] w.failed > 0 -> IF Pct(w) < MajorDay THEN "major" ELSE "minor"

-----------------------------------------------------------------------------
UptimeTypeOK ==
  /\ days \in Seq([Checks -> Counts]) /\ Len(days) \in 1..MaxDays
  /\ live \in [Checks -> Counts]
  /\ recent \subseteq Checks \ AlwaysListed

AllListed(c, sums) == \A s \in Counted(c) : Measured(sums[s]) => s \in OnPage

\* A component's figure and its bars are computed apart, from different tables,
\* different checks and perhaps another weakest one for each day, and stand
\* next to each other.  The figure never reads better than any check listed
\* under it, "only as available as its least available part", so that no failed
\* check of theirs hides behind a 100%; it stands over no row of bars that are
\* all empty (unless it is Other's, which has none).  Once today is rolled up it
\* reads less than 100% only over a bar that shows downtime and is never below
\* the worst day; and if no check with rows has left the list, it reads 100%
\* just when no bar shows downtime and has no figure just when no day was
\* measured (aggregator.py:379-392 and 438-464, snapshot.py:67-75).
BarsMatchFigures ==
  LET uptime == Uptime
      sums == Summed
  IN
  \A c \in Groups :
    LET figure == Text(uptime[c])
        bars == {Bar(c, d) : d \in ShownDays}
        daily == {Text(Cell(c, d)) : d \in ShownDays} \ {NoFigure}
    IN  /\ \A s \in Counted(c) \cap OnPage : Measured(sums[s]) =>
             /\ figure \in 0..Text(sums[s])
             /\ sums[s].failed > 0 => figure < Hundred
        /\ c \notin Leftovers =>
             /\ figure # NoFigure => ~(bars \subseteq {"none"})
             /\ RolledUp =>
                  /\ figure \in 0..(Hundred - 1) => ~(bars \subseteq {"none", "ok"})
                  /\ figure # NoFigure => figure >= Min(daily)
                  /\ AllListed(c, sums) =>
                       /\ (figure = NoFigure) <=> (bars \subseteq {"none"})
                       /\ (figure = Hundred) <=> ("ok" \in bars /\ bars \subseteq {"none", "ok"})

\* "Never rounds UP: 99.996% with a failed check must not read 100%": nor does
\* the figure over all, which is made exact just for that (snapshot.py:67-84,
\* 268-276).
OverallHonest ==
  OverallText(Uptime) = Hundred =>
    \A c \in UptimeCore : \A s \in Counted(c) \cap OnPage : Summed[s].failed = 0

\* "A component is only as available as its least available part, and this
\* never overstates": a figure of 100% over a rolled-up today would then stand
\* over no bar with downtime (aggregator.py:379-382).
NeverOverstates ==
  RolledUp =>
    \A c \in Groups \ Leftovers :
      Text(Uptime[c]) = Hundred => {Bar(c, d) : d \in ShownDays} \subseteq {"none", "ok"}
=============================================================================
