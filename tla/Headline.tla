------------------------------- MODULE Headline -------------------------------
(***************************************************************************)
(* What the page says of this moment (aggregator.py, components.py): the   *)
(* latest row of every service, how long it may describe the present, the  *)
(* status of each component, and the one verdict over all of them.         *)
(*                                                                         *)
(* Rows are stored one by one; the page is only read when the cycle is     *)
(* over, but a crash can end a cycle after any row, and a service may be   *)
(* missing from it.                                                        *)
(*                                                                         *)
(* Definitions named Faulty... are plausible mistakes; nothing uses them.  *)
(***************************************************************************)
EXTENDS Naturals

CONSTANTS
  Services,     \* names under which rows are stored
  Catalogue,    \* SERVICES; shards and what else the platform reports are not
  Optional,     \* not shown before their first completed check
  Advisory,     \* diagnostics
  Critical,     \* CRITICAL_SERVICES
  Components,   \* GROUPS, and what is shown as Other
  ComponentOf,  \* group_of
  Core,         \* the components people use every day
  ThirdParty,   \* and those of others
  StaleAfter,   \* how old the row of a service may be to describe the present
  Recent        \* _RECENT_WINDOW

\* A diagnostic of a core component has a check beside it that is always shown.
CatalogueFits ==
  /\ Optional \cup Advisory \cup Critical \subseteq Catalogue
  /\ Catalogue \subseteq Services
  /\ ComponentOf \in [Services -> Components]
  /\ Core \subseteq Components \ ThirdParty
  /\ Recent \in Nat /\ StaleAfter \in [Services -> 0..Recent]
  /\ \A a \in Advisory : ComponentOf[a] \in Core =>
       \E s \in Catalogue \ (Optional \cup Advisory) : ComponentOf[s] = ComponentOf[a]

ASSUME HeadlineAssumption == CatalogueFits

VARIABLES
  latest,  \* the newest row of each service
  ever,    \* the optional services that daily_uptime has a row of
  quiet    \* history: how long ago a row was last stored, as far as Recent + 1

headlineVars == <<latest, ever, quiet>>

CheckStatuses == {"operational", "degraded", "down", "unknown"}
NoRow == [status |-> "none", age |-> 0]

HeadlineInit ==
  /\ latest = [s \in Services |-> NoRow]
  /\ ever = {}
  /\ quiet = Recent + 1

Store(s, status) ==
  /\ latest' = [latest EXCEPT ![s] = [status |-> status, age |-> 0]]
  /\ quiet' = 0
  /\ UNCHANGED ever

\* roll_up_after_probe gives a day's row to what was completed.
Completed(s) == latest[s].status \in {"operational", "degraded", "down"}
RollUp ==
  /\ ever' = ever \cup {s \in Optional : Completed(s)}
  /\ UNCHANGED <<latest, quiet>>

\* The owner's reset empties probe_results before daily_uptime, and may stop
\* in between.
Reset ==
  /\ latest' = [s \in Services |-> NoRow]
  /\ ever' \in {ever, {}}
  /\ UNCHANGED quiet

Older(row) ==
  IF row = NoRow \/ row.age = Recent THEN NoRow ELSE [row EXCEPT !.age = @ + 1]

HeadlineTick ==
  /\ latest' = [s \in Services |-> Older(latest[s])]
  /\ quiet' = IF quiet <= Recent THEN quiet + 1 ELSE quiet
  /\ UNCHANGED ever

HeadlineNext ==
  \/ \E s \in Services, status \in CheckStatuses : Store(s, status)
  \/ RollUp
  \/ Reset
  \/ HeadlineTick

HeadlineSpec == HeadlineInit /\ [][HeadlineNext]_headlineVars

-----------------------------------------------------------------------------
(* latest_per_service                                                      *)

Shown(s) ==
  \/ latest[s] # NoRow
  \/ s \in Catalogue /\ (s \in ever \/ s \notin Optional)

Status(s) ==
  IF latest[s] = NoRow \/ latest[s].age > StaleAfter[s] THEN "unknown" ELSE latest[s].status

-----------------------------------------------------------------------------
(* overall_status                                                          *)

Own == {s \in Services : Shown(s) /\ ComponentOf[s] \notin ThirdParty}
FaultyPrimary == Own
Primary == Own \ Advisory
Has(S, status) == \E s \in S : Status(s) = status
Known(S) == \E s \in S : Status(s) # "unknown"

FaultySilent(c) ==
  LET members == {s \in Services : Shown(s) /\ ComponentOf[s] = c}
  IN  members # {} /\ ~Known(members)
\* silent_core_components: every counted check of it is without data.
Silent(c) ==
  LET members == {s \in Services \ Advisory : Shown(s) /\ ComponentOf[s] = c}
  IN  members # {} /\ ~Known(members)

AdvisoryDown == Has(Own \cap Advisory, "down")

Overall ==
  CASE ~Known(Primary) /\ ~AdvisoryDown -> "unknown"
    [] AdvisoryDown \/ Has(Primary, "down") ->
         IF Has(Primary \cap Critical, "down") THEN "outage" ELSE "partial_outage"
    [] ~AdvisoryDown /\ ~Has(Primary, "down") /\ Has(Primary, "degraded") -> "degraded"
    [] OTHER -> IF \E c \in Core : Silent(c) THEN "limited" ELSE "operational"

-----------------------------------------------------------------------------
(* build_components and _rollup                                            *)

Members(c) == {s \in Services : Shown(s) /\ ComponentOf[s] = c}
Listed == {c \in Components : Members(c) # {}}

FaultyFailing(c) == {s \in Members(c) \ Advisory : Status(s) = "down"}
Failing(c) == {s \in Members(c) : Status(s) = "down"}
\* What its status is taken from: counted checks with data, failing diagnostics.
Telling(c) == {s \in Members(c) \ Advisory : Status(s) # "unknown"} \cup Failing(c)

RollupOf(c) ==
  CASE Telling(c) = {} -> "unknown"
    [] Telling(c) # {} /\ Failing(c) = Telling(c) -> "down"
    [] Failing(c) # {} /\ Failing(c) # Telling(c) -> "partial"
    [] OTHER -> IF Has(Telling(c), "degraded") THEN "degraded" ELSE "operational"

-----------------------------------------------------------------------------
HeadlineTypeOK ==
  /\ latest \in [Services -> [status : CheckStatuses, age : 0..Recent] \cup {NoRow}]
  /\ ever \subseteq Optional
  /\ quiet \in 0..(Recent + 1)

\* The verdict at the top and the list under it never tell two stories: an
\* outage is there exactly when some component of ours is down in part, and
\* "limited" exactly when all that can be seen is well but a component people
\* use every day shows no data (aggregator.py:169-228, computed twice).
OwnListed == Listed \ ThirdParty
SomeComponent(statuses) == \E c \in OwnListed : RollupOf(c) \in statuses

HeadlineAgrees ==
  /\ Overall = "unknown" <=> ~SomeComponent({"operational", "degraded", "partial", "down"})
  /\ Overall \in {"outage", "partial_outage"} <=> SomeComponent({"partial", "down"})
  /\ Overall = "degraded" <=> /\ ~SomeComponent({"partial", "down"})
                              /\ SomeComponent({"degraded"})
  /\ Overall = "limited" => \E c \in OwnListed \cap Core : RollupOf(c) = "unknown"
  /\ Overall = "operational" => \A c \in OwnListed \cap Core : RollupOf(c) # "unknown"

\* "All systems operational" is said only of what was looked at, lately: every
\* core component that is shown has a check that passed and is not stale, and
\* no check of ours that is not stale failed (aggregator.py:187-191, 196-201).
Fresh(s) == latest[s] # NoRow /\ latest[s].age <= StaleAfter[s]

AllGoodIsMeasured ==
  Overall = "operational" =>
    /\ \A c \in Core \cap Listed :
         \E s \in Services \ Advisory :
           ComponentOf[s] = c /\ Fresh(s) /\ latest[s].status = "operational"
    /\ \A s \in Services :
         Fresh(s) /\ ComponentOf[s] \notin ThirdParty => latest[s].status # "down"

\* When the scheduler stops, the page falls back to "no data" as soon as the
\* checks that count have gone stale; a certificate check that is valid for
\* hours does not keep it on "operational" (aggregator.py:42-44, 173-175).
StoppedIsNoData ==
  (\A s \in Services \ Advisory : quiet > StaleAfter[s]) =>
    \/ Overall = "unknown"
    \/ \E a \in Advisory : Fresh(a) /\ latest[a].status = "down"
=============================================================================
