----------------------------- MODULE SiteVerdict -----------------------------
(***************************************************************************)
(* Is the website down?  A probe cycle asks it itself, retrying a failure; *)
(* then it counts the votes of the other places whose reports it holds,    *)
(* and if nobody else reported it asks whether its own connection works    *)
(* (scheduler.py 214-275 and site_consensus, probes/http.py, monitor.py).  *)
(* Between those steps the cycle awaits: time passes, the world changes    *)
(* and reports arrive (ingest.py, store_vantage_report), late, repeated,   *)
(* out of order and with the sender's own clock, and are kept over a       *)
(* crash.  The world is who could reach the site at each time, and whether *)
(* our connection worked.                                                  *)
(***************************************************************************)
EXTENDS Integers, FiniteSets

CONSTANTS
  Vantages,           \* the other places that check the site
  Home,               \* our own monitor
  Attempts,           \* PROBE_ATTEMPTS
  Fresh,              \* VANTAGE_FRESH_SECONDS: how old a report may be to vote
  ReplayWindow,       \* how far a signature's time may be from ours
  Skew,               \* how far a sender's clock may be from ours
  MaxPoints,          \* MAX_VANTAGE_POINTS: how many places are remembered
  Controls,           \* TRUE if MONITOR_CONTROL_URLS names any endpoint
  MaxTime,            \* bound on the time a run covers
  MaxCycles           \* bound on the cycles in a run

ASSUME SiteAssumption ==
  /\ Home \notin Vantages /\ IsFiniteSet(Vantages)
  /\ {Fresh, ReplayWindow, Skew, MaxPoints, MaxTime, MaxCycles} \subseteq Nat
  /\ Attempts \in Nat \ {0}
  /\ Controls \in BOOLEAN

Places == Vantages \cup {Home}

\* Nothing of ours reaches the site over a connection that does not work.
Worlds == {w \in [reach : SUBSET Places, line : BOOLEAN] : Home \in w.reach => w.line}

VARIABLES
  now,                \* our clock
  world,              \* the world at each time so far
  held,               \* the report held of each vantage point (meta_kv)
  pc,                 \* where the cycle is
  tries,              \* the attempts made so far
  own,                \* what our own check saw
  checked,            \* when it saw that
  others,             \* the places whose reports were counted
  voted,              \* when they were counted
  verdict,            \* the cycle's verdict on the website
  cycles              \* the cycles finished

vars == <<now, world, held, pc, tries, own, checked, others, voted, verdict, cycles>>

NoReport == [status |-> "none"]

HeldReports == [status : {"up", "down"}, ts : Int, at : Nat]

TypeOK ==
  /\ now \in Nat
  /\ world \in [0..now -> Worlds]
  /\ held \in [Vantages -> HeldReports \cup {NoReport}]
  /\ pc \in {"idle", "retry", "vote", "control", "decided"}
  /\ tries \in 0..Attempts
  /\ own \in {"none", "up", "down"}
  /\ checked \in 0..now
  /\ others \subseteq Vantages
  /\ voted \in 0..now
  /\ verdict \in {"none", "up", "down", "nodata"}
  /\ cycles \in Nat

\* What place p sees when it loads the site at time t.
Sees(p, t) == IF p \in world[t].reach THEN "up" ELSE "down"

-----------------------------------------------------------------------------
(* Reports from other places.  A definition named Faulty..., Hasty... or   *)
(* Deaf... is a plausible mistake in the code of the definition that       *)
(* follows it; nothing uses it but the check that a property notices it.   *)

\* store_vantage_report refuses a report signed before the one held, and a new
\* place when there are too many.  The same report again is as good as new.
Acceptable(v, ts) ==
  IF held[v] = NoReport
  THEN Cardinality({u \in Vantages : held[u] # NoReport}) < MaxPoints
  ELSE held[v].ts <= ts

\* verify: the signature's time is close enough to ours.
InWindow(ts) == now - ts <= ReplayWindow /\ ts - now <= ReplayWindow

\* Any check that any place has made can arrive now, over our connection.
Receive(v, made, skew) ==
  LET ts == made + skew IN
  /\ world[now].line
  /\ InWindow(ts)
  /\ Acceptable(v, ts)
  /\ held' = [held EXCEPT ![v] = [status |-> Sees(v, made), ts |-> ts, at |-> now]]
  /\ UNCHANGED <<now, world, pc, tries, own, checked, others, voted, verdict, cycles>>

\* Every report held votes, whatever its age.
FaultyFreshReports == {v \in Vantages : held[v] # NoReport}

\* vantage_reports: those received recently enough to vote on the present.
FreshReports == {v \in Vantages : held[v] # NoReport /\ now - held[v].at <= Fresh}

-----------------------------------------------------------------------------
(* The cycle.                                                              *)

Failed(places) == {v \in places : held[v].status = "down"}

\* Half of the places are taken for most of them.
HastyMostFailed(places) ==
  LET downVotes == Cardinality(Failed(places)) + (IF own = "down" THEN 1 ELSE 0)
  IN  2 * downVotes >= Cardinality(places) + 1

\* Our own check has no vote.
DeafMostFailed(places) == 2 * Cardinality(Failed(places)) > Cardinality(places) + 1

\* site_consensus: most of the places that looked could not reach the site.
MostFailed(places) ==
  LET downVotes == Cardinality(Failed(places)) + (IF own = "down" THEN 1 ELSE 0)
  IN  2 * downVotes > Cardinality(places) + 1

\* One attempt of probe_readiness, the n-th: a failure is retried, and
\* believed once there are no attempts left.
Attempt(n) ==
  /\ tries' = n
  /\ checked' = now
  /\ \/ /\ Sees(Home, now) = "up"
        /\ own' = "up" /\ pc' = "vote"
     \/ /\ Sees(Home, now) = "down" /\ n < Attempts
        /\ own' = own /\ pc' = "retry"
     \/ /\ Sees(Home, now) = "down" /\ n = Attempts
        /\ own' = "down" /\ pc' = "vote"
  /\ UNCHANGED <<now, world, held, others, voted, verdict, cycles>>

StartCycle ==
  /\ pc = "idle" /\ cycles < MaxCycles
  /\ Attempt(1)

Retry ==
  /\ pc = "retry"
  /\ Attempt(tries + 1)

\* The other places vote.  Only a failure nobody else has spoken about leads
\* to the question whether it is ours.
Vote ==
  /\ pc = "vote"
  /\ others' = FreshReports
  /\ voted' = now
  /\ \/ /\ FreshReports # {}
        /\ verdict' = IF MostFailed(FreshReports) THEN "down" ELSE "up"
        /\ pc' = "decided"
     \/ /\ FreshReports = {} /\ own = "up"
        /\ verdict' = "up"
        /\ pc' = "decided"
     \/ /\ FreshReports = {} /\ own = "down"
        /\ pc' = "control"
        /\ UNCHANGED verdict
  /\ UNCHANGED <<now, world, held, tries, own, checked, cycles>>

\* The answer of the control endpoints is not looked at.
FaultyAskControls ==
  /\ pc = "control"
  /\ verdict' = "down"
  /\ pc' = "decided"
  /\ UNCHANGED <<now, world, held, tries, own, checked, others, voted, cycles>>

\* monitor_online: the control endpoints answer over a connection that works.
\* With none configured there is no way to tell, and the check is believed.
AskControls ==
  /\ pc = "control"
  /\ verdict' = IF Controls /\ ~world[now].line THEN "nodata" ELSE "down"
  /\ pc' = "decided"
  /\ UNCHANGED <<now, world, held, tries, own, checked, others, voted, cycles>>

Forget ==
  /\ pc' = "idle" /\ tries' = 0 /\ own' = "none" /\ checked' = 0
  /\ others' = {} /\ voted' = 0 /\ verdict' = "none"

\* The row of the website is stored (module Incidents goes on from there).
FinishCycle ==
  /\ pc = "decided"
  /\ Forget
  /\ cycles' = cycles + 1
  /\ UNCHANGED <<now, world, held>>

\* The process stops and starts again.  What it held of others is in the database.
Crash ==
  /\ pc # "idle"
  /\ Forget
  /\ UNCHANGED <<now, world, held, cycles>>

\* Time passes, during a cycle as well, and the world may be another one.
Tick ==
  /\ now < MaxTime
  /\ now' = now + 1
  /\ \E w \in Worlds : world' = [t \in 0..(now + 1) |-> IF t = now + 1 THEN w ELSE world[t]]
  /\ UNCHANGED <<held, pc, tries, own, checked, others, voted, verdict, cycles>>

Init ==
  /\ now = 0
  /\ world \in [{0} -> Worlds]
  /\ held = [v \in Vantages |-> NoReport]
  /\ pc = "idle" /\ tries = 0 /\ own = "none" /\ checked = 0
  /\ others = {} /\ voted = 0 /\ verdict = "none"
  /\ cycles = 0

Next ==
  \/ \E v \in Vantages, made \in 0..now, skew \in (-Skew)..Skew : Receive(v, made, skew)
  \/ StartCycle
  \/ Retry
  \/ Vote
  \/ AskControls
  \/ FinishCycle
  \/ Crash
  \/ Tick

Spec == Init /\ [][Next]_vars

-----------------------------------------------------------------------------
(* Properties.                                                             *)

\* A vote is about a check at most this much older than the count.
VoteAge == Fresh + ReplayWindow + Skew

\* Place p, whose vote was counted, did see this when it looked.
Saw(p, what) ==
  IF p = Home THEN Sees(p, checked) = what
  ELSE \E t \in 0..voted : voted - t <= VoteAge /\ Sees(p, t) = what

Voters(what) == {p \in others \cup {Home} : Saw(p, what)}

\* "It counts as down only when most of them cannot reach it": when others
\* voted, most of the places really failed, each at a time the vote is about,
\* however old, late, repeated or reordered their reports are.
OutageIsReal ==
  pc = "decided" /\ verdict = "down" /\ others # {} =>
    2 * Cardinality(Voters("down")) > Cardinality(others) + 1

\* The other way round: the site is not called up unless half of the places
\* really reached it, so old good news does not hide an outage.
OutageIsSeen ==
  pc = "decided" /\ verdict = "up" =>
    2 * Cardinality(Voters("up")) >= Cardinality(others) + 1

\* A connection of ours that has been out for as long as a report stays fresh
\* makes no outage: the cycle is "no data".
OwnFaultIsNoOutage ==
  [][Controls /\ verdict' = "down" /\ verdict # "down" =>
       \E t \in 0..now : now - t <= Fresh /\ world[t].line]_vars

\* "Their reports reached us, so our connection works" (the comment above the
\* control check): no outage is recorded while our own connection is out.
OfflineIsNoOutage ==
  [][Controls /\ verdict' = "down" /\ verdict # "down" => world[now].line]_vars
=============================================================================
