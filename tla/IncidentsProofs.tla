--------------------------- MODULE IncidentsProofs ---------------------------
(***************************************************************************)
(* What holds of Incidents for every set of services and every length of   *)
(* its windows, as long as they are ordered as IncidentsAssumption says:   *)
(* a service is in one incident at a time, every confirmed outage whose    *)
(* roll-up ran is in one, no good news lies inside one, and the table      *)
(* changes only as its readers count on (module IncidentTable).            *)
(***************************************************************************)
EXTENDS Incidents, TLAPS, WellFoundedInduction

\* The rows of the cycles that have been: one at most for each service and
\* cycle.  While a roll-up runs, no time passes.
RowsInv ==
  /\ lastCycle <= now
  /\ \A r \in rows : r.at <= lastCycle
  /\ \A r, q \in rows : r.service = q.service /\ r.at = q.at => r = q
  /\ phase = "rollup" => lastCycle = now
  /\ phase = "idle" => todo = {}

IdsInv ==
  /\ \A i \in incidents : i.id < nextId /\ i.started <= lastCycle /\ i.ended <= lastCycle
  /\ \A i, j \in incidents : i.id = j.id => i = j

\* The row an open incident began with is there, or no row is older than it.
StartInv ==
  \A i \in incidents : i.ended = NotEnded =>
    \/ \E r \in DownRowsOf(i.service) : r.at = i.started
    \/ \A r \in RowsOf(i.service) : i.started <= r.at

\* A down row from before the end e of an incident of s never begins another
\* one: it is no longer recent, or a later row breaks its streak.
Past(s, e) ==
  \A r \in DownRowsOf(s) : r.at < e =>
    r.at < now - Recent \/ \E q \in RowsOf(s) : r.at < q.at /\ q.status # "down"

PastInv == \A i \in incidents : i.ended # NotEnded => Past(i.service, i.ended)

IInv ==
  /\ RowsInv
  /\ IdsInv
  /\ StartInv
  /\ PastInv
  /\ IncidentsInSequence
  /\ OutagesRecorded
  /\ IncidentsHonest

USE IncidentsAssumption DEF NotEnded, Never, Statuses

-----------------------------------------------------------------------------
(* The latest row.                                                         *)

LEMMA LeastExists ==
  ASSUME NEW S, S \subseteq Nat, S # {}
  PROVE  \E x \in S : \A y \in S : x <= y
<1>1. PICK x \in S : \A y \in S : ~(<<y, x>> \in OpToRel(<, Nat))
  BY NatLessThanWellFounded, WFMin
<1>2. \A y \in S : ~(y < x)
  BY <1>1 DEF OpToRel
<1>3. QED
  BY <1>2

LEMMA GreatestExists ==
  ASSUME NEW S, NEW bound \in Nat, S \subseteq 0..bound, S # {}
  PROVE  \E x \in S : \A y \in S : y <= x
<1> DEFINE T == {bound - x : x \in S}
<1>1. PICK t \in T : \A y \in T : t <= y
  <2>1. T \subseteq Nat
    OBVIOUS
  <2>2. T # {}
    OBVIOUS
  <2> HIDE DEF T
  <2>3. QED
    BY <2>1, <2>2, LeastExists
<1>2. PICK x \in S : t = bound - x
  OBVIOUS
<1>3. \A y \in S : t <= bound - y
  BY <1>1
<1>4. QED
  BY <1>2, <1>3

LEMMA RowTypes ==
  ASSUME TypeOK, RowsInv, NEW s \in Services
  PROVE  /\ \A r \in RowsOf(s) : /\ r \in rows /\ r.service = s /\ r.at \in 0..lastCycle
                                 /\ r.status \in {"up", "down", "nodata"}
         /\ \A r, q \in RowsOf(s) : r.at = q.at => r = q
         /\ now \in Nat /\ lastCycle \in Nat /\ lastCycle <= now
BY DEF TypeOK, RowsInv, RowsOf, Rows

\* A service with a recent row has a latest one.
LEMMA LatestExists ==
  ASSUME TypeOK, RowsInv, NEW s \in Services, NEW r \in RowsOf(s), r.at >= now - Recent
  PROVE  \E row \in Latest(s) : r.at <= row.at
<1> DEFINE Times == {q.at : q \in RowsOf(s)}
<1>1. Times \subseteq 0..lastCycle /\ lastCycle \in Nat
  BY RowTypes
<1>2. r.at \in Times
  OBVIOUS
<1> HIDE DEF Times
<1>3. PICK t \in Times : \A u \in Times : u <= t
  BY <1>1, <1>2, GreatestExists
<1> USE DEF Times
<1>4. PICK row \in RowsOf(s) : row.at = t
  OBVIOUS
<1>5. \A q \in RowsOf(s) : q.at <= row.at
  BY <1>3, <1>4
<1>6. QED
  BY <1>5, RowTypes DEF Latest

\* What Latest gives is a recent row that no row of the service is later than.
LEMMA LatestIs ==
  ASSUME TypeOK, RowsInv, NEW s \in Services, NEW row \in Latest(s)
  PROVE  /\ row \in RowsOf(s) /\ row.at >= now - Recent
         /\ \A q \in RowsOf(s) : q.at <= row.at
  BY DEF Latest

\* A service that has been seen down has a last time it was.
LEMMA LatestDownExists ==
  ASSUME TypeOK, RowsInv, NEW s \in Services, DownRowsOf(s) # {}
  PROVE  \E r \in DownRowsOf(s) : \A q \in DownRowsOf(s) : q.at <= r.at
<1> DEFINE Times == {q.at : q \in DownRowsOf(s)}
<1>1. Times \subseteq 0..lastCycle /\ lastCycle \in Nat /\ Times # {}
  BY RowTypes DEF DownRowsOf
<1> HIDE DEF Times
<1>2. PICK t \in Times : \A u \in Times : u <= t
  BY <1>1, GreatestExists
<1> USE DEF Times
<1>3. PICK r \in DownRowsOf(s) : r.at = t
  OBVIOUS
<1>4. QED
  BY <1>2, <1>3

-----------------------------------------------------------------------------
(* Type correctness.                                                       *)

LEMMA TypeInit == Init => TypeOK
  BY DEF Init, TypeOK

LEMMA StartOfTypes ==
  ASSUME TypeOK, NEW s \in Services, NEW row \in Latest(s)
  PROVE  StartOf(s, row) \subseteq Nat
<1>1. \A r \in RowsOf(s) : r.at \in Nat
  BY DEF TypeOK, RowsOf, Rows
<1>2. QED
  BY <1>1 DEF StartOf, Streak, Latest

LEMMA LastDownTypes ==
  ASSUME TypeOK, NEW s \in Services, NEW i \in OpenOf(s)
  PROVE  LastDown(s, i) \subseteq Nat
<1>1. \A r \in RowsOf(s) : r.at \in Nat
  BY DEF TypeOK, RowsOf, Rows
<1>2. i.started \in Nat
  BY DEF OpenOf, TypeOK, IncidentRows
<1>3. QED
  BY <1>1, <1>2 DEF LastDown, DownRowsOf

LEMMA CloseTypes ==
  ASSUME TypeOK, NEW i \in incidents, NEW end \in Nat, Close(i, end)
  PROVE  incidents' \subseteq IncidentRows
  BY DEF TypeOK, Close, IncidentRows

LEMMA TypeNext == TypeOK /\ [Next]_vars => TypeOK'
<1> SUFFICES ASSUME TypeOK, [Next]_vars PROVE TypeOK'
  OBVIOUS
<1>1. ASSUME NEW report \in Reports, Persist(report) PROVE TypeOK'
  <2>1. \A s \in DOMAIN report : s \in Services /\ report[s] \in Statuses
    BY DEF Reports
  <2>2. rows' \subseteq Rows
    BY <1>1, <2>1 DEF Persist, TypeOK, Rows
  <2>3. QED
    BY <1>1, <2>2 DEF Persist, TypeOK
<1>2. ASSUME NEW s \in Services, RollUp(s) PROVE TypeOK'
  <2>1. CASE Opens(s)
    <3>1. PICK row \in Latest(s) : \E start \in StartOf(s, row) :
            incidents' = incidents \cup
              {[id |-> nextId, service |-> s, started |-> start, ended |-> NotEnded]}
      BY <2>1 DEF Opens
    <3>2. PICK start \in Nat :
            incidents' = incidents \cup
              {[id |-> nextId, service |-> s, started |-> start, ended |-> NotEnded]}
      BY <3>1, StartOfTypes
    <3>3. incidents' \subseteq IncidentRows /\ nextId' \in Nat
      BY <2>1, <3>2 DEF Opens, TypeOK, IncidentRows
    <3>4. QED
      BY <1>2, <3>3 DEF RollUp, TypeOK
  <2>2. CASE Recovers(s)
    <3>1. PICK row \in Latest(s), i \in OpenOf(s) : Close(i, row.at)
      BY <2>2 DEF Recovers
    <3>2. row.at \in Nat /\ i \in incidents
      BY DEF Latest, RowsOf, OpenOf, TypeOK, Rows
    <3>3. incidents' \subseteq IncidentRows /\ nextId' \in Nat
      BY <2>2, <3>1, <3>2, CloseTypes DEF Recovers, TypeOK
    <3>4. QED
      BY <1>2, <3>3 DEF RollUp, TypeOK
  <2>3. CASE GoesCold(s)
    <3>1. PICK i \in OpenOf(s) : \E end \in LastDown(s, i) : Close(i, end)
      BY <2>3 DEF GoesCold
    <3>2. i \in incidents /\ \E end \in Nat : Close(i, end)
      BY <3>1, LastDownTypes DEF OpenOf
    <3>3. incidents' \subseteq IncidentRows /\ nextId' \in Nat
      BY <2>3, <3>2, CloseTypes DEF GoesCold, TypeOK
    <3>4. QED
      BY <1>2, <3>3 DEF RollUp, TypeOK
  <2>4. CASE LeftAlone(s)
    BY <1>2, <2>4 DEF RollUp, LeftAlone, TypeOK
  <2>5. QED
    BY <1>2, <2>1, <2>2, <2>3, <2>4 DEF RollUp
<1>3. CASE FinishCycle
  <2>1. now \div Day \in Nat
    BY DEF TypeOK
  <2>2. QED
    BY <1>3, <2>1 DEF FinishCycle, PruneIfDue, TypeOK
<1>4. CASE StopCycle
  BY <1>4 DEF StopCycle, TypeOK
<1>5. CASE Reset
  BY <1>5 DEF Reset, TypeOK
<1>6. CASE Tick
  BY <1>6 DEF Tick, TypeOK
<1>7. CASE UNCHANGED vars
  BY <1>7 DEF vars, TypeOK
<1>8. QED
  BY <1>1, <1>2, <1>3, <1>4, <1>5, <1>6, <1>7 DEF Next

\* Every reachable state of the checks and incidents is well typed.
THEOREM TypeCorrect == Spec => []TypeOK
  BY TypeInit, TypeNext, PTL DEF Spec

-----------------------------------------------------------------------------
(* What a roll-up writes.                                                  *)

\* An incident starts at a recent row that begins an unbroken run of down rows.
LEMMA StartFacts ==
  ASSUME TypeOK, RowsInv, NEW s \in Services, NEW row \in Latest(s), row.status = "down",
         NEW start \in StartOf(s, row)
  PROVE  \E r \in DownRowsOf(s) :
           /\ r.at = start /\ r.at >= now - Recent
           /\ \A q \in RowsOf(s) : r.at <= q.at => q.status = "down"
<1>1. CASE Streak(s) = {}
  <2>1. start = row.at
    BY <1>1 DEF StartOf
  <2>2. row \in DownRowsOf(s) /\ row.at >= now - Recent
    BY LatestIs DEF DownRowsOf
  <2>3. ASSUME NEW q \in RowsOf(s), row.at <= q.at PROVE q.status = "down"
    <3>1. q.at = row.at
      BY <2>3, LatestIs, RowTypes
    <3>2. q = row
      BY <3>1, LatestIs, RowTypes
    <3>3. QED
      BY <3>2
  <2>4. QED
    BY <2>1, <2>2, <2>3
<1>2. CASE Streak(s) # {}
  <2>1. PICK r \in Streak(s) : r.at = start
    BY <1>2 DEF StartOf
  <2>2. r \in RowsOf(s) /\ r.at >= now - StreakWindow
    BY DEF Streak
  <2>3. \A q \in RowsOf(s) : r.at <= q.at => q.status = "down"
    <3>1. r.at \in Nat /\ \A q \in RowsOf(s) : q.at \in Nat
      BY <2>2, RowTypes
    <3>2. QED
      BY <3>1 DEF Streak
  <2>4. r.status = "down" /\ r.at >= now - Recent
    BY <2>2, <2>3, RowTypes
  <2>5. QED
    BY <2>1, <2>2, <2>3, <2>4 DEF DownRowsOf
<1>3. QED
  BY <1>1, <1>2

\* What the end of an incident owes to the rows, whichever way it is closed.
EndFacts(s, i, end) ==
  /\ end \in 0..lastCycle
  /\ i.started <= end
  /\ \A r \in DownRowsOf(s) : r.at <= end
  /\ Past(s, end)

LEMMA RecoveryEnds ==
  ASSUME TypeOK, RowsInv, StartInv, NEW s \in Services, NEW i \in OpenOf(s),
         NEW row \in Latest(s), row.status = "up"
  PROVE  EndFacts(s, i, row.at)
<1>1. /\ row \in RowsOf(s) /\ row.at >= now - Recent /\ row.at \in 0..lastCycle
      /\ \A q \in RowsOf(s) : q.at <= row.at
  BY LatestIs, RowTypes
<1>2. i.started \in Nat /\ i.service = s /\ i.ended = NotEnded /\ i \in incidents
  BY DEF OpenOf, TypeOK, IncidentRows
<1>3. i.started <= row.at
  BY <1>1, <1>2 DEF StartInv, DownRowsOf
<1>4. Past(s, row.at)
  BY <1>1 DEF Past
<1>5. QED
  BY <1>1, <1>3, <1>4 DEF EndFacts, DownRowsOf

LEMMA ColdEnds ==
  ASSUME TypeOK, RowsInv, IdsInv, StartInv, NEW s \in Services, NEW i \in OpenOf(s),
         ~HasVerdict(s), NEW end \in LastDown(s, i)
  PROVE  EndFacts(s, i, end)
<1>1. i.started \in Nat /\ i.service = s /\ i.ended = NotEnded /\ i \in incidents
  BY DEF OpenOf, TypeOK, IncidentRows
<1>2. CASE DownRowsOf(s) = {}
  <2>1. end = i.started
    BY <1>2 DEF LastDown
  <2>2. i.started \in 0..lastCycle
    BY <1>1, RowTypes DEF IdsInv
  <2>3. QED
    BY <1>2, <2>1, <2>2 DEF EndFacts, Past
<1>3. CASE DownRowsOf(s) # {}
  <2>1. PICK d \in DownRowsOf(s) : d.at = end /\ \A r \in DownRowsOf(s) : r.at <= d.at
    BY <1>3 DEF LastDown
  <2>2. d \in RowsOf(s) /\ \A r \in DownRowsOf(s) : r \in RowsOf(s)
    BY DEF DownRowsOf
  <2>3. d.at \in 0..lastCycle
    BY <2>2, RowTypes
  <2>4. i.started <= d.at
    BY <1>1, <2>1, <2>2 DEF StartInv
  <2>5. ASSUME NEW r \in DownRowsOf(s), r.at < end, ~(r.at < now - Recent)
        PROVE  \E q \in RowsOf(s) : r.at < q.at /\ q.status # "down"
    <3>1. r.at >= now - Recent /\ d.at >= now - Recent
      BY <2>1, <2>2, <2>5, RowTypes
    <3>2. PICK row \in Latest(s) : d.at <= row.at
      BY <2>2, <3>1, LatestExists
    <3>3. row \in RowsOf(s) /\ row.status # "down"
      BY LatestIs DEF HasVerdict
    <3>4. r.at < row.at
      BY <2>1, <2>2, <2>5, <3>2, <3>3, RowTypes
    <3>5. QED
      BY <3>3, <3>4
  <2>6. QED
    BY <2>1, <2>3, <2>4, <2>5 DEF EndFacts, Past
<1>4. QED
  BY <1>2, <1>3

\* A roll-up of s opens an incident of s, closes the open one, or neither.
LEMMA RollUpCases ==
  ASSUME TypeOK, RowsInv, IdsInv, StartInv, NEW s \in Services, RollUp(s)
  PROVE  \/ /\ OpenOf(s) = {} /\ nextId' = nextId + 1
            /\ \E r \in DownRowsOf(s) :
                 /\ r.at >= now - Recent
                 /\ \A q \in RowsOf(s) : r.at <= q.at => q.status = "down"
                 /\ incidents' = incidents \cup
                      {[id |-> nextId, service |-> s, started |-> r.at, ended |-> NotEnded]}
         \/ /\ nextId' = nextId
            /\ \E i \in OpenOf(s), end \in 0..lastCycle : Close(i, end) /\ EndFacts(s, i, end)
         \/ LeftAlone(s)
<1>1. ASSUME Opens(s)
      PROVE  /\ OpenOf(s) = {} /\ nextId' = nextId + 1
             /\ \E r \in DownRowsOf(s) :
                  /\ r.at >= now - Recent
                  /\ \A q \in RowsOf(s) : r.at <= q.at => q.status = "down"
                  /\ incidents' = incidents \cup
                       {[id |-> nextId, service |-> s, started |-> r.at, ended |-> NotEnded]}
  <2>1. PICK row \in Latest(s) :
          /\ row.status = "down"
          /\ \E start \in StartOf(s, row) :
               incidents' = incidents \cup
                 {[id |-> nextId, service |-> s, started |-> start, ended |-> NotEnded]}
    BY <1>1 DEF Opens
  <2>2. PICK start \in StartOf(s, row) :
          incidents' = incidents \cup
            {[id |-> nextId, service |-> s, started |-> start, ended |-> NotEnded]}
    BY <2>1
  <2>3. PICK r \in DownRowsOf(s) :
          /\ r.at = start /\ r.at >= now - Recent
          /\ \A q \in RowsOf(s) : r.at <= q.at => q.status = "down"
    BY <2>1, <2>2, StartFacts
  <2>4. QED
    BY <1>1, <2>2, <2>3 DEF Opens
<1>2. ASSUME Recovers(s)
      PROVE  /\ nextId' = nextId
             /\ \E i \in OpenOf(s), end \in 0..lastCycle : Close(i, end) /\ EndFacts(s, i, end)
  <2>1. PICK row \in Latest(s), i \in OpenOf(s) : row.status = "up" /\ Close(i, row.at)
    BY <1>2 DEF Recovers
  <2>2. EndFacts(s, i, row.at) /\ row.at \in 0..lastCycle
    BY <2>1, RecoveryEnds DEF EndFacts
  <2>3. QED
    BY <1>2, <2>1, <2>2 DEF Recovers
<1>3. ASSUME GoesCold(s)
      PROVE  /\ nextId' = nextId
             /\ \E i \in OpenOf(s), end \in 0..lastCycle : Close(i, end) /\ EndFacts(s, i, end)
  <2>1. PICK i \in OpenOf(s) : \E end \in LastDown(s, i) : Close(i, end)
    BY <1>3 DEF GoesCold
  <2>2. PICK end \in LastDown(s, i) : Close(i, end)
    BY <2>1
  <2>3. EndFacts(s, i, end) /\ end \in 0..lastCycle
    BY <1>3, ColdEnds DEF GoesCold, EndFacts
  <2>4. QED
    BY <1>3, <2>2, <2>3 DEF GoesCold
<1>4. QED
  BY <1>1, <1>2, <1>3 DEF RollUp

-----------------------------------------------------------------------------
(* The invariant is kept by the roll-up.                                   *)

LEMMA IncidentTypes ==
  ASSUME TypeOK
  PROVE  \A i \in incidents : /\ i.id \in Nat /\ i.service \in Services
                              /\ i.started \in Nat /\ i.ended \in Int
                              /\ i.ended # NotEnded => i.ended \in Nat
  BY DEF TypeOK, IncidentRows

\* What a roll-up leaves alone, in the terms of the invariant.
LEMMA RollUpFrame ==
  ASSUME NEW s \in Services, RollUp(s)
  PROVE  /\ now' = now /\ rows' = rows /\ lastCycle' = lastCycle /\ lost' = lost /\ phase' = phase
         /\ todo' = todo \ {s} /\ s \in todo /\ phase = "rollup"
         /\ \A t : RowsOf(t)' = RowsOf(t) /\ DownRowsOf(t)' = DownRowsOf(t)
         /\ \A t, e : Past(t, e)' = Past(t, e)
         /\ \A r : Unseen(r)' = (Unseen(r) /\ ~(/\ r.service = s
                                               /\ r.at = lastCycle
                                               /\ <<r.service, r.at>> \notin lost))
  BY DEF RollUp, RowsOf, DownRowsOf, Past, Unseen

\* A new incident of s, starting at r, begins after all that s was in.
LEMMA OpenedAfter ==
  ASSUME TypeOK, IInv, NEW s \in Services, OpenOf(s) = {},
         NEW r \in DownRowsOf(s), r.at >= now - Recent,
         \A q \in RowsOf(s) : r.at <= q.at => q.status = "down"
  PROVE  \A i \in incidents : i.service = s => i.ended # NotEnded /\ i.ended <= r.at
<1> SUFFICES ASSUME NEW i \in incidents, i.service = s
             PROVE  i.ended # NotEnded /\ i.ended <= r.at
  OBVIOUS
<1>1. r \in RowsOf(s) /\ r.at \in 0..lastCycle /\ lastCycle \in Nat
  BY RowTypes DEF DownRowsOf, IInv
<1>2. i.ended # NotEnded
  BY DEF OpenOf
<1>3. Past(s, i.ended)
  BY <1>2 DEF IInv, PastInv
<1>4. ~(r.at < i.ended)
  BY <1>1, <1>3, RowTypes DEF Past, IInv
<1>5. QED
  BY <1>1, <1>2, <1>4, IncidentTypes

\* A new incident of s, starting at r, keeps the invariant.
LEMMA OpenKeepsInv ==
  ASSUME TypeOK, IInv, NEW s \in Services, RollUp(s), OpenOf(s) = {}, nextId' = nextId + 1,
         NEW r \in DownRowsOf(s), r.at >= now - Recent,
         \A q \in RowsOf(s) : r.at <= q.at => q.status = "down",
         incidents' = incidents \cup
           {[id |-> nextId, service |-> s, started |-> r.at, ended |-> NotEnded]}
  PROVE  IInv'
<1> DEFINE new == [id |-> nextId, service |-> s, started |-> r.at, ended |-> NotEnded]
<1>1. new.id = nextId /\ new.service = s /\ new.started = r.at /\ new.ended = NotEnded
  OBVIOUS
<1>2. incidents' = incidents \cup {new}
  OBVIOUS
<1>3. /\ r \in RowsOf(s) /\ r.at \in 0..lastCycle /\ r.status = "down"
      /\ nextId \in Nat /\ lastCycle \in Nat
  BY RowTypes DEF DownRowsOf, IInv, TypeOK
<1> HIDE DEF new
<1>4. RowsInv'
  BY RollUpFrame DEF IInv, RowsInv
<1>5. IdsInv'
  BY <1>1, <1>2, <1>3, IncidentTypes, RollUpFrame DEF IInv, IdsInv
<1>6. StartInv'
  BY <1>1, <1>2, RollUpFrame DEF IInv, StartInv
<1>7. PastInv'
  BY <1>1, <1>2, RollUpFrame DEF IInv, PastInv
<1>8. \A i \in incidents : i.service = s => i.ended # NotEnded /\ i.ended <= r.at
  BY OpenedAfter
<1>9. IncidentsInSequence'
  BY <1>1, <1>2, <1>3, <1>8, IncidentTypes DEF IInv, IdsInv, IncidentsInSequence
<1>10. OutagesRecorded'
  <2> SUFFICES ASSUME NEW t \in Services, NEW d \in DownRowsOf(t), ~Unseen(d)'
               PROVE  \E i \in incidents' : i.service = t /\ Covers(i, d.at)
    BY RollUpFrame DEF OutagesRecorded, Covers
  <2>1. d \in RowsOf(t) /\ d.service = t /\ d.at \in 0..lastCycle
    BY RowTypes DEF DownRowsOf, IInv
  <2>2. CASE ~Unseen(d)
    BY <1>2, <2>2 DEF IInv, OutagesRecorded
  <2>3. CASE Unseen(d)
    <3>1. t = s /\ d.at = lastCycle
      BY <2>1, <2>3, RollUpFrame
    <3>2. Covers(new, d.at)
      BY <1>1, <1>3, <3>1 DEF Covers
    <3>3. QED
      BY <1>1, <1>2, <3>1, <3>2
  <2>4. QED
    BY <2>2, <2>3
<1>11. IncidentsHonest'
  <2> SUFFICES ASSUME NEW t \in Services, NEW u \in RowsOf(t), NEW i \in incidents',
                      u.status = "up", i.service = t, i.started < u.at,
                      i.ended = NotEnded \/ u.at < i.ended
               PROVE  Unseen(u)'
    BY RollUpFrame DEF IncidentsHonest
  <2>1. u.service = t /\ u.at \in 0..lastCycle
    BY RowTypes DEF IInv
  <2>2. i # new
    BY <1>1, <1>3, <2>1
  <2>3. i \in incidents
    BY <1>2, <2>2
  <2>4. Unseen(u)
    BY <2>3 DEF IInv, IncidentsHonest
  <2>5. t = s => i.ended # NotEnded /\ i.ended <= lastCycle
    BY <1>8, <2>3 DEF IInv, IdsInv
  <2>6. ~(t = s /\ u.at = lastCycle)
    BY <1>3, <2>1, <2>3, <2>5, IncidentTypes
  <2>7. QED
    BY <2>1, <2>4, <2>6, RollUpFrame
<1>12. QED
  BY <1>4, <1>5, <1>6, <1>7, <1>9, <1>10, <1>11 DEF IInv

\* Closing the open incident of s at a proper end keeps it.
LEMMA CloseKeepsInv ==
  ASSUME TypeOK, IInv, NEW s \in Services, RollUp(s), nextId' = nextId,
         NEW old \in OpenOf(s), NEW end \in 0..lastCycle, Close(old, end), EndFacts(s, old, end)
  PROVE  IInv'
<1> DEFINE new == [old EXCEPT !.ended = end]
<1>1. /\ old \in incidents /\ old.service = s /\ old.ended = NotEnded
      /\ lastCycle \in Nat /\ end \in Nat
  BY DEF OpenOf, TypeOK
<1>2. new.id = old.id /\ new.service = s /\ new.started = old.started /\ new.ended = end
  BY <1>1 DEF TypeOK, IncidentRows
<1>3. incidents' = (incidents \ {old}) \cup {new}
  BY DEF Close
<1> HIDE DEF new
<1>4. RowsInv'
  BY RollUpFrame DEF IInv, RowsInv
<1>5. IdsInv'
  BY <1>1, <1>2, <1>3, IncidentTypes, RollUpFrame DEF IInv, IdsInv
<1>6. StartInv'
  BY <1>1, <1>2, <1>3, RollUpFrame DEF IInv, StartInv
<1>7. PastInv'
  BY <1>2, <1>3, RollUpFrame DEF IInv, PastInv, EndFacts
<1>8. \A i \in incidents : i.service = s => i = old \/ (i.id < old.id /\ i.ended # NotEnded /\ i.ended <= old.started)
  <2>1. \A i \in incidents : i.service = s => ~(old.id < i.id)
    BY <1>1 DEF IInv, IncidentsInSequence
  <2>2. \A i \in incidents : i.service = s => i = old \/ i.id < old.id
    BY <1>1, <2>1, IncidentTypes DEF IInv, IdsInv
  <2>3. QED
    BY <1>1, <2>2 DEF IInv, IncidentsInSequence
<1>9. IncidentsInSequence'
  <2>1. \A i \in incidents' : i.ended # NotEnded => i.started <= i.ended
    BY <1>2, <1>3 DEF IInv, IncidentsInSequence, EndFacts
  <2>2. ASSUME NEW i \in incidents', NEW j \in incidents', i.service = j.service, i.id < j.id
        PROVE  i.ended # NotEnded /\ i.ended <= j.started
    <3>1. CASE i = new
      <4>1. j # new /\ j \in incidents /\ j.service = s
        BY <1>1, <1>2, <1>3, <2>2, <3>1, IncidentTypes
      <4>2. j.id < old.id
        BY <1>3, <1>8, <4>1
      <4>3. QED
        BY <1>1, <1>2, <2>2, <3>1, <4>1, <4>2, IncidentTypes
    <3>2. CASE i # new /\ j = new
      BY <1>2, <1>3, <1>8, <2>2, <3>2
    <3>3. CASE i # new /\ j # new
      BY <1>3, <2>2, <3>3 DEF IInv, IncidentsInSequence
    <3>4. QED
      BY <3>1, <3>2, <3>3
  <2>3. QED
    BY <2>1, <2>2 DEF IncidentsInSequence
<1>10. OutagesRecorded'
  <2> SUFFICES ASSUME NEW t \in Services, NEW d \in DownRowsOf(t), ~Unseen(d)'
               PROVE  \E i \in incidents' : i.service = t /\ Covers(i, d.at)
    BY RollUpFrame DEF OutagesRecorded, Covers
  <2>1. d \in RowsOf(t) /\ d.service = t /\ d.at \in 0..lastCycle
    BY RowTypes DEF DownRowsOf, IInv
  <2>2. t = s => d.at <= end
    BY DEF EndFacts
  <2>3. Covers(old, d.at) /\ t = s => Covers(new, d.at)
    BY <1>2, <2>2 DEF Covers
  <2>4. CASE ~Unseen(d)
    <3>1. PICK i \in incidents : i.service = t /\ Covers(i, d.at)
      BY <2>4 DEF IInv, OutagesRecorded
    <3>2. QED
      BY <1>1, <1>2, <1>3, <2>3, <3>1
  <2>5. CASE Unseen(d)
    <3>1. t = s /\ d.at = lastCycle
      BY <2>1, <2>5, RollUpFrame
    <3>2. Covers(old, d.at)
      BY <1>1, <3>1 DEF Covers, IInv, IdsInv
    <3>3. QED
      BY <1>2, <1>3, <2>3, <3>1, <3>2
  <2>6. QED
    BY <2>4, <2>5
<1>11. IncidentsHonest'
  <2> SUFFICES ASSUME NEW t \in Services, NEW u \in RowsOf(t), NEW i \in incidents',
                      u.status = "up", i.service = t, i.started < u.at,
                      i.ended = NotEnded \/ u.at < i.ended
               PROVE  Unseen(u)'
    BY RollUpFrame DEF IncidentsHonest
  <2>1. u.service = t /\ u.at \in 0..lastCycle
    BY RowTypes DEF IInv
  <2>2. PICK j \in incidents : j.service = t /\ j.started = i.started /\ (j.ended = NotEnded \/ u.at < j.ended)
    BY <1>1, <1>2, <1>3
  <2>3. Unseen(u)
    BY <2>2 DEF IInv, IncidentsHonest
  <2>4. t = s => i.ended \in Nat /\ i.ended <= lastCycle
    BY <1>1, <1>2, <1>3, <1>8, IncidentTypes DEF IInv, IdsInv
  <2>5. t = s => u.at # lastCycle
    BY <1>1, <2>1, <2>4
  <2>6. QED
    BY <2>1, <2>3, <2>5, RollUpFrame
<1>12. QED
  BY <1>4, <1>5, <1>6, <1>7, <1>9, <1>10, <1>11 DEF IInv

\* Where the roll-up leaves s alone, the row of the cycle agrees with that.
LEMMA LeftAloneKeepsInv ==
  ASSUME TypeOK, IInv, NEW s \in Services, RollUp(s), LeftAlone(s)
  PROVE  IInv'
<1>1. UNCHANGED <<incidents, nextId>> /\ now = lastCycle /\ now \in Nat
  BY RollUpFrame DEF LeftAlone, IInv, RowsInv, TypeOK
<1>2. RowsInv' /\ IdsInv' /\ StartInv' /\ PastInv' /\ IncidentsInSequence'
  BY <1>1, RollUpFrame DEF IInv, RowsInv, IdsInv, StartInv, PastInv, IncidentsInSequence
<1>3. \A r \in RowsOf(s) : r.at = lastCycle => r \in Latest(s)
  BY <1>1, RowTypes DEF Latest, IInv
<1>4. OutagesRecorded'
  <2> SUFFICES ASSUME NEW t \in Services, NEW d \in DownRowsOf(t), ~Unseen(d)'
               PROVE  \E i \in incidents : i.service = t /\ Covers(i, d.at)
    BY <1>1, RollUpFrame DEF OutagesRecorded, Covers
  <2>1. d \in RowsOf(t) /\ d.service = t /\ d.status = "down"
    BY RowTypes DEF DownRowsOf, IInv
  <2>2. CASE ~Unseen(d)
    BY <2>2 DEF IInv, OutagesRecorded
  <2>3. CASE Unseen(d)
    <3>1. t = s /\ d.at = lastCycle
      BY <2>1, <2>3, RollUpFrame
    <3>2. PICK i \in OpenOf(s) : TRUE
      BY <1>3, <2>1, <3>1 DEF LeftAlone
    <3>3. QED
      BY <3>1, <3>2 DEF OpenOf, Covers, IInv, IdsInv
  <2>4. QED
    BY <2>2, <2>3
<1>5. IncidentsHonest'
  <2> SUFFICES ASSUME NEW t \in Services, NEW u \in RowsOf(t), NEW i \in incidents,
                      u.status = "up", i.service = t, i.started < u.at,
                      i.ended = NotEnded \/ u.at < i.ended
               PROVE  Unseen(u)'
    BY <1>1, RollUpFrame DEF IncidentsHonest
  <2>1. u.service = t /\ u.at \in 0..lastCycle
    BY RowTypes DEF IInv
  <2>2. Unseen(u)
    BY DEF IInv, IncidentsHonest
  <2>3. ~(t = s /\ u.at = lastCycle)
    <3> SUFFICES ASSUME t = s, u.at = lastCycle PROVE FALSE
      OBVIOUS
    <3>1. OpenOf(s) = {}
      BY <1>3 DEF LeftAlone
    <3>2. i.ended # NotEnded /\ i.ended <= lastCycle
      BY <3>1 DEF OpenOf, IInv, IdsInv
    <3>3. QED
      BY <1>1, <3>2, IncidentTypes
  <2>4. QED
    BY <2>1, <2>2, <2>3, RollUpFrame
<1>6. QED
  BY <1>2, <1>4, <1>5 DEF IInv

LEMMA RollUpKeepsInv ==
  ASSUME TypeOK, IInv, NEW s \in Services, RollUp(s)
  PROVE  IInv'
<1>1. \/ /\ OpenOf(s) = {} /\ nextId' = nextId + 1
         /\ \E r \in DownRowsOf(s) :
              /\ r.at >= now - Recent
              /\ \A q \in RowsOf(s) : r.at <= q.at => q.status = "down"
              /\ incidents' = incidents \cup
                   {[id |-> nextId, service |-> s, started |-> r.at, ended |-> NotEnded]}
      \/ /\ nextId' = nextId
         /\ \E i \in OpenOf(s), end \in 0..lastCycle : Close(i, end) /\ EndFacts(s, i, end)
      \/ LeftAlone(s)
  BY RollUpCases DEF IInv
<1>2. QED
  BY <1>1, OpenKeepsInv, CloseKeepsInv, LeftAloneKeepsInv

-----------------------------------------------------------------------------
(* The invariant is kept by the other actions.                             *)

\* The new rows are later than every row and every incident's end.
LEMMA PersistKeepsInv ==
  ASSUME TypeOK, TypeOK', IInv, NEW report \in Reports, Persist(report)
  PROVE  IInv'
<1>1. /\ phase = "idle" /\ lastCycle < now /\ phase' = "rollup" /\ todo' = Services
      /\ lastCycle' = now /\ UNCHANGED <<now, incidents, nextId, lost>>
      /\ now \in Nat /\ lastCycle \in Nat /\ todo = {}
  BY DEF Persist, TypeOK, IInv, RowsInv
<1>2. /\ \A r \in rows' : r \in rows \/ (r.at = now /\ r.status \in Statuses)
      /\ \A r \in rows' \ rows, q \in rows' \ rows : r.service = q.service => r = q
      /\ rows \subseteq rows'
  <2>1. \A t \in DOMAIN report : report[t] \in Statuses
    BY DEF Reports
  <2>2. QED
    BY <2>1 DEF Persist
<1>3. \A r \in rows : r.at \in Nat /\ r.at <= lastCycle
  BY DEF TypeOK, Rows, IInv, RowsInv
<1>4. RowsInv'
  <2>1. \A r, q \in rows' : r.service = q.service /\ r.at = q.at => r = q
    BY <1>1, <1>2, <1>3 DEF IInv, RowsInv
  <2>2. QED
    BY <1>1, <1>2, <1>3, <2>1 DEF RowsInv
<1>5. IdsInv' /\ IncidentsInSequence'
  BY <1>1, IncidentTypes DEF IInv, IdsInv, IncidentsInSequence
<1>6. \A t : /\ RowsOf(t) \subseteq RowsOf(t)' /\ DownRowsOf(t) \subseteq DownRowsOf(t)'
             /\ \A r \in RowsOf(t)' : r \in RowsOf(t) \/ (r \in rows' /\ r.service = t /\ r.at = now)
             /\ \A r \in DownRowsOf(t)' : r \in DownRowsOf(t) \/ (r \in rows' /\ r.service = t /\ r.at = now)
  BY <1>2 DEF RowsOf, DownRowsOf
<1>7. StartInv'
  BY <1>1, <1>6, IncidentTypes DEF IInv, IdsInv, StartInv
<1>8. PastInv'
  <2> SUFFICES ASSUME NEW i \in incidents, i.ended # NotEnded,
                      NEW r \in DownRowsOf(i.service)', r.at < i.ended, ~(r.at < now - Recent)
               PROVE  \E q \in RowsOf(i.service)' : r.at < q.at /\ q.status # "down"
    BY <1>1 DEF PastInv, Past
  <2>1. i.ended <= lastCycle /\ i.ended \in Nat
    BY IncidentTypes DEF IInv, IdsInv
  <2>2. r \in DownRowsOf(i.service)
    <3>1. r.at # now
      BY <1>1, <2>1
    <3>2. r \in rows /\ r.service = i.service /\ r.status = "down"
      BY <1>2, <3>1 DEF DownRowsOf, RowsOf
    <3>3. QED
      BY <3>2 DEF DownRowsOf, RowsOf
  <2>3. \E q \in RowsOf(i.service) : r.at < q.at /\ q.status # "down"
    BY <2>2 DEF IInv, PastInv, Past
  <2>4. QED
    BY <1>6, <2>3
<1>9. \A t \in Services : \A r \in RowsOf(t)' : r \notin RowsOf(t) => Unseen(r)'
  BY <1>1, <1>6 DEF Unseen
<1>10. \A r : Unseen(r) => Unseen(r)'
  BY <1>1 DEF Unseen
<1>11. OutagesRecorded'
  <2> SUFFICES ASSUME NEW t \in Services, NEW d \in DownRowsOf(t)', ~Unseen(d)'
               PROVE  \E i \in incidents' : i.service = t /\ Covers(i, d.at)
    BY DEF OutagesRecorded, Covers
  <2>1. d \in RowsOf(t)' /\ (d \in DownRowsOf(t) \/ d \notin RowsOf(t))
    BY DEF DownRowsOf, RowsOf
  <2>2. d \in DownRowsOf(t) /\ ~Unseen(d)
    BY <1>9, <1>10, <2>1
  <2>3. QED
    BY <1>1, <2>2 DEF IInv, OutagesRecorded
<1>12. IncidentsHonest'
  <2> SUFFICES ASSUME NEW t \in Services, NEW u \in RowsOf(t)', NEW i \in incidents,
                      u.status = "up", i.service = t, i.started < u.at,
                      i.ended = NotEnded \/ u.at < i.ended
               PROVE  Unseen(u)'
    BY <1>1 DEF IncidentsHonest
  <2>1. CASE u \in RowsOf(t)
    BY <1>10, <2>1 DEF IInv, IncidentsHonest
  <2>2. CASE u \notin RowsOf(t)
    BY <1>9, <2>2
  <2>3. QED
    BY <2>1, <2>2
<1>13. QED
  BY <1>4, <1>5, <1>7, <1>8, <1>11, <1>12 DEF IInv

\* Pruning takes the older rows of every service, never one from between.
LEMMA FinishKeepsInv ==
  ASSUME TypeOK, IInv, FinishCycle
  PROVE  IInv'
<1>1. /\ phase' = "idle" /\ todo = {} /\ UNCHANGED <<now, incidents, nextId, todo, lastCycle, lost>>
      /\ now \in Nat
  BY DEF FinishCycle, TypeOK
<1>2. rows' = {r \in rows : r.at >= now - Retention} \/ rows' = rows
  BY DEF FinishCycle, PruneIfDue
<1>3. \A r \in rows : r.at \in Nat
  BY DEF TypeOK, Rows
<1>4. /\ rows' \subseteq rows
      /\ \A r \in rows', q \in rows : r.at <= q.at => q \in rows'
      /\ \A r \in rows \ rows', q \in rows' : r.at < q.at
  BY <1>1, <1>2, <1>3
<1>5. \A t : RowsOf(t)' \subseteq RowsOf(t) /\ DownRowsOf(t)' \subseteq DownRowsOf(t)
  BY <1>4 DEF RowsOf, DownRowsOf
<1>6. RowsInv' /\ IdsInv' /\ IncidentsInSequence'
  BY <1>1, <1>4 DEF IInv, RowsInv, IdsInv, IncidentsInSequence
<1>7. StartInv'
  <2> SUFFICES ASSUME NEW i \in incidents, i.ended = NotEnded
               PROVE  \/ \E r \in DownRowsOf(i.service)' : r.at = i.started
                      \/ \A r \in RowsOf(i.service)' : i.started <= r.at
    BY <1>1 DEF StartInv
  <2>1. CASE \A r \in RowsOf(i.service) : i.started <= r.at
    BY <1>5, <2>1
  <2>2. ASSUME NEW r \in DownRowsOf(i.service), r.at = i.started
        PROVE  \/ \E q \in DownRowsOf(i.service)' : q.at = i.started
               \/ \A q \in RowsOf(i.service)' : i.started <= q.at
    <3>1. CASE r \in rows'
      <4>1. r \in DownRowsOf(i.service)'
        BY <3>1 DEF DownRowsOf, RowsOf
      <4>2. QED
        BY <2>2, <4>1
    <3>2. CASE r \notin rows'
      <4>1. r \in rows
        BY DEF DownRowsOf, RowsOf
      <4>2. \A q \in rows' : r.at < q.at
        BY <1>4, <3>2, <4>1
      <4>3. \A q \in RowsOf(i.service)' : i.started <= q.at
        BY <1>3, <1>4, <2>2, <4>1, <4>2 DEF RowsOf
      <4>4. QED
        BY <4>3
    <3>3. QED
      BY <3>1, <3>2
  <2>3. QED
    BY <2>1, <2>2 DEF IInv, StartInv
<1>8. PastInv'
  <2> SUFFICES ASSUME NEW i \in incidents, i.ended # NotEnded,
                      NEW r \in DownRowsOf(i.service)', r.at < i.ended, ~(r.at < now - Recent)
               PROVE  \E q \in RowsOf(i.service)' : r.at < q.at /\ q.status # "down"
    BY <1>1 DEF PastInv, Past
  <2>1. r \in DownRowsOf(i.service) /\ r \in rows'
    BY <1>5 DEF DownRowsOf, RowsOf
  <2>2. PICK q \in RowsOf(i.service) : r.at < q.at /\ q.status # "down"
    BY <2>1 DEF IInv, PastInv, Past
  <2>3. q \in RowsOf(i.service)'
    BY <1>3, <1>4, <2>1, <2>2 DEF RowsOf
  <2>4. QED
    BY <2>2, <2>3
<1>9. \A r : Unseen(r)' = Unseen(r)
  BY <1>1 DEF Unseen
<1>10. OutagesRecorded'
  BY <1>1, <1>5, <1>9 DEF IInv, OutagesRecorded, Covers
<1>11. IncidentsHonest'
  BY <1>1, <1>5, <1>9 DEF IInv, IncidentsHonest
<1>12. QED
  BY <1>6, <1>7, <1>8, <1>10, <1>11 DEF IInv

\* A cycle that stops half-way leaves its rows unseen by a roll-up.
LEMMA StopKeepsInv ==
  ASSUME TypeOK, IInv, StopCycle
  PROVE  IInv'
<1>1. UNCHANGED <<now, rows, incidents, nextId, lastCycle>> /\ phase' = "idle" /\ todo' = {}
  BY DEF StopCycle
<1>2. \A t : RowsOf(t)' = RowsOf(t) /\ DownRowsOf(t)' = DownRowsOf(t)
  BY <1>1 DEF RowsOf, DownRowsOf
<1>3. \A r : Unseen(r) => Unseen(r)'
  BY DEF StopCycle, Unseen
<1>4. RowsInv' /\ IdsInv' /\ StartInv' /\ PastInv' /\ IncidentsInSequence'
  BY <1>1, <1>2 DEF IInv, RowsInv, IdsInv, StartInv, PastInv, Past, IncidentsInSequence
<1>5. OutagesRecorded'
  BY <1>1, <1>2, <1>3 DEF IInv, OutagesRecorded, Covers
<1>6. IncidentsHonest'
  BY <1>1, <1>2, <1>3 DEF IInv, IncidentsHonest
<1>7. QED
  BY <1>4, <1>5, <1>6 DEF IInv

\* With the rows gone, whatever incidents are left stay in order.
LEMMA ResetKeepsInv ==
  ASSUME TypeOK, IInv, Reset
  PROVE  IInv'
<1>1. /\ rows' = {} /\ incidents' \subseteq incidents
      /\ UNCHANGED <<now, nextId, phase, todo, lastCycle, lost>>
  BY DEF Reset
<1>2. \A t : RowsOf(t)' = {} /\ DownRowsOf(t)' = {}
  BY <1>1 DEF RowsOf, DownRowsOf
<1>3. RowsInv' /\ IdsInv' /\ StartInv' /\ PastInv' /\ IncidentsInSequence'
  BY <1>1, <1>2 DEF IInv, RowsInv, IdsInv, StartInv, PastInv, Past, IncidentsInSequence
<1>4. OutagesRecorded' /\ IncidentsHonest'
  BY <1>2 DEF OutagesRecorded, IncidentsHonest
<1>5. QED
  BY <1>3, <1>4 DEF IInv

LEMMA TickKeepsInv ==
  ASSUME TypeOK, IInv, Tick
  PROVE  IInv'
<1>1. /\ now' = now + 1 /\ now \in Nat /\ phase = "idle" /\ lastCycle \in Nat
      /\ UNCHANGED <<rows, incidents, nextId, phase, todo, lastCycle, lost>>
  BY DEF Tick, TypeOK
<1>2. \A t : RowsOf(t)' = RowsOf(t) /\ DownRowsOf(t)' = DownRowsOf(t)
  BY <1>1 DEF RowsOf, DownRowsOf
<1>3. \A r : Unseen(r)' = Unseen(r)
  BY <1>1 DEF Unseen
<1>4. RowsInv' /\ IdsInv' /\ StartInv' /\ IncidentsInSequence'
  BY <1>1, <1>2 DEF IInv, RowsInv, IdsInv, StartInv, IncidentsInSequence
<1>5. PastInv'
  <2>1. \A i \in incidents : \A r \in DownRowsOf(i.service) : r.at \in Nat
    BY DEF DownRowsOf, RowsOf, TypeOK, Rows
  <2>2. QED
    BY <1>1, <1>2, <2>1 DEF IInv, PastInv, Past
<1>6. OutagesRecorded' /\ IncidentsHonest'
  BY <1>1, <1>2, <1>3 DEF IInv, OutagesRecorded, IncidentsHonest, Covers
<1>7. QED
  BY <1>4, <1>5, <1>6 DEF IInv

LEMMA InvInit == Init => IInv
  BY DEF Init, IInv, RowsInv, IdsInv, StartInv, PastInv, IncidentsInSequence,
         OutagesRecorded, IncidentsHonest, DownRowsOf, RowsOf

LEMMA InvNext == TypeOK /\ IInv /\ [Next]_vars => IInv'
<1> SUFFICES ASSUME TypeOK, IInv, [Next]_vars PROVE IInv'
  OBVIOUS
<1>1. TypeOK'
  BY TypeNext
<1>2. ASSUME NEW report \in Reports, Persist(report) PROVE IInv'
  BY <1>1, <1>2, PersistKeepsInv
<1>3. ASSUME NEW s \in Services, RollUp(s) PROVE IInv'
  BY <1>3, RollUpKeepsInv
<1>4. CASE FinishCycle
  BY <1>4, FinishKeepsInv
<1>5. CASE StopCycle
  BY <1>5, StopKeepsInv
<1>6. CASE Reset
  BY <1>6, ResetKeepsInv
<1>7. CASE Tick
  BY <1>7, TickKeepsInv
<1>8. CASE UNCHANGED vars
  BY <1>8 DEF vars, IInv, RowsInv, IdsInv, StartInv, PastInv, Past, IncidentsInSequence,
         OutagesRecorded, IncidentsHonest, DownRowsOf, RowsOf, Unseen, Covers
<1>9. QED
  BY <1>2, <1>3, <1>4, <1>5, <1>6, <1>7, <1>8 DEF Next

-----------------------------------------------------------------------------
(* What an incident left open rests on.                                    *)

RestsOnEvidence(s) ==
  \A i \in OpenOf(s) :
    \/ \E r \in DownRowsOf(s) : r.at >= now - Recent
    \/ DownRowsOf(s) = {} /\ i.started > now - NoDataClose

\* A service that is left alone and has an open incident is down, or has last
\* been seen down (or begun, when nothing is left to see) less than NoDataClose
\* ago.
LEMMA LeftAloneRests ==
  ASSUME TypeOK, RowsInv, NEW s \in Services, LeftAlone(s)
  PROVE  RestsOnEvidence(s)
<1> SUFFICES ASSUME NEW i \in OpenOf(s)
             PROVE  \/ \E r \in DownRowsOf(s) : r.at >= now - Recent
                    \/ DownRowsOf(s) = {} /\ i.started > now - NoDataClose
  BY DEF RestsOnEvidence
<1>1. i.started \in Nat /\ now \in Nat
  BY DEF OpenOf, TypeOK, IncidentRows
<1>2. CASE HasVerdict(s)
  <2>1. PICK row \in Latest(s) : row.status = "down"
    BY <1>2 DEF HasVerdict, LeftAlone
  <2>2. QED
    BY <2>1, LatestIs DEF DownRowsOf
<1>3. CASE ~HasVerdict(s) /\ DownRowsOf(s) = {}
  <2>1. i.started \in LastDown(s, i)
    BY <1>3 DEF LastDown
  <2>2. now - i.started < NoDataClose
    BY <1>3, <2>1 DEF LeftAlone
  <2>3. QED
    BY <1>1, <1>3, <2>2
<1>4. CASE ~HasVerdict(s) /\ DownRowsOf(s) # {}
  <2>1. PICK r \in DownRowsOf(s) : \A q \in DownRowsOf(s) : q.at <= r.at
    BY <1>4, LatestDownExists
  <2>2. r.at \in LastDown(s, i) /\ r.at \in Nat
    BY <2>1, RowTypes DEF LastDown, DownRowsOf
  <2>3. now - r.at < NoDataClose
    BY <1>4, <2>2 DEF LeftAlone
  <2>4. QED
    BY <1>1, <2>2, <2>3
<1>5. QED
  BY <1>2, <1>3, <1>4

\* Whatever the roll-up does with s, no open incident of s is left without
\* evidence: it opens one on a recent row, or closes the only one.
LEMMA RollUpRests ==
  ASSUME TypeOK, IInv, NEW s \in Services, RollUp(s)
  PROVE  RestsOnEvidence(s)'
<1>1. /\ now' = now /\ DownRowsOf(s)' = DownRowsOf(s) /\ now \in Nat
  BY RollUpFrame DEF TypeOK
<1>2. CASE \E r \in DownRowsOf(s) :
             /\ r.at >= now - Recent
             /\ incidents' = incidents \cup
                  {[id |-> nextId, service |-> s, started |-> r.at, ended |-> NotEnded]}
  BY <1>1, <1>2 DEF RestsOnEvidence
<1>3. CASE \E i \in OpenOf(s), end \in 0..lastCycle : Close(i, end)
  <2>1. PICK i \in OpenOf(s), end \in 0..lastCycle : Close(i, end)
    BY <1>3
  <2>2. \A j \in OpenOf(s) : j = i
    BY IncidentTypes DEF OpenOf, IInv, IdsInv, IncidentsInSequence
  <2>3. [i EXCEPT !.ended = end].ended = end /\ end # NotEnded
    BY IncidentTypes DEF OpenOf, TypeOK, IncidentRows
  <2>4. OpenOf(s)' = {}
    BY <2>1, <2>2, <2>3 DEF OpenOf, Close
  <2>5. QED
    BY <2>4 DEF RestsOnEvidence
<1>4. CASE LeftAlone(s)
  <2>1. RestsOnEvidence(s)
    BY <1>4, LeftAloneRests DEF IInv
  <2>2. OpenOf(s)' = OpenOf(s)
    BY <1>4 DEF LeftAlone, OpenOf
  <2>3. QED
    BY <1>1, <2>1, <2>2 DEF RestsOnEvidence
<1>5. QED
  BY <1>2, <1>3, <1>4, RollUpCases DEF IInv

\* What the roll-up does with s touches no incident of another service.
LEMMA OthersRest ==
  ASSUME TypeOK, IInv, NEW s \in Services, RollUp(s), NEW t \in Services, t # s,
         RestsOnEvidence(t)
  PROVE  RestsOnEvidence(t)'
<1>1. now' = now /\ DownRowsOf(t)' = DownRowsOf(t)
  BY RollUpFrame
<1>2. \A i \in OpenOf(t)' : i \in OpenOf(t)
  <2>1. CASE \E start : incidents' = incidents \cup
               {[id |-> nextId, service |-> s, started |-> start, ended |-> NotEnded]}
    BY <2>1 DEF OpenOf
  <2>2. CASE \E i \in OpenOf(s), end \in 0..lastCycle : Close(i, end)
    <3>1. PICK i \in OpenOf(s), end \in 0..lastCycle : Close(i, end)
      BY <2>2
    <3>2. [i EXCEPT !.ended = end].service = s
      BY DEF OpenOf, TypeOK, IncidentRows
    <3>3. QED
      BY <3>1, <3>2 DEF OpenOf, Close
  <2>3. CASE LeftAlone(s)
    BY <2>3 DEF LeftAlone, OpenOf
  <2>4. QED
    BY <2>1, <2>2, <2>3, RollUpCases DEF IInv
<1>3. QED
  BY <1>1, <1>2 DEF RestsOnEvidence

LEMMA RestsInit == Init => OpenRestsOnEvidence
  BY DEF Init, OpenRestsOnEvidence

LEMMA RestsNext == TypeOK /\ IInv /\ OpenRestsOnEvidence /\ [Next]_vars => OpenRestsOnEvidence'
<1> SUFFICES ASSUME TypeOK, IInv, OpenRestsOnEvidence, [Next]_vars, phase' = "rollup"
             PROVE  \A t \in Services \ todo' : RestsOnEvidence(t)'
  BY DEF OpenRestsOnEvidence, RestsOnEvidence
<1>1. ASSUME NEW report \in Reports, Persist(report) PROVE Services \ todo' = {}
  BY <1>1 DEF Persist
<1>2. ASSUME NEW s \in Services, RollUp(s), NEW t \in Services \ todo'
      PROVE  RestsOnEvidence(t)'
  <2>1. CASE t = s
    BY <1>2, <2>1, RollUpRests
  <2>2. CASE t # s
    <3>1. phase = "rollup" /\ t \in Services \ todo
      BY <1>2, <2>2 DEF RollUp
    <3>2. RestsOnEvidence(t)
      BY <3>1 DEF OpenRestsOnEvidence, RestsOnEvidence
    <3>3. QED
      BY <1>2, <2>2, <3>2, OthersRest
  <2>3. QED
    BY <2>1, <2>2
<1>3. ~FinishCycle /\ ~StopCycle /\ ~Reset /\ ~Tick
  BY DEF FinishCycle, StopCycle, Reset, Tick
<1>4. ASSUME UNCHANGED vars, NEW t \in Services \ todo' PROVE RestsOnEvidence(t)'
  BY <1>4 DEF vars, OpenRestsOnEvidence, RestsOnEvidence, OpenOf, DownRowsOf, RowsOf
<1>5. QED
  BY <1>1, <1>2, <1>3, <1>4 DEF Next

-----------------------------------------------------------------------------
(* The theorems.                                                           *)

LEMMA Invariance == Spec => []IInv
  BY InvInit, InvNext, TypeCorrect, PTL DEF Spec

\* A service is in one incident at a time, and incidents do not overlap.
THEOREM Sequence == Spec => []IncidentsInSequence
<1>1. IInv => IncidentsInSequence
  BY DEF IInv
<1>2. QED
  BY <1>1, Invariance, PTL

\* Every check that found a service down, and whose roll-up ran, lies in an
\* incident of that service.
THEOREM Recorded == Spec => []OutagesRecorded
<1>1. IInv => OutagesRecorded
  BY DEF IInv
<1>2. QED
  BY <1>1, Invariance, PTL

\* No check that found a service working, and whose roll-up ran, lies inside
\* an incident of it.
THEOREM Honest == Spec => []IncidentsHonest
<1>1. IInv => IncidentsHonest
  BY DEF IInv
<1>2. QED
  BY <1>1, Invariance, PTL

\* Once the roll-up has come to a service, an incident it leaves open rests on a
\* recent down check, or began a short time ago: none stays open for ever.
THEOREM Evidence == Spec => []OpenRestsOnEvidence
  BY RestsInit, RestsNext, Invariance, TypeCorrect, PTL DEF Spec

-----------------------------------------------------------------------------
(* What the readers of the table may rely on.                              *)

RowOf(i) == [service |-> i.service, started |-> i.started, ended |-> i.ended]

LEMMA RowOfIs ==
  ASSUME NEW i
  PROVE  RowOf(i).service = i.service /\ RowOf(i).started = i.started /\ RowOf(i).ended = i.ended
  BY DEF RowOf

LEMMA ByIdIs ==
  ASSUME NEW T, \A i, j \in T : i.id = j.id => i = j
  PROVE  /\ DOMAIN ById(T) = {i.id : i \in T}
         /\ ById(T) = [id \in {i.id : i \in T} |-> ById(T)[id]]
         /\ \A i \in T : ById(T)[i.id] = RowOf(i)
<1>1. \A i \in T : (CHOOSE j \in T : j.id = i.id) = i
  OBVIOUS
<1>2. QED
  BY <1>1 DEF ById, RowOf

LEMMA TableOpens ==
  ASSUME TypeOK, IInv, IInv', NEW s \in Services, now' = now, OpenOf(s) = {}, nextId' = nextId + 1,
         NEW r \in DownRowsOf(s), r.at >= now - Recent,
         \A q \in RowsOf(s) : r.at <= q.at => q.status = "down",
         incidents' = incidents \cup
           {[id |-> nextId, service |-> s, started |-> r.at, ended |-> NotEnded]}
  PROVE  Table!TableNext
<1> DEFINE new == [id |-> nextId, service |-> s, started |-> r.at, ended |-> NotEnded]
           D == {i.id : i \in incidents}
<1>1. /\ r \in RowsOf(s) /\ r.at \in 0..lastCycle /\ lastCycle <= now
      /\ nextId \in Nat /\ lastCycle \in Nat /\ now \in Nat /\ Recent \in Nat
  BY RowTypes DEF DownRowsOf, IInv, TypeOK, RowsInv
<1>2. \A i \in incidents : i.service = s => i.ended # NotEnded /\ i.ended <= r.at
  BY <1>1, OpenedAfter
<1>3. /\ DOMAIN ById(incidents) = D
      /\ \A i \in incidents : ById(incidents)[i.id] = RowOf(i)
  BY ByIdIs DEF IInv, IdsInv
<1>4. \A i, j \in incidents' : i.id = j.id => i = j
  BY DEF IInv, IdsInv
<1>5. /\ ById(incidents') = [id \in {i.id : i \in incidents'} |-> ById(incidents')[id]]
      /\ \A i \in incidents' : ById(incidents')[i.id] = RowOf(i)
  BY <1>4, ByIdIs
<1>6. /\ new \in incidents' /\ incidents \subseteq incidents'
      /\ {i.id : i \in incidents'} = D \cup {nextId}
      /\ ById(incidents')[nextId] = RowOf(new)
  <2>1. new.id = nextId /\ incidents' = incidents \cup {new}
    OBVIOUS
  <2> HIDE DEF new
  <2>2. QED
    BY <1>5, <2>1
<1>7. nextId \notin D
  BY <1>1, IncidentTypes DEF IInv, IdsInv
<1>8. RowOf(new) = [service |-> s, started |-> r.at, ended |-> NotEnded]
  BY DEF RowOf
<1> HIDE DEF new, D
<1>9. \A id \in D : ById(incidents')[id] = ById(incidents)[id]
  <2>1. ASSUME NEW id \in D PROVE ById(incidents')[id] = ById(incidents)[id]
    <3>1. PICK i \in incidents : i.id = id
      BY DEF D
    <3>2. QED
      BY <1>3, <1>5, <1>6, <3>1
  <2>2. QED
    BY <2>1
<1>10. ById(incidents') = [id \in D \cup {nextId} |->
         IF id = nextId THEN [service |-> s, started |-> r.at, ended |-> NotEnded]
         ELSE ById(incidents)[id]]
  BY <1>5, <1>6, <1>7, <1>8, <1>9
<1>11. \A id \in D : ById(incidents)[id].service = s =>
         ById(incidents)[id].ended # NotEnded /\ ById(incidents)[id].ended <= r.at
  <2>1. ASSUME NEW id \in D, ById(incidents)[id].service = s
        PROVE  ById(incidents)[id].ended # NotEnded /\ ById(incidents)[id].ended <= r.at
    <3>1. PICK i \in incidents : i.id = id
      BY DEF D
    <3>2. ById(incidents)[id].service = i.service /\ ById(incidents)[id].ended = i.ended
      BY <1>3, <3>1, RowOfIs
    <3>3. QED
      BY <1>2, <2>1, <3>2
  <2>2. QED
    BY <2>1
<1>12. Table!OpenIncident(s, r.at)
  BY <1>1, <1>3, <1>10, <1>11 DEF Table!OpenIncident, Table!IncidentIds, Table!IsOpen, Table!NotEnded
<1>13. r.at \in (now - Recent)..now
  BY <1>1
<1>14. QED
  BY <1>12, <1>13 DEF Table!TableNext

LEMMA TableEnds ==
  ASSUME TypeOK, IInv, IInv', now' = now, nextId' = nextId, NEW s \in Services,
         NEW i \in OpenOf(s), NEW end \in 0..lastCycle, Close(i, end), EndFacts(s, i, end)
  PROVE  Table!TableNext
<1> DEFINE D == {j.id : j \in incidents}
           closed == [i EXCEPT !.ended = end]
<1>1. /\ i \in incidents /\ i.ended = NotEnded /\ i \in IncidentRows
      /\ end \in 0..now /\ i.started <= end /\ i.started \in Nat
  BY DEF OpenOf, TypeOK, IInv, RowsInv, EndFacts, IncidentRows
<1>2. /\ closed.id = i.id /\ closed.service = i.service /\ closed.started = i.started
      /\ closed.ended = end
  BY <1>1 DEF IncidentRows
<1>3. incidents' = (incidents \ {i}) \cup {closed}
  BY DEF Close
<1>4. /\ DOMAIN ById(incidents) = D
      /\ ById(incidents) = [id \in D |-> ById(incidents)[id]]
      /\ \A j \in incidents : ById(incidents)[j.id] = RowOf(j)
  BY ByIdIs DEF IInv, IdsInv
<1>5. \A j, k \in incidents' : j.id = k.id => j = k
  BY DEF IInv, IdsInv
<1>6. /\ ById(incidents') = [id \in {j.id : j \in incidents'} |-> ById(incidents')[id]]
      /\ \A j \in incidents' : ById(incidents')[j.id] = RowOf(j)
  BY <1>5, ByIdIs
<1>7. \A j \in incidents : j.id = i.id => j = i
  BY <1>1 DEF IInv, IdsInv
<1> HIDE DEF closed
<1>8. {j.id : j \in incidents'} = D
  BY <1>1, <1>2, <1>3
<1>9. \A j \in incidents : j # i => ById(incidents')[j.id] = ById(incidents)[j.id]
  BY <1>3, <1>4, <1>6
<1>10. RowOf(closed) = [RowOf(i) EXCEPT !.ended = end]
  BY <1>2 DEF RowOf
<1>11. ById(incidents')[i.id] = [ById(incidents)[i.id] EXCEPT !.ended = end]
  BY <1>1, <1>2, <1>3, <1>4, <1>6, <1>10
<1>12. i.id \in D /\ \A id \in D : id # i.id => ById(incidents')[id] = ById(incidents)[id]
  BY <1>1, <1>9
<1> HIDE DEF D
<1>13. ById(incidents') = [ById(incidents) EXCEPT ![i.id].ended = end]
  BY <1>4, <1>6, <1>8, <1>11, <1>12
<1>14. ById(incidents)[i.id].ended = NotEnded /\ ById(incidents)[i.id].started <= end
  BY <1>1, <1>4, RowOfIs
<1>15. Table!End(i.id, end)
  BY <1>1, <1>13, <1>14 DEF Table!End, Table!IsOpen, Table!NotEnded
<1>16. QED
  BY <1>1, <1>4, <1>12, <1>15 DEF Table!TableNext, Table!IncidentIds

LEMMA TableKept ==
  ASSUME TypeOK, IInv, [Next]_vars
  PROVE  [Table!TableNext]_(Table!tableVars)
<1>1. IInv'
  BY InvNext
<1>2. ASSUME UNCHANGED <<now, incidents, nextId>> PROVE UNCHANGED Table!tableVars
  BY <1>2 DEF Table!tableVars
<1>3. ASSUME NEW s \in Services, RollUp(s) PROVE Table!TableNext \/ UNCHANGED Table!tableVars
  <2>1. now' = now
    BY <1>3 DEF RollUp
  <2>2. \/ /\ OpenOf(s) = {} /\ nextId' = nextId + 1
           /\ \E r \in DownRowsOf(s) :
                /\ r.at >= now - Recent
                /\ \A q \in RowsOf(s) : r.at <= q.at => q.status = "down"
                /\ incidents' = incidents \cup
                     {[id |-> nextId, service |-> s, started |-> r.at, ended |-> NotEnded]}
        \/ /\ nextId' = nextId
           /\ \E i \in OpenOf(s), end \in 0..lastCycle : Close(i, end) /\ EndFacts(s, i, end)
        \/ LeftAlone(s)
    BY <1>3, RollUpCases DEF IInv
  <2>3. LeftAlone(s) => UNCHANGED Table!tableVars
    BY <1>2, <2>1 DEF LeftAlone
  <2>4. QED
    BY <1>1, <2>1, <2>2, <2>3, TableOpens, TableEnds
<1>4. CASE Reset
  <2>1. now' = now /\ nextId' = nextId /\ (incidents' = {} \/ incidents' = incidents)
    BY <1>4 DEF Reset
  <2>2. ASSUME incidents' = {} PROVE Table!TableNext
    <3> DEFINE D == DOMAIN ById(incidents)
    <3>1. ById({}) = [id \in D \ D |-> ById(incidents)[id]]
      BY DEF ById
    <3>2. Table!Remove(D)
      BY <2>1, <2>2, <3>1 DEF Table!Remove, Table!IncidentIds
    <3>3. QED
      BY <3>2 DEF Table!TableNext, Table!IncidentIds
  <2>3. QED
    BY <1>2, <2>1, <2>2
<1>5. CASE Tick
  BY <1>5 DEF Tick, Table!TableNext, Table!TableTick
<1>6. ASSUME NEW report \in Reports, Persist(report) PROVE UNCHANGED Table!tableVars
  BY <1>2, <1>6 DEF Persist
<1>7. CASE FinishCycle
  BY <1>2, <1>7 DEF FinishCycle
<1>8. CASE StopCycle
  BY <1>2, <1>8 DEF StopCycle
<1>9. CASE UNCHANGED vars
  BY <1>2, <1>9 DEF vars
<1>10. QED
  BY <1>3, <1>4, <1>5, <1>6, <1>7, <1>8, <1>9 DEF Next

LEMMA TableBegins == Init => Table!TableInit
<1>1. ById({}) = <<>>
  BY DEF ById
<1>2. QED
  BY <1>1 DEF Init, Table!TableInit

\* The cycle, wherever it stops, changes the table only in the ways that module
\* IncidentTable allows: the events and explanations of the page are proved for
\* every such table.
THEOREM Implements == Spec => ImplementsTable
  BY TableBegins, TableKept, Invariance, TypeCorrect, PTL DEF Spec, ImplementsTable, Table!TableSpec
=============================================================================
