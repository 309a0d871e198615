---------------------------- MODULE IncidentEvents ----------------------------
(***************************************************************************)
(* Incidents as people are told of them (aggregator.incident_events): rows *)
(* of the table incidents that overlap, or lie within MergeGap of each     *)
(* other, are one event of the page, the history, the feed and the panel.  *)
(* The list is made anew for every reader, while incidents open in the     *)
(* past, end in the past, and leave the window; and an explanation that is *)
(* written for an event has to stay with what the event becomes.           *)
(*                                                                         *)
(* The incidents come and go as the module IncidentTable says.  The        *)
(* explanations are numbered in the order they are written (cause_at).     *)
(*                                                                         *)
(* Definitions named Faulty... are plausible mistakes; nothing uses them.  *)
(***************************************************************************)
EXTENDS IncidentTable, Sequences, FiniteSetsExt

CONSTANTS
  MergeGap,      \* _EVENT_MERGE_GAP
  MinDuration,   \* _INCIDENT_MIN_DURATION_MIN
  Window,        \* days listed
  MaxTexts       \* bound: explanations ever written

ASSUME EventsAssumption == {MergeGap, MinDuration, Window, MaxTexts} \subseteq Nat

VARIABLES
  causes,     \* incidents.cause, by id; 0 is NULL
  texts,      \* explanations written so far
  explained   \* history: of each incident, the newest one written for an event
              \* it was in, unless cleared since; 0 if there is none

eventsVars == <<tableVars, causes, texts, explained>>

EventsInit ==
  /\ TableInit
  /\ causes = <<>>
  /\ texts = 0
  /\ explained = <<>>

-----------------------------------------------------------------------------
(* The list of events.                                                     *)

ListedIncidents == {i \in IncidentIds : incidents[i].started >= clock - Window}

\* An incident that is still open reaches to now.
Reach(i) == IF IsOpen(i) THEN clock ELSE incidents[i].ended

Earlier(i, j) ==
  \/ incidents[i].started < incidents[j].started
  \/ incidents[i].started = incidents[j].started /\ i < j

\* A row comes after as many of the others as are earlier.
InOrder(S) ==
  [k \in 1..Cardinality(S) |->
     CHOOSE i \in S : Cardinality({j \in S : Earlier(j, i)}) = k - 1]

\* How far an event reaches when a row has joined it.
FaultyFurther(end, i) == Reach(i)
Further(end, i) == IF Reach(i) > end THEN Reach(i) ELSE end

\* One sweep in the order of the starts: a row joins the event before it, or
\* begins another one when it starts too long after it.
Clusters ==
  LET rows == InOrder(ListedIncidents)
      end[k \in DOMAIN rows] ==
        IF k > 1 /\ incidents[rows[k]].started <= end[k - 1] + MergeGap
        THEN Further(end[k - 1], rows[k])
        ELSE Reach(rows[k])
      begins == {k \in DOMAIN rows : k = 1 \/ incidents[rows[k]].started > end[k - 1] + MergeGap}
      last(k) == Min({Len(rows)} \cup {n - 1 : n \in {n \in begins : n > k}})
      event(k) == [ids |-> {rows[j] : j \in k..last(k)}, start |-> incidents[rows[k]].started,
                   reach |-> end[last(k)], open |-> \E j \in k..last(k) : IsOpen(rows[j])]
  IN  {event(k) : k \in begins}

\* _union_seconds: each row, in the same order, adds what lies after the
\* furthest end so far.
FaultyAdded(i, S) == Reach(i) - incidents[i].started
Added(i, S) ==
  LET end == Max({incidents[i].started} \cup {Reach(j) : j \in {k \in S : Earlier(k, i)}})
  IN  IF Reach(i) > end THEN Reach(i) - end ELSE 0

TimeDown(c) == MapThenSumSet(LAMBDA i : Added(i, c.ids), c.ids)

\* The explanation an event shows is the newest of its incidents'.
CauseOf(c) == Max({causes[i] : i \in c.ids})

DownMin(c) == Max({1, TimeDown(c)})

\* Short ones are left out, unless somebody explained them.
Events ==
  {c \in Clusters : c.open \/ CauseOf(c) # 0 \/ DownMin(c) >= MinDuration}

-----------------------------------------------------------------------------
(* Explanations.                                                           *)

\* The whole event that i is listed in now, which may not be the one that the
\* author has seen; or i alone, when no list shows it any more.
EventOf(i) == UNION {c.ids : c \in {e \in Events : i \in e.ids}}

FaultyWritten(i) == {i}
Written(i) == EventOf(i) \cup {i}

\* A text is written to some rows, for the incidents of an event.
Write(n, rows, event) ==
  /\ causes' = [j \in IncidentIds |-> IF j \in rows THEN n ELSE causes[j]]
  /\ explained' = [j \in IncidentIds |-> IF j \in event THEN n ELSE explained[j]]
  /\ UNCHANGED tableVars

\* event/{id}/cause-form, and the same with an empty text.
Explain(i) ==
  /\ texts < MaxTexts
  /\ texts' = texts + 1
  /\ Write(texts', Written(i), EventOf(i) \cup {i})

Retract(i) ==
  /\ Write(0, Written(i), EventOf(i) \cup {i})
  /\ UNCHANGED texts

\* incident/{id}/cause, and incident/{id}/cause-form: one row only.
ExplainRow(i) ==
  /\ texts < MaxTexts
  /\ texts' = texts + 1
  /\ Write(texts', {i}, {i})

RetractRow(i) ==
  /\ Write(0, {i}, {i})
  /\ UNCHANGED texts

\* A new row has no explanation; that of a deleted one goes with it.
TableStep ==
  /\ TableNext
  /\ causes' = [i \in DOMAIN incidents' |-> IF i \in IncidentIds THEN causes[i] ELSE 0]
  /\ explained' = [i \in DOMAIN incidents' |-> IF i \in IncidentIds THEN explained[i] ELSE 0]
  /\ UNCHANGED texts

EventsNext ==
  \/ TableStep
  \/ \E i \in IncidentIds : Explain(i) \/ Retract(i) \/ ExplainRow(i) \/ RetractRow(i)

EventsSpec == EventsInit /\ [][EventsNext]_eventsVars

-----------------------------------------------------------------------------
EventsTypeOK ==
  /\ clock \in 0..Horizon
  /\ nextId \in Nat \ {0} /\ IncidentIds \subseteq 1..(nextId - 1)
  /\ incidents \in [IncidentIds -> [service : EventServices, started : 0..Horizon,
                                    ended : {NotEnded} \cup 0..Horizon]]
  /\ {causes, explained} \subseteq [IncidentIds -> 0..MaxTexts] /\ texts \in 0..MaxTexts

\* "Rows that overlap in time, or sit within a quarter of an hour of each
\* other, are one event": the single sweep by start finds exactly the sets of
\* listed incidents that hang together (aggregator.py:503-505, 541-552).  The
\* downtime an event tells is the time that at least one of its incidents
\* covers, however they lie in each other (603-617).
Near(i, j) ==
  /\ incidents[i].started <= Reach(j) + MergeGap
  /\ incidents[j].started <= Reach(i) + MergeGap

EventsHangTogether ==
  LET sets == {c.ids : c \in Clusters} IN
  /\ UNION sets = ListedIncidents
  /\ \A E \in sets : \A S \in (SUBSET E) \ {{}, E} : \E i \in S, j \in E \ S : Near(i, j)
  /\ \A E \in sets : \A i \in E, j \in ListedIncidents \ E : ~Near(i, j)
  /\ \A c \in Clusters :
       LET down == {t \in 0..clock : \E i \in c.ids : incidents[i].started <= t /\ t < Reach(i)}
       IN  TimeDown(c) = Cardinality(down) /\ TimeDown(c) <= c.reach - c.start

\* What is written for an event "survives however the rows are later grouped":
\* each incident it was written for, as long as it is listed, is in an event
\* that is shown and that tells this or something newer, also after the event
\* has been split, merged, shortened or cut at the window (admin_ui.py:302-304).
ExplanationsKept ==
  \A i \in ListedIncidents : explained[i] # 0 =>
    \E c \in Events : i \in c.ids /\ CauseOf(c) >= explained[i]
=============================================================================
