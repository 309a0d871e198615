---------------------------- MODULE IncidentTable ----------------------------
(***************************************************************************)
(* What everyone who reads the table incidents may rely on, without saying *)
(* how the checks lead to it.  A service is in one incident at a time: one *)
(* begins, a while ago at most, only once the one before it has ended; an  *)
(* open one ends once, between its start and now; rows may be deleted, but *)
(* no id is used again.  Module Incidents implements this                  *)
(* (aggregator.py, _update_incidents); IncidentEvents reads such a table.  *)
(***************************************************************************)
EXTENDS Integers

CONSTANTS
  EventServices, \* those that incidents are about
  OpensBack,     \* an incident starts at most this long before it is opened
  TableIds,      \* bound: the ids that incidents may get
  Horizon        \* bound: the last moment

\* Every time is counted in the same moments.
ASSUME TableAssumption == {OpensBack, Horizon} \subseteq Nat

VARIABLES
  clock,      \* now
  incidents,  \* the table, by id
  nextId      \* its next id

tableVars == <<clock, incidents, nextId>>

NotEnded == -1
IncidentIds == DOMAIN incidents
IsOpen(i) == incidents[i].ended = NotEnded

TableInit ==
  /\ clock \in 0..Horizon
  /\ incidents = <<>>
  /\ nextId = 1

OpenIncident(s, started) ==
  /\ nextId \in TableIds
  /\ started >= 0
  /\ \A i \in IncidentIds : incidents[i].service = s =>
       ~IsOpen(i) /\ incidents[i].ended <= started
  /\ incidents' = [i \in IncidentIds \cup {nextId} |->
       IF i = nextId THEN [service |-> s, started |-> started, ended |-> NotEnded]
       ELSE incidents[i]]
  /\ nextId' = nextId + 1
  /\ UNCHANGED clock

End(i, ended) ==
  /\ IsOpen(i)
  /\ ended >= incidents[i].started
  /\ incidents' = [incidents EXCEPT ![i].ended = ended]
  /\ UNCHANGED <<clock, nextId>>

\* A reset deletes them all, a correction of the history some (remeasure.py).
Remove(S) ==
  /\ incidents' = [i \in IncidentIds \ S |-> incidents[i]]
  /\ UNCHANGED <<clock, nextId>>

TableTick ==
  /\ clock < Horizon
  /\ clock' = clock + 1
  /\ UNCHANGED <<incidents, nextId>>

TableNext ==
  \/ TableTick
  \/ \E s \in EventServices : \E started \in (clock - OpensBack)..clock : OpenIncident(s, started)
  \/ \E i \in IncidentIds : \E ended \in 0..clock : End(i, ended)
  \/ \E S \in SUBSET IncidentIds : Remove(S)

TableSpec == TableInit /\ [][TableNext]_tableVars
=============================================================================
