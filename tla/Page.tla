--------------------------------- MODULE Page ---------------------------------
(***************************************************************************)
(* The three readers of the tables behind the page: what it says of now    *)
(* (Headline), its list of events (IncidentEvents) and its uptime figures  *)
(* (Uptime).  They read different tables and share nothing that changes,   *)
(* so a behaviour is about one of them; "part" is chosen at the start.     *)
(***************************************************************************)
EXTENDS Headline, IncidentEvents, Uptime

VARIABLE part  \* what the behaviour is about

pageVars == <<headlineVars, eventsVars, uptimeVars, part>>

PageInit ==
  /\ part \in {"now", "history", "figures"}
  /\ HeadlineInit /\ EventsInit /\ UptimeInit
  /\ part # "history" => clock = 0  \* which the others do not read

PageNext ==
  \/ part = "now" /\ HeadlineNext /\ UNCHANGED <<eventsVars, uptimeVars, part>>
  \/ part = "history" /\ EventsNext /\ UNCHANGED <<headlineVars, uptimeVars, part>>
  \/ part = "figures" /\ UptimeNext /\ UNCHANGED <<headlineVars, eventsVars, part>>

PageSpec == PageInit /\ [][PageNext]_pageVars

-----------------------------------------------------------------------------
\* The values of the three parts stay in their ranges: no age, counter or
\* explanation outgrows what the code can store.
PageTypeOK == HeadlineTypeOK /\ EventsTypeOK /\ UptimeTypeOK
=============================================================================
