------------------------------- MODULE MCAlerter -------------------------------
(***************************************************************************)
(* Alerter with a page that is well or in outage, and one service, as the  *)
(* loops of the stream style keep services apart.                          *)
(***************************************************************************)
EXTENDS Alerter

CONSTANTS well, outage, bot

BothViews == {well, outage}
TheOutage == {outage}
=============================================================================
