----------------------------- MODULE MCIncidents -----------------------------
(***************************************************************************)
(* Incidents on a small instance.  Services do not read each other's rows, *)
(* so one service covers the histories; a unit of time is one cycle, and   *)
(* the windows (10 minutes, 30 minutes, 4 hours, 30 days) keep their order *)
(* while shrinking to a few cycles so that each of them runs out.          *)
(***************************************************************************)
EXTENDS Incidents

CONSTANT bot

MCServices == {bot}
=============================================================================
