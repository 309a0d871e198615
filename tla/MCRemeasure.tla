----------------------------- MODULE MCRemeasure -----------------------------
(***************************************************************************)
(* Instances of Remeasure for TLC: an old day of three cycles, which is    *)
(* all there, short of its first check, pruned in part or gone while the   *)
(* next one fills.  A failed name lookup matters beside a good check, one  *)
(* that reached the platform and one that could not connect, the service   *)
(* only where it was looked at.                                            *)
(***************************************************************************)
EXTENDS Remeasure

MCMet ==
  {o \in Outcome :
     /\ o.service \/ (o.site = "good" /\ o.dns)
     /\ o.site = "resolver" => ~o.dns}
MCExplained == {<<"service", 2>>}
=============================================================================
