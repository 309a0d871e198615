---------------------------- MODULE MCSiteVerdict ----------------------------
(***************************************************************************)
(* SiteVerdict on a small instance.  With two other places one place can   *)
(* be outvoted; a report then votes only in the minute it arrives, so that *)
(* three minutes cover it.  OneVantage leaves time for clocks that differ  *)
(* and for reports that are held for another minute and go stale.          *)
(***************************************************************************)
EXTENDS SiteVerdict, TLC

CONSTANTS v1, v2

TwoVantages == {v1, v2}
OneVantage == {v1}
VantageSymmetry == Permutations(TwoVantages)
=============================================================================
