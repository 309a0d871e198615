--------------------------- MODULE MCAnnouncements ---------------------------
(***************************************************************************)
(* Two webhooks of which both fit, a limit of two failures, one slot per   *)
(* broadcast, one announcement and two broadcasts: a subscriber can leave  *)
(* and come back while the first broadcast still waits for an answer about *)
(* it, and a second broadcast can overtake the first.                      *)
(***************************************************************************)
EXTENDS Announcements

CONSTANTS u1, u2

TwoUrls == {u1, u2}

\* No window, one that ends at once, one that starts after the first moment.
ThreeWindows == {NoWindow, [starts |-> Never, ends |-> 1], [starts |-> 2, ends |-> Never]}
=============================================================================
