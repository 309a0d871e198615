------------------------------ MODULE MCLiveTest ------------------------------
(***************************************************************************)
(* LiveTest with ticks of ten seconds: two messages, twenty seconds for    *)
(* the bot, late after ten, an interval of thirty, and timeouts of one     *)
(* tick (ten seconds to post, eight to read and to delete).                *)
(***************************************************************************)
EXTENDS LiveTest

CONSTANTS w1, w2

TwoWebhooks == {w1, w2}
=============================================================================
