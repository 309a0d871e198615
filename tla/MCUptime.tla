------------------------------- MODULE MCUptime -------------------------------
(***************************************************************************)
(* Uptime figures for the bot, with a shard that is named at run time, and *)
(* for Other, over windows of two days.  A day of the model is ten real    *)
(* ones: a check has no data in it, is fine through its 14400 checks,      *)
(* fails one of them, or fails the ten that it was given.                  *)
(***************************************************************************)
EXTENDS Uptime

MCComponents == {"bot", "other"}
MCChecksOf == [c \in MCComponents |->
                 IF c = "bot" THEN <<"Gateway", "Shard 0">> ELSE <<"reported, but unknown">>]
MCAlways == {"Gateway"}
MCChecks == {"Gateway", "Shard 0", "reported, but unknown"}

PerDay == 14400
Fine == [total |-> PerDay, failed |-> 0]
FailedOnce == [total |-> PerDay, failed |-> 1]
NeverUp == [total |-> 10, failed |-> 10]

MCRows == {row \in [MCChecks -> {Nothing, Fine, NeverUp}] : row["Gateway"] \in {Nothing, Fine}}

\* The eight core components, over the thirty days of the page; one of them
\* fails.
EightComponents == 1..8
EightCountedOf == [c \in EightComponents |-> <<c>>]
EightRows == {[s \in EightComponents |-> Fine], [s \in EightComponents |-> IF s = 1 THEN FailedOnce ELSE Fine]}
=============================================================================
