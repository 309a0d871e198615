------------------------------- MODULE LiveTest -------------------------------
(***************************************************************************)
(* The live test in Discord (probes/live_test.py, and its loop and its     *)
(* rules in scheduler.py): a message is posted through a webhook, read     *)
(* back until the bot has reacted or the deadline has passed, and taken    *)
(* away; bad news needs a second message.  The result is remembered, and   *)
(* the prober's cycle, which runs beside it, reads whatever finished last. *)
(*                                                                         *)
(* Time is counted in ticks, and no variable holds an absolute time.  One  *)
(* read stands for all that are sent within a tick.  A request never takes *)
(* longer than its timeout.                                                *)
(***************************************************************************)
EXTENDS Integers, Sequences

CONSTANTS
  Webhooks,       \* addresses the test may be configured with
  None,           \* no webhook
  Messages,       \* LIVE_TEST_ATTEMPTS
  Interval,       \* live_test_interval_seconds, at least 30 s
  Deadline,       \* live_test_deadline_seconds
  SlowAfter,      \* live_test_slow_seconds
  PostTimeout, ReadTimeout, DeleteTimeout,
  Allowance,      \* the 20 s that _live_test_fresh_seconds adds per message
  Slack           \* and the 30 s it adds once

\* The 20 s and the 30 s leave room for the requests beside the wait itself.
TimeoutsFit ==
  /\ None \notin Webhooks
  /\ Messages \in Nat \ {0}
  /\ {Interval, Deadline, SlowAfter, PostTimeout, ReadTimeout, DeleteTimeout,
      Allowance, Slack} \subseteq Nat
  /\ Messages * (PostTimeout + ReadTimeout + DeleteTimeout) <= Messages * Allowance + Slack

ASSUME LiveTestAssumption == TimeoutsFit

VARIABLES
  hook,      \* the configured webhook
  phase,     \* what the loop is at: resting, posting, reading, deleting
  timer,     \* ticks since that began
  elapsed,   \* ticks since the run began, as far as Interval
  asked,     \* tick at which the last read was sent, -1 before the first
  waiting,   \* its answer is still out
  readOk,    \* one read has shown the message
  reacted,   \* the bot has reacted to the message
  outcomes,  \* of the messages of this run
  latest,    \* meta_kv live_test.latest, with the webhook it came through
  answered,  \* meta_kv live_test.answered
  proven,    \* webhooks the bot has ever answered through
  finished   \* this process has finished a run

attempt == <<asked, waiting, readOk, reacted>>
record == <<latest, answered, proven, finished>>
liveVars == <<hook, phase, timer, elapsed, attempt, outcomes, record>>

Outcomes == {"good", "late", "missing", "not run"}
Statuses == {"operational", "degraded", "down", "unknown"}
NoResult == [status |-> "unknown", age |-> 0, via |-> None]

FaultyLiveTestFresh == Interval + Deadline + Allowance + Slack
\* _live_test_fresh_seconds
LiveTestFresh == Interval + Messages * (Deadline + Allowance) + Slack

LiveTypeOK ==
  /\ hook \in Webhooks
  /\ phase \in {"resting", "posting", "reading", "deleting"}
  /\ timer \in 0..(PostTimeout + Deadline + ReadTimeout + DeleteTimeout)
  /\ elapsed \in 0..Interval
  /\ asked \in -1..Deadline
  /\ {waiting, readOk, reacted, finished} \subseteq BOOLEAN
  /\ outcomes \in Seq(Outcomes) /\ Len(outcomes) <= Messages
  /\ latest = NoResult \/ latest \in [status : Statuses, age : 0..(LiveTestFresh + 1), via : Webhooks]
  /\ answered \in Webhooks \cup {None}
  /\ proven \subseteq Webhooks

LiveInit ==
  /\ hook \in Webhooks
  /\ phase = "resting" /\ timer = 0 /\ elapsed = Interval
  /\ asked = -1 /\ waiting = FALSE /\ readOk = FALSE /\ reacted = FALSE
  /\ outcomes = <<>>
  /\ latest = NoResult
  /\ answered = None
  /\ proven = {}
  /\ finished = FALSE

-----------------------------------------------------------------------------
\* One message (attempt_once).
Begin(p) == phase' = p /\ timer' = 0

Start ==
  /\ phase = "resting"
  /\ elapsed = Interval
  /\ Begin("posting")
  /\ elapsed' = 0
  /\ outcomes' = <<>>
  /\ UNCHANGED <<hook, attempt, record>>

\* The message is in the channel, and reading it back begins.
Posted ==
  /\ phase = "posting"
  /\ Begin("reading")
  /\ asked' = -1 /\ waiting' = FALSE /\ readOk' = FALSE /\ reacted' = FALSE
  /\ UNCHANGED <<hook, elapsed, outcomes, record>>

\* The bot reacts to it, at any time or never.
React ==
  /\ phase = "reading"
  /\ ~reacted
  /\ reacted' = TRUE
  /\ UNCHANGED <<hook, phase, timer, elapsed, asked, waiting, readOk, outcomes, record>>

\* The next moment of POLL_AT has come; no read is sent after the deadline.
\* (Definitions named Faulty... are plausible mistakes; nothing uses them.)
FaultyDue == timer <= Deadline
Due == asked < timer /\ timer <= Deadline

Ask ==
  /\ phase = "reading"
  /\ ~waiting
  /\ Due
  /\ asked' = timer
  /\ waiting' = TRUE
  /\ UNCHANGED <<hook, phase, timer, elapsed, readOk, reacted, outcomes, record>>

\* A timeout, a refusal or nonsense: read again later.  Or the message as it
\* is, without a reaction yet.
NothingSeen ==
  /\ waiting
  /\ waiting' = FALSE
  /\ \/ UNCHANGED readOk
     \/ ~reacted /\ readOk' = TRUE
  /\ UNCHANGED <<hook, phase, timer, elapsed, asked, reacted, outcomes, record>>

\* The attempt has its outcome and the message is taken away.
Outcome(o) ==
  /\ outcomes' = Append(outcomes, o)
  /\ waiting' = FALSE
  /\ Begin("deleting")
  /\ UNCHANGED <<hook, elapsed, asked, readOk, reacted, record>>

\* Late is decided by when the read was sent.
Seen == waiting /\ reacted /\ Outcome(IF asked > SlowAfter THEN "late" ELSE "good")

\* Somebody removed the message.
Gone == waiting /\ Outcome("not run")

ReadsOver ==
  /\ phase = "reading"
  /\ ~waiting
  /\ asked = Deadline \/ timer > Deadline
  /\ Outcome(IF readOk THEN "missing" ELSE "not run")

-----------------------------------------------------------------------------
\* A run (probe_live_test) and what is remembered of it (remember).
Has(os, o) == \E i \in DOMAIN os : os[i] = o
All(os, o) == \A i \in DOMAIN os : os[i] = o

Late(os) ==
  IF Len(os) = 1 \/ Has(os, "missing") \/ \E i, j \in DOMAIN os : i # j /\ os[i] = "late" /\ os[j] = "late"
  THEN "degraded" ELSE "operational"

Result(os) ==
  CASE Has(os, "good") -> "operational"
    [] ~Has(os, "good") /\ Has(os, "late") -> Late(os)
    [] All(os, "missing") -> "down"
    [] OTHER -> "unknown"

\* remember: the result is kept, and the first answer through a webhook is
\* noted, in a second statement.
IsAnswer(os) == Result(os) \in {"operational", "degraded"}

Keep(os) ==
  /\ latest' = [status |-> Result(os), age |-> 0, via |-> hook]
  /\ proven' = IF IsAnswer(os) THEN proven \cup {hook} ELSE proven

EndOfRun(os) ==
  /\ Keep(os)
  /\ answered' = IF IsAnswer(os) THEN hook ELSE answered
  /\ Begin("resting")
  /\ finished' = TRUE
  /\ outcomes' = <<>>

\* After a message: a good answer ends the run, and so does the last message.
After(os) ==
  IF Has(os, "good") \/ Len(os) = Messages
  THEN EndOfRun(os)
  ELSE /\ Begin("posting")
       /\ outcomes' = os
       /\ UNCHANGED record

NotPosted ==
  /\ phase = "posting"
  /\ After(Append(outcomes, "not run"))
  /\ UNCHANGED <<hook, elapsed, attempt>>

DeleteOver ==
  /\ phase = "deleting"
  /\ After(outcomes)
  /\ UNCHANGED <<hook, elapsed, attempt>>

RunStep == Start \/ Posted \/ NotPosted \/ Ask \/ NothingSeen \/ Seen \/ Gone \/ ReadsOver \/ DeleteOver

-----------------------------------------------------------------------------
\* No phase outlasts its timeout; the loop rests until the interval is over,
\* and for less than a tick when the run took longer than that.
MayPass ==
  CASE phase = "posting" -> timer < PostTimeout
    [] phase = "reading" -> timer < IF waiting THEN asked + ReadTimeout ELSE Deadline
    [] phase = "deleting" -> timer < DeleteTimeout
    [] phase = "resting" -> elapsed < Interval

LiveTick ==
  /\ MayPass
  /\ timer' = IF phase = "resting" THEN 0 ELSE timer + 1
  /\ elapsed' = IF elapsed < Interval THEN elapsed + 1 ELSE elapsed
  /\ latest' = IF latest = NoResult \/ latest.age > LiveTestFresh THEN latest ELSE [latest EXCEPT !.age = @ + 1]
  /\ UNCHANGED <<hook, phase, attempt, outcomes, answered, proven, finished>>

\* The process starts again, perhaps with another webhook.
Restarted ==
  /\ hook' \in Webhooks
  /\ Begin("resting")
  /\ elapsed' = Interval
  /\ asked' = -1 /\ waiting' = FALSE /\ readOk' = FALSE /\ reacted' = FALSE
  /\ outcomes' = <<>>
  /\ finished' = FALSE

\* A run that was under way is lost.
Restart == Restarted /\ UNCHANGED <<latest, answered, proven>>

\* It dies between the two statements of remember.
CrashInRemember ==
  /\ phase = "deleting"
  /\ Has(outcomes, "good") \/ Len(outcomes) = Messages
  /\ Keep(outcomes)
  /\ Restarted
  /\ UNCHANGED answered

LiveNext == RunStep \/ React \/ LiveTick \/ Restart \/ CrashInRemember

\* The loop goes on whatever a run raises, requests have timeouts, time
\* passes.  The bot owes nothing.
LiveFairness == WF_liveVars(RunStep) /\ WF_liveVars(LiveTick)

LiveSpec == LiveInit /\ [][LiveNext]_liveVars /\ LiveFairness

-----------------------------------------------------------------------------
FaultyAnsweredBefore == answered # None
AnsweredBefore == answered = hook

\* What a cycle of the prober writes down (_live_test_result): nothing from a
\* test that is too old or while we are offline, and no outage while Discord
\* is in trouble or before the webhook has worked.
LiveTestResult(offline, discordTrouble) ==
  IF \/ offline
     \/ latest = NoResult \/ latest.age > LiveTestFresh
     \/ latest.status = "down" /\ (discordTrouble \/ ~AnsweredBefore)
  THEN "unknown"
  ELSE latest.status

Published(status) == LiveTestResult(FALSE, FALSE) = status

\* As long as the process runs, the last finished test is never too old to be
\* used: one interval, the longest two messages can take and the slack cover
\* every way a run may go, hanging requests included (scheduler.py:128-132).
ResultsNeverLapse == finished => latest.age <= LiveTestFresh

\* Silence is called an outage only when the bot has answered through the
\* webhook that is configured now, whatever was configured or lost in between
\* (live_test.py:31-34, scheduler.py:184).
DownIsProven == Published("down") => hook \in proven

\* Every run comes to an end, also when every read hangs (live_test.py:172).
RunsEnd == phase # "resting" ~> phase = "resting"

\* The same module text, about the test itself: a test through a webhook that
\* has never worked is not published as an outage.
DownWasProven == Published("down") => latest.via \in proven
=============================================================================
