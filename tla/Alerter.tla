-------------------------------- MODULE Alerter --------------------------------
(***************************************************************************)
(* What the staff channel in Discord is told (alerter.py, class Alerter).  *)
(* At the end of each cycle `evaluate' runs in one of two styles.          *)
(*  - board: one message, edited when the page changes (_update_board,     *)
(*    _board_send_or_edit), and a ping that is posted when an outage       *)
(*    begins and deleted when it is over (_outage_ping);                   *)
(*  - stream: a message per incident and per recovery (_evaluate_incidents *)
(*    and _record_alert).                                                  *)
(* Every request to Discord is an await: it may be refused, done without   *)
(* an answer, or the process may stop meanwhile.  People delete messages.  *)
(* The daily warnings, one read, one message and one mark, are left out.   *)
(***************************************************************************)
EXTENDS Integers, Sequences, FiniteSets

CONSTANTS
  Views,              \* what the page can look like, as far as the board shows
  Outages,            \* the views of which overall_status says "outage"
  NoView,
  Services,
  Threshold,          \* ALERT_THRESHOLD_MIN
  Cooldown,           \* ALERT_COOLDOWN_MIN
  MaxTime,            \* bound on the time a run covers
  MaxMessages,        \* no evaluation starts once this many have been posted
  MaxRounds,          \* bound on the evaluations in stream style
  MaxIncidents,       \* bound on the incidents in the table at a time
  Back                \* bound on how long ago the one opened began, the one closed ended

ASSUME AlerterAssumption ==
  /\ Outages \subseteq Views
  /\ NoView \notin Views
  /\ {Threshold, Cooldown, MaxTime, MaxMessages, MaxRounds, MaxIncidents, Back} \subseteq Nat

Never == -1
NoId == 0
Nothing == [status |-> "nothing"]

VARIABLES
  style,              \* ALERT_STYLE
  now,
  pc,                 \* where the evaluation is
  view,               \* board: what it read of the page
  lastSig,            \* _last_board_sig, in memory
  boardId,            \* BOARD_MSG_KEY
  lastOutage,         \* LAST_OVERALL_KEY, as far as it matters
  pingId,             \* OUTAGE_PING_MSG_KEY
  pingAt,             \* OUTAGE_PING_AT_KEY
  channel,            \* the board messages and pings in the channel
  posted,             \* how many of them were ever posted; gives the ids
  unsure,             \* history: an edit was not answered, and none since was
  stray,              \* history: messages the alerter could not keep track of
  rung,               \* history: pings posted since the page was last not in outage
  incidents,          \* stream: the table, as module Incidents fills it
  alertState,         \* alert_state
  asked,              \* `now' of the evaluation
  alarms,             \* the open incidents it is still to announce
  recoveries,         \* the recoveries it is still to announce
  rounds,             \* history: evaluations begun
  said                \* history: what it set out to announce

boardVars == <<view, lastSig, boardId, lastOutage, pingId, pingAt, channel, posted,
               unsure, stray, rung>>
streamVars == <<incidents, alertState, asked, alarms, recoveries, rounds, said>>
vars == <<style, now, pc, boardVars, streamVars>>

Messages == [id : Nat \ {NoId}, kind : {"board", "ping"}, shows : Views]
IncidentRows == [service : Services, started : Nat, ended : Nat \cup {Never}]
AlertRows == [status : {"down", "resolved"}, at : Nat]
Sayings == [kind : {"down", "resolved"}, incident : IncidentRows, at : Nat, round : Nat, kept : BOOLEAN]

TypeOK ==
  /\ style \in {"board", "stream"}
  /\ now \in Nat
  /\ pc \in {"idle", "edit", "create", "overall", "ping", "clean", "tell"}
  /\ view \in Views \cup {NoView}
  /\ lastSig \in Views \cup {NoView}
  /\ boardId \in 0..posted
  /\ lastOutage \in BOOLEAN
  /\ pingId \in 0..posted
  /\ pingAt \in {Never} \cup (0..now)
  /\ channel \subseteq Messages
  /\ posted \in Nat
  /\ unsure \in BOOLEAN
  /\ stray \subseteq 0..posted
  /\ rung \in Nat
  /\ incidents \subseteq IncidentRows
  /\ alertState \in [Services -> AlertRows \cup {Nothing}]
  /\ asked \in 0..now
  /\ alarms \subseteq IncidentRows
  /\ recoveries \subseteq IncidentRows
  /\ rounds \in Nat
  /\ said \in Seq(Sayings)

-----------------------------------------------------------------------------
(* Board style.  Definitions named Faulty... are mistakes one could make   *)
(* in the definition that follows them; no model uses them.                *)

NextId == posted + 1

Post(kind) ==
  /\ channel' = channel \cup {[id |-> NextId, kind |-> kind, shows |-> view]}
  /\ posted' = NextId

InChannel(id) == \E m \in channel : m.id = id

Edited == {IF m.id = boardId THEN [m EXCEPT !.shows = view] ELSE m : m \in channel}

StartBoard(v) ==
  /\ style = "board" /\ pc = "idle" /\ posted < MaxMessages
  /\ view' = v
  /\ pc' = IF v = lastSig THEN "overall" ELSE IF boardId = NoId THEN "create" ELSE "edit"
  /\ UNCHANGED <<style, now, lastSig, boardId, lastOutage, pingId, pingAt, channel, posted,
                 unsure, stray, rung, streamVars>>

\* What is remembered as shown, whether Discord took it or not.
FaultyRemembered(answer) == view

\* Only an accepted payload is remembered.
Remembered(answer) == IF answer = "accepted" THEN view ELSE lastSig

\* The board is edited.  A board that is gone is posted again at once.
EditBoard(answer) ==
  /\ pc = "edit"
  /\ \/ answer = "gone" /\ ~InChannel(boardId) /\ channel' = channel /\ unsure' = unsure
     \/ answer = "refused" /\ channel' = channel /\ unsure' = unsure
     \/ answer = "lost" /\ InChannel(boardId) /\ channel' = Edited /\ unsure' = TRUE
     \/ answer = "accepted" /\ InChannel(boardId) /\ channel' = Edited /\ unsure' = FALSE
  /\ lastSig' = Remembered(answer)
  /\ pc' = IF answer = "gone" THEN "create" ELSE "overall"
  /\ UNCHANGED <<style, now, view, boardId, lastOutage, pingId, pingAt, posted, stray, rung,
                 streamVars>>

CreatedId(answer) == IF answer = "accepted" THEN NextId ELSE boardId

CreateBoard(answer) ==
  /\ pc = "create"
  /\ \/ /\ answer = "refused"
        /\ UNCHANGED <<channel, posted, unsure, stray>>
     \/ answer = "lost" /\ Post("board") /\ stray' = stray \cup {NextId} /\ unsure' = unsure
     \/ answer = "accepted" /\ Post("board") /\ stray' = stray /\ unsure' = FALSE
  /\ boardId' = CreatedId(answer)
  /\ lastSig' = Remembered(answer)
  /\ pc' = "overall"
  /\ UNCHANGED <<style, now, view, lastOutage, pingId, pingAt, rung, streamVars>>

-----------------------------------------------------------------------------
(* The ping.                                                               *)

InOutage == view \in Outages

\* An outage that begins is not noted before its ping.
FaultyNoted == InOutage /\ lastOutage

\* The overall status is stored before the ping.
Noted == InOutage

CoolingDown == pingAt # Never /\ now - pingAt < Cooldown

\* _outage_ping up to its request.
OutagePing ==
  /\ pc = "overall"
  /\ lastOutage' = Noted
  /\ pc' = IF InOutage /\ ~lastOutage /\ ~CoolingDown THEN "ping"
           ELSE IF ~InOutage /\ lastOutage /\ pingId # NoId THEN "clean"
           ELSE "idle"
  /\ rung' = IF InOutage THEN rung ELSE 0
  /\ UNCHANGED <<style, now, view, lastSig, boardId, pingId, pingAt, channel, posted,
                 unsure, stray, streamVars>>

\* "cut": the process stops between storing the id and the time.
SendPing(answer) ==
  /\ pc = "ping"
  /\ \/ answer = "refused" /\ UNCHANGED <<channel, posted, rung>>
     \/ answer # "refused" /\ Post("ping") /\ rung' = rung + 1
  /\ stray' = IF answer = "lost" THEN stray \cup {NextId} ELSE stray
  /\ pingId' = IF answer \in {"accepted", "cut"} THEN NextId ELSE pingId
  /\ pingAt' = IF answer = "accepted" THEN now ELSE pingAt
  /\ lastSig' = IF answer = "cut" THEN NoView ELSE lastSig
  /\ pc' = "idle"
  /\ UNCHANGED <<style, now, view, boardId, lastOutage, unsure, streamVars>>

\* The outage is over, and the ping is left alone.
FaultyCleaned(answer) == channel

Cleaned(answer) == IF answer = "refused" THEN channel ELSE {m \in channel : m.id # pingId}

\* The ping is deleted, and forgotten whatever the answer.  "cut": the process
\* stops before that.
CleanPing(answer) ==
  /\ pc = "clean"
  /\ channel' = Cleaned(answer)
  /\ stray' = IF answer = "refused" THEN stray \cup {pingId} ELSE stray
  /\ pingId' = IF answer = "cut" THEN pingId ELSE NoId
  /\ lastSig' = IF answer = "cut" THEN NoView ELSE lastSig
  /\ pc' = "idle"
  /\ UNCHANGED <<style, now, view, boardId, lastOutage, pingAt, posted, unsure, rung, streamVars>>

\* Somebody deletes a message by hand.
Delete(m) ==
  /\ channel' = channel \ {m}
  /\ UNCHANGED <<style, now, pc, view, lastSig, boardId, lastOutage, pingId, pingAt, posted,
                 unsure, stray, rung, streamVars>>

-----------------------------------------------------------------------------
(* Stream style.                                                           *)

IsOpen(i) == i.ended = Never

Told(s, status) == alertState[s] # Nothing /\ alertState[s].status = status

\* The cool-down is counted from any last message, a recovery as well.
FaultyRecentlyAlarmed(s) ==
  alertState[s] # Nothing /\ now - alertState[s].at < Cooldown

RecentlyAlarmed(s) == Told(s, "down") /\ now - alertState[s].at < Cooldown

\* All that the loops decide on is read here: the open incidents, the recently
\* resolved ones and the states.
StartStream ==
  /\ style = "stream" /\ pc = "idle" /\ rounds < MaxRounds
  /\ asked' = now
  /\ rounds' = rounds + 1
  /\ alarms' = {i \in incidents : /\ IsOpen(i) /\ now - i.started >= Threshold
                                  /\ ~RecentlyAlarmed(i.service)}
  /\ recoveries' = {i \in incidents : /\ ~IsOpen(i) /\ now - i.ended <= Cooldown
                                      /\ Told(i.service, "down")}
  /\ pc' = "tell"
  /\ UNCHANGED <<style, now, boardVars, incidents, alertState, said>>

\* The recovery is said and the state left as it was.
FaultyRecorded(i, kind) ==
  IF kind = "resolved" THEN alertState
  ELSE [alertState EXCEPT ![i.service] = [status |-> kind, at |-> asked]]

\* _record_alert: the state is recorded whatever became of the message.
Recorded(i, kind) == [alertState EXCEPT ![i.service] = [status |-> kind, at |-> asked]]

\* A message, whatever becomes of it, and its record; or the process stops between
\* the two.
Say(i, kind, kept) ==
  /\ said' = Append(said, [kind |-> kind, incident |-> i, at |-> asked, round |-> rounds, kept |-> kept])
  /\ alertState' = IF kept THEN Recorded(i, kind) ELSE alertState

\* The alarms come first.  The order among alarms and among recoveries makes no
\* difference, since each of them records the same.
TellAlarm(i, kept) ==
  /\ pc = "tell" /\ i \in alarms
  /\ Say(i, "down", kept)
  /\ alarms' = IF kept THEN alarms \ {i} ELSE {}
  /\ recoveries' = IF kept THEN recoveries ELSE {}
  /\ pc' = IF kept THEN pc ELSE "idle"
  /\ UNCHANGED <<style, now, boardVars, incidents, asked, rounds>>

TellRecovery(i, kept) ==
  /\ pc = "tell" /\ alarms = {} /\ i \in recoveries
  /\ Say(i, "resolved", kept)
  /\ recoveries' = IF kept THEN recoveries \ {i} ELSE {}
  /\ pc' = IF kept THEN pc ELSE "idle"
  /\ UNCHANGED <<style, now, boardVars, incidents, asked, alarms, rounds>>

AllTold ==
  /\ pc = "tell" /\ alarms = {} /\ recoveries = {}
  /\ pc' = "idle"
  /\ UNCHANGED <<style, now, boardVars, streamVars>>

-----------------------------------------------------------------------------
(* What happens around the alerter.                                        *)

\* An incident is opened or closed between two evaluations, by the roll-up of the
\* next cycle.  Incidents of a service follow one another (IncidentsInSequence in
\* module Incidents).
OpenIncident(s, started) ==
  /\ style = "stream" /\ pc = "idle" /\ rounds < MaxRounds
  /\ Cardinality(incidents) < MaxIncidents /\ started >= 0
  /\ \A i \in incidents : i.service = s => ~IsOpen(i) /\ i.ended <= started
  /\ incidents' = incidents \cup {[service |-> s, started |-> started, ended |-> Never]}
  /\ UNCHANGED <<style, now, pc, boardVars, alertState, asked, alarms, recoveries, rounds, said>>

\* At the check that found the service well, or at its last failed one.
CloseIncident(i, ended) ==
  /\ pc = "idle" /\ rounds < MaxRounds /\ IsOpen(i) /\ i.started <= ended
  /\ incidents' = (incidents \ {i}) \cup {[i EXCEPT !.ended = ended]}
  /\ UNCHANGED <<style, now, pc, boardVars, alertState, asked, alarms, recoveries, rounds, said>>

\* reset_monitoring_data, from the admin panel, at any moment; meta_kv stays.
Reset ==
  /\ style = "stream"
  /\ incidents' = {}
  /\ alertState' = [s \in Services |-> Nothing]
  /\ UNCHANGED <<style, now, pc, boardVars, asked, alarms, recoveries, rounds, said>>

\* An exception, after which memory is as it was, or the process starts again.
\* A ping that was about to be deleted is not tried again.
Stop ==
  /\ pc' = "idle"
  /\ lastSig' \in (IF pc = "idle" THEN {NoView} ELSE {lastSig, NoView})
  /\ stray' = IF pc = "clean" THEN stray \cup {pingId} ELSE stray
  /\ alarms' = {} /\ recoveries' = {}
  /\ UNCHANGED <<style, now, view, boardId, lastOutage, pingId, pingAt, channel, posted, unsure,
                 rung, incidents, alertState, asked, rounds, said>>

Tick ==
  /\ now < MaxTime
  /\ now' = now + 1
  /\ UNCHANGED <<style, pc, boardVars, streamVars>>

Init ==
  /\ style \in {"board", "stream"}
  /\ now = 0
  /\ pc = "idle"
  /\ view = NoView /\ lastSig = NoView
  /\ boardId = NoId /\ pingId = NoId /\ pingAt = Never /\ lastOutage = FALSE
  /\ channel = {} /\ posted = 0
  /\ unsure = FALSE /\ stray = {} /\ rung = 0
  /\ incidents = {} /\ alertState = [s \in Services |-> Nothing]
  /\ asked = 0 /\ alarms = {} /\ recoveries = {}
  /\ rounds = 0 /\ said = <<>>

Next ==
  \/ \E v \in Views : StartBoard(v)
  \/ \E answer \in {"gone", "refused", "lost", "accepted"} : EditBoard(answer)
  \/ \E answer \in {"refused", "lost", "accepted"} : CreateBoard(answer)
  \/ OutagePing
  \/ \E answer \in {"refused", "lost", "accepted", "cut"} : SendPing(answer)
  \/ \E answer \in {"refused", "accepted", "cut"} : CleanPing(answer)
  \/ \E m \in channel : Delete(m)
  \/ StartStream
  \/ \E i \in alarms, kept \in BOOLEAN : TellAlarm(i, kept)
  \/ \E i \in recoveries, kept \in BOOLEAN : TellRecovery(i, kept)
  \/ AllTold
  \/ \E t \in (now - Back)..now :
       (\E s \in Services : OpenIncident(s, t)) \/ (\E i \in incidents : CloseIncident(i, t))
  \/ Reset
  \/ Stop
  \/ Tick

Spec == Init /\ [][Next]_vars

-----------------------------------------------------------------------------
(* Properties.                                                             *)

\* "Edited in place every time the state changes", while an unchanged page costs
\* no request: what the alerter takes the board to show is what it does show,
\* unless an edit went unanswered.
BoardTells ==
  lastSig # NoView /\ ~unsure => \A m \in channel : m.id = boardId => m.shows = lastSig

\* "ONE message in the channel", and a ping is deleted on recovery "so the channel
\* stays clean": beside the board there is at most the ping of the outage going
\* on or just over; all else is a message whose posting was never answered or
\* whose deletion failed or was not reached.
ChannelKept ==
  \A m \in channel :
    \/ m.id \in stray
    \/ m.kind = "board" /\ m.id = boardId
    \/ m.kind = "ping" /\ m.id = pingId /\ (lastOutage \/ pc = "clean")

\* The one exception to silence stays one: no outage is rung twice, whatever is
\* lost or stops.
RungOnce == rung <= 1

\* After every evaluation, each incident that has lasted for the threshold has
\* been announced within the cool-down, or in this evaluation.
OpenIsAlarmed ==
  [][AllTold =>
       \A i \in incidents :
         IsOpen(i) /\ asked - i.started >= Threshold =>
           \E n \in DOMAIN said :
             /\ said[n].kind = "down" /\ said[n].incident.service = i.service
             /\ said[n].round = rounds \/ asked - said[n].at < Cooldown]_vars

\* "Recording 'resolved' here is also what stops a repeat announcement on the
\* next cycle": between recoveries of a service announced by two evaluations there
\* is an alarm for it, unless the process stopped before recording the first.
RecoveriesInTurn ==
  \A m, n \in DOMAIN said :
    /\ m < n
    /\ said[m].kind = "resolved" /\ said[n].kind = "resolved"
    /\ said[m].incident.service = said[n].incident.service
    /\ said[m].kept /\ said[m].round # said[n].round
    => \E k \in (m + 1)..(n - 1) :
         said[k].kind = "down" /\ said[k].incident.service = said[m].incident.service

\* The same comment, taken for each incident: its recovery is announced once,
\* unless the process stopped before recording it.
RecoveryOnce ==
  \A m, n \in DOMAIN said :
    /\ m < n
    /\ said[m].kind = "resolved" /\ said[n].kind = "resolved"
    /\ said[m].kept
    => said[m].incident # said[n].incident

=============================================================================
