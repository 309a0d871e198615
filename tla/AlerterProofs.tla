----------------------------- MODULE AlerterProofs -----------------------------
(***************************************************************************)
(* Proofs about module Alerter, for any views, services, threshold,        *)
(* cool-down and bounds.  The two styles share only `pc' and the clock, so *)
(* the invariant falls into a part for each.                               *)
(***************************************************************************)
EXTENDS Alerter, TLAPS

BoardPcs == {"edit", "create", "overall", "ping", "clean"}

Pings == {m \in channel : m.kind = "ping"}

-----------------------------------------------------------------------------
(* The invariant.                                                          *)

\* Ids are given out in order; a board is only created while there is none in the
\* channel; the view of an evaluation is known.
IdsInv ==
  /\ \A m \in channel : m.id <= posted
  /\ pc = "create" => ~InChannel(boardId)
  /\ pc \in BoardPcs => view \in Views

\* Before a ping is sent, the channel has no other that is kept track of.
PingInv == pc = "ping" => lastOutage /\ \A m \in Pings : m.id \in stray

\* An outage that was not noted was not rung.
RungInv ==
  /\ RungOnce
  /\ pc = "ping" => rung = 0
  /\ ~lastOutage => rung = 0

\* What the state says was said.
StateSaid ==
  \A s \in Services : alertState[s] # Nothing =>
    \E n \in DOMAIN said :
      /\ said[n].kind = alertState[s].status /\ said[n].incident.service = s
      /\ said[n].at = alertState[s].at

AlarmedLately(s) ==
  \E n \in DOMAIN said :
    /\ said[n].kind = "down" /\ said[n].incident.service = s
    /\ said[n].round = rounds \/ asked - said[n].at < Cooldown

\* What is open for long enough will be announced, or was.
AlarmsInv ==
  pc = "tell" =>
    \A i \in incidents :
      IsOpen(i) /\ asked - i.started >= Threshold => i \in alarms \/ AlarmedLately(i.service)

AlarmAfter(m, s) ==
  \E k \in DOMAIN said : m < k /\ said[k].kind = "down" /\ said[k].incident.service = s

Settled(m, s) ==
  \/ AlarmAfter(m, s)
  \/ /\ ~Told(s, "down")
     /\ pc = "tell" => said[m].round = rounds \/ \A i \in recoveries : i.service # s

\* A recovery that was announced and recorded is only announced again after an
\* alarm, or in the same evaluation.
SettledInv ==
  \A m \in DOMAIN said :
    said[m].kind = "resolved" /\ said[m].kept => Settled(m, said[m].incident.service)

BoardInv == IdsInv /\ BoardTells /\ ChannelKept /\ PingInv /\ RungInv
StreamInv == StateSaid /\ AlarmsInv /\ SettledInv /\ RecoveriesInTurn

IInv == TypeOK /\ BoardInv /\ StreamInv

-----------------------------------------------------------------------------
(* Each style leaves the other's part alone.                               *)

\* The board's part survives a step of the stream.
LEMMA BoardKept ==
  ASSUME BoardInv, UNCHANGED boardVars, pc \in {"idle", "tell"}, pc' \in {"idle", "tell"}
  PROVE  BoardInv'
  BY DEF BoardInv, IdsInv, BoardTells, ChannelKept, PingInv, RungInv, RungOnce, Pings, InChannel,
     boardVars, BoardPcs

\* The stream's part survives whatever leaves its variables alone.
LEMMA StreamKept ==
  ASSUME StreamInv, UNCHANGED streamVars, pc' # "tell" \/ pc' = pc
  PROVE  StreamInv'
<1>. USE DEF streamVars
<1>1. StateSaid' BY DEF StreamInv, StateSaid
<1>2. AlarmsInv' BY DEF StreamInv, AlarmsInv, AlarmedLately, IsOpen
<1>3. SettledInv' BY DEF StreamInv, SettledInv, Settled, AlarmAfter, Told
<1>4. RecoveriesInTurn' BY DEF StreamInv, RecoveriesInTurn
<1>. QED BY <1>1, <1>2, <1>3, <1>4 DEF StreamInv

-----------------------------------------------------------------------------
(* The initial state.                                                      *)

LEMMA InitInv == Init => IInv
<1>. SUFFICES ASSUME Init PROVE IInv OBVIOUS
<1>. USE AlerterAssumption DEF Init
<1>1. TypeOK
  <2>1. alertState \in [Services -> AlertRows \cup {Nothing}] OBVIOUS
  <2>2. now \in Nat /\ asked \in 0..now /\ pingAt \in {Never} \cup (0..now) OBVIOUS
  <2>3. /\ posted \in Nat /\ boardId \in 0..posted /\ pingId \in 0..posted /\ rung \in Nat
        /\ rounds \in Nat
    BY DEF NoId
  <2>4. said \in Seq(Sayings) OBVIOUS
  <2>. QED BY <2>1, <2>2, <2>3, <2>4 DEF TypeOK
<1>2. BoardInv
  BY DEF BoardInv, IdsInv, BoardTells, ChannelKept, PingInv, RungInv, RungOnce, Pings, BoardPcs
<1>3. StreamInv
  BY DEF StreamInv, StateSaid, AlarmsInv, SettledInv, RecoveriesInTurn
<1>. QED BY <1>1, <1>2, <1>3 DEF IInv

-----------------------------------------------------------------------------
(* The steps of the board style.                                           *)

LEMMA StartBoardInv ==
  ASSUME IInv, NEW v \in Views, StartBoard(v)
  PROVE  IInv'
<1>. USE DEF IInv, StartBoard, boardVars, streamVars
<1>1. TypeOK' BY DEF TypeOK
<1>2. BoardInv'
  <2>1. IdsInv' BY DEF BoardInv, IdsInv, InChannel, TypeOK, Messages, NoId
  <2>2. BoardTells' BY DEF BoardInv, BoardTells
  <2>3. ChannelKept' BY DEF BoardInv, ChannelKept
  <2>4. PingInv' BY DEF PingInv
  <2>5. RungInv' BY DEF BoardInv, RungInv, RungOnce
  <2>. QED BY <2>1, <2>2, <2>3, <2>4, <2>5 DEF BoardInv
<1>3. StreamInv' BY StreamKept
<1>. QED BY <1>1, <1>2, <1>3

LEMMA EditBoardInv ==
  ASSUME IInv, NEW answer \in {"gone", "refused", "lost", "accepted"}, EditBoard(answer)
  PROVE  IInv'
<1>. USE DEF IInv, EditBoard, boardVars, streamVars
<1>0. view \in Views BY DEF BoardInv, IdsInv, BoardPcs
<1>1. /\ \A m \in channel' : m \in Messages /\ m.id <= posted
      /\ \A m \in channel' : \E q \in channel : m.id = q.id /\ m.kind = q.kind
                                                /\ (m.id # boardId => m = q)
  <2>1. CASE channel' = channel BY <2>1 DEF TypeOK, BoardInv, IdsInv
  <2>2. CASE channel' = Edited
    BY <1>0, <2>2 DEF TypeOK, BoardInv, IdsInv, Edited, Messages
  <2>. QED BY <2>1, <2>2
<1>2. TypeOK' BY <1>0, <1>1 DEF TypeOK, Remembered
<1>3. BoardInv'
  <2>1. IdsInv'
    <3>1. pc' = "create" => ~InChannel(boardId)' BY DEF InChannel
    <3>. QED BY <1>0, <1>1, <3>1 DEF IdsInv
  <2>2. BoardTells'
    <3>1. CASE answer = "accepted"
      BY <3>1 DEF BoardTells, Edited, Remembered, TypeOK, Messages
    <3>2. CASE answer = "lost" BY <3>2 DEF BoardTells
    <3>3. CASE answer \in {"gone", "refused"} BY <3>3 DEF BoardInv, BoardTells, Remembered
    <3>. QED BY <3>1, <3>2, <3>3
  <2>3. ChannelKept' BY <1>1 DEF BoardInv, ChannelKept
  <2>4. PingInv' BY DEF PingInv
  <2>5. RungInv' BY DEF BoardInv, RungInv, RungOnce
  <2>. QED BY <2>1, <2>2, <2>3, <2>4, <2>5 DEF BoardInv
<1>4. StreamInv' BY StreamKept
<1>. QED BY <1>2, <1>3, <1>4

\* A new message has an id of its own.
LEMMA PostedMessage ==
  ASSUME IInv, view \in Views, NEW kind \in {"board", "ping"}, Post(kind)
  PROVE  /\ channel' \subseteq Messages
         /\ posted' \in Nat /\ posted <= posted'
         /\ \A m \in channel' : m.id <= posted'
         /\ \A m \in channel' : \/ m \in channel /\ m.id <= posted
                                \/ m.id = NextId /\ m.kind = kind /\ m.shows = view
         /\ NextId \in 1..posted' /\ NextId > posted
<1>1. posted \in Nat /\ channel \subseteq Messages /\ \A m \in channel : m.id <= posted
  BY DEF IInv, TypeOK, BoardInv, IdsInv
<1>2. posted' = posted + 1 /\ NextId = posted + 1 BY DEF Post, NextId
<1>. DEFINE new == [id |-> NextId, kind |-> kind, shows |-> view]
<1>3. channel' = channel \cup {new} BY DEF Post
<1>4. new \in Messages BY <1>1, <1>2 DEF Messages, NoId
<1>5. new.id = NextId /\ new.kind = kind /\ new.shows = view OBVIOUS
<1>. HIDE DEF new
<1>6. \A m \in channel : m.id \in Nat BY <1>1 DEF Messages
<1>7. /\ posted' \in Nat /\ posted <= posted'
      /\ NextId \in 1..posted' /\ NextId > posted /\ NextId <= posted'
  BY <1>1, <1>2
<1>8. channel' \subseteq Messages BY <1>1, <1>3, <1>4
<1>9. ASSUME NEW m \in channel'
      PROVE  /\ m.id <= posted'
             /\ \/ m \in channel /\ m.id <= posted
                \/ m.id = NextId /\ m.kind = kind /\ m.shows = view
  <2>1. CASE m = new BY <1>5, <1>7, <2>1
  <2>2. CASE m \in channel BY <1>1, <1>2, <1>6, <2>2
  <2>. QED BY <1>3, <2>1, <2>2
<1>. QED BY <1>7, <1>8, <1>9

LEMMA CreateBoardInv ==
  ASSUME IInv, NEW answer \in {"refused", "lost", "accepted"}, CreateBoard(answer)
  PROVE  IInv'
<1>. USE DEF IInv, CreateBoard, boardVars, streamVars
<1>0. view \in Views BY DEF BoardInv, IdsInv, BoardPcs
<1>1. CASE answer = "refused"
  <2>1. TypeOK' BY <1>1 DEF TypeOK, Remembered, CreatedId
  <2>2. BoardInv'
    BY <1>0, <1>1 DEF BoardInv, IdsInv, BoardTells, ChannelKept, PingInv, RungInv, RungOnce, Pings,
       InChannel, Remembered, CreatedId, BoardPcs
  <2>. QED BY <2>1, <2>2, StreamKept
<1>2. CASE answer # "refused"
  <2>0. Post("board") BY <1>2
  <2>1. /\ channel' \subseteq Messages
        /\ posted' \in Nat /\ posted <= posted'
        /\ \A m \in channel' : m.id <= posted'
        /\ \A m \in channel' : \/ m \in channel /\ m.id <= posted
                               \/ m.id = NextId /\ m.kind = "board" /\ m.shows = view
        /\ NextId \in 1..posted' /\ NextId > posted
    BY <1>0, <2>0, PostedMessage
  <2>2. TypeOK'
    <3>1. boardId' \in 0..posted' /\ pingId' \in 0..posted' BY <2>1 DEF TypeOK, CreatedId
    <3>2. stray' \subseteq 0..posted'
      <4>1. stray' \subseteq stray \cup {NextId} BY <1>2
      <4>2. stray \subseteq 0..posted /\ posted \in Nat BY DEF TypeOK
      <4>3. 0..posted \subseteq 0..posted' /\ NextId \in 0..posted' BY <2>1, <4>2
      <4>. QED BY <4>1, <4>2, <4>3
    <3>3. lastSig' \in Views \cup {NoView} BY <1>0 DEF TypeOK, Remembered
    <3>4. unsure' \in BOOLEAN BY <1>2 DEF TypeOK
    <3>. QED BY <2>1, <3>1, <3>2, <3>3, <3>4 DEF TypeOK
  <2>3. IdsInv' BY <1>0, <2>1 DEF IdsInv
  <2>4. BoardTells'
    BY <1>2, <2>1 DEF BoardInv, BoardTells, Remembered, CreatedId, TypeOK
  <2>5. ChannelKept'
    BY <1>2, <2>1 DEF BoardInv, IdsInv, InChannel, ChannelKept, CreatedId, TypeOK
  <2>6. PingInv' BY DEF PingInv
  <2>7. RungInv' BY DEF BoardInv, RungInv, RungOnce
  <2>. QED BY <2>2, <2>3, <2>4, <2>5, <2>6, <2>7, StreamKept DEF BoardInv
<1>. QED BY <1>1, <1>2

LEMMA OutagePingInv ==
  ASSUME IInv, OutagePing
  PROVE  IInv'
<1>. USE DEF IInv, OutagePing, boardVars, streamVars
<1>1. TypeOK' BY DEF TypeOK, Noted, InOutage
<1>2. IdsInv' BY DEF BoardInv, IdsInv, BoardPcs
<1>3. BoardTells' BY DEF BoardInv, BoardTells
<1>4. ChannelKept'
  BY DEF BoardInv, ChannelKept, Noted, TypeOK, Messages, NoId
<1>5. PingInv' BY DEF BoardInv, PingInv, ChannelKept, Pings, Noted
<1>6. RungInv' BY DEF BoardInv, RungInv, RungOnce, Noted
<1>. QED BY <1>1, <1>2, <1>3, <1>4, <1>5, <1>6, StreamKept DEF BoardInv

LEMMA SendPingInv ==
  ASSUME IInv, NEW answer \in {"refused", "lost", "accepted", "cut"}, SendPing(answer)
  PROVE  IInv'
<1>. USE DEF IInv, SendPing, boardVars, streamVars
<1>0. view \in Views BY DEF BoardInv, IdsInv, BoardPcs
<1>1. CASE answer = "refused"
  <2>1. TypeOK' BY <1>1 DEF TypeOK
  <2>2. BoardInv'
    BY <1>1 DEF BoardInv, IdsInv, BoardTells, ChannelKept, PingInv, RungInv, RungOnce, BoardPcs
  <2>. QED BY <2>1, <2>2, StreamKept
<1>2. CASE answer # "refused"
  <2>0. Post("ping") BY <1>2
  <2>1. /\ channel' \subseteq Messages
        /\ posted' \in Nat /\ posted <= posted'
        /\ \A m \in channel' : m.id <= posted'
        /\ \A m \in channel' : \/ m \in channel /\ m.id <= posted
                               \/ m.id = NextId /\ m.kind = "ping" /\ m.shows = view
        /\ NextId \in 1..posted' /\ NextId > posted
    BY <1>0, <2>0, PostedMessage
  <2>2. TypeOK' BY <1>2, <2>1 DEF TypeOK
  <2>3. IdsInv' BY <2>1 DEF IdsInv, BoardPcs
  <2>4. BoardTells' BY <2>1 DEF BoardInv, BoardTells, TypeOK
  <2>5. ChannelKept'
    BY <1>2, <2>1 DEF BoardInv, ChannelKept, PingInv, Pings, TypeOK, Messages
  <2>6. PingInv' BY DEF PingInv
  <2>7. RungInv' BY <1>2 DEF BoardInv, RungInv, RungOnce, PingInv
  <2>. QED BY <2>2, <2>3, <2>4, <2>5, <2>6, <2>7, StreamKept DEF BoardInv
<1>. QED BY <1>1, <1>2

LEMMA CleanPingInv ==
  ASSUME IInv, NEW answer \in {"refused", "accepted", "cut"}, CleanPing(answer)
  PROVE  IInv'
<1>. USE DEF IInv, CleanPing, boardVars, streamVars
<1>1. TypeOK' BY DEF TypeOK, Cleaned, NoId
<1>2. IdsInv' BY DEF BoardInv, IdsInv, BoardPcs, Cleaned
<1>3. BoardTells' BY DEF BoardInv, BoardTells, Cleaned
<1>4. ChannelKept' BY DEF BoardInv, ChannelKept, Cleaned
<1>5. PingInv' BY DEF PingInv
<1>6. RungInv' BY DEF BoardInv, RungInv, RungOnce
<1>. QED BY <1>1, <1>2, <1>3, <1>4, <1>5, <1>6, StreamKept DEF BoardInv

LEMMA DeleteInv ==
  ASSUME IInv, NEW m \in channel, Delete(m)
  PROVE  IInv'
<1>. USE DEF IInv, Delete, boardVars, streamVars
<1>1. TypeOK' BY DEF TypeOK
<1>2. BoardInv'
  BY DEF BoardInv, IdsInv, BoardTells, ChannelKept, PingInv, RungInv, RungOnce, Pings, InChannel
<1>. QED BY <1>1, <1>2, StreamKept

-----------------------------------------------------------------------------
(* The steps of the stream style.                                          *)

LEMMA StartStreamInv ==
  ASSUME IInv, StartStream
  PROVE  IInv'
<1>. USE DEF IInv, StartStream
<1>1. TypeOK' BY DEF TypeOK, boardVars
<1>2. BoardInv' BY BoardKept
<1>3. StateSaid' BY DEF StreamInv, StateSaid
<1>4. AlarmsInv'
  <2>. SUFFICES ASSUME NEW i \in incidents, IsOpen(i), now - i.started >= Threshold, i \notin alarms'
                PROVE  AlarmedLately(i.service)'
    BY DEF AlarmsInv, IsOpen
  <2>1. RecentlyAlarmed(i.service) OBVIOUS
  <2>2. i.service \in Services BY DEF TypeOK, IncidentRows
  <2>3. PICK n \in DOMAIN said : /\ said[n].kind = "down" /\ said[n].incident.service = i.service
                                 /\ said[n].at = alertState[i.service].at
    BY <2>1, <2>2 DEF RecentlyAlarmed, Told, StreamInv, StateSaid
  <2>4. now - said[n].at < Cooldown BY <2>1, <2>3 DEF RecentlyAlarmed
  <2>. QED BY <2>3, <2>4 DEF AlarmedLately
<1>5. SettledInv'
  <2>. SUFFICES ASSUME NEW m \in DOMAIN said, said[m].kind = "resolved", said[m].kept,
                       ~AlarmAfter(m, said[m].incident.service)
                PROVE  /\ ~Told(said[m].incident.service, "down")
                       /\ \A i \in recoveries' : i.service # said[m].incident.service
    BY DEF SettledInv, Settled, AlarmAfter, Told
  <2>. QED BY DEF StreamInv, SettledInv, Settled
<1>6. RecoveriesInTurn' BY DEF StreamInv, RecoveriesInTurn
<1>. QED BY <1>1, <1>2, <1>3, <1>4, <1>5, <1>6 DEF StreamInv

LEMMA SaidService ==
  ASSUME TypeOK
  PROVE  \A m \in DOMAIN said : said[m] \in Sayings /\ said[m].incident.service \in Services
<1>1. \A m \in DOMAIN said : said[m] \in Sayings BY DEF TypeOK
<1>. QED BY <1>1 DEF Sayings, IncidentRows

\* What has been said, and one thing more.
LEMMA SaidMore ==
  ASSUME TypeOK, NEW i \in IncidentRows, NEW kind \in {"down", "resolved"}, NEW kept \in BOOLEAN,
         Say(i, kind, kept)
  PROVE  /\ said' \in Seq(Sayings)
         /\ DOMAIN said' = (DOMAIN said) \cup {Len(said) + 1}
         /\ \A n \in DOMAIN said : said'[n] = said[n] /\ n < Len(said) + 1 /\ n \in Nat
         /\ said'[Len(said) + 1].kind = kind
         /\ said'[Len(said) + 1].incident = i
         /\ said'[Len(said) + 1].at = asked
         /\ said'[Len(said) + 1].round = rounds
         /\ said'[Len(said) + 1].kept = kept
         /\ Len(said) + 1 \in Nat /\ Len(said) + 1 \notin DOMAIN said
<1>. DEFINE e == [kind |-> kind, incident |-> i, at |-> asked, round |-> rounds, kept |-> kept]
<1>1. e \in Sayings BY DEF TypeOK, Sayings
<1>2. said \in Seq(Sayings) /\ said' = Append(said, e) BY DEF TypeOK, Say
<1>. HIDE DEF e
<1>3. /\ said' \in Seq(Sayings)
      /\ DOMAIN said' = (DOMAIN said) \cup {Len(said) + 1}
      /\ \A n \in DOMAIN said : said'[n] = said[n] /\ n < Len(said) + 1 /\ n \in Nat
      /\ said'[Len(said) + 1] = e
      /\ Len(said) + 1 \in Nat /\ Len(said) + 1 \notin DOMAIN said
  BY <1>1, <1>2
<1>. QED BY <1>3 DEF e

\* The state is what was said last, if it was recorded.
LEMMA RecordedState ==
  ASSUME TypeOK, StateSaid, NEW i \in IncidentRows, NEW kind \in {"down", "resolved"},
         NEW kept \in BOOLEAN, Say(i, kind, kept)
  PROVE  /\ alertState' \in [Services -> AlertRows \cup {Nothing}]
         /\ StateSaid'
         /\ \A s \in Services : s # i.service => alertState'[s] = alertState[s]
         /\ kept => alertState'[i.service] = [status |-> kind, at |-> asked]
         /\ ~kept => alertState' = alertState
<1>1. /\ alertState' \in [Services -> AlertRows \cup {Nothing}]
      /\ \A s \in Services : s # i.service => alertState'[s] = alertState[s]
      /\ kept => alertState'[i.service] = [status |-> kind, at |-> asked]
      /\ ~kept => alertState' = alertState
  <2>1. CASE ~kept BY <2>1 DEF Say, TypeOK
  <2>2. CASE kept
    <3>1. alertState' = [alertState EXCEPT ![i.service] = [status |-> kind, at |-> asked]]
      BY <2>2 DEF Say, Recorded
    <3>2. asked \in Nat /\ i.service \in Services BY DEF TypeOK, IncidentRows
    <3>. QED BY <2>2, <3>1, <3>2 DEF TypeOK, AlertRows
  <2>. QED BY <2>1, <2>2
<1>2. StateSaid'
  <2>. SUFFICES ASSUME NEW s \in Services, alertState'[s] # Nothing
                PROVE  \E n \in DOMAIN said' :
                         /\ said'[n].kind = alertState'[s].status /\ said'[n].incident.service = s
                         /\ said'[n].at = alertState'[s].at
    BY DEF StateSaid
  <2>1. CASE kept /\ s = i.service
    <3>1. alertState'[s] = [status |-> kind, at |-> asked] BY <1>1, <2>1
    <3>2. /\ Len(said) + 1 \in DOMAIN said'
          /\ said'[Len(said) + 1].kind = kind /\ said'[Len(said) + 1].incident = i
          /\ said'[Len(said) + 1].at = asked
      BY SaidMore
    <3>. QED BY <2>1, <3>1, <3>2
  <2>2. CASE ~(kept /\ s = i.service)
    <3>1. alertState'[s] = alertState[s] BY <1>1, <2>2
    <3>. QED BY <3>1, SaidMore DEF StateSaid
  <2>. QED BY <2>1, <2>2
<1>. QED BY <1>1, <1>2

LEMMA TellAlarmInv ==
  ASSUME IInv, NEW i \in alarms, NEW kept \in BOOLEAN, TellAlarm(i, kept)
  PROVE  IInv'
<1>. USE DEF IInv
<1>0. i \in IncidentRows /\ i.service \in Services BY DEF TypeOK, IncidentRows
<1>1. Say(i, "down", kept) BY DEF TellAlarm
<1>. DEFINE last == Len(said) + 1
<1>2. /\ said' \in Seq(Sayings)
      /\ DOMAIN said' = (DOMAIN said) \cup {last}
      /\ \A n \in DOMAIN said : said'[n] = said[n] /\ n < last /\ n \in Nat
      /\ said'[last].kind = "down" /\ said'[last].incident = i
      /\ said'[last].at = asked /\ said'[last].round = rounds
      /\ last \in Nat
  BY <1>0, <1>1, SaidMore
<1>3. /\ alertState' \in [Services -> AlertRows \cup {Nothing}]
      /\ StateSaid'
      /\ \A s \in Services : s # i.service => alertState'[s] = alertState[s]
  BY <1>0, <1>1, RecordedState DEF StreamInv
<1>. HIDE DEF last
<1>4. TypeOK' BY <1>2, <1>3 DEF TypeOK, TellAlarm, boardVars
<1>5. BoardInv' BY BoardKept DEF TellAlarm
<1>6. AlarmsInv'
  <2>. SUFFICES ASSUME pc' = "tell", NEW j \in incidents, IsOpen(j), asked - j.started >= Threshold,
                       j \notin alarms'
                PROVE  AlarmedLately(j.service)'
    BY DEF AlarmsInv, TellAlarm, IsOpen
  <2>1. CASE j = i BY <1>2, <2>1 DEF AlarmedLately, TellAlarm
  <2>2. CASE j # i
    <3>1. AlarmedLately(j.service) BY <2>2 DEF TellAlarm, StreamInv, AlarmsInv
    <3>. QED BY <1>2, <3>1 DEF AlarmedLately, TellAlarm
  <2>. QED BY <2>1, <2>2
<1>7. SettledInv'
  <2>. SUFFICES ASSUME NEW m \in DOMAIN said', said'[m].kind = "resolved", said'[m].kept
                PROVE  Settled(m, said[m].incident.service)'
    BY DEF SettledInv
  <2>1. m \in DOMAIN said /\ said'[m] = said[m] BY <1>2
  <2>. DEFINE s == said[m].incident.service
  <2>2. s \in Services BY <2>1, SaidService
  <2>3. CASE s = i.service BY <1>2, <2>1, <2>3 DEF AlarmAfter, Settled
  <2>4. CASE AlarmAfter(m, s) BY <1>2, <2>1, <2>4 DEF AlarmAfter, Settled
  <2>5. CASE s # i.service /\ ~AlarmAfter(m, s)
    <3>1. alertState'[s] = alertState[s] BY <1>3, <2>2, <2>5
    <3>2. /\ ~Told(s, "down")
          /\ said[m].round = rounds \/ \A r \in recoveries : r.service # s
      BY <2>1, <2>5 DEF StreamInv, SettledInv, Settled, TellAlarm
    <3>3. recoveries' \subseteq recoveries /\ rounds' = rounds BY DEF TellAlarm
    <3>. QED BY <2>1, <3>1, <3>2, <3>3 DEF Settled, Told
  <2>. QED BY <2>3, <2>4, <2>5
<1>8. RecoveriesInTurn'
  <2>. SUFFICES ASSUME NEW m \in DOMAIN said', NEW n \in DOMAIN said', m < n,
                       said'[m].kind = "resolved", said'[n].kind = "resolved",
                       said'[m].incident.service = said'[n].incident.service,
                       said'[m].kept, said'[m].round # said'[n].round
                PROVE  \E k \in (m + 1)..(n - 1) :
                         said'[k].kind = "down" /\ said'[k].incident.service = said'[m].incident.service
    BY DEF RecoveriesInTurn
  <2>1. /\ m \in DOMAIN said /\ said'[m] = said[m]
        /\ n \in DOMAIN said /\ said'[n] = said[n]
    BY <1>2
  <2>2. PICK k \in (m + 1)..(n - 1) :
          said[k].kind = "down" /\ said[k].incident.service = said[m].incident.service
    BY <2>1 DEF StreamInv, RecoveriesInTurn
  <2>3. k \in DOMAIN said BY <2>1, <2>2 DEF TypeOK
  <2>. QED BY <1>2, <2>1, <2>2, <2>3
<1>. QED BY <1>3, <1>4, <1>5, <1>6, <1>7, <1>8 DEF StreamInv

LEMMA TellRecoveryInv ==
  ASSUME IInv, NEW i \in recoveries, NEW kept \in BOOLEAN, TellRecovery(i, kept)
  PROVE  IInv'
<1>. USE DEF IInv
<1>0. i \in IncidentRows /\ i.service \in Services BY DEF TypeOK, IncidentRows
<1>1. Say(i, "resolved", kept) BY DEF TellRecovery
<1>. DEFINE last == Len(said) + 1
<1>2. /\ said' \in Seq(Sayings)
      /\ DOMAIN said' = (DOMAIN said) \cup {last}
      /\ \A n \in DOMAIN said : said'[n] = said[n] /\ n < last /\ n \in Nat
      /\ said'[last].kind = "resolved" /\ said'[last].incident = i
      /\ said'[last].round = rounds /\ said'[last].kept = kept
      /\ last \in Nat
  BY <1>0, <1>1, SaidMore
<1>3. /\ alertState' \in [Services -> AlertRows \cup {Nothing}]
      /\ StateSaid'
      /\ \A s \in Services : s # i.service => alertState'[s] = alertState[s]
      /\ kept => alertState'[i.service] = [status |-> "resolved", at |-> asked]
      /\ ~kept => alertState' = alertState
  BY <1>0, <1>1, RecordedState DEF StreamInv
<1>. HIDE DEF last
<1>4. TypeOK' BY <1>2, <1>3 DEF TypeOK, TellRecovery, boardVars
<1>5. BoardInv' BY BoardKept DEF TellRecovery
<1>6. AlarmsInv'
  <2>. SUFFICES ASSUME pc' = "tell", NEW j \in incidents, IsOpen(j), asked - j.started >= Threshold,
                       j \notin alarms'
                PROVE  AlarmedLately(j.service)'
    BY DEF AlarmsInv, TellRecovery, IsOpen
  <2>1. AlarmedLately(j.service) BY DEF TellRecovery, StreamInv, AlarmsInv
  <2>. QED BY <1>2, <2>1 DEF AlarmedLately, TellRecovery
<1>7. SettledInv'
  <2>. SUFFICES ASSUME NEW m \in DOMAIN said', said'[m].kind = "resolved", said'[m].kept
                PROVE  Settled(m, said[m].incident.service)'
    BY DEF SettledInv
  <2>1. CASE m = last BY <1>2, <1>3, <2>1 DEF Settled, Told, TellRecovery
  <2>2. CASE m # last
    <3>1. m \in DOMAIN said /\ said'[m] = said[m] BY <1>2, <2>2
    <3>. DEFINE s == said[m].incident.service
    <3>2. s \in Services BY <3>1, SaidService
    <3>3. CASE AlarmAfter(m, s) BY <1>2, <3>1, <3>3 DEF AlarmAfter, Settled
    <3>4. CASE ~AlarmAfter(m, s)
      <4>1. /\ ~Told(s, "down")
            /\ said[m].round = rounds \/ \A r \in recoveries : r.service # s
        BY <3>1, <3>4 DEF StreamInv, SettledInv, Settled, TellRecovery
      <4>2. ~Told(s, "down")'
        <5>1. CASE alertState'[s] = alertState[s] BY <4>1, <5>1, <3>1 DEF Told
        <5>2. CASE alertState'[s] # alertState[s] BY <1>3, <3>1, <3>2, <5>2 DEF Told
        <5>. QED BY <5>1, <5>2
      <4>3. recoveries' \subseteq recoveries /\ rounds' = rounds BY DEF TellRecovery
      <4>. QED BY <3>1, <4>1, <4>2, <4>3 DEF Settled, Told
    <3>. QED BY <3>3, <3>4
  <2>. QED BY <2>1, <2>2
<1>8. RecoveriesInTurn'
  <2>. SUFFICES ASSUME NEW m \in DOMAIN said', NEW n \in DOMAIN said', m < n,
                       said'[m].kind = "resolved", said'[n].kind = "resolved",
                       said'[m].incident.service = said'[n].incident.service,
                       said'[m].kept, said'[m].round # said'[n].round
                PROVE  \E k \in (m + 1)..(n - 1) :
                         said'[k].kind = "down" /\ said'[k].incident.service = said'[m].incident.service
    BY DEF RecoveriesInTurn
  <2>1. m \in DOMAIN said /\ said'[m] = said[m] BY <1>2
  <2>2. CASE n \in DOMAIN said
    <3>1. PICK k \in (m + 1)..(n - 1) :
            said[k].kind = "down" /\ said[k].incident.service = said[m].incident.service
      BY <1>2, <2>1, <2>2 DEF StreamInv, RecoveriesInTurn
    <3>2. k \in DOMAIN said BY <2>1, <2>2, <3>1 DEF TypeOK
    <3>. QED BY <1>2, <2>1, <3>1, <3>2
  <2>3. CASE n = last
    <3>1. said[m].round # rounds /\ i.service = said[m].incident.service BY <1>2, <2>1, <2>3
    <3>2. AlarmAfter(m, said[m].incident.service)
      BY <1>2, <2>1, <3>1 DEF StreamInv, SettledInv, Settled, TellRecovery
    <3>3. PICK k \in DOMAIN said :
            m < k /\ said[k].kind = "down" /\ said[k].incident.service = said[m].incident.service
      BY <3>2 DEF AlarmAfter
    <3>4. k \in (m + 1)..(n - 1) BY <1>2, <2>1, <2>3, <3>3 DEF TypeOK
    <3>. QED BY <1>2, <2>1, <3>3, <3>4
  <2>. QED BY <1>2, <2>2, <2>3
<1>. QED BY <1>3, <1>4, <1>5, <1>6, <1>7, <1>8 DEF StreamInv

LEMMA AllToldInv ==
  ASSUME IInv, AllTold
  PROVE  IInv'
<1>. USE DEF IInv, AllTold
<1>1. TypeOK' BY DEF TypeOK, boardVars, streamVars
<1>. QED BY <1>1, BoardKept, StreamKept

\* Between two evaluations only the table of incidents changes.
LEMMA IncidentsInv ==
  ASSUME IInv, pc = "idle", incidents' \subseteq IncidentRows,
         UNCHANGED <<style, now, pc, boardVars, alertState, asked, alarms, recoveries, rounds, said>>
  PROVE  IInv'
<1>. USE DEF IInv
<1>1. TypeOK' BY DEF TypeOK, boardVars
<1>2. StreamInv'
  BY DEF StreamInv, StateSaid, AlarmsInv, SettledInv, Settled, AlarmAfter, Told, RecoveriesInTurn
<1>. QED BY <1>1, <1>2, BoardKept

LEMMA OpenIncidentInv ==
  ASSUME IInv, NEW s \in Services, NEW started \in Int, OpenIncident(s, started)
  PROVE  IInv'
<1>1. incidents' \subseteq IncidentRows BY DEF IInv, TypeOK, OpenIncident, IncidentRows, Never
<1>. QED BY <1>1, IncidentsInv DEF OpenIncident

LEMMA CloseIncidentInv ==
  ASSUME IInv, NEW i \in incidents, NEW ended \in Int, CloseIncident(i, ended)
  PROVE  IInv'
<1>1. incidents' \subseteq IncidentRows BY DEF IInv, TypeOK, CloseIncident, IncidentRows
<1>. QED BY <1>1, IncidentsInv DEF CloseIncident

LEMMA ResetInv ==
  ASSUME IInv, Reset
  PROVE  IInv'
<1>. USE DEF IInv, Reset
<1>1. TypeOK' BY DEF TypeOK, boardVars
<1>2. BoardInv'
  BY DEF BoardInv, IdsInv, BoardTells, ChannelKept, PingInv, RungInv, RungOnce, Pings, InChannel,
     boardVars
<1>3. \A s \in Services : alertState'[s] = Nothing OBVIOUS
<1>4. StateSaid' BY <1>3 DEF StateSaid
<1>5. AlarmsInv' BY DEF AlarmsInv
<1>6. SettledInv'
  <2>. QED BY <1>3, SaidService DEF StreamInv, SettledInv, Settled, AlarmAfter, Told
<1>7. RecoveriesInTurn' BY DEF StreamInv, RecoveriesInTurn
<1>. QED BY <1>1, <1>2, <1>4, <1>5, <1>6, <1>7 DEF StreamInv

LEMMA StopInv ==
  ASSUME IInv, Stop
  PROVE  IInv'
<1>. USE DEF IInv, Stop
<1>1. TypeOK' BY DEF TypeOK
<1>2. BoardInv'
  <2>1. IdsInv' BY DEF BoardInv, IdsInv, BoardPcs
  <2>2. BoardTells' BY DEF BoardInv, BoardTells
  <2>3. ChannelKept' BY DEF BoardInv, ChannelKept
  <2>4. PingInv' BY DEF PingInv
  <2>5. RungInv' BY DEF BoardInv, RungInv, RungOnce
  <2>. QED BY <2>1, <2>2, <2>3, <2>4, <2>5 DEF BoardInv
<1>3. StreamInv'
  BY DEF StreamInv, StateSaid, AlarmsInv, SettledInv, Settled, AlarmAfter, Told, RecoveriesInTurn
<1>. QED BY <1>1, <1>2, <1>3

LEMMA TickInv ==
  ASSUME IInv, Tick
  PROVE  IInv'
<1>. USE DEF IInv, Tick
<1>1. TypeOK' BY DEF TypeOK, boardVars, streamVars
<1>2. BoardInv'
  BY DEF BoardInv, IdsInv, BoardTells, ChannelKept, PingInv, RungInv, RungOnce, Pings, InChannel,
     boardVars
<1>. QED BY <1>1, <1>2, StreamKept

LEMMA StutterInv == IInv /\ UNCHANGED vars => IInv'
<1>. SUFFICES ASSUME IInv, UNCHANGED vars PROVE IInv' OBVIOUS
<1>. USE DEF IInv, vars
<1>1. TypeOK' BY DEF TypeOK, boardVars, streamVars
<1>2. BoardInv'
  BY DEF BoardInv, IdsInv, BoardTells, ChannelKept, PingInv, RungInv, RungOnce, Pings, InChannel,
     boardVars
<1>. QED BY <1>1, <1>2, StreamKept

LEMMA StepInv == IInv /\ [Next]_vars => IInv'
<1>. SUFFICES ASSUME IInv, [Next]_vars PROVE IInv' OBVIOUS
<1>1. CASE \E v \in Views : StartBoard(v) BY <1>1, StartBoardInv
<1>2. CASE \E answer \in {"gone", "refused", "lost", "accepted"} : EditBoard(answer)
  BY <1>2, EditBoardInv
<1>3. CASE \E answer \in {"refused", "lost", "accepted"} : CreateBoard(answer)
  BY <1>3, CreateBoardInv
<1>4. CASE OutagePing BY <1>4, OutagePingInv
<1>5. CASE \E answer \in {"refused", "lost", "accepted", "cut"} : SendPing(answer)
  BY <1>5, SendPingInv
<1>6. CASE \E answer \in {"refused", "accepted", "cut"} : CleanPing(answer) BY <1>6, CleanPingInv
<1>7. CASE \E m \in channel : Delete(m) BY <1>7, DeleteInv
<1>8. CASE StartStream BY <1>8, StartStreamInv
<1>9. CASE \E i \in alarms, kept \in BOOLEAN : TellAlarm(i, kept) BY <1>9, TellAlarmInv
<1>10. CASE \E i \in recoveries, kept \in BOOLEAN : TellRecovery(i, kept)
  BY <1>10, TellRecoveryInv
<1>11. CASE AllTold BY <1>11, AllToldInv
<1>12. CASE \E t \in (now - Back)..now : \E s \in Services : OpenIncident(s, t)
  BY <1>12, OpenIncidentInv
<1>13. CASE \E t \in (now - Back)..now : \E i \in incidents : CloseIncident(i, t)
  BY <1>13, CloseIncidentInv
<1>14. CASE Reset BY <1>14, ResetInv
<1>15. CASE Stop BY <1>15, StopInv
<1>16. CASE Tick BY <1>16, TickInv
<1>17. CASE UNCHANGED vars BY <1>17, StutterInv
<1>. QED
  BY <1>1, <1>2, <1>3, <1>4, <1>5, <1>6, <1>7, <1>8, <1>9, <1>10, <1>11, <1>12, <1>13, <1>14,
     <1>15, <1>16, <1>17 DEF Next

-----------------------------------------------------------------------------
(* The theorems.                                                           *)

\* The invariant holds.
THEOREM Inductive == Spec => []IInv
<1>. QED BY InitInv, StepInv, PTL DEF Spec

\* Every variable keeps its type, in all interleavings of requests, stops and
\* resets.
THEOREM TypeCorrect == Spec => []TypeOK
<1>1. IInv => TypeOK BY DEF IInv
<1>. QED BY <1>1, Inductive, PTL

\* The board shows what the alerter takes it to show, unless an edit went
\* unanswered.
THEOREM Board == Spec => []BoardTells
<1>1. IInv => BoardTells BY DEF IInv, BoardInv
<1>. QED BY <1>1, Inductive, PTL

\* One board and the ping of the current outage; all else was lost track of.
THEOREM Channel == Spec => []ChannelKept
<1>1. IInv => ChannelKept BY DEF IInv, BoardInv
<1>. QED BY <1>1, Inductive, PTL

\* No outage is rung twice.
THEOREM Rung == Spec => []RungOnce
<1>1. IInv => RungOnce BY DEF IInv, BoardInv, RungInv
<1>. QED BY <1>1, Inductive, PTL

\* Recoveries of a service announced by two evaluations have an alarm between.
THEOREM Turns == Spec => []RecoveriesInTurn
<1>1. IInv => RecoveriesInTurn BY DEF IInv, StreamInv
<1>. QED BY <1>1, Inductive, PTL

\* An evaluation that runs to its end leaves no long incident unannounced.
THEOREM Alarmed == Spec => OpenIsAlarmed
<1>1. IInv /\ [Next]_vars =>
        [AllTold =>
           \A i \in incidents :
             IsOpen(i) /\ asked - i.started >= Threshold =>
               \E n \in DOMAIN said :
                 /\ said[n].kind = "down" /\ said[n].incident.service = i.service
                 /\ said[n].round = rounds \/ asked - said[n].at < Cooldown]_vars
  BY DEF IInv, StreamInv, AlarmsInv, AlarmedLately, AllTold
<1>. QED BY <1>1, Inductive, PTL DEF Spec, OpenIsAlarmed

=============================================================================
