------------------------------- MODULE Releases -------------------------------
(***************************************************************************)
(* Releases announced by the deploy pipeline (ingest.py 243-409 and the    *)
(* route POST /ingest/release).  Several machines sign "start" and         *)
(* "finish" events with their own clocks and send them over a network that *)
(* loses, delays, reorders and repeats requests.  Every accepted event is  *)
(* one SQLite transaction over two persistent things: the table releases   *)
(* and the list of signatures already seen, so a crash leaves either all   *)
(* of an event or nothing of it and needs no action of its own.            *)
(***************************************************************************)
EXTENDS Integers, FiniteSets

CONSTANTS
  Versions,           \* the releases the pipeline can announce
  NoVersion,          \* not a version: no release is going out
  Asked,              \* the numbers "expected_minutes" is sent with
  NoMinutes,          \* "expected_minutes" missing, or not a number
  DefaultMinutes, MinMinutes, MaxMinutes,
  ReplayWindow,       \* how far a signature's time may be from ours
  SeenSlack,          \* a signature is remembered this much longer than that
  Aftermath,          \* an incident this soon after a release belongs to it
  Ahead,              \* how far a sender's clock may run ahead of ours
  MaxTime,            \* bound on the time a run covers
  MaxEvents           \* bound on the events accepted in a run

ASSUME ReleaseAssumption ==
  /\ NoVersion \notin Versions
  /\ Asked \subseteq Int /\ NoMinutes \notin Int
  /\ {DefaultMinutes, MinMinutes, MaxMinutes} \subseteq Nat
  /\ 0 < MinMinutes /\ MinMinutes <= DefaultMinutes /\ DefaultMinutes <= MaxMinutes
  /\ {ReplayWindow, SeenSlack, Aftermath, Ahead, MaxTime, MaxEvents} \subseteq Nat

VARIABLES
  now,                \* our clock
  releases,           \* the table releases
  nextId,             \* its next id
  seen,               \* meta_kv "ingest.release.seen": requests and when they came
  accepted,           \* history: the requests accepted, and when
  visit               \* history: a time at which a visitor was shown a release

vars == <<now, releases, nextId, seen, accepted, visit>>

NotEnded == -1
Never == -1

StartRequests == [action : {"start"}, ts : Int, version : Versions, minutes : Asked \cup {NoMinutes}]

FinishRequests == [action : {"finish"}, ts : Int, version : Versions]

\* A signed request is its timestamp and its body: the same two give the same
\* signature, so a request is identified by its fields.
Requests == StartRequests \cup FinishRequests

\* A row of the table.  "finished" stands for the results done and failed.
ReleaseRows ==
  [id : Nat, version : Versions, started : Nat, expires : Nat,
   ended : Nat \cup {NotEnded}, result : {"none", "finished", "replaced", "expired"}]

TypeOK ==
  /\ now \in Nat
  /\ releases \subseteq ReleaseRows
  /\ nextId \in Nat
  /\ seen \subseteq [request : Requests, at : Nat]
  /\ accepted \subseteq [request : Requests, at : Nat]
  /\ visit \in Nat \cup {Never}

-----------------------------------------------------------------------------
(* What the handlers compute.  A definition named Faulty... is a plausible *)
(* mistake in the code of the definition that follows it; nothing uses it  *)
(* but the check that a property notices the mistake.                      *)

\* expected_minutes, or the default, kept within its bounds.
NoticeLength(minutes) ==
  LET wanted == IF minutes = NoMinutes THEN DefaultMinutes ELSE minutes IN
  IF wanted < MinMinutes THEN MinMinutes
  ELSE IF wanted > MaxMinutes THEN MaxMinutes ELSE wanted

\* verify: the signature's time is close enough to ours, either way.
InWindow(request) ==
  /\ now - request.ts <= ReplayWindow
  /\ request.ts - now <= ReplayWindow

\* Forgotten as soon as an on-time request would be out of its window.
FaultyRemembered == {e \in seen : e.at >= now - ReplayWindow}

\* The signatures _refuse_a_repeat still remembers.
Remembered == {e \in seen : e.at >= now - ReplayWindow - SeenSlack}

OpenReleases == {r \in releases : r.ended = NotEnded}

\* The first row ORDER BY id DESC gives, as a set of one row or none.
Newest(rows) == {r \in rows : \A other \in rows : other.id <= r.id}

\* current_release: what the page shows.
Current == Newest({r \in OpenReleases : r.expires > now})

\* No COALESCE: a row nobody reported finished has no window.
FaultyWindows(since) ==
  {[start |-> r.started, end |-> r.ended] : r \in {q \in releases : q.ended # NotEnded /\ q.ended >= since}}

\* release_windows(since): one still going out ends now, one never reported
\* finished ends when its time ran out.
Windows(since) ==
  LET End(r) == IF r.ended # NotEnded THEN r.ended
                ELSE IF r.expires < now THEN r.expires ELSE now
      Last(r) == IF r.ended # NotEnded THEN r.ended ELSE r.expires
  IN {[start |-> r.started, end |-> End(r)] : r \in {q \in releases : Last(q) >= since}}

\* release_at: how a moment relates to the releases.
ReleaseAt(moment, windows) ==
  IF \E w \in windows : w.start <= moment /\ moment <= w.end THEN "during"
  ELSE IF \E w \in windows : w.end < moment /\ moment <= w.end + Aftermath THEN "after"
  ELSE "none"

-----------------------------------------------------------------------------
(* The handler of POST /ingest/release.                                    *)

\* The end of the notice taken from the last "start", not the furthest one.
FaultyExtended(row, end) == [row EXCEPT !.expires = end]

\* A "start" for the release already going out only moves its end, outwards.
Extended(row, end) == [row EXCEPT !.expires = IF end > row.expires THEN end ELSE row.expires]

\* A replaced row is stamped with its start instead of the time it ended.
FaultyClosed(row) == [row EXCEPT !.ended = row.started, !.result = "replaced"]

\* Anything still open was replaced by the new release, or had run out.
Closed(row) ==
  IF row.expires <= now
  THEN [row EXCEPT !.ended = row.expires, !.result = "expired"]
  ELSE [row EXCEPT !.ended = now, !.result = "replaced"]

NewRow(version, end) ==
  [id |-> nextId, version |-> version, started |-> now, expires |-> end,
   ended |-> NotEnded, result |-> "none"]

\* The rows a new release replaces are forgotten to be closed.
FaultyStartRelease(version, minutes) ==
  LET end == now + NoticeLength(minutes)
      goingOut == Newest({r \in OpenReleases : r.version = version /\ r.expires > now})
  IN
  \/ /\ \E row \in goingOut : releases' = (releases \ {row}) \cup {Extended(row, end)}
     /\ UNCHANGED nextId
  \/ /\ goingOut = {}
     /\ releases' = releases \cup {NewRow(version, end)}
     /\ nextId' = nextId + 1

StartRelease(version, minutes) ==
  LET end == now + NoticeLength(minutes)
      goingOut == Newest({r \in OpenReleases : r.version = version /\ r.expires > now})
  IN
  \/ /\ \E row \in goingOut : releases' = (releases \ {row}) \cup {Extended(row, end)}
     /\ UNCHANGED nextId
  \/ /\ goingOut = {}
     /\ releases' = (releases \ OpenReleases) \cup {Closed(r) : r \in OpenReleases}
                       \cup {NewRow(version, end)}
     /\ nextId' = nextId + 1

\* The newest open release of this version ends now, even one that overran.
Finished(row) == [row EXCEPT !.ended = now, !.result = "finished"]

FinishRelease(version) ==
  LET target == Newest({r \in OpenReleases : r.version = version}) IN
  /\ \/ \E row \in target : releases' = (releases \ {row}) \cup {Finished(row)}
     \/ target = {} /\ UNCHANGED releases
  /\ UNCHANGED nextId

\* A request signed by a machine whose clock is at most Ahead before ours.  It
\* may arrive at any time after that, any number of times or never, and so may
\* every other one: nothing is known about the order.
Signable(request) == request.ts <= now + Ahead

\* One accepted event.  A request that is refused (outside the window, or seen
\* before) rolls its transaction back and changes nothing.
Deliver(request) ==
  /\ Cardinality(accepted) < MaxEvents
  /\ Signable(request)
  /\ InWindow(request)
  /\ \A e \in Remembered : e.request # request
  /\ seen' = Remembered \cup {[request |-> request, at |-> now]}
  /\ \/ request.action = "start" /\ StartRelease(request.version, request.minutes)
     \/ request.action = "finish" /\ FinishRelease(request.version)
  /\ accepted' = accepted \cup {[request |-> request, at |-> now]}
  /\ UNCHANGED <<now, visit>>

\* The requests that can pass the window at all.
Arriving ==
  LET Stamps == (now - ReplayWindow)..(now + ReplayWindow) IN
  [action : {"start"}, ts : Stamps, version : Versions, minutes : Asked \cup {NoMinutes}]
    \cup [action : {"finish"}, ts : Stamps, version : Versions]

-----------------------------------------------------------------------------
(* The readers and the clock.                                              *)

\* A visitor is shown the release going out.  One visit, at any time, stands
\* for every visit.
ViewPage ==
  /\ visit = Never
  /\ Current # {}
  /\ visit' = now
  /\ UNCHANGED <<now, releases, nextId, seen, accepted>>

Tick ==
  /\ now < MaxTime
  /\ now' = now + 1
  /\ UNCHANGED <<releases, nextId, seen, accepted, visit>>

Init ==
  /\ now = 0
  /\ releases = {}
  /\ nextId = 1
  /\ seen = {}
  /\ accepted = {}
  /\ visit = Never

Next ==
  \/ \E request \in Arriving : Deliver(request)
  \/ ViewPage
  \/ Tick

Spec == Init /\ [][Next]_vars

-----------------------------------------------------------------------------
(* Properties.                                                             *)

\* Releases follow one another: whatever order the events arrive in, at most
\* one row is open, it is the newest, and no two rows' times overlap
\* (store_release_event closes every other open row before it inserts one).
ReleasesInSequence ==
  \A r, q \in releases : r.id < q.id => r.ended # NotEnded /\ r.ended <= q.started

\* "The very same signed request is accepted once only", however often and
\* however late it is delivered (_refuse_a_repeat).
AcceptedOnce ==
  \A a, b \in accepted : a.request = b.request => a = b

\* Two readers of the table agree: an incident that began while the page said
\* "a release is going out" is labelled as having begun during one, at any
\* later time and however that release ended (current_release, release_at).
NoticeInWindows ==
  visit # Never => \A since \in 0..visit : ReleaseAt(visit, Windows(since)) = "during"

\* What the page says about the past is only ever corrected one way: a moment
\* once placed during a release, or after one, does not lose that release when
\* a later event closes, replaces or extends rows.
LabelsOnlySharpen ==
  [][\A t \in 0..now :
       /\ ReleaseAt(t, Windows(0)) = "during" => (ReleaseAt(t, Windows(0)))' = "during"
       /\ ReleaseAt(t, Windows(0)) = "after" => (ReleaseAt(t, Windows(0)))' # "none"]_vars

\* The log implements the notice: what the page shows changes exactly as
\* module ReleaseNotice allows, whatever else the table holds.
ShownVersion == IF Current = {} THEN NoVersion ELSE (CHOOSE r \in Current : TRUE).version

ShownUntil == IF Current = {} THEN 0 ELSE (CHOOSE r \in Current : TRUE).expires

Notice == INSTANCE ReleaseNotice WITH
            MinLength <- MinMinutes, MaxLength <- MaxMinutes,
            shown <- ShownVersion, until <- ShownUntil

ImplementsNotice == Notice!Spec
=============================================================================
