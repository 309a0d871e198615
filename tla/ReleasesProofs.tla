---------------------------- MODULE ReleasesProofs ----------------------------
(***************************************************************************)
(* What holds of Releases for every value of its constants: the log stays  *)
(* well formed and its releases follow one another, a signed request is    *)
(* accepted once as long as no sender's clock runs ahead by more than      *)
(* SeenSlack, and the log implements the notice of module ReleaseNotice.   *)
(***************************************************************************)
EXTENDS Releases, TLAPS

\* Every row has an id of its own, handed out earlier, and lies in the past.
LogInv ==
  /\ \A r \in releases : r.id < nextId
  /\ \A r, q \in releases : r.id = q.id => r = q
  /\ \A r \in releases : r.started <= now /\ r.ended <= now
  /\ ReleasesInSequence

\* The conjuncts an accepted request is remembered by: it is kept as long as
\* the guard looks back, and its time was at most Ahead after its arrival.
ReplayInv ==
  /\ \A a \in accepted : a.at <= now /\ a.request.ts <= a.at + Ahead
  /\ \A a \in accepted : a.at >= now - ReplayWindow - SeenSlack => a \in seen
  /\ AcceptedOnce

USE ReleaseAssumption DEF NotEnded, Never

-----------------------------------------------------------------------------

\* The clamped length of a notice is between its two bounds, whatever was sent.
LEMMA NoticeLengthBounds ==
  ASSUME NEW minutes \in Asked \cup {NoMinutes}
  PROVE  /\ NoticeLength(minutes) \in Nat
         /\ MinMinutes <= NoticeLength(minutes)
         /\ NoticeLength(minutes) <= MaxMinutes
  BY DEF NoticeLength

\* The newest of some rows, if there is one, is the only one of its id.
LEMMA NewestIsARow ==
  ASSUME NEW rows, NEW r \in Newest(rows)
  PROVE  r \in rows /\ \A other \in rows : other.id <= r.id
  BY DEF Newest

\* An accepted request is a well-formed one, and runs one of the two handlers.
LEMMA DeliverCases ==
  ASSUME TypeOK, NEW request \in Arriving, Deliver(request)
  PROVE  /\ request \in Requests
         /\ request.version \in Versions
         /\ \/ /\ request.action = "start"
               /\ request.minutes \in Asked \cup {NoMinutes}
               /\ StartRelease(request.version, request.minutes)
            \/ /\ request.action = "finish"
               /\ FinishRelease(request.version)
<1>1. request \in Requests /\ request.version \in Versions
  BY DEF Arriving, Requests, StartRequests, FinishRequests, TypeOK
<1>2. request.action = "start" => request.minutes \in Asked \cup {NoMinutes}
  BY DEF Arriving
<1>3. QED
  BY <1>1, <1>2 DEF Deliver

-----------------------------------------------------------------------------
(* Type correctness.                                                       *)

LEMMA TypeInit == Init => TypeOK
  BY DEF Init, TypeOK

\* The rows the two handlers write are rows of the table.
LEMMA StartTypes ==
  ASSUME TypeOK, NEW version \in Versions, NEW minutes \in Asked \cup {NoMinutes},
         StartRelease(version, minutes)
  PROVE  releases' \subseteq ReleaseRows /\ nextId' \in Nat
<1> DEFINE end == now + NoticeLength(minutes)
<1>1. end \in Nat
  BY NoticeLengthBounds DEF TypeOK
<1> HIDE DEF end
<1>2. \A row \in releases : Extended(row, end) \in ReleaseRows
  BY <1>1 DEF TypeOK, Extended, ReleaseRows
<1>3. \A row \in releases : Closed(row) \in ReleaseRows
  BY DEF TypeOK, Closed, ReleaseRows
<1>4. NewRow(version, end) \in ReleaseRows
  BY <1>1 DEF TypeOK, NewRow, ReleaseRows
<1>5. QED
  BY <1>2, <1>3, <1>4 DEF TypeOK, StartRelease, Newest, OpenReleases, end

LEMMA FinishTypes ==
  ASSUME TypeOK, NEW version \in Versions, FinishRelease(version)
  PROVE  releases' \subseteq ReleaseRows /\ nextId' \in Nat
<1>1. \A row \in releases : Finished(row) \in ReleaseRows
  BY DEF TypeOK, Finished, ReleaseRows
<1>2. QED
  BY <1>1 DEF TypeOK, FinishRelease, Newest, OpenReleases

LEMMA TypeNext == TypeOK /\ [Next]_vars => TypeOK'
<1> SUFFICES ASSUME TypeOK, [Next]_vars PROVE TypeOK'
  OBVIOUS
<1> USE DEF TypeOK
<1>1. ASSUME NEW request \in Arriving, Deliver(request) PROVE TypeOK'
  <2>1. request \in Requests /\ request.version \in Versions
    BY <1>1, DeliverCases
  <2>2. seen' \subseteq [request : Requests, at : Nat] /\ accepted' \subseteq [request : Requests, at : Nat]
    BY <1>1, <2>1 DEF Deliver, Remembered
  <2>3. ASSUME NEW minutes \in Asked \cup {NoMinutes}, StartRelease(request.version, minutes)
        PROVE  releases' \subseteq ReleaseRows /\ nextId' \in Nat
    BY <2>1, <2>3, StartTypes
  <2>4. ASSUME FinishRelease(request.version)
        PROVE  releases' \subseteq ReleaseRows /\ nextId' \in Nat
    BY <2>1, <2>4, FinishTypes
  <2>5. releases' \subseteq ReleaseRows /\ nextId' \in Nat
    BY <1>1, <2>3, <2>4, DeliverCases
  <2>6. QED
    BY <1>1, <2>2, <2>5 DEF Deliver
<1>2. CASE ViewPage
  BY <1>2 DEF ViewPage
<1>3. CASE Tick
  BY <1>3 DEF Tick
<1>4. CASE UNCHANGED vars
  BY <1>4 DEF vars
<1>5. QED
  BY <1>1, <1>2, <1>3, <1>4 DEF Next

\* Every reachable state of the release log is well typed.
THEOREM TypeCorrect == Spec => []TypeOK
  BY TypeInit, TypeNext, PTL DEF Spec

-----------------------------------------------------------------------------
(* The releases of the log follow one another.                             *)

\* Closing, finishing and extending keep a row's identity and its start.
LEMMA RowChanges ==
  ASSUME TypeOK, NEW row \in releases, row.ended = NotEnded, NEW end \in Nat
  PROVE  /\ Extended(row, end).id = row.id /\ Extended(row, end).started = row.started
         /\ Extended(row, end).ended = NotEnded
         /\ Closed(row).id = row.id /\ Closed(row).started = row.started
         /\ Closed(row).ended \in 0..now
         /\ Finished(row).id = row.id /\ Finished(row).started = row.started
         /\ Finished(row).ended = now
<1>1. row \in ReleaseRows
  BY DEF TypeOK
<1>2. QED
  BY <1>1 DEF TypeOK, Extended, Closed, Finished, ReleaseRows

\* There is at most one open release, and it is the newest.
LEMMA OpenIsNewest ==
  ASSUME TypeOK, LogInv, NEW r \in OpenReleases, NEW q \in releases
  PROVE  q.id <= r.id /\ (q \in OpenReleases => q = r)
<1>1. q.id \in Nat /\ r.id \in Nat /\ r \in releases
  BY DEF TypeOK, ReleaseRows, OpenReleases
<1>2. QED
  BY <1>1 DEF LogInv, ReleasesInSequence, OpenReleases

LEMMA LogStart ==
  ASSUME TypeOK, LogInv, NEW version \in Versions, NEW minutes \in Asked \cup {NoMinutes},
         StartRelease(version, minutes), now' = now
  PROVE  LogInv'
<1> DEFINE end == now + NoticeLength(minutes)
<1> DEFINE goingOut == Newest({r \in OpenReleases : r.version = version /\ r.expires > now})
<1>1. end \in Nat
  BY NoticeLengthBounds DEF TypeOK
<1>2. ASSUME NEW row \in goingOut, releases' = (releases \ {row}) \cup {Extended(row, end)},
             UNCHANGED nextId
      PROVE  LogInv'
  <2>1. row \in releases /\ row \in OpenReleases /\ row.ended = NotEnded
    BY NewestIsARow DEF OpenReleases
  <2>2. /\ Extended(row, end).id = row.id /\ Extended(row, end).started = row.started
        /\ Extended(row, end).ended = NotEnded
    BY <1>1, <2>1, RowChanges
  <2>3. \A r \in releases : r.id \in Nat /\ r.started \in Nat /\ r.ended \in Int
    BY DEF TypeOK, ReleaseRows
  <2> HIDE DEF end, goingOut
  <2>4. QED
    BY <1>2, <2>1, <2>2, <2>3, OpenIsNewest DEF LogInv, ReleasesInSequence, TypeOK
<1>3. ASSUME releases' = (releases \ OpenReleases) \cup {Closed(r) : r \in OpenReleases}
                           \cup {NewRow(version, end)},
             nextId' = nextId + 1
      PROVE  LogInv'
  <2> DEFINE new == NewRow(version, end)
  <2>1. new.id = nextId /\ new.started = now /\ new.ended = NotEnded
    BY DEF NewRow
  <2>2. \A r \in releases : r.id \in Nat /\ r.started \in Nat /\ r.ended \in Int
    BY DEF TypeOK, ReleaseRows
  <2>3. \A r \in OpenReleases : r \in releases /\ r.ended = NotEnded
    BY DEF OpenReleases
  <2>4. \A r \in OpenReleases : /\ Closed(r).id = r.id /\ Closed(r).started = r.started
                                /\ Closed(r).ended \in 0..now
    BY <1>1, <2>3, RowChanges
  <2> HIDE DEF new
  <2>5. \A x \in releases' :
          \/ x = new
          \/ /\ x \in releases /\ x.ended # NotEnded
          \/ \E r \in OpenReleases : x = Closed(r)
    BY <1>3 DEF new, OpenReleases
  <2>6. \A x \in releases' : x = new \/
          /\ x.ended # NotEnded /\ x.ended <= now
          /\ \E r \in releases : /\ r.id = x.id /\ r.started = x.started
                                 /\ r.ended = NotEnded => x = Closed(r)
                                 /\ r.ended # NotEnded => x = r
    BY <2>2, <2>3, <2>4, <2>5 DEF LogInv, TypeOK
  <2>7. \A x \in releases' : x.id < nextId' /\ x.started <= now /\ x.ended <= now
    BY <1>3, <2>1, <2>2, <2>6 DEF LogInv, TypeOK
  <2>8. \A x, y \in releases' : x.id = y.id => x = y
    BY <2>1, <2>2, <2>6 DEF LogInv, TypeOK
  <2>9. \A x, y \in releases' : x.id < y.id => x.ended # NotEnded /\ x.ended <= y.started
    <3> SUFFICES ASSUME NEW x \in releases', NEW y \in releases', x.id < y.id
                 PROVE  x.ended # NotEnded /\ x.ended <= y.started
      OBVIOUS
    <3>1. x # new
      BY <2>1, <2>2, <2>6 DEF LogInv, TypeOK
    <3>2. CASE y = new
      BY <2>1, <2>6, <3>1, <3>2
    <3>3. CASE y # new
      <4>1. PICK r \in releases : /\ r.id = x.id
                                  /\ r.ended # NotEnded => x = r
        BY <2>6, <3>1
      <4>2. PICK q \in releases : q.id = y.id /\ q.started = y.started
        BY <2>6, <3>3
      <4>3. r.id < q.id
        BY <4>1, <4>2
      <4>4. r.ended # NotEnded /\ r.ended <= q.started
        BY <4>3 DEF LogInv, ReleasesInSequence
      <4>5. x.ended # NotEnded /\ x.ended <= y.started
        BY <4>1, <4>2, <4>4
      <4>6. QED
        BY <4>5
    <3>4. QED
      BY <3>2, <3>3
  <2>10. QED
    BY <2>7, <2>8, <2>9 DEF LogInv, ReleasesInSequence
<1>4. QED
  BY <1>2, <1>3 DEF StartRelease

LEMMA LogFinish ==
  ASSUME TypeOK, LogInv, NEW version \in Versions, FinishRelease(version), now' = now
  PROVE  LogInv'
<1>1. ASSUME NEW row \in Newest({r \in OpenReleases : r.version = version}),
             releases' = (releases \ {row}) \cup {Finished(row)}, UNCHANGED nextId
      PROVE  LogInv'
  <2>1. row \in releases /\ row \in OpenReleases /\ row.ended = NotEnded
    BY NewestIsARow DEF OpenReleases
  <2>2. /\ Finished(row).id = row.id /\ Finished(row).started = row.started
        /\ Finished(row).ended = now
    BY <2>1, RowChanges
  <2>3. \A r \in releases : r.id \in Nat /\ r.started \in Nat /\ r.ended \in Int
    BY DEF TypeOK, ReleaseRows
  <2>4. QED
    BY <1>1, <2>1, <2>2, <2>3, OpenIsNewest DEF LogInv, ReleasesInSequence, TypeOK
<1>2. ASSUME UNCHANGED <<releases, nextId>> PROVE LogInv'
  BY <1>2 DEF LogInv, ReleasesInSequence
<1>3. QED
  BY <1>1, <1>2 DEF FinishRelease

LEMMA LogNext == TypeOK /\ LogInv /\ [Next]_vars => LogInv'
<1> SUFFICES ASSUME TypeOK, LogInv, [Next]_vars PROVE LogInv'
  OBVIOUS
<1>1. ASSUME NEW request \in Arriving, Deliver(request) PROVE LogInv'
  <2>1. now' = now /\ request.version \in Versions
    BY <1>1, DeliverCases DEF Deliver
  <2>2. ASSUME NEW minutes \in Asked \cup {NoMinutes}, StartRelease(request.version, minutes)
        PROVE  LogInv'
    BY <2>1, <2>2, LogStart
  <2>3. ASSUME FinishRelease(request.version) PROVE LogInv'
    BY <2>1, <2>3, LogFinish
  <2>4. QED
    BY <1>1, <2>2, <2>3, DeliverCases
<1>2. CASE ViewPage
  BY <1>2 DEF ViewPage, LogInv, ReleasesInSequence
<1>3. CASE Tick
  <2>1. \A r \in releases : r.started \in Nat /\ r.ended \in Int
    BY DEF TypeOK, ReleaseRows
  <2>2. QED
    BY <1>3, <2>1 DEF Tick, LogInv, ReleasesInSequence, TypeOK
<1>4. CASE UNCHANGED vars
  BY <1>4 DEF vars, LogInv, ReleasesInSequence
<1>5. QED
  BY <1>1, <1>2, <1>3, <1>4 DEF Next

\* Whatever events arrive, in whatever order, the releases of the log follow
\* one another: at most one is open and no two overlap.
THEOREM Sequence == Spec => []ReleasesInSequence
<1>1. Init => LogInv
  BY DEF Init, LogInv, ReleasesInSequence
<1>2. LogInv => ReleasesInSequence
  BY DEF LogInv
<1>3. QED
  BY <1>1, <1>2, LogNext, TypeCorrect, PTL DEF Spec

-----------------------------------------------------------------------------
(* A signed request is accepted once.                                      *)

LEMMA ReplayNext ==
  ASSUME Ahead <= SeenSlack
  PROVE  TypeOK /\ ReplayInv /\ [Next]_vars => ReplayInv'
<1> SUFFICES ASSUME TypeOK, ReplayInv, [Next]_vars PROVE ReplayInv'
  OBVIOUS
<1>1. ASSUME NEW request \in Arriving, Deliver(request) PROVE ReplayInv'
  <2> DEFINE entry == [request |-> request, at |-> now]
  <2>1. /\ seen' = Remembered \cup {entry} /\ accepted' = accepted \cup {entry} /\ now' = now
        /\ request.ts <= now + Ahead /\ now - request.ts <= ReplayWindow
        /\ \A e \in Remembered : e.request # request
    BY <1>1 DEF Deliver, Signable, InWindow
  <2>2. request.ts \in Int /\ now \in Nat
    BY DEF Arriving, TypeOK
  <2>3. entry.at = now /\ entry.request = request
    OBVIOUS
  <2>4. \A a \in accepted : a.at \in Nat /\ a.request.ts \in Int
    BY DEF TypeOK, Requests, StartRequests, FinishRequests
  <2>5. \A a \in accepted : a.request # request
    <3> SUFFICES ASSUME NEW a \in accepted, a.request = request PROVE FALSE
      OBVIOUS
    <3>1. a.at >= now - ReplayWindow - SeenSlack
      BY <2>1, <2>2, <2>4 DEF ReplayInv
    <3>2. a \in Remembered
      BY <3>1 DEF ReplayInv, Remembered
    <3>3. QED
      BY <2>1, <3>2
  <2> HIDE DEF entry
  <2>6. \A a \in accepted' : a.at <= now' /\ a.request.ts <= a.at + Ahead
    BY <2>1, <2>2, <2>3, <2>4 DEF ReplayInv
  <2>7. \A a \in accepted' : a.at >= now' - ReplayWindow - SeenSlack => a \in seen'
    BY <2>1, <2>2, <2>3, <2>4 DEF ReplayInv, Remembered
  <2>8. AcceptedOnce'
    BY <2>1, <2>3, <2>5 DEF ReplayInv, AcceptedOnce
  <2>9. QED
    BY <2>6, <2>7, <2>8 DEF ReplayInv
<1>2. CASE ViewPage
  BY <1>2 DEF ViewPage, ReplayInv, AcceptedOnce
<1>3. CASE Tick
  <2>1. \A a \in accepted : a.at \in Nat
    BY DEF TypeOK
  <2>2. QED
    BY <1>3, <2>1 DEF Tick, ReplayInv, AcceptedOnce, TypeOK
<1>4. CASE UNCHANGED vars
  BY <1>4 DEF vars, ReplayInv, AcceptedOnce
<1>5. QED
  BY <1>1, <1>2, <1>3, <1>4 DEF Next

\* As long as no sender's clock runs ahead of ours by more than the extra time
\* a signature is remembered, the very same request is accepted once only.
THEOREM NoReplay ==
  ASSUME Ahead <= SeenSlack
  PROVE  Spec => []AcceptedOnce
<1>1. Init => ReplayInv
  BY DEF Init, ReplayInv, AcceptedOnce
<1>2. ReplayInv => AcceptedOnce
  BY DEF ReplayInv
<1>3. TypeOK /\ ReplayInv /\ [Next]_vars => ReplayInv'
  BY ReplayNext
<1>4. QED
  BY <1>1, <1>2, <1>3, TypeCorrect, PTL DEF Spec

-----------------------------------------------------------------------------
(* The log implements the notice.                                          *)

\* When one row at most is open, the page shows it until its time runs out.
LEMMA OneOpen ==
  ASSUME NEW rows, NEW t, NEW r \in rows, r.ended = NotEnded, r.id \in Nat,
         \A q \in rows : q.ended = NotEnded => q = r
  PROVE  Newest({q \in {p \in rows : p.ended = NotEnded} : q.expires > t})
           = IF r.expires > t THEN {r} ELSE {}
  BY DEF Newest

LEMMA OnlyMember ==
  ASSUME NEW row PROVE (CHOOSE x \in {row} : TRUE) = row
  OBVIOUS

\* What the page shows is nothing, or the one open row that has not run out.
LEMMA CurrentCases ==
  ASSUME TypeOK, LogInv
  PROVE  \/ OpenReleases = {} /\ Current = {}
         \/ \E r \in OpenReleases :
               /\ OpenReleases = {r}
               /\ Current = IF r.expires > now THEN {r} ELSE {}
<1>1. CASE OpenReleases = {}
  BY <1>1 DEF Current, Newest
<1>2. ASSUME NEW r \in OpenReleases
      PROVE  OpenReleases = {r} /\ Current = IF r.expires > now THEN {r} ELSE {}
  <2>1. \A q \in OpenReleases : q = r
    BY OpenIsNewest DEF OpenReleases
  <2>2. r.id \in Nat /\ r \in releases /\ r.ended = NotEnded
    BY DEF OpenReleases, TypeOK, ReleaseRows
  <2>3. \A q \in releases : q.ended = NotEnded => q = r
    BY <2>1 DEF OpenReleases
  <2>4. Current = IF r.expires > now THEN {r} ELSE {}
    BY <2>2, <2>3, OneOpen DEF Current, OpenReleases
  <2>5. QED
    BY <2>1, <2>4
<1>3. QED
  BY <1>1, <1>2

\* The two variables of the notice, when one row is shown and when none is.
LEMMA ShownOf ==
  /\ Current = {} => ShownVersion = NoVersion /\ ShownUntil = 0
  /\ \A r : Current = {r} => ShownVersion = r.version /\ ShownUntil = r.expires
  BY OnlyMember DEF ShownVersion, ShownUntil

LEMMA ShownNext ==
  /\ Current' = {} => ShownVersion' = NoVersion /\ ShownUntil' = 0
  /\ \A r : Current' = {r} => ShownVersion' = r.version /\ ShownUntil' = r.expires
  BY OnlyMember DEF ShownVersion, ShownUntil

\* Writing x over the open row, or next to no open row at all, leaves x alone open.
LEMMA SoleRow ==
  ASSUME NEW rows, NEW t, NEW x \in rows, x.ended = NotEnded, x.id \in Nat, x.expires > t,
         \A q \in rows : q = x \/ q.ended # NotEnded
  PROVE  Newest({q \in {p \in rows : p.ended = NotEnded} : q.expires > t}) = {x}
  BY OneOpen

\* A "start" puts the notice up for its version, or moves its end outwards.
LEMMA StartAnnounces ==
  ASSUME TypeOK, LogInv, now' = now,
         NEW version \in Versions, NEW minutes \in Asked \cup {NoMinutes},
         StartRelease(version, minutes)
  PROVE  Notice!Announce(version, now + NoticeLength(minutes))
<1> DEFINE end == now + NoticeLength(minutes)
<1> DEFINE goingOut == Newest({r \in OpenReleases : r.version = version /\ r.expires > now})
<1>1. end \in Nat /\ end > now
  BY NoticeLengthBounds DEF TypeOK
<1>2. ASSUME NEW row \in goingOut, releases' = (releases \ {row}) \cup {Extended(row, end)}
      PROVE  Notice!Announce(version, end)
  <2> DEFINE x == Extended(row, end)
  <2>1. row \in OpenReleases /\ row.version = version /\ row.expires > now
    BY NewestIsARow
  <2>2. row \in ReleaseRows /\ row.ended = NotEnded
    BY <2>1 DEF TypeOK, OpenReleases
  <2>3. /\ x.version = version /\ x.ended = NotEnded /\ x.id \in Nat
        /\ x.expires = IF end > row.expires THEN end ELSE row.expires
    BY <2>1, <2>2 DEF Extended, ReleaseRows
  <2>4. row.expires \in Nat /\ now \in Nat /\ x.expires > now
    BY <1>1, <2>1, <2>2, <2>3 DEF ReleaseRows, TypeOK
  <2>5. OpenReleases = {row} /\ Current = {row}
    BY <2>1, CurrentCases
  <2>6. x \in releases' /\ \A q \in releases' : q = x \/ q.ended # NotEnded
    BY <1>2, <2>5 DEF OpenReleases
  <2> HIDE DEF x
  <2>7. Current' = {x}
    BY <2>3, <2>4, <2>6, SoleRow DEF Current, OpenReleases
  <2>8. ShownVersion = version /\ ShownUntil = row.expires
    BY <2>1, <2>5, ShownOf
  <2>9. ShownVersion' = version /\ ShownUntil' = x.expires
    BY <2>3, <2>7, ShownNext
  <2>10. QED
    BY <1>1, <2>3, <2>4, <2>8, <2>9 DEF Notice!Announce
<1>3. ASSUME goingOut = {},
             releases' = (releases \ OpenReleases) \cup {Closed(r) : r \in OpenReleases}
                           \cup {NewRow(version, end)}
      PROVE  Notice!Announce(version, end)
  <2> DEFINE x == NewRow(version, end)
  <2>1. x.version = version /\ x.ended = NotEnded /\ x.id \in Nat /\ x.expires = end
    BY DEF NewRow, TypeOK
  <2>2. \A r \in OpenReleases : Closed(r).ended # NotEnded
    BY <1>1, RowChanges DEF OpenReleases
  <2>3. x \in releases' /\ \A q \in releases' : q = x \/ q.ended # NotEnded
    BY <1>3, <2>2 DEF OpenReleases
  <2> HIDE DEF x
  <2>4. Current' = {x}
    BY <1>1, <2>1, <2>3, SoleRow DEF Current, OpenReleases
  <2>5. ShownVersion' = version /\ ShownUntil' = end
    BY <2>1, <2>4, ShownNext
  <2>6. ShownVersion # version
    <3>1. ASSUME NEW r \in OpenReleases, OpenReleases = {r}, r.expires > now PROVE r.version # version
      <4>1. r.id \in Nat
        BY DEF OpenReleases, TypeOK, ReleaseRows
      <4>2. QED
        BY <1>3, <3>1, <4>1 DEF Newest
    <3>2. Current = {} \/ \E r \in OpenReleases : Current = {r} /\ r.version # version
      BY <3>1, CurrentCases
    <3>3. QED
      BY <3>2, ShownOf
  <2>7. QED
    BY <2>5, <2>6 DEF Notice!Announce
<1>4. QED
  BY <1>2, <1>3 DEF StartRelease

\* A "finish" takes the notice of its version down, or changes nothing shown.
LEMMA FinishWithdraws ==
  ASSUME TypeOK, LogInv, now' = now, NEW version \in Versions, FinishRelease(version)
  PROVE  Notice!Withdraw \/ UNCHANGED <<now, ShownVersion, ShownUntil>>
<1>1. ASSUME NEW row \in Newest({r \in OpenReleases : r.version = version}),
             releases' = (releases \ {row}) \cup {Finished(row)}
      PROVE  Notice!Withdraw \/ UNCHANGED <<now, ShownVersion, ShownUntil>>
  <2>1. row \in OpenReleases /\ row \in releases /\ row.ended = NotEnded
    BY NewestIsARow DEF OpenReleases
  <2>2. OpenReleases = {row} /\ Current = IF row.expires > now THEN {row} ELSE {}
    BY <2>1, CurrentCases
  <2>3. Finished(row).ended # NotEnded
    BY <2>1, RowChanges DEF TypeOK
  <2>4. \A q \in releases' : q.ended # NotEnded
    BY <1>1, <2>2, <2>3 DEF OpenReleases
  <2>5. Current' = {}
    BY <2>4 DEF Current, Newest, OpenReleases
  <2>6. row.version \in Versions
    BY <2>1 DEF TypeOK, ReleaseRows
  <2>7. QED
    BY <2>2, <2>5, <2>6, ShownOf, ShownNext DEF Notice!Withdraw
<1>2. ASSUME UNCHANGED releases PROVE UNCHANGED <<now, ShownVersion, ShownUntil>>
  BY <1>2 DEF ShownVersion, ShownUntil, Current, OpenReleases
<1>3. QED
  BY <1>1, <1>2 DEF FinishRelease

LEMMA TickTicks ==
  ASSUME TypeOK, LogInv, Tick
  PROVE  Notice!Tick
<1>1. now' = now + 1 /\ now \in Nat /\ OpenReleases' = OpenReleases /\ releases' = releases
  BY DEF Tick, TypeOK, OpenReleases
<1>2. CASE OpenReleases = {}
  <2>1. Current = {} /\ Current' = {}
    BY <1>1, <1>2 DEF Current, Newest
  <2>2. QED
    BY <1>1, <2>1, ShownOf, ShownNext DEF Notice!Tick
<1>3. ASSUME NEW r \in OpenReleases, OpenReleases = {r} PROVE Notice!Tick
  <2>1. r.expires \in Nat /\ r.id \in Nat /\ r \in releases /\ r.ended = NotEnded
    BY DEF OpenReleases, TypeOK, ReleaseRows
  <2>2. Current = IF r.expires > now THEN {r} ELSE {}
    BY <1>3, CurrentCases
  <2>3. Current' = IF r.expires > now + 1 THEN {r} ELSE {}
    BY <1>1, <1>3, <2>1 DEF Current, Newest
  <2>4. QED
    BY <1>1, <2>1, <2>2, <2>3, ShownOf, ShownNext DEF Notice!Tick
<1>4. QED
  BY <1>2, <1>3, CurrentCases

\* Every step of the log is a step of the notice, or changes nothing it shows.
LEMMA NoticeNext ==
  TypeOK /\ LogInv /\ [Next]_vars => [Notice!Next]_<<now, ShownVersion, ShownUntil>>
<1> SUFFICES ASSUME TypeOK, LogInv, [Next]_vars
             PROVE  Notice!Next \/ UNCHANGED <<now, ShownVersion, ShownUntil>>
  OBVIOUS
<1>1. ASSUME NEW request \in Arriving, Deliver(request)
      PROVE  Notice!Next \/ UNCHANGED <<now, ShownVersion, ShownUntil>>
  <2>1. now' = now /\ now \in Nat /\ request.version \in Versions
    BY <1>1, DeliverCases DEF Deliver, TypeOK
  <2>2. ASSUME NEW minutes \in Asked \cup {NoMinutes}, StartRelease(request.version, minutes)
        PROVE  Notice!Next
    <3>1. now + NoticeLength(minutes) \in (now + MinMinutes)..(now + MaxMinutes)
      BY <2>1, NoticeLengthBounds
    <3>2. QED
      BY <2>1, <2>2, <3>1, StartAnnounces DEF Notice!Next
  <2>3. ASSUME FinishRelease(request.version)
        PROVE  Notice!Next \/ UNCHANGED <<now, ShownVersion, ShownUntil>>
    BY <2>1, <2>3, FinishWithdraws DEF Notice!Next
  <2>4. QED
    BY <1>1, <2>2, <2>3, DeliverCases
<1>2. CASE ViewPage
  BY <1>2 DEF ViewPage, ShownVersion, ShownUntil, Current, OpenReleases
<1>3. CASE Tick
  BY <1>3, TickTicks DEF Notice!Next
<1>4. CASE UNCHANGED vars
  BY <1>4 DEF vars, ShownVersion, ShownUntil, Current, OpenReleases
<1>5. QED
  BY <1>1, <1>2, <1>3, <1>4 DEF Next

\* The log of releases implements the notice the page promises.
THEOREM Implements == Spec => ImplementsNotice
<1>1. Init => Notice!Init
  BY DEF Init, Notice!Init, ShownVersion, ShownUntil, Current, OpenReleases, Newest
<1>2. Init => LogInv
  BY DEF Init, LogInv, ReleasesInSequence
<1>3. QED
  BY <1>1, <1>2, LogNext, NoticeNext, TypeCorrect, PTL DEF Spec, ImplementsNotice, Notice!Spec, Notice!vars

-----------------------------------------------------------------------------
(* The page's notice and the windows an incident is labelled by agree.     *)

\* The release the visitor was shown is still in the log, and whatever has
\* become of it, it began by then and did not end before.
Covers(r, t) ==
  /\ r.started <= t
  /\ r.ended = NotEnded => t <= r.expires
  /\ r.ended # NotEnded => t <= r.ended

VisitInv ==
  visit # Never => visit <= now /\ \E r \in releases : Covers(r, visit)

\* The three ways a row changes keep it covering a moment it covered.
LEMMA RowsCover ==
  ASSUME TypeOK, NEW row \in releases, row.ended = NotEnded, NEW end \in Nat,
         NEW t \in Nat, t <= now, Covers(row, t)
  PROVE  Covers(Extended(row, end), t) /\ Covers(Closed(row), t) /\ Covers(Finished(row), t)
<1>1. row \in ReleaseRows
  BY DEF TypeOK
<1>2. QED
  BY <1>1 DEF TypeOK, Covers, Extended, Closed, Finished, ReleaseRows

\* A step of either handler leaves every row alone but the open ones, and
\* those it extends, closes or finishes.
LEMMA RowsAfter ==
  ASSUME TypeOK, NEW version \in Versions, NEW r \in releases,
         \/ \E minutes \in Asked \cup {NoMinutes} : StartRelease(version, minutes)
         \/ FinishRelease(version)
  PROVE  \/ r \in releases'
         \/ /\ r.ended = NotEnded
            /\ \/ \E end \in Nat : Extended(r, end) \in releases'
               \/ Closed(r) \in releases'
               \/ Finished(r) \in releases'
<1>1. ASSUME NEW minutes \in Asked \cup {NoMinutes}, StartRelease(version, minutes)
      PROVE  \/ r \in releases'
             \/ /\ r.ended = NotEnded
                /\ (\E end \in Nat : Extended(r, end) \in releases') \/ Closed(r) \in releases'
  <2>1. now + NoticeLength(minutes) \in Nat
    BY NoticeLengthBounds DEF TypeOK
  <2>2. QED
    BY <1>1, <2>1 DEF StartRelease, OpenReleases, Newest
<1>2. ASSUME FinishRelease(version)
      PROVE  r \in releases' \/ (r.ended = NotEnded /\ Finished(r) \in releases')
  BY <1>2 DEF FinishRelease, OpenReleases, Newest
<1>3. QED
  BY <1>1, <1>2

LEMMA VisitNext == TypeOK /\ LogInv /\ VisitInv /\ [Next]_vars => VisitInv'
<1> SUFFICES ASSUME TypeOK, LogInv, VisitInv, [Next]_vars PROVE VisitInv'
  OBVIOUS
<1>1. ASSUME NEW request \in Arriving, Deliver(request) PROVE VisitInv'
  <2> SUFFICES ASSUME visit # Never PROVE VisitInv'
    BY <1>1 DEF Deliver, VisitInv
  <2>1. now' = now /\ visit' = visit /\ visit <= now /\ visit \in Nat /\ request.version \in Versions
    BY <1>1, DeliverCases DEF Deliver, VisitInv, TypeOK
  <2>2. PICK r \in releases : Covers(r, visit)
    BY DEF VisitInv
  <2>3. ASSUME NEW x \in releases', Covers(x, visit) PROVE VisitInv'
    BY <2>1, <2>3 DEF VisitInv
  <2>4. \/ r \in releases'
        \/ /\ r.ended = NotEnded
           /\ \/ \E end \in Nat : Extended(r, end) \in releases'
              \/ Closed(r) \in releases'
              \/ Finished(r) \in releases'
    BY <1>1, <2>1, DeliverCases, RowsAfter
  <2>5. ASSUME r.ended = NotEnded
        PROVE  /\ \A end \in Nat : Covers(Extended(r, end), visit)
               /\ Covers(Closed(r), visit) /\ Covers(Finished(r), visit)
    BY <2>1, <2>2, <2>5, RowsCover, 0 \in Nat
  <2>6. QED
    BY <2>2, <2>3, <2>4, <2>5
<1>2. CASE ViewPage
  <2>1. PICK r \in releases : r.ended = NotEnded /\ r.expires > now
    BY <1>2 DEF ViewPage, Current, Newest, OpenReleases
  <2>2. r.started <= now /\ r.expires \in Nat /\ now \in Nat
    BY DEF LogInv, TypeOK, ReleaseRows
  <2>3. Covers(r, now)
    BY <2>1, <2>2 DEF Covers
  <2>4. QED
    BY <1>2, <2>2, <2>3 DEF ViewPage, VisitInv
<1>3. CASE Tick
  BY <1>3 DEF Tick, VisitInv, TypeOK
<1>4. CASE UNCHANGED vars
  BY <1>4 DEF vars, VisitInv
<1>5. QED
  BY <1>1, <1>2, <1>3, <1>4 DEF Next

\* A window the history keeps covers the visit, from any earlier "since" on.
LEMMA VisitLabelled == TypeOK /\ VisitInv => NoticeInWindows
<1> SUFFICES ASSUME TypeOK, VisitInv, visit # Never, NEW since \in 0..visit
             PROVE  ReleaseAt(visit, Windows(since)) = "during"
  BY DEF NoticeInWindows
<1>1. PICK r \in releases : Covers(r, visit)
  BY DEF VisitInv
<1>2. visit \in Nat /\ visit <= now /\ now \in Nat /\ r \in ReleaseRows
  BY DEF TypeOK, VisitInv
<1>3. \E w \in Windows(since) : w.start <= visit /\ visit <= w.end
  <2> DEFINE Last == IF r.ended # NotEnded THEN r.ended ELSE r.expires
  <2> DEFINE End == IF r.ended # NotEnded THEN r.ended ELSE IF r.expires < now THEN r.expires ELSE now
  <2>1. visit <= Last /\ visit <= End /\ r.started <= visit /\ Last \in Int
    BY <1>1, <1>2 DEF Covers, ReleaseRows
  <2>2. [start |-> r.started, end |-> End] \in Windows(since)
    <3>1. Last >= since
      BY <1>2, <2>1
    <3>2. QED
      BY <3>1 DEF Windows
  <2>3. QED
    BY <2>1, <2>2
<1>4. QED
  BY <1>3 DEF ReleaseAt

\* An incident that began while the page showed a release is labelled as
\* having begun during one, whenever and however that release ended.
THEOREM NoticeLabels == Spec => []NoticeInWindows
<1>1. Init => LogInv /\ VisitInv
  BY DEF Init, LogInv, ReleasesInSequence, VisitInv
<1>2. QED
  BY <1>1, LogNext, VisitNext, VisitLabelled, TypeCorrect, PTL DEF Spec
-----------------------------------------------------------------------------
(* The label of a past moment is only ever sharpened.                      *)

\* No release lasts less than no time.
LengthInv ==
  \A r \in releases : r.started <= r.expires /\ (r.ended # NotEnded => r.started <= r.ended)

\* When a release ended, as far as one can tell now.
EndOf(r) ==
  IF r.ended # NotEnded THEN r.ended ELSE IF r.expires < now THEN r.expires ELSE now

\* What release_at says, in terms of the rows.
During(t) == \E r \in releases : r.started <= t /\ t <= EndOf(r)
NotLongAfter(t) == \E r \in releases : r.started <= t /\ t <= EndOf(r) + Aftermath
LabelsInv ==
  \A t \in Nat : /\ ReleaseAt(t, Windows(0)) = "during" <=> During(t)
                 /\ ReleaseAt(t, Windows(0)) # "none" <=> NotLongAfter(t)

\* Rows keep a length through whatever happens to them.
LEMMA LengthsKept ==
  ASSUME TypeOK, LogInv, LengthInv, NEW row \in releases, row.ended = NotEnded,
         NEW end \in Nat
  PROVE  /\ LET x == Extended(row, end) IN x.started <= x.expires /\ x.ended = NotEnded
         /\ LET x == Closed(row) IN x.started <= x.expires /\ x.started <= x.ended
         /\ LET x == Finished(row) IN x.started <= x.expires /\ x.started <= x.ended
<1>1. row \in ReleaseRows /\ row.started <= now /\ row.started <= row.expires
  BY DEF TypeOK, LogInv, LengthInv
<1>2. QED
  BY <1>1 DEF TypeOK, Extended, Closed, Finished, ReleaseRows

LEMMA LengthNext == TypeOK /\ LogInv /\ LengthInv /\ [Next]_vars => LengthInv'
<1> SUFFICES ASSUME TypeOK, LogInv, LengthInv, [Next]_vars PROVE LengthInv'
  OBVIOUS
<1>1. ASSUME NEW version \in Versions, NEW minutes \in Asked \cup {NoMinutes},
             StartRelease(version, minutes)
      PROVE  LengthInv'
  <2> DEFINE end == now + NoticeLength(minutes)
  <2>1. end \in Nat /\ now \in Nat /\ now <= end
    BY NoticeLengthBounds DEF TypeOK
  <2>2. /\ NewRow(version, end).started <= NewRow(version, end).expires
        /\ NewRow(version, end).ended = NotEnded
    BY <2>1 DEF NewRow
  <2> HIDE DEF end
  <2>3. \A row \in OpenReleases : row \in releases /\ row.ended = NotEnded
    BY DEF OpenReleases
  <2>4. \A x \in releases' :
          \/ x \in releases \/ x = NewRow(version, end)
          \/ \E row \in OpenReleases : x = Extended(row, end) \/ x = Closed(row)
    BY <1>1 DEF StartRelease, Newest, end
  <2>5. QED
    BY <2>1, <2>2, <2>3, <2>4, LengthsKept DEF LengthInv
<1>2. ASSUME NEW version \in Versions, FinishRelease(version) PROVE LengthInv'
  <2>1. \A x \in releases' :
          x \in releases \/ \E row \in OpenReleases : x = Finished(row)
    BY <1>2 DEF FinishRelease, Newest
  <2>2. \A row \in OpenReleases : row \in releases /\ row.ended = NotEnded
    BY DEF OpenReleases
  <2>3. QED
    BY <2>1, <2>2, LengthsKept, 0 \in Nat DEF LengthInv
<1>3. CASE UNCHANGED releases
  BY <1>3 DEF LengthInv
<1>4. QED
  BY <1>1, <1>2, <1>3, DeliverCases DEF Next, ViewPage, Tick, vars

\* The windows hold one entry per row, and release_at looks for one that
\* covers the moment, or ended a short time before it.
LEMMA LabelsAgree == TypeOK /\ LogInv /\ LengthInv => LabelsInv
<1> SUFFICES ASSUME TypeOK, LogInv, LengthInv, NEW t \in Nat
             PROVE  /\ ReleaseAt(t, Windows(0)) = "during" <=> During(t)
                    /\ ReleaseAt(t, Windows(0)) # "none" <=> NotLongAfter(t)
  BY DEF LabelsInv
<1>1. \A r \in releases : /\ r.started \in Nat /\ r.ended \in Int /\ r.expires \in Nat
                          /\ r.ended # NotEnded => r.ended >= 0
                          /\ EndOf(r) \in Nat /\ r.started <= EndOf(r)
  BY DEF TypeOK, ReleaseRows, LogInv, LengthInv, EndOf
<1>2. /\ \A r \in releases : \E w \in Windows(0) : w.start = r.started /\ w.end = EndOf(r)
      /\ \A w \in Windows(0) : \E r \in releases : w.start = r.started /\ w.end = EndOf(r)
  <2>1. Windows(0) = {[start |-> r.started, end |-> EndOf(r)] : r \in releases}
    BY <1>1 DEF Windows, EndOf
  <2>2. ASSUME NEW r \in releases
        PROVE  \E w \in Windows(0) : w.start = r.started /\ w.end = EndOf(r)
    <3>1. [start |-> r.started, end |-> EndOf(r)] \in Windows(0)
      BY <2>1
    <3>2. QED
      BY <3>1
  <2>3. ASSUME NEW w \in Windows(0)
        PROVE  \E r \in releases : w.start = r.started /\ w.end = EndOf(r)
    <3>1. PICK r \in releases : w = [start |-> r.started, end |-> EndOf(r)]
      BY <2>1
    <3>2. QED
      BY <3>1
  <2>4. QED
    BY <2>2, <2>3
<1> DEFINE Covering == \E w \in Windows(0) : w.start <= t /\ t <= w.end
<1> DEFINE Shortly == \E w \in Windows(0) : w.end < t /\ t <= w.end + Aftermath
<1>3. Covering <=> During(t)
  BY <1>2 DEF During
<1>4. Shortly \/ During(t) <=> NotLongAfter(t)
  <2>1. Shortly <=> \E r \in releases : EndOf(r) < t /\ t <= EndOf(r) + Aftermath
    BY <1>2
  <2>2. QED
    BY <1>1, <2>1 DEF During, NotLongAfter
<1>5. ReleaseAt(t, Windows(0)) = IF Covering THEN "during" ELSE IF Shortly THEN "after" ELSE "none"
  BY DEF ReleaseAt
<1> HIDE DEF Covering, Shortly
<1>6. QED
  BY <1>3, <1>4, <1>5

\* A row keeps its start, and its end only moves on.
LEMMA EndsMoveOn ==
  ASSUME TypeOK, LogInv, [Next]_vars, NEW r \in releases
  PROVE  \E q \in releases' : q.started = r.started /\ EndOf(r) <= EndOf(q)'
<1>1. r \in ReleaseRows /\ now \in Nat
  BY DEF TypeOK
<1>2. ASSUME NEW version \in Versions, now' = now,
             \/ \E minutes \in Asked \cup {NoMinutes} : StartRelease(version, minutes)
             \/ FinishRelease(version)
      PROVE  \E q \in releases' : q.started = r.started /\ EndOf(r) <= EndOf(q)'
  <2>1. CASE r \in releases'
    BY <1>1, <1>2, <2>1 DEF EndOf, ReleaseRows
  <2>2. ASSUME r.ended = NotEnded, NEW q \in releases',
               \/ \E end \in Nat : q = Extended(r, end)
               \/ q = Closed(r)
               \/ q = Finished(r)
        PROVE  q.started = r.started /\ EndOf(r) <= EndOf(q)'
    <3>1. r.ended = NotEnded /\ r.expires \in Nat /\ now' = now /\ NotEnded \notin Nat
      BY <1>1, <1>2, <2>2 DEF ReleaseRows
    <3>2. CASE \E end \in Nat : q = Extended(r, end)
      BY <1>1, <3>1, <3>2 DEF EndOf, Extended, ReleaseRows
    <3>3. CASE q = Closed(r)
      BY <1>1, <3>1, <3>3 DEF EndOf, Closed, ReleaseRows
    <3>4. CASE q = Finished(r)
      BY <1>1, <3>1, <3>4 DEF EndOf, Finished, ReleaseRows
    <3>5. QED
      BY <2>2, <3>2, <3>3, <3>4
  <2>3. \/ r \in releases'
        \/ /\ r.ended = NotEnded
           /\ \/ \E end \in Nat : Extended(r, end) \in releases'
              \/ Closed(r) \in releases'
              \/ Finished(r) \in releases'
    BY <1>2, RowsAfter
  <2>4. QED
    BY <2>1, <2>2, <2>3
<1>3. CASE UNCHANGED <<now, releases>>
  BY <1>1, <1>3 DEF EndOf, ReleaseRows
<1>4. CASE Tick
  BY <1>1, <1>4 DEF Tick, EndOf, ReleaseRows
<1>5. ASSUME NEW request \in Arriving, Deliver(request)
      PROVE  \E q \in releases' : q.started = r.started /\ EndOf(r) <= EndOf(q)'
  BY <1>2, <1>5, DeliverCases DEF Deliver
<1>6. QED
  BY <1>3, <1>4, <1>5 DEF Next, ViewPage, vars

LEMMA LabelsNext ==
  ASSUME TypeOK, TypeOK', LogInv, LabelsInv, LabelsInv', [Next]_vars, NEW t \in 0..now
  PROVE  /\ ReleaseAt(t, Windows(0)) = "during" => (ReleaseAt(t, Windows(0)))' = "during"
         /\ ReleaseAt(t, Windows(0)) = "after" => (ReleaseAt(t, Windows(0)))' # "none"
<1>1. t \in Nat
  BY DEF TypeOK
<1>2. \A r \in releases : r.started \in Nat /\ EndOf(r) \in Nat
  BY DEF TypeOK, ReleaseRows, EndOf
<1>3. \A q \in releases' : EndOf(q)' \in Nat
  BY DEF TypeOK, ReleaseRows, EndOf
<1>4. During(t) => During(t)'
  BY <1>1, <1>2, <1>3, EndsMoveOn DEF During
<1>5. NotLongAfter(t) => NotLongAfter(t)'
  BY <1>1, <1>2, <1>3, EndsMoveOn DEF NotLongAfter
<1>6. QED
  BY <1>1, <1>4, <1>5 DEF LabelsInv

\* A moment once placed during a release stays during one, and one placed
\* after a release never loses it, whatever later event closes, replaces or
\* extends the rows.
THEOREM LabelsSharpen == Spec => LabelsOnlySharpen
<1>1. Init => LogInv /\ LengthInv
  BY DEF Init, LogInv, ReleasesInSequence, LengthInv
<1>2. TypeOK /\ TypeOK' /\ LogInv /\ LabelsInv /\ LabelsInv' /\ [Next]_vars =>
        [\A t \in 0..now :
           /\ ReleaseAt(t, Windows(0)) = "during" => (ReleaseAt(t, Windows(0)))' = "during"
           /\ ReleaseAt(t, Windows(0)) = "after" => (ReleaseAt(t, Windows(0)))' # "none"]_vars
  BY LabelsNext
<1>3. QED
  BY <1>1, <1>2, LogNext, LengthNext, LabelsAgree, TypeCorrect, PTL DEF Spec, LabelsOnlySharpen
=============================================================================
