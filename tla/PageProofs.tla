------------------------------ MODULE PageProofs ------------------------------
(***************************************************************************)
(* What holds of the parts of the page that tell of what is and what was.  *)
(*                                                                         *)
(* Announcements, for every set of webhooks and windows, any number of     *)
(* slots and any limits: a subscriber is dropped only on evidence about    *)
(* its own webhook, and what is resolved stays as it was.                  *)
(*                                                                         *)
(* Headline, for every catalogue it can be about: the verdict at the top   *)
(* and the list of components agree, "all systems operational" is measured *)
(* and a prober that stops is seen to have stopped.                        *)
(*                                                                         *)
(* IncidentEvents, for any incidents, gaps, windows and explanations: the  *)
(* list shows what hangs together as one, tells the time that was really   *)
(* down, and keeps every explanation.                                      *)
(*                                                                         *)
(* Uptime, for any components and checks and any window short enough for   *)
(* the rounding: a component's figure and the bars under it tell one story.*)
(*                                                                         *)
(* Page, which is the last three together.                                 *)
(***************************************************************************)
EXTENDS Announcements, Page, FiniteSetTheorems, NaturalsInduction, WellFoundedInduction, TLAPS

\* A token is handed out once: no row has one that is still to come, and a
\* test message is about the row of its token.
TokensInv ==
  /\ \A s \in subscribers : s.token <= issued
  /\ \A t \in tests : t.token <= issued
  /\ \A s \in subscribers, t \in tests : s.token = t.token => s.url = t.url

\* A row never counts more failures than its webhook has had since it last
\* answered, as far as they are counted.
FailuresInv ==
  \A s \in subscribers : s.failures <= refusals[s.url] \/ refusals[s.url] = MaxFailures

TableInv ==
  /\ SubscribersOK
  /\ IsFiniteSet(subscribers)
  /\ TokensInv
  /\ FailuresInv

BoardInv ==
  /\ now \in Moments
  /\ announcements = [a \in Ids |-> announcements[a]]
  /\ \A a \in Ids : announcements[a] \in Announcement \cup {None}
  /\ \A a \in Stored : announcements[a].kind = "incident" => announcements[a].window = NoWindow

IInv == TableInv /\ BoardInv

LEMMA InvImpliesType == IInv => TypeOK
  BY DEF IInv, TableInv, BoardInv, TypeOK

LEMMA InvInit == Init => IInv
<1> SUFFICES ASSUME Init PROVE IInv
  OBVIOUS
<1> USE SubscribersAssumption, AnnouncementsAssumption
<1>1. IsFiniteSet({}) /\ Cardinality({}) = 0
  BY FS_EmptySet
<1>2. TableInv
  BY <1>1 DEF Init, SubscribersInit, TableInv, SubscribersOK, TokensInv, FailuresInv
<1>3. BoardInv
  BY DEF Init, BoardInv, Moments, Ids, Stored, None
<1>4. QED
  BY <1>2, <1>3 DEF IInv

-----------------------------------------------------------------------------
(* The table of subscribers.                                               *)

LEMMA RowTypes ==
  ASSUME TableInv
  PROVE  /\ \A s \in subscribers : /\ s \in Rows /\ s.url \in Urls /\ s.token \in Tokens
                                   /\ s.token \in Nat /\ s.failures \in Nat
                                   /\ s = [url |-> s.url, token |-> s.token, failures |-> s.failures]
         /\ \A u \in Urls : refusals[u] \in 0..MaxFailures
         /\ issued \in Nat /\ broadcasts \in Nat
  BY SubscribersAssumption DEF TableInv, SubscribersOK, Rows, Tokens

LEMMA ImageIsSmaller ==
  ASSUME NEW S, IsFiniteSet(S), NEW f
  PROVE  /\ IsFiniteSet({f[x] : x \in S})
         /\ Cardinality({f[x] : x \in S}) <= Cardinality(S)
<1> DEFINE g == [x \in S |-> f[x]]
<1>1. g \in Surjection(S, {f[x] : x \in S})
  BY DEF Surjection
<1>2. QED
  BY <1>1, FS_Surjection

Recounted(s, n) == [url |-> s.url, token |-> s.token, failures |-> n]

LEMMA RecountedRow ==
  ASSUME TableInv, NEW s \in subscribers, NEW n
  PROVE  [s EXCEPT !.failures = n] = Recounted(s, n) /\ s = Recounted(s, s.failures)
<1>1. s = [url |-> s.url, token |-> s.token, failures |-> s.failures]
  BY RowTypes
<1>2. s \in [url : {s.url}, token : {s.token}, failures : {s.failures}]
  BY <1>1
<1>3. [s EXCEPT !.failures = n] = [url |-> s.url, token |-> s.token, failures |-> n]
  BY <1>2
<1>4. QED
  BY <1>1, <1>3 DEF Recounted

\* Rows that stay, with their failures as they are or counted anew, are a
\* table as before.
LEMMA RecountKeepsTable ==
  ASSUME TableInv, NEW count \in [subscribers -> Nat],
         \A r \in subscribers' : \E s \in subscribers :
           /\ r = Recounted(s, count[s])
           /\ count[s] <= refusals'[s.url] \/ refusals'[s.url] = MaxFailures,
         tests' \subseteq tests, issued' = issued,
         broadcasts' \in 0..MaxBroadcasts, deliveries' \subseteq Deliveries,
         refusals' \in [Urls -> 0..MaxFailures]
  PROVE  TableInv'
<1> DEFINE again == [s \in subscribers |-> Recounted(s, count[s])]
<1>1. \A r \in subscribers' : \E s \in subscribers :
        /\ r = again[s] /\ r.url = s.url /\ r.token = s.token /\ r.failures = count[s]
        /\ count[s] <= refusals'[s.url] \/ refusals'[s.url] = MaxFailures
  BY DEF Recounted
<1>2. subscribers' \subseteq {again[s] : s \in subscribers}
  BY <1>1
<1>3. \A s \in subscribers : again[s] \in Rows
  BY RowTypes DEF Recounted, Rows
<1> HIDE DEF again
<1>4. IsFiniteSet(subscribers') /\ Cardinality(subscribers') <= Cardinality(subscribers)
  <2>1. IsFiniteSet(subscribers)
    BY DEF TableInv
  <2>2. /\ IsFiniteSet({again[s] : s \in subscribers})
        /\ Cardinality({again[s] : s \in subscribers}) <= Cardinality(subscribers)
    BY <2>1, ImageIsSmaller
  <2>3. /\ IsFiniteSet(subscribers')
        /\ Cardinality(subscribers') <= Cardinality({again[s] : s \in subscribers})
    BY <1>2, <2>2, FS_Subset
  <2>4. QED
    BY <2>1, <2>2, <2>3, FS_CardinalityType
<1>5. SubscribersOK'
  <2>1. subscribers' \subseteq Rows
    BY <1>2, <1>3
  <2>2. \A r, s \in subscribers' : r.url = s.url \/ r.token = s.token => r = s
    BY <1>1 DEF TableInv, SubscribersOK
  <2>3. Cardinality(subscribers') <= MaxSubscribers
    BY <1>4, FS_CardinalityType, SubscribersAssumption DEF TableInv, SubscribersOK
  <2>4. QED
    BY <2>1, <2>2, <2>3 DEF TableInv, SubscribersOK, Tokens, Rows, Deliveries
<1>6. TokensInv'
  BY <1>1 DEF TableInv, TokensInv
<1>7. FailuresInv'
  BY <1>1 DEF FailuresInv
<1>8. QED
  BY <1>4, <1>5, <1>6, <1>7 DEF TableInv

\* Rows that only go.
LEMMA RemovalKeepsTable ==
  ASSUME TableInv, subscribers' \subseteq subscribers, tests' \subseteq tests, issued' = issued,
         broadcasts' \in 0..MaxBroadcasts, deliveries' \subseteq Deliveries,
         refusals' \in [Urls -> 0..MaxFailures],
         \A s \in subscribers' : refusals'[s.url] \in {refusals[s.url], MaxFailures}
  PROVE  TableInv'
<1> DEFINE count == [s \in subscribers |-> s.failures]
<1>1. count \in [subscribers -> Nat]
  BY RowTypes
<1>2. ASSUME NEW r \in subscribers'
      PROVE  /\ r \in subscribers /\ r = Recounted(r, count[r])
             /\ count[r] <= refusals'[r.url] \/ refusals'[r.url] = MaxFailures
  BY <1>2, RecountedRow DEF TableInv, FailuresInv
<1> HIDE DEF count
<1>3. QED
  BY <1>1, <1>2, RecountKeepsTable

LEMMA SubscribeKeepsTable ==
  ASSUME TableInv, NEW u \in Urls, Subscribe(u)
  PROVE  TableInv'
<1> DEFINE new == [url |-> u, token |-> issued + 1, failures |-> 0]
<1> DEFINE test == [url |-> u, token |-> issued + 1]
<1>1. /\ subscribers' = subscribers \cup {new} /\ tests' = tests \cup {test}
      /\ issued' = issued + 1 /\ issued < MaxTokens /\ Cardinality(subscribers) < MaxSubscribers
      /\ \A s \in subscribers : s.url # u
      /\ UNCHANGED <<broadcasts, deliveries, refusals>>
  BY DEF Subscribe, Free, Row
<1>2. issued + 1 \in Tokens /\ new \in Rows /\ test \in [url : Urls, token : Tokens]
  BY <1>1, RowTypes, SubscribersAssumption DEF Tokens, Rows
<1>3. new.url = u /\ new.token = issued + 1 /\ new.failures = 0
      /\ test.url = u /\ test.token = issued + 1
  OBVIOUS
<1> HIDE DEF new, test
<1>4. IsFiniteSet(subscribers') /\ Cardinality(subscribers') <= MaxSubscribers
  <2>1. /\ IsFiniteSet(subscribers') /\ Cardinality(subscribers) \in Nat
        /\ Cardinality(subscribers') \in {Cardinality(subscribers), Cardinality(subscribers) + 1}
    BY <1>1, FS_AddElement, FS_CardinalityType DEF TableInv
  <2>2. QED
    BY <1>1, <2>1, SubscribersAssumption
<1>5. \A s \in subscribers : s.token \in Nat /\ s.token < issued + 1
  BY RowTypes DEF TableInv, TokensInv
<1>6. \A t \in tests : t.token \in Nat /\ t.token < issued + 1
  BY RowTypes DEF TableInv, TokensInv, SubscribersOK, Tokens
<1>7. SubscribersOK'
  <2>1. subscribers' \subseteq Rows /\ tests' \subseteq [url : Urls, token : Tokens]
    BY <1>1, <1>2 DEF TableInv, SubscribersOK
  <2>2. \A r, s \in subscribers' : r.url = s.url \/ r.token = s.token => r = s
    BY <1>1, <1>3, <1>5, RowTypes DEF TableInv, SubscribersOK
  <2>3. issued' \in 0..MaxTokens
    BY <1>1, RowTypes, SubscribersAssumption
  <2>4. QED
    BY <1>1, <1>4, <2>1, <2>2, <2>3 DEF TableInv, SubscribersOK, Tokens, Rows, Deliveries
<1>8. TokensInv'
  <2>1. \A s \in subscribers' : s.token <= issued'
    BY <1>1, <1>3, <1>5, RowTypes
  <2>2. \A t \in tests' : t.token <= issued'
    BY <1>1, <1>3, <1>6, RowTypes
  <2>3. \A s \in subscribers', t \in tests' : s.token = t.token => s.url = t.url
    BY <1>1, <1>3, <1>5, <1>6, RowTypes DEF TableInv, TokensInv
  <2>4. QED
    BY <2>1, <2>2, <2>3 DEF TokensInv
<1>9. FailuresInv'
  BY <1>1, <1>3, RowTypes, SubscribersAssumption DEF TableInv, FailuresInv
<1>10. QED
  BY <1>4, <1>7, <1>8, <1>9 DEF TableInv

\* A broadcast writes one message for every row there is.
LEMMA BroadcastKeepsTable ==
  ASSUME TableInv, Broadcast
  PROVE  TableInv'
<1>1. deliveries' \subseteq Deliveries
  <2>1. broadcasts + 1 \in 1..MaxBroadcasts
    BY RowTypes, SubscribersAssumption DEF Broadcast
  <2>2. \A s \in subscribers :
          [broadcast |-> broadcasts + 1, url |-> s.url, token |-> s.token, out |-> FALSE] \in Deliveries
    BY <2>1, RowTypes DEF Deliveries
  <2>3. QED
    BY <2>2 DEF Broadcast, TableInv, SubscribersOK
<1>2. broadcasts' \in 0..MaxBroadcasts
  BY RowTypes, SubscribersAssumption DEF Broadcast
<1>3. QED
  BY <1>1, <1>2, RemovalKeepsTable DEF Broadcast, TableInv, SubscribersOK

LEMMA SendKeepsTable ==
  ASSUME TableInv, NEW d \in deliveries, Send(d)
  PROVE  TableInv'
<1>1. d \in Deliveries
  BY DEF TableInv, SubscribersOK
<1>2. [d EXCEPT !.out = TRUE] \in Deliveries
  BY <1>1 DEF Deliveries
<1>3. deliveries' \subseteq Deliveries
  BY <1>2 DEF Send, TableInv, SubscribersOK
<1>4. QED
  BY <1>3, RemovalKeepsTable DEF Send, TableInv, SubscribersOK

\* The refusals of a webhook after one more.
LEMMA OneMoreIs ==
  ASSUME TableInv, NEW u \in Urls, OneMoreRefusal(u)
  PROVE  /\ refusals' \in [Urls -> 0..MaxFailures]
         /\ \A v \in Urls : v # u => refusals'[v] = refusals[v]
         /\ refusals'[u] = MaxFailures \/ refusals'[u] = refusals[u] + 1
<1>1. refusals \in [Urls -> 0..MaxFailures]
  BY DEF TableInv, SubscribersOK
<1>2. QED
  BY <1>1, SubscribersAssumption DEF OneMoreRefusal

\* A failure counted on the row of the webhook, and remembered of it.
LEMMA BumpKeepsTable ==
  ASSUME TableInv, NEW u \in Urls, subscribers' \subseteq Bumped(u), OneMoreRefusal(u),
         tests' \subseteq tests, issued' = issued,
         broadcasts' \in 0..MaxBroadcasts, deliveries' \subseteq Deliveries
  PROVE  TableInv'
<1> DEFINE count == [s \in subscribers |-> IF s.url = u THEN s.failures + 1 ELSE s.failures]
<1>1. count \in [subscribers -> Nat]
  BY RowTypes
<1>2. ASSUME NEW r \in subscribers'
      PROVE  \E s \in subscribers :
               /\ r = Recounted(s, count[s])
               /\ count[s] <= refusals'[s.url] \/ refusals'[s.url] = MaxFailures
  <2>1. PICK s \in subscribers : r = IF s.url = u THEN [s EXCEPT !.failures = @ + 1] ELSE s
    BY DEF Bumped
  <2>2. r = Recounted(s, count[s])
    BY <2>1, RecountedRow
  <2>3. s.failures <= refusals[s.url] \/ refusals[s.url] = MaxFailures
    BY DEF TableInv, FailuresInv
  <2>4. refusals[s.url] \in 0..MaxFailures /\ s.failures \in Nat /\ s.url \in Urls
    BY RowTypes
  <2>5. count[s] <= refusals'[s.url] \/ refusals'[s.url] = MaxFailures
    BY <2>3, <2>4, OneMoreIs, SubscribersAssumption
  <2>6. QED
    BY <2>2, <2>5
<1> HIDE DEF count
<1>3. QED
  BY <1>1, <1>2, OneMoreIs, RecountKeepsTable

LEMMA AnswerKeepsTable ==
  ASSUME TableInv, NEW d \in deliveries, Answered(d)
  PROVE  TableInv'
<1>1. /\ d.url \in Urls /\ deliveries' \subseteq Deliveries
      /\ tests' \subseteq tests /\ issued' = issued /\ broadcasts' \in 0..MaxBroadcasts
  BY DEF Answered, TableInv, SubscribersOK, Deliveries
<1>2. refusals \in [Urls -> 0..MaxFailures] /\ MaxFailures \in Nat
  BY SubscribersAssumption DEF TableInv, SubscribersOK
<1>3. CASE Delivered(d.url)
  <2> DEFINE count == [s \in subscribers |-> IF s.url = d.url THEN 0 ELSE s.failures]
  <2>1. count \in [subscribers -> Nat]
    BY RowTypes
  <2>2. ASSUME NEW r \in subscribers'
        PROVE  \E s \in subscribers :
                 /\ r = Recounted(s, count[s])
                 /\ count[s] <= refusals'[s.url] \/ refusals'[s.url] = MaxFailures
    <3>1. PICK s \in subscribers : r = IF s.url = d.url THEN [s EXCEPT !.failures = 0] ELSE s
      BY <1>3 DEF Delivered
    <3>2. r = Recounted(s, count[s])
      BY <3>1, RecountedRow
    <3>3. QED
      BY <1>1, <1>2, <1>3, <3>2, RowTypes DEF Delivered, TableInv, FailuresInv
  <2> HIDE DEF count
  <2>3. refusals' \in [Urls -> 0..MaxFailures]
    BY <1>1, <1>2, <1>3 DEF Delivered
  <2>4. QED
    BY <1>1, <2>1, <2>2, <2>3, RecountKeepsTable
<1>4. CASE Dead(d.url)
  <2>1. refusals' \in [Urls -> 0..MaxFailures] /\ subscribers' \subseteq subscribers
    BY <1>1, <1>2, <1>4 DEF Dead
  <2>2. \A s \in subscribers' : refusals'[s.url] \in {refusals[s.url], MaxFailures}
    BY <1>1, <1>2, <1>4, RowTypes DEF Dead
  <2>3. QED
    BY <1>1, <2>1, <2>2, RemovalKeepsTable
<1>5. CASE Failed(d.url)
  BY <1>1, <1>5, BumpKeepsTable DEF Failed
<1>6. QED
  BY <1>3, <1>4, <1>5 DEF Answered

LEMMA TableKept == TableInv /\ SubscribersNext => TableInv'
<1> SUFFICES ASSUME TableInv, SubscribersNext PROVE TableInv'
  OBVIOUS
<1>1. ASSUME NEW u \in Urls, Subscribe(u) PROVE TableInv'
  BY <1>1, SubscribeKeepsTable
<1>2. ASSUME NEW t \in tests, NEW delivered \in BOOLEAN, TestAnswered(t, delivered)
      PROVE  TableInv'
  BY <1>2, RemovalKeepsTable DEF TestAnswered, Dropped, Without, TableInv, SubscribersOK
<1>3. ASSUME NEW t \in Tokens, Unsubscribe(t) PROVE TableInv'
  BY <1>3, RemovalKeepsTable DEF Unsubscribe, Without, memory, TableInv, SubscribersOK
<1>4. CASE Deliver
  BY <1>4, SendKeepsTable, AnswerKeepsTable DEF Deliver
<1>5. ASSUME NEW d \in deliveries, CrashInBump(d) PROVE TableInv'
  <2>1. d.url \in Urls
    BY DEF TableInv, SubscribersOK, Deliveries
  <2>2. QED
    BY <1>5, <2>1, BumpKeepsTable DEF CrashInBump, Restarted, TableInv, SubscribersOK
<1>6. QED
  BY <1>1, <1>2, <1>3, <1>4, <1>5 DEF SubscribersNext

-----------------------------------------------------------------------------
(* The announcements.                                                      *)

\* What a handler writes to one announcement is all that it changes.
LEMMA WriteKeepsBoard ==
  ASSUME BoardInv, NEW a \in Ids, NEW new \in Announcement \cup {None},
         new # None /\ new.kind = "incident" => new.window = NoWindow,
         announcements' = [announcements EXCEPT ![a] = new], now' = now
  PROVE  BoardInv'
<1>1. announcements' = [b \in Ids |-> IF b = a THEN new ELSE announcements[b]]
  BY DEF BoardInv
<1>2. QED
  BY <1>1 DEF BoardInv, Stored

\* A stored announcement has the fields of one.
LEMMA StoredTypes ==
  ASSUME BoardInv, NEW a \in Stored
  PROVE  /\ a \in Ids /\ announcements[a] \in Announcement /\ announcements[a] # None
         /\ announcements[a].kind = "incident" => announcements[a].window = NoWindow
BY DEF BoardInv, Stored

LEMMA NotNone == \A x \in Announcement : x # None
<1> SUFFICES ASSUME NEW x \in Announcement, x = None PROVE FALSE
  OBVIOUS
<1>1. x.kind \in {"maintenance", "incident"}
  BY DEF Announcement
<1>2. QED
  BY <1>1 DEF None

LEMMA MomentTypes == BoardInv => now \in Moments
  BY DEF BoardInv

\* What may be written in the place of an announcement.
Writable(new) ==
  /\ new \in Announcement \cup {None}
  /\ new # None /\ new.kind = "incident" => new.window = NoWindow

\* An operation on an announcement writes that one only, and only when it is
\* open or was not there.
LEMMA HandlerWrites ==
  ASSUME BoardInv, NEW a \in Ids,
         \/ \E status \in Statuses : Update(a, status)
         \/ Resolve(a)
         \/ \E w \in Windows : Edit(a, w)
         \/ Delete(a)
         \/ CrashInUpdate(a)
  PROVE  /\ a \in Open /\ now' = now
         /\ \E new : Writable(new) /\ announcements' = [announcements EXCEPT ![a] = new]
<1> DEFINE old == announcements[a]
<1>1. a \in Open /\ now' = now
  BY DEF Update, Resolve, Edit, Delete, CrashInUpdate
<1>2. /\ old \in Announcement /\ now \in Moments
      /\ old.kind = "incident" => old.window = NoWindow
  BY <1>1, StoredTypes, MomentTypes DEF Open
<1>3. ASSUME NEW status \in Statuses, Update(a, status)
      PROVE  \E new : Writable(new) /\ announcements' = [announcements EXCEPT ![a] = new]
  <2> DEFINE new == [old EXCEPT !.told = @ \/ status = "resolved",
                                !.resolved_at = IF status = "resolved" THEN now ELSE @]
  <2>1. Writable(new)
    BY <1>2 DEF Writable, Announcement
  <2>2. announcements' = [announcements EXCEPT ![a] = new]
    BY <1>3 DEF Update
  <2>3. QED
    BY <2>1, <2>2
<1>4. ASSUME Resolve(a)
      PROVE  \E new : Writable(new) /\ announcements' = [announcements EXCEPT ![a] = new]
  <2> DEFINE new == [old EXCEPT !.resolved_at = now, !.told = TRUE]
  <2>1. Writable(new)
    BY <1>2 DEF Writable, Announcement
  <2>2. announcements' = [announcements EXCEPT ![a] = new]
    BY <1>4 DEF Resolve
  <2>3. QED
    BY <2>1, <2>2
<1>5. ASSUME NEW w \in Windows, Edit(a, w)
      PROVE  \E new : Writable(new) /\ announcements' = [announcements EXCEPT ![a] = new]
  <2> DEFINE new == [old EXCEPT !.window = w]
  <2>1. Writable(new)
    BY <1>2, <1>5 DEF Edit, Writable, Announcement
  <2>2. announcements' = [announcements EXCEPT ![a] = new]
    BY <1>5 DEF Edit
  <2>3. QED
    BY <2>1, <2>2
<1>6. ASSUME Delete(a)
      PROVE  \E new : Writable(new) /\ announcements' = [announcements EXCEPT ![a] = new]
  BY <1>6 DEF Delete, Writable
<1>7. ASSUME CrashInUpdate(a)
      PROVE  \E new : Writable(new) /\ announcements' = [announcements EXCEPT ![a] = new]
  <2>1. Writable([old EXCEPT !.told = TRUE]) /\ Writable([old EXCEPT !.resolved_at = now])
    BY <1>2 DEF Writable, Announcement
  <2>2. \/ announcements' = [announcements EXCEPT ![a] = [old EXCEPT !.told = TRUE]]
        \/ announcements' = [announcements EXCEPT ![a] = [old EXCEPT !.resolved_at = now]]
    BY <1>7 DEF CrashInUpdate
  <2>3. QED
    BY <2>1, <2>2
<1>8. QED
  BY <1>1, <1>3, <1>4, <1>5, <1>6, <1>7

LEMMA AnnounceWrites ==
  ASSUME BoardInv, NEW a \in Ids, NEW kind \in {"maintenance", "incident"},
         NEW w \in Windows, Announce(a, kind, w)
  PROVE  /\ announcements[a] = None /\ now' = now
         /\ \E new : Writable(new) /\ announcements' = [announcements EXCEPT ![a] = new]
<1> DEFINE new == [kind |-> kind, window |-> w, resolved_at |-> Never, told |-> FALSE]
<1>1. Writable(new)
  BY DEF Announce, Announcement, Writable
<1>2. announcements' = [announcements EXCEPT ![a] = new] /\ now' = now /\ announcements[a] = None
  BY DEF Announce
<1>3. QED
  BY <1>1, <1>2

\* A window that is over has an end, which is a moment.
LEMMA WindowEnds ==
  ASSUME BoardInv, NEW a \in Ids, WindowOver(a)
  PROVE  announcements[a].window.ends \in Moments
<1>1. announcements[a] \in Announcement
  BY StoredTypes DEF WindowOver, Open
<1>2. AWindow(announcements[a].window)
  BY <1>1, AnnouncementsAssumption DEF Announcement
<1>3. QED
  BY <1>2 DEF WindowOver, AWindow

\* The prober's expiry resolves open announcements and leaves the others.
LEMMA CycleWrites ==
  ASSUME BoardInv, Cycle
  PROVE  /\ BoardInv'
         /\ \A a \in Ids \ Open : announcements'[a] = announcements[a]
<1>1. now' = now /\ announcements' = [a \in Ids |-> announcements'[a]]
  BY DEF Cycle
<1>2. ASSUME NEW a \in Ids, a \notin Open
      PROVE  announcements'[a] = announcements[a]
  BY <1>2 DEF Cycle, Expires, WindowOver
<1>3. ASSUME NEW a \in Ids
      PROVE  /\ announcements'[a] \in Announcement \cup {None}
             /\ announcements'[a] # None /\ announcements'[a].kind = "incident" =>
                  announcements'[a].window = NoWindow
  <2>1. CASE Expires(a)
    <3>1. announcements'[a] = [announcements[a] EXCEPT !.resolved_at = announcements[a].window.ends]
      BY <2>1 DEF Cycle
    <3>2. announcements[a].window.ends \in Moments /\ announcements[a] \in Announcement
      BY <2>1, WindowEnds, StoredTypes DEF Expires, WindowOver, Open
    <3>3. announcements[a].kind = "maintenance"
      BY <2>1 DEF Expires, WindowOver
    <3>4. QED
      BY <3>1, <3>2, <3>3 DEF Announcement
  <2>2. CASE ~Expires(a)
    BY <2>2 DEF Cycle, BoardInv, Stored
  <2>3. QED
    BY <2>1, <2>2
<1>4. BoardInv'
  BY <1>1, <1>3 DEF BoardInv, Stored
<1>5. QED
  BY <1>2, <1>4

LEMMA BoardKept == BoardInv /\ [Next]_vars => BoardInv'
<1> SUFFICES ASSUME BoardInv, [Next]_vars PROVE BoardInv'
  OBVIOUS
<1>1. ASSUME NEW a \in Ids, now' = now,
             \E new : Writable(new) /\ announcements' = [announcements EXCEPT ![a] = new]
      PROVE  BoardInv'
  BY <1>1, WriteKeepsBoard DEF Writable
<1>2. ASSUME NEW a \in Ids, NEW kind \in {"maintenance", "incident"}, NEW w \in Windows,
             Announce(a, kind, w)
      PROVE  BoardInv'
  BY <1>1, <1>2, AnnounceWrites
<1>3. ASSUME NEW a \in Ids,
             \/ \E status \in Statuses : Update(a, status)
             \/ Resolve(a)
             \/ \E w \in Windows : Edit(a, w)
             \/ Delete(a)
             \/ CrashInUpdate(a)
      PROVE  BoardInv'
  BY <1>1, <1>3, HandlerWrites
<1>4. CASE Cycle
  BY <1>4, CycleWrites
<1>5. CASE Tick
  BY <1>5, AnnouncementsAssumption DEF Tick, BoardInv, Stored, Moments
<1>6. CASE UNCHANGED <<now, announcements>>
  BY <1>6 DEF BoardInv, Stored
<1>7. QED
  BY <1>2, <1>3, <1>4, <1>5, <1>6 DEF Next, Crash, vars

LEMMA InvNext == IInv /\ [Next]_vars => IInv'
<1> SUFFICES ASSUME IInv, [Next]_vars PROVE TableInv'
  BY BoardKept DEF IInv
<1>1. TableInv
  BY DEF IInv
<1>2. CASE SubscribersNext
  BY <1>1, <1>2, TableKept
<1>3. CASE Broadcast
  BY <1>1, <1>3, BroadcastKeepsTable
<1>4. CASE subscribers' = subscribers /\ Restarted /\ UNCHANGED <<issued, broadcasts, refusals>>
  BY <1>1, <1>4, RemovalKeepsTable DEF Restarted, TableInv, SubscribersOK
<1>5. CASE UNCHANGED subsVars
  BY <1>1, <1>5, RemovalKeepsTable DEF subsVars, memory, TableInv, SubscribersOK
<1>6. QED
  BY <1>2, <1>3, <1>4, <1>5
     DEF Next, Announce, Update, Resolve, Edit, Delete, CrashInUpdate, Cycle, Tick, Crash, vars

LEMMA Invariance == Spec => []IInv
  BY InvInit, InvNext, PTL DEF Spec

\* The tables and what is in memory stay well typed, and urls and tokens stay
\* unique, through late answers, crashes and returning subscribers.
THEOREM TypeCorrect == Spec => []TypeOK
  BY Invariance, InvImpliesType, PTL

-----------------------------------------------------------------------------
(* What happens to a subscriber, and to a resolved announcement.           *)

OnEvidence(s) ==
  \/ \E r \in subscribers' : r.token = s.token
  \/ UNCHANGED memory
  \/ [url |-> s.url, token |-> s.token] \in tests \ tests'
  \/ refusals'[s.url] >= MaxFailures

\* A failed test costs the row of its token its place, which is the row the
\* test message was for.
LEMMA TestOnEvidence ==
  ASSUME TableInv, NEW s \in subscribers, NEW t \in tests, NEW delivered \in BOOLEAN,
         TestAnswered(t, delivered)
  PROVE  OnEvidence(s)
<1>1. CASE s \in subscribers'
  BY <1>1 DEF OnEvidence
<1>2. CASE s \notin subscribers'
  <2>1. s.token = t.token /\ tests' = tests \ {t}
    BY <1>2 DEF TestAnswered, Dropped, Without
  <2>2. s.url = t.url
    BY <2>1 DEF TableInv, TokensInv
  <2>3. t = [url |-> t.url, token |-> t.token]
    BY DEF TableInv, SubscribersOK
  <2>4. QED
    BY <2>1, <2>2, <2>3 DEF OnEvidence
<1>3. QED
  BY <1>1, <1>2

\* A row that goes when one more failure is counted had been refused
\* MaxFailures times: its own count is never ahead of Discord's.
LEMMA FailureOnEvidence ==
  ASSUME TableInv, NEW s \in subscribers, NEW u \in Urls, OneMoreRefusal(u),
         \A r \in Bumped(u) : r.url # u \/ r.failures < MaxFailures => r \in subscribers'
  PROVE  OnEvidence(s)
<1>1. s.failures \in Nat /\ refusals[u] \in 0..MaxFailures /\ MaxFailures \in Nat
  BY RowTypes, SubscribersAssumption
<1>2. CASE s.url # u
  <2>1. s \in Bumped(u)
    BY <1>2 DEF Bumped
  <2>2. QED
    BY <1>2, <2>1 DEF OnEvidence
<1>3. CASE s.url = u /\ s.failures + 1 < MaxFailures
  <2>1. Recounted(s, s.failures + 1) \in Bumped(u)
    BY <1>3, RecountedRow DEF Bumped
  <2>2. QED
    BY <1>3, <2>1 DEF OnEvidence, Recounted
<1>4. CASE s.url = u /\ ~(s.failures + 1 < MaxFailures)
  <2>1. s.failures <= refusals[u] \/ refusals[u] = MaxFailures
    BY <1>4 DEF TableInv, FailuresInv
  <2>2. refusals'[u] = IF refusals[u] < MaxFailures THEN refusals[u] + 1 ELSE refusals[u]
    BY DEF OneMoreRefusal, TableInv, SubscribersOK
  <2>3. refusals'[u] >= MaxFailures
    BY <1>1, <1>4, <2>1, <2>2
  <2>4. QED
    BY <1>4, <2>3 DEF OnEvidence
<1>5. QED
  BY <1>2, <1>3, <1>4

LEMMA AnswerOnEvidence ==
  ASSUME TableInv, NEW s \in subscribers, NEW d \in deliveries, Answered(d)
  PROVE  OnEvidence(s)
<1>1. d.url \in Urls /\ s.url \in Urls
  BY RowTypes DEF TableInv, SubscribersOK, Deliveries
<1>2. CASE Delivered(d.url)
  <2>1. \E r \in subscribers' : r = IF s.url = d.url THEN [s EXCEPT !.failures = 0] ELSE s
    BY <1>2 DEF Delivered
  <2>2. QED
    BY <2>1, RecountedRow DEF OnEvidence, Recounted
<1>3. CASE Dead(d.url)
  <2>1. CASE s.url = d.url
    BY <1>1, <1>3, <2>1, SubscribersAssumption DEF Dead, OnEvidence, TableInv, SubscribersOK
  <2>2. CASE s.url # d.url
    BY <1>3, <2>2 DEF Dead, Row, OnEvidence
  <2>3. QED
    BY <2>1, <2>2
<1>4. CASE Failed(d.url)
  BY <1>1, <1>4, FailureOnEvidence DEF Failed
<1>5. QED
  BY <1>2, <1>3, <1>4 DEF Answered

LEMMA StepOnEvidence ==
  ASSUME TableInv, [Next]_vars, NEW s \in subscribers
  PROVE  OnEvidence(s)
<1>1. ASSUME NEW u \in Urls, Subscribe(u) PROVE OnEvidence(s)
  BY <1>1 DEF Subscribe, OnEvidence
<1>2. ASSUME NEW t \in tests, NEW delivered \in BOOLEAN, TestAnswered(t, delivered)
      PROVE  OnEvidence(s)
  BY <1>2, TestOnEvidence
<1>3. ASSUME NEW t \in Tokens, Unsubscribe(t) PROVE OnEvidence(s)
  BY <1>3 DEF Unsubscribe, OnEvidence
<1>4. CASE Deliver
  <2>1. ASSUME NEW d \in deliveries, Send(d) PROVE OnEvidence(s)
    BY <2>1 DEF Send, OnEvidence
  <2>2. QED
    BY <1>4, <2>1, AnswerOnEvidence DEF Deliver
<1>5. ASSUME NEW d \in deliveries, CrashInBump(d) PROVE OnEvidence(s)
  <2>1. d.url \in Urls
    BY DEF TableInv, SubscribersOK, Deliveries
  <2>2. QED
    BY <1>5, <2>1, FailureOnEvidence DEF CrashInBump
<1>6. CASE UNCHANGED subscribers
  BY <1>6 DEF OnEvidence
<1>7. QED
  BY <1>1, <1>2, <1>3, <1>4, <1>5, <1>6
     DEF Next, SubscribersNext, Announce, Update, Resolve, Edit, Delete, CrashInUpdate,
         Broadcast, Cycle, Tick, Crash, vars, subsVars

\* A subscriber disappears only because its owner left, its own test message
\* failed, or Discord refused its webhook for good or MaxFailures times in a
\* row.
THEOREM Pruned == Spec => PrunedOnEvidence
<1>1. IInv /\ [Next]_vars =>
        [\A s \in subscribers :
           \/ \E r \in subscribers' : r.token = s.token
           \/ UNCHANGED memory
           \/ [url |-> s.url, token |-> s.token] \in tests \ tests'
           \/ refusals'[s.url] >= MaxFailures]_vars
  BY StepOnEvidence DEF IInv, OnEvidence
<1>2. QED
  BY <1>1, Invariance, PTL DEF Spec, PrunedOnEvidence

LEMMA StepIsFinal ==
  ASSUME BoardInv, [Next]_vars, NEW a \in Stored, announcements[a].resolved_at # Never
  PROVE  announcements'[a] = announcements[a]
<1>1. a \in Ids /\ announcements[a] # None /\ a \notin Open
  BY DEF Stored, Open
<1>2. ASSUME NEW b \in Ids, b \in Open \/ announcements[b] = None,
             \E new : announcements' = [announcements EXCEPT ![b] = new]
      PROVE  announcements'[a] = announcements[a]
  BY <1>1, <1>2 DEF BoardInv
<1>3. ASSUME NEW b \in Ids, NEW kind \in {"maintenance", "incident"}, NEW w \in Windows,
             Announce(b, kind, w)
      PROVE  announcements'[a] = announcements[a]
  BY <1>2, <1>3, AnnounceWrites
<1>4. ASSUME NEW b \in Ids,
             \/ \E status \in Statuses : Update(b, status)
             \/ Resolve(b)
             \/ \E w \in Windows : Edit(b, w)
             \/ Delete(b)
             \/ CrashInUpdate(b)
      PROVE  announcements'[a] = announcements[a]
  BY <1>2, <1>4, HandlerWrites
<1>5. CASE Cycle
  BY <1>1, <1>5, CycleWrites
<1>6. CASE UNCHANGED announcements
  BY <1>6
<1>7. QED
  BY <1>3, <1>4, <1>5, <1>6 DEF Next, Tick, Crash, vars

\* What is resolved is not reopened, moved, added to, removed or resolved
\* again by the panel, the command line, a crash or the end of its window.
THEOREM Resolved == Spec => ResolvedIsFinal
<1>1. IInv /\ [Next]_vars =>
        [\A a \in Stored : announcements[a].resolved_at # Never =>
           announcements'[a] = announcements[a]]_vars
  BY StepIsFinal DEF IInv
<1>2. QED
  BY <1>1, Invariance, PTL DEF Spec, ResolvedIsFinal

-----------------------------------------------------------------------------
(* The headline.  The hypothesis of its theorems is what Headline assumes  *)
(* of its constants; it is said again because an instance does not bring   *)
(* its assumptions along.                                                  *)

\* No row of a service is newer than the last that was stored.
QuietInv == \A s \in Services : latest[s] # NoRow => latest[s].age >= quiet

LEMMA HeadlineTypeInit == CatalogueFits /\ HeadlineInit => HeadlineTypeOK /\ QuietInv
  BY DEF CatalogueFits, HeadlineInit, HeadlineTypeOK, QuietInv, NoRow

LEMMA RowIs ==
  ASSUME HeadlineTypeOK, NEW s \in Services
  PROVE  /\ latest[s] = NoRow \/ latest[s] \in [status : CheckStatuses, age : 0..Recent]
         /\ NoRow \notin [status : CheckStatuses, age : 0..Recent]
  BY DEF HeadlineTypeOK, NoRow, CheckStatuses

LEMMA HeadlineKept ==
  ASSUME CatalogueFits, HeadlineTypeOK, QuietInv, [HeadlineNext]_headlineVars
  PROVE  HeadlineTypeOK' /\ QuietInv'
<1>1. Recent \in Nat /\ quiet \in 0..(Recent + 1)
  BY DEF CatalogueFits, HeadlineTypeOK
<1>2. ASSUME NEW s \in Services, NEW status \in CheckStatuses, Store(s, status)
      PROVE  HeadlineTypeOK' /\ QuietInv'
  <2> DEFINE row == [status |-> status, age |-> 0]
  <2>1. row \in [status : CheckStatuses, age : 0..Recent] /\ row # NoRow /\ row.age = 0
    BY <1>1 DEF NoRow, CheckStatuses
  <2>2. latest' = [latest EXCEPT ![s] = row] /\ quiet' = 0 /\ ever' = ever
    BY <1>2 DEF Store
  <2> HIDE DEF row
  <2>3. HeadlineTypeOK'
    BY <1>1, <2>1, <2>2 DEF HeadlineTypeOK
  <2>4. QuietInv'
    BY <1>1, <2>1, <2>2, RowIs DEF HeadlineTypeOK, QuietInv
  <2>5. QED
    BY <2>3, <2>4
<1>3. CASE RollUp
  BY <1>3 DEF RollUp, HeadlineTypeOK, QuietInv
<1>4. CASE Reset
  BY <1>1, <1>4 DEF Reset, HeadlineTypeOK, QuietInv
<1>5. CASE HeadlineTick
  <2>1. ASSUME NEW s \in Services
        PROVE  /\ latest'[s] \in [status : CheckStatuses, age : 0..Recent] \cup {NoRow}
               /\ latest'[s] # NoRow => /\ latest[s] # NoRow
                                        /\ latest'[s].age = latest[s].age + 1
                                        /\ latest[s].age < Recent
                                        /\ latest[s].age \in Nat
    <3>1. latest'[s] = Older(latest[s])
      BY <1>5 DEF HeadlineTick
    <3>2. CASE latest[s] = NoRow \/ latest[s].age = Recent
      BY <3>1, <3>2 DEF Older
    <3>3. CASE latest[s] # NoRow /\ latest[s].age # Recent
      <4>1. /\ latest[s] \in [status : CheckStatuses, age : 0..Recent]
            /\ latest[s].age + 1 \in 0..Recent
        BY <1>1, <3>3, RowIs
      <4>2. latest'[s] = [latest[s] EXCEPT !.age = @ + 1]
        BY <3>1, <3>3 DEF Older
      <4>3. QED
        BY <1>1, <3>3, <4>1, <4>2
    <3>4. QED
      BY <3>2, <3>3
  <2>2. latest' = [s \in Services |-> latest'[s]]
    BY <1>5 DEF HeadlineTick
  <2>3. HeadlineTypeOK'
    <3>1. latest' \in [Services -> [status : CheckStatuses, age : 0..Recent] \cup {NoRow}]
      BY <2>1, <2>2
    <3>2. QED
      BY <1>1, <1>5, <3>1 DEF HeadlineTick, HeadlineTypeOK
  <2>4. QuietInv'
    BY <1>1, <1>5, <2>1 DEF HeadlineTick, QuietInv
  <2>5. QED
    BY <2>3, <2>4
<1>6. CASE UNCHANGED headlineVars
  BY <1>6 DEF headlineVars, HeadlineTypeOK, QuietInv
<1>7. QED
  BY <1>2, <1>3, <1>4, <1>5, <1>6 DEF HeadlineNext

-----------------------------------------------------------------------------
\* What is shown of a service: a status, which is that of its row if the row
\* is not stale.
LEMMA StatusIs ==
  ASSUME CatalogueFits, HeadlineTypeOK, NEW s \in Services
  PROVE  /\ Status(s) \in CheckStatuses
         /\ Status(s) # "unknown" =>
              Fresh(s) /\ Status(s) = latest[s].status /\ Shown(s)
         /\ Fresh(s) => Status(s) = latest[s].status /\ Shown(s)
<1>1. latest[s] # NoRow => latest[s].status \in CheckStatuses
  BY RowIs
<1>2. StaleAfter[s] \in Nat /\ (latest[s] # NoRow => latest[s].age \in Nat)
  BY RowIs DEF CatalogueFits
<1>3. QED
  BY <1>1, <1>2 DEF Status, Fresh, Shown, CheckStatuses

\* The four cases of the verdict at the top.
LEMMA OverallIs ==
  /\ Overall = "unknown" <=> ~Known(Primary) /\ ~AdvisoryDown
  /\ Overall \in {"outage", "partial_outage"} <=> AdvisoryDown \/ Has(Primary, "down")
  /\ Overall = "degraded" <=>
       ~AdvisoryDown /\ ~Has(Primary, "down") /\ Has(Primary, "degraded")
  /\ Overall \in {"limited", "operational"} <=>
       /\ Known(Primary) /\ ~AdvisoryDown
       /\ ~Has(Primary, "down") /\ ~Has(Primary, "degraded")
  /\ Overall = "limited" => \E c \in Core : Silent(c)
  /\ Overall = "operational" => \A c \in Core : ~Silent(c)
<1>1. Has(Primary, "down") \/ Has(Primary, "degraded") => Known(Primary)
  BY DEF Has, Known
<1> DEFINE K == Known(Primary)
           A == AdvisoryDown
           D == Has(Primary, "down")
           G == Has(Primary, "degraded")
           C == Has(Primary \cap Critical, "down")
           S == \E c \in Core : Silent(c)
<1>2. Overall =
  CASE ~K /\ ~A -> "unknown"
    [] A \/ D -> IF C THEN "outage" ELSE "partial_outage"
    [] ~A /\ ~D /\ G -> "degraded"
    [] OTHER -> IF S THEN "limited" ELSE "operational"
  BY DEF Overall
<1>3. D \/ G => K
  BY <1>1
<1> HIDE DEF K, A, D, G, C
<1>4. CASE ~K /\ ~A
  BY <1>2, <1>3, <1>4 DEF S, K, A, D, G
<1>5. CASE A \/ D
  BY <1>2, <1>3, <1>5 DEF K, A, D, G
<1>6. CASE ~A /\ ~D /\ G
  BY <1>2, <1>3, <1>6 DEF K, A, D, G
<1>7. CASE K /\ ~A /\ ~D /\ ~G
  BY <1>2, <1>3, <1>7 DEF K, A, D, G
<1>8. QED
  BY <1>4, <1>5, <1>6, <1>7

\* A component that is listed has a check that counts, if it is a core one.
LEMMA CoreCounts ==
  ASSUME CatalogueFits, NEW c \in Core, c \in Listed
  PROVE  \E s \in Services \ Advisory : Shown(s) /\ ComponentOf[s] = c
<1>1. PICK s \in Services : Shown(s) /\ ComponentOf[s] = c
  BY DEF Listed, Members
<1>2. CASE s \in Advisory
  <2>1. PICK t \in Catalogue \ (Optional \cup Advisory) : ComponentOf[t] = c
    BY <1>1, <1>2 DEF CatalogueFits
  <2>2. QED
    BY <2>1 DEF CatalogueFits, Shown
<1>3. QED
  BY <1>1, <1>2

\* "All systems operational" is said only of what was looked at.
LEMMA AllGoodIsSaid == CatalogueFits /\ HeadlineTypeOK => AllGoodIsMeasured
<1> SUFFICES ASSUME CatalogueFits, HeadlineTypeOK, Overall = "operational"
             PROVE  /\ \A c \in Core \cap Listed :
                         \E s \in Services \ Advisory :
                           ComponentOf[s] = c /\ Fresh(s) /\ latest[s].status = "operational"
                    /\ \A s \in Services :
                         Fresh(s) /\ ComponentOf[s] \notin ThirdParty => latest[s].status # "down"
  BY DEF AllGoodIsMeasured
<1>1. /\ ~AdvisoryDown /\ ~Has(Primary, "down") /\ ~Has(Primary, "degraded")
      /\ \A c \in Core : ~Silent(c)
  BY OverallIs
<1>2. ASSUME NEW c \in Core \cap Listed
      PROVE  \E s \in Services \ Advisory :
               ComponentOf[s] = c /\ Fresh(s) /\ latest[s].status = "operational"
  <2>1. PICK s \in Services \ Advisory :
               Shown(s) /\ ComponentOf[s] = c /\ Status(s) # "unknown"
    BY <1>1, CoreCounts DEF Silent, Known
  <2>2. s \in Primary
    BY <2>1 DEF Primary, Own, CatalogueFits
  <2>3. Status(s) = "operational"
    BY <1>1, <2>1, <2>2, StatusIs DEF Has, CheckStatuses
  <2>4. QED
    BY <2>1, <2>3, StatusIs
<1>3. ASSUME NEW s \in Services, Fresh(s), ComponentOf[s] \notin ThirdParty,
             latest[s].status = "down"
      PROVE  FALSE
  <2>1. Status(s) = "down" /\ s \in Own
    BY <1>3, StatusIs DEF Own
  <2>2. QED
    BY <1>1, <2>1 DEF AdvisoryDown, Has, Primary
<1>4. QED
  BY <1>2, <1>3

\* A check whose row is older than it may be has nothing to say.
LEMMA StoppedIsSaid == CatalogueFits /\ HeadlineTypeOK /\ QuietInv => StoppedIsNoData
<1> SUFFICES ASSUME CatalogueFits, HeadlineTypeOK, QuietInv,
                    \A s \in Services \ Advisory : quiet > StaleAfter[s],
                    Overall # "unknown"
             PROVE  \E a \in Advisory : Fresh(a) /\ latest[a].status = "down"
  BY DEF StoppedIsNoData
<1>1. ASSUME NEW s \in Services \ Advisory PROVE ~Fresh(s)
  <2>1. latest[s] # NoRow => latest[s].age \in Nat /\ latest[s].age >= quiet
    BY RowIs DEF QuietInv
  <2>2. StaleAfter[s] \in Nat /\ quiet \in Nat
    BY DEF CatalogueFits, HeadlineTypeOK
  <2>3. QED
    BY <2>1, <2>2 DEF Fresh
<1>2. ~Known(Primary)
  BY <1>1, StatusIs DEF Known, Primary, Own
<1>3. AdvisoryDown
  BY <1>2, OverallIs
<1>4. PICK a \in Own \cap Advisory : Status(a) = "down"
  BY <1>3 DEF AdvisoryDown, Has
<1>5. QED
  BY <1>4, StatusIs DEF Own

\* The five cases of a component's status.
LEMMA RollupIs ==
  ASSUME CatalogueFits, HeadlineTypeOK, NEW c
  PROVE  /\ RollupOf(c) \in {"unknown", "down", "partial", "degraded", "operational"}
         /\ RollupOf(c) = "unknown" <=> Telling(c) = {}
         /\ RollupOf(c) \in {"down", "partial"} <=> Failing(c) # {}
         /\ RollupOf(c) = "degraded" <=>
              Failing(c) = {} /\ Has(Telling(c), "degraded")
<1>1. Failing(c) \subseteq Telling(c)
  BY DEF Telling
<1>2. Has(Telling(c), "degraded") => Telling(c) # {}
  BY DEF Has
<1> DEFINE T == Telling(c)
           F == Failing(c)
           G == Has(T, "degraded")
<1>3. RollupOf(c) =
  CASE T = {} -> "unknown"
    [] T # {} /\ F = T -> "down"
    [] F # {} /\ F # T -> "partial"
    [] OTHER -> IF G THEN "degraded" ELSE "operational"
  BY DEF RollupOf
<1>4. F \subseteq T /\ (G => T # {})
  BY <1>1, <1>2
<1> HIDE DEF T, F, G
<1>5. CASE T = {}
  BY <1>3, <1>4, <1>5 DEF T, F, G
<1>6. CASE T # {} /\ F = T
  BY <1>3, <1>4, <1>6 DEF T, F, G
<1>7. CASE F # {} /\ F # T
  BY <1>3, <1>4, <1>7 DEF T, F, G
<1>8. CASE T # {} /\ F = {}
  BY <1>3, <1>4, <1>8 DEF T, F, G
<1>9. QED
  BY <1>5, <1>6, <1>7, <1>8

\* The components that are ours and listed share our checks among them.
LEMMA OwnIsListed ==
  ASSUME CatalogueFits
  PROVE  /\ \A s \in Own : ComponentOf[s] \in OwnListed /\ s \in Members(ComponentOf[s])
         /\ \A c \in OwnListed : Members(c) \subseteq Own
  BY DEF CatalogueFits, Own, OwnListed, Listed, Members

\* The verdict at the top and the list under it tell one story.
LEMMA HeadlineAndListAgree == CatalogueFits /\ HeadlineTypeOK => HeadlineAgrees
<1> SUFFICES ASSUME CatalogueFits, HeadlineTypeOK PROVE HeadlineAgrees
  OBVIOUS
<1> DEFINE Bad == AdvisoryDown \/ Has(Primary, "down")
<1>1. Bad <=> SomeComponent({"partial", "down"})
  <2>1. ASSUME NEW s \in Own, Status(s) = "down"
        PROVE  SomeComponent({"partial", "down"})
    <3>1. s \in Failing(ComponentOf[s]) /\ ComponentOf[s] \in OwnListed
      BY <2>1, OwnIsListed DEF Failing
    <3>2. QED
      BY <3>1, RollupIs DEF SomeComponent
  <2>2. ASSUME NEW c \in OwnListed, RollupOf(c) \in {"partial", "down"}
        PROVE  Bad
    <3>1. PICK s \in Members(c) : Status(s) = "down"
      BY <2>2, RollupIs DEF Failing
    <3>2. QED
      BY <3>1, OwnIsListed DEF AdvisoryDown, Has, Primary
  <2>3. QED
    BY <2>1, <2>2 DEF AdvisoryDown, Has, Primary, SomeComponent
<1>2. Known(Primary) \/ AdvisoryDown
        <=> SomeComponent({"operational", "degraded", "partial", "down"})
  <2>1. ASSUME NEW s \in Own, Status(s) # "unknown",
               s \notin Advisory \/ Status(s) = "down"
        PROVE  SomeComponent({"operational", "degraded", "partial", "down"})
    <3>1. s \in Telling(ComponentOf[s]) /\ ComponentOf[s] \in OwnListed
      BY <2>1, OwnIsListed DEF Telling, Failing
    <3>2. QED
      BY <3>1, RollupIs DEF SomeComponent
  <2>2. ASSUME NEW c \in OwnListed, RollupOf(c) # "unknown"
        PROVE  Known(Primary) \/ AdvisoryDown
    <3>1. PICK s \in Telling(c) : TRUE
      BY <2>2, RollupIs
    <3>2. /\ s \in Own
          /\ (s \notin Advisory /\ Status(s) # "unknown") \/ Status(s) = "down"
      BY <3>1, OwnIsListed DEF Telling, Failing
    <3>3. QED
      BY <3>2 DEF Known, AdvisoryDown, Has, Primary
  <2>3. QED
    BY <2>1, <2>2 DEF Known, AdvisoryDown, Has, Primary, SomeComponent
<1>3. ~Bad => (Has(Primary, "degraded") <=> SomeComponent({"degraded"}))
  <2>1. ASSUME ~Bad, NEW s \in Primary, Status(s) = "degraded"
        PROVE  SomeComponent({"degraded"})
    <3>1. ComponentOf[s] \in OwnListed /\ s \in Telling(ComponentOf[s])
      BY <2>1, OwnIsListed DEF Primary, Telling
    <3>2. Failing(ComponentOf[s]) = {}
      BY <1>1, <2>1, <3>1, RollupIs DEF SomeComponent
    <3>3. RollupOf(ComponentOf[s]) = "degraded"
      BY <2>1, <3>1, <3>2, RollupIs DEF Has
    <3>4. QED
      BY <3>1, <3>3 DEF SomeComponent
  <2>2. ASSUME ~Bad, NEW c \in OwnListed, RollupOf(c) = "degraded"
        PROVE  Has(Primary, "degraded")
    <3>1. PICK s \in Telling(c) : Status(s) = "degraded" /\ Failing(c) = {}
      BY <2>2, RollupIs DEF Has
    <3>2. s \in Primary
      BY <3>1, OwnIsListed DEF Telling, Primary
    <3>3. QED
      BY <3>1, <3>2 DEF Has
  <2>3. QED
    BY <2>1, <2>2 DEF Has, SomeComponent
<1>4. ASSUME NEW c \in Core, Silent(c), ~Bad
      PROVE  \E d \in OwnListed \cap Core : RollupOf(d) = "unknown"
  <2>1. c \in OwnListed
    BY <1>4 DEF Silent, OwnListed, Listed, Members, CatalogueFits
  <2>2. Failing(c) = {}
    BY <1>1, <1>4, <2>1, RollupIs DEF SomeComponent
  <2>3. Telling(c) = {}
    BY <1>4, <2>2 DEF Telling, Silent, Known, Members
  <2>4. QED
    BY <2>1, <2>3, RollupIs
<1>5. ASSUME NEW c \in OwnListed \cap Core, RollupOf(c) = "unknown"
      PROVE  Silent(c)
  <2>1. Telling(c) = {}
    BY <1>5, RollupIs
  <2>2. PICK s \in Services \ Advisory : Shown(s) /\ ComponentOf[s] = c
    BY CoreCounts DEF OwnListed
  <2>3. QED
    BY <2>1, <2>2 DEF Telling, Silent, Known, Members
<1> HIDE DEF Bad
<1>6. Overall = "unknown" <=> ~SomeComponent({"operational", "degraded", "partial", "down"})
  BY <1>2, OverallIs
<1>7. Overall \in {"outage", "partial_outage"} <=> SomeComponent({"partial", "down"})
  BY <1>1, OverallIs DEF Bad
<1>8. Overall = "degraded" <=>
        ~SomeComponent({"partial", "down"}) /\ SomeComponent({"degraded"})
  BY <1>1, <1>3, OverallIs DEF Bad
<1>9. Overall = "limited" => \E c \in OwnListed \cap Core : RollupOf(c) = "unknown"
  BY <1>4, OverallIs DEF Bad
<1>10. Overall = "operational" => \A c \in OwnListed \cap Core : RollupOf(c) # "unknown"
  BY <1>5, OverallIs
<1>11. QED
  BY <1>6, <1>7, <1>8, <1>9, <1>10 DEF HeadlineAgrees

\* What the inductive invariant of Headline is, and that it holds.
LEMMA HeadlineInvariance == HeadlineSpec => [](HeadlineTypeOK /\ QuietInv)
<1>1. HeadlineInit => HeadlineTypeOK /\ QuietInv
  BY HeadlineAssumption, HeadlineTypeInit
<1>2. (HeadlineTypeOK /\ QuietInv) /\ [HeadlineNext]_headlineVars => (HeadlineTypeOK /\ QuietInv)'
  BY HeadlineAssumption, HeadlineKept
<1>3. QED
  BY <1>1, <1>2, PTL DEF HeadlineSpec

\* Every row is a status that the code can store with an age within the window
\* it is read from, whatever the catalogue and the windows are.
THEOREM HeadlineTypes == HeadlineSpec => []HeadlineTypeOK
  BY HeadlineInvariance, PTL

\* The verdict at the top and the list of components under it, computed apart,
\* never tell two stories, for any catalogue (aggregator.py:169-228).
THEOREM HeadlineOneStory == HeadlineSpec => []HeadlineAgrees
<1>1. HeadlineTypeOK /\ QuietInv => HeadlineAgrees
  BY HeadlineAssumption, HeadlineAndListAgree
<1>2. QED
  BY <1>1, HeadlineInvariance, PTL

\* "All systems operational" is said only when every core component shown has a
\* fresh check that passed, and no fresh check of ours failed.
THEOREM AllGood == HeadlineSpec => []AllGoodIsMeasured
<1>1. HeadlineTypeOK /\ QuietInv => AllGoodIsMeasured
  BY HeadlineAssumption, AllGoodIsSaid
<1>2. QED
  BY <1>1, HeadlineInvariance, PTL

\* When rows stop being stored the page says "no data" as soon as the checks
\* that count are stale, but for a diagnostic that still reports a failure.
THEOREM Stopped == HeadlineSpec => []StoppedIsNoData
<1>1. HeadlineTypeOK /\ QuietInv => StoppedIsNoData
  BY HeadlineAssumption, StoppedIsSaid
<1>2. QED
  BY <1>1, HeadlineInvariance, PTL

-----------------------------------------------------------------------------
(* IncidentEvents.                                                         *)

\* An incident begins before it ends, and none lies in the future.
SpansInv ==
  \A i \in IncidentIds :
    /\ incidents[i].started <= clock
    /\ ~IsOpen(i) => incidents[i].started <= incidents[i].ended /\ incidents[i].ended <= clock

\* Each row tells the newest explanation that was written for its event.
CausesInv == causes = explained

EventsInv == EventsTypeOK /\ SpansInv /\ CausesInv

-----------------------------------------------------------------------------
(* Numbers.                                                                *)

LEMMA LeastExists ==
  ASSUME NEW S, S \subseteq Nat, S # {}
  PROVE  \E x \in S : \A y \in S : x <= y
<1>1. PICK x \in S : \A y \in S : ~(<<y, x>> \in OpToRel(<, Nat))
  BY NatLessThanWellFounded, WFMin
<1>2. \A y \in S : ~(y < x)
  BY <1>1 DEF OpToRel
<1>3. QED
  BY <1>2

LEMMA GreatestExists ==
  ASSUME NEW S, NEW bound \in Nat, S \subseteq 0..bound, S # {}
  PROVE  \E x \in S : \A y \in S : y <= x
<1> DEFINE T == {bound - x : x \in S}
<1>1. PICK t \in T : \A y \in T : t <= y
  <2>1. T \subseteq Nat
    OBVIOUS
  <2>2. T # {}
    OBVIOUS
  <2> HIDE DEF T
  <2>3. QED
    BY <2>1, <2>2, LeastExists
<1>2. PICK x \in S : t = bound - x
  OBVIOUS
<1>3. \A y \in S : t <= bound - y
  BY <1>1
<1>4. QED
  BY <1>2, <1>3

LEMMA MaxIs ==
  ASSUME NEW S, NEW bound \in Nat, S \subseteq 0..bound, S # {}
  PROVE  Max(S) \in S /\ \A y \in S : y <= Max(S)
<1>1. PICK x \in S : \A y \in S : y <= x
  BY GreatestExists
<1>2. \A y \in S : x >= y
  BY <1>1
<1>3. Max(S) \in S /\ \A y \in S : Max(S) >= y
  BY <1>2 DEF Max
<1>4. QED
  BY <1>3

LEMMA MinIs ==
  ASSUME NEW S, S \subseteq Nat, S # {}
  PROVE  Min(S) \in S /\ \A y \in S : Min(S) <= y
<1>1. PICK x \in S : \A y \in S : x <= y
  BY LeastExists
<1>2. QED
  BY <1>1 DEF Min

\* What holds of no element, and of a set if it does of the set without the one
\* that a sum takes next, holds of every finite set.
Any(s) == CHOOSE x \in s : TRUE

LEMMA OneByOne ==
  ASSUME NEW S, IsFiniteSet(S), NEW Good, {} \in Good,
         \A s \in SUBSET S : s # {} /\ s \ {Any(s)} \in Good => s \in Good
  PROVE  SUBSET S \subseteq Good
<1> DEFINE Bad == (SUBSET S) \ Good
           sizes == {Cardinality(s) : s \in Bad}
<1>1. \A s \in SUBSET S : IsFiniteSet(s) /\ Cardinality(s) \in Nat
  BY FS_Subset, FS_CardinalityType
<1>2. ASSUME Bad # {} PROVE FALSE
  <2>1. sizes \subseteq Nat /\ sizes # {}
    BY <1>1, <1>2
  <2>2. PICK n \in sizes : \A m \in sizes : n <= m
    <3> HIDE DEF sizes
    <3>1. QED
      BY <2>1, LeastExists
  <2>3. PICK s \in Bad : n = Cardinality(s)
    BY <2>2
  <2>4. s # {} /\ Any(s) \in s
    BY DEF Any
  <2>5. Cardinality(s \ {Any(s)}) = Cardinality(s) - 1
    BY <1>1, <2>4, FS_RemoveElement
  <2>6. s \ {Any(s)} \in Bad
    BY <2>4
  <2>7. Cardinality(s) <= Cardinality(s \ {Any(s)})
    BY <2>2, <2>3, <2>6
  <2>8. QED
    BY <1>1, <2>5, <2>7
<1>3. QED
  BY <1>2

-----------------------------------------------------------------------------
(* Types.                                                                  *)

Incident == [service : EventServices, started : 0..Horizon, ended : {NotEnded} \cup 0..Horizon]

LEMMA TypesAre ==
  ASSUME EventsTypeOK
  PROVE  /\ clock \in 0..Horizon /\ texts \in 0..MaxTexts
         /\ nextId \in Nat \ {0} /\ IncidentIds \subseteq 1..(nextId - 1)
         /\ incidents \in [IncidentIds -> Incident]
         /\ causes \in [IncidentIds -> 0..MaxTexts]
         /\ explained \in [IncidentIds -> 0..MaxTexts]
  BY DEF EventsTypeOK, Incident

LEMMA EventsBegin == EventsInit => EventsInv
<1> SUFFICES ASSUME EventsInit PROVE EventsInv
  OBVIOUS
<1>1. IncidentIds = {} /\ incidents \in [{} -> Incident] /\ causes \in [{} -> 0..MaxTexts]
  BY DEF EventsInit, TableInit, IncidentIds
<1>2. EventsTypeOK
  BY <1>1, TableAssumption, EventsAssumption DEF EventsInit, TableInit, EventsTypeOK, Incident
<1>3. QED
  BY <1>1, <1>2 DEF EventsInit, EventsInv, SpansInv, CausesInv

\* What a change of the causes keeps.
LEMMA WritesKeep ==
  ASSUME EventsInv, NEW S, NEW n \in 0..MaxTexts, Write(n, S, S), texts' \in 0..MaxTexts
  PROVE  EventsInv'
<1>1. /\ causes' = [j \in IncidentIds |-> IF j \in S THEN n ELSE causes[j]]
      /\ explained' = [j \in IncidentIds |-> IF j \in S THEN n ELSE explained[j]]
      /\ UNCHANGED <<clock, incidents, nextId>>
  BY DEF Write, tableVars
<1>2. causes' = explained' /\ causes' \in [IncidentIds -> 0..MaxTexts]
  BY <1>1, TypesAre DEF EventsInv, CausesInv
<1>3. EventsTypeOK'
  BY <1>1, <1>2 DEF EventsInv, EventsTypeOK, IncidentIds
<1>4. SpansInv'
  BY <1>1 DEF EventsInv, SpansInv, IncidentIds, IsOpen
<1>5. QED
  BY <1>2, <1>3, <1>4 DEF EventsInv, CausesInv

\* The types and the spans of the rows.
RowsFit ==
  /\ clock \in 0..Horizon
  /\ nextId \in Nat \ {0} /\ IncidentIds \subseteq 1..(nextId - 1)
  /\ incidents \in [IncidentIds -> Incident]
  /\ SpansInv

LEMMA TableKeepsRows ==
  ASSUME RowsFit, TableNext
  PROVE  RowsFit'
<1>1. /\ clock \in 0..Horizon /\ nextId \in Nat \ {0} /\ IncidentIds \subseteq 1..(nextId - 1)
      /\ incidents \in [IncidentIds -> Incident] /\ Horizon \in Nat
  BY TableAssumption DEF RowsFit
<1>2. \A i \in IncidentIds :
        /\ incidents[i] \in Incident /\ incidents[i].started \in 0..clock
        /\ incidents[i].ended # NotEnded =>
             incidents[i].started <= incidents[i].ended /\ incidents[i].ended <= clock
  BY <1>1 DEF RowsFit, SpansInv, IsOpen, Incident
<1>3. ASSUME NEW s \in EventServices, NEW started \in (clock - OpensBack)..clock,
             OpenIncident(s, started)
      PROVE  RowsFit'
  <2> DEFINE row == [service |-> s, started |-> started, ended |-> NotEnded]
  <2>1. started \in 0..clock /\ started \in 0..Horizon
    BY <1>1, <1>3, TableAssumption DEF OpenIncident
  <2>2. row \in Incident /\ row.started = started /\ row.ended = NotEnded
    BY <2>1 DEF Incident
  <2>3. /\ incidents' = [i \in IncidentIds \cup {nextId} |-> IF i = nextId THEN row ELSE incidents[i]]
        /\ nextId' = nextId + 1 /\ clock' = clock
    BY <1>3 DEF OpenIncident
  <2> HIDE DEF row
  <2>4. IncidentIds' = IncidentIds \cup {nextId} /\ nextId \notin IncidentIds
    BY <1>1, <2>3 DEF IncidentIds
  <2>5. incidents' \in [IncidentIds' -> Incident] /\ IncidentIds' \subseteq 1..(nextId' - 1)
    <3>1. nextId' \in Nat /\ IncidentIds' \subseteq 1..(nextId' - 1)
      BY <1>1, <2>3, <2>4
    <3>2. QED
      BY <1>1, <2>2, <2>3, <2>4, <3>1
  <2>6. SpansInv'
    BY <1>1, <1>2, <2>1, <2>2, <2>3, <2>4 DEF SpansInv, IsOpen
  <2>7. QED
    BY <1>1, <2>3, <2>5, <2>6 DEF RowsFit
<1>4. ASSUME NEW i \in IncidentIds, NEW ended \in 0..clock, End(i, ended)
      PROVE  RowsFit'
  <2>1. clock' = clock /\ nextId' = nextId /\ ended >= incidents[i].started
        /\ incidents' = [incidents EXCEPT ![i].ended = ended]
    BY <1>4 DEF End
  <2>2. IncidentIds' = IncidentIds
    BY <2>1 DEF IncidentIds
  <2>3. \A j \in IncidentIds :
          /\ incidents'[j] \in Incident /\ incidents'[j].started = incidents[j].started
          /\ incidents'[j].ended = IF j = i THEN ended ELSE incidents[j].ended
    BY <1>1, <1>4, <2>1 DEF Incident
  <2>4. incidents' \in [IncidentIds -> Incident]
    BY <1>1, <2>1, <2>3
  <2>5. SpansInv'
    BY <1>2, <1>4, <2>1, <2>2, <2>3 DEF SpansInv, IsOpen
  <2>6. QED
    BY <1>1, <2>1, <2>2, <2>4, <2>5 DEF RowsFit
<1>5. ASSUME NEW S, Remove(S) PROVE RowsFit'
  <2>1. /\ incidents' = [i \in IncidentIds \ S |-> incidents[i]]
        /\ clock' = clock /\ nextId' = nextId /\ IncidentIds' = IncidentIds \ S
    BY <1>5 DEF Remove, IncidentIds
  <2>2. SpansInv'
    BY <1>2, <2>1 DEF SpansInv, IsOpen
  <2>3. QED
    BY <1>1, <2>1, <2>2 DEF RowsFit
<1>6. CASE TableTick
  <2>1. clock' = clock + 1 /\ clock' \in 0..Horizon /\ UNCHANGED <<incidents, nextId>>
    BY <1>1, <1>6 DEF TableTick
  <2>2. IncidentIds' = IncidentIds
    BY <2>1 DEF IncidentIds
  <2>3. SpansInv'
    BY <1>1, <1>2, <2>1, <2>2 DEF SpansInv, IsOpen, Incident
  <2>4. QED
    BY <1>1, <2>1, <2>2, <2>3 DEF RowsFit
<1>7. QED
  BY <1>3, <1>4, <1>5, <1>6 DEF TableNext

LEMMA EventsKept == EventsInv /\ [EventsNext]_eventsVars => EventsInv'
<1> SUFFICES ASSUME EventsInv, [EventsNext]_eventsVars PROVE EventsInv'
  OBVIOUS
<1>1. /\ RowsFit /\ causes = explained
      /\ causes \in [IncidentIds -> 0..MaxTexts] /\ texts \in 0..MaxTexts /\ MaxTexts \in Nat
  BY TypesAre, EventsAssumption DEF EventsInv, CausesInv, RowsFit
<1>2. CASE TableStep
  <2>1. RowsFit' /\ texts' = texts
    BY <1>1, <1>2, TableKeepsRows DEF TableStep
  <2>2. causes' = explained' /\ causes' \in [IncidentIds' -> 0..MaxTexts]
    BY <1>1, <1>2 DEF TableStep, IncidentIds
  <2>3. EventsTypeOK'
    BY <1>1, <2>1, <2>2 DEF RowsFit, EventsTypeOK, Incident
  <2>4. QED
    BY <2>1, <2>2, <2>3 DEF EventsInv, RowsFit, CausesInv
<1>3. ASSUME NEW i \in IncidentIds, Explain(i) PROVE EventsInv'
  <2>1. texts' \in 0..MaxTexts /\ Write(texts', EventOf(i) \cup {i}, EventOf(i) \cup {i})
    BY <1>1, <1>3 DEF Explain, Written
  <2>2. QED
    BY <2>1, WritesKeep
<1>4. ASSUME NEW i \in IncidentIds, Retract(i) PROVE EventsInv'
  <2>1. texts' = texts /\ 0 \in 0..MaxTexts /\ Write(0, EventOf(i) \cup {i}, EventOf(i) \cup {i})
    BY <1>1, <1>4 DEF Retract, Written
  <2>2. QED
    BY <1>1, <2>1, WritesKeep
<1>5. ASSUME NEW i \in IncidentIds, ExplainRow(i) PROVE EventsInv'
  <2>1. texts' \in 0..MaxTexts /\ Write(texts', {i}, {i})
    BY <1>1, <1>5 DEF ExplainRow
  <2>2. QED
    BY <2>1, WritesKeep
<1>6. ASSUME NEW i \in IncidentIds, RetractRow(i) PROVE EventsInv'
  <2>1. texts' = texts /\ 0 \in 0..MaxTexts /\ Write(0, {i}, {i})
    BY <1>1, <1>6 DEF RetractRow
  <2>2. QED
    BY <1>1, <2>1, WritesKeep
<1>7. CASE UNCHANGED eventsVars
  BY <1>7 DEF eventsVars, tableVars, EventsInv, EventsTypeOK, SpansInv, CausesInv, IncidentIds, IsOpen
<1>8. QED
  BY <1>2, <1>3, <1>4, <1>5, <1>6, <1>7 DEF EventsNext

LEMMA EventsInvariance == EventsSpec => []EventsInv
  BY EventsBegin, EventsKept, PTL DEF EventsSpec

-----------------------------------------------------------------------------
(* The order of the rows.                                                  *)

Before(S, i) == {j \in S : Earlier(j, i)}
Place(S, i) == Cardinality(Before(S, i))

LEMMA EarlierIs ==
  ASSUME EventsTypeOK, NEW i \in IncidentIds, NEW j \in IncidentIds
  PROVE  /\ ~Earlier(i, i)
         /\ i # j => Earlier(i, j) \/ Earlier(j, i)
         /\ Earlier(i, j) => incidents[i].started <= incidents[j].started
         /\ \A k \in IncidentIds : Earlier(i, j) /\ Earlier(j, k) => Earlier(i, k)
<1>1. IncidentIds \subseteq Nat
  BY TypesAre
<1>2. \A k \in IncidentIds : incidents[k].started \in Nat
  <2>1. \A k \in IncidentIds : incidents[k] \in Incident
    BY TypesAre
  <2>2. \A x \in Incident : x.started \in 0..Horizon
    BY DEF Incident
  <2>3. 0..Horizon \subseteq Nat
    OBVIOUS
  <2>4. QED
    BY <2>1, <2>2, <2>3
<1>3. i \in Nat /\ j \in Nat /\ incidents[i].started \in Nat /\ incidents[j].started \in Nat
  BY <1>1, <1>2
<1>4. ~Earlier(i, i)
  BY <1>3 DEF Earlier
<1>5. i # j => Earlier(i, j) \/ Earlier(j, i)
  BY <1>3 DEF Earlier
<1>6. Earlier(i, j) => incidents[i].started <= incidents[j].started
  BY <1>3 DEF Earlier
<1>7. ASSUME NEW k \in IncidentIds, Earlier(i, j), Earlier(j, k) PROVE Earlier(i, k)
  <2>1. k \in Nat /\ incidents[k].started \in Nat
    BY <1>1, <1>2
  <2>2. QED
    BY <1>3, <1>7, <2>1 DEF Earlier
<1>8. QED
  BY <1>4, <1>5, <1>6, <1>7

LEMMA IdsAreFinite ==
  ASSUME EventsTypeOK, NEW S, S \subseteq IncidentIds
  PROVE  IsFiniteSet(S) /\ Cardinality(S) \in Nat
<1>1. IsFiniteSet(IncidentIds)
  <2>1. IncidentIds \subseteq 1..(nextId - 1)
    BY DEF EventsTypeOK
  <2>2. nextId - 1 \in Int
    BY DEF EventsTypeOK
  <2>3. IsFiniteSet(1..(nextId - 1))
    BY <2>2, FS_Interval
  <2>4. QED
    BY <2>1, <2>3, FS_Subset
<1>2. QED
  BY <1>1, FS_Subset, FS_CardinalityType

LEMMA PlaceIs ==
  ASSUME EventsTypeOK, NEW S, S \subseteq IncidentIds, NEW i \in S
  PROVE  /\ Place(S, i) \in 0..(Cardinality(S) - 1)
         /\ \A j \in S : Earlier(j, i) => Place(S, j) < Place(S, i)
<1>1. IsFiniteSet(S) /\ Cardinality(S) \in Nat
  BY IdsAreFinite
<1>2. ~Earlier(i, i)
  BY EarlierIs
<1>3. Place(S, i) \in Nat /\ Place(S, i) < Cardinality(S)
  <2>1. Before(S, i) \subseteq S /\ i \notin Before(S, i)
    BY <1>2 DEF Before
  <2>2. QED
    BY <1>1, <2>1, FS_Subset, FS_CardinalityType DEF Place
<1>4. ASSUME NEW j \in S, Earlier(j, i) PROVE Place(S, j) < Place(S, i)
  <2>1. Before(S, j) \subseteq Before(S, i)
    BY <1>4, EarlierIs DEF Before
  <2>2. j \in Before(S, i) /\ j \notin Before(S, j)
    BY <1>4, EarlierIs DEF Before
  <2>3. Before(S, i) \subseteq S
    BY DEF Before
  <2>4. IsFiniteSet(Before(S, i)) /\ IsFiniteSet(Before(S, j))
    BY <1>1, <2>1, <2>3, FS_Subset
  <2>5. QED
    BY <2>1, <2>2, <2>4, FS_Subset, FS_CardinalityType DEF Place
<1>5. QED
  BY <1>1, <1>3, <1>4

\* Every place is taken, by one row.
LEMMA PlacesAreTaken ==
  ASSUME EventsTypeOK, NEW S, S \subseteq IncidentIds,
         NEW k \in 1..Cardinality(S)
  PROVE  \E i \in S : Place(S, i) = k - 1
<1> DEFINE n == Cardinality(S)
           T == 0..(n - 1)
           f == [i \in S |-> Place(S, i)]
<1>1. n \in Nat /\ IsFiniteSet(S)
  BY IdsAreFinite
<1>2. IsFiniteSet(T) /\ Cardinality(T) = n
  <2>1. n - 1 \in Int /\ 0 \in Int
    BY <1>1
  <2>2. QED
    BY <1>1, <2>1, FS_Interval
<1>3. f \in Injection(S, T)
  <2>1. f \in [S -> T]
    BY PlaceIs
  <2>2. ASSUME NEW i \in S, NEW j \in S, f[i] = f[j] PROVE i = j
    <3>1. Place(S, i) = Place(S, j) /\ Place(S, i) \in Int
      BY <1>1, <2>2, PlaceIs
    <3>2. ~Earlier(i, j) /\ ~Earlier(j, i)
      BY <3>1, PlaceIs
    <3>3. QED
      BY <3>2, EarlierIs
  <2>3. QED
    BY <2>1, <2>2 DEF Injection, IsInjective
<1>4. f \in Surjection(S, T)
  <2> HIDE DEF f, T
  <2>1. QED
    BY <1>1, <1>2, <1>3, FS_Injection DEF n
<1>5. k - 1 \in T
  BY <1>1
<1>6. \E i \in S : f[i] = k - 1
  BY <1>4, <1>5 DEF Surjection
<1>7. QED
  BY <1>6

\* What the sweep goes through: every row once, in the order of the starts.
Sorted(S, r) ==
  /\ Len(r) \in Nat /\ DOMAIN r = 1..Len(r)
  /\ \A k \in 1..Len(r) : r[k] \in S
  /\ \A i \in S : \E k \in 1..Len(r) : r[k] = i
  /\ \A j \in 1..Len(r), k \in 1..Len(r) : j < k => Earlier(r[j], r[k])

LEMMA InOrderIs ==
  ASSUME EventsTypeOK, NEW S, S \subseteq IncidentIds
  PROVE  Sorted(S, InOrder(S))
<1> DEFINE n == Cardinality(S)
           r == InOrder(S)
<1>1. n \in Nat
  BY IdsAreFinite
<1>2. r = [k \in 1..n |-> CHOOSE i \in S : Place(S, i) = k - 1]
  BY DEF InOrder, Place, Before
<1>3. \A k \in 1..n : r[k] \in S /\ Place(S, r[k]) = k - 1
  BY <1>2, PlacesAreTaken
<1>4. r \in Seq(S) /\ Len(r) = n
  <2>1. r \in [1..n -> S]
    BY <1>2, <1>3
  <2> HIDE DEF r
  <2>2. QED
    BY <1>1, <2>1
<1>5. ASSUME NEW i \in S PROVE \E k \in 1..n : r[k] = i
  <2> DEFINE k == Place(S, i) + 1
  <2>1. k \in 1..n
    BY <1>1, PlaceIs
  <2>2. r[k] \in S /\ Place(S, r[k]) = Place(S, i)
    BY <1>1, <1>3, <2>1, PlaceIs
  <2>3. r[k] = i
    <3>1. ~Earlier(r[k], i) /\ ~Earlier(i, r[k])
      <4>1. Place(S, i) \in Int
        BY <1>1, PlaceIs
      <4>2. QED
        BY <2>2, <4>1, PlaceIs
    <3>2. QED
      BY <2>2, <3>1, EarlierIs
  <2>4. QED
    BY <2>1, <2>3
<1>6. ASSUME NEW j \in 1..n, NEW k \in 1..n, j < k PROVE Earlier(r[j], r[k])
  <2>1. Place(S, r[j]) < Place(S, r[k])
    BY <1>1, <1>3, <1>6
  <2>2. r[j] # r[k] /\ ~Earlier(r[k], r[j])
    <3>1. Place(S, r[j]) \in Int /\ Place(S, r[k]) \in Int
      BY <1>1, <1>3
    <3>2. Earlier(r[k], r[j]) => Place(S, r[k]) < Place(S, r[j])
      BY <1>3, PlaceIs
    <3>3. QED
      BY <2>1, <3>1, <3>2
  <2>3. QED
    BY <1>3, <2>2, EarlierIs
<1>7. QED
  <2> HIDE DEF r, n
  <2>1. Sorted(S, r)
    BY <1>1, <1>3, <1>4, <1>5, <1>6 DEF Sorted
  <2>2. QED
    BY <2>1 DEF r

-----------------------------------------------------------------------------
(* The sweep.                                                              *)

\* How far everything reaches that was swept so far.
Furthest(r, k, m) ==
  /\ m \in 0..Horizon
  /\ \E j \in 1..k : m = Reach(r[j])
  /\ \A j \in 1..k : Reach(r[j]) <= m

EndIs(r, e) == \A k \in 1..Len(r) : Furthest(r, k, e[k])

BeginsOf(r, e) ==
  {k \in DOMAIN r : k = 1 \/ incidents[r[k]].started > e[k - 1] + MergeGap}

LastOf(r, e, k) == Min({Len(r)} \cup {n - 1 : n \in {n \in BeginsOf(r, e) : n > k}})

EventAt(r, e, k) ==
  [ids |-> {r[j] : j \in k..LastOf(r, e, k)}, start |-> incidents[r[k]].started,
   reach |-> e[LastOf(r, e, k)], open |-> \E j \in k..LastOf(r, e, k) : IsOpen(r[j])]

LEMMA ReachIs ==
  ASSUME EventsInv, NEW i \in IncidentIds
  PROVE  /\ incidents[i].started \in 0..Horizon /\ Reach(i) \in 0..Horizon
         /\ incidents[i].started <= Reach(i) /\ Reach(i) <= clock
<1>1. clock \in 0..Horizon /\ incidents[i] \in Incident
  BY TypesAre DEF EventsInv
<1>2. /\ incidents[i].started <= clock
      /\ ~IsOpen(i) => incidents[i].started <= incidents[i].ended /\ incidents[i].ended <= clock
  BY DEF EventsInv, SpansInv
<1>3. QED
  BY <1>1, <1>2, EventsAssumption DEF Reach, IsOpen, Incident

LEMMA FurthestExists ==
  ASSUME EventsInv, NEW S, S \subseteq IncidentIds, NEW r, Sorted(S, r), NEW k \in 1..Len(r)
  PROVE  \E m : Furthest(r, k, m)
<1> DEFINE T == {Reach(r[j]) : j \in 1..k}
<1>1. Len(r) \in Nat /\ \A j \in 1..k : r[j] \in IncidentIds
  BY DEF Sorted
<1>2. T \subseteq 0..Horizon
  BY <1>1, ReachIs
<1>3. T # {}
  BY <1>1
<1>4. \E m \in T : \A y \in T : y <= m
  <2> HIDE DEF T
  <2>1. Horizon \in Nat
    BY TableAssumption
  <2>2. QED
    BY <1>2, <1>3, <2>1, GreatestExists
<1>5. QED
  BY <1>2, <1>4 DEF Furthest

LEMMA OneFurthest ==
  ASSUME NEW r, NEW k, NEW m, NEW n, Furthest(r, k, m), Furthest(r, k, n)
  PROVE  m = n
<1>1. m \in Int /\ n \in Int
  BY EventsAssumption DEF Furthest
<1>2. m <= n /\ n <= m
  BY DEF Furthest
<1>3. QED
  BY <1>1, <1>2

\* A row that begins another event starts after all before it has ended, so
\* that the sweep never forgets how far it came.
LEMMA SweepsOn ==
  ASSUME EventsInv, NEW S, S \subseteq IncidentIds, NEW r, Sorted(S, r), NEW k \in 1..Len(r),
         NEW x, k > 1 => Furthest(r, k - 1, x), NEW y, Furthest(r, k, y)
  PROVE  y = IF k > 1 /\ incidents[r[k]].started <= x + MergeGap
             THEN Further(x, r[k])
             ELSE Reach(r[k])
<1>1. Len(r) \in Nat /\ k \in Nat /\ r[k] \in IncidentIds /\ MergeGap \in Nat /\ Horizon \in Nat
  BY TableAssumption, EventsAssumption DEF Sorted
<1>2. /\ incidents[r[k]].started \in 0..Horizon /\ Reach(r[k]) \in 0..Horizon
      /\ incidents[r[k]].started <= Reach(r[k])
  BY <1>1, ReachIs
<1>3. CASE k = 1
  <2>1. Furthest(r, k, Reach(r[k]))
    BY <1>1, <1>2, <1>3 DEF Furthest
  <2>2. QED
    BY <1>3, <2>1, OneFurthest
<1>4. CASE k > 1 /\ x < Reach(r[k])
  <2>1. \A j \in 1..k : Reach(r[j]) <= Reach(r[k])
    <3>1. \A j \in 1..(k - 1) : Reach(r[j]) <= x /\ Reach(r[j]) \in Int
      <4>1. \A j \in 1..(k - 1) : r[j] \in IncidentIds
        BY <1>1 DEF Sorted
      <4>2. QED
        BY <1>4, <4>1, ReachIs DEF Furthest
    <3>2. x \in Int
      BY <1>1, <1>4 DEF Furthest
    <3>3. QED
      BY <1>1, <1>2, <1>4, <3>1, <3>2
  <2>2. Furthest(r, k, Reach(r[k]))
    BY <1>1, <1>2, <2>1 DEF Furthest
  <2>3. y = Reach(r[k])
    BY <2>2, OneFurthest
  <2>4. QED
    BY <1>1, <1>2, <1>4, <2>3 DEF Further
<1>5. CASE k > 1 /\ ~(x < Reach(r[k]))
  <2>1. x \in 0..Horizon
    BY <1>5 DEF Furthest
  <2>2. \A j \in 1..k : Reach(r[j]) <= x
    <3>1. \A j \in 1..(k - 1) : Reach(r[j]) <= x
      BY <1>5 DEF Furthest
    <3>2. QED
      BY <1>1, <1>2, <1>5, <2>1, <3>1
  <2>3. \E j \in 1..k : x = Reach(r[j])
    <3>1. PICK j \in 1..(k - 1) : x = Reach(r[j])
      BY <1>5 DEF Furthest
    <3>2. j \in 1..k
      BY <1>1
    <3>3. QED
      BY <3>1, <3>2
  <2>4. y = x
    <3>1. Furthest(r, k, x)
      BY <2>1, <2>2, <2>3 DEF Furthest
    <3>2. QED
      BY <3>1, OneFurthest
  <2>5. incidents[r[k]].started <= x + MergeGap
    BY <1>1, <1>2, <1>5, <2>1
  <2>6. QED
    BY <1>1, <1>2, <1>5, <2>1, <2>4, <2>5 DEF Further
<1>6. QED
  BY <1>1, <1>3, <1>4, <1>5

LEMMA ClustersAre ==
  ASSUME EventsInv
  PROVE  \E r, e : /\ Sorted(ListedIncidents, r)
                   /\ EndIs(r, e)
                   /\ Clusters = {EventAt(r, e, k) : k \in BeginsOf(r, e)}
<1> DEFINE r == InOrder(ListedIncidents)
           Step(f, k) ==
             IF k > 1 /\ incidents[r[k]].started <= f[k - 1] + MergeGap
             THEN Further(f[k - 1], r[k])
             ELSE Reach(r[k])
           end[k \in DOMAIN r] ==
             IF k > 1 /\ incidents[r[k]].started <= end[k - 1] + MergeGap
             THEN Further(end[k - 1], r[k])
             ELSE Reach(r[k])
<1>1. Clusters = {EventAt(r, end, k) : k \in BeginsOf(r, end)}
  BY DEF Clusters, EventAt, LastOf, BeginsOf
<1>2. end = CHOOSE f : f = [k \in DOMAIN r |-> Step(f, k)]
  BY DEF end
<1>3. ListedIncidents \subseteq IncidentIds /\ Sorted(ListedIncidents, r)
  <2>1. ListedIncidents \subseteq IncidentIds
    BY DEF ListedIncidents
  <2>2. QED
    BY <2>1, InOrderIs DEF EventsInv
<1> HIDE DEF r
<1>4. Len(r) \in Nat /\ DOMAIN r = 1..Len(r)
  BY <1>3 DEF Sorted
<1> DEFINE w == [k \in DOMAIN r |-> CHOOSE m : Furthest(r, k, m)]
<1>5. EndIs(r, w)
  BY <1>3, <1>4, FurthestExists DEF EndIs
<1> HIDE DEF w
<1>6. w = [k \in DOMAIN r |-> Step(w, k)]
  <2>1. ASSUME NEW k \in 1..Len(r) PROVE w[k] = Step(w, k)
    <3>1. k > 1 => Furthest(r, k - 1, w[k - 1])
      BY <1>4, <1>5 DEF EndIs
    <3>2. Furthest(r, k, w[k])
      BY <1>5 DEF EndIs
    <3>3. QED
      BY <1>3, <3>1, <3>2, SweepsOn
  <2>2. w = [k \in DOMAIN r |-> w[k]]
    BY DEF w
  <2> HIDE DEF Step
  <2>3. QED
    BY <1>4, <2>1, <2>2
<1>7. end = [k \in DOMAIN r |-> Step(end, k)]
  <2> HIDE DEF Step, end
  <2>1. QED
    BY <1>2, <1>6
<1>8. EndIs(r, end)
  <2> HIDE DEF end
  <2> DEFINE Wrong == {k \in 1..Len(r) : ~Furthest(r, k, end[k])}
  <2>1. SUFFICES ASSUME Wrong # {} PROVE FALSE
    BY DEF EndIs
  <2>2. PICK k \in Wrong : \A j \in Wrong : k <= j
    <3>1. Wrong \subseteq Nat
      BY <1>4
    <3> HIDE DEF Wrong
    <3>2. QED
      BY <2>1, <3>1, LeastExists
  <2>3. k \in 1..Len(r)
    OBVIOUS
  <2>4. k > 1 => Furthest(r, k - 1, end[k - 1])
    <3>1. k > 1 => k - 1 \in 1..Len(r) /\ ~(k <= k - 1)
      BY <1>4, <2>3
    <3>2. QED
      BY <2>2, <3>1
  <2>5. Furthest(r, k, w[k])
    BY <1>5, <2>3 DEF EndIs
  <2>6. w[k] = Step(end, k)
    BY <1>3, <2>3, <2>4, <2>5, SweepsOn
  <2>7. end[k] = Step(end, k)
    <3> HIDE DEF Step
    <3>1. QED
      BY <1>4, <1>7, <2>3
  <2>8. QED
    BY <2>5, <2>6, <2>7
<1>9. QED
  BY <1>1, <1>3, <1>8

-----------------------------------------------------------------------------
(* The events, as stretches of the sweep.                                  *)

LEMMA StartsAscend ==
  ASSUME EventsInv, NEW S, S \subseteq IncidentIds, NEW r, Sorted(S, r),
         NEW j \in 1..Len(r), NEW k \in 1..Len(r), j <= k
  PROVE  incidents[r[j]].started <= incidents[r[k]].started
<1>1. Len(r) \in Nat /\ r[j] \in IncidentIds /\ r[k] \in IncidentIds
  BY DEF Sorted
<1>2. incidents[r[j]].started \in 0..Horizon
  BY <1>1, ReachIs
<1>3. CASE j = k
  BY <1>2, <1>3, TableAssumption
<1>4. CASE j # k
  <2>1. j < k
    BY <1>1, <1>4
  <2>2. Earlier(r[j], r[k])
    BY <2>1 DEF Sorted
  <2>3. QED
    BY <1>1, <2>2, EarlierIs DEF EventsInv
<1>5. QED
  BY <1>3, <1>4

LEMMA LastIs ==
  ASSUME EventsInv, NEW S, S \subseteq IncidentIds, NEW r, Sorted(S, r), NEW e,
         NEW k \in BeginsOf(r, e)
  PROVE  /\ LastOf(r, e, k) \in k..Len(r)
         /\ \A m \in BeginsOf(r, e) : m > k => LastOf(r, e, k) < m
         /\ LastOf(r, e, k) = Len(r) \/ LastOf(r, e, k) + 1 \in BeginsOf(r, e)
<1> DEFINE T == {Len(r)} \cup {n - 1 : n \in {n \in BeginsOf(r, e) : n > k}}
           B == BeginsOf(r, e)
<1>1. Len(r) \in Nat /\ B \subseteq 1..Len(r) /\ k \in B
  BY DEF Sorted, BeginsOf
<1> HIDE DEF B
<1>2. \A x \in T : x \in Nat /\ k <= x /\ (x = Len(r) \/ x + 1 \in B)
  <2>1. ASSUME NEW n \in B, n > k PROVE n - 1 \in Nat /\ k <= n - 1 /\ (n - 1) + 1 \in B
    <3>1. n \in Nat /\ k \in Nat /\ (n - 1) + 1 = n
      BY <1>1
    <3>2. QED
      BY <1>1, <2>1, <3>1
  <2>2. Len(r) \in Nat /\ k <= Len(r)
    BY <1>1
  <2>3. QED
    BY <2>1, <2>2 DEF B
<1>3. \A n \in B : n > k => n - 1 \in T
  BY DEF B
<1>4. Len(r) \in T /\ LastOf(r, e, k) = Min(T)
  BY DEF LastOf
<1> HIDE DEF T
<1>5. Min(T) \in T /\ \A y \in T : Min(T) <= y
  <2>1. T \subseteq Nat /\ T # {}
    BY <1>2, <1>4
  <2>2. QED
    BY <2>1, MinIs
<1>6. Min(T) \in Nat /\ k <= Min(T) /\ Min(T) <= Len(r) /\ k \in Nat
  BY <1>1, <1>2, <1>4, <1>5
<1>7. ASSUME NEW n \in B, n > k PROVE Min(T) < n
  <2>1. Min(T) <= n - 1 /\ n \in Nat
    BY <1>1, <1>3, <1>5, <1>7
  <2>2. QED
    BY <1>6, <2>1
<1>8. Min(T) = Len(r) \/ Min(T) + 1 \in B
  BY <1>2, <1>5
<1>9. QED
  BY <1>1, <1>4, <1>6, <1>7, <1>8 DEF B

LEMMA EachJoins ==
  ASSUME EventsInv, NEW S, S \subseteq IncidentIds, NEW r, Sorted(S, r), NEW e,
         NEW j \in 1..Len(r)
  PROVE  \E k \in BeginsOf(r, e) : j \in k..LastOf(r, e, k)
<1> DEFINE B == BeginsOf(r, e)
           T == {k \in B : k <= j}
<1>1. Len(r) \in Nat /\ B \subseteq 1..Len(r) /\ 1 \in B /\ j \in Nat
  BY DEF Sorted, BeginsOf
<1> HIDE DEF B
<1>2. T \subseteq 0..j /\ T # {}
  <2>1. 1 \in T
    BY <1>1
  <2>2. \A x \in T : x \in 0..j
    BY <1>1
  <2>3. QED
    BY <2>1, <2>2
<1>3. PICK k \in T : \A m \in T : m <= k
  <2> HIDE DEF T
  <2>1. QED
    BY <1>1, <1>2, GreatestExists
<1>4. k \in B /\ k <= j /\ k \in Nat
  BY <1>1
<1>5. /\ LastOf(r, e, k) \in k..Len(r)
      /\ LastOf(r, e, k) = Len(r) \/ LastOf(r, e, k) + 1 \in B
  BY <1>4, LastIs DEF B
<1>6. j <= LastOf(r, e, k)
  <2>1. CASE LastOf(r, e, k) = Len(r)
    BY <2>1
  <2>2. CASE LastOf(r, e, k) + 1 \in B
    <3>1. LastOf(r, e, k) \in Nat /\ ~(LastOf(r, e, k) + 1 <= k)
      BY <1>1, <1>4, <1>5
    <3>2. ~(LastOf(r, e, k) + 1 <= j)
      BY <1>3, <2>2, <3>1
    <3>3. QED
      BY <1>1, <3>1, <3>2
  <2>3. QED
    BY <1>5, <2>1, <2>2
<1>7. QED
  BY <1>1, <1>4, <1>5, <1>6 DEF B

\* Within an event every row but the first is near one before it.
LEMMA Unbroken ==
  ASSUME EventsInv, NEW S, S \subseteq IncidentIds, NEW r, Sorted(S, r), NEW e, EndIs(r, e),
         NEW k \in BeginsOf(r, e), NEW m \in (k + 1)..LastOf(r, e, k)
  PROVE  \E p \in k..(m - 1) : Near(r[p], r[m])
<1>1. /\ Len(r) \in Nat /\ k \in 1..Len(r) /\ m \in 1..Len(r) /\ k < m
      /\ k <= m - 1 /\ m - 1 \in 1..Len(r) /\ m # 1 /\ k \in 1..(m - 1)
      /\ LastOf(r, e, k) \in Nat /\ m <= LastOf(r, e, k)
  <2>1. Len(r) \in Nat /\ k \in 1..Len(r) /\ LastOf(r, e, k) \in k..Len(r)
    BY LastIs DEF Sorted, BeginsOf
  <2>2. QED
    BY <2>1
<1>2. MergeGap \in Nat /\ Horizon \in Nat
  BY TableAssumption, EventsAssumption
<1>3. m \notin BeginsOf(r, e)
  <2>1. m \in BeginsOf(r, e) => LastOf(r, e, k) < m
    BY <1>1, LastIs
  <2>2. QED
    BY <1>1, <2>1
<1>4. Furthest(r, m - 1, e[m - 1])
  BY <1>1 DEF EndIs
<1>5. PICK p \in 1..(m - 1) : e[m - 1] = Reach(r[p])
  BY <1>4 DEF Furthest
<1>6. p \in 1..Len(r) /\ p <= m
  BY <1>1
<1>7. \A q \in 1..Len(r) : /\ incidents[r[q]].started \in 0..Horizon /\ Reach(r[q]) \in 0..Horizon
                           /\ incidents[r[q]].started <= Reach(r[q])
  BY ReachIs DEF Sorted
<1>8. incidents[r[m]].started <= Reach(r[p]) + MergeGap
  <2>1. ~(incidents[r[m]].started > e[m - 1] + MergeGap)
    BY <1>1, <1>3 DEF BeginsOf, Sorted
  <2>2. QED
    BY <1>1, <1>2, <1>5, <1>6, <1>7, <2>1
<1>9. p >= k
  <2> SUFFICES ASSUME p < k PROVE FALSE
    BY <1>1
  <2>1. k - 1 \in 1..Len(r) /\ p \in 1..(k - 1) /\ k # 1
    BY <1>1
  <2>2. Reach(r[p]) <= e[k - 1] /\ e[k - 1] \in 0..Horizon
    BY <2>1 DEF EndIs, Furthest
  <2>3. incidents[r[k]].started > e[k - 1] + MergeGap
    BY <2>1 DEF BeginsOf
  <2>4. Reach(r[k]) <= Reach(r[p])
    BY <1>1, <1>4, <1>5 DEF Furthest
  <2>5. \A q \in 1..Len(r) : /\ incidents[r[q]].started \in Int /\ Reach(r[q]) \in Int
                             /\ incidents[r[q]].started <= Reach(r[q])
    BY <1>2, <1>7
  <2>6. /\ incidents[r[k]].started \in Int /\ Reach(r[k]) \in Int /\ Reach(r[p]) \in Int
        /\ incidents[r[k]].started <= Reach(r[k]) /\ e[k - 1] \in Int
    BY <1>1, <1>2, <1>6, <2>2, <2>5
  <2>7. QED
    BY <1>2, <2>2, <2>3, <2>4, <2>6
<1>10. incidents[r[p]].started <= incidents[r[m]].started
  BY <1>1, <1>6, StartsAscend
<1>11. Near(r[p], r[m])
  <2>1. \A q \in 1..Len(r) : /\ incidents[r[q]].started \in Int /\ Reach(r[q]) \in Int
                             /\ incidents[r[q]].started <= Reach(r[q])
    BY <1>2, <1>7
  <2>2. /\ incidents[r[p]].started \in Int /\ incidents[r[m]].started \in Int
        /\ Reach(r[m]) \in Int /\ incidents[r[m]].started <= Reach(r[m])
    BY <1>1, <1>6, <2>1
  <2>3. incidents[r[p]].started <= Reach(r[m]) + MergeGap
    BY <1>2, <1>10, <2>2
  <2>4. QED
    BY <1>8, <2>3 DEF Near
<1>12. QED
  BY <1>1, <1>9, <1>11

LEMMA TooLate ==
  ASSUME NEW reach \in Int, NEW end \in Int, NEW begins \in Int, NEW start \in Int, NEW gap \in Int,
         reach <= end, begins > end + gap, begins <= start
  PROVE  ~(start <= reach + gap)
  OBVIOUS

\* Nothing outside of an event is near a row of it.
LEMMA SetApart ==
  ASSUME EventsInv, NEW S, S \subseteq IncidentIds, NEW r, Sorted(S, r), NEW e, EndIs(r, e),
         NEW k \in BeginsOf(r, e), NEW i \in k..LastOf(r, e, k),
         NEW q \in 1..Len(r), q \notin k..LastOf(r, e, k)
  PROVE  ~Near(r[i], r[q])
<1> DEFINE last == LastOf(r, e, k)
<1>1. /\ Len(r) \in Nat /\ k \in 1..Len(r) /\ last \in k..Len(r) /\ i \in 1..Len(r)
      /\ last = Len(r) \/ last + 1 \in BeginsOf(r, e)
  <2>1. Len(r) \in Nat /\ k \in 1..Len(r)
    BY DEF Sorted, BeginsOf
  <2>2. /\ last \in k..Len(r)
        /\ last = Len(r) \/ last + 1 \in BeginsOf(r, e)
    BY LastIs
  <2>3. QED
    BY <2>1, <2>2
<1> HIDE DEF last
<1>2. MergeGap \in Nat /\ Horizon \in Nat
  BY TableAssumption, EventsAssumption
<1>3. \A p \in 1..Len(r) : incidents[r[p]].started \in 0..Horizon /\ Reach(r[p]) \in 0..Horizon
  BY ReachIs DEF Sorted
<1>4. k <= i /\ i <= last
  BY <1>1 DEF last
<1>5. CASE q < k
  <2>1. k - 1 \in 1..Len(r) /\ q \in 1..(k - 1) /\ k # 1
    BY <1>1, <1>5
  <2>2. Reach(r[q]) <= e[k - 1] /\ e[k - 1] \in 0..Horizon
    BY <2>1 DEF EndIs, Furthest
  <2>3. incidents[r[k]].started > e[k - 1] + MergeGap
    BY <2>1 DEF BeginsOf
  <2>4. incidents[r[k]].started <= incidents[r[i]].started
    BY <1>1, <1>4, StartsAscend
  <2>5. /\ incidents[r[k]].started \in Int /\ incidents[r[i]].started \in Int
        /\ Reach(r[q]) \in Int /\ e[k - 1] \in Int
    <3>1. \A p \in 1..Len(r) : incidents[r[p]].started \in Int /\ Reach(r[p]) \in Int
      BY <1>2, <1>3
    <3>2. e[k - 1] \in Int
      BY <1>2, <2>2
    <3>3. QED
      BY <1>1, <3>1, <3>2
  <2>6. ~(incidents[r[i]].started <= Reach(r[q]) + MergeGap)
    BY <1>2, <2>2, <2>3, <2>4, <2>5, TooLate
  <2>7. QED
    BY <2>6 DEF Near
<1>6. CASE q > last
  <2>1. last + 1 \in BeginsOf(r, e) /\ last + 1 # 1 /\ last + 1 <= q /\ (last + 1) - 1 = last
    BY <1>1, <1>6
  <2>2. last \in 1..Len(r) /\ last + 1 \in 1..Len(r) /\ i \in 1..last
    BY <1>1, <1>4, <1>6
  <2>3. Reach(r[i]) <= e[last] /\ e[last] \in 0..Horizon
    BY <2>2 DEF EndIs, Furthest
  <2>4. incidents[r[last + 1]].started > e[last] + MergeGap
    BY <2>1 DEF BeginsOf
  <2>5. incidents[r[last + 1]].started <= incidents[r[q]].started
    BY <2>1, <2>2, StartsAscend
  <2>6. /\ incidents[r[last + 1]].started \in Int /\ incidents[r[q]].started \in Int
        /\ Reach(r[i]) \in Int /\ e[last] \in Int
    BY <1>1, <1>2, <1>3, <2>2, <2>3
  <2>7. ~(incidents[r[q]].started <= Reach(r[i]) + MergeGap)
    BY <1>2, <2>3, <2>4, <2>5, <2>6, TooLate
  <2>8. QED
    BY <2>7 DEF Near
<1>7. q < k \/ q > last
  BY <1>1 DEF last
<1>8. QED
  BY <1>5, <1>6, <1>7

-----------------------------------------------------------------------------
(* What is told of an event.                                               *)

\* The events of a list, by where they begin in the sweep.
EventsAre(r, e) ==
  /\ Sorted(ListedIncidents, r)
  /\ EndIs(r, e)
  /\ Clusters = {EventAt(r, e, k) : k \in BeginsOf(r, e)}

Stretch(r, e, k) == {r[j] : j \in k..LastOf(r, e, k)}

LEMMA StretchIs ==
  ASSUME EventsInv, NEW r, NEW e, EventsAre(r, e), NEW k \in BeginsOf(r, e)
  PROVE  /\ k \in 1..Len(r) /\ Len(r) \in Nat
         /\ LastOf(r, e, k) \in k..Len(r)
         /\ k..LastOf(r, e, k) \subseteq 1..Len(r)
         /\ Stretch(r, e, k) \subseteq ListedIncidents
         /\ ListedIncidents \subseteq IncidentIds
         /\ EventAt(r, e, k) \in Clusters
         /\ EventAt(r, e, k).ids = Stretch(r, e, k)
<1>1. Sorted(ListedIncidents, r) /\ ListedIncidents \subseteq IncidentIds
  BY DEF EventsAre, ListedIncidents
<1>2. k \in 1..Len(r) /\ Len(r) \in Nat
  BY <1>1 DEF BeginsOf, Sorted
<1>3. LastOf(r, e, k) \in k..Len(r)
  BY <1>1, LastIs
<1>4. k..LastOf(r, e, k) \subseteq 1..Len(r)
  BY <1>2, <1>3
<1>5. Stretch(r, e, k) \subseteq ListedIncidents
  BY <1>1, <1>4 DEF Stretch, Sorted
<1>6. EventAt(r, e, k) \in Clusters
  BY DEF EventsAre
<1>7. EventAt(r, e, k).ids = Stretch(r, e, k)
  BY DEF EventAt, Stretch
<1>8. QED
  BY <1>1, <1>2, <1>3, <1>4, <1>5, <1>6, <1>7

LEMMA EventsTellCauses == EventsInv => ExplanationsKept
<1> SUFFICES ASSUME EventsInv, NEW i \in ListedIncidents, explained[i] # 0
             PROVE  \E c \in Events : i \in c.ids /\ CauseOf(c) >= explained[i]
  BY DEF ExplanationsKept
<1>1. PICK r, e : EventsAre(r, e)
  BY ClustersAre DEF EventsAre
<1>2. PICK j \in 1..Len(r) : r[j] = i
  BY <1>1 DEF EventsAre, Sorted
<1>3. PICK k \in BeginsOf(r, e) : j \in k..LastOf(r, e, k)
  <2>1. Sorted(ListedIncidents, r) /\ ListedIncidents \subseteq IncidentIds
    BY <1>1 DEF EventsAre, ListedIncidents
  <2>2. QED
    BY <2>1, EachJoins
<1> DEFINE c == EventAt(r, e, k)
           told == {causes[x] : x \in c.ids}
<1>4. c \in Clusters /\ c.ids \subseteq IncidentIds /\ i \in c.ids
  <2>1. i \in Stretch(r, e, k)
    BY <1>2, <1>3 DEF Stretch
  <2>2. QED
    BY <1>1, <2>1, StretchIs
<1> HIDE DEF c
<1>5. told \subseteq 0..MaxTexts
  BY <1>4, TypesAre DEF EventsInv
<1>6. causes[i] \in told /\ causes[i] = explained[i]
  BY <1>4 DEF EventsInv, CausesInv
<1> HIDE DEF told
<1>7. MaxTexts \in Nat
  BY EventsAssumption
<1>8. Max(told) \in 0..MaxTexts /\ explained[i] \in 0..MaxTexts /\ explained[i] <= Max(told)
  BY <1>5, <1>6, <1>7, MaxIs
<1>9. CauseOf(c) = Max(told)
  BY DEF CauseOf, told
<1>10. CauseOf(c) # 0 /\ CauseOf(c) >= explained[i]
  BY <1>7, <1>8, <1>9
<1>11. c \in Events
  BY <1>4, <1>10 DEF Events
<1>12. QED
  BY <1>4, <1>10, <1>11

\* The events share out the list.
LEMMA EventsCoverList ==
  ASSUME EventsInv
  PROVE  UNION {c.ids : c \in Clusters} = ListedIncidents
<1>1. PICK r, e : EventsAre(r, e)
  BY ClustersAre DEF EventsAre
<1>2. ASSUME NEW c \in Clusters PROVE c.ids \subseteq ListedIncidents
  <2>1. PICK k \in BeginsOf(r, e) : c = EventAt(r, e, k)
    BY <1>1 DEF EventsAre
  <2>2. QED
    BY <1>1, <2>1, StretchIs
<1>3. ASSUME NEW i \in ListedIncidents PROVE \E c \in Clusters : i \in c.ids
  <2>1. PICK j \in 1..Len(r) : r[j] = i
    BY <1>1 DEF EventsAre, Sorted
  <2>2. PICK k \in BeginsOf(r, e) : j \in k..LastOf(r, e, k)
    <3>1. Sorted(ListedIncidents, r) /\ ListedIncidents \subseteq IncidentIds
      BY <1>1 DEF EventsAre, ListedIncidents
    <3>2. QED
      BY <3>1, EachJoins
  <2>3. i \in Stretch(r, e, k)
    BY <2>1, <2>2 DEF Stretch
  <2>4. QED
    BY <1>1, <2>3, StretchIs
<1>4. QED
  BY <1>2, <1>3

\* Wherever an event is cut in two, a row of one part is near one of the other.
LEMMA EventsHang ==
  ASSUME EventsInv, NEW c \in Clusters, NEW S \in SUBSET c.ids, S # {}, S # c.ids
  PROVE  \E i \in S, j \in c.ids \ S : Near(i, j)
<1>1. PICK r, e : EventsAre(r, e)
  BY ClustersAre DEF EventsAre
<1>2. PICK k \in BeginsOf(r, e) : c = EventAt(r, e, k)
  BY <1>1 DEF EventsAre
<1> DEFINE last == LastOf(r, e, k)
<1>3. /\ k \in Nat /\ last \in Nat /\ k <= last
      /\ c.ids = {r[j] : j \in k..last}
      /\ Sorted(ListedIncidents, r) /\ ListedIncidents \subseteq IncidentIds /\ EndIs(r, e)
  <2>1. k \in 1..Len(r) /\ Len(r) \in Nat /\ last \in k..Len(r) /\ c.ids = {r[j] : j \in k..last}
    BY <1>1, <1>2, StretchIs DEF Stretch
  <2>2. Sorted(ListedIncidents, r) /\ ListedIncidents \subseteq IncidentIds /\ EndIs(r, e)
    BY <1>1 DEF EventsAre, ListedIncidents
  <2>3. QED
    BY <2>1, <2>2
<1>4. ASSUME NEW m \in (k + 1)..last PROVE \E p \in k..(m - 1) : Near(r[p], r[m])
  BY <1>3, Unbroken DEF last
<1> HIDE DEF last
\* The first row that is on the other side than the event's first.
<1>5. ASSUME NEW P, P \subseteq k..last, P # {}, k \notin P
      PROVE  \E m \in P, p \in (k..last) \ P : Near(r[p], r[m])
  <2>1. PICK m \in P : \A x \in P : m <= x
    <3>1. P \subseteq Nat
      BY <1>3, <1>5
    <3>2. QED
      BY <1>5, <3>1, LeastExists
  <2>2. m \in (k + 1)..last
    BY <1>3, <1>5
  <2>3. PICK p \in k..(m - 1) : Near(r[p], r[m])
    BY <1>4, <2>2
  <2>4. p \in k..last /\ ~(m <= p)
    BY <1>3, <2>2
  <2>5. QED
    BY <2>1, <2>3, <2>4
<1> DEFINE Inside == {x \in k..last : r[x] \in S}
           Outside == {x \in k..last : r[x] \notin S}
<1>6. Inside # {} /\ Outside # {}
  BY <1>3
<1>7. k \in k..last
  BY <1>3
<1>8. CASE r[k] \in S
  <2>1. PICK m \in Outside, p \in (k..last) \ Outside : Near(r[p], r[m])
    BY <1>5, <1>6, <1>8
  <2>2. r[p] \in S /\ r[m] \in c.ids \ S
    BY <1>3, <2>1
  <2>3. QED
    BY <2>1, <2>2
<1>9. CASE r[k] \notin S
  <2>1. PICK m \in Inside, p \in (k..last) \ Inside : Near(r[p], r[m])
    BY <1>5, <1>6, <1>9
  <2>2. r[m] \in S /\ r[p] \in c.ids \ S
    BY <1>3, <2>1
  <2>3. Near(r[m], r[p])
    BY <2>1 DEF Near
  <2>4. QED
    BY <2>2, <2>3
<1>10. QED
  BY <1>8, <1>9

\* No row of an event is near one that is not of it.
LEMMA EventsAreApart ==
  ASSUME EventsInv, NEW c \in Clusters, NEW i \in c.ids, NEW j \in ListedIncidents \ c.ids
  PROVE  ~Near(i, j)
<1>1. PICK r, e : EventsAre(r, e)
  BY ClustersAre DEF EventsAre
<1>2. PICK k \in BeginsOf(r, e) : c = EventAt(r, e, k)
  BY <1>1 DEF EventsAre
<1>3. Sorted(ListedIncidents, r) /\ ListedIncidents \subseteq IncidentIds /\ EndIs(r, e)
  BY <1>1 DEF EventsAre, ListedIncidents
<1>4. c.ids = {r[x] : x \in k..LastOf(r, e, k)}
  BY <1>1, <1>2, StretchIs DEF Stretch
<1>5. PICK p \in k..LastOf(r, e, k) : r[p] = i
  BY <1>4
<1>6. PICK q \in 1..Len(r) : r[q] = j
  BY <1>3 DEF Sorted
<1>7. q \notin k..LastOf(r, e, k)
  BY <1>4, <1>6
<1>8. ~Near(r[p], r[q])
  BY <1>3, <1>7, SetApart
<1>9. QED
  BY <1>5, <1>6, <1>8

-----------------------------------------------------------------------------
(* The time an event was down.                                             *)

\* What a row adds: the moments it covers that none before it reaches.
Part(S, i) ==
  {t \in 0..clock : /\ incidents[i].started <= t /\ t < Reach(i)
                    /\ \A j \in S : Earlier(j, i) => Reach(j) <= t}

Parts(S, s) == UNION {Part(S, i) : i \in s}

Downtime(S) == {t \in 0..clock : \E i \in S : incidents[i].started <= t /\ t < Reach(i)}

LEMMA PartCounts ==
  ASSUME EventsInv, NEW S, S \subseteq IncidentIds, NEW i \in S
  PROVE  IsFiniteSet(Part(S, i)) /\ Added(i, S) = Cardinality(Part(S, i))
<1> DEFINE reaches == {Reach(j) : j \in {k \in S : Earlier(k, i)}}
           T == {incidents[i].started} \cup reaches
           end == Max(T)
<1>1. /\ incidents[i].started \in 0..Horizon /\ Reach(i) \in 0..Horizon
      /\ incidents[i].started <= Reach(i) /\ Reach(i) <= clock
  BY ReachIs
<1>2. Horizon \in Nat /\ clock \in 0..Horizon
  BY TableAssumption, TypesAre DEF EventsInv
<1>3. T \subseteq 0..Horizon
  BY <1>1, ReachIs
<1>4. end \in T /\ \A y \in T : y <= end
  <2>1. T # {}
    OBVIOUS
  <2> HIDE DEF T
  <2>2. QED
    BY <1>2, <1>3, <2>1, MaxIs
<1>5. end \in 0..Horizon
  BY <1>3, <1>4
<1>6. Added(i, S) = IF Reach(i) > end THEN Reach(i) - end ELSE 0
  BY DEF Added
<1>7. Part(S, i) = end..(Reach(i) - 1)
  <2>1. \A y \in T : y <= end
    BY <1>4
  <2>2. incidents[i].started <= end
    BY <2>1
  <2>3. \A j \in S : Earlier(j, i) => Reach(j) <= end /\ Reach(j) \in 0..Horizon
    BY <1>3, <2>1
  <2>4. end = incidents[i].started \/ \E j \in S : Earlier(j, i) /\ Reach(j) = end
    BY <1>4
  <2> HIDE DEF T, end, reaches
  <2>5. ASSUME NEW t \in Part(S, i) PROVE t \in end..(Reach(i) - 1)
    <3>1. /\ t \in 0..clock /\ incidents[i].started <= t /\ t < Reach(i)
          /\ \A j \in S : Earlier(j, i) => Reach(j) <= t
      BY DEF Part
    <3>2. end <= t
      BY <2>4, <3>1
    <3>3. QED
      BY <1>1, <1>2, <1>5, <3>1, <3>2
  <2>6. ASSUME NEW t \in end..(Reach(i) - 1) PROVE t \in Part(S, i)
    <3>1. t \in Int /\ end <= t /\ t < Reach(i)
      BY <1>1, <1>2, <1>5
    <3>2. t \in 0..clock /\ incidents[i].started <= t
      BY <1>1, <1>2, <1>5, <2>2, <3>1
    <3>3. \A j \in S : Earlier(j, i) => Reach(j) <= t
      BY <1>2, <1>5, <2>3, <3>1
    <3>4. QED
      BY <3>1, <3>2, <3>3 DEF Part
  <2>7. QED
    BY <2>5, <2>6
<1> HIDE DEF end
<1>8. end \in Int /\ Reach(i) - 1 \in Int
  BY <1>1, <1>2, <1>5
<1> DEFINE last == Reach(i) - 1
<1>9. IsFiniteSet(end..last) /\ Cardinality(end..last) = IF end > last THEN 0 ELSE last - end + 1
  <2>1. last \in Int
    BY <1>8
  <2> HIDE DEF last
  <2>2. QED
    BY <1>8, <2>1, FS_Interval
<1>10. (IF end > last THEN 0 ELSE last - end + 1) = IF Reach(i) > end THEN Reach(i) - end ELSE 0
  BY <1>1, <1>2, <1>8
<1>11. QED
  BY <1>6, <1>7, <1>9, <1>10

\* No moment is added twice.
LEMMA PartsAreApart ==
  ASSUME EventsInv, NEW S, S \subseteq IncidentIds, NEW i \in S, NEW j \in S, i # j
  PROVE  Part(S, i) \cap Part(S, j) = {}
<1>1. Horizon \in Nat /\ clock \in 0..Horizon
  BY TableAssumption, TypesAre DEF EventsInv
<1>2. Reach(i) \in 0..Horizon /\ Reach(j) \in 0..Horizon
  BY ReachIs
<1>3. Earlier(i, j) \/ Earlier(j, i)
  BY EarlierIs DEF EventsInv
<1>4. ASSUME NEW t \in Part(S, i), t \in Part(S, j) PROVE FALSE
  <2>1. t \in 0..clock /\ t < Reach(i) /\ t < Reach(j)
    BY <1>4 DEF Part
  <2>2. Reach(i) <= t \/ Reach(j) <= t
    BY <1>3, <1>4 DEF Part
  <2>3. QED
    BY <1>1, <1>2, <2>1, <2>2
<1>5. QED
  BY <1>4

\* Every moment of the downtime is added, by the first row that covers it.
LEMMA PartsCover ==
  ASSUME EventsInv, NEW S, S \subseteq IncidentIds
  PROVE  Parts(S, S) = Downtime(S)
<1>1. Horizon \in Nat /\ clock \in 0..Horizon
  BY TableAssumption, TypesAre DEF EventsInv
<1>2. Parts(S, S) \subseteq Downtime(S)
  BY DEF Parts, Part, Downtime
<1>3. ASSUME NEW t \in Downtime(S) PROVE t \in Parts(S, S)
  <2> DEFINE C == {i \in S : incidents[i].started <= t /\ t < Reach(i)}
             places == {Place(S, i) : i \in C}
  <2>1. C # {} /\ t \in 0..clock
    BY DEF Downtime
  <2>2. PICK i \in C : \A j \in C : Place(S, i) <= Place(S, j)
    <3>1. \A i \in C : Place(S, i) \in Nat
      <4>1. Cardinality(S) \in Nat
        BY IdsAreFinite DEF EventsInv
      <4>2. \A i \in C : Place(S, i) \in 0..(Cardinality(S) - 1)
        BY PlaceIs DEF EventsInv
      <4>3. QED
        BY <4>1, <4>2
    <3> HIDE DEF C
    <3>2. places \subseteq Nat /\ places # {}
      BY <2>1, <3>1
    <3>3. PICK x \in places : \A y \in places : x <= y
      <4> HIDE DEF places
      <4>1. QED
        BY <3>2, LeastExists
    <3>4. QED
      BY <3>3
  <2>3. ASSUME NEW j \in S, Earlier(j, i) PROVE Reach(j) <= t
    <3>1. Place(S, j) < Place(S, i)
      BY <2>3, PlaceIs DEF EventsInv
    <3>2. Place(S, j) \in Int /\ Place(S, i) \in Int
      <4>1. Cardinality(S) \in Nat
        BY IdsAreFinite DEF EventsInv
      <4>2. QED
        BY <4>1, PlaceIs DEF EventsInv
    <3>3. j \notin C
      BY <2>2, <3>1, <3>2
    <3>4. incidents[j].started <= incidents[i].started
      BY <2>3, EarlierIs DEF EventsInv
    <3>5. /\ incidents[j].started \in 0..Horizon /\ incidents[i].started \in 0..Horizon
          /\ Reach(j) \in 0..Horizon
      BY ReachIs
    <3>6. incidents[i].started <= t
      OBVIOUS
    <3>7. incidents[j].started <= t
      BY <1>1, <2>1, <3>4, <3>5, <3>6
    <3>8. ~(t < Reach(j))
      BY <3>3, <3>7
    <3>9. QED
      BY <1>1, <2>1, <3>5, <3>8
  <2>4. t \in Part(S, i)
    BY <2>1, <2>3 DEF Part
  <2>5. QED
    BY <2>4 DEF Parts
<1>4. QED
  BY <1>2, <1>3

LEMMA PartsAreFinite ==
  ASSUME EventsInv, NEW S, NEW s
  PROVE  IsFiniteSet(Parts(S, s)) /\ Cardinality(Parts(S, s)) \in Nat
<1>1. IsFiniteSet(0..clock)
  <2>1. 0 \in Int /\ clock \in Int
    BY TypesAre, EventsAssumption DEF EventsInv
  <2>2. QED
    BY <2>1, FS_Interval
<1>2. Parts(S, s) \subseteq 0..clock
  BY DEF Parts, Part
<1>3. QED
  BY <1>1, <1>2, FS_Subset, FS_CardinalityType

\* One row more adds its part.
LEMMA PartsAdd ==
  ASSUME EventsInv, NEW S, S \subseteq IncidentIds, NEW s \in SUBSET S, NEW x \in s
  PROVE  Cardinality(Parts(S, s)) = Added(x, S) + Cardinality(Parts(S, s \ {x}))
<1> DEFINE P == Part(S, x)
           Q == Parts(S, s \ {x})
<1>1. Parts(S, s) = P \cup Q
  BY DEF Parts
<1>2. P \cap Q = {}
  <2>1. \A i \in s \ {x} : Part(S, x) \cap Part(S, i) = {}
    BY PartsAreApart
  <2>2. QED
    BY <2>1 DEF Parts
<1>3. IsFiniteSet(P) /\ Cardinality(P) = Added(x, S) /\ Cardinality(P) \in Nat
  BY PartCounts, FS_CardinalityType
<1>4. IsFiniteSet(Q) /\ Cardinality(Q) \in Nat
  BY PartsAreFinite
<1> HIDE DEF P, Q
<1>5. Cardinality(P \cup Q) = Cardinality(P) + Cardinality(Q)
  <2>1. Cardinality(P \cup Q) = Cardinality(P) + Cardinality(Q) - Cardinality(P \cap Q)
    BY <1>3, <1>4, FS_Union
  <2>2. Cardinality(P \cap Q) = 0
    BY <1>2, FS_EmptySet
  <2>3. QED
    BY <1>3, <1>4, <2>1, <2>2
<1>6. QED
  BY <1>1, <1>3, <1>5 DEF Q

LEMMA SumIsDowntime ==
  ASSUME EventsInv, NEW S, S \subseteq IncidentIds
  PROVE  MapThenSumSet(LAMBDA i : Added(i, S), S) = Cardinality(Downtime(S))
<1> DEFINE iter[s \in SUBSET S] ==
             IF s = {} THEN 0
             ELSE LET x == Any(s) IN Added(x, S) + iter[s \ {x}]
           Step(f, s) ==
             IF s = {} THEN 0
             ELSE LET x == Any(s) IN Added(x, S) + f[s \ {x}]
<1>1. MapThenSumSet(LAMBDA i : Added(i, S), S) = iter[S]
  BY DEF MapThenSumSet, MapThenFoldSet, Any
<1>2. iter = CHOOSE f : f = [s \in SUBSET S |-> Step(f, s)]
  BY DEF iter
<1> DEFINE w == [s \in SUBSET S |-> Cardinality(Parts(S, s))]
<1>3. ASSUME NEW s \in SUBSET S, NEW f, s # {} => f[s \ {Any(s)}] = w[s \ {Any(s)}]
      PROVE  w[s] = Step(f, s)
  <2>1. CASE s = {}
    <3>1. Parts(S, s) = {}
      BY <2>1 DEF Parts
    <3>2. QED
      BY <2>1, <3>1, FS_EmptySet
  <2>2. CASE s # {}
    <3>1. Any(s) \in s
      BY <2>2 DEF Any
    <3>2. s \ {Any(s)} \in SUBSET S
      OBVIOUS
    <3>3. w[s] = Added(Any(s), S) + Cardinality(Parts(S, s \ {Any(s)}))
      BY <3>1, PartsAdd
    <3>4. w[s \ {Any(s)}] = Cardinality(Parts(S, s \ {Any(s)}))
      BY <3>2
    <3>5. Step(f, s) = Added(Any(s), S) + f[s \ {Any(s)}]
      BY <2>2
    <3>6. QED
      BY <1>3, <2>2, <3>3, <3>4, <3>5
  <2>3. QED
    BY <2>1, <2>2
<1>4. w = [s \in SUBSET S |-> Step(w, s)]
  <2>1. \A s \in SUBSET S : w[s] = Step(w, s)
    BY <1>3
  <2>2. w = [s \in SUBSET S |-> w[s]]
    OBVIOUS
  <2> HIDE DEF Step, w
  <2>3. QED
    BY <2>1, <2>2
<1>5. iter = [s \in SUBSET S |-> Step(iter, s)]
  <2> HIDE DEF Step, w, iter
  <2>1. QED
    BY <1>2, <1>4
<1>6. iter[S] = w[S]
  <2> HIDE DEF iter
  <2> DEFINE Good == {s \in SUBSET S : iter[s] = w[s]}
  <2>1. \A s \in SUBSET S : iter[s] = Step(iter, s)
    <3> HIDE DEF Step
    <3>1. QED
      BY <1>5
  <2>2. ASSUME NEW s \in SUBSET S, s # {} => iter[s \ {Any(s)}] = w[s \ {Any(s)}]
        PROVE  iter[s] = w[s]
    <3>1. w[s] = Step(iter, s)
      <4> HIDE DEF w, Step
      <4>1. QED
        BY <1>3, <2>2
    <3> HIDE DEF w, Step
    <3>2. QED
      BY <2>1, <3>1
  <2> HIDE DEF w, Step
  <2>3. {} \in Good /\ \A s \in SUBSET S : s # {} /\ s \ {Any(s)} \in Good => s \in Good
    BY <2>2
  <2>4. IsFiniteSet(S)
    BY IdsAreFinite DEF EventsInv
  <2> HIDE DEF Good
  <2>5. SUBSET S \subseteq Good
    BY <2>3, <2>4, OneByOne
  <2>6. S \in Good
    BY <2>5
  <2>7. QED
    BY <2>6 DEF Good
<1>7. w[S] = Cardinality(Downtime(S))
  BY PartsCover
<1>8. QED
  <2> HIDE DEF iter, w
  <2>1. QED
    BY <1>1, <1>6, <1>7

\* Of an event it is no more than the time from its start to its end.
LEMMA DowntimeFits ==
  ASSUME EventsInv, NEW c \in Clusters
  PROVE  TimeDown(c) = Cardinality(Downtime(c.ids)) /\ TimeDown(c) <= c.reach - c.start
<1>1. PICK r, e : EventsAre(r, e)
  BY ClustersAre DEF EventsAre
<1>2. PICK k \in BeginsOf(r, e) : c = EventAt(r, e, k)
  BY <1>1 DEF EventsAre
<1> DEFINE last == LastOf(r, e, k)
<1>3. Sorted(ListedIncidents, r) /\ ListedIncidents \subseteq IncidentIds /\ EndIs(r, e)
  BY <1>1 DEF EventsAre, ListedIncidents
<1>4. /\ k \in 1..Len(r) /\ Len(r) \in Nat /\ last \in k..Len(r)
      /\ c.ids = {r[j] : j \in k..last} /\ c.ids \subseteq IncidentIds
  BY <1>1, <1>2, StretchIs DEF Stretch
<1>5. c.start = incidents[r[k]].started /\ c.reach = e[last]
  BY <1>2 DEF EventAt
<1> HIDE DEF last
<1>6. TimeDown(c) = Cardinality(Downtime(c.ids))
  BY <1>4, SumIsDowntime DEF TimeDown
<1>7. Horizon \in Nat /\ clock \in 0..Horizon
  BY TableAssumption, TypesAre DEF EventsInv
<1>8. Furthest(r, last, c.reach)
  BY <1>3, <1>4, <1>5 DEF EndIs
<1>9. c.start \in 0..Horizon /\ c.reach \in 0..Horizon /\ c.start <= c.reach
  <2>1. /\ incidents[r[k]].started \in 0..Horizon /\ Reach(r[k]) \in 0..Horizon
        /\ incidents[r[k]].started <= Reach(r[k])
    <3>1. r[k] \in IncidentIds
      BY <1>3, <1>4 DEF Sorted
    <3>2. QED
      BY <3>1, ReachIs
  <2>2. c.reach \in 0..Horizon /\ Reach(r[k]) <= c.reach
    <3>1. k \in 1..last
      BY <1>4
    <3>2. QED
      BY <1>8, <3>1 DEF Furthest
  <2>3. QED
    BY <1>5, <1>7, <2>1, <2>2
<1>10. Downtime(c.ids) \subseteq c.start..(c.reach - 1)
  <2>1. ASSUME NEW j \in k..last
        PROVE  c.start <= incidents[r[j]].started /\ Reach(r[j]) <= c.reach
    <3>1. j \in 1..Len(r) /\ k <= j /\ j \in 1..last
      BY <1>4
    <3>2. incidents[r[k]].started <= incidents[r[j]].started
      BY <1>3, <1>4, <3>1, StartsAscend
    <3>3. QED
      BY <1>5, <1>8, <3>1, <3>2 DEF Furthest
  <2>2. ASSUME NEW t \in Downtime(c.ids) PROVE t \in c.start..(c.reach - 1)
    <3>1. PICK j \in k..last : incidents[r[j]].started <= t /\ t < Reach(r[j])
      BY <1>4 DEF Downtime
    <3>2. t \in 0..clock
      BY DEF Downtime
    <3>3. incidents[r[j]].started \in 0..Horizon /\ Reach(r[j]) \in 0..Horizon
      <4>1. r[j] \in IncidentIds
        BY <1>4
      <4>2. QED
        BY <4>1, ReachIs
    <3>4. QED
      BY <1>7, <1>9, <2>1, <3>1, <3>2, <3>3
  <2>3. QED
    BY <2>2
<1> DEFINE end == c.reach - 1
<1>11. IsFiniteSet(c.start..end)
       /\ Cardinality(c.start..end) = IF c.start > end THEN 0 ELSE end - c.start + 1
  <2>1. c.start \in Int /\ end \in Int
    BY <1>7, <1>9
  <2> HIDE DEF end
  <2>2. QED
    BY <2>1, FS_Interval
<1>12. Cardinality(c.start..end) = c.reach - c.start
  BY <1>7, <1>9, <1>11
<1>13. Cardinality(Downtime(c.ids)) <= c.reach - c.start
  <2>1. Cardinality(Downtime(c.ids)) <= Cardinality(c.start..end)
    BY <1>10, <1>11, FS_Subset
  <2>2. QED
    BY <1>12, <2>1
<1>14. QED
  BY <1>6, <1>13

LEMMA EventsTellTogether == EventsInv => EventsHangTogether
<1> SUFFICES ASSUME EventsInv PROVE EventsHangTogether
  OBVIOUS
<1> DEFINE sets == {c.ids : c \in Clusters}
<1>1. UNION sets = ListedIncidents
  BY EventsCoverList
<1>2. \A E \in sets : \A S \in (SUBSET E) \ {{}, E} : \E i \in S, j \in E \ S : Near(i, j)
  <2>1. ASSUME NEW c \in Clusters, NEW S \in (SUBSET c.ids) \ {{}, c.ids}
        PROVE  \E i \in S, j \in c.ids \ S : Near(i, j)
    <3>1. S \in SUBSET c.ids /\ S # {} /\ S # c.ids
      OBVIOUS
    <3>2. QED
      BY <3>1, EventsHang
  <2>2. QED
    BY <2>1
<1>3. \A E \in sets : \A i \in E, j \in ListedIncidents \ E : ~Near(i, j)
  BY EventsAreApart
<1>4. \A c \in Clusters : TimeDown(c) = Cardinality(Downtime(c.ids)) /\ TimeDown(c) <= c.reach - c.start
  BY DowntimeFits
<1> HIDE DEF sets
<1>5. QED
  BY <1>1, <1>2, <1>3, <1>4 DEF EventsHangTogether, Downtime, sets

-----------------------------------------------------------------------------
(* The theorems.                                                           *)

\* Every variable keeps its type, for any windows and any number of incidents
\* and explanations: no moment of an incident lies outside of what was.
THEOREM EventsTypes == EventsSpec => []EventsTypeOK
<1>1. EventsInv => EventsTypeOK
  BY DEF EventsInv
<1>2. QED
  BY <1>1, EventsInvariance, PTL

\* Rows that overlap, or lie within the gap of each other, are one event, and
\* no others: the single sweep by start finds exactly the sets of incidents
\* that hang together, and the downtime told of an event is the time that at
\* least one of its rows covers (aggregator.py:503-505, 541-552, 603-617).
THEOREM Together == EventsSpec => []EventsHangTogether
  BY EventsTellTogether, EventsInvariance, PTL

\* What is written for an event survives however its rows are later grouped:
\* each of them, as long as it is listed, is in an event that is shown and that
\* tells this or something newer (admin_ui.py:302-304).
THEOREM Explained == EventsSpec => []ExplanationsKept
  BY EventsTellCauses, EventsInvariance, PTL

-----------------------------------------------------------------------------
(* Uptime.  Rounding and shares.                                           *)

\* To the nearest, and to the even one of two that are equally near.
LEMMA RoundedIs ==
  ASSUME NEW n \in Nat, NEW d \in Nat \ {0}
  PROVE  LET R == Rounded(n, d) IN
         /\ R \in Nat
         /\ 2 * n - d <= 2 * (R * d) /\ 2 * (R * d) <= 2 * n + d
         /\ 2 * (R * d) = 2 * n - d \/ 2 * (R * d) = 2 * n + d => R % 2 = 0
<1> DEFINE q == n \div d
           r == n % d
           R == Rounded(n, d)
<1>1. q \in Nat /\ r \in 0..(d - 1) /\ n = d * q + r
  OBVIOUS
<1>2. R = IF 2 * r > d \/ (2 * r = d /\ q % 2 = 1) THEN q + 1 ELSE q
  BY DEF Rounded
<1>3. q * d = n - r /\ (q + 1) * d = n - r + d
  <2>1. d * q = q * d /\ (q + 1) * d = q * d + d
    BY <1>1
  <2>2. QED
    BY <1>1, <2>1
<1> HIDE DEF q, r, R
<1>4. R * d \in Int /\ R \in Nat
  BY <1>1, <1>2, <1>3
<1>5. CASE 2 * r > d
  <2>1. R * d = n - r + d
    BY <1>2, <1>3, <1>5
  <2>2. QED
    BY <1>1, <1>4, <1>5, <2>1 DEF R
<1>6. CASE 2 * r = d
  <2>1. R % 2 = 0
    BY <1>1, <1>2, <1>6
  <2>2. R * d = n - r + d \/ R * d = n - r
    BY <1>2, <1>3
  <2>3. QED
    BY <1>1, <1>4, <1>6, <2>1, <2>2 DEF R
<1>7. CASE 2 * r < d
  <2>1. R * d = n - r
    BY <1>1, <1>2, <1>3, <1>7
  <2>2. QED
    BY <1>1, <1>4, <1>7, <2>1 DEF R
<1>8. QED
  BY <1>1, <1>5, <1>6, <1>7

\* Of numbers, products that are ordered have factors that are.
LEMMA FactorsOrdered ==
  ASSUME NEW a \in Int, NEW b \in Int, NEW d \in Nat \ {0}, a * d <= b * d
  PROVE  a <= b
<1>1. ASSUME b < a PROVE FALSE
  <2>1. (a - b) * d >= d
    <3>1. PICK k \in Nat : a - b = k + 1
      BY <1>1
    <3>2. (k + 1) * d = k * d + d /\ k * d >= 0
      OBVIOUS
    <3>3. QED
      BY <3>1, <3>2
  <2>2. (a - b) * d = a * d - b * d
    OBVIOUS
  <2>3. QED
    BY <2>1, <2>2
<1>2. QED
  BY <1>1

LEMMA ProductsOrdered ==
  ASSUME NEW a \in Int, NEW b \in Int, NEW d \in Nat, a <= b
  PROVE  a * d <= b * d
<1>1. PICK k \in Nat : b = a + k
  BY b - a \in Nat
<1>2. (a + k) * d = a * d + k * d /\ k * d \in Nat
  OBVIOUS
<1>3. QED
  BY <1>1, <1>2

\* A greater part is rounded to no less.
LEMMA RoundedGrows ==
  ASSUME NEW n \in Nat, NEW d \in Nat \ {0}, NEW m \in Nat, NEW e \in Nat \ {0}, n * e <= m * d
  PROVE  Rounded(n, d) <= Rounded(m, e)
<1> DEFINE R == Rounded(n, d)
           Q == Rounded(m, e)
           both == d * e
<1>1. /\ R \in Nat /\ 2 * (R * d) <= 2 * n + d
      /\ 2 * (R * d) = 2 * n + d => R % 2 = 0
  BY RoundedIs
<1>2. /\ Q \in Nat /\ 2 * m - e <= 2 * (Q * e)
      /\ 2 * (Q * e) = 2 * m - e => Q % 2 = 0
  BY RoundedIs
<1> HIDE DEF R, Q
<1>3. both \in Nat \ {0}
  <2>1. d * e >= d
    <3>1. 1 * d <= e * d
      BY ProductsOrdered
    <3>2. QED
      BY <3>1
  <2>2. QED
    BY <2>1
<1>4. 2 * (R * both) <= 2 * (n * e) + both
  <2>1. (2 * (R * d)) * e <= (2 * n + d) * e
    BY <1>1, ProductsOrdered
  <2>2. (2 * (R * d)) * e = 2 * (R * both)
    BY <1>1
  <2>3. (2 * n + d) * e = 2 * (n * e) + both
    OBVIOUS
  <2>4. QED
    BY <2>1, <2>2, <2>3
<1>5. 2 * (m * d) - both <= 2 * (Q * both)
  <2>1. (2 * m - e) * d <= (2 * (Q * e)) * d
    BY <1>2, ProductsOrdered
  <2>2. (2 * (Q * e)) * d = 2 * (Q * both)
    BY <1>2
  <2>3. (2 * m - e) * d = 2 * (m * d) - both
    OBVIOUS
  <2>4. QED
    BY <2>1, <2>2, <2>3
<1>6. ASSUME R >= Q + 1 PROVE FALSE
  <2>1. (Q + 1) * both <= R * both /\ (Q + 1) * both = Q * both + both
    BY <1>1, <1>2, <1>3, <1>6, ProductsOrdered
  <2>2. n * e \in Nat /\ m * d \in Nat /\ Q * both \in Nat /\ R * both \in Nat
    BY <1>1, <1>2, <1>3
  <2> HIDE DEF both
  <2>3. R * both = (Q + 1) * both /\ n * e = m * d
        /\ 2 * (R * both) = 2 * (n * e) + both /\ 2 * (Q * both) = 2 * (m * d) - both
    BY <1>3, <1>4, <1>5, <2>1, <2>2
  <2>4. R = Q + 1
    BY <1>1, <1>2, <1>3, <2>3, FactorsOrdered
  <2>5. 2 * (R * d) = 2 * n + d
    <3>1. (2 * (R * d)) * e = 2 * (R * both) /\ (2 * n + d) * e = 2 * (n * e) + both
      BY <1>1 DEF both
    <3>2. (2 * (R * d)) * e = (2 * n + d) * e
      BY <2>3, <3>1
    <3>3. R * d \in Int
      BY <1>1
    <3>4. 2 * (R * d) \in Int /\ 2 * n + d \in Int
      BY <3>3
    <3>5. QED
      BY <3>2, <3>4, FactorsOrdered
  <2>6. 2 * (Q * e) = 2 * m - e
    <3>1. (2 * (Q * e)) * d = 2 * (Q * both) /\ (2 * m - e) * d = 2 * (m * d) - both
      BY <1>2 DEF both
    <3>2. (2 * (Q * e)) * d = (2 * m - e) * d
      BY <2>3, <3>1
    <3>3. Q * e \in Int
      BY <1>2
    <3>4. 2 * (Q * e) \in Int /\ 2 * m - e \in Int
      BY <3>3
    <3>5. QED
      BY <3>2, <3>4, FactorsOrdered
  <2>7. R % 2 = 0 /\ Q % 2 = 0
    BY <1>1, <1>2, <2>5, <2>6
  <2>8. QED
    BY <1>1, <1>2, <2>4, <2>7
<1>7. QED
  BY <1>1, <1>2, <1>6 DEF R, Q

LEMMA Numbers == Hundred \in Nat \ {0} /\ Full = 10 * Hundred
  BY SMT DEF Full, Hundred

\* What can be summed within a window: few enough that a failure shows.
Tally == {w \in [total : Nat, failed : Nat] : w.failed <= w.total /\ w.total < 2 * Full}

LEMMA PctIs ==
  ASSUME NEW w \in Tally, Measured(w)
  PROVE  Pct(w) \in 0..Full /\ (Pct(w) = Full <=> w.failed = 0)
<1> DEFINE t == w.total
           f == w.failed
           n == Full * f
           R == Rounded(n, t)
<1>1. Full \in Nat \ {0} /\ t \in Nat \ {0} /\ f \in Nat /\ f <= t /\ t < 2 * Full
  BY Numbers DEF Tally, Measured
<1>2. Pct(w) = Full - R
  BY DEF Pct
<1> HIDE DEF t, f
<1>3. n \in Nat /\ n <= Full * t /\ (f = 0 => n = 0) /\ (f # 0 => n >= Full)
  <2>1. f * Full <= t * Full
    BY <1>1, ProductsOrdered
  <2>2. f # 0 => 1 * Full <= f * Full
    BY <1>1, ProductsOrdered
  <2>3. f = 0 => f * Full = 0
    BY <1>1
  <2>4. f * Full = Full * f /\ t * Full = Full * t /\ 1 * Full = Full /\ Full * f \in Nat
    BY <1>1
  <2>5. QED
    BY <2>1, <2>2, <2>3, <2>4
<1> HIDE DEF n
<1>4. R \in Nat /\ 2 * n - t <= 2 * (R * t) /\ 2 * (R * t) <= 2 * n + t
  BY <1>1, <1>3, RoundedIs
<1> HIDE DEF R
<1>5. R * t \in Nat /\ Full * t \in Nat
  BY <1>1, <1>4
<1>6. R <= Full
  <2>1. ASSUME Full + 1 <= R PROVE FALSE
    <3>1. (Full + 1) * t <= R * t
      BY <1>1, <1>4, <2>1, ProductsOrdered
    <3>2. (Full + 1) * t = Full * t + t
      BY <1>1
    <3>3. QED
      BY <1>1, <1>3, <1>4, <1>5, <3>1, <3>2
  <2>2. QED
    BY <1>1, <1>4, <2>1
<1>7. f # 0 => R # 0
  <2>1. R = 0 => R * t = 0
    BY <1>1
  <2>2. QED
    BY <1>1, <1>3, <1>4, <2>1
<1>8. f = 0 => R = 0
  <2>1. ASSUME f = 0, 1 <= R PROVE FALSE
    <3>1. 1 * t <= R * t /\ 1 * t = t
      BY <1>1, <1>4, <2>1, ProductsOrdered
    <3>2. QED
      BY <1>1, <1>3, <1>4, <1>5, <2>1, <3>1
  <2>2. QED
    BY <1>4, <2>1
<1>9. QED
  BY <1>1, <1>2, <1>4, <1>6, <1>7, <1>8 DEF f

\* A text is the share floored to two decimals; that a failure never reads
\* 100% follows from its share.
LEMMA TextIs ==
  ASSUME NEW w \in Tally
  PROVE  /\ ~Measured(w) => Text(w) = NoFigure
         /\ Measured(w) => /\ Text(w) = Pct(w) \div 10 /\ Text(w) \in 0..Hundred
                           /\ Text(w) = Hundred <=> w.failed = 0
<1>1. CASE ~Measured(w)
  BY <1>1 DEF Text
<1>2. CASE Measured(w) /\ w.failed = 0
  <2>1. Pct(w) = Full
    BY <1>2, PctIs
  <2>2. Full \div 10 = Hundred
    BY Numbers
  <2>3. Text(w) = Hundred
    BY <1>2 DEF Text
  <2>4. QED
    BY <1>2, <2>1, <2>2, <2>3, Numbers
<1>3. CASE Measured(w) /\ w.failed # 0
  <2> DEFINE p == Pct(w) \div 10
             top == Hundred - 1
  <2>1. Pct(w) \in Nat /\ Pct(w) < Full
    BY <1>3, PctIs, Numbers
  <2>2. p \in Nat /\ p <= top /\ top \in Nat
    BY <2>1, Numbers
  <2>3. Text(w) = Min({p, top})
    BY <1>3 DEF Text, Floored
  <2> HIDE DEF p, top
  <2>4. Min({p, top}) = p
    <3>1. {p, top} \subseteq Nat /\ {p, top} # {}
      BY <2>2
    <3>2. Min({p, top}) \in {p, top} /\ Min({p, top}) <= p
      BY <3>1, MinIs
    <3>3. QED
      BY <2>2, <3>2
  <2>5. Text(w) = p /\ p \in 0..Hundred /\ p # Hundred
    BY <2>2, <2>3, <2>4, Numbers DEF top
  <2>6. QED
    BY <1>3, <2>5 DEF p
<1>4. QED
  BY <1>1, <1>2, <1>3

LEMMA TextGrows ==
  ASSUME NEW v \in Tally, NEW w \in Tally, Measured(v), Measured(w), Pct(v) <= Pct(w)
  PROVE  Text(v) <= Text(w)
<1>1. Pct(v) \in Nat /\ Pct(w) \in Nat
  BY PctIs, Numbers
<1>2. Text(v) = Pct(v) \div 10 /\ Text(w) = Pct(w) \div 10
  BY TextIs
<1>3. ASSUME NEW p \in Nat, NEW q \in Nat, p <= q PROVE p \div 10 <= q \div 10
  <2>1. /\ p = 10 * (p \div 10) + (p % 10) /\ p % 10 \in 0..9 /\ p \div 10 \in Nat
        /\ q = 10 * (q \div 10) + (q % 10) /\ q % 10 \in 0..9 /\ q \div 10 \in Nat
    OBVIOUS
  <2>2. QED
    BY <1>3, <2>1
<1>4. QED
  BY <1>1, <1>2, <1>3

\* A window whose part of failures is no less has no greater share.
LEMMA PctFalls ==
  ASSUME NEW v \in Tally, NEW w \in Tally, Measured(v), Measured(w),
         w.failed * v.total <= v.failed * w.total
  PROVE  Pct(v) <= Pct(w)
<1> DEFINE m == Full * v.failed
           n == Full * w.failed
<1>1. /\ v.total \in Nat \ {0} /\ w.total \in Nat \ {0}
      /\ v.failed \in Nat /\ w.failed \in Nat /\ Full \in Nat
  BY Numbers DEF Tally, Measured
<1>2. m \in Nat /\ n \in Nat
  BY <1>1
<1>3. n * v.total <= m * w.total
  <2>1. w.failed * v.total \in Int /\ v.failed * w.total \in Int
    BY <1>1
  <2>2. (w.failed * v.total) * Full <= (v.failed * w.total) * Full
    BY <1>1, <2>1, ProductsOrdered
  <2>3. (w.failed * v.total) * Full = n * v.total /\ (v.failed * w.total) * Full = m * w.total
    BY <1>1
  <2>4. QED
    BY <2>2, <2>3
<1>4. Pct(v) = Full - Rounded(m, v.total) /\ Pct(w) = Full - Rounded(n, w.total)
  BY DEF Pct
<1> HIDE DEF m, n
<1>5. Rounded(n, w.total) <= Rounded(m, v.total)
  BY <1>1, <1>2, <1>3, RoundedGrows
<1>6. Rounded(n, w.total) \in Nat /\ Rounded(m, v.total) \in Nat
  BY <1>1, <1>2, RoundedIs
<1>7. QED
  BY <1>1, <1>4, <1>5, <1>6

-----------------------------------------------------------------------------
(* The weakest check of a component.                                       *)

LEMMA CountedAre ==
  ASSUME NEW c \in Groups
  PROVE  /\ \A k \in DOMAIN ChecksOf[c] : k \in Nat /\ ChecksOf[c][k] \in Counted(c)
         /\ \A s \in Counted(c) : \E k \in DOMAIN ChecksOf[c] : ChecksOf[c][k] = s
         /\ Counted(c) \subseteq Checks
<1>1. ChecksOf[c] \in Seq(Counted(c))
  BY UptimeAssumption
<1>2. DOMAIN ChecksOf[c] = 1..Len(ChecksOf[c])
  BY <1>1
<1>3. QED
  BY <1>2 DEF Counted, Range, Checks

\* It is one of the checks measured, and none of them has a lower share.
LEMMA WeakestIs ==
  ASSUME NEW c \in Groups, NEW figures, \A s \in Counted(c) : figures[s] \in Tally
  PROVE  \/ Weakest(c, figures) = Nothing /\ \A s \in Counted(c) : ~Measured(figures[s])
         \/ \E s \in Counted(c) :
              /\ Weakest(c, figures) = figures[s] /\ Measured(figures[s])
              /\ \A t \in Counted(c) : Measured(figures[t]) => Pct(figures[s]) <= Pct(figures[t])
<1> DEFINE At(k) == figures[ChecksOf[c][k]]
           seen == MeasuredOf(c, figures)
           share == [k \in seen |-> Pct(At(k))]
           first == CHOOSE k \in seen : \A j \in seen :
                      share[k] < share[j] \/ (share[k] = share[j] /\ k <= j)
<1>1. Weakest(c, figures) = IF seen = {} THEN Nothing ELSE At(first)
  BY DEF Weakest
<1>2. seen \subseteq Nat /\ \A k \in seen : ChecksOf[c][k] \in Counted(c) /\ At(k) \in Tally /\ Measured(At(k))
  BY CountedAre DEF MeasuredOf
<1>3. \A t \in Counted(c) : Measured(figures[t]) => \E k \in seen : At(k) = figures[t]
  BY CountedAre DEF MeasuredOf
<1>4. \A k \in seen : share[k] = Pct(At(k)) /\ share[k] \in Nat
  BY <1>2, PctIs, Numbers
<1> HIDE DEF seen, share
<1>5. CASE seen = {}
  BY <1>1, <1>3, <1>5
<1>6. CASE seen # {}
  <2> DEFINE shares == {share[k] : k \in seen}
  <2>1. PICK low \in shares : \A x \in shares : low <= x
    <3>1. shares \subseteq Nat /\ shares # {}
      BY <1>4, <1>6
    <3> HIDE DEF shares
    <3>2. QED
      BY <3>1, LeastExists
  <2> DEFINE lowest == {k \in seen : share[k] = low}
  <2>2. PICK k \in lowest : \A j \in lowest : k <= j
    <3>1. lowest \subseteq Nat /\ lowest # {}
      BY <1>2, <2>1
    <3> HIDE DEF lowest
    <3>2. QED
      BY <3>1, LeastExists
  <2>3. k \in seen /\ \A j \in seen : share[k] < share[j] \/ (share[k] = share[j] /\ k <= j)
    <3>1. k \in seen /\ share[k] = low /\ \A j \in seen : low <= share[j]
      BY <2>1, <2>2
    <3>2. \A j \in seen : share[j] = low => k <= j
      BY <2>2
    <3>3. QED
      BY <1>4, <3>1, <3>2
  <2>4. first \in seen /\ \A j \in seen : share[first] <= share[j]
    <3>1. /\ first \in seen
          /\ \A j \in seen : share[first] < share[j] \/ (share[first] = share[j] /\ first <= j)
      BY <2>3
    <3> HIDE DEF first
    <3>2. QED
      BY <1>4, <3>1
  <2> HIDE DEF first
  <2>5. ChecksOf[c][first] \in Counted(c) /\ Measured(At(first))
    BY <1>2, <2>4
  <2>6. \A t \in Counted(c) : Measured(figures[t]) => Pct(At(first)) <= Pct(figures[t])
    BY <1>3, <1>4, <2>4
  <2>7. Weakest(c, figures) = At(first)
    BY <1>1, <1>6
  <2>8. QED
    BY <2>5, <2>6, <2>7
<1>7. QED
  BY <1>5, <1>6

-----------------------------------------------------------------------------
(* Sums.                                                                   *)

\* The units that are summed, and how the sum of a part comes about.
Units(f, most, s) == {p \in s \X (1..most) : p[2] <= f[p[1]]}

LEMMA UnitsAdd ==
  ASSUME NEW S, IsFiniteSet(S), NEW most \in Nat, NEW f \in [S -> 0..most],
         NEW s \in SUBSET S, NEW x \in s
  PROVE  /\ Cardinality(Units(f, most, s)) \in Nat
         /\ Cardinality(Units(f, most, s)) = f[x] + Cardinality(Units(f, most, s \ {x}))
<1> DEFINE P == {x} \X (1..f[x])
           Q == Units(f, most, s \ {x})
<1>1. \A t \in SUBSET S : IsFiniteSet(Units(f, most, t))
  <2> SUFFICES ASSUME NEW t \in SUBSET S PROVE IsFiniteSet(Units(f, most, t))
    OBVIOUS
  <2>1. IsFiniteSet(t) /\ IsFiniteSet(1..most)
    BY FS_Subset, FS_Interval
  <2>2. IsFiniteSet(t \X (1..most))
    BY <2>1, FS_Product
  <2>3. Units(f, most, t) \subseteq t \X (1..most)
    BY DEF Units
  <2>4. QED
    BY <2>2, <2>3, FS_Subset
<1>2. f[x] \in Nat /\ f[x] <= most
  OBVIOUS
<1>3. Units(f, most, s) = P \cup Q
  BY <1>2 DEF Units
<1>4. P \cap Q = {}
  BY DEF Units
<1>5. IsFiniteSet(P) /\ Cardinality(P) = f[x]
  <2>1. IsFiniteSet(1..f[x]) /\ Cardinality(1..f[x]) = f[x]
    <3>1. \A n \in Nat : Cardinality(1..n) = n /\ IsFiniteSet(1..n)
      <4> SUFFICES ASSUME NEW n \in Nat PROVE Cardinality(1..n) = n /\ IsFiniteSet(1..n)
        OBVIOUS
      <4>1. 1 \in Int /\ n \in Int
        OBVIOUS
      <4>2. IsFiniteSet(1..n) /\ Cardinality(1..n) = IF 1 > n THEN 0 ELSE n - 1 + 1
        BY <4>1, FS_Interval
      <4>3. QED
        BY <4>2
    <3>2. QED
      BY <1>2, <3>1
  <2>2. IsFiniteSet({x}) /\ Cardinality({x}) = 1
    BY FS_Singleton
  <2>3. IsFiniteSet(P) /\ Cardinality(P) = Cardinality({x}) * Cardinality(1..f[x])
    BY <2>1, <2>2, FS_Product
  <2>4. QED
    BY <1>2, <2>1, <2>2, <2>3
<1>6. IsFiniteSet(Q) /\ Cardinality(Q) \in Nat
  BY <1>1, FS_CardinalityType
<1> HIDE DEF P, Q
<1>7. Cardinality(P \cap Q) = 0
  BY <1>4, FS_EmptySet
<1>8. Cardinality(P \cup Q) = Cardinality(P) + Cardinality(Q) - Cardinality(P \cap Q)
  BY <1>5, <1>6, FS_Union
<1>9. QED
  BY <1>2, <1>3, <1>5, <1>6, <1>7, <1>8 DEF Q

Summing(f, S, g) ==
  /\ g \in [SUBSET S -> Nat] /\ g[{}] = 0
  /\ \A s \in SUBSET S : s # {} => g[s] = f[Any(s)] + g[s \ {Any(s)}]
  /\ SumFunction(f) = g[S]

LEMMA SumIs ==
  ASSUME NEW S, IsFiniteSet(S), NEW most \in Nat, NEW f \in [S -> 0..most]
  PROVE  \E g : Summing(f, S, g)
<1> DEFINE iter[s \in SUBSET S] ==
             IF s = {} THEN 0
             ELSE LET x == Any(s) IN f[x] + iter[s \ {x}]
           Step(h, s) ==
             IF s = {} THEN 0
             ELSE LET x == Any(s) IN f[x] + h[s \ {x}]
           w == [s \in SUBSET S |-> Cardinality(Units(f, most, s))]
<1>1. SumFunction(f) = iter[S]
  <2>1. DOMAIN f = S
    OBVIOUS
  <2>2. QED
    BY <2>1 DEF SumFunction, SumFunctionOnSet, FoldFunctionOnSet, MapThenFoldSet, Any
<1>2. iter = CHOOSE h : h = [s \in SUBSET S |-> Step(h, s)]
  BY DEF iter
<1>3. w[{}] = 0
  <2>1. Units(f, most, {}) = {}
    BY DEF Units
  <2>2. QED
    BY <2>1, FS_EmptySet
<1>4. \A s \in SUBSET S : s # {} => w[s] = f[Any(s)] + w[s \ {Any(s)}] /\ w[s] \in Nat
  <2> SUFFICES ASSUME NEW s \in SUBSET S, s # {}
               PROVE  w[s] = f[Any(s)] + w[s \ {Any(s)}] /\ w[s] \in Nat
    OBVIOUS
  <2>1. Any(s) \in s
    BY DEF Any
  <2>2. s \ {Any(s)} \in SUBSET S
    OBVIOUS
  <2>3. QED
    BY <2>1, <2>2, UnitsAdd
<1> HIDE DEF w
<1>5. w = [s \in SUBSET S |-> w[s]]
  BY DEF w
<1>6. w = [s \in SUBSET S |-> Step(w, s)]
  <2>1. \A s \in SUBSET S : w[s] = Step(w, s)
    BY <1>3, <1>4
  <2> HIDE DEF Step
  <2>2. QED
    BY <1>5, <2>1
<1>7. iter = [s \in SUBSET S |-> Step(iter, s)]
  <2> HIDE DEF Step, iter
  <2>1. QED
    BY <1>2, <1>6
<1>8. SUBSET S \subseteq {s \in SUBSET S : iter[s] = w[s]}
  <2> HIDE DEF iter
  <2> DEFINE Good == {s \in SUBSET S : iter[s] = w[s]}
  <2>1. \A s \in SUBSET S : iter[s] = Step(iter, s)
    <3> HIDE DEF Step
    <3>1. QED
      BY <1>7
  <2>2. {} \in Good
    BY <1>3, <2>1
  <2>3. ASSUME NEW s \in SUBSET S, s # {}, s \ {Any(s)} \in Good PROVE s \in Good
    BY <1>4, <2>1, <2>3
  <2> HIDE DEF Good
  <2>4. SUBSET S \subseteq Good
    BY <2>2, <2>3, OneByOne
  <2>5. QED
    BY <2>4 DEF Good
<1>9. SumFunction(f) = w[S]
  <2> HIDE DEF iter
  <2>1. S \in {s \in SUBSET S : iter[s] = w[s]}
    BY <1>8
  <2>2. iter[S] = w[S]
    BY <2>1
  <2>3. QED
    BY <1>1, <2>2
<1>10. w \in [SUBSET S -> Nat]
  <2>1. \A s \in SUBSET S : w[s] \in Nat
    <3> SUFFICES ASSUME NEW s \in SUBSET S PROVE w[s] \in Nat
      OBVIOUS
    <3>1. CASE s = {}
      BY <1>3, <3>1
    <3>2. CASE s # {}
      BY <1>4, <3>2
    <3>3. QED
      BY <3>1, <3>2
  <2>2. QED
    BY <1>5, <2>1
<1>11. Summing(f, S, w)
  BY <1>3, <1>4, <1>9, <1>10 DEF Summing
<1>12. QED
  BY <1>11

-----------------------------------------------------------------------------
(* The window.                                                             *)

\* What a check can have in a day, that a window of such days still shows.
Most == (2 * Full - 1) \div UptimeDays

LEMMA MostIs ==
  /\ Most \in Nat /\ UptimeDays * Most < 2 * Full
  /\ \A n \in Nat : UptimeDays * n < 2 * Full => n <= Most
<1> DEFINE all == 2 * Full - 1
<1>1. UptimeDays \in Nat \ {0} /\ all \in Nat /\ 2 * Full = all + 1
  BY UptimeAssumption, Numbers
<1>2. Most = all \div UptimeDays
  BY DEF Most
<1> HIDE DEF all
<1>3. /\ Most \in Nat /\ UptimeDays * Most \in Nat
      /\ UptimeDays * Most <= all /\ all < UptimeDays * Most + UptimeDays
  BY <1>1, <1>2
<1>4. ASSUME NEW n \in Nat, UptimeDays * n < 2 * Full PROVE n <= Most
  <2>1. ASSUME Most + 1 <= n PROVE FALSE
    <3>1. (Most + 1) * UptimeDays <= n * UptimeDays
      BY <1>1, <1>3, <2>1, ProductsOrdered
    <3>2. (Most + 1) * UptimeDays = UptimeDays * Most + UptimeDays /\ n * UptimeDays = UptimeDays * n
      BY <1>1, <1>3
    <3>3. UptimeDays * n \in Nat
      BY <1>1
    <3>4. QED
      BY <1>1, <1>3, <1>4, <3>1, <3>2, <3>3
  <2>2. QED
    BY <1>3, <2>1
<1>5. QED
  BY <1>1, <1>3, <1>4

LEMMA DayIsTally ==
  ASSUME NEW row \in DayRows, NEW s \in Checks
  PROVE  row[s] \in Tally /\ row[s].total <= Most
<1>1. /\ row[s] \in [total : Nat, failed : Nat]
      /\ row[s].failed <= row[s].total /\ UptimeDays * row[s].total < 2 * Full
  BY UptimeAssumption
<1> DEFINE n == row[s].total
<1>2. n \in Nat /\ n <= Most
  BY <1>1, MostIs
<1>3. n < 2 * Full
  <2> HIDE DEF n
  <2>1. 1 * n <= UptimeDays * n
    BY <1>2, UptimeAssumption, ProductsOrdered
  <2>2. UptimeDays * n \in Nat /\ 1 * n = n /\ 2 * Full \in Nat
    BY <1>2, UptimeAssumption, Numbers
  <2>3. UptimeDays * n < 2 * Full
    BY <1>1 DEF n
  <2>4. QED
    BY <1>2, <2>1, <2>2, <2>3
<1>4. QED
  BY <1>1, <1>2, <1>3 DEF Tally

LEMMA CountIsTally ==
  ASSUME NEW n \in Counts
  PROVE  n \in Tally /\ n.total <= Most
<1>1. CASE n = Nothing
  <2>1. n.total = 0 /\ n.failed = 0 /\ n \in [total : Nat, failed : Nat]
    BY <1>1 DEF Nothing
  <2>2. 0 < 2 * Full
    BY Numbers
  <2>3. QED
    BY <2>1, <2>2, MostIs DEF Tally
<1>2. CASE n \in {row[s] : row \in DayRows, s \in Checks}
  BY <1>2, DayIsTally
<1>3. QED
  BY <1>1, <1>2 DEF Counts

LEMMA WindowIs ==
  ASSUME UptimeTypeOK
  PROVE  /\ ShownDays = InWindow
         /\ \A d \in InWindow : days[d] \in [Checks -> Counts]
         /\ IsFiniteSet(InWindow) /\ Cardinality(InWindow) \in 0..UptimeDays
<1> DEFINE n == Len(days)
           low == n - UptimeDays + 1
<1>1. n \in Nat /\ DOMAIN days = 1..n /\ \A d \in 1..n : days[d] \in [Checks -> Counts]
  BY DEF UptimeTypeOK
<1>2. UptimeDays \in Nat \ {0}
  BY UptimeAssumption
<1>3. ShownDays = InWindow
  BY <1>1, <1>2 DEF ShownDays, InWindow
<1>4. \A d \in InWindow : days[d] \in [Checks -> Counts]
  BY <1>1 DEF InWindow
<1>5. low \in Int /\ InWindow \subseteq low..n
  BY <1>1, <1>2 DEF InWindow
<1>6. n - low + 1 = UptimeDays /\ low <= n
  BY <1>1, <1>2
<1> HIDE DEF n, low
<1>7. IsFiniteSet(low..n) /\ Cardinality(low..n) = UptimeDays
  <2>1. n \in Int
    BY <1>1
  <2>2. IsFiniteSet(low..n) /\ Cardinality(low..n) = IF low > n THEN 0 ELSE n - low + 1
    BY <1>5, <2>1, FS_Interval
  <2>3. ~(low > n)
    BY <1>5, <1>6, <2>1
  <2>4. QED
    BY <1>6, <2>2, <2>3
<1>8. IsFiniteSet(InWindow) /\ Cardinality(InWindow) <= UptimeDays
  BY <1>5, <1>7, FS_Subset
<1>9. QED
  BY <1>2, <1>3, <1>4, <1>8, FS_CardinalityType

\* A check counts today what it has live, or what its row says; both are the
\* same once today is rolled up.
LEMMA DrawnIs ==
  ASSUME UptimeTypeOK, NEW d \in InWindow, NEW s \in Checks
  PROVE  /\ Drawn(d)[s] \in Tally /\ days[d][s] \in Tally
         /\ Measured(days[d][s]) => Measured(Drawn(d)[s])
         /\ RolledUp => Drawn(d)[s] = days[d][s]
<1>1. days[d] \in [Checks -> Counts] /\ live \in [Checks -> Counts]
  BY WindowIs DEF UptimeTypeOK
<1>2. days[d][s] \in Counts /\ live[s] \in Counts
  BY <1>1
<1>3. CASE d = Len(days)
  <2>1. Drawn(d) = Today /\ Today[s] = IF Measured(live[s]) THEN live[s] ELSE days[d][s]
    BY <1>3 DEF Drawn, Today
  <2>2. RolledUp => days[d] = Today
    BY <1>3 DEF RolledUp
  <2>3. QED
    BY <1>2, <2>1, <2>2, CountIsTally
<1>4. CASE d # Len(days)
  BY <1>2, <1>4, CountIsTally DEF Drawn
<1>5. QED
  BY <1>3, <1>4

Totals(s) == [d \in InWindow |-> days[d][s].total]
Failures(s) == [d \in InWindow |-> days[d][s].failed]

LEMMA TalliesAre ==
  ASSUME UptimeTypeOK, NEW s \in Checks
  PROVE  /\ Totals(s) \in [InWindow -> 0..Most] /\ Failures(s) \in [InWindow -> 0..Most]
         /\ \A d \in InWindow : /\ days[d][s] \in Tally
                                /\ Totals(s)[d] = days[d][s].total
                                /\ Failures(s)[d] = days[d][s].failed
                                /\ Failures(s)[d] <= Totals(s)[d]
         /\ Summed[s] = [total |-> SumFunction(Totals(s)), failed |-> SumFunction(Failures(s))]
<1>1. \A d \in InWindow :
        /\ days[d][s] \in Tally /\ days[d][s].total \in 0..Most /\ days[d][s].failed \in 0..Most
        /\ days[d][s].failed <= days[d][s].total
  <2> SUFFICES ASSUME NEW d \in InWindow
               PROVE  /\ days[d][s] \in Tally /\ days[d][s].total \in 0..Most
                      /\ days[d][s].failed \in 0..Most /\ days[d][s].failed <= days[d][s].total
    OBVIOUS
  <2>1. days[d] \in [Checks -> Counts]
    BY WindowIs
  <2>2. days[d][s] \in Tally /\ days[d][s].total <= Most
    BY <2>1, CountIsTally
  <2>3. QED
    BY <2>2, MostIs DEF Tally
<1>2. QED
  BY <1>1 DEF Totals, Failures, Summed

\* The sums of a window: of days that can be summed, nothing just where no day
\* has anything.
LEMMA SummedIs ==
  ASSUME UptimeTypeOK, NEW s \in Checks
  PROVE  /\ Summed[s] \in Tally
         /\ Measured(Summed[s]) <=> \E d \in InWindow : Measured(days[d][s])
         /\ Summed[s].failed = 0 <=> \A d \in InWindow : days[d][s].failed = 0
<1> DEFINE W == InWindow
           T == Totals(s)
           F == Failures(s)
<1>1. /\ T \in [W -> 0..Most] /\ F \in [W -> 0..Most] /\ \A d \in W : F[d] <= T[d]
      /\ \A d \in W : T[d] = days[d][s].total /\ F[d] = days[d][s].failed
      /\ Summed[s] = [total |-> SumFunction(T), failed |-> SumFunction(F)]
  BY TalliesAre
<1>2. IsFiniteSet(W) /\ Cardinality(W) \in 0..UptimeDays /\ Most \in Nat
  BY WindowIs, MostIs
<1> HIDE DEF W, T, F
<1>3. PICK t : Summing(T, W, t)
  BY <1>1, <1>2, SumIs
<1>4. PICK f : Summing(F, W, f)
  BY <1>1, <1>2, SumIs
<1> DEFINE Good == {u \in SUBSET W :
                     /\ f[u] <= t[u] /\ t[u] <= Cardinality(u) * Most
                     /\ t[u] = 0 <=> \A d \in u : T[d] = 0
                     /\ f[u] = 0 <=> \A d \in u : F[d] = 0}
<1>5. {} \in Good
  <2>1. Cardinality({}) * Most = 0
    BY <1>2, FS_EmptySet
  <2>2. QED
    BY <1>3, <1>4, <2>1 DEF Summing
<1>6. ASSUME NEW u \in SUBSET W, u # {}, u \ {Any(u)} \in Good PROVE u \in Good
  <2> DEFINE x == Any(u)
             v == u \ {x}
  <2>1. x \in u /\ v \in SUBSET W /\ u = v \cup {x}
    BY <1>6 DEF Any
  <2>2. t[u] = T[x] + t[v] /\ f[u] = F[x] + f[v]
    BY <1>3, <1>4, <1>6 DEF Summing
  <2>3. t[v] \in Nat /\ f[v] \in Nat /\ T[x] \in 0..Most /\ F[x] \in 0..Most /\ F[x] <= T[x]
    BY <1>1, <1>3, <1>4, <2>1 DEF Summing
  <2>4. Cardinality(u) * Most = Cardinality(v) * Most + Most
    <3>1. IsFiniteSet(u) /\ Cardinality(u) \in Nat
      BY <1>2, FS_Subset, FS_CardinalityType
    <3>2. Cardinality(v) = Cardinality(u) - 1
      BY <2>1, <3>1, FS_RemoveElement
    <3>3. \A n \in Nat : n * Most = (n - 1) * Most + Most
      BY <1>2
    <3>4. QED
      BY <3>1, <3>2, <3>3
  <2>5. /\ f[v] <= t[v] /\ t[v] <= Cardinality(v) * Most
        /\ t[v] = 0 <=> \A d \in v : T[d] = 0
        /\ f[v] = 0 <=> \A d \in v : F[d] = 0
    BY <1>6
  <2>6. Cardinality(v) * Most \in Int
    <3>1. Cardinality(v) \in Nat
      BY <1>2, <2>1, FS_Subset, FS_CardinalityType
    <3>2. QED
      BY <1>2, <3>1
  <2> HIDE DEF x, v
  <2>7. f[u] <= t[u] /\ t[u] <= Cardinality(u) * Most
    BY <1>2, <2>2, <2>3, <2>4, <2>5, <2>6
  <2>8. t[u] = 0 <=> \A d \in u : T[d] = 0
    BY <2>1, <2>2, <2>3, <2>5
  <2>9. f[u] = 0 <=> \A d \in u : F[d] = 0
    BY <2>1, <2>2, <2>3, <2>5
  <2>10. QED
    BY <2>7, <2>8, <2>9
<1>7. W \in Good
  <2> HIDE DEF Good
  <2>1. SUBSET W \subseteq Good
    BY <1>2, <1>5, <1>6, OneByOne
  <2>2. QED
    BY <2>1
<1>8. Summed[s].total = t[W] /\ Summed[s].failed = f[W] /\ Summed[s] = [total |-> t[W], failed |-> f[W]]
  BY <1>1, <1>3, <1>4 DEF Summing
<1>9. t[W] \in Nat /\ f[W] \in Nat
  BY <1>3, <1>4 DEF Summing
<1>10. t[W] < 2 * Full
  <2>1. Cardinality(W) * Most <= UptimeDays * Most
    BY <1>2, UptimeAssumption, ProductsOrdered
  <2>2. Cardinality(W) * Most \in Nat /\ UptimeDays * Most \in Nat /\ 2 * Full \in Nat
    BY <1>2, UptimeAssumption, Numbers
  <2>3. t[W] <= Cardinality(W) * Most
    BY <1>7
  <2>4. QED
    BY <1>9, <2>1, <2>2, <2>3, MostIs
<1>11. Summed[s] \in Tally
  BY <1>7, <1>8, <1>9, <1>10 DEF Tally
<1>12. Measured(Summed[s]) <=> \E d \in W : Measured(days[d][s])
  <2>1. Measured(Summed[s]) <=> t[W] # 0
    BY <1>8, <1>9 DEF Measured
  <2>2. \A d \in W : Measured(days[d][s]) <=> T[d] # 0
    BY <1>1, <1>2 DEF Measured
  <2>3. QED
    BY <1>7, <2>1, <2>2
<1>13. Summed[s].failed = 0 <=> \A d \in W : days[d][s].failed = 0
  BY <1>1, <1>7, <1>8
<1>14. QED
  BY <1>11, <1>12, <1>13 DEF W

\* No window is worse than each of its days.
LEMMA WorstDay ==
  ASSUME UptimeTypeOK, NEW s \in Checks, Measured(Summed[s])
  PROVE  \E d \in InWindow : Measured(days[d][s]) /\ Pct(days[d][s]) <= Pct(Summed[s])
<1> DEFINE W == InWindow
           T == Totals(s)
           F == Failures(s)
           A == Summed[s].failed
           B == Summed[s].total
<1>1. /\ T \in [W -> 0..Most] /\ F \in [W -> 0..Most] /\ \A d \in W : F[d] <= T[d]
      /\ \A d \in W : T[d] = days[d][s].total /\ F[d] = days[d][s].failed /\ days[d][s] \in Tally
      /\ Summed[s] = [total |-> SumFunction(T), failed |-> SumFunction(F)]
  BY TalliesAre
<1>2. IsFiniteSet(W) /\ Most \in Nat
  BY WindowIs, MostIs
<1>3. Summed[s] \in Tally /\ A \in Nat /\ B \in Nat /\ B > 0
  BY SummedIs DEF Tally, Measured
<1>4. ASSUME \A d \in W : T[d] > 0 => F[d] * B < A * T[d] PROVE FALSE
  <2> HIDE DEF W, T, F
  <2>1. PICK t : Summing(T, W, t)
    BY <1>1, <1>2, SumIs
  <2>2. PICK f : Summing(F, W, f)
    BY <1>1, <1>2, SumIs
  <2>3. A = f[W] /\ B = t[W]
    BY <1>1, <2>1, <2>2 DEF Summing
  <2> HIDE DEF A, B
  <2> DEFINE Good == {u \in SUBSET W : f[u] * B <= A * t[u]
                                       /\ (t[u] > 0 => f[u] * B < A * t[u])}
  <2>4. {} \in Good
    BY <1>3, <2>1, <2>2 DEF Summing
  <2>5. ASSUME NEW u \in SUBSET W, u # {}, u \ {Any(u)} \in Good PROVE u \in Good
    <3> DEFINE x == Any(u)
               v == u \ {x}
    <3>1. x \in W /\ v \in SUBSET W
      BY <2>5 DEF Any
    <3>2. t[u] = T[x] + t[v] /\ f[u] = F[x] + f[v]
      BY <2>1, <2>2, <2>5 DEF Summing
    <3>3. t[v] \in Nat /\ f[v] \in Nat /\ T[x] \in Nat /\ F[x] \in Nat /\ F[x] <= T[x]
      <4>1. t[v] \in Nat /\ f[v] \in Nat
        BY <2>1, <2>2, <3>1 DEF Summing
      <4>2. T[x] \in 0..Most /\ F[x] \in 0..Most /\ F[x] <= T[x]
        BY <1>1, <3>1
      <4> HIDE DEF x, v
      <4>3. QED
        BY <1>2, <4>1, <4>2
    <3>4. f[v] * B <= A * t[v] /\ (t[v] > 0 => f[v] * B < A * t[v])
      BY <2>5
    <3>5. T[x] > 0 => F[x] * B < A * T[x]
      BY <1>4, <3>1
    <3> HIDE DEF x, v
    <3>6. /\ f[u] * B = F[x] * B + f[v] * B /\ A * t[u] = A * T[x] + A * t[v]
          /\ F[x] * B \in Nat /\ f[v] * B \in Nat /\ A * T[x] \in Nat /\ A * t[v] \in Nat
      BY <1>3, <3>2, <3>3
    <3>7. CASE T[x] = 0
      <4>1. F[x] * B = 0 /\ A * T[x] = 0
        BY <1>3, <3>3, <3>7
      <4>2. QED
        BY <3>2, <3>3, <3>4, <3>6, <3>7, <4>1
    <3>8. CASE T[x] > 0
      BY <3>4, <3>5, <3>6, <3>8
    <3>9. QED
      BY <3>3, <3>7, <3>8
  <2>6. W \in Good
    <3> HIDE DEF Good
    <3>1. SUBSET W \subseteq Good
      BY <1>2, <2>4, <2>5, OneByOne
    <3>2. QED
      BY <3>1
  <2>7. A * B < A * B
    BY <1>3, <2>3, <2>6
  <2>8. A * B \in Nat
    BY <1>3
  <2>9. QED
    BY <2>7, <2>8
<1>5. PICK d \in W : T[d] > 0 /\ ~(F[d] * B < A * T[d])
  BY <1>4
<1>6. /\ days[d][s] \in Tally /\ T[d] = days[d][s].total /\ F[d] = days[d][s].failed
      /\ Measured(days[d][s])
  BY <1>1, <1>5 DEF Measured
<1>7. Summed[s].failed * days[d][s].total <= days[d][s].failed * Summed[s].total
  <2>1. T[d] \in Nat /\ F[d] \in Nat
    BY <1>6 DEF Tally
  <2> HIDE DEF T, F, A, B
  <2>2. F[d] * B \in Nat /\ A * T[d] \in Nat
    BY <1>3, <2>1
  <2>3. A * T[d] <= F[d] * B
    BY <1>5, <2>2
  <2>4. QED
    BY <1>6, <2>3 DEF A, B
<1>8. Pct(days[d][s]) <= Pct(Summed[s])
  BY <1>3, <1>6, <1>7, PctFalls
<1>9. QED
  BY <1>6, <1>8

-----------------------------------------------------------------------------
(* Figures and bars.                                                       *)

\* A component's figure: none just where nothing of it was measured, 100% just
\* where nothing of it failed, and never better than any of its checks.
LEMMA FigureIs ==
  ASSUME NEW c \in Groups, NEW figures, \A s \in Counted(c) : figures[s] \in Tally
  PROVE  LET w == Weakest(c, figures) IN
         /\ w \in Tally
         /\ Measured(w) <=> \E s \in Counted(c) : Measured(figures[s])
         /\ w.failed = 0 <=> \A s \in Counted(c) : figures[s].failed = 0
         /\ \A s \in Counted(c) : Measured(figures[s]) =>
              Pct(w) <= Pct(figures[s]) /\ Text(w) <= Text(figures[s])
         /\ Measured(w) => \E s \in Counted(c) : Measured(figures[s]) /\ w = figures[s]
<1> DEFINE w == Weakest(c, figures)
<1>1. \A s \in Counted(c) : ~Measured(figures[s]) => figures[s].failed = 0
  BY DEF Measured, Tally
<1>2. CASE w = Nothing /\ \A s \in Counted(c) : ~Measured(figures[s])
  <2>1. w \in Tally /\ ~Measured(w) /\ w.failed = 0
    BY <1>2, Numbers DEF Nothing, Tally, Measured
  <2> HIDE DEF w
  <2>2. QED
    BY <1>1, <1>2, <2>1 DEF w
<1>3. ASSUME NEW s \in Counted(c), w = figures[s], Measured(figures[s]),
             \A t \in Counted(c) : Measured(figures[t]) => Pct(figures[s]) <= Pct(figures[t])
      PROVE  /\ w \in Tally
             /\ Measured(w) <=> \E t \in Counted(c) : Measured(figures[t])
             /\ w.failed = 0 <=> \A t \in Counted(c) : figures[t].failed = 0
             /\ \A t \in Counted(c) : Measured(figures[t]) =>
                  Pct(w) <= Pct(figures[t]) /\ Text(w) <= Text(figures[t])
             /\ Measured(w) => \E t \in Counted(c) : Measured(figures[t]) /\ w = figures[t]
  <2> HIDE DEF w
  <2>1. w \in Tally /\ Measured(w)
    BY <1>3
  <2>2. \A t \in Counted(c) : Measured(figures[t]) =>
          Pct(w) <= Pct(figures[t]) /\ Text(w) <= Text(figures[t])
    BY <1>3, <2>1, TextGrows
  <2>3. ASSUME w.failed = 0, NEW t \in Counted(c) PROVE figures[t].failed = 0
    <3>1. CASE ~Measured(figures[t])
      BY <1>1, <3>1
    <3>2. CASE Measured(figures[t])
      <4>1. Pct(w) = Full /\ Pct(w) <= Pct(figures[t])
        BY <2>1, <2>2, <2>3, <3>2, PctIs
      <4>2. Pct(figures[t]) \in 0..Full /\ (Pct(figures[t]) = Full <=> figures[t].failed = 0)
        BY <3>2, PctIs
      <4>3. QED
        BY <4>1, <4>2, Numbers
    <3>3. QED
      BY <3>1, <3>2
  <2>4. QED
    BY <1>3, <2>1, <2>2, <2>3
<1>4. QED
  BY <1>2, <1>3, WeakestIs

\* A bar says of its day what a figure would, of all checks.
LEMMA BarIs ==
  ASSUME UptimeTypeOK, NEW c \in Groups, NEW d \in InWindow
  PROVE  /\ \A s \in Counted(c) : Drawn(d)[s] \in Tally
         /\ Bar(c, d) = "none" <=> ~Measured(Cell(c, d))
         /\ Bar(c, d) = "ok" <=> Measured(Cell(c, d)) /\ Cell(c, d).failed = 0
<1>1. \A s \in Counted(c) : Drawn(d)[s] \in Tally
  BY CountedAre, DrawnIs
<1> DEFINE w == Cell(c, d)
<1>2. w \in Tally
  BY <1>1, FigureIs DEF Cell
<1>3. Bar(c, d) = CASE ~Measured(w) -> "none"
                    [] Measured(w) /\ w.failed = 0 -> "ok"
                    [] w.failed > 0 -> IF Pct(w) < MajorDay THEN "major" ELSE "minor"
  BY DEF Bar
<1> HIDE DEF w
<1>4. /\ w.failed > 0 <=> w.failed # 0
      /\ Measured(w) \/ w.failed = 0
  BY <1>2 DEF Tally, Measured
<1>5. CASE ~Measured(w)
  BY <1>1, <1>3, <1>4, <1>5 DEF w
<1>6. CASE Measured(w) /\ w.failed = 0
  BY <1>1, <1>3, <1>4, <1>6 DEF w
<1>7. CASE Measured(w) /\ w.failed > 0
  <2>1. Bar(c, d) = IF Pct(w) < MajorDay THEN "major" ELSE "minor"
    BY <1>3, <1>4, <1>7
  <2>2. QED
    BY <1>1, <1>4, <1>7, <2>1 DEF w
<1>8. QED
  BY <1>4, <1>5, <1>6, <1>7

\* Of what is listed now and of what is not: the window's sums, and what the
\* figure is made of.
OnlyShown == [s \in Checks |-> IF s \in OnPage THEN Summed[s] ELSE Nothing]

LEMMA ShownAre ==
  ASSUME UptimeTypeOK, NEW s \in Checks
  PROVE  /\ OnlyShown[s] \in Tally
         /\ Measured(OnlyShown[s]) <=> s \in OnPage /\ Measured(Summed[s])
         /\ OnlyShown[s].failed # 0 => s \in OnPage /\ Summed[s].failed # 0
         /\ Measured(OnlyShown[s]) => OnlyShown[s] = Summed[s]
         /\ s \in OnPage => OnlyShown[s] = Summed[s]
<1>1. Nothing \in Tally /\ ~Measured(Nothing) /\ Nothing.failed = 0
  BY Numbers DEF Nothing, Tally, Measured
<1>2. Summed[s] \in Tally
  BY SummedIs
<1>3. OnlyShown[s] = IF s \in OnPage THEN Summed[s] ELSE Nothing
  BY DEF OnlyShown
<1>4. QED
  BY <1>1, <1>2, <1>3

LEMMA FiguresMatch == UptimeTypeOK => BarsMatchFigures
<1> SUFFICES ASSUME UptimeTypeOK, NEW c \in Groups
             PROVE  LET figure == Text(Uptime[c])
                        bars == {Bar(c, d) : d \in ShownDays}
                        daily == {Text(Cell(c, d)) : d \in ShownDays} \ {NoFigure}
                    IN  /\ \A s \in Counted(c) \cap OnPage : Measured(Summed[s]) =>
                             /\ figure \in 0..Text(Summed[s])
                             /\ Summed[s].failed > 0 => figure < Hundred
                        /\ c \notin Leftovers =>
                             /\ figure # NoFigure => ~(bars \subseteq {"none"})
                             /\ RolledUp =>
                                  /\ figure \in 0..(Hundred - 1) => ~(bars \subseteq {"none", "ok"})
                                  /\ figure # NoFigure => figure >= Min(daily)
                                  /\ AllListed(c, Summed) =>
                                       /\ (figure = NoFigure) <=> (bars \subseteq {"none"})
                                       /\ (figure = Hundred) <=>
                                            ("ok" \in bars /\ bars \subseteq {"none", "ok"})
  BY DEF BarsMatchFigures
<1> DEFINE sums == Summed
           shown == OnlyShown
           w == Weakest(c, shown)
           bars == {Bar(c, d) : d \in InWindow}
           daily == {Text(Cell(c, d)) : d \in InWindow} \ {NoFigure}
<1>1. Uptime[c] = w /\ ShownDays = InWindow
  BY WindowIs DEF Uptime, OnlyShown
<1>2. \A s \in Counted(c) :
        /\ sums[s] \in Tally /\ s \in Checks
        /\ Measured(sums[s]) <=> \E d \in InWindow : Measured(days[d][s])
        /\ sums[s].failed = 0 <=> \A d \in InWindow : days[d][s].failed = 0
  BY CountedAre, SummedIs
<1>3. \A s \in Counted(c) :
        /\ shown[s] \in Tally
        /\ Measured(shown[s]) <=> s \in OnPage /\ Measured(sums[s])
        /\ shown[s].failed # 0 => s \in OnPage /\ sums[s].failed # 0
        /\ Measured(shown[s]) => shown[s] = sums[s]
        /\ s \in OnPage => shown[s] = sums[s]
  BY CountedAre, ShownAre
<1> HIDE DEF sums, shown
<1>4. /\ w \in Tally
      /\ Measured(w) <=> \E s \in Counted(c) : Measured(shown[s])
      /\ w.failed = 0 <=> \A s \in Counted(c) : shown[s].failed = 0
      /\ \A s \in Counted(c) : Measured(shown[s]) =>
           Pct(w) <= Pct(shown[s]) /\ Text(w) <= Text(shown[s])
      /\ Measured(w) => \E s \in Counted(c) : Measured(shown[s]) /\ w = shown[s]
  BY <1>3, FigureIs
<1> HIDE DEF w
<1>5. \A d \in InWindow :
        /\ \A s \in Counted(c) : Drawn(d)[s] \in Tally
        /\ Bar(c, d) = "none" <=> ~Measured(Cell(c, d))
        /\ Bar(c, d) = "ok" <=> Measured(Cell(c, d)) /\ Cell(c, d).failed = 0
  BY BarIs
<1>6. \A d \in InWindow :
        /\ Cell(c, d) \in Tally
        /\ Measured(Cell(c, d)) <=> \E s \in Counted(c) : Measured(Drawn(d)[s])
        /\ Cell(c, d).failed = 0 <=> \A s \in Counted(c) : Drawn(d)[s].failed = 0
        /\ \A s \in Counted(c) : Measured(Drawn(d)[s]) =>
             Pct(Cell(c, d)) <= Pct(Drawn(d)[s]) /\ Text(Cell(c, d)) <= Text(Drawn(d)[s])
  BY <1>5, FigureIs DEF Cell
<1>7. \A d \in InWindow, s \in Counted(c) :
        /\ days[d][s] \in Tally
        /\ Measured(days[d][s]) => Measured(Drawn(d)[s])
        /\ RolledUp => Drawn(d)[s] = days[d][s]
  BY CountedAre, DrawnIs
<1>8. /\ ~Measured(w) => Text(w) = NoFigure
      /\ Measured(w) => Text(w) \in 0..Hundred /\ (Text(w) = Hundred <=> w.failed = 0)
  BY <1>4, TextIs
<1>9. NoFigure \notin 0..Hundred /\ NoFigure # Hundred /\ Hundred \in Nat
  BY Numbers DEF NoFigure
<1>10. ASSUME NEW s \in Counted(c), s \in OnPage, Measured(sums[s])
       PROVE  Text(w) \in 0..Text(sums[s]) /\ (sums[s].failed > 0 => Text(w) < Hundred)
  <2>1. Measured(shown[s]) /\ shown[s] = sums[s]
    BY <1>3, <1>10
  <2>2. Text(w) <= Text(sums[s]) /\ Measured(w)
    BY <1>4, <2>1
  <2>3. Text(w) \in 0..Hundred /\ Text(sums[s]) \in 0..Hundred
    BY <1>2, <1>8, <1>10, <2>2, TextIs
  <2>4. ASSUME sums[s].failed > 0 PROVE Text(w) < Hundred
    <3>1. sums[s].failed # 0
      BY <1>2, <2>4 DEF Tally
    <3>2. Text(w) # Hundred
      BY <1>4, <1>8, <2>1, <2>2, <3>1
    <3>3. QED
      BY <1>9, <2>3, <3>2
  <2>5. QED
    BY <1>9, <2>2, <2>3, <2>4
<1>11. Measured(w) => \E d \in InWindow : Measured(Cell(c, d))
  BY <1>2, <1>3, <1>4, <1>6, <1>7
<1>12. Text(w) # NoFigure => ~(bars \subseteq {"none"})
  BY <1>5, <1>8, <1>11
<1>13. bars \subseteq {"none"} <=> \A d \in InWindow : ~Measured(Cell(c, d))
  BY <1>5
<1>14. bars \subseteq {"none", "ok"} <=> \A d \in InWindow : Cell(c, d).failed = 0
  <2>1. \A d \in InWindow : Measured(Cell(c, d)) \/ Cell(c, d).failed = 0
    BY <1>6 DEF Tally, Measured
  <2>2. QED
    BY <1>5, <2>1
<1>15. ASSUME RolledUp, Text(w) \in 0..(Hundred - 1) PROVE ~(bars \subseteq {"none", "ok"})
  <2>1. Measured(w) /\ w.failed # 0
    BY <1>8, <1>9, <1>15
  <2>2. PICK s \in Counted(c) : sums[s].failed # 0
    BY <1>3, <1>4, <2>1
  <2>3. PICK d \in InWindow : Drawn(d)[s].failed # 0
    BY <1>2, <1>7, <1>15, <2>2
  <2>4. Cell(c, d).failed # 0
    BY <1>6, <2>3
  <2>5. QED
    BY <1>14, <2>4
<1>16. ASSUME RolledUp, Text(w) # NoFigure PROVE Text(w) >= Min(daily)
  <2>1. \A d \in InWindow : Text(Cell(c, d)) # NoFigure <=> Measured(Cell(c, d))
    BY <1>6, <1>9, TextIs
  <2>2. \A d \in InWindow : Measured(Cell(c, d)) => Text(Cell(c, d)) \in 0..Hundred
    BY <1>6, TextIs
  <2>3. daily \subseteq Nat
    BY <2>1, <2>2
  <2>4. PICK s \in Counted(c) : Measured(sums[s]) /\ w = sums[s]
    BY <1>3, <1>4, <1>8, <1>16
  <2>5. PICK d \in InWindow : Measured(days[d][s]) /\ Pct(days[d][s]) <= Pct(w)
    BY <1>2, <2>4, WorstDay DEF sums
  <2>6. Text(days[d][s]) <= Text(w)
    BY <1>2, <1>7, <2>4, <2>5, TextGrows
  <2>7. Text(Cell(c, d)) <= Text(days[d][s]) /\ Measured(Cell(c, d))
    BY <1>6, <1>7, <1>16, <2>5
  <2>8. Text(Cell(c, d)) \in daily
    BY <2>1, <2>7
  <2> HIDE DEF daily
  <2>9. Min(daily) \in Nat /\ Min(daily) <= Text(Cell(c, d))
    BY <2>3, <2>8, MinIs
  <2>10. Text(Cell(c, d)) \in Nat /\ Text(days[d][s]) \in Nat /\ Text(w) \in Nat
    <3>1. days[d][s] \in Tally /\ Measured(w)
      BY <1>4, <1>7, <2>4
    <3>2. QED
      BY <1>8, <2>2, <2>5, <2>7, <3>1, TextIs
  <2>11. QED
    BY <2>6, <2>7, <2>9, <2>10
<1>17. ASSUME RolledUp, AllListed(c, sums)
       PROVE  /\ (Text(w) = NoFigure) <=> (bars \subseteq {"none"})
              /\ (Text(w) = Hundred) <=> ("ok" \in bars /\ bars \subseteq {"none", "ok"})
  <2>1. \A s \in Counted(c) : Measured(shown[s]) <=> Measured(sums[s])
    BY <1>3, <1>17 DEF AllListed
  <2>2. \A s \in Counted(c) : shown[s].failed = 0 <=> sums[s].failed = 0
    <3>1. \A s \in Counted(c) : ~Measured(sums[s]) => sums[s].failed = 0
      BY <1>2 DEF Tally, Measured
    <3>2. QED
      BY <1>3, <2>1, <3>1
  <2>3. Measured(w) <=> \E d \in InWindow : Measured(Cell(c, d))
    BY <1>2, <1>4, <1>6, <1>7, <1>17, <2>1
  <2>4. w.failed = 0 <=> \A d \in InWindow : Cell(c, d).failed = 0
    BY <1>2, <1>4, <1>6, <1>7, <1>17, <2>2
  <2>5. Text(w) = NoFigure <=> ~Measured(w)
    BY <1>8, <1>9
  <2>6. Text(w) = Hundred <=> Measured(w) /\ w.failed = 0
    BY <1>8, <1>9
  <2>7. "ok" \in bars <=> \E d \in InWindow : Measured(Cell(c, d)) /\ Cell(c, d).failed = 0
    BY <1>5
  <2>8. QED
    BY <1>13, <1>14, <2>3, <2>4, <2>5, <2>6, <2>7
<1> HIDE DEF bars, daily
<1>18. /\ \A s \in Counted(c) \cap OnPage : Measured(sums[s]) =>
            /\ Text(w) \in 0..Text(sums[s])
            /\ sums[s].failed > 0 => Text(w) < Hundred
       /\ Text(w) # NoFigure => ~(bars \subseteq {"none"})
       /\ RolledUp =>
            /\ Text(w) \in 0..(Hundred - 1) => ~(bars \subseteq {"none", "ok"})
            /\ Text(w) # NoFigure => Text(w) >= Min(daily)
            /\ AllListed(c, sums) =>
                 /\ (Text(w) = NoFigure) <=> (bars \subseteq {"none"})
                 /\ (Text(w) = Hundred) <=> ("ok" \in bars /\ bars \subseteq {"none", "ok"})
  BY <1>10, <1>12, <1>15, <1>16, <1>17
<1>19. QED
  BY <1>1, <1>18 DEF sums, bars, daily

LEMMA UptimeInvariance == UptimeSpec => []UptimeTypeOK
<1>1. Blank \in [Checks -> Counts] /\ MaxDays \in Nat \ {0}
  BY UptimeAssumption DEF Blank, Counts
<1>2. UptimeInit => UptimeTypeOK
  BY <1>1 DEF UptimeInit, UptimeTypeOK
<1>3. UptimeTypeOK /\ [UptimeNext]_uptimeVars => UptimeTypeOK'
  <2> SUFFICES ASSUME UptimeTypeOK, [UptimeNext]_uptimeVars PROVE UptimeTypeOK'
    OBVIOUS
  <2>1. /\ days \in Seq([Checks -> Counts]) /\ Len(days) \in 1..MaxDays
        /\ live \in [Checks -> Counts] /\ recent \subseteq Checks \ AlwaysListed
    BY DEF UptimeTypeOK
  <2>2. DayRows \subseteq [Checks -> Counts]
    BY UptimeAssumption DEF Counts
  <2>3. ASSUME NEW row \in [Checks -> Counts]
        PROVE  LET rolled == [days EXCEPT ![Len(days)] = row] IN
               rolled \in Seq([Checks -> Counts]) /\ Len(rolled) = Len(days)
    BY <1>1, <2>1
  <2>4. Today \in [Checks -> Counts]
    <3>1. Len(days) \in 1..Len(days)
      BY <1>1, <2>1
    <3>2. days[Len(days)] \in [Checks -> Counts]
      BY <2>1, <3>1
    <3>3. QED
      BY <2>1, <3>2 DEF Today
  <2>5. ASSUME NEW row \in DayRows, StoreChecks(row) PROVE UptimeTypeOK'
    BY <2>1, <2>2, <2>5 DEF StoreChecks, UptimeTypeOK
  <2>6. ASSUME NEW row \in DayRows, Correct(row) PROVE UptimeTypeOK'
    BY <2>1, <2>2, <2>3, <2>6 DEF Correct, UptimeTypeOK
  <2>7. ASSUME NEW s \in Checks \ AlwaysListed, NoVerdict(s) \/ FallSilent(s) PROVE UptimeTypeOK'
    BY <2>1, <2>7 DEF NoVerdict, FallSilent, UptimeTypeOK
  <2>8. CASE RollUpToday
    BY <2>1, <2>3, <2>4, <2>8 DEF RollUpToday, UptimeTypeOK
  <2>9. CASE Midnight
    BY <1>1, <2>1, <2>9 DEF Midnight, UptimeTypeOK
  <2>10. CASE UNCHANGED uptimeVars
    BY <2>1, <2>10 DEF UptimeTypeOK, uptimeVars
  <2>11. QED
    BY <2>5, <2>6, <2>7, <2>8, <2>9, <2>10 DEF UptimeNext
<1>4. QED
  BY <1>2, <1>3, PTL DEF UptimeSpec

\* The daily rows keep their type: no more failures than checks, and few enough
\* of both for a window of them (daily_uptime, db.py:45-52).
THEOREM UptimeTypes == UptimeSpec => []UptimeTypeOK
  BY UptimeInvariance

\* What a component's figure and the bars under it say of each other, whatever
\* its checks met, were corrected to or left unreported on whatever days: never
\* better than a listed check, and over bars that were measured; with today
\* rolled up, downtime in the figure shows in a bar and no figure is below the
\* worst day; with no check gone from the list, 100% just where no bar shows
\* downtime (aggregator.py:379-392 and 438-464, snapshot.py:67-75).
THEOREM Matched == UptimeSpec => []BarsMatchFigures
<1>1. UptimeTypeOK => BarsMatchFigures
  BY FiguresMatch
<1>2. QED
  BY <1>1, UptimeInvariance, PTL

-----------------------------------------------------------------------------
(* The page.                                                               *)

\* The page does nothing that one of its parts does not, so that what holds of
\* each of them holds of the page.
THEOREM PageIsItsParts == PageSpec => HeadlineSpec /\ EventsSpec /\ UptimeSpec
<1>1. PageInit => HeadlineInit /\ EventsInit /\ UptimeInit
  BY DEF PageInit
<1>2. [PageNext]_pageVars => [HeadlineNext]_headlineVars
  BY DEF PageNext, pageVars
<1>3. [PageNext]_pageVars => [EventsNext]_eventsVars
  BY DEF PageNext, pageVars
<1>4. [PageNext]_pageVars => [UptimeNext]_uptimeVars
  BY DEF PageNext, pageVars
<1>5. QED
  BY <1>1, <1>2, <1>3, <1>4, PTL DEF PageSpec, HeadlineSpec, EventsSpec, UptimeSpec

\* No age, counter, explanation or figure on the page outgrows what the code can
\* store, and no figure has more failures than checks.
THEOREM PageTypes == PageSpec => []PageTypeOK
<1>1. HeadlineTypeOK /\ EventsTypeOK /\ UptimeTypeOK => PageTypeOK
  BY DEF PageTypeOK
<1>2. QED
  BY <1>1, PageIsItsParts, HeadlineTypes, EventsTypes, UptimeTypes, PTL
=============================================================================
