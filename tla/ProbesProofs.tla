----------------------------- MODULE ProbesProofs -----------------------------
(***************************************************************************)
(* What holds of the two checks that decide for the whole platform.        *)
(*                                                                         *)
(* SiteVerdict, for any number of places, attempts and cycles, any clocks  *)
(* and any delays: an outage the places vote for was really seen by most   *)
(* of them, one that half of them did not see is not hidden, and a         *)
(* connection of ours that is out makes none.                              *)
(*                                                                         *)
(* LiveTest, for any webhooks, timeouts, intervals and number of messages: *)
(* its types, that silence is an outage only where the bot has answered    *)
(* before, and that no result lapses while the process runs.               *)
(***************************************************************************)
EXTENDS SiteVerdict, LiveTest, FiniteSetTheorems, TLAPS

\* A report held was made by that place, not long before it was received, and
\* was received over a connection that worked.
HeldInv ==
  \A v \in Vantages : held[v] # NoReport =>
    /\ held[v].at <= now /\ world[held[v].at].line
    /\ \E t \in 0..held[v].at : /\ held[v].at - t <= ReplayWindow + Skew
                                /\ Sees(v, t) = held[v].status

\* What our own check saw is what there was to see.
OwnInv ==
  /\ own # "none" => Sees(Home, checked) = own
  /\ pc \in {"vote", "control"} => own # "none"
  /\ pc \in {"idle", "retry"} => own = "none"
  /\ pc = "control" => own = "down" /\ others = {}
  /\ pc # "decided" => verdict = "none"
  /\ pc = "retry" => tries < Attempts

IInv == HeldInv /\ OwnInv /\ OutageIsReal /\ OutageIsSeen

USE SiteAssumption

-----------------------------------------------------------------------------
(* Type correctness.                                                       *)

LEMMA TypeInit == Init => TypeOK
  BY DEF Init, TypeOK, NoReport

LEMMA SeesTypes == \A p, t : Sees(p, t) \in {"up", "down"}
  BY DEF Sees

LEMMA AttemptTypes ==
  ASSUME TypeOK, NEW n \in 1..Attempts, Attempt(n)
  PROVE  TypeOK'
  BY DEF Attempt, TypeOK

\* The times of the world grow by one.
LEMMA TickWorld ==
  ASSUME TypeOK, Tick
  PROVE  /\ now' = now + 1 /\ world' \in [0..now' -> Worlds]
         /\ \A t \in 0..now : world'[t] = world[t]
<1>1. now \in Nat /\ world \in [0..now -> Worlds]
  BY DEF TypeOK
<1>2. PICK w \in Worlds : world' = [t \in 0..(now + 1) |-> IF t = now + 1 THEN w ELSE world[t]]
  BY DEF Tick
<1>3. QED
  BY <1>1, <1>2 DEF Tick

LEMMA TypeNext == TypeOK /\ OwnInv /\ [Next]_vars => TypeOK'
<1> SUFFICES ASSUME TypeOK, OwnInv, [Next]_vars PROVE TypeOK'
  OBVIOUS
<1>1. ASSUME NEW v \in Vantages, NEW made \in 0..now, NEW skew \in (-Skew)..Skew,
             Receive(v, made, skew)
      PROVE  TypeOK'
  <2>1. [status |-> Sees(v, made), ts |-> made + skew, at |-> now] \in HeldReports
    BY SeesTypes DEF HeldReports, TypeOK
  <2>2. held' \in [Vantages -> HeldReports \cup {NoReport}]
    BY <1>1, <2>1 DEF Receive, TypeOK
  <2>3. QED
    BY <1>1, <2>2 DEF Receive, TypeOK
<1>2. CASE StartCycle
  BY <1>2, AttemptTypes DEF StartCycle
<1>3. CASE Retry
  <2>1. tries + 1 \in 1..Attempts
    BY <1>3 DEF Retry, OwnInv, TypeOK
  <2>2. QED
    BY <1>3, <2>1, AttemptTypes DEF Retry
<1>4. CASE Vote
  BY <1>4 DEF Vote, FreshReports, TypeOK
<1>5. CASE AskControls
  BY <1>5 DEF AskControls, TypeOK
<1>6. CASE FinishCycle
  BY <1>6 DEF FinishCycle, Forget, TypeOK
<1>7. CASE Crash
  BY <1>7 DEF Crash, Forget, TypeOK
<1>8. CASE Tick
  BY <1>8, TickWorld DEF Tick, TypeOK
<1>9. CASE UNCHANGED vars
  BY <1>9 DEF vars, TypeOK
<1>10. QED
  BY <1>1, <1>2, <1>3, <1>4, <1>5, <1>6, <1>7, <1>8, <1>9 DEF Next

-----------------------------------------------------------------------------
(* Counting the votes.                                                     *)

\* The places that failed, and ours if it did, are no more than the voters
\* among which they all are.
LEMMA Counted ==
  ASSUME NEW F, IsFiniteSet(F), NEW h, h \notin F, NEW D \in SUBSET F,
         NEW V \in SUBSET (F \cup {h}), D \subseteq V, NEW mine \in {0, 1}, mine = 1 => h \in V
  PROVE  /\ Cardinality(D) + mine <= Cardinality(V)
         /\ Cardinality(D) \in Nat /\ Cardinality(V) \in Nat
<1>1. IsFiniteSet(F \cup {h}) /\ IsFiniteSet(D)
  BY FS_AddElement, FS_Subset
<1>2. IsFiniteSet(V)
  BY <1>1, FS_Subset
<1>3. Cardinality(D) \in Nat /\ Cardinality(V) \in Nat
  BY <1>1, <1>2, FS_CardinalityType
<1>4. CASE mine = 0
  BY <1>2, <1>3, <1>4, FS_Subset
<1>5. CASE mine = 1
  <2>1. D \cup {h} \in SUBSET V
    BY <1>5
  <2>2. Cardinality(D \cup {h}) = Cardinality(D) + 1
    BY <1>1, FS_AddElement
  <2>3. Cardinality(D \cup {h}) <= Cardinality(V)
    BY <1>2, <2>1, FS_Subset
  <2>4. QED
    BY <1>3, <1>5, <2>2, <2>3
<1>6. QED
  BY <1>3, <1>4, <1>5

\* A report that is fresh is about a check that is at most VoteAge old.
LEMMA FreshSaw ==
  ASSUME TypeOK, HeldInv, NEW v \in FreshReports
  PROVE  /\ v \in Vantages /\ held[v].status \in {"up", "down"}
         /\ \E t \in 0..now : now - t <= VoteAge /\ Sees(v, t) = held[v].status
<1>1. v \in Vantages /\ held[v] # NoReport /\ now - held[v].at <= Fresh
  BY DEF FreshReports
<1>2. held[v] \in HeldReports /\ now \in Nat
  BY <1>1 DEF TypeOK
<1>3. PICK t \in 0..held[v].at : /\ held[v].at - t <= ReplayWindow + Skew
                                 /\ Sees(v, t) = held[v].status
  BY <1>1 DEF HeldInv
<1>4. held[v].at <= now
  BY <1>1 DEF HeldInv
<1>5. t \in 0..now /\ now - t <= VoteAge
  BY <1>1, <1>2, <1>3, <1>4 DEF HeldReports, VoteAge
<1>6. QED
  BY <1>1, <1>2, <1>3, <1>5 DEF HeldReports

\* The vote is right about what the places saw.
LEMMA VoteIsRight ==
  ASSUME TypeOK, HeldInv, OwnInv, Vote
  PROVE  OutageIsReal' /\ OutageIsSeen'
<1> DEFINE F == FreshReports
<1> DEFINE D == Failed(F)
<1> DEFINE mine == IF own = "down" THEN 1 ELSE 0
<1> DEFINE theirs == IF own = "down" THEN 0 ELSE 1
<1> DEFINE SeenBy(what) ==
      {p \in F \cup {Home} : IF p = Home THEN Sees(p, checked) = what
                             ELSE \E t \in 0..now : now - t <= VoteAge /\ Sees(p, t) = what}
<1>1. /\ others' = F /\ voted' = now /\ checked' = checked /\ world' = world /\ held' = held
      /\ own' = own /\ own \in {"up", "down"} /\ Sees(Home, checked) = own
  BY DEF Vote, OwnInv, TypeOK
<1>2. Voters("down")' = SeenBy("down") /\ Voters("up")' = SeenBy("up")
  BY <1>1 DEF Voters, Saw, Sees
<1>3. F \subseteq Vantages /\ IsFiniteSet(F) /\ Home \notin F /\ D \in SUBSET F
  BY FS_Subset DEF FreshReports, Failed
<1>4. D \subseteq SeenBy("down") /\ (mine = 1 => Home \in SeenBy("down"))
  BY <1>1, <1>3, FreshSaw DEF Failed
<1>5. F \ D \subseteq SeenBy("up") /\ (theirs = 1 => Home \in SeenBy("up"))
  BY <1>1, <1>3, FreshSaw DEF Failed
<1>6. SeenBy("down") \in SUBSET (F \cup {Home}) /\ SeenBy("up") \in SUBSET (F \cup {Home})
      /\ mine \in {0, 1} /\ theirs \in {0, 1} /\ mine + theirs = 1
  OBVIOUS
<1>7. /\ Cardinality(F) \in Nat /\ Cardinality(D) \in Nat
      /\ Cardinality(F \ D) = Cardinality(F) - Cardinality(D)
  <2>1. F \cap D = D /\ IsFiniteSet(D)
    BY <1>3, FS_Subset
  <2>2. QED
    BY <1>3, <2>1, FS_Difference, FS_CardinalityType
<1>8. MostFailed(F) <=> 2 * (Cardinality(D) + mine) > Cardinality(F) + 1
  BY DEF MostFailed
<1> HIDE DEF F, D, mine, theirs, SeenBy
<1>9. Cardinality(D) + mine <= Cardinality(SeenBy("down")) /\ Cardinality(SeenBy("down")) \in Nat
  BY <1>3, <1>4, <1>6, Counted
<1>10. Cardinality(F \ D) + theirs <= Cardinality(SeenBy("up")) /\ Cardinality(SeenBy("up")) \in Nat
  <2>1. F \ D \in SUBSET F
    OBVIOUS
  <2>2. QED
    BY <1>3, <1>5, <1>6, <2>1, Counted
<1>11. OutageIsReal'
  <2> SUFFICES ASSUME verdict' = "down", F # {}
               PROVE  2 * Cardinality(SeenBy("down")) > Cardinality(F) + 1
    BY <1>1, <1>2 DEF OutageIsReal
  <2>1. MostFailed(F)
    BY DEF Vote, F
  <2>2. QED
    BY <1>6, <1>7, <1>8, <1>9, <2>1
<1>12. OutageIsSeen'
  <2> SUFFICES ASSUME verdict' = "up", pc' = "decided"
               PROVE  2 * Cardinality(SeenBy("up")) >= Cardinality(F) + 1
    BY <1>1, <1>2 DEF OutageIsSeen
  <2>1. CASE F # {}
    <3>1. ~MostFailed(F)
      BY <2>1 DEF Vote, F
    <3>2. QED
      BY <1>6, <1>7, <1>8, <1>10, <3>1
  <2>2. CASE F = {}
    <3>1. own = "up"
      BY <2>2 DEF Vote, F
    <3>2. theirs = 1 /\ Cardinality(F) = 0 /\ Cardinality(F \ D) \in Nat
      BY <1>7, <2>2, <3>1, FS_EmptySet, FS_CardinalityType DEF theirs
    <3>3. QED
      BY <1>10, <3>2
  <2>3. QED
    BY <2>1, <2>2
<1>13. QED
  BY <1>11, <1>12

-----------------------------------------------------------------------------
(* The steps.                                                              *)

LEMMA InvInit == Init => IInv
  BY DEF Init, IInv, HeldInv, OwnInv, OutageIsReal, OutageIsSeen

\* As long as neither the verdict nor what it rests on changes, it stays right.
LEMMA SameVerdict ==
  ASSUME OutageIsReal, OutageIsSeen, UNCHANGED <<world, checked, others, voted, verdict>>,
         pc' = "decided" => pc = "decided"
  PROVE  OutageIsReal' /\ OutageIsSeen'
<1>1. Voters("down")' = Voters("down") /\ Voters("up")' = Voters("up")
  BY DEF Voters, Saw, Sees
<1>2. QED
  BY <1>1 DEF OutageIsReal, OutageIsSeen

\* While there is no verdict there is nothing to be wrong about.
LEMMA NoVerdict ==
  ASSUME verdict' = "none"
  PROVE  OutageIsReal' /\ OutageIsSeen'
  BY DEF OutageIsReal, OutageIsSeen

LEMMA SameHeld ==
  ASSUME HeldInv, UNCHANGED <<now, world, held>>
  PROVE  HeldInv'
  BY DEF HeldInv, Sees

LEMMA AttemptInv ==
  ASSUME TypeOK, HeldInv, NEW n \in 1..Attempts, Attempt(n), own = "none", verdict = "none"
  PROVE  IInv'
<1>1. HeldInv'
  BY SameHeld DEF Attempt
<1>2. OwnInv'
  BY DEF OwnInv, Attempt, Sees, TypeOK
<1>3. OutageIsReal' /\ OutageIsSeen'
  BY NoVerdict DEF Attempt
<1>4. QED
  BY <1>1, <1>2, <1>3 DEF IInv

LEMMA ReceiveInv ==
  ASSUME TypeOK, IInv, NEW v \in Vantages, NEW made \in 0..now, NEW skew \in (-Skew)..Skew,
         Receive(v, made, skew)
  PROVE  IInv'
<1>1. now' = now /\ world' = world /\ now \in Nat /\ made \in Int /\ skew \in Int
  BY DEF Receive, TypeOK
<1>2. HeldInv'
  <2> SUFFICES ASSUME NEW u \in Vantages, held'[u] # NoReport
               PROVE  /\ held'[u].at <= now /\ world[held'[u].at].line
                      /\ \E t \in 0..held'[u].at : /\ held'[u].at - t <= ReplayWindow + Skew
                                                   /\ Sees(u, t) = held'[u].status
    BY <1>1 DEF HeldInv, Sees
  <2>1. CASE u = v
    <3>1. held'[u] = [status |-> Sees(v, made), ts |-> made + skew, at |-> now]
      BY <2>1 DEF Receive, TypeOK
    <3>2. world[now].line /\ now - made <= ReplayWindow + Skew
      BY <1>1 DEF Receive, InWindow
    <3>3. QED
      BY <1>1, <2>1, <3>1, <3>2
  <2>2. CASE u # v
    <3>1. held'[u] = held[u]
      BY <2>2 DEF Receive, TypeOK
    <3>2. QED
      BY <3>1 DEF IInv, HeldInv
  <2>3. QED
    BY <2>1, <2>2
<1>3. OwnInv'
  BY DEF OwnInv, IInv, Receive, Sees
<1>4. OutageIsReal' /\ OutageIsSeen'
  BY SameVerdict DEF IInv, Receive
<1>5. QED
  BY <1>2, <1>3, <1>4 DEF IInv

\* The past stays what it was.
LEMMA TickInv ==
  ASSUME TypeOK, IInv, Tick
  PROVE  IInv'
<1>1. /\ now' = now + 1 /\ now \in Nat /\ \A t \in 0..now : world'[t] = world[t]
      /\ UNCHANGED <<held, pc, tries, own, checked, others, voted, verdict, cycles>>
      /\ checked \in 0..now /\ voted \in 0..now
  BY TickWorld DEF Tick, TypeOK
<1>2. ASSUME NEW p PROVE \A t \in 0..now : Sees(p, t)' = Sees(p, t)
  BY <1>1 DEF Sees
<1>3. HeldInv'
  <2> SUFFICES ASSUME NEW v \in Vantages, held[v] # NoReport
               PROVE  /\ held[v].at <= now + 1 /\ world'[held[v].at].line
                      /\ \E t \in 0..held[v].at : /\ held[v].at - t <= ReplayWindow + Skew
                                                  /\ Sees(v, t)' = held[v].status
    BY <1>1 DEF HeldInv, Sees
  <2>1. held[v].at \in 0..now
    BY <1>1 DEF TypeOK, HeldReports, IInv, HeldInv
  <2>2. PICK t \in 0..held[v].at : /\ held[v].at - t <= ReplayWindow + Skew
                                   /\ Sees(v, t) = held[v].status
    BY DEF IInv, HeldInv
  <2>3. t \in 0..now
    BY <1>1, <2>1
  <2>4. Sees(v, t)' = held[v].status
    BY <1>2, <2>2, <2>3
  <2>5. world'[held[v].at].line /\ held[v].at <= now + 1
    BY <1>1, <2>1 DEF IInv, HeldInv
  <2>6. QED
    BY <2>2, <2>4, <2>5
<1>4. OwnInv'
  <2>1. Sees(Home, checked)' = Sees(Home, checked)
    BY <1>1 DEF Sees
  <2>2. QED
    BY <1>1, <2>1 DEF OwnInv, IInv
<1>5. OutageIsReal' /\ OutageIsSeen'
  <2>1. ASSUME NEW p, NEW what PROVE Saw(p, what)' <=> Saw(p, what)
    <3>1. CASE p = Home
      BY <1>1, <3>1 DEF Saw, Sees
    <3>2. CASE p # Home
      <4>1. \A t \in 0..voted : t \in 0..now
        BY <1>1
      <4>2. \A t \in 0..voted : Sees(p, t)' = Sees(p, t)
        BY <1>2, <4>1
      <4>3. QED
        BY <1>1, <3>2, <4>2 DEF Saw
    <3>3. QED
      BY <3>1, <3>2
  <2>2. Voters("down")' = Voters("down") /\ Voters("up")' = Voters("up")
    BY <1>1, <2>1 DEF Voters
  <2>3. QED
    BY <1>1, <2>2 DEF OutageIsReal, OutageIsSeen, IInv
<1>6. QED
  BY <1>3, <1>4, <1>5 DEF IInv

LEMMA InvNext == TypeOK /\ IInv /\ [Next]_vars => IInv'
<1> SUFFICES ASSUME TypeOK, IInv, [Next]_vars PROVE IInv'
  OBVIOUS
<1>1. CASE \E v \in Vantages, made \in 0..now, skew \in (-Skew)..Skew : Receive(v, made, skew)
  BY <1>1, ReceiveInv
<1>2. CASE StartCycle
  BY <1>2, AttemptInv DEF StartCycle, IInv, OwnInv
<1>3. CASE Retry
  <2>1. tries + 1 \in 1..Attempts
    BY <1>3 DEF Retry, IInv, OwnInv, TypeOK
  <2>2. QED
    BY <1>3, <2>1, AttemptInv DEF Retry, IInv, OwnInv
<1>4. CASE Vote
  <2>1. HeldInv'
    BY <1>4, SameHeld DEF Vote, IInv
  <2>2. OwnInv'
    BY <1>4 DEF Vote, IInv, OwnInv, Sees
  <2>3. QED
    BY <1>4, <2>1, <2>2, VoteIsRight DEF IInv
<1>5. CASE AskControls
  <2>1. HeldInv'
    BY <1>5, SameHeld DEF AskControls, IInv
  <2>2. OwnInv'
    BY <1>5 DEF AskControls, IInv, OwnInv, Sees
  <2>3. OutageIsReal' /\ OutageIsSeen'
    BY <1>5 DEF AskControls, IInv, OwnInv, OutageIsReal, OutageIsSeen
  <2>4. QED
    BY <2>1, <2>2, <2>3 DEF IInv
<1>6. CASE FinishCycle \/ Crash
  <2>1. HeldInv'
    BY <1>6, SameHeld DEF FinishCycle, Crash, IInv
  <2>2. OwnInv'
    BY <1>6 DEF FinishCycle, Crash, Forget, OwnInv, TypeOK
  <2>3. OutageIsReal' /\ OutageIsSeen'
    BY <1>6, NoVerdict DEF FinishCycle, Crash, Forget
  <2>4. QED
    BY <2>1, <2>2, <2>3 DEF IInv
<1>7. CASE Tick
  BY <1>7, TickInv
<1>8. CASE UNCHANGED vars
  <2>1. HeldInv'
    BY <1>8, SameHeld DEF vars, IInv
  <2>2. OwnInv'
    BY <1>8 DEF vars, IInv, OwnInv, Sees
  <2>3. OutageIsReal' /\ OutageIsSeen'
    BY <1>8, SameVerdict DEF vars, IInv
  <2>4. QED
    BY <2>1, <2>2, <2>3 DEF IInv
<1>9. QED
  BY <1>1, <1>2, <1>3, <1>4, <1>5, <1>6, <1>7, <1>8 DEF Next

LEMMA Invariance == Spec => [](TypeOK /\ IInv)
<1>1. Init => TypeOK /\ IInv
  BY TypeInit, InvInit
<1>2. TypeOK /\ IInv /\ [Next]_vars => TypeOK' /\ IInv'
  BY TypeNext, InvNext DEF IInv
<1>3. QED
  BY <1>1, <1>2, PTL DEF Spec

-----------------------------------------------------------------------------
(* The theorems.                                                           *)

\* Every variable keeps its type; of the probe that it never makes more
\* attempts than PROBE_ATTEMPTS.
THEOREM TypeCorrect == Spec => []TypeOK
  BY Invariance, PTL

\* An outage the other places vote for was really seen by most of the places.
THEOREM Real == Spec => []OutageIsReal
<1>1. TypeOK /\ IInv => OutageIsReal
  BY DEF IInv
<1>2. QED
  BY <1>1, Invariance, PTL

\* The site is called up only if at least half of the places really reached it.
THEOREM NotHidden == Spec => []OutageIsSeen
<1>1. TypeOK /\ IInv => OutageIsSeen
  BY DEF IInv
<1>2. QED
  BY <1>1, Invariance, PTL

\* With control endpoints, no outage is recorded unless our own connection
\* worked at some time not longer ago than a report stays fresh.
THEOREM OwnFault == Spec => OwnFaultIsNoOutage
<1> DEFINE Worked == \E t \in 0..now : now - t <= Fresh /\ world[t].line
<1>1. ASSUME TypeOK, IInv, [Next]_vars, Controls, verdict' = "down", verdict # "down"
      PROVE  Worked
  <2>1. now \in Nat /\ Fresh \in Nat
    BY <1>1 DEF TypeOK
  <2>2. CASE Vote
    <3>1. PICK v \in FreshReports : TRUE
      BY <1>1, <2>2 DEF Vote, IInv, OwnInv
    <3>2. v \in Vantages /\ held[v] # NoReport /\ now - held[v].at <= Fresh
      BY <3>1 DEF FreshReports
    <3>3. held[v].at \in Nat
      BY <1>1, <3>2 DEF TypeOK, HeldReports
    <3>4. held[v].at <= now /\ world[held[v].at].line
      BY <1>1, <3>2 DEF IInv, HeldInv
    <3>5. QED
      BY <2>1, <3>2, <3>3, <3>4
  <2>3. CASE AskControls
    <3>1. world[now].line
      BY <1>1, <2>3 DEF AskControls
    <3>2. QED
      BY <2>1, <3>1
  <2>4. Vote \/ AskControls
    BY <1>1 DEF Next, vars, Receive, StartCycle, Retry, Attempt, FinishCycle, Crash, Forget, Tick
  <2>5. QED
    BY <2>2, <2>3, <2>4
<1>2. TypeOK /\ IInv /\ [Next]_vars =>
        [Controls /\ verdict' = "down" /\ verdict # "down" => Worked]_vars
  BY <1>1
<1>3. QED
  BY <1>2, Invariance, PTL DEF Spec, OwnFaultIsNoOutage

-----------------------------------------------------------------------------
(* The live test.  Its numbers and their assumption, TimeoutsFit.          *)

HIDE SiteAssumption

\* The longest that a message, and n of them, can take.
Message == PostTimeout + Deadline + ReadTimeout + DeleteTimeout
Cost(n) == n * Message

\* A run that goes on has room for another outcome; no phase has lasted longer
\* than its timeout.
InTime ==
  /\ waiting => phase = "reading"
  /\ phase \in {"posting", "reading"} => Len(outcomes) < Messages
  /\ phase = "deleting" => Len(outcomes) > 0
  /\ phase = "resting" => timer = 0
  /\ phase = "posting" => timer <= PostTimeout
  /\ phase = "reading" => timer <= Deadline + ReadTimeout
  /\ phase = "deleting" => timer <= DeleteTimeout

\* The note of the last answer is about a webhook that did answer.
NoteIsTrue == answered \in proven \cup {None}

\* How old the last result is at most, by how far the present run has come.
AgeBound ==
  /\ phase = "resting" => latest.age <= elapsed
  /\ phase = "posting" => latest.age <= Interval + Cost(Len(outcomes)) + timer
  /\ phase = "reading" =>
       latest.age <= Interval + Cost(Len(outcomes)) + PostTimeout + timer
  /\ phase = "deleting" =>
       latest.age <= Interval + Cost(Len(outcomes) - 1)
                       + PostTimeout + Deadline + ReadTimeout + timer

AgeInv == finished => AgeBound

LiveInv == LiveTypeOK /\ InTime /\ NoteIsTrue /\ AgeInv

-----------------------------------------------------------------------------
(* Numbers.                                                                *)

LEMMA Timeouts ==
  ASSUME TimeoutsFit
  PROVE
  /\ None \notin Webhooks
  /\ Messages \in Nat /\ Messages > 0
  /\ Interval \in Nat /\ Deadline \in Nat /\ SlowAfter \in Nat
  /\ PostTimeout \in Nat /\ ReadTimeout \in Nat /\ DeleteTimeout \in Nat
  /\ Allowance \in Nat /\ Slack \in Nat
  BY DEF TimeoutsFit

LEMMA Numbers ==
  ASSUME TimeoutsFit
  PROVE
  /\ Message \in Nat /\ LiveTestFresh \in Nat
  /\ \A n \in Nat : Cost(n) \in Nat
<1>1. Message \in Nat
  BY Timeouts DEF Message
<1>2. LiveTestFresh \in Nat
  BY Timeouts DEF LiveTestFresh
<1>3. \A n \in Nat : Cost(n) \in Nat
  BY <1>1 DEF Cost
<1> QED BY <1>1, <1>2, <1>3

\* The messages of a run and the wait before it fit into what
\* _live_test_fresh_seconds allows.
LEMMA RunFits == ASSUME TimeoutsFit PROVE Interval + Cost(Messages) <= LiveTestFresh
<1> DEFINE rest == PostTimeout + ReadTimeout + DeleteTimeout
<1>1. Messages * (Deadline + rest) = Messages * Deadline + Messages * rest
  BY Timeouts
<1>2. Messages * (Deadline + Allowance) = Messages * Deadline + Messages * Allowance
  BY Timeouts
<1>3. Message = Deadline + rest
  BY Timeouts DEF Message
<1>4. Messages * rest <= Messages * Allowance + Slack
  BY DEF TimeoutsFit
<1>5. Cost(Messages) = Messages * Deadline + Messages * rest
  BY <1>1, <1>3 DEF Cost
<1>6. /\ Messages * Deadline \in Nat /\ Messages * rest \in Nat
      /\ Messages * Allowance \in Nat
  BY Timeouts
<1>7. LiveTestFresh = Interval + (Messages * Deadline + Messages * Allowance) + Slack
  BY <1>2 DEF LiveTestFresh
<1> HIDE DEF rest
<1> QED BY <1>4, <1>5, <1>6, <1>7, Timeouts

\* A message more takes no run past its end.
LEMMA MessagesFit ==
  ASSUME TimeoutsFit, NEW n \in Nat, n < Messages
  PROVE  Cost(n + 1) = Cost(n) + Message /\ Cost(n) + Message <= Cost(Messages)
<1> Message \in Nat
  BY Numbers
<1>1. n + 1 <= Messages
  BY Timeouts
<1>2. (n + 1) * Message <= Messages * Message
  BY <1>1, Timeouts
<1>3. (n + 1) * Message = n * Message + Message
  OBVIOUS
<1> QED BY <1>2, <1>3 DEF Cost

LEMMA Ranges ==
  ASSUME TimeoutsFit, LiveTypeOK
  PROVE  /\ Len(outcomes) \in Nat /\ Len(outcomes) <= Messages
         /\ timer \in Nat /\ elapsed \in Nat /\ elapsed <= Interval
         /\ latest.age \in Nat /\ asked \in Int /\ asked <= Deadline
<1>1. timer \in Nat /\ elapsed \in Nat /\ elapsed <= Interval
  BY Timeouts DEF LiveTypeOK
<1>2. asked \in Int /\ asked <= Deadline
  BY Timeouts DEF LiveTypeOK
<1>3. Len(outcomes) \in Nat /\ Len(outcomes) <= Messages
  BY DEF LiveTypeOK
<1>4. latest.age \in Nat
  <2>1. CASE latest = NoResult
    BY <2>1 DEF NoResult
  <2>2. CASE latest \in [status : Statuses, age : 0..(LiveTestFresh + 1), via : Webhooks]
    <3>1. latest.age \in 0..(LiveTestFresh + 1)
      BY <2>2
    <3> QED BY <3>1, Numbers
  <2> QED BY <2>1, <2>2 DEF LiveTypeOK
<1> QED BY <1>1, <1>2, <1>3, <1>4

\* The bound never passes what _live_test_fresh_seconds allows.
LEMMA BoundFits ==
  ASSUME TimeoutsFit, LiveTypeOK, InTime, AgeBound
  PROVE  latest.age <= LiveTestFresh
<1> DEFINE n == Len(outcomes)
<1>1. /\ n \in Nat /\ timer \in Nat /\ elapsed \in Nat /\ elapsed <= Interval
      /\ latest.age \in Nat
  BY Ranges
<1>2. Cost(Messages) \in Nat /\ LiveTestFresh \in Nat /\ Cost(n) \in Nat /\ Message \in Nat
  BY <1>1, Numbers, Timeouts
<1>3. CASE phase = "resting"
  BY <1>1, <1>2, <1>3, RunFits, Timeouts DEF AgeBound
<1>4. CASE phase = "posting"
  <2>1. Cost(n) + Message <= Cost(Messages)
    BY <1>1, <1>4, MessagesFit DEF InTime
  <2>2. timer <= Message
    BY <1>1, <1>4, Timeouts DEF InTime, Message
  <2>3. latest.age <= Interval + Cost(n) + timer
    BY <1>4 DEF AgeBound
  <2> HIDE DEF n
  <2> QED BY <1>1, <1>2, <2>1, <2>2, <2>3, RunFits, Timeouts
<1>5. CASE phase = "reading"
  <2>1. Cost(n) + Message <= Cost(Messages)
    BY <1>1, <1>5, MessagesFit DEF InTime
  <2>2. PostTimeout + timer <= Message
    BY <1>1, <1>5, Timeouts DEF InTime, Message
  <2>3. latest.age <= Interval + Cost(n) + PostTimeout + timer
    BY <1>5 DEF AgeBound
  <2> HIDE DEF n
  <2> QED BY <1>1, <1>2, <2>1, <2>2, <2>3, RunFits, Timeouts
<1>6. CASE phase = "deleting"
  <2>1. n - 1 \in Nat /\ n - 1 < Messages
    BY <1>1, <1>6, Ranges, Timeouts DEF InTime
  <2>2. Cost(n - 1) + Message <= Cost(Messages) /\ Cost(n - 1) \in Nat
    BY <2>1, MessagesFit, Numbers
  <2>3. PostTimeout + Deadline + ReadTimeout + timer <= Message
    BY <1>1, <1>6, Timeouts DEF InTime, Message
  <2>4. latest.age <= Interval + Cost(n - 1) + PostTimeout + Deadline + ReadTimeout + timer
    BY <1>6 DEF AgeBound
  <2> HIDE DEF n
  <2> QED BY <1>1, <1>2, <2>2, <2>3, <2>4, RunFits, Timeouts
<1> QED BY <1>3, <1>4, <1>5, <1>6 DEF LiveTypeOK

-----------------------------------------------------------------------------
(* Types, and how long a phase lasts.                                      *)

LEMMA ResultIsStatus == \A os : Result(os) \in Statuses
  BY DEF Result, Late, Statuses

LEMMA LiveStarts == TimeoutsFit /\ LiveInit => LiveInv
<1> SUFFICES ASSUME TimeoutsFit, LiveInit PROVE LiveInv
  OBVIOUS
<1>1. LiveTypeOK
  <2>1. elapsed \in 0..Interval /\ asked \in -1..Deadline
    BY Timeouts DEF LiveInit
  <2>2. timer \in 0..(PostTimeout + Deadline + ReadTimeout + DeleteTimeout)
    BY Timeouts DEF LiveInit
  <2>3. outcomes \in Seq(Outcomes) /\ Len(outcomes) <= Messages
    BY Timeouts DEF LiveInit
  <2> QED BY <2>1, <2>2, <2>3 DEF LiveInit, LiveTypeOK
<1>2. InTime /\ NoteIsTrue /\ AgeInv
  BY DEF LiveInit, InTime, NoteIsTrue, AgeInv
<1> QED BY <1>1, <1>2 DEF LiveInv

\* What the end of a run, or the next message of it, leaves.
LEMMA AfterTypes ==
  ASSUME TimeoutsFit, LiveTypeOK, NEW os \in Seq(Outcomes), Len(os) > 0, Len(os) <= Messages,
         ~waiting, After(os), UNCHANGED <<hook, elapsed, attempt>>
  PROVE  LiveTypeOK' /\ InTime'
<1>1. CASE Has(os, "good") \/ Len(os) = Messages
  <2>1. EndOfRun(os)
    BY <1>1 DEF After
  <2>2. latest' \in [status : Statuses, age : 0..(LiveTestFresh + 1), via : Webhooks]
    BY <2>1, ResultIsStatus, Numbers DEF EndOfRun, Keep, LiveTypeOK
  <2>3. answered' \in Webhooks \cup {None} /\ proven' \subseteq Webhooks
    BY <2>1 DEF EndOfRun, Keep, LiveTypeOK
  <2>4. /\ phase' = "resting" /\ timer' = 0 /\ finished' = TRUE
        /\ outcomes' = <<>>
    BY <2>1 DEF EndOfRun, Begin
  <2>5. outcomes' \in Seq(Outcomes) /\ Len(outcomes') <= Messages
    BY <2>4, Timeouts
  <2>6. timer' \in 0..(PostTimeout + Deadline + ReadTimeout + DeleteTimeout)
    BY <2>4, Timeouts
  <2>7. LiveTypeOK'
    BY <2>2, <2>3, <2>4, <2>5, <2>6 DEF LiveTypeOK, attempt
  <2> QED BY <2>4, <2>7 DEF InTime, attempt
<1>2. CASE ~(Has(os, "good") \/ Len(os) = Messages)
  <2>1. Begin("posting") /\ outcomes' = os /\ UNCHANGED record
    BY <1>2 DEF After
  <2>2. timer' \in 0..(PostTimeout + Deadline + ReadTimeout + DeleteTimeout)
    BY <2>1, Timeouts DEF Begin
  <2>3. LiveTypeOK'
    BY <2>1, <2>2 DEF LiveTypeOK, Begin, attempt, record
  <2>4. Len(os) < Messages
    BY <1>2, Timeouts
  <2> QED BY <2>1, <2>3, <2>4, Timeouts DEF InTime, Begin, attempt
<1> QED BY <1>1, <1>2

LEMMA OneMore ==
  ASSUME NEW os \in Seq(Outcomes), NEW o \in Outcomes
  PROVE  /\ Append(os, o) \in Seq(Outcomes)
         /\ Len(Append(os, o)) = Len(os) + 1 /\ Len(os) \in Nat
  OBVIOUS

LEMMA OutcomeTypes ==
  ASSUME TimeoutsFit, LiveTypeOK, InTime, phase = "reading", NEW o \in Outcomes, Outcome(o)
  PROVE  LiveTypeOK' /\ InTime'
<1>1. /\ outcomes' \in Seq(Outcomes) /\ Len(outcomes') = Len(outcomes) + 1
      /\ Len(outcomes) < Messages /\ Len(outcomes) \in Nat
  BY DEF Outcome, LiveTypeOK, InTime
<1>2. phase' = "deleting" /\ timer' = 0 /\ waiting' = FALSE
  BY DEF Outcome, Begin
<1>3. timer' \in 0..(PostTimeout + Deadline + ReadTimeout + DeleteTimeout)
  <2>1. PostTimeout \in Nat /\ Deadline \in Nat /\ ReadTimeout \in Nat /\ DeleteTimeout \in Nat
    BY Timeouts
  <2> QED BY <1>2, <2>1
<1>4. Len(outcomes') <= Messages /\ Len(outcomes') > 0
  BY <1>1, Timeouts
<1>5. LiveTypeOK'
  BY <1>1, <1>2, <1>3, <1>4 DEF Outcome, LiveTypeOK, record
<1> QED BY <1>2, <1>4, <1>5, Timeouts DEF InTime

\* The process has started again.
LEMMA RestartedTypes ==
  ASSUME TimeoutsFit, LiveTypeOK, Restarted,
         latest' = NoResult \/ latest' \in [status : Statuses, age : 0..(LiveTestFresh + 1), via : Webhooks],
         proven' \subseteq Webhooks, answered' = answered
  PROVE  LiveTypeOK' /\ InTime' /\ finished' = FALSE
<1>1. phase' = "resting" /\ timer' = 0 /\ outcomes' = <<>> /\ elapsed' = Interval /\ asked' = -1
  BY DEF Restarted, Begin
<1>2. timer' \in 0..(PostTimeout + Deadline + ReadTimeout + DeleteTimeout)
  BY <1>1, Timeouts
<1>3. elapsed' \in 0..Interval /\ asked' \in -1..Deadline
  BY <1>1, Timeouts
<1>4. outcomes' \in Seq(Outcomes) /\ Len(outcomes') <= Messages
  BY <1>1, Timeouts
<1>5. LiveTypeOK'
  BY <1>1, <1>2, <1>3, <1>4 DEF LiveTypeOK, Restarted
<1> QED BY <1>1, <1>5 DEF InTime, Restarted

LEMMA LiveTicks ==
  ASSUME TimeoutsFit, LiveTypeOK, InTime, LiveTick
  PROVE  /\ LiveTypeOK' /\ InTime'
         /\ latest'.age <= latest.age + 1 /\ latest'.age \in Nat
         /\ timer' \in Nat /\ elapsed' \in Nat
         /\ phase = "resting" => elapsed < Interval /\ elapsed' = elapsed + 1
         /\ phase # "resting" => timer' = timer + 1
<1> /\ PostTimeout \in Nat /\ Deadline \in Nat /\ ReadTimeout \in Nat /\ DeleteTimeout \in Nat
    /\ Interval \in Nat /\ Messages \in Nat
  BY Timeouts
<1>1. timer \in Nat /\ elapsed \in Nat /\ elapsed <= Interval /\ asked <= Deadline /\ asked \in Int
  BY Ranges
<1>2. elapsed' \in 0..Interval
  BY <1>1 DEF LiveTick
<1>3. /\ phase = "resting" => timer' = 0 /\ elapsed < Interval /\ elapsed' = elapsed + 1
      /\ phase # "resting" => timer' = timer + 1
  BY DEF LiveTick, MayPass
<1>4. phase = "posting" => timer' <= PostTimeout
  BY <1>1, <1>3 DEF LiveTick, MayPass
<1>5. phase = "reading" => timer' <= Deadline + ReadTimeout
  <2> SUFFICES ASSUME phase = "reading" PROVE timer' <= Deadline + ReadTimeout
    OBVIOUS
  <2>1. timer < IF waiting THEN asked + ReadTimeout ELSE Deadline
    BY DEF LiveTick, MayPass
  <2> QED BY <1>1, <1>3, <2>1
<1>6. phase = "deleting" => timer' <= DeleteTimeout
  BY <1>1, <1>3 DEF LiveTick, MayPass
<1>7. timer' \in 0..(PostTimeout + Deadline + ReadTimeout + DeleteTimeout)
  BY <1>1, <1>3, <1>4, <1>5, <1>6 DEF LiveTypeOK
<1>8. /\ latest' = NoResult \/ latest' \in [status : Statuses, age : 0..(LiveTestFresh + 1), via : Webhooks]
      /\ latest'.age <= latest.age + 1 /\ latest'.age \in Nat
  <2>1. CASE latest = NoResult \/ latest.age > LiveTestFresh
    <3>1. latest' = latest
      BY <2>1 DEF LiveTick
    <3> QED BY <3>1, Ranges DEF LiveTypeOK
  <2>2. CASE ~(latest = NoResult \/ latest.age > LiveTestFresh)
    <3>1. latest' = [latest EXCEPT !.age = @ + 1]
      BY <2>2 DEF LiveTick
    <3>2. latest \in [status : Statuses, age : 0..(LiveTestFresh + 1), via : Webhooks]
      BY <2>2 DEF LiveTypeOK
    <3>3. latest.age + 1 \in 0..(LiveTestFresh + 1)
      <4>1. ~(latest.age > LiveTestFresh)
        BY <2>2
      <4>2. latest.age \in Nat /\ LiveTestFresh \in Nat
        BY Ranges, Numbers
      <4> QED BY <4>1, <4>2
    <3>4. latest' \in [status : Statuses, age : 0..(LiveTestFresh + 1), via : Webhooks]
      BY <3>1, <3>2, <3>3
    <3>5. latest'.age = latest.age + 1 /\ latest.age \in Nat
      BY <3>1, <3>2, Ranges
    <3> QED BY <3>4, <3>5
  <2> QED BY <2>1, <2>2
<1>9. LiveTypeOK'
  BY <1>2, <1>7, <1>8 DEF LiveTypeOK, LiveTick, attempt
<1>10. InTime'
  BY <1>3, <1>4, <1>5, <1>6 DEF InTime, LiveTick, attempt
<1>11. timer' \in Nat /\ elapsed' \in Nat
  BY <1>2, <1>7
<1> QED BY <1>3, <1>8, <1>9, <1>10, <1>11

LEMMA TypesKept ==
  ASSUME TimeoutsFit, LiveTypeOK, InTime, LiveNext
  PROVE  LiveTypeOK' /\ InTime'
<1>1. CASE Start
  <2>1. timer' = 0 /\ elapsed' = 0 /\ outcomes' = <<>> /\ phase' = "posting"
    BY <1>1 DEF Start, Begin
  <2>2. timer' \in 0..(PostTimeout + Deadline + ReadTimeout + DeleteTimeout) /\ elapsed' \in 0..Interval
    BY <2>1, Timeouts
  <2>3. outcomes' \in Seq(Outcomes) /\ Len(outcomes') <= Messages /\ Len(outcomes') < Messages
    BY <2>1, Timeouts
  <2>4. LiveTypeOK'
    BY <1>1, <2>1, <2>2, <2>3 DEF LiveTypeOK, Start, attempt, record
  <2> QED BY <1>1, <2>1, <2>3, <2>4, Timeouts DEF InTime, Start, attempt
<1>2. CASE Posted
  <2>1. timer' = 0 /\ asked' = -1 /\ outcomes' = outcomes /\ phase' = "reading" /\ phase = "posting"
    BY <1>2 DEF Posted, Begin
  <2>2. timer' \in 0..(PostTimeout + Deadline + ReadTimeout + DeleteTimeout) /\ asked' \in -1..Deadline
    BY <2>1, Timeouts
  <2>3. LiveTypeOK'
    BY <1>2, <2>1, <2>2 DEF LiveTypeOK, Posted, record
  <2> QED BY <1>2, <2>1, <2>3, Timeouts DEF InTime, Posted
<1>3. CASE NotPosted
  <2> DEFINE os == Append(outcomes, "not run")
  <2>1. os \in Seq(Outcomes) /\ Len(os) = Len(outcomes) + 1 /\ Len(outcomes) \in Nat
    <3>1. "not run" \in Outcomes
      BY DEF Outcomes
    <3>2. outcomes \in Seq(Outcomes)
      BY DEF LiveTypeOK
    <3> QED BY <3>1, <3>2, OneMore
  <2>2. Len(outcomes) < Messages
    BY <1>3 DEF NotPosted, InTime
  <2>3. After(os) /\ UNCHANGED <<hook, elapsed, attempt>>
    BY <1>3 DEF NotPosted
  <2>4. ~waiting
    BY <1>3 DEF NotPosted, InTime
  <2> HIDE DEF os
  <2>5. Len(os) > 0 /\ Len(os) <= Messages
    BY <2>1, <2>2, Timeouts
  <2> QED BY <2>1, <2>3, <2>4, <2>5, AfterTypes
<1>4. CASE Ask
  <2>1. asked' = timer /\ asked' \in -1..Deadline
    BY <1>4, Ranges, Timeouts DEF Ask, Due
  <2>2. LiveTypeOK'
    BY <1>4, <2>1 DEF Ask, LiveTypeOK, record
  <2> QED BY <1>4, <2>2 DEF Ask, InTime
<1>5. CASE NothingSeen
  BY <1>5 DEF NothingSeen, LiveTypeOK, InTime, record
<1>6. CASE Seen \/ Gone \/ ReadsOver
  <2>1. PICK o \in Outcomes : Outcome(o)
    BY <1>6 DEF Seen, Gone, ReadsOver, Outcomes
  <2>2. phase = "reading"
    BY <1>6 DEF Seen, Gone, ReadsOver, InTime
  <2> QED BY <2>1, <2>2, OutcomeTypes
<1>7. CASE DeleteOver
  BY <1>7, AfterTypes DEF DeleteOver, LiveTypeOK, InTime
<1>8. CASE React
  BY <1>8 DEF React, LiveTypeOK, InTime, record
<1>9. CASE LiveTick
  BY <1>9, LiveTicks
<1>10. CASE Restart
  BY <1>10, RestartedTypes DEF Restart, LiveTypeOK
<1>11. CASE CrashInRemember
  <2>1. latest' \in [status : Statuses, age : 0..(LiveTestFresh + 1), via : Webhooks]
    BY <1>11, ResultIsStatus, Numbers DEF CrashInRemember, Keep, LiveTypeOK
  <2>2. proven' \subseteq Webhooks
    BY <1>11 DEF CrashInRemember, Keep, LiveTypeOK
  <2> QED BY <1>11, <2>1, <2>2, RestartedTypes DEF CrashInRemember
<1> QED BY <1>1, <1>2, <1>3, <1>4, <1>5, <1>6, <1>7, <1>8, <1>9, <1>10, <1>11 DEF LiveNext, RunStep

-----------------------------------------------------------------------------
(* What is noted, and how old the last result gets.                        *)

LEMMA NoteKept ==
  ASSUME TimeoutsFit, NoteIsTrue, LiveNext
  PROVE  NoteIsTrue'
<1>1. CASE Start \/ Posted \/ Ask \/ NothingSeen \/ Seen \/ Gone \/ ReadsOver \/ React \/ LiveTick \/ Restart
  BY <1>1 DEF NoteIsTrue, Start, Posted, Ask, NothingSeen, Seen, Gone, ReadsOver, Outcome,
              React, LiveTick, Restart, record
<1>2. ASSUME NEW os, After(os), UNCHANGED hook
      PROVE  NoteIsTrue'
  BY <1>2 DEF NoteIsTrue, After, EndOfRun, Keep, record
<1>3. CASE NotPosted \/ DeleteOver
  BY <1>2, <1>3 DEF NotPosted, DeleteOver
<1>4. CASE CrashInRemember
  BY <1>4 DEF NoteIsTrue, CrashInRemember, Keep
<1> QED BY <1>1, <1>3, <1>4 DEF LiveNext, RunStep

\* A message that has begun costs no more than its share.
LEMMA AfterAge ==
  ASSUME TimeoutsFit, LiveTypeOK, NEW os, Len(os) \in Nat, After(os), elapsed' = elapsed,
         finished => latest.age <= Interval + Cost(Len(os))
  PROVE  AgeInv'
<1>1. CASE Has(os, "good") \/ Len(os) = Messages
  <2>1. phase' = "resting" /\ latest'.age = 0 /\ elapsed' \in Nat
    BY <1>1, Ranges DEF After, EndOfRun, Keep, Begin
  <2> QED BY <2>1 DEF AgeInv, AgeBound
<1>2. CASE ~(Has(os, "good") \/ Len(os) = Messages)
  <2>1. phase' = "posting" /\ timer' = 0 /\ outcomes' = os /\ latest' = latest /\ finished' = finished
    BY <1>2 DEF After, Begin, record
  <2>2. Cost(Len(os)) \in Nat /\ latest.age \in Nat
    BY Numbers, Ranges
  <2>3. finished => latest'.age <= Interval + Cost(Len(outcomes')) + timer'
    BY <2>1, <2>2, Timeouts
  <2> QED BY <2>1, <2>3 DEF AgeInv, AgeBound
<1> QED BY <1>1, <1>2

LEMMA AgeKept ==
  ASSUME TimeoutsFit, LiveTypeOK, InTime, AgeInv, LiveNext
  PROVE  AgeInv'
<1> /\ PostTimeout \in Nat /\ Deadline \in Nat /\ ReadTimeout \in Nat /\ DeleteTimeout \in Nat
    /\ Interval \in Nat /\ Messages \in Nat
  BY Timeouts
<1>1. /\ Len(outcomes) \in Nat /\ timer \in Nat /\ elapsed \in Nat /\ elapsed <= Interval
      /\ latest.age \in Nat
  BY Ranges
<1>2. Cost(Len(outcomes)) \in Nat /\ Cost(0) = 0
  BY <1>1, Numbers DEF Cost
<1>3. CASE Start
  <2>1. phase' = "posting" /\ timer' = 0 /\ outcomes' = <<>> /\ latest' = latest
        /\ finished' = finished /\ phase = "resting"
    BY <1>3 DEF Start, Begin, record
  <2>2. finished => latest.age <= Interval + Cost(0) + 0
    BY <1>1, <1>2, <2>1 DEF AgeInv, AgeBound
  <2>3. Len(outcomes') = 0
    BY <2>1
  <2> QED BY <2>1, <2>2, <2>3 DEF AgeInv, AgeBound
<1>4. CASE Posted
  <2>1. phase' = "reading" /\ timer' = 0 /\ outcomes' = outcomes /\ latest' = latest
        /\ finished' = finished /\ phase = "posting"
    BY <1>4 DEF Posted, Begin, record
  <2>2. finished => latest.age <= Interval + Cost(Len(outcomes)) + PostTimeout + 0
    BY <1>1, <1>2, <2>1 DEF AgeInv, AgeBound, InTime
  <2> QED BY <2>1, <2>2 DEF AgeInv, AgeBound
<1>5. CASE NotPosted
  <2> DEFINE os == Append(outcomes, "not run")
  <2>1. Len(os) = Len(outcomes) + 1
    BY OneMore DEF LiveTypeOK, Outcomes
  <2>2. phase = "posting" /\ After(os) /\ elapsed' = elapsed
    BY <1>5 DEF NotPosted
  <2>3. Len(outcomes) < Messages /\ timer <= PostTimeout
    BY <2>2 DEF InTime
  <2> HIDE DEF os
  <2>4. Cost(Len(os)) = Cost(Len(outcomes)) + Message
    BY <1>1, <2>1, <2>3, MessagesFit
  <2>5. finished => latest.age <= Interval + Cost(Len(os))
    <3>1. finished => latest.age <= Interval + Cost(Len(outcomes)) + timer
      BY <2>2 DEF AgeInv, AgeBound
    <3>2. PostTimeout <= Message /\ Message \in Nat
      BY DEF Message
    <3> QED BY <1>1, <1>2, <2>3, <2>4, <3>1, <3>2
  <2> QED BY <1>1, <2>1, <2>2, <2>5, AfterAge
<1>6. CASE Ask \/ NothingSeen \/ React
  BY <1>6 DEF AgeInv, AgeBound, Ask, NothingSeen, React, record
<1>7. CASE Seen \/ Gone \/ ReadsOver
  <2>1. PICK o \in Outcomes : Outcome(o)
    BY <1>7 DEF Seen, Gone, ReadsOver, Outcomes
  <2>2. phase = "reading" /\ timer <= Deadline + ReadTimeout
    BY <1>7 DEF Seen, Gone, ReadsOver, InTime
  <2>3. phase' = "deleting" /\ timer' = 0 /\ latest' = latest /\ finished' = finished
    BY <2>1 DEF Outcome, Begin, record
  <2>4. Len(outcomes') = Len(outcomes) + 1
    BY <2>1, OneMore DEF Outcome, LiveTypeOK
  <2>5. Len(outcomes') - 1 = Len(outcomes)
    BY <1>1, <2>4
  <2>6. finished => latest.age <= Interval + Cost(Len(outcomes))
                                   + PostTimeout + Deadline + ReadTimeout + 0
    <3>1. finished => latest.age <= Interval + Cost(Len(outcomes)) + PostTimeout + timer
      BY <2>2 DEF AgeInv, AgeBound
    <3> QED BY <1>1, <1>2, <2>2, <3>1
  <2> QED BY <2>3, <2>5, <2>6 DEF AgeInv, AgeBound
<1>8. CASE DeleteOver
  <2>1. phase = "deleting" /\ After(outcomes) /\ elapsed' = elapsed
    BY <1>8 DEF DeleteOver
  <2>2. Len(outcomes) > 0 /\ timer <= DeleteTimeout
    BY <2>1 DEF InTime
  <2> DEFINE n == Len(outcomes) - 1
  <2>3. n \in Nat /\ n < Messages /\ n + 1 = Len(outcomes)
    BY <1>1, <2>2, Ranges
  <2>4. finished => latest.age <= Interval + Cost(n) + PostTimeout + Deadline + ReadTimeout + timer
    BY <2>1 DEF AgeInv, AgeBound
  <2> HIDE DEF n
  <2>5. Cost(Len(outcomes)) = Cost(n) + Message /\ Cost(n) \in Nat
    BY <2>3, MessagesFit, Numbers
  <2>6. finished => latest.age <= Interval + Cost(Len(outcomes))
    BY <1>1, <2>2, <2>4, <2>5 DEF Message
  <2> QED BY <1>1, <2>1, <2>6, AfterAge
<1>9. CASE LiveTick
  <2>1. /\ latest'.age <= latest.age + 1
        /\ phase = "resting" => elapsed' = elapsed + 1
        /\ phase # "resting" => timer' = timer + 1
    BY <1>9, LiveTicks
  <2>2. phase' = phase /\ outcomes' = outcomes /\ finished' = finished
    BY <1>9 DEF LiveTick
  <2>3. latest'.age \in Nat /\ timer' \in Nat /\ elapsed' \in Nat
    BY <1>9, LiveTicks
  <2>4. ASSUME NEW bound \in Nat, finished => latest.age <= bound + timer, timer' = timer + 1
        PROVE  finished' => latest'.age <= bound + timer'
    BY <1>1, <2>1, <2>2, <2>3, <2>4
  <2>5. CASE phase = "resting"
    BY <1>1, <2>1, <2>2, <2>3, <2>5 DEF AgeInv, AgeBound
  <2>6. CASE phase = "posting"
    <3>1. Interval + Cost(Len(outcomes)) \in Nat
      BY <1>2
    <3>2. finished => latest.age <= Interval + Cost(Len(outcomes)) + timer
      BY <2>6 DEF AgeInv, AgeBound
    <3>3. finished' => latest'.age <= Interval + Cost(Len(outcomes)) + timer'
      BY <2>1, <2>4, <2>6, <3>1, <3>2
    <3> QED BY <2>2, <2>6, <3>3 DEF AgeInv, AgeBound
  <2>7. CASE phase = "reading"
    <3>1. Interval + Cost(Len(outcomes)) + PostTimeout \in Nat
      BY <1>2
    <3>2. finished => latest.age <= Interval + Cost(Len(outcomes)) + PostTimeout + timer
      BY <2>7 DEF AgeInv, AgeBound
    <3>3. finished' => latest'.age <= Interval + Cost(Len(outcomes)) + PostTimeout + timer'
      BY <2>1, <2>4, <2>7, <3>1, <3>2
    <3> QED BY <2>2, <2>7, <3>3 DEF AgeInv, AgeBound
  <2>8. CASE phase = "deleting"
    <3> DEFINE spent == Interval + Cost(Len(outcomes) - 1) + PostTimeout + Deadline + ReadTimeout
    <3>1. spent \in Nat
      <4>1. Len(outcomes) - 1 \in Nat
        BY <1>1, <2>8 DEF InTime
      <4>2. Cost(Len(outcomes) - 1) \in Nat
        BY <4>1, Numbers
      <4> QED BY <4>2
    <3>2. finished => latest.age <= spent + timer
      BY <2>8 DEF AgeInv, AgeBound
    <3>3. finished' => latest'.age <= spent + timer'
      BY <2>1, <2>4, <2>8, <3>1, <3>2
    <3> QED BY <2>2, <2>8, <3>3 DEF AgeInv, AgeBound
  <2> QED BY <2>5, <2>6, <2>7, <2>8 DEF LiveTypeOK
<1>10. CASE Restart \/ CrashInRemember
  <2>1. finished' = FALSE
    BY <1>10 DEF Restart, CrashInRemember, Restarted
  <2> QED BY <2>1 DEF AgeInv
<1> QED BY <1>3, <1>4, <1>5, <1>6, <1>7, <1>8, <1>9, <1>10 DEF LiveNext, RunStep

-----------------------------------------------------------------------------
(* The specification.                                                      *)

LEMMA LiveKept == TimeoutsFit /\ LiveInv /\ [LiveNext]_liveVars => LiveInv'
<1> SUFFICES ASSUME TimeoutsFit, LiveInv, [LiveNext]_liveVars PROVE LiveInv'
  OBVIOUS
<1>1. CASE LiveNext
  BY <1>1, TypesKept, NoteKept, AgeKept DEF LiveInv
<1>2. CASE UNCHANGED liveVars
  BY <1>2 DEF liveVars, attempt, record, LiveInv, LiveTypeOK, InTime, NoteIsTrue, AgeInv, AgeBound
<1> QED BY <1>1, <1>2

LEMMA LiveInvariance == LiveSpec => []LiveInv
<1>1. LiveInit => LiveInv
  BY LiveTestAssumption, LiveStarts
<1>2. LiveInv /\ [LiveNext]_liveVars => LiveInv'
  BY LiveTestAssumption, LiveKept
<1>3. QED
  BY <1>1, <1>2, PTL DEF LiveSpec

\* Every variable keeps its type: no phase outlasts its timeout, and no run
\* sends more than LIVE_TEST_ATTEMPTS messages.
THEOREM LiveTypes == LiveSpec => []LiveTypeOK
<1>1. LiveInv => LiveTypeOK
  BY DEF LiveInv
<1> QED BY <1>1, LiveInvariance, PTL

\* Silence is an outage only through a webhook that the bot has answered
\* through, whatever was configured or lost in between (scheduler.py:184).
THEOREM Proven == LiveSpec => []DownIsProven
<1>1. LiveInv => DownIsProven
  BY LiveTestAssumption, Timeouts DEF LiveInv, LiveTypeOK, NoteIsTrue, DownIsProven, Published,
                  LiveTestResult, AnsweredBefore
<1> QED BY <1>1, LiveInvariance, PTL

\* While the process runs, the result of the last test is never too old to be
\* used, however its requests hang (scheduler.py:128-132).
THEOREM NeverLapse == LiveSpec => []ResultsNeverLapse
<1>1. LiveInv => ResultsNeverLapse
  BY LiveTestAssumption, BoundFits DEF LiveInv, AgeInv, ResultsNeverLapse
<1> QED BY <1>1, LiveInvariance, PTL
=============================================================================
