------------------------- MODULE PlatformReportProofs -------------------------
(***************************************************************************)
(* What the page knows of the services behind the website, proved for any  *)
(* services, reports, clocks and windows: the types, the age of a verdict, *)
(* the order of what was sent, and that no verdict is left over in a cycle *)
(* that could not fetch the report.                                        *)
(***************************************************************************)
EXTENDS PlatformReport, TLAPS

-----------------------------------------------------------------------------
(* The invariant.                                                          *)

\* A reading or a row with a verdict.
IsVerdict(r) == r # Nothing /\ r.status # "unknown"

\* What is held was made at most this long before it was received, and signed
\* with the platform's clock.
HeldInv ==
  held # Nothing => /\ held.ts = held.made + offset
                    /\ held.at - held.made <= ReplayWindow + Skew
                    /\ held.at <= now

\* A cycle that has just begun knows nothing yet.
BlankInv ==
  pc \in {"idle", "site"} => /\ pushed = Nothing /\ fetched = Nothing /\ listed = Nothing
                             /\ readings = {}

\* What a cycle has learned is recent.
CycleInv ==
  /\ pushed # Nothing => /\ held # Nothing /\ pushed.made <= held.made
                         /\ started - pushed.made <= MaxAge
  /\ fetched.kind = "report" => started <= fetched.made
  /\ listed.kind = "list" => started <= listed.made
  /\ \A r \in readings : IsVerdict(r) => r.made # Never /\ started - r.made <= MaxAge

\* Everything shown that was sent is no newer than what is held, and no newer
\* than what this cycle has looked at.
OrderInv ==
  \A s \in Reported :
    IsVerdict(latest[s]) /\ latest[s].road = "push" =>
      /\ held # Nothing /\ latest[s].made <= held.made
      /\ pushed # Nothing => latest[s].made <= pushed.made
      /\ \A r \in readings : IsVerdict(r) /\ r.road = "push" => latest[s].made <= r.made

ReadingsOrderInv ==
  \A r \in readings : IsVerdict(r) /\ r.road = "push" => held # Nothing /\ r.made <= held.made

\* Only Database and Cache have readings and rows from outside, and after the
\* website check each has a reading.
ExternalInv ==
  /\ \A r \in readings : r.road = "external" => r.service \in FromReadiness
  /\ \A s \in Reported : latest[s] # Nothing /\ latest[s].road = "external" => s \in FromReadiness
  /\ pc \notin {"idle", "site"} => \A d \in FromReadiness : ReadingsOf(d) # {}

\* A row the page may show.
MayBeShown(s) == latest[s] # Nothing /\ now - latest[s].at <= Recent

\* The cycle answers for every row of the platform's that may be shown, until it
\* has.
ExpectedInv ==
  pc \in {"site", "status", "shards", "platform"} =>
    \A s \in Reported : MayBeShown(s) => s \in expected \cup FromReadiness

AnsweredInv ==
  pc = "others" /\ fetched.kind # "report" =>
    \A s \in Reported : MayBeShown(s) => ReadingsOf(s) # {}

IInv ==
  /\ TypeOK /\ HeldInv /\ BlankInv /\ CycleInv /\ VerdictsAreRecent
  /\ OrderInv /\ ReadingsOrderInv /\ ExternalInv /\ ExpectedInv /\ AnsweredInv

-----------------------------------------------------------------------------
(* Lemmas about the data.                                                  *)

\* A partial report gives the services it names a status.
LEMMA PartialShape ==
  ASSUME NEW named, NEW states \in PartialReports(named)
  PROVE  DOMAIN states \subseteq named /\ \A s \in DOMAIN states : states[s] \in Statuses
BY DEF PartialReports

LEMMA PartialMade ==
  ASSUME NEW named, NEW part \in SUBSET named, NEW states \in [part -> Statuses]
  PROVE  states \in PartialReports(named)
BY DEF PartialReports

\* What a report says are readings, verdicts made when the report was.
LEMMA OfReadings ==
  ASSUME NEW states \in PartialReports(Reported), NEW road \in Roads, NEW made \in Nat
  PROVE  /\ Of(states, road, made) \subseteq Readings
         /\ \A r \in Of(states, road, made) : r.road = road /\ (IsVerdict(r) => r.made = made)
         /\ \A s \in DOMAIN states : \E r \in Of(states, road, made) : r.service = s
<1>1. DOMAIN states \subseteq Reported /\ \A s \in DOMAIN states : states[s] \in Statuses
  BY PartialShape
<1> DEFINE Said(s) == [service |-> s, status |-> states[s], road |-> road,
                       made |-> IF states[s] = "unknown" THEN Never ELSE made]
<1>2. Of(states, road, made) = {Said(s) : s \in DOMAIN states}
  BY DEF Of
<1>3. \A s \in DOMAIN states : /\ Said(s) \in Readings
                               /\ Said(s).service = s /\ Said(s).road = road
                               /\ Said(s).status # "unknown" => Said(s).made = made
  BY <1>1 DEF Readings, Never
<1> HIDE DEF Said
<1>4. QED
  BY <1>2, <1>3 DEF IsVerdict

LEMMA NoDataReadings ==
  ASSUME NEW services \in SUBSET Reported, NEW road \in Roads
  PROVE  /\ NoData(services, road) \subseteq Readings
         /\ \A r \in NoData(services, road) : r.road = road /\ ~IsVerdict(r)
         /\ \A s \in services : \E r \in NoData(services, road) : r.service = s
<1> DEFINE Silent(s) == [service |-> s, status |-> "unknown", road |-> road, made |-> Never]
<1>1. NoData(services, road) = {Silent(s) : s \in services}
  BY DEF NoData
<1>2. \A s \in services : /\ Silent(s) \in Readings
                          /\ Silent(s).service = s /\ Silent(s).road = road
                          /\ Silent(s).status = "unknown"
  BY DEF Readings, Statuses
<1> HIDE DEF Silent
<1>3. QED
  BY <1>1, <1>2 DEF IsVerdict

\* Of the readings of a service there is a best one: the order has eight ranks.
LEMMA BestReading ==
  ASSUME NEW S \in SUBSET Readings, S # {}
  PROVE  \E r \in S : \A q \in S : ~Better(q, r)
<1> DEFINE Has(status, outside) == \E r \in S : r.status = status /\ (r.road = "external") = outside
<1>1. \A r \in S : r.status \in Statuses /\ Rank[r.status] \in 0..3
  BY DEF Readings, Statuses, Rank
<1>2. ASSUME NEW status \in Statuses, \E r \in S : r.status = status,
             \A q \in S : Rank[q.status] <= Rank[status]
      PROVE  \E r \in S : \A q \in S : ~Better(q, r)
  <2>1. CASE \E r \in S : r.status = status /\ r.road # "external"
    BY <1>1, <1>2, <2>1 DEF Better
  <2>2. CASE \A r \in S : r.status = status => r.road = "external"
    <3>1. PICK r \in S : r.status = status
      BY <1>2
    <3>2. \A q \in S : Rank[q.status] = Rank[status] => q.status = status
      BY <1>1 DEF Rank, Statuses
    <3>3. \A q \in S : ~Better(q, r)
      BY <1>1, <1>2, <2>2, <3>1, <3>2 DEF Better
    <3>4. QED
      BY <3>1, <3>3
  <2>3. QED
    BY <2>1, <2>2
<1>3. CASE \E r \in S : r.status = "down"
  BY <1>1, <1>2, <1>3 DEF Rank, Statuses
<1>4. CASE (\A r \in S : r.status # "down") /\ \E r \in S : r.status = "degraded"
  BY <1>1, <1>2, <1>4 DEF Rank, Statuses
<1>5. CASE (\A r \in S : r.status \notin {"down", "degraded"}) /\ \E r \in S : r.status = "operational"
  BY <1>1, <1>2, <1>5 DEF Rank, Statuses
<1>6. CASE \A r \in S : r.status = "unknown"
  BY <1>1, <1>2, <1>6 DEF Rank, Statuses
<1>7. QED
  BY <1>1, <1>3, <1>4, <1>5, <1>6 DEF Statuses

\* The merged reading of a service is one of its readings.
LEMMA MergedReading ==
  ASSUME readings \subseteq Readings, NEW s, ReadingsOf(s) # {}
  PROVE  Merged(s) \in readings /\ Merged(s).service = s
<1>1. ReadingsOf(s) \in SUBSET Readings
  BY DEF ReadingsOf
<1>2. \E r \in ReadingsOf(s) : \A q \in ReadingsOf(s) : ~Better(q, r)
  BY <1>1, BestReading
<1>3. Merged(s) \in ReadingsOf(s)
  BY <1>2 DEF Merged
<1>4. QED
  BY <1>3 DEF ReadingsOf

-----------------------------------------------------------------------------
(* What the cycle takes for the platform's word.                           *)

\* A reading this cycle may use.
Usable(r) ==
  /\ r \in Readings
  /\ r.road # "external"
  /\ IsVerdict(r) => r.made # Never /\ started - r.made <= MaxAge
  /\ IsVerdict(r) /\ r.road = "push" => pushed # Nothing /\ r.made = pushed.made

LEMMA Types ==
  ASSUME TypeOK
  PROVE  /\ pushed # Nothing => pushed \in HeldReports
         /\ fetched.kind = "report" => fetched \in ReportsBy(0..now)
         /\ listed.kind = "list" => listed \in ListsBy(0..now)
         /\ now \in Nat /\ started \in Nat
BY DEF TypeOK, Nothing, Failed

LEMMA ConstantTypes ==
  /\ {Fresh, ReplayWindow, Skew, Stale, Recent} \subseteq Nat
  /\ MaxAge \in Nat
  /\ \A body \in Bodies : body \in PartialReports(Reported)
  /\ \A list \in ShardLists : list \in PartialReports(Shards) /\ list \in PartialReports(Reported)
<1>1. \A small, big : small \subseteq big => PartialReports(small) \subseteq PartialReports(big)
  BY DEF PartialReports
<1>2. Services \subseteq Reported /\ Shards \subseteq Reported
  BY DEF Reported
<1>3. PartialReports(Services) \subseteq PartialReports(Reported) /\ PartialReports(Shards) \subseteq PartialReports(Reported)
  BY <1>1, <1>2
<1>4. QED
  BY <1>3, PlatformAssumption DEF PlatformAssumption, MaxAge

LEMMA UsablePlatform ==
  ASSUME TypeOK, CycleInv
  PROVE  /\ \A r \in PlatformReadings : Usable(r)
         /\ fetched.kind # "report" => \A s \in expected : \E r \in PlatformReadings : r.service = s
<1>1. CASE fetched.kind = "report"
  <2>1. fetched.body \in PartialReports(Reported) /\ fetched.made \in Nat
    BY <1>1, Types, ConstantTypes DEF ReportsBy
  <2>2. PlatformReadings = Of(fetched.body, "proxy", fetched.made)
    BY <1>1 DEF PlatformReadings
  <2>3. fetched.made # Never /\ started - fetched.made <= MaxAge
    BY <1>1, <2>1, Types, ConstantTypes DEF CycleInv, Never
  <2>4. "proxy" \in Roads /\ "proxy" # "external" /\ "proxy" # "push"
    BY DEF Roads
  <2>5. \A r \in PlatformReadings : r \in Readings /\ r.road = "proxy" /\ (IsVerdict(r) => r.made = fetched.made)
    BY <2>1, <2>2, <2>4, OfReadings
  <2>6. QED
    BY <1>1, <2>3, <2>4, <2>5 DEF Usable
<1>2. CASE fetched.kind # "report" /\ pushed # Nothing
  <2> DEFINE silent == expected \ DOMAIN pushed.body
  <2>1. pushed.body \in PartialReports(Reported) /\ pushed.made \in Nat
    BY <1>2, Types, ConstantTypes DEF HeldReports
  <2>2. PlatformReadings = Of(pushed.body, "push", pushed.made) \cup NoData(silent, "push")
    BY <1>2 DEF PlatformReadings, UsePush
  <2>3. pushed.made # Never /\ started - pushed.made <= MaxAge
    BY <1>2, <2>1 DEF CycleInv, Never
  <2>4. "push" \in Roads /\ "push" # "external" /\ silent \in SUBSET Reported
    BY DEF Roads, TypeOK
  <2>5. /\ \A r \in Of(pushed.body, "push", pushed.made) :
             r \in Readings /\ r.road = "push" /\ (IsVerdict(r) => r.made = pushed.made)
        /\ \A s \in DOMAIN pushed.body : \E r \in Of(pushed.body, "push", pushed.made) : r.service = s
    BY <2>1, <2>4, OfReadings
  <2>6. /\ \A r \in NoData(silent, "push") : r \in Readings /\ r.road = "push" /\ ~IsVerdict(r)
        /\ \A s \in silent : \E r \in NoData(silent, "push") : r.service = s
    BY <2>4, NoDataReadings
  <2>7. \A r \in PlatformReadings : Usable(r)
    BY <1>2, <2>2, <2>3, <2>4, <2>5, <2>6 DEF Usable
  <2>8. \A s \in expected : \E r \in PlatformReadings : r.service = s
    BY <2>2, <2>5, <2>6
  <2>9. QED
    BY <2>7, <2>8
<1>3. CASE fetched.kind # "report" /\ pushed = Nothing
  <2>1. PlatformReadings = NoData(expected, "proxy")
    BY <1>3 DEF PlatformReadings, UsePush
  <2>2. "proxy" \in Roads /\ "proxy" # "external" /\ "proxy" # "push" /\ expected \in SUBSET Reported
    BY DEF Roads, TypeOK
  <2>3. QED
    BY <2>1, <2>2, NoDataReadings DEF Usable
<1>4. QED
  BY <1>1, <1>2, <1>3

LEMMA UsableShards ==
  ASSUME TypeOK, CycleInv, ShardList # Nothing
  PROVE  /\ \A r \in ShardReadings(ShardList) : Usable(r)
         /\ ShardList.states \in PartialReports(Shards)
<1> DEFINE fromUs == [states |-> listed.states, road |-> "proxy", made |-> listed.made]
           sent == [states |-> pushed.shards.states, road |-> "push", made |-> pushed.made]
<1>1. CASE listed.kind = "list"
  <2>1. ShardList = fromUs
    BY <1>1 DEF ShardList
  <2>2. ShardList.states = listed.states /\ ShardList.road = "proxy" /\ ShardList.made = listed.made
    BY <2>1
  <2>3. /\ listed.states \in PartialReports(Shards) /\ listed.states \in PartialReports(Reported)
        /\ listed.made \in Nat
    BY <1>1, Types, ConstantTypes DEF ListsBy
  <2>4. listed.made # Never /\ started - listed.made <= MaxAge
    BY <1>1, <2>3, Types, ConstantTypes DEF CycleInv, Never
  <2>5. "proxy" \in Roads /\ "proxy" # "external" /\ "proxy" # "push"
    BY DEF Roads
  <2>6. \A r \in Of(listed.states, "proxy", listed.made) :
          r \in Readings /\ r.road = "proxy" /\ (IsVerdict(r) => r.made = listed.made)
    BY <2>3, <2>5, OfReadings
  <2>7. \A r \in ShardReadings(ShardList) : r \in Of(listed.states, "proxy", listed.made)
    BY <2>2 DEF ShardReadings
  <2>8. \A r \in ShardReadings(ShardList) : Usable(r)
    BY <2>4, <2>5, <2>6, <2>7 DEF Usable
  <2>9. QED
    BY <2>2, <2>3, <2>8
<1>2. CASE listed.kind # "list"
  <2>1. pushed # Nothing /\ pushed.shards # Nothing /\ ShardList = sent
    BY <1>2 DEF ShardList, UsePush
  <2>2. ShardList.states = pushed.shards.states /\ ShardList.road = "push" /\ ShardList.made = pushed.made
    BY <2>1
  <2>3. pushed.shards \in SentLists /\ pushed.made \in Nat
    BY <2>1, Types DEF HeldReports
  <2>4. /\ pushed.shards.states \in PartialReports(Shards)
        /\ pushed.shards.states \in PartialReports(Reported)
    BY <2>1, <2>3, ConstantTypes DEF SentLists
  <2>5. pushed.made # Never /\ started - pushed.made <= MaxAge
    BY <2>1, <2>3 DEF CycleInv, Never
  <2>6. "push" \in Roads /\ "push" # "external"
    BY DEF Roads
  <2>7. \A r \in Of(pushed.shards.states, "push", pushed.made) :
          r \in Readings /\ r.road = "push" /\ (IsVerdict(r) => r.made = pushed.made)
    BY <2>3, <2>4, <2>6, OfReadings
  <2>8. \A r \in ShardReadings(ShardList) : r \in Of(pushed.shards.states, "push", pushed.made)
    BY <2>2 DEF ShardReadings
  <2>9. \A r \in ShardReadings(ShardList) : Usable(r)
    BY <2>1, <2>5, <2>6, <2>7, <2>8 DEF Usable
  <2>10. QED
    BY <2>2, <2>4, <2>9
<1>3. QED
  BY <1>1, <1>2

\* What /readiness says is about now.
LEMMA UsableReadiness ==
  ASSUME TypeOK, NEW s \in Sites
  PROVE  /\ ReadinessReadings(s) \subseteq Readings
         /\ \A r \in ReadinessReadings(s) :
              /\ r.road = "external" /\ r.service \in FromReadiness
              /\ IsVerdict(r) => r.made = now
         /\ \A d \in FromReadiness : \E r \in ReadinessReadings(s) : r.service = d
<1> DEFINE Said(d) == [service |-> d,
                       status |-> IF s.verdict = "up" THEN FromBody(s.body[d]) ELSE "unknown",
                       road |-> "external",
                       made |-> IF s.verdict = "up" /\ s.body[d] # "missing" THEN now ELSE Never]
<1>1. ReadinessReadings(s) = {Said(d) : d \in FromReadiness}
  BY DEF ReadinessReadings
<1>2. ASSUME NEW d \in FromReadiness
      PROVE  /\ Said(d) \in Readings
             /\ Said(d).service = d /\ Said(d).road = "external"
             /\ Said(d).status # "unknown" => Said(d).made = now
  <2>1. s.body[d] \in {"ok", "error", "missing"} /\ now \in Nat /\ d \in Reported
    BY <1>2 DEF Sites, TypeOK, Reported, Services
  <2>2. FromBody(s.body[d]) \in Statuses /\ (s.body[d] = "missing" => FromBody(s.body[d]) = "unknown")
    BY <2>1 DEF FromBody, Statuses
  <2>3. QED
    BY <2>1, <2>2 DEF Readings, Roads, Statuses, Never
<1> HIDE DEF Said
<1>3. QED
  BY <1>1, <1>2 DEF IsVerdict

-----------------------------------------------------------------------------
(* The invariant holds at the start, and every step keeps it.              *)

LEMMA InitInv == Init => IInv
<1> SUFFICES ASSUME Init PROVE IInv
  OBVIOUS
<1>1. TypeOK
  <2>1. [s \in {} |-> "unknown"] \in [{} -> Statuses] /\ {} \in SUBSET Shards
    OBVIOUS
  <2>2. snapshot \in PartialReports(Shards)
    BY <2>1, PartialMade DEF Init
  <2>3. latest \in [Reported -> Rows \cup {Nothing}]
    BY DEF Init
  <2>4. QED
    BY <2>2, <2>3, ConstantTypes DEF Init, TypeOK
<1>2. fetched.kind # "report" /\ listed.kind # "list"
  BY DEF Init, Nothing
<1>3. QED
  BY <1>1, <1>2 DEF Init, IInv, HeldInv, BlankInv, CycleInv, VerdictsAreRecent, OrderInv, ReadingsOrderInv,
     ExternalInv, ExpectedInv, AnsweredInv, MayBeShown, IsVerdict

LEMMA ReceiveInv ==
  ASSUME IInv, NEW made \in 0..now, NEW report \in Sent, Receive(made, report)
  PROVE  IInv'
<1> DEFINE got == [kind |-> "report", body |-> report.body, shards |-> report.shards, made |-> made,
                   ts |-> made + offset, at |-> now]
<1>1. /\ held' = got /\ held' # Nothing /\ held'.made = made /\ held'.at = now /\ held'.ts = made + offset
      /\ UNCHANGED <<now, offset, latest, snapshot, pc, started, expected, pushed, fetched, listed, readings, cycles>>
  BY DEF Receive, cycleVars, Nothing
<1>2. now \in Nat /\ offset \in Int /\ offset \in (-Skew)..Skew /\ Skew \in Nat /\ ReplayWindow \in Nat
  BY ConstantTypes DEF IInv, TypeOK
<1>3. TypeOK'
  <2>1. held' \in HeldReports
    BY <1>1, <1>2, PlatformAssumption DEF HeldReports, PlatformAssumption
  <2>2. QED
    BY <1>1, <2>1 DEF IInv, TypeOK
<1>4. held # Nothing => held.made \in Nat /\ held.made <= made
  <2> HAVE held # Nothing
  <2>1. held \in HeldReports /\ held.ts = held.made + offset /\ held.ts <= made + offset
    BY DEF IInv, TypeOK, HeldInv, Receive, NotOlder
  <2>2. QED
    BY <1>2, <2>1 DEF HeldReports
<1>5. HeldInv'
  <2>1. now - (made + offset) <= ReplayWindow
    BY DEF Receive, InWindow
  <2>2. QED
    BY <1>1, <1>2, <2>1 DEF HeldInv
<1>6. CycleInv' /\ VerdictsAreRecent' /\ ReadingsOrderInv'
  <2>1. pushed # Nothing => pushed.made \in Nat
    BY Types DEF IInv, HeldReports
  <2>2. \A r \in readings : IsVerdict(r) => r.made \in Int
    BY DEF IInv, TypeOK, Readings, Never
  <2>3. QED
    BY <1>1, <1>2, <1>4, <2>1, <2>2
       DEF IInv, CycleInv, VerdictsAreRecent, ReadingsOrderInv, IsVerdict, MaxAge
<1>7. OrderInv'
  <2>1. \A s \in Reported : IsVerdict(latest[s]) => latest[s].made \in Int
    BY DEF IInv, TypeOK, Rows, IsVerdict, Never
  <2>2. QED
    BY <1>1, <1>2, <1>4, <2>1 DEF IInv, OrderInv, IsVerdict
<1>8. BlankInv' /\ ExternalInv' /\ ExpectedInv' /\ AnsweredInv'
  BY <1>1 DEF IInv, BlankInv, ExternalInv, ExpectedInv, AnsweredInv, MayBeShown, ReadingsOf
<1>9. QED
  BY <1>3, <1>5, <1>6, <1>7, <1>8 DEF IInv

LEMMA StartCycleInv ==
  ASSUME IInv, StartCycle
  PROVE  IInv'
<1>1. /\ pc = "idle" /\ pc' = "site" /\ started' = now /\ expected' = Expected /\ cycles' = cycles + 1
      /\ UNCHANGED <<now, offset, held, latest, snapshot, pushed, fetched, listed, readings>>
  BY DEF StartCycle
<1>2. pushed = Nothing /\ fetched = Nothing /\ listed = Nothing /\ readings = {}
  BY <1>1 DEF IInv, BlankInv
<1>3. Expected \subseteq Reported
  BY DEF Expected, RecentlyReported, Reported, Services
<1>4. TypeOK'
  BY <1>1, <1>2, <1>3 DEF IInv, TypeOK
<1>5. HeldInv' /\ BlankInv' /\ VerdictsAreRecent'
  BY <1>1 DEF IInv, HeldInv, BlankInv, VerdictsAreRecent
<1>6. CycleInv' /\ ReadingsOrderInv'
  BY <1>1, <1>2 DEF CycleInv, ReadingsOrderInv, Nothing
<1>7. OrderInv' /\ ExternalInv'
  BY <1>1, <1>2 DEF IInv, OrderInv, ExternalInv, ReadingsOf, IsVerdict
<1>8. ExpectedInv'
  <2>1. ASSUME NEW s \in Reported, MayBeShown(s)
        PROVE  s \in Expected \cup FromReadiness
    <3>1. latest[s] \in Rows
      BY <2>1 DEF MayBeShown, IInv, TypeOK
    <3>2. latest[s].road = "external" => s \in FromReadiness
      BY <2>1 DEF MayBeShown, IInv, ExternalInv
    <3>3. QED
      BY <2>1, <3>1, <3>2 DEF Rows, Roads, MayBeShown, Expected, RecentlyReported
  <2>2. QED
    BY <1>1, <2>1 DEF ExpectedInv, MayBeShown
<1>9. AnsweredInv'
  BY <1>1 DEF AnsweredInv
<1>10. QED
  BY <1>4, <1>5, <1>6, <1>7, <1>8, <1>9 DEF IInv

LEMMA CheckSiteInv ==
  ASSUME IInv, NEW s \in PossibleSites, CheckSite(s)
  PROVE  IInv'
<1>1. /\ pc = "site" /\ pc' \in {"status", "platform"}
      /\ readings' = ReadinessReadings(s)
      /\ pushed' \in {Nothing, FreshReport}
      /\ UNCHANGED <<now, offset, held, latest, snapshot, started, expected, fetched, listed, cycles>>
  BY DEF CheckSite
<1>2. fetched = Nothing /\ listed = Nothing /\ pushed = Nothing /\ readings = {}
  BY <1>1 DEF IInv, BlankInv
<1>3. /\ readings' \subseteq Readings
      /\ \A r \in readings' : /\ r.road = "external" /\ r.service \in FromReadiness
                              /\ IsVerdict(r) => r.made = now
      /\ \A d \in FromReadiness : \E r \in readings' : r.service = d
  BY <1>1, UsableReadiness DEF IInv, PossibleSites
<1>4. pushed' # Nothing => /\ held # Nothing /\ pushed' = held /\ held \in HeldReports
                           /\ now - held.at <= Fresh
  BY <1>1 DEF FreshReport, IInv, TypeOK
<1>5. now \in Nat /\ started \in Nat /\ started <= now /\ Fresh \in Nat /\ ReplayWindow \in Nat /\ Skew \in Nat
  BY ConstantTypes DEF IInv, TypeOK
<1>6. TypeOK'
  BY <1>1, <1>3, <1>4 DEF IInv, TypeOK
<1>7. HeldInv' /\ BlankInv' /\ VerdictsAreRecent' /\ ExpectedInv' /\ AnsweredInv'
  BY <1>1 DEF IInv, HeldInv, BlankInv, VerdictsAreRecent, ExpectedInv, AnsweredInv, MayBeShown
<1>8. CycleInv'
  <2>1. pushed' # Nothing => started - pushed'.made <= MaxAge /\ pushed'.made <= held.made
    BY <1>4, <1>5 DEF IInv, HeldInv, HeldReports, MaxAge
  <2>2. \A r \in readings' : IsVerdict(r) => r.made # Never /\ started - r.made <= MaxAge
    BY <1>3, <1>5 DEF MaxAge, Never
  <2>3. fetched.kind # "report" /\ listed.kind # "list"
    BY <1>2 DEF Nothing
  <2>4. QED
    BY <1>1, <1>4, <2>1, <2>2, <2>3 DEF CycleInv, IsVerdict, MaxAge
<1>9. OrderInv' /\ ReadingsOrderInv'
  BY <1>1, <1>3, <1>4 DEF IInv, OrderInv, ReadingsOrderInv, IsVerdict
<1>10. ExternalInv'
  BY <1>1, <1>3 DEF IInv, ExternalInv, ReadingsOf
<1>11. QED
  BY <1>6, <1>7, <1>8, <1>9, <1>10 DEF IInv

LEMMA FetchInv ==
  ASSUME IInv,
         \/ \E answer \in ReportsBy({now}) \cup {Failed} : FetchStatus(answer)
         \/ \E answer \in ListsBy({now}) \cup {Failed} : FetchShards(answer)
  PROVE  IInv'
<1>1. /\ pc \in {"status", "shards"} /\ pc' \in {"shards", "platform"}
      /\ UNCHANGED <<now, offset, held, latest, snapshot, started, expected, pushed, readings, cycles>>
  BY DEF FetchStatus, FetchShards
<1>2. /\ fetched' \in {fetched, Failed} \/ fetched' \in ReportsBy({now})
      /\ listed' \in {listed, Failed} \/ listed' \in ListsBy({now})
  BY DEF FetchStatus, FetchShards
<1>3. now \in Nat /\ started \in Nat /\ started <= now
  BY DEF IInv, TypeOK
<1>4. fetched' \in ReportsBy(0..now) \cup {Nothing, Failed} /\ listed' \in ListsBy(0..now) \cup {Nothing, Failed}
  BY <1>2, <1>3 DEF IInv, TypeOK, ReportsBy, ListsBy
<1>5. TypeOK'
  BY <1>1, <1>4 DEF IInv, TypeOK
<1>6. HeldInv' /\ BlankInv' /\ VerdictsAreRecent' /\ OrderInv' /\ ReadingsOrderInv'
  BY <1>1 DEF IInv, HeldInv, BlankInv, VerdictsAreRecent, OrderInv, ReadingsOrderInv, IsVerdict
<1>7. CycleInv'
  <2>1. fetched'.kind = "report" => started <= fetched'.made
    BY <1>2, <1>3 DEF IInv, CycleInv, ReportsBy, Failed
  <2>2. listed'.kind = "list" => started <= listed'.made
    BY <1>2, <1>3 DEF IInv, CycleInv, ListsBy, Failed
  <2>3. QED
    BY <1>1, <2>1, <2>2 DEF IInv, CycleInv, IsVerdict, MaxAge
<1>8. ExternalInv' /\ ExpectedInv' /\ AnsweredInv'
  BY <1>1 DEF IInv, ExternalInv, ExpectedInv, AnsweredInv, MayBeShown, ReadingsOf
<1>9. QED
  BY <1>5, <1>6, <1>7, <1>8 DEF IInv

LEMMA TakePlatformInv ==
  ASSUME IInv, TakePlatform
  PROVE  IInv'
<1> DEFINE shardReadings == IF ShardList = Nothing THEN {} ELSE ShardReadings(ShardList)
<1>1. /\ pc = "platform" /\ pc' = "others"
      /\ expected' = {} /\ pushed' = Nothing /\ listed' = Nothing
      /\ readings' = readings \cup PlatformReadings \cup shardReadings
      /\ UNCHANGED <<now, offset, held, latest, started, fetched, cycles>>
  BY DEF TakePlatform
<1>2. \A r \in PlatformReadings \cup shardReadings : Usable(r)
  BY UsablePlatform, UsableShards DEF IInv
<1>3. fetched.kind # "report" => \A s \in expected : \E r \in readings' : r.service = s
  BY <1>1, UsablePlatform DEF IInv
<1>4. snapshot' \in PartialReports(Shards)
  <2>1. snapshot \in PartialReports(Shards)
    BY DEF IInv, TypeOK
  <2>2. AllUnknown \in [DOMAIN snapshot -> Statuses] /\ DOMAIN snapshot \in SUBSET Shards
    BY <2>1, PartialShape DEF AllUnknown, Statuses
  <2>3. AllUnknown \in PartialReports(Shards)
    BY <2>2, PartialMade
  <2>4. ShardList # Nothing => ShardList.states \in PartialReports(Shards)
    BY UsableShards DEF IInv
  <2>5. QED
    BY <2>1, <2>3, <2>4 DEF TakePlatform, StoredSnapshot
<1> HIDE DEF shardReadings
<1>5. TypeOK'
  <2>1. readings' \subseteq Readings
    BY <1>1, <1>2 DEF Usable, IInv, TypeOK
  <2>2. QED
    BY <1>1, <1>4, <2>1 DEF IInv, TypeOK
<1>6. HeldInv' /\ BlankInv' /\ VerdictsAreRecent'
  BY <1>1 DEF IInv, HeldInv, BlankInv, VerdictsAreRecent
<1>7. CycleInv'
  <2>1. \A r \in readings' : IsVerdict(r) => r.made # Never /\ started - r.made <= MaxAge
    BY <1>1, <1>2 DEF Usable, IInv, CycleInv
  <2>2. listed'.kind # "list"
    BY <1>1 DEF Nothing
  <2>3. QED
    BY <1>1, <2>1, <2>2 DEF IInv, CycleInv, IsVerdict, MaxAge
<1>8. OrderInv' /\ ReadingsOrderInv'
  <2>1. \A r \in readings' : r \in readings \/ Usable(r)
    BY <1>1, <1>2
  <2>2. \A r \in readings' : IsVerdict(r) /\ r.road = "push" => held # Nothing /\ r.made <= held.made
    BY <2>1 DEF Usable, IInv, CycleInv, ReadingsOrderInv
  <2>3. \A s \in Reported : IsVerdict(latest[s]) /\ latest[s].road = "push" =>
          \A r \in readings' : IsVerdict(r) /\ r.road = "push" => latest[s].made <= r.made
    BY <2>1 DEF Usable, IInv, OrderInv
  <2>4. QED
    BY <1>1, <2>2, <2>3 DEF IInv, OrderInv, ReadingsOrderInv, IsVerdict
<1>9. ExternalInv'
  <2>1. \A r \in readings' : r.road = "external" => r.service \in FromReadiness
    BY <1>1, <1>2 DEF Usable, IInv, ExternalInv
  <2>2. \A d \in FromReadiness : ReadingsOf(d)' # {}
    BY <1>1 DEF IInv, ExternalInv, ReadingsOf
  <2>3. QED
    BY <1>1, <2>1, <2>2 DEF IInv, ExternalInv
<1>10. ExpectedInv'
  BY <1>1 DEF ExpectedInv
<1>11. AnsweredInv'
  <2>1. ASSUME fetched.kind # "report", NEW s \in Reported, MayBeShown(s)
        PROVE  ReadingsOf(s)' # {}
    <3>1. s \in expected \cup FromReadiness
      BY <1>1, <2>1 DEF IInv, ExpectedInv
    <3>2. CASE s \in expected
      BY <1>3, <2>1, <3>2 DEF ReadingsOf
    <3>3. CASE s \in FromReadiness
      BY <1>1, <3>3 DEF IInv, ExternalInv, ReadingsOf
    <3>4. QED
      BY <3>1, <3>2, <3>3
  <2>2. QED
    BY <1>1, <2>1 DEF AnsweredInv, MayBeShown
<1>12. QED
  BY <1>5, <1>6, <1>7, <1>8, <1>9, <1>10, <1>11 DEF IInv

\* A cycle that has ended has forgotten everything.
LEMMA ForgottenInv ==
  ASSUME IInv, Forget, UNCHANGED <<now, offset, held, cycles>>,
         latest' \in [Reported -> Rows \cup {Nothing}], snapshot' \in PartialReports(Shards),
         VerdictsAreRecent',
         \A s \in Reported : /\ IsVerdict(latest'[s]) /\ latest'[s].road = "push" =>
                                  held # Nothing /\ latest'[s].made <= held.made
                             /\ latest'[s] # Nothing /\ latest'[s].road = "external" => s \in FromReadiness
  PROVE  IInv'
<1>1. /\ pc' = "idle" /\ started' = 0 /\ expected' = {} /\ readings' = {}
      /\ pushed' = Nothing /\ fetched' = Nothing /\ listed' = Nothing
  BY DEF Forget
<1>2. TypeOK'
  BY <1>1 DEF IInv, TypeOK
<1>3. HeldInv' /\ BlankInv' /\ ExpectedInv' /\ AnsweredInv' /\ ReadingsOrderInv' /\ ExternalInv' /\ OrderInv'
  BY <1>1 DEF IInv, HeldInv, BlankInv, ExpectedInv, AnsweredInv, ReadingsOrderInv, ExternalInv, OrderInv, IsVerdict
<1>4. CycleInv'
  BY <1>1 DEF CycleInv, Nothing
<1>5. QED
  BY <1>2, <1>3, <1>4 DEF IInv

\* The row stored of a service: its merged reading, or the one there was.
LEMMA StoredRow ==
  ASSUME IInv, FinishCycle, NEW s \in Reported
  PROVE  \/ ReadingsOf(s) = {} /\ latest'[s] = latest[s]
         \/ /\ Merged(s) \in readings /\ Merged(s).service = s
            /\ latest'[s] = Row(Merged(s)) /\ latest'[s] # Nothing
            /\ latest'[s] \in Rows
<1>1. latest'[s] = IF ReadingsOf(s) = {} THEN latest[s] ELSE Row(Merged(s))
  BY DEF FinishCycle
<1>2. CASE ReadingsOf(s) # {}
  <2>1. Merged(s) \in readings /\ Merged(s).service = s /\ Merged(s) \in Readings
    BY <1>2, MergedReading DEF IInv, TypeOK
  <2>2. Row(Merged(s)) \in Rows
    BY <2>1, Types DEF IInv, Row, Rows, Readings
  <2>3. Row(Merged(s)) # Nothing
    BY DEF Row, Nothing
  <2>4. QED
    BY <1>1, <1>2, <2>1, <2>2, <2>3
<1>3. QED
  BY <1>1, <1>2

LEMMA FinishCycleInv ==
  ASSUME IInv, FinishCycle
  PROVE  IInv'
<1>1. /\ pc = "others" /\ Forget
      /\ UNCHANGED <<now, offset, held, snapshot, cycles>>
  BY DEF FinishCycle
<1>2. latest' \in [Reported -> Rows \cup {Nothing}]
  <2>1. \A s \in Reported : latest'[s] \in Rows \cup {Nothing}
    BY StoredRow DEF IInv, TypeOK
  <2>2. QED
    BY <2>1 DEF FinishCycle
<1>3. ASSUME NEW s \in Reported
      PROVE  /\ IsVerdict(latest'[s]) => latest'[s].made # Never /\ latest'[s].asked - latest'[s].made <= MaxAge
             /\ IsVerdict(latest'[s]) /\ latest'[s].road = "push" => held # Nothing /\ latest'[s].made <= held.made
             /\ latest'[s] # Nothing /\ latest'[s].road = "external" => s \in FromReadiness
  <2>1. CASE latest'[s] = latest[s]
    BY <2>1 DEF IInv, VerdictsAreRecent, OrderInv, ExternalInv, IsVerdict
  <2>2. CASE Merged(s) \in readings /\ Merged(s).service = s /\ latest'[s] = Row(Merged(s))
    <3>1. /\ latest'[s].status = Merged(s).status /\ latest'[s].road = Merged(s).road
          /\ latest'[s].made = Merged(s).made /\ latest'[s].asked = started
      BY <2>2 DEF Row
    <3>2. Merged(s) # Nothing
      BY <2>2 DEF IInv, TypeOK, Readings, Nothing
    <3>3. QED
      BY <2>2, <3>1, <3>2 DEF IInv, CycleInv, ReadingsOrderInv, ExternalInv, IsVerdict
  <2>3. QED
    BY <2>1, <2>2, StoredRow
<1>4. VerdictsAreRecent'
  BY <1>3 DEF VerdictsAreRecent, IsVerdict, MaxAge
<1>5. QED
  BY <1>1, <1>2, <1>3, <1>4, ForgottenInv DEF IInv, TypeOK

LEMMA StopCycleInv ==
  ASSUME IInv, StopCycle
  PROVE  IInv'
<1>1. Forget /\ UNCHANGED <<now, offset, held, latest, cycles>>
  BY DEF StopCycle
<1>2. snapshot' \in PartialReports(Shards)
  <2>1. CASE UNCHANGED snapshot
    BY <2>1 DEF IInv, TypeOK
  <2>2. CASE /\ ShardList # Nothing
             /\ \E part \in SUBSET DOMAIN ShardList.states :
                  snapshot' = [s \in part |-> ShardList.states[s]]
    <3>1. ShardList.states \in PartialReports(Shards)
      BY <2>2, UsableShards DEF IInv
    <3>2. DOMAIN ShardList.states \subseteq Shards /\ \A s \in DOMAIN ShardList.states : ShardList.states[s] \in Statuses
      BY <3>1, PartialShape
    <3>3. PICK part \in SUBSET DOMAIN ShardList.states : snapshot' = [s \in part |-> ShardList.states[s]]
      BY <2>2
    <3>4. snapshot' \in [part -> Statuses] /\ part \in SUBSET Shards
      BY <3>2, <3>3
    <3>5. QED
      BY <3>4, PartialMade
  <2>3. QED
    BY <2>1, <2>2 DEF StopCycle
<1>3. VerdictsAreRecent'
  BY <1>1 DEF IInv, VerdictsAreRecent
<1>4. QED
  BY <1>1, <1>2, <1>3, ForgottenInv DEF IInv, TypeOK, OrderInv, ExternalInv

LEMMA ResetInv ==
  ASSUME IInv, Reset
  PROVE  IInv'
<1>1. /\ \A s \in Reported : latest'[s] = Nothing
      /\ latest' = [s \in Reported |-> Nothing]
      /\ snapshot' \in {snapshot, [s \in {} |-> "unknown"]}
      /\ UNCHANGED <<now, offset, held, pc, started, expected, pushed, fetched, listed, readings, cycles>>
  BY DEF Reset, cycleVars
<1>2. TypeOK'
  <2>1. [s \in {} |-> "unknown"] \in [{} -> Statuses] /\ {} \in SUBSET Shards
    OBVIOUS
  <2>2. snapshot' \in PartialReports(Shards)
    BY <1>1, <2>1, PartialMade DEF IInv, TypeOK
  <2>3. latest' \in [Reported -> Rows \cup {Nothing}]
    BY <1>1
  <2>4. QED
    BY <1>1, <2>2, <2>3 DEF IInv, TypeOK
<1>3. HeldInv' /\ BlankInv' /\ CycleInv' /\ ReadingsOrderInv'
  BY <1>1 DEF IInv, HeldInv, BlankInv, CycleInv, ReadingsOrderInv, IsVerdict, MaxAge
<1>4. VerdictsAreRecent' /\ OrderInv' /\ ExpectedInv' /\ AnsweredInv'
  BY <1>1 DEF VerdictsAreRecent, OrderInv, ExpectedInv, AnsweredInv, MayBeShown, IsVerdict
<1>5. ExternalInv'
  BY <1>1 DEF IInv, ExternalInv, ReadingsOf
<1>6. QED
  BY <1>2, <1>3, <1>4, <1>5 DEF IInv

LEMMA TickInv ==
  ASSUME IInv, Tick
  PROVE  IInv'
<1>1. /\ now' = now + 1
      /\ UNCHANGED <<offset, held, latest, snapshot, pc, started, expected, pushed, fetched, listed, readings, cycles>>
  BY DEF Tick, cycleVars
<1>2. now \in Nat
  BY DEF IInv, TypeOK
<1>3. TypeOK'
  BY <1>1, <1>2 DEF IInv, TypeOK, ReportsBy, ListsBy
<1>4. HeldInv'
  BY <1>1, <1>2 DEF IInv, TypeOK, HeldInv, HeldReports
<1>5. BlankInv' /\ CycleInv' /\ VerdictsAreRecent' /\ OrderInv' /\ ReadingsOrderInv' /\ ExternalInv'
  BY <1>1 DEF IInv, BlankInv, CycleInv, VerdictsAreRecent, OrderInv, ReadingsOrderInv, ExternalInv, ReadingsOf,
     IsVerdict, MaxAge
<1>6. \A s \in Reported : MayBeShown(s)' => MayBeShown(s)
  BY <1>1, <1>2, ConstantTypes DEF IInv, TypeOK, MayBeShown, Rows
<1>7. ExpectedInv' /\ AnsweredInv'
  BY <1>1, <1>6 DEF IInv, ExpectedInv, AnsweredInv, ReadingsOf
<1>8. QED
  BY <1>3, <1>4, <1>5, <1>7 DEF IInv

LEMMA StutterInv == IInv /\ UNCHANGED vars => IInv'
BY DEF IInv, TypeOK, HeldInv, BlankInv, CycleInv, VerdictsAreRecent, OrderInv, ReadingsOrderInv, ExternalInv,
   ExpectedInv, AnsweredInv, MayBeShown, ReadingsOf, IsVerdict, MaxAge, vars, cycleVars, ReportsBy, ListsBy

LEMMA StepInv == IInv /\ [Next]_vars => IInv'
<1> SUFFICES ASSUME IInv, [Next]_vars PROVE IInv'
  OBVIOUS
<1>1. CASE \E made \in 0..now, report \in Sent : Receive(made, report)
  BY <1>1, ReceiveInv
<1>2. CASE StartCycle
  BY <1>2, StartCycleInv
<1>3. CASE \E s \in PossibleSites : CheckSite(s)
  BY <1>3, CheckSiteInv
<1>4. CASE \/ \E answer \in ReportsBy({now}) \cup {Failed} : FetchStatus(answer)
           \/ \E answer \in ListsBy({now}) \cup {Failed} : FetchShards(answer)
  BY <1>4, FetchInv
<1>5. CASE TakePlatform
  BY <1>5, TakePlatformInv
<1>6. CASE FinishCycle
  BY <1>6, FinishCycleInv
<1>7. CASE StopCycle
  BY <1>7, StopCycleInv
<1>8. CASE Reset
  BY <1>8, ResetInv
<1>9. CASE Tick
  BY <1>9, TickInv
<1>10. CASE UNCHANGED vars
  BY <1>10, StutterInv
<1>11. QED
  BY <1>1, <1>2, <1>3, <1>4, <1>5, <1>6, <1>7, <1>8, <1>9, <1>10 DEF Next

\* The invariant above holds in every state.
THEOREM Inductive == Spec => []IInv
BY InitInv, StepInv, PTL DEF Spec

-----------------------------------------------------------------------------
(* The theorems.                                                           *)

\* Every variable keeps its type, whatever is sent, fetched or fails.
THEOREM TypeCorrect == Spec => []TypeOK
<1>1. IInv => TypeOK
  BY DEF IInv
<1>2. QED
  BY <1>1, Inductive, PTL

\* A verdict is one the platform gave, at most MaxAge before the cycle that
\* stored it.
THEOREM Recency == Spec => []VerdictsAreRecent
<1>1. IInv => VerdictsAreRecent
  BY DEF IInv
<1>2. QED
  BY <1>1, Inductive, PTL

\* In a cycle that could not fetch the report no earlier verdict is left on the
\* page, of services that come and go neither.
THEOREM NoneLeft == Spec => NothingLeftShowing
<1>1. ASSUME IInv, FinishCycle, fetched.kind # "report", NEW s \in Reported,
             ShownOf(latest'[s]) # "unknown", ReadingsOf(s) = {}
      PROVE  FALSE
  <2>1. latest'[s] = latest[s]
    BY <1>1 DEF FinishCycle
  <2>2. latest[s] # Nothing /\ now - latest[s].at <= Stale /\ latest[s] \in Rows
    BY <1>1, <2>1 DEF ShownOf, IInv, TypeOK
  <2>3. MayBeShown(s)
    <3>1. latest[s].at \in Nat /\ now \in Nat /\ Stale \in Nat /\ Recent \in Nat /\ Stale <= Recent
      BY <1>1, <2>2, ConstantTypes, PlatformAssumption DEF IInv, TypeOK, Rows, PlatformAssumption
    <3>2. QED
      BY <2>2, <3>1 DEF MayBeShown
  <2>4. QED
    BY <1>1, <2>3 DEF IInv, AnsweredInv, FinishCycle
<1>2. IInv /\ [Next]_vars =>
        [FinishCycle /\ fetched.kind # "report" =>
           \A s \in Reported : ShownOf(latest'[s]) # "unknown" => ReadingsOf(s) # {}]_vars
  BY <1>1
<1>3. QED
  BY <1>2, Inductive, PTL DEF Spec, NothingLeftShowing

\* What is shown of a sent report is never followed by what an older one said.
THEOREM SentOrder == Spec => PushedInOrder
<1>1. ASSUME IInv, [Next]_vars, NEW s \in Reported,
             IsVerdict(latest[s]), latest[s].road = "push",
             IsVerdict(latest'[s]), latest'[s].road = "push"
      PROVE  latest[s].made <= latest'[s].made
  <2>1. latest[s].made \in Int
    BY <1>1 DEF IInv, TypeOK, IsVerdict, Rows, Never
  <2>2. CASE FinishCycle
    <3>1. CASE latest'[s] = latest[s]
      BY <2>1, <3>1
    <3>2. CASE Merged(s) \in readings /\ latest'[s] = Row(Merged(s))
      <4>1. /\ latest'[s].status = Merged(s).status /\ latest'[s].road = Merged(s).road
            /\ latest'[s].made = Merged(s).made
        BY <3>2 DEF Row
      <4>2. Merged(s) # Nothing
        BY <1>1, <3>2 DEF IInv, TypeOK, Readings, Nothing
      <4>3. QED
        BY <1>1, <3>2, <4>1, <4>2 DEF IInv, OrderInv, IsVerdict
    <3>3. QED
      BY <1>1, <2>2, <3>1, <3>2, StoredRow
  <2>3. CASE Reset
    BY <1>1, <2>3 DEF Reset, IsVerdict
  <2>4. CASE UNCHANGED latest
    BY <2>1, <2>4
  <2>5. QED
    BY <1>1, <2>2, <2>3, <2>4
       DEF Next, Receive, StartCycle, CheckSite, FetchStatus, FetchShards, TakePlatform, StopCycle, Tick, vars
<1>2. IInv /\ [Next]_vars =>
        [\A s \in Reported :
           /\ latest[s] # Nothing /\ latest[s].road = "push" /\ latest[s].status # "unknown"
           /\ latest'[s] # Nothing /\ latest'[s].road = "push" /\ latest'[s].status # "unknown"
           => latest[s].made <= latest'[s].made]_vars
  BY <1>1 DEF IsVerdict
<1>3. QED
  BY <1>2, Inductive, PTL DEF Spec, PushedInOrder

=============================================================================
