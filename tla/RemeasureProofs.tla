---------------------------- MODULE RemeasureProofs ----------------------------
(***************************************************************************)
(* What holds of Remeasure for every history, any number of cycles in a    *)
(* day, any handover, retention and length of the run, and any incidents   *)
(* with an explanation: what reached us stays down, days before the        *)
(* handover show what was really checked, and a full correction leaves     *)
(* nothing to do, all but for the checks of a day's first minutes that     *)
(* were pruned.                                                            *)
(***************************************************************************)
EXTENDS Remeasure, TLAPS, FiniteSetTheorems, WellFoundedInduction

-----------------------------------------------------------------------------
(* The inductive invariant.                                                *)

Figure == {f \in [total : 0..PerDay, failed : 0..PerDay] : f.failed <= f.total}

Types ==
  /\ history \in [OldCycles -> Outcome] /\ now \in Cycles
  /\ rows \in [Services \X Cycles -> Row \cup {NoRow}]
  /\ daily \in [Services \X Days -> Figure] /\ original \in [Services \X Days -> Figure]
  /\ done \in {"none", "some", "full"}

\* The rows that are still there are the last ones, of every service alike.
Presence ==
  /\ now \in Cycles /\ Handover - 1 <= now /\ rows[<<"site", now>>] # NoRow
  /\ \A s \in Services, k \in Cycles : rows[<<s, k>>] # NoRow <=> rows[<<"site", k>>] # NoRow
  /\ \A k \in Cycles : rows[<<"site", k>>] # NoRow =>
       k <= now /\ \A j \in k..now : rows[<<"site", j>>] # NoRow

\* A row is the one that was written, or says that it was corrected, which may
\* only be an old one that is not real.
CorrectedRow == [status |-> "unknown", error |-> "corrected", orig |-> "down"]

RowsAre ==
  /\ \A s \in Services, k \in OldCycles :
       \/ rows[<<s, k>>] \in {NoRow, OldRow(s, k)}
       \/ OldRow(s, k).status = "down" /\ ~Real(s, k) /\ rows[<<s, k>>] = CorrectedRow
  /\ \A s \in Services, k \in Cycles \ OldCycles :
       rows[<<s, k>>] \in {NoRow, NewRow(s, TRUE), NewRow(s, FALSE)}

\* What was published of an old day first, and the part of it that reached us.
First(s, day) ==
  [total |-> Cardinality(CyclesOf(day)),
   failed |-> Cardinality({k \in CyclesOf(day) : OldRow(s, k).status = "down"})]
Reached(day) == {k \in CyclesOf(day) : history[k].site = "reached"}
Seen(day) == Cardinality(Reached(day) \ Lost("site", day))

\* A figure of the service that leaves out at most first checks that are gone.
ExactBut(day, f) ==
  \E few \in 0..(Margin - 1) :
    /\ \A k \in CyclesOf(day) : Offset(k) < few => rows[<<"service", k>>] = NoRow
    /\ f = Truth(day, few)

FiguresAre ==
  \A d \in OldDays :
    /\ \A s \in Services : Published(s, d) = First(s, d)
    /\ daily[<<"service", d>>] = First("service", d) \/ ExactBut(d, daily[<<"service", d>>])
    /\ daily[<<"site", d>>].failed >= Seen(d)

\* What a correction changes, by the rows r and their neighbours alone.
GoodAt(r, k) == k \in Cycles /\ r[<<"site", k>>].status = "up"
Excusable(r, k, keep) ==
  /\ r[<<"site", k>>].status = "down" /\ r[<<"site", k>>].error # "reached"
  /\ \/ r[<<"site", k>>].error = "resolver"
     \/ r[<<"site", k>>].error = "connect" /\ r[<<"dns", k>>].status = "down"
     \/ ~keep /\ GoodAt(r, k - 1) /\ GoodAt(r, k + 1)
Changeable(r, s, k, keep) ==
  /\ r[<<s, k>>].status = "down"
  /\ \/ s = "service" /\ r[<<s, k>>].error = "guessed"
     \/ s = "site" /\ Excusable(r, k, keep)
     \/ /\ s = "dns" /\ r[<<"site", k>>] # NoRow
        /\ r[<<"site", k>>].status # "down" \/ Excusable(r, k, keep)

\* A day that counts as complete, and what its rows once were.
Counted(day) == \E j \in CyclesOf(day) : Offset(j) < Margin /\ rows[<<"site", j>>] # NoRow
Covers(r, s, day) ==
  \A k \in CyclesOf(day) : rows[<<s, k>>] # NoRow => r[<<s, k>>] = rows[<<s, k>>]

\* Checks and failures of a day, and its changed rows.
UpOf(r, s, d) == {k \in CyclesOf(d) : r[<<s, k>>].status = "up"}
DownOf(r, s, d) == {k \in CyclesOf(d) : r[<<s, k>>].status = "down"}
ChangedOf(changes, s, d) == {k \in CyclesOf(d) : <<s, k>> \in changes}

RecountFrom(r, s, day, changes) ==
  LET c == Count(r, s, day)
      fewer == Cardinality({x \in changes : x[1] = s /\ Day(x[2]) = day})
  IN  [total |-> c.total - fewer, failed |-> c.failed - fewer]

\* A plan stays true of what it was made from, however long it waits.
PlanFits(p) ==
  /\ p.daily \in [Services \X Days -> Figure]
  /\ p.changes \subseteq Services \X OldCycles
  /\ \A x \in p.changes : ~Real(x[1], x[2]) /\ (rows[x] # NoRow => rows[x].status = "down")
  /\ \A k \in OldCycles : <<"site", k>> \in p.changes /\ rows[<<"dns", k>>].status = "down" =>
       <<"dns", k>> \in p.changes
  /\ \A s \in Services, d \in OldDays :
       /\ p.before[<<s, d>>] = daily[<<s, d>>]
       /\ Counted(d) => \E r : /\ Covers(r, s, d)
                               /\ ChangedOf(p.changes, s, d) \subseteq DownOf(r, s, d)
                               /\ p.daily[<<s, d>>] = RecountFrom(r, s, d, p.changes)
  /\ \A d \in OldDays : /\ ExactBut(d, p.daily[<<"service", d>>])
                         /\ p.daily[<<"site", d>>].failed >= Seen(d)
  /\ p.newer => Handover <= now
  /\ p.newer /\ ~p.keep =>
       \A s \in Services, k \in OldCycles : Changeable(rows, s, k, FALSE) => <<s, k>> \in p.changes

PlanIs == plan # NoPlan => PlanFits(plan)

\* What a correction has put right stays right.
DoneIs ==
  /\ OldDaysExact
  /\ done = "full" =>
       /\ Handover <= now
       /\ \A s \in Services, k \in OldCycles : ~Changeable(rows, s, k, FALSE)
       /\ plan # NoPlan => plan.changes = {}
       /\ \A s \in Services, d \in OldDays :
            Counted(d) => \E r : Covers(r, s, d) /\ daily[<<s, d>>] = Count(r, s, d)

\* The incidents that a plan would remove are as groundless as those that went.
IncidentsAre ==
  /\ incidents \cup causes \subseteq Outages /\ late \subseteq causes
  /\ IncidentsStand
  /\ plan # NoPlan => /\ plan.drop \cap causes \subseteq late /\ plan.drop \subseteq Outages
                      /\ \A i \in plan.drop : Groundless(i)

IInv == Types /\ Presence /\ RowsAre /\ FiguresAre /\ PlanIs /\ DoneIs /\ IncidentsAre

USE RemeasureAssumption

-----------------------------------------------------------------------------
(* Days and cycles.                                                        *)

LEMMA LeastExists ==
  ASSUME NEW S \in SUBSET Nat, S # {}
  PROVE  \E x \in S : \A y \in S : x <= y
<1>1. PICK x \in S : \A y \in S : ~(<<y, x>> \in OpToRel(<, Nat))
  BY NatLessThanWellFounded, WFMin
<1>2. \A y \in S : ~(y < x)
  BY <1>1 DEF OpToRel
<1>3. QED
  BY <1>2

LEMMA MinIs ==
  ASSUME NEW S \in SUBSET Nat, S # {}
  PROVE  Min(S) \in S /\ \A y \in S : Min(S) <= y
<1>1. \E x \in S : \A y \in S : x <= y
  BY LeastExists
<1>2. QED
  BY <1>1 DEF Min

LEMMA MaxIs ==
  ASSUME NEW S \in SUBSET Nat, NEW x \in S, \A y \in S : y <= x
  PROVE  Max(S) = x
<1>1. \E m \in S : \A y \in S : m >= y
  OBVIOUS
<1>2. Max(S) \in S /\ \A y \in S : Max(S) >= y
  BY <1>1 DEF Max
<1>3. Max(S) <= x /\ x <= Max(S) /\ x \in Nat /\ Max(S) \in Nat
  BY <1>2
<1>4. QED
  BY <1>3

LEMMA MinIsLeast ==
  ASSUME NEW S \in SUBSET Nat, NEW x \in S, \A y \in S : x <= y
  PROVE  Min(S) = x
<1>1. Min(S) \in S /\ \A y \in S : Min(S) <= y
  BY MinIs
<1>2. Min(S) <= x /\ x <= Min(S) /\ x \in Nat /\ Min(S) \in Nat
  BY <1>1
<1>3. QED
  BY <1>2

\* What division by a positive number gives.
LEMMA DivisionIs ==
  ASSUME NEW p \in Nat \ {0}, NEW n \in Nat
  PROVE  /\ n \div p \in Nat /\ p * (n \div p) \in Nat
         /\ p * (n \div p) <= n /\ n < p * (n \div p) + p
         /\ n % p = n - p * (n \div p)
<1>1. n \div p \in Nat
  OBVIOUS
<1>2. p * (n \div p) <= n
  OBVIOUS
<1>3. n < p * (n \div p) + p
  OBVIOUS
<1>4. n - (n % p) = p * (n \div p)
  BY Z3
<1>5. p * (n \div p) \in Nat
  BY <1>1
<1>6. QED
  BY <1>1, <1>2, <1>3, <1>4, <1>5

\* A day is PerDay cycles in a row.
LEMMA DayIs ==
  ASSUME NEW k \in Nat \ {0}
  PROVE  /\ Day(k) \in Nat /\ PerDay * Day(k) \in Nat
         /\ PerDay * Day(k) < k /\ k <= PerDay * Day(k) + PerDay
         /\ Offset(k) \in Nat /\ Offset(k) = k - 1 - PerDay * Day(k)
<1>1. PerDay \in Nat \ {0} /\ k - 1 \in Nat
  OBVIOUS
<1> DEFINE q == (k - 1) \div PerDay
<1>2. /\ q \in Nat /\ PerDay * q \in Nat /\ PerDay * q <= k - 1 /\ k - 1 < PerDay * q + PerDay
      /\ (k - 1) % PerDay = k - 1 - PerDay * q
  BY <1>1, DivisionIs
<1>3. Day(k) = q /\ Offset(k) = (k - 1) % PerDay
  BY DEF Day, Offset
<1> HIDE DEF q
<1>4. QED
  BY <1>1, <1>2, <1>3

LEMMA TimesGrows ==
  ASSUME NEW a \in Nat, NEW b \in Nat, a < b
  PROVE  PerDay * a + PerDay <= PerDay * b
<1>1. PerDay \in Nat
  OBVIOUS
<1>2. PICK c \in Nat : b = a + 1 + c
  <2>1. b - a - 1 \in Nat /\ b = a + 1 + (b - a - 1)
    OBVIOUS
  <2>2. QED
    BY <2>1
<1>3. PerDay * b = PerDay * a + PerDay + PerDay * c
  BY <1>1, <1>2
<1>4. PerDay * c >= 0
  BY <1>1
<1>5. PerDay * a \in Nat /\ PerDay * b \in Nat
  BY <1>1
<1>6. QED
  BY <1>1, <1>3, <1>4, <1>5

LEMMA DayGrows ==
  ASSUME NEW j \in Nat \ {0}, NEW k \in Nat \ {0}, j <= k
  PROVE  Day(j) <= Day(k)
<1> SUFFICES ASSUME Day(k) < Day(j) PROVE FALSE
  BY DayIs
<1>1. PerDay * Day(k) + PerDay <= PerDay * Day(j)
  BY DayIs, TimesGrows
<1>2. QED
  BY <1>1, DayIs

LEMMA NextDay ==
  ASSUME NEW k \in Nat \ {0}
  PROVE  Day(k + 1) <= Day(k) + 1
<1> SUFFICES ASSUME Day(k) + 1 < Day(k + 1) PROVE FALSE
  BY DayIs
<1>1. PerDay * (Day(k) + 1) + PerDay <= PerDay * Day(k + 1)
  BY DayIs, TimesGrows
<1>2. PerDay * (Day(k) + 1) = PerDay * Day(k) + PerDay
  BY DayIs
<1>3. PerDay * Day(k) + PerDay + PerDay < k + 1
  BY <1>1, <1>2, DayIs
<1>4. QED
  BY <1>3, DayIs

LEMMA CyclesOfDay ==
  ASSUME NEW d \in Days
  PROVE  /\ d \in Nat /\ CyclesOf(d) # {} /\ CyclesOf(d) \subseteq Cycles
         /\ CyclesOf(d) \subseteq (PerDay * d + 1)..(PerDay * d + PerDay)
         /\ IsFiniteSet(CyclesOf(d))
         /\ Cardinality(CyclesOf(d)) \in 1..PerDay
<1>1. d \in Nat /\ PerDay * d \in Nat /\ CyclesOf(d) # {} /\ CyclesOf(d) \subseteq Cycles
  BY DayIs DEF Days, CyclesOf, Cycles
<1>2. CyclesOf(d) \subseteq (PerDay * d + 1)..(PerDay * d + PerDay)
  <2>1. ASSUME NEW k \in CyclesOf(d)
        PROVE  k \in (PerDay * d + 1)..(PerDay * d + PerDay)
    <3>1. k \in Nat \ {0} /\ Day(k) = d
      BY DEF CyclesOf, Cycles
    <3>2. PerDay * d < k /\ k <= PerDay * d + PerDay
      BY <3>1, DayIs
    <3>3. QED
      BY <1>1, <3>1, <3>2
  <2>2. QED
    BY <2>1
<1>3. PerDay \in Nat \ {0}
  OBVIOUS
<1> DEFINE I == (PerDay * d + 1)..(PerDay * d + PerDay)
<1>4. IsFiniteSet(I) /\ Cardinality(I) = PerDay
  <2> DEFINE m == PerDay * d
  <2>1. m \in Nat /\ I = (m + 1)..(m + PerDay)
    BY <1>1
  <2> HIDE DEF I, m
  <2>2. IsFiniteSet(I) /\ Cardinality(I) = (m + PerDay) - (m + 1) + 1
    BY <1>3, <2>1, FS_Interval
  <2>3. QED
    BY <1>3, <2>1, <2>2
<1> HIDE DEF I
<1>5. IsFiniteSet(CyclesOf(d)) /\ Cardinality(CyclesOf(d)) <= PerDay
  BY <1>2, <1>4, FS_Subset DEF I
<1>6. Cardinality(CyclesOf(d)) \in Nat /\ Cardinality(CyclesOf(d)) # 0
  BY <1>1, <1>5, FS_CardinalityType, FS_EmptySet
<1>7. QED
  BY <1>1, <1>2, <1>3, <1>5, <1>6

\* A day before the handover has none of the current prober's cycles, and is
\* over when it comes.
LEMMA OldDayIs ==
  ASSUME NEW d \in OldDays
  PROVE  /\ d \in Days /\ d \in Nat /\ CyclesOf(d) \subseteq OldCycles
         /\ \A k \in Cycles : k >= Handover - 1 => d <= Day(k)
         /\ \A k \in Cycles : k >= Handover => d # Day(k)
<1>1. d \in Days /\ d \in Nat /\ d < Day(Handover) /\ Handover - 1 \in Nat \ {0}
  BY CyclesOfDay DEF OldDays
<1>2. ASSUME NEW k \in Cycles, k >= Handover
      PROVE  d < Day(k)
  <2>1. k \in Nat \ {0} /\ Handover \in Nat \ {0}
    BY DEF Cycles
  <2>2. Day(Handover) <= Day(k) /\ Day(Handover) \in Nat /\ Day(k) \in Nat
    BY <1>2, <2>1, DayGrows, DayIs
  <2>3. QED
    BY <1>1, <2>2
<1>3. ASSUME NEW k \in Cycles, k >= Handover - 1
      PROVE  d <= Day(k)
  <2>1. Day(Handover - 1) <= Day(k)
    BY <1>1, <1>3, DayGrows DEF Cycles
  <2>2. Day(Handover) <= Day(Handover - 1) + 1
    <3>1. Day((Handover - 1) + 1) <= Day(Handover - 1) + 1
      BY <1>1, NextDay
    <3>2. (Handover - 1) + 1 = Handover
      OBVIOUS
    <3>3. QED
      BY <3>1, <3>2
  <2>3. Day(Handover) \in Nat /\ Day(Handover - 1) \in Nat /\ Day(k) \in Nat
    <3>1. Handover \in Nat \ {0} /\ k \in Nat \ {0}
      BY DEF Cycles
    <3>2. QED
      BY <1>1, <3>1, DayIs
  <2>4. QED
    BY <1>1, <2>1, <2>2, <2>3
<1>4. \A k \in CyclesOf(d) : k \in Cycles /\ Day(k) = d
  BY DEF CyclesOf
<1>5. CyclesOf(d) \subseteq OldCycles
  BY <1>1, <1>2, <1>4 DEF OldCycles, Cycles
<1>6. QED
  BY <1>1, <1>2, <1>3, <1>5

\* The cycles of a day in the order of their offsets.
LEMMA OffsetIs ==
  ASSUME NEW d \in Nat, NEW k \in CyclesOf(d)
  PROVE  /\ k \in Cycles /\ k \in Nat \ {0} /\ Day(k) = d
         /\ PerDay * d \in Nat /\ Offset(k) \in Nat /\ Offset(k) = k - 1 - PerDay * d
<1>1. k \in Cycles /\ k \in Nat \ {0} /\ Day(k) = d
  BY DEF CyclesOf, Cycles
<1>2. QED
  BY <1>1, DayIs

\* The first cycle of the day of another one.
LEMMA FirstOfDay ==
  ASSUME NEW k \in Nat \ {0}, NEW j, j = PerDay * Day(k) + 1
  PROVE  j \in Nat \ {0} /\ j <= k /\ Day(j) = Day(k) /\ Offset(j) = 0
<1>1. /\ Day(k) \in Nat /\ PerDay * Day(k) \in Nat /\ PerDay * Day(k) < k
      /\ PerDay \in Nat \ {0}
  BY DayIs
<1>2. j \in Nat \ {0} /\ j <= k
  BY <1>1
<1>3. /\ Day(j) \in Nat /\ PerDay * Day(j) \in Nat
      /\ PerDay * Day(j) < j /\ j <= PerDay * Day(j) + PerDay
      /\ Offset(j) = j - 1 - PerDay * Day(j)
  BY <1>2, DayIs
<1>4. Day(j) <= Day(k)
  BY <1>2, DayGrows
<1>5. ~(Day(j) < Day(k))
  <2>1. SUFFICES ASSUME Day(j) < Day(k) PROVE FALSE
    OBVIOUS
  <2>2. PerDay * Day(j) + PerDay <= PerDay * Day(k)
    BY <1>1, <1>3, <2>1, TimesGrows
  <2>3. QED
    BY <1>1, <1>2, <1>3, <2>2
<1>6. Day(j) = Day(k)
  BY <1>1, <1>3, <1>4, <1>5
<1>7. QED
  BY <1>1, <1>2, <1>3, <1>6

-----------------------------------------------------------------------------
(* Counting.                                                               *)

LEMMA PartIsSmaller ==
  ASSUME NEW S, IsFiniteSet(S), NEW A, A \subseteq S
  PROVE  /\ IsFiniteSet(A) /\ Cardinality(A) \in Nat /\ Cardinality(S) \in Nat
         /\ Cardinality(A) <= Cardinality(S)
         /\ Cardinality(S \ A) = Cardinality(S) - Cardinality(A)
<1>1. IsFiniteSet(A) /\ Cardinality(A) <= Cardinality(S)
  BY FS_Subset
<1>2. S \cap A = A
  OBVIOUS
<1>3. Cardinality(S \ A) = Cardinality(S) - Cardinality(A)
  BY <1>2, FS_Difference
<1>4. QED
  BY <1>1, <1>3, FS_CardinalityType

LEMMA DisjointAdd ==
  ASSUME NEW A, IsFiniteSet(A), NEW B, IsFiniteSet(B), A \cap B = {}
  PROVE  Cardinality(A \cup B) = Cardinality(A) + Cardinality(B)
<1>1. Cardinality(A \cup B) = Cardinality(A) + Cardinality(B) - Cardinality(A \cap B)
  BY FS_Union
<1>2. Cardinality(A \cap B) = 0
  BY FS_EmptySet
<1>3. Cardinality(A) \in Nat /\ Cardinality(B) \in Nat
  BY FS_CardinalityType
<1>4. QED
  BY <1>1, <1>2, <1>3

LEMMA CountIs ==
  ASSUME NEW r, NEW s, NEW d \in Days
  PROVE  /\ Count(r, s, d) = [total |-> Cardinality(UpOf(r, s, d)) + Cardinality(DownOf(r, s, d)),
                              failed |-> Cardinality(DownOf(r, s, d))]
         /\ Count(r, s, d) \in Figure
<1> DEFINE U == UpOf(r, s, d)
           D == DownOf(r, s, d)
<1>1. U \subseteq CyclesOf(d) /\ D \subseteq CyclesOf(d) /\ U \cap D = {}
  BY DEF UpOf, DownOf
<1>2. Count(r, s, d) = [total |-> Cardinality(U) + Cardinality(D), failed |-> Cardinality(D)]
  BY DEF Count, UpOf, DownOf
<1>3. IsFiniteSet(CyclesOf(d)) /\ Cardinality(CyclesOf(d)) \in 1..PerDay
  BY CyclesOfDay
<1> HIDE DEF U, D
<1>4. IsFiniteSet(U) /\ IsFiniteSet(D) /\ Cardinality(U) \in Nat /\ Cardinality(D) \in Nat
  BY <1>1, <1>3, PartIsSmaller
<1>5. Cardinality(U) + Cardinality(D) <= Cardinality(CyclesOf(d))
  <2>1. U \cup D \subseteq CyclesOf(d)
    BY <1>1
  <2>2. Cardinality(U \cup D) <= Cardinality(CyclesOf(d))
    BY <1>3, <2>1, PartIsSmaller
  <2>3. QED
    BY <1>1, <1>4, <2>2, DisjointAdd
<1>6. Cardinality(U) + Cardinality(D) \in 0..PerDay /\ Cardinality(D) \in 0..PerDay
  BY <1>3, <1>4, <1>5
<1>7. QED
  BY <1>2, <1>4, <1>6 DEF Figure, U, D

LEMMA AsManyCycles ==
  ASSUME NEW s \in Services, NEW d \in Days, NEW changes, changes \subseteq Services \X Cycles
  PROVE  Cardinality({x \in changes : x[1] = s /\ Day(x[2]) = d})
           = Cardinality(ChangedOf(changes, s, d))
<1> DEFINE C == ChangedOf(changes, s, d)
           X == {x \in changes : x[1] = s /\ Day(x[2]) = d}
           f == [k \in C |-> <<s, k>>]
<1>1. \A k \in C : <<s, k>> \in X
  BY DEF ChangedOf, CyclesOf
<1>2. \A x \in X : x[2] \in C /\ x = <<s, x[2]>>
  BY DEF ChangedOf, CyclesOf
<1>3. IsFiniteSet(C)
  BY CyclesOfDay, PartIsSmaller DEF ChangedOf
<1> HIDE DEF C, X
<1>4. f \in Bijection(C, X)
  BY <1>1, <1>2 DEF Bijection, Injection, Surjection, IsInjective
<1>5. ExistsBijection(C, X)
  BY <1>4 DEF ExistsBijection
<1>6. QED
  BY <1>3, <1>5, FS_Bijection DEF C, X

\* A day that is counted again loses its changed failures.
LEMMA RecountIs ==
  ASSUME NEW r, NEW s \in Services, NEW d \in Days, NEW changes, changes \subseteq Services \X Cycles,
         ChangedOf(changes, s, d) \subseteq DownOf(r, s, d)
  PROVE  /\ RecountFrom(r, s, d, changes) =
              [total |-> Cardinality(UpOf(r, s, d))
                           + Cardinality(DownOf(r, s, d) \ ChangedOf(changes, s, d)),
               failed |-> Cardinality(DownOf(r, s, d) \ ChangedOf(changes, s, d))]
         /\ RecountFrom(r, s, d, changes) \in Figure
<1> DEFINE U == Cardinality(UpOf(r, s, d))
           D == Cardinality(DownOf(r, s, d))
           F == Cardinality(ChangedOf(changes, s, d))
           R == Cardinality(DownOf(r, s, d) \ ChangedOf(changes, s, d))
           c == Count(r, s, d)
<1>1. c = [total |-> U + D, failed |-> D] /\ c \in Figure
  BY CountIs
<1>2. IsFiniteSet(DownOf(r, s, d)) /\ IsFiniteSet(UpOf(r, s, d))
  BY CyclesOfDay, PartIsSmaller DEF DownOf, UpOf
<1>3. R = D - F /\ F \in Nat /\ D \in Nat /\ F <= D /\ U \in Nat
  BY <1>2, PartIsSmaller
<1>4. RecountFrom(r, s, d, changes) = [total |-> c.total - F, failed |-> c.failed - F]
  BY AsManyCycles DEF RecountFrom
<1> HIDE DEF U, D, F, R, c
<1>5. c.total = U + D /\ c.failed = D
  BY <1>1
<1>6. RecountFrom(r, s, d, changes) = [total |-> U + R, failed |-> R] /\ R \in 0..PerDay /\ U + R \in 0..PerDay
  BY <1>1, <1>3, <1>4, <1>5 DEF Figure
<1>7. RecountFrom(r, s, d, changes) \in Figure
  <2>1. R <= U + R
    BY <1>3, <1>6
  <2>2. QED
    BY <1>6, <2>1 DEF Figure
<1>8. QED
  BY <1>6, <1>7 DEF U, R

-----------------------------------------------------------------------------
(* Rows, and the days they make.                                           *)

LEMMA RowTypes ==
  ASSUME Types, NEW s \in Services, NEW k \in Cycles
  PROVE  /\ rows[<<s, k>>] \in Row \cup {NoRow} /\ NoRow \notin Row
         /\ rows[<<s, k>>] = NoRow => rows[<<s, k>>].status = "none"
         /\ rows[<<s, k>>] # NoRow => rows[<<s, k>>].status \in {"up", "down", "unknown"}
  BY DEF Types, Row, NoRow

LEMMA OldRowIs ==
  ASSUME history \in [OldCycles -> Outcome], NEW s \in Services, NEW k \in OldCycles
  PROVE  /\ OldRow(s, k) \in Row /\ OldRow(s, k).status \in {"up", "down"}
         /\ OldRow(s, k).error # "corrected" /\ OldRow(s, k).orig = "none"
         /\ s = "site" => /\ OldRow(s, k).status = "up" <=> history[k].site = "good"
                          /\ OldRow(s, k).error = history[k].site
         /\ s = "dns" => (OldRow(s, k).status = "up" <=> history[k].dns)
         /\ s = "service" =>
              /\ OldRow(s, k).status = "up" <=> history[k].site = "good" /\ history[k].service
              /\ OldRow(s, k).error = "guessed" <=> history[k].site # "good"
<1>1. history[k] \in Outcome /\ history[k].site \in SiteKinds
  BY DEF Outcome
<1>2. CASE s = "site"
  BY <1>1, <1>2 DEF OldRow, Row, SiteKinds
<1>3. CASE s = "dns"
  BY <1>1, <1>3 DEF OldRow, Row, SiteKinds
<1>4. CASE s = "service"
  BY <1>1, <1>4 DEF OldRow, Row, SiteKinds
<1>5. QED
  BY <1>2, <1>3, <1>4 DEF Services

LEMMA NewRowIs ==
  ASSUME NEW s \in Services, NEW good \in BOOLEAN
  PROVE  /\ NewRow(s, good) \in Row /\ NewRow(s, good).orig = "none"
         /\ NewRow(s, good).error \in {"good", "connect"}
  BY DEF NewRow, Row, SiteKinds, Services

\* What the old prober met on a day: the checks of the service that were made,
\* the first few left out, those of them that failed, and the cycles in which
\* none was.
Looked(d, few) == {k \in CyclesOf(d) : few <= Offset(k) /\ history[k].site = "good"}
LookedFailed(d, few) == {k \in Looked(d, few) : ~history[k].service}
SiteFailed(d) == CyclesOf(d) \ Looked(d, 0)

LEMMA TruthIs ==
  ASSUME NEW d, NEW few
  PROVE  Truth(d, few) = [total |-> Cardinality(Looked(d, few)),
                          failed |-> Cardinality(LookedFailed(d, few))]
  BY DEF Truth, Looked, LookedFailed

LEMMA DayMet ==
  ASSUME history \in [OldCycles -> Outcome], NEW d \in OldDays
  PROVE  /\ {k \in CyclesOf(d) : OldRow("site", k).status = "down"} = SiteFailed(d)
         /\ {k \in CyclesOf(d) : OldRow("service", k).status = "down"}
              = SiteFailed(d) \cup LookedFailed(d, 0)
<1>1. \A k \in CyclesOf(d) : k \in OldCycles /\ 0 <= Offset(k)
  BY OldDayIs, OffsetIs
<1>2. \A k \in OldCycles, s \in Services : OldRow(s, k).status \in {"up", "down"}
  BY OldRowIs
<1>3. \A k \in OldCycles : OldRow("site", k).status = "up" <=> history[k].site = "good"
  BY OldRowIs DEF Services
<1>4. \A k \in OldCycles :
        OldRow("service", k).status = "up" <=> history[k].site = "good" /\ history[k].service
  BY OldRowIs DEF Services
<1>5. QED
  BY <1>1, <1>2, <1>3, <1>4 DEF Looked, LookedFailed, SiteFailed, Services

LEMMA LookedIs ==
  ASSUME NEW d \in OldDays, NEW few \in Nat
  PROVE  /\ Looked(d, few) \subseteq CyclesOf(d) /\ LookedFailed(d, few) \subseteq Looked(d, few)
         /\ IsFiniteSet(Looked(d, few)) /\ IsFiniteSet(LookedFailed(d, few))
         /\ Cardinality(Looked(d, few)) \in Nat /\ Cardinality(LookedFailed(d, few)) \in Nat
         /\ Cardinality(LookedFailed(d, few)) <= Cardinality(Looked(d, few))
         /\ Truth(d, few) \in Figure
<1>1. d \in Days /\ IsFiniteSet(CyclesOf(d)) /\ Cardinality(CyclesOf(d)) \in 1..PerDay
  BY OldDayIs, CyclesOfDay
<1> DEFINE L == Looked(d, few)
           F == LookedFailed(d, few)
<1>2. L \subseteq CyclesOf(d) /\ F \subseteq L
  BY DEF Looked, LookedFailed
<1>3. Truth(d, few) = [total |-> Cardinality(L), failed |-> Cardinality(F)]
  BY TruthIs
<1> HIDE DEF L, F
<1>4. IsFiniteSet(L) /\ Cardinality(L) \in Nat /\ Cardinality(L) <= Cardinality(CyclesOf(d))
  BY <1>1, <1>2, PartIsSmaller
<1>5. IsFiniteSet(F) /\ Cardinality(F) \in Nat /\ Cardinality(F) <= Cardinality(L)
  BY <1>2, <1>4, PartIsSmaller
<1>6. Truth(d, few) \in Figure
  BY <1>1, <1>3, <1>4, <1>5 DEF Figure
<1>7. QED
  BY <1>2, <1>4, <1>5, <1>6 DEF L, F

LEMMA FirstIs ==
  ASSUME history \in [OldCycles -> Outcome], NEW d \in OldDays
  PROVE  /\ \A s \in Services : First(s, d) \in Figure /\ First(s, d) # NoFigure
         /\ First("site", d).failed = Cardinality(SiteFailed(d))
         /\ First("service", d).failed = Cardinality(SiteFailed(d)) + Cardinality(LookedFailed(d, 0))
         /\ First("service", d).total = Cardinality(SiteFailed(d)) + Cardinality(Looked(d, 0))
         /\ Cardinality(SiteFailed(d)) \in Nat
         /\ Cardinality(SiteFailed(d)) >= Seen(d) /\ Seen(d) \in Nat
<1>1. d \in Days /\ IsFiniteSet(CyclesOf(d)) /\ Cardinality(CyclesOf(d)) \in 1..PerDay
  BY OldDayIs, CyclesOfDay
<1> DEFINE L == Looked(d, 0)
           F == LookedFailed(d, 0)
           X == SiteFailed(d)
<1>2. L \subseteq CyclesOf(d) /\ X \subseteq CyclesOf(d) /\ X \cap F = {}
      /\ X = CyclesOf(d) \ L
  BY DEF Looked, LookedFailed, SiteFailed
<1>3. IsFiniteSet(F) /\ Cardinality(L) \in Nat /\ Cardinality(F) \in Nat
  BY LookedIs
<1>4. Reached(d) \ Lost("site", d) \subseteq X
  BY DEF Reached, SiteFailed, Looked
<1> HIDE DEF L, F, X
<1>5. IsFiniteSet(X) /\ Cardinality(X) \in Nat
  BY <1>1, <1>2, PartIsSmaller
<1>6. Cardinality(X \cup F) = Cardinality(X) + Cardinality(F)
  BY <1>2, <1>3, <1>5, DisjointAdd
<1>7. ASSUME NEW s \in Services
      PROVE  First(s, d) \in Figure /\ First(s, d) # NoFigure
  <2> DEFINE D == {k \in CyclesOf(d) : OldRow(s, k).status = "down"}
             c == Cardinality(D)
             n == Cardinality(CyclesOf(d))
  <2>1. D \subseteq CyclesOf(d) /\ First(s, d) = [total |-> n, failed |-> c]
    BY DEF First
  <2> HIDE DEF D
  <2>2. c \in Nat /\ c <= n
    BY <1>1, <2>1, PartIsSmaller
  <2> HIDE DEF c, n
  <2>3. n \in 1..PerDay
    BY <1>1 DEF n
  <2>4. QED
    BY <2>1, <2>2, <2>3 DEF Figure, NoFigure
<1>8. /\ First("site", d).failed = Cardinality(X)
      /\ First("service", d).failed = Cardinality(X \cup F)
      /\ First("service", d).total = Cardinality(CyclesOf(d))
  BY DayMet DEF First, X, F
<1>9. Cardinality(X) = Cardinality(CyclesOf(d)) - Cardinality(L)
  BY <1>1, <1>2, PartIsSmaller
<1>10. Cardinality(X) >= Seen(d) /\ Seen(d) \in Nat
  BY <1>4, <1>5, PartIsSmaller DEF Seen
<1>11. /\ First("service", d).failed = Cardinality(X) + Cardinality(F)
       /\ First("service", d).total = Cardinality(X) + Cardinality(L)
  <2>1. Cardinality(CyclesOf(d)) \in Nat
    BY <1>1
  <2>2. QED
    BY <1>3, <1>5, <1>6, <1>8, <1>9, <2>1
<1>12. QED
  BY <1>5, <1>7, <1>8, <1>10, <1>11 DEF L, F, X

-----------------------------------------------------------------------------
(* What the analysis finds.                                                *)

LEMMA NowIs ==
  ASSUME Presence, NEW k \in Cycles, rows[<<"site", k>>] # NoRow
  PROVE  /\ now \in Nat /\ k \in Nat \ {0} /\ k <= now /\ k - 1 \in Nat
         /\ MaxCycle \in Nat /\ now <= MaxCycle /\ "site" \in Services
<1>1. now \in Cycles /\ k <= now
  BY DEF Presence
<1>2. MaxCycle \in Nat
  OBVIOUS
<1>3. QED
  BY <1>1, <1>2 DEF Cycles, Services

LEMMA BeforeIs ==
  ASSUME Types, Presence, NEW k \in Cycles, rows[<<"site", k>>] # NoRow
  PROVE  GoodBefore(k) <=> GoodAt(rows, k - 1)
<1>1. /\ now \in Nat /\ k \in Nat \ {0} /\ k <= now /\ k - 1 \in Nat /\ MaxCycle \in Nat
      /\ now <= MaxCycle /\ "site" \in Services
  BY NowIs
<1>2. CASE Before(k) = {}
  <2>1. k - 1 \in Cycles => rows[<<"site", k - 1>>] = NoRow
    BY <1>1, <1>2 DEF Before, Present
  <2>2. QED
    BY <1>2, <2>1 DEF GoodBefore, GoodAt, NoRow
<1>3. CASE Before(k) # {}
  <2>1. PICK a \in Before(k) : TRUE
    BY <1>3
  <2>2. a \in Cycles /\ a < k /\ rows[<<"site", a>>] # NoRow /\ a \in Nat
    BY <2>1 DEF Before, Present, Cycles
  <2>3. k - 1 \in a..now /\ k - 1 \in Cycles
    BY <1>1, <2>2 DEF Cycles
  <2>4. rows[<<"site", k - 1>>] # NoRow
    BY <2>2, <2>3 DEF Presence
  <2>5. k - 1 \in Before(k) /\ \A b \in Before(k) : b <= k - 1
    BY <1>1, <2>3, <2>4 DEF Before, Present, Cycles
  <2>6. Before(k) \in SUBSET Nat
    BY DEF Before, Present, Cycles
  <2>7. Max(Before(k)) = k - 1
    BY <2>5, <2>6, MaxIs
  <2>8. QED
    BY <1>3, <2>3, <2>7 DEF GoodBefore, GoodAt, Good
<1>4. QED
  BY <1>2, <1>3

LEMMA AfterIs ==
  ASSUME Types, Presence, NEW k \in Cycles, rows[<<"site", k>>] # NoRow
  PROVE  GoodAfter(k) <=> GoodAt(rows, k + 1)
<1>1. /\ now \in Nat /\ k \in Nat \ {0} /\ k <= now /\ now <= MaxCycle /\ MaxCycle \in Nat
      /\ "site" \in Services
  BY NowIs
<1>2. CASE After(k) = {}
  <2>1. k + 1 \in Cycles => rows[<<"site", k + 1>>] = NoRow
    BY <1>1, <1>2 DEF After, Present
  <2>2. QED
    BY <1>2, <2>1 DEF GoodAfter, GoodAt, NoRow
<1>3. CASE After(k) # {}
  <2>1. PICK b \in After(k) : TRUE
    BY <1>3
  <2>2. b \in Cycles /\ k < b /\ rows[<<"site", b>>] # NoRow /\ b \in Nat
    BY <2>1 DEF After, Present, Cycles
  <2>3. k + 1 \in k..now /\ k + 1 \in Cycles
    <3>1. b <= now
      BY <2>2 DEF Presence
    <3>2. QED
      BY <1>1, <2>2, <3>1 DEF Cycles
  <2>4. rows[<<"site", k + 1>>] # NoRow
    BY <2>3 DEF Presence
  <2>5. k + 1 \in After(k) /\ \A a \in After(k) : k + 1 <= a
    BY <1>1, <2>3, <2>4 DEF After, Present, Cycles
  <2>6. After(k) \in SUBSET Nat
    BY DEF After, Present, Cycles
  <2>7. Min(After(k)) = k + 1
    BY <2>5, <2>6, MinIsLeast
  <2>8. QED
    BY <1>3, <2>3, <2>7 DEF GoodAfter, GoodAt, Good
<1>4. QED
  BY <1>2, <1>3

LEMMA FailedIs ==
  ASSUME Types, NEW s \in Services, NEW k \in Cycles
  PROVE  k \in Failed(s) <=> rows[<<s, k>>].status = "down"
  BY RowTypes DEF Failed, Present

LEMMA ExcusedIs ==
  ASSUME Types, Presence, NEW k \in OldCycles, NEW keep \in BOOLEAN
  PROVE  Excused(k, keep) <=> Excusable(rows, k, keep)
<1>1. k \in Cycles /\ OldRules(k) /\ "site" \in Services /\ "dns" \in Services
  BY DEF OldCycles, OldRules, Services
<1>2. CASE k \notin Failed("site")
  BY <1>1, <1>2, FailedIs DEF Excused, Excusable
<1>3. CASE k \in Failed("site")
  <2>1. rows[<<"site", k>>].status = "down" /\ rows[<<"site", k>>] # NoRow
    BY <1>1, <1>3, FailedIs, RowTypes
  <2>2. Flanked(k) <=> GoodAt(rows, k - 1) /\ GoodAt(rows, k + 1)
    BY <1>1, <2>1, BeforeIs, AfterIs DEF Flanked
  <2>3. k \in Failed("dns") <=> rows[<<"dns", k>>].status = "down"
    BY <1>1, FailedIs
  <2> DEFINE e == rows[<<"site", k>>].error
             N == k \in Failed("dns")
             B == Flanked(k)
  <2>4. Verdict(k, keep) =
          CASE e = "reached" -> "kept"
            [] e = "resolver" -> "monitor"
            [] e = "connect" /\ N -> "monitor"
            [] OTHER -> IF B /\ ~keep THEN "unconfirmed" ELSE "repeated"
    BY DEF Verdict
  <2> HIDE DEF e, N, B
  <2>5. Verdict(k, keep) \in {"monitor", "unconfirmed"} <=>
          e # "reached" /\ (e = "resolver" \/ (e = "connect" /\ N) \/ (B /\ ~keep))
    <3>1. CASE e = "reached"
      BY <2>4, <3>1
    <3>2. CASE e = "resolver"
      BY <2>4, <3>2
    <3>3. CASE e = "connect" /\ N
      BY <2>4, <3>3
    <3>4. CASE e # "reached" /\ e # "resolver" /\ ~(e = "connect" /\ N)
      BY <2>4, <3>4
    <3>5. QED
      BY <3>1, <3>2, <3>3, <3>4
  <2>6. Excused(k, keep) <=> Verdict(k, keep) \in {"monitor", "unconfirmed"}
    BY <1>1, <1>3 DEF Excused
  <2> USE DEF e, N, B
  <2>7. QED
    BY <2>1, <2>2, <2>3, <2>5, <2>6 DEF Excusable
<1>4. QED
  BY <1>2, <1>3

LEMMA ChangesAre ==
  ASSUME Types, Presence, RowsAre, NEW keep \in BOOLEAN
  PROVE  /\ Changes(keep) \subseteq Services \X OldCycles
         /\ \A s \in Services, k \in OldCycles :
              <<s, k>> \in Changes(keep) <=> Changeable(rows, s, k, keep)
<1>1. OldCycles \subseteq Cycles /\ \A k \in Cycles : OldRules(k) <=> k \in OldCycles
  BY DEF OldCycles, OldRules
<1>2. \A s \in Services : Failed(s) \subseteq Cycles
  BY DEF Failed, Present
<1>3. ASSUME NEW k \in Failed("service"), rows[<<"service", k>>].error = "guessed"
      PROVE  k \in OldCycles
  <2>1. SUFFICES ASSUME k \notin OldCycles PROVE FALSE
    OBVIOUS
  <2>2. "service" \in Services /\ k \in Cycles \ OldCycles
    BY <1>2, <2>1 DEF Services
  <2>3. rows[<<"service", k>>] \in {NoRow, NewRow("service", TRUE), NewRow("service", FALSE)}
    BY <2>2 DEF RowsAre
  <2>4. rows[<<"service", k>>] # NoRow
    BY DEF Failed, Present
  <2>5. QED
    BY <1>3, <2>2, <2>3, <2>4, NewRowIs
<1>4. Changes(keep) \subseteq Services \X OldCycles
  BY <1>1, <1>2, <1>3 DEF Changes, GuessedRows, SiteRows, DnsRows, Excused, Services
<1>5. ASSUME NEW k \in OldCycles
      PROVE  /\ \A s \in Services : k \in Failed(s) <=> rows[<<s, k>>].status = "down"
             /\ Excused(k, keep) <=> Excusable(rows, k, keep)
             /\ k \in Present("site") <=> rows[<<"site", k>>] # NoRow
             /\ OldRules(k)
             /\ Excusable(rows, k, keep) => k \in Failed("site")
  BY <1>1, ExcusedIs, FailedIs DEF Present, Excused
<1>6. ASSUME NEW k \in OldCycles
      PROVE  /\ <<"service", k>> \in Changes(keep) <=> Changeable(rows, "service", k, keep)
             /\ <<"site", k>> \in Changes(keep) <=> Changeable(rows, "site", k, keep)
             /\ <<"dns", k>> \in Changes(keep) <=> Changeable(rows, "dns", k, keep)
  <2>1. <<"service", k>> \in Changes(keep) <=> <<"service", k>> \in GuessedRows
    BY DEF Changes, SiteRows, DnsRows
  <2>2. <<"site", k>> \in Changes(keep) <=> <<"site", k>> \in SiteRows(keep)
    BY DEF Changes, GuessedRows, DnsRows
  <2>3. <<"dns", k>> \in Changes(keep) <=> <<"dns", k>> \in DnsRows(keep)
    BY DEF Changes, GuessedRows, SiteRows
  <2>4. <<"service", k>> \in GuessedRows <=> Changeable(rows, "service", k, keep)
    BY <1>5 DEF GuessedRows, Changeable, Services
  <2>5. <<"site", k>> \in SiteRows(keep) <=> Changeable(rows, "site", k, keep)
    BY <1>5 DEF SiteRows, Changeable, Services
  <2>6. <<"dns", k>> \in DnsRows(keep) <=> Changeable(rows, "dns", k, keep)
    BY <1>5 DEF DnsRows, Changeable, Services
  <2>7. QED
    BY <2>1, <2>2, <2>3, <2>4, <2>5, <2>6
<1>7. QED
  BY <1>4, <1>6 DEF Services

\* Days from FirstFullDay on are those with a row in their first minutes; S are
\* the cycles with rows.
FullFrom(S) ==
  LET lo == Min(S) IN
  IF Offset(lo) < Margin THEN Day(lo) ELSE Day(lo) + 1

LEMMA FullFromIs ==
  ASSUME NEW S \in SUBSET Cycles, NEW n \in S, Handover - 1 <= n,
         \A j \in S : j <= n /\ \A m \in j..n : m \in S,
         NEW k \in OldCycles
  PROVE  /\ FullFrom(S) \in Nat
         /\ Day(k) >= FullFrom(S) <=> \E j \in CyclesOf(Day(k)) : Offset(j) < Margin /\ j \in S
<1> DEFINE lo == Min(S)
<1>1. n \in Nat /\ S \in SUBSET Nat
  BY DEF Cycles
<1>2. lo \in S /\ \A j \in S : lo <= j
  BY <1>1, MinIs
<1>3. lo \in Cycles /\ lo \in Nat \ {0} /\ lo <= n
  <2>1. lo \in Cycles /\ lo <= n
    BY <1>2
  <2>2. QED
    BY <2>1 DEF Cycles
<1>4. FullFrom(S) = IF Offset(lo) < Margin THEN Day(lo) ELSE Day(lo) + 1
  BY DEF FullFrom
<1>5. /\ Day(lo) \in Nat /\ PerDay * Day(lo) \in Nat
      /\ PerDay * Day(lo) < lo /\ lo <= PerDay * Day(lo) + PerDay
      /\ Offset(lo) \in Nat /\ Offset(lo) = lo - 1 - PerDay * Day(lo)
  BY <1>3, DayIs
<1>6. k \in Cycles /\ k \in Nat \ {0} /\ k <= n /\ Day(k) \in Nat /\ Margin \in Nat \ {0}
  <2>1. k \in Cycles /\ k \in Nat \ {0} /\ k < Handover
    BY DEF OldCycles, Cycles
  <2>2. QED
    BY <1>1, <2>1, DayIs
<1> HIDE DEF lo
<1>7. ASSUME Day(lo) < Day(k)
      PROVE  \E j \in CyclesOf(Day(k)) : Offset(j) < Margin /\ j \in S
  <2> DEFINE j == PerDay * Day(k) + 1
  <2>1. j \in Nat \ {0} /\ j <= k /\ Day(j) = Day(k) /\ Offset(j) = 0
    BY <1>6, FirstOfDay
  <2>2. PerDay * Day(lo) + PerDay <= PerDay * Day(k) /\ PerDay * Day(k) \in Nat /\ PerDay \in Nat
    BY <1>5, <1>6, <1>7, TimesGrows, DayIs
  <2>3. lo <= j
    BY <1>3, <1>5, <2>2
  <2> HIDE DEF j
  <2>4. j \in Cycles /\ j \in lo..n
    BY <1>1, <1>3, <1>6, <2>1, <2>3 DEF Cycles
  <2>5. j \in S /\ j \in CyclesOf(Day(k))
    BY <1>2, <2>1, <2>4 DEF CyclesOf
  <2>6. QED
    BY <1>6, <2>1, <2>5
<1>8. ASSUME Day(lo) = Day(k), Offset(lo) < Margin
      PROVE  \E j \in CyclesOf(Day(k)) : Offset(j) < Margin /\ j \in S
  BY <1>2, <1>3, <1>8 DEF CyclesOf
<1>9. ASSUME NEW j \in CyclesOf(Day(k)), Offset(j) < Margin, j \in S
      PROVE  Day(k) >= FullFrom(S)
  <2>1. /\ j \in Nat \ {0} /\ Day(j) = Day(k) /\ Offset(j) \in Nat
        /\ Offset(j) = j - 1 - PerDay * Day(k)
    BY <1>6, OffsetIs
  <2>2. lo <= j /\ Day(lo) <= Day(k)
    BY <1>2, <1>3, <1>9, <2>1, DayGrows
  <2>3. CASE Day(lo) = Day(k)
    <3>1. Offset(lo) <= Offset(j)
      BY <1>3, <1>5, <2>1, <2>2, <2>3
    <3>2. Offset(lo) < Margin
      BY <1>5, <1>6, <1>9, <2>1, <3>1
    <3>3. QED
      BY <1>4, <1>6, <2>3, <3>2
  <2>4. CASE Day(lo) < Day(k)
    BY <1>4, <1>5, <1>6, <2>4
  <2>5. QED
    BY <1>5, <1>6, <2>2, <2>3, <2>4
<1>10. ASSUME Day(k) >= FullFrom(S)
       PROVE  Day(lo) < Day(k) \/ (Day(lo) = Day(k) /\ Offset(lo) < Margin)
  BY <1>4, <1>5, <1>6, <1>10
<1>11. FullFrom(S) \in Nat
  BY <1>4, <1>5
<1>12. QED
  BY <1>7, <1>8, <1>9, <1>10, <1>11

LEMMA FullFromIsDay ==
  ASSUME NEW S \in SUBSET Cycles, S # {}
  PROVE  FullFrom(S) \in Nat
<1>1. Cycles \subseteq Nat \ {0}
  BY DEF Cycles
<1>2. Min(S) \in Nat \ {0}
  BY <1>1, MinIs
<1>3. Day(Min(S)) \in Nat
  BY <1>2, DayIs
<1>4. QED
  BY <1>3 DEF FullFrom

\* Which days count as complete only grows later while rows leave.
LEMMA FullFromGrows ==
  ASSUME NEW S \in SUBSET Cycles, S # {}, NEW T \in SUBSET Cycles, T # {},
         \A j \in T : Min(S) <= j
  PROVE  FullFrom(S) <= FullFrom(T)
<1> DEFINE lo == Min(S)
           hi == Min(T)
<1>1. Cycles \subseteq Nat \ {0}
  BY DEF Cycles
<1>2. lo \in S /\ hi \in T
  BY <1>1, MinIs
<1>3. lo \in Nat \ {0} /\ hi \in Nat \ {0} /\ lo <= hi
  BY <1>1, <1>2
<1>4. /\ FullFrom(S) = IF Offset(lo) < Margin THEN Day(lo) ELSE Day(lo) + 1
      /\ FullFrom(T) = IF Offset(hi) < Margin THEN Day(hi) ELSE Day(hi) + 1
  BY DEF FullFrom
<1> HIDE DEF lo, hi
<1>5. /\ Day(lo) \in Nat /\ PerDay * Day(lo) \in Nat /\ Offset(lo) \in Nat
      /\ Offset(lo) = lo - 1 - PerDay * Day(lo)
  BY <1>3, DayIs
<1>6. /\ Day(hi) \in Nat /\ PerDay * Day(hi) \in Nat /\ Offset(hi) \in Nat
      /\ Offset(hi) = hi - 1 - PerDay * Day(hi)
  BY <1>3, DayIs
<1>7. Day(lo) <= Day(hi) /\ Margin \in Nat
  BY <1>3, DayGrows
<1>8. CASE Day(lo) = Day(hi)
  <2>1. Offset(lo) <= Offset(hi)
    BY <1>3, <1>5, <1>6, <1>8
  <2>2. QED
    BY <1>4, <1>5, <1>6, <1>7, <1>8, <2>1
<1>9. CASE Day(lo) < Day(hi)
  BY <1>4, <1>5, <1>6, <1>9
<1>10. QED
  BY <1>5, <1>6, <1>7, <1>8, <1>9

LEMMA RawIs ==
  ASSUME Presence, NEW k \in OldCycles
  PROVE  /\ FirstFullDay \in Nat
         /\ Day(k) >= FirstFullDay <=> Counted(Day(k))
<1> DEFINE S == Present("site")
<1>1. now \in S /\ S \in SUBSET Cycles /\ Handover - 1 <= now
  BY DEF Presence, Present
<1>2. \A j \in S : j <= now /\ \A m \in j..now : m \in S
  <2>1. \A j \in S : \A m \in j..now : m \in Cycles
    BY DEF Presence, Present, Cycles
  <2>2. QED
    BY <2>1 DEF Presence, Present
<1>3. FirstFullDay = FullFrom(S)
  BY DEF FirstFullDay, FullFrom
<1>4. \A j \in CyclesOf(Day(k)) : j \in S <=> rows[<<"site", j>>] # NoRow
  BY DEF Present, CyclesOf
<1> HIDE DEF S
<1>5. Day(k) >= FullFrom(S) <=> \E j \in CyclesOf(Day(k)) : Offset(j) < Margin /\ j \in S
  BY <1>1, <1>2, FullFromIs
<1>6. FullFrom(S) \in Nat
  BY <1>1, <1>2, FullFromIs
<1>7. QED
  BY <1>3, <1>4, <1>5, <1>6 DEF Counted

LEMMA FullDays ==
  ASSUME Types, Presence, NEW d \in OldDays
  PROVE  d >= FirstFullDay <=> Counted(d)
<1>1. d \in Days /\ CyclesOf(d) \subseteq OldCycles
  BY OldDayIs
<1>2. PICK k \in CyclesOf(d) : TRUE
  BY <1>1, CyclesOfDay
<1>3. k \in OldCycles /\ Day(k) = d
  BY <1>1, <1>2 DEF CyclesOf
<1>4. QED
  BY <1>3, RawIs

\* What such a day lacks are checks of its first minutes.
LEMMA MissingAreFirst ==
  ASSUME Types, Presence, NEW k \in OldCycles, Counted(Day(k)), rows[<<"site", k>>] = NoRow
  PROVE  /\ Offset(k) < Margin - 1 /\ Offset(k) \in Nat
         /\ \A j \in CyclesOf(Day(k)) : rows[<<"site", j>>] # NoRow => k < j /\ Offset(k) < Offset(j)
<1>1. k \in Nat \ {0} /\ k \in CyclesOf(Day(k)) /\ Day(k) \in Nat /\ Margin \in Nat \ {0}
      /\ now \in Nat /\ k <= now
  <2>1. k \in Cycles /\ k \in Nat \ {0} /\ k < Handover /\ now \in Cycles /\ Handover - 1 <= now
    BY DEF OldCycles, Cycles, Presence
  <2>2. QED
    BY <2>1, DayIs DEF CyclesOf, Cycles
<1>2. Offset(k) \in Nat /\ Offset(k) = k - 1 - PerDay * Day(k) /\ PerDay * Day(k) \in Nat
  BY <1>1, OffsetIs
<1>3. ASSUME NEW j \in CyclesOf(Day(k)), rows[<<"site", j>>] # NoRow
      PROVE  k < j /\ Offset(k) < Offset(j) /\ Offset(j) \in Nat
  <2>1. j \in Cycles /\ j \in Nat /\ Offset(j) \in Nat /\ Offset(j) = j - 1 - PerDay * Day(k)
    BY <1>1, OffsetIs
  <2>2. \A m \in j..now : rows[<<"site", m>>] # NoRow
    BY <1>3, <2>1 DEF Presence
  <2>3. ~(j <= k)
    BY <1>1, <2>1, <2>2
  <2>4. QED
    BY <1>1, <1>2, <2>1, <2>3
<1>4. PICK j \in CyclesOf(Day(k)) : Offset(j) < Margin /\ rows[<<"site", j>>] # NoRow
  BY DEF Counted
<1>5. Offset(k) < Margin - 1
  BY <1>1, <1>2, <1>3, <1>4
<1>6. QED
  BY <1>2, <1>3, <1>5

\* The rows of such a day are those from some offset on.
LEMMA CountedFrom ==
  ASSUME Types, Presence, NEW d \in OldDays, Counted(d)
  PROVE  \E few \in 0..(Margin - 1) :
           \A k \in CyclesOf(d) : rows[<<"site", k>>] # NoRow <=> few <= Offset(k)
<1> DEFINE J == {Offset(j) : j \in {i \in CyclesOf(d) : rows[<<"site", i>>] # NoRow}}
<1>1. d \in Nat /\ CyclesOf(d) \subseteq OldCycles /\ Margin \in Nat \ {0} /\ now \in Nat
      /\ \A k \in OldCycles : k <= now
  BY OldDayIs DEF Presence, Cycles, OldCycles
<1>2. \A k \in CyclesOf(d) : /\ k \in Cycles /\ k \in Nat /\ Offset(k) \in Nat /\ k <= now
                            /\ PerDay * d \in Nat /\ Offset(k) = k - 1 - PerDay * d
  BY <1>1, OffsetIs
<1>3. J \in SUBSET Nat
  BY <1>2
<1>4. PICK i \in CyclesOf(d) : Offset(i) < Margin /\ rows[<<"site", i>>] # NoRow
  BY DEF Counted
<1>5. J # {}
  BY <1>4
<1>6. PICK few \in J : \A x \in J : few <= x
  BY <1>3, <1>5, LeastExists
<1>7. PICK j \in CyclesOf(d) : rows[<<"site", j>>] # NoRow /\ few = Offset(j)
  BY <1>6
<1>8. few \in Nat /\ few <= Offset(i)
  BY <1>2, <1>4, <1>6, <1>7
<1>9. few \in 0..(Margin - 1)
  BY <1>1, <1>2, <1>4, <1>8
<1>10. ASSUME NEW k \in CyclesOf(d)
       PROVE  rows[<<"site", k>>] # NoRow <=> few <= Offset(k)
  <2>1. ASSUME rows[<<"site", k>>] # NoRow
        PROVE  few <= Offset(k)
    BY <1>6, <2>1
  <2>2. ASSUME few <= Offset(k)
        PROVE  rows[<<"site", k>>] # NoRow
    <3>1. j \in Cycles /\ k \in j..now
      BY <1>1, <1>2, <1>7, <2>2
    <3>2. QED
      BY <1>7, <3>1 DEF Presence
  <2>3. QED
    BY <2>1, <2>2
<1>11. QED
  BY <1>9, <1>10

-----------------------------------------------------------------------------
(* What a plan says.                                                       *)

\* A row of the old prober that is up or down is as it was written.
LEMMA OldRowsStand ==
  ASSUME Types, RowsAre, NEW s \in Services, NEW k \in OldCycles
  PROVE  /\ rows[<<s, k>>].status \in {"up", "down"} => rows[<<s, k>>] = OldRow(s, k)
         /\ rows[<<s, k>>] # NoRow => rows[<<s, k>>] = OldRow(s, k) \/ rows[<<s, k>>] = CorrectedRow
         /\ rows[<<s, k>>] # NoRow /\ (Real(s, k) \/ OldRow(s, k).status = "up") =>
              rows[<<s, k>>] = OldRow(s, k)
<1>1. \/ rows[<<s, k>>] = NoRow \/ rows[<<s, k>>] = OldRow(s, k)
      \/ OldRow(s, k).status = "down" /\ ~Real(s, k) /\ rows[<<s, k>>] = CorrectedRow
  BY DEF RowsAre
<1>2. NoRow.status = "none" /\ CorrectedRow.status = "unknown"
  BY DEF NoRow, CorrectedRow
<1>3. QED
  BY <1>1, <1>2

LEMMA RealIsKept ==
  ASSUME Types, RowsAre, NEW s \in Services, NEW k \in OldCycles, NEW keep \in BOOLEAN,
         Changeable(rows, s, k, keep)
  PROVE  ~Real(s, k)
<1>1. k \in Cycles /\ k < Handover /\ k \in Nat
  BY DEF OldCycles, Cycles
<1>2. rows[<<s, k>>] = OldRow(s, k)
  BY OldRowsStand DEF Changeable
<1>3. history \in [OldCycles -> Outcome]
  BY DEF Types
<1>4. CASE s = "service"
  BY <1>1, <1>2, <1>3, <1>4, OldRowIs DEF Changeable, Real
<1>5. CASE s = "dns"
  <2>1. SUFFICES ASSUME history[k].site = "reached" PROVE FALSE
    BY <1>1, <1>5 DEF Real
  <2>2. "site" \in Services /\ Real("site", k) /\ rows[<<"site", k>>] # NoRow
    BY <1>5, <2>1 DEF Real, Services, Changeable
  <2>3. rows[<<"site", k>>] = OldRow("site", k)
    BY <2>2, OldRowsStand
  <2>4. rows[<<"site", k>>].status = "down" /\ rows[<<"site", k>>].error = "reached"
    BY <1>3, <2>1, <2>2, <2>3, OldRowIs
  <2>5. QED
    BY <1>5, <2>4 DEF Changeable, Excusable
<1>6. CASE s = "site"
  <2>1. Excusable(rows, k, keep) /\ rows[<<"site", k>>].error = history[k].site
    BY <1>2, <1>3, <1>6, OldRowIs DEF Changeable
  <2>2. SUFFICES ASSUME history[k].site = "connect", history[k].dns, k + 1 < Handover,
                        history[k + 1].site # "good"
                 PROVE  FALSE
    BY <1>1, <1>6, <2>1 DEF Real, Excusable
  <2>3. k + 1 \in OldCycles /\ "dns" \in Services
    BY <1>1, <2>2 DEF OldCycles, Cycles, Services
  <2>4. rows[<<"dns", k>>].status # "down"
    BY <1>3, <2>2, <2>3, OldRowsStand, OldRowIs
  <2>5. ~GoodAt(rows, k + 1)
    BY <1>3, <1>6, <2>2, <2>3, OldRowsStand, OldRowIs DEF GoodAt
  <2>6. QED
    BY <2>1, <2>2, <2>4, <2>5 DEF Excusable
<1>7. QED
  BY <1>4, <1>5, <1>6 DEF Services

\* A day that counts as complete is counted as it was, but for what it lacks.
LEMMA RecountService ==
  ASSUME Types, Presence, RowsAre, NEW d \in OldDays, Counted(d), NEW keep \in BOOLEAN
  PROVE  ExactBut(d, RecountFrom(rows, "service", d, Changes(keep)))
<1> DEFINE C == ChangedOf(Changes(keep), "service", d)
           U == UpOf(rows, "service", d)
           D == DownOf(rows, "service", d)
<1>1. "service" \in Services /\ d \in Days /\ CyclesOf(d) \subseteq OldCycles /\ OldCycles \subseteq Cycles
  BY OldDayIs DEF Services, OldCycles
<1>2. history \in [OldCycles -> Outcome] /\ NoRow.status = "none"
  BY DEF Types, NoRow
<1>3. \A k \in OldCycles : <<"service", k>> \in Changes(keep) <=>
        rows[<<"service", k>>].status = "down" /\ rows[<<"service", k>>].error = "guessed"
  <2>1. \A k \in OldCycles :
          <<"service", k>> \in Changes(keep) <=> Changeable(rows, "service", k, keep)
    BY <1>1, ChangesAre
  <2>2. ASSUME NEW k
        PROVE  Changeable(rows, "service", k, keep) <=>
                 rows[<<"service", k>>].status = "down" /\ rows[<<"service", k>>].error = "guessed"
    BY DEF Changeable
  <2>3. QED
    BY <2>1, <2>2
<1>4. PICK few \in 0..(Margin - 1) :
        \A k \in CyclesOf(d) : rows[<<"site", k>>] # NoRow <=> few <= Offset(k)
  BY CountedFrom
<1>5. \A k \in CyclesOf(d) : rows[<<"service", k>>] # NoRow <=> few <= Offset(k)
  BY <1>1, <1>4 DEF Presence
<1> DEFINE L == Looked(d, few)
           F == LookedFailed(d, few)
<1>6. ASSUME NEW k \in CyclesOf(d)
      PROVE  /\ k \in U <=> k \in L \ F
             /\ k \in D \ C <=> k \in F
             /\ k \in C => k \in D
  <2>1. k \in OldCycles
    BY <1>1
  <2>2. /\ rows[<<"service", k>>].status \in {"up", "down"} =>
             rows[<<"service", k>>] = OldRow("service", k)
        /\ rows[<<"service", k>>] # NoRow /\ (Real("service", k) \/ OldRow("service", k).status = "up") =>
             rows[<<"service", k>>] = OldRow("service", k)
    BY <1>1, <2>1, OldRowsStand
  <2>3. /\ OldRow("service", k).status \in {"up", "down"}
        /\ OldRow("service", k).status = "up" <=> history[k].site = "good" /\ history[k].service
        /\ OldRow("service", k).error = "guessed" <=> history[k].site # "good"
    BY <1>1, <1>2, <2>1, OldRowIs
  <2>4. history[k].site = "good" => Real("service", k)
    BY DEF Real
  <2>5. k \in L <=> rows[<<"service", k>>] # NoRow /\ history[k].site = "good"
    BY <1>5 DEF Looked
  <2>6. k \in F <=> rows[<<"service", k>>] # NoRow /\ history[k].site = "good" /\ ~history[k].service
    BY <2>5 DEF LookedFailed
  <2>7. /\ k \in U <=> rows[<<"service", k>>].status = "up"
        /\ k \in D <=> rows[<<"service", k>>].status = "down"
        /\ k \in C <=> rows[<<"service", k>>].status = "down"
                         /\ rows[<<"service", k>>].error = "guessed"
    BY <1>3, <2>1 DEF UpOf, DownOf, ChangedOf
  <2> HIDE DEF U, D, C, L, F
  <2>8. CASE rows[<<"service", k>>] = NoRow
    BY <1>2, <2>5, <2>6, <2>7, <2>8
  <2>9. CASE rows[<<"service", k>>] # NoRow
    BY <2>2, <2>3, <2>4, <2>5, <2>6, <2>7, <2>9
  <2>10. QED
    BY <2>8, <2>9
<1>7. U \subseteq CyclesOf(d) /\ D \subseteq CyclesOf(d) /\ C \subseteq CyclesOf(d)
  BY DEF UpOf, DownOf, ChangedOf
<1>8. /\ L \subseteq CyclesOf(d) /\ F \subseteq L /\ IsFiniteSet(L)
      /\ Cardinality(L) \in Nat /\ Cardinality(F) \in Nat
  <2>1. few \in Nat
    BY <1>4
  <2>2. QED
    BY <2>1, LookedIs
<1>9. Truth(d, few) = [total |-> Cardinality(L), failed |-> Cardinality(F)]
  BY TruthIs
<1> HIDE DEF U, D, C, L, F
<1>10. U = L \ F /\ D \ C = F /\ C \subseteq D
  BY <1>6, <1>7, <1>8
<1>11. Cardinality(L \ F) = Cardinality(L) - Cardinality(F)
  BY <1>8, PartIsSmaller
<1>12. Changes(keep) \subseteq Services \X Cycles
  BY <1>1, ChangesAre
<1>13. RecountFrom(rows, "service", d, Changes(keep))
         = [total |-> Cardinality(U) + Cardinality(D \ C), failed |-> Cardinality(D \ C)]
  <2>1. ChangedOf(Changes(keep), "service", d) \subseteq DownOf(rows, "service", d)
    BY <1>10 DEF C, D
  <2>2. QED
    BY <1>1, <1>12, <2>1, RecountIs DEF U, D, C
<1>14. Cardinality(U) + Cardinality(D \ C) = Cardinality(L)
  <2>1. Cardinality(U) = Cardinality(L \ F) /\ Cardinality(D \ C) = Cardinality(F)
    BY <1>10
  <2>2. QED
    BY <1>8, <1>11, <2>1
<1>15. RecountFrom(rows, "service", d, Changes(keep)) = Truth(d, few)
  BY <1>9, <1>10, <1>13, <1>14
<1>16. \A k \in CyclesOf(d) : Offset(k) < few => rows[<<"service", k>>] = NoRow
  <2>1. \A k \in CyclesOf(d) : Offset(k) \in Nat
    BY <1>1, CyclesOfDay, OffsetIs
  <2>2. few \in Nat
    BY <1>4
  <2>3. QED
    BY <1>5, <2>1, <2>2
<1>17. QED
  BY <1>15, <1>16 DEF ExactBut

LEMMA RecountSite ==
  ASSUME Types, Presence, RowsAre, NEW d \in OldDays, Counted(d), NEW keep \in BOOLEAN
  PROVE  RecountFrom(rows, "site", d, Changes(keep)).failed >= Seen(d)
<1> DEFINE C == ChangedOf(Changes(keep), "site", d)
           D == DownOf(rows, "site", d)
           R == Reached(d) \ Lost("site", d)
<1>1. "site" \in Services /\ d \in Days /\ CyclesOf(d) \subseteq OldCycles /\ OldCycles \subseteq Cycles
  BY OldDayIs DEF Services, OldCycles
<1>2. history \in [OldCycles -> Outcome]
  BY DEF Types
<1>3. \A k \in OldCycles : <<"site", k>> \in Changes(keep) =>
        rows[<<"site", k>>].status = "down" /\ rows[<<"site", k>>].error # "reached"
  <2>1. \A k \in OldCycles : <<"site", k>> \in Changes(keep) <=> Changeable(rows, "site", k, keep)
    BY <1>1, ChangesAre
  <2>2. ASSUME NEW k, Changeable(rows, "site", k, keep)
        PROVE  rows[<<"site", k>>].status = "down" /\ rows[<<"site", k>>].error # "reached"
    BY <2>2 DEF Changeable, Excusable
  <2>3. QED
    BY <2>1, <2>2
<1>4. C \subseteq D
  BY <1>1, <1>3 DEF ChangedOf, DownOf
<1>5. ASSUME NEW k \in R
      PROVE  k \in D \ C
  <2>1. k \in CyclesOf(d) /\ k \in OldCycles /\ history[k].site = "reached"
        /\ k \notin Lost("site", d) /\ Day(k) = d
    BY <1>1 DEF Reached, CyclesOf
  <2>2. rows[<<"site", k>>] # NoRow
    <3>1. SUFFICES ASSUME rows[<<"site", k>>] = NoRow PROVE FALSE
      OBVIOUS
    <3>2. Offset(k) < Margin - 1
      BY <2>1, <3>1, MissingAreFirst
    <3>3. QED
      BY <2>1, <3>1, <3>2 DEF Lost
  <2>3. rows[<<"site", k>>] = OldRow("site", k)
    BY <1>1, <2>1, <2>2, OldRowsStand DEF Real
  <2>4. OldRow("site", k).status = "down" /\ OldRow("site", k).error = "reached"
    BY <1>1, <1>2, <2>1, OldRowIs
  <2>5. QED
    BY <1>3, <2>1, <2>3, <2>4 DEF ChangedOf, DownOf
<1>6. Changes(keep) \subseteq Services \X Cycles
  BY <1>1, ChangesAre
<1>7. RecountFrom(rows, "site", d, Changes(keep)).failed = Cardinality(D \ C)
  <2>1. ChangedOf(Changes(keep), "site", d) \subseteq DownOf(rows, "site", d)
    BY <1>4 DEF C, D
  <2>2. RecountFrom(rows, "site", d, Changes(keep))
          = [total |-> Cardinality(UpOf(rows, "site", d))
                         + Cardinality(DownOf(rows, "site", d) \ ChangedOf(Changes(keep), "site", d)),
             failed |-> Cardinality(DownOf(rows, "site", d) \ ChangedOf(Changes(keep), "site", d))]
    BY <1>1, <1>6, <2>1, RecountIs
  <2>3. QED
    BY <2>2
<1>8. IsFiniteSet(D \ C)
  <2>1. D \ C \subseteq CyclesOf(d)
    BY DEF DownOf
  <2>2. QED
    BY <1>1, <2>1, CyclesOfDay, PartIsSmaller
<1>9. R \subseteq D \ C
  BY <1>5
<1> HIDE DEF C, D, R
<1>10. Cardinality(R) <= Cardinality(D \ C) /\ Cardinality(R) \in Nat
  BY <1>8, <1>9, PartIsSmaller
<1>11. QED
  BY <1>7, <1>8, <1>10, PartIsSmaller DEF Seen, R

\* An older day is corrected from what was published first.
LEMMA AdjustedIs ==
  ASSUME Types, FiguresAre, NEW d \in OldDays
  PROVE  ExactBut(d, Adjusted("service", d))
<1> DEFINE X == Cardinality(SiteFailed(d))
           L == Cardinality(Looked(d, 0))
           F == Cardinality(LookedFailed(d, 0))
           row == First("service", d)
           guessed == First("site", d).failed
<1>1. history \in [OldCycles -> Outcome] /\ "service" \in Services /\ "site" \in Services
  BY DEF Types, Services
<1>2. X \in Nat /\ L \in Nat /\ F \in Nat /\ F <= L
  BY <1>1, FirstIs, LookedIs
<1>3. row.total = X + L /\ row.failed = X + F /\ guessed = X
  BY <1>1, FirstIs
<1>4. ExactBut(d, [total |-> L, failed |-> F])
  <2>1. Truth(d, 0) = [total |-> L, failed |-> F]
    BY TruthIs
  <2>2. \A k \in CyclesOf(d) : Offset(k) \in Nat
    BY OldDayIs, OffsetIs
  <2>3. 0 \in 0..(Margin - 1) /\ \A k \in CyclesOf(d) : ~(Offset(k) < 0)
    BY <2>2
  <2> HIDE DEF L, F
  <2>4. QED
    BY <2>1, <2>3 DEF ExactBut
<1>5. row = [total |-> row.total, failed |-> row.failed]
  BY DEF First
<1>6. /\ Published("service", d) = row /\ Published("site", d).failed = guessed
      /\ \/ daily[<<"service", d>>] = row
         \/ ExactBut(d, daily[<<"service", d>>])
  BY <1>1 DEF FiguresAre
<1>7. Adjusted("service", d) =
        IF guessed = 0 \/ row.failed = 0 THEN daily[<<"service", d>>]
        ELSE [total |-> Larger(Minus(row.failed, guessed), Minus(row.total, guessed)),
              failed |-> Minus(row.failed, guessed)]
  BY <1>6 DEF Adjusted
<1> HIDE DEF X, L, F, row, guessed
<1>8. CASE X = 0
  <2>1. row = [total |-> L, failed |-> F]
    BY <1>2, <1>3, <1>5, <1>8
  <2>2. ExactBut(d, daily[<<"service", d>>])
    BY <1>4, <1>6, <2>1
  <2>3. QED
    BY <1>3, <1>7, <1>8, <2>2
<1>9. CASE X # 0
  <2>1. guessed # 0 /\ row.failed # 0
    BY <1>2, <1>3, <1>9
  <2>2. Minus(row.failed, guessed) = F
    BY <1>2, <1>3 DEF Minus
  <2>3. Minus(row.total, guessed) = L
    BY <1>2, <1>3 DEF Minus
  <2>4. Larger(F, L) = L
    BY <1>2 DEF Larger
  <2>5. Adjusted("service", d) = [total |-> L, failed |-> F]
    BY <1>7, <2>1, <2>2, <2>3, <2>4
  <2>6. QED
    BY <1>4, <2>5
<1>10. QED
  BY <1>8, <1>9

\* Two figures that leave out lost checks at most are no further apart than
\* those.
LEMMA TruthsAreClose ==
  ASSUME NEW d \in OldDays, NEW a \in Nat, NEW b \in Nat, a <= b, b <= Margin - 1,
         \A k \in CyclesOf(d) : Offset(k) < b => rows[<<"service", k>>] = NoRow
  PROVE  /\ Within(Cardinality(Lost("service", d)), Truth(d, a), Truth(d, b))
         /\ Within(Cardinality(Lost("service", d)), Truth(d, b), Truth(d, a))
<1> DEFINE L == Lost("service", d)
           A == Looked(d, a)
           B == Looked(d, b)
           F == LookedFailed(d, a)
           G == LookedFailed(d, b)
<1>1. \A k \in CyclesOf(d) : Offset(k) \in Nat
  BY OldDayIs, OffsetIs
<1>2. B \subseteq A /\ G \subseteq F
  BY <1>1 DEF Looked, LookedFailed
<1>3. ASSUME NEW k \in CyclesOf(d), ~(b <= Offset(k)), history[k].site = "good"
      PROVE  k \in L
  <2>1. Margin \in Nat /\ Offset(k) < b /\ Offset(k) < Margin - 1
    BY <1>1, <1>3
  <2>2. QED
    BY <1>3, <2>1 DEF Lost
<1>4. A \ B \subseteq L /\ F \ G \subseteq L
  BY <1>3 DEF Looked, LookedFailed
<1>5. IsFiniteSet(L) /\ Cardinality(L) \in Nat
  <2>1. L \subseteq CyclesOf(d) /\ IsFiniteSet(CyclesOf(d))
    BY OldDayIs, CyclesOfDay DEF Lost
  <2> HIDE DEF L
  <2>2. QED
    BY <2>1, PartIsSmaller
<1>6. /\ IsFiniteSet(A) /\ IsFiniteSet(F) /\ Cardinality(A) \in Nat /\ Cardinality(B) \in Nat
      /\ Cardinality(F) \in Nat /\ Cardinality(G) \in Nat
  BY LookedIs
<1>7. /\ Truth(d, a) = [total |-> Cardinality(A), failed |-> Cardinality(F)]
      /\ Truth(d, b) = [total |-> Cardinality(B), failed |-> Cardinality(G)]
  BY TruthIs
<1> HIDE DEF L, A, B, F, G
<1>8. /\ Cardinality(A \ B) = Cardinality(A) - Cardinality(B) /\ Cardinality(B) <= Cardinality(A)
      /\ Cardinality(A \ B) <= Cardinality(L)
  BY <1>2, <1>4, <1>5, <1>6, PartIsSmaller
<1>9. /\ Cardinality(F \ G) = Cardinality(F) - Cardinality(G) /\ Cardinality(G) <= Cardinality(F)
      /\ Cardinality(F \ G) <= Cardinality(L)
  BY <1>2, <1>4, <1>5, <1>6, PartIsSmaller
<1>10. /\ Within(Cardinality(L), Truth(d, a), Truth(d, b))
       /\ Within(Cardinality(L), Truth(d, b), Truth(d, a))
  BY <1>5, <1>6, <1>7, <1>8, <1>9 DEF Within, Minus
<1>11. QED
  BY <1>10 DEF L

LEMMA ExactAreClose ==
  ASSUME NEW d \in OldDays, NEW f, ExactBut(d, f), NEW g, ExactBut(d, g)
  PROVE  Within(Cardinality(Lost("service", d)), f, g)
<1>1. PICK a \in 0..(Margin - 1) :
        /\ \A k \in CyclesOf(d) : Offset(k) < a => rows[<<"service", k>>] = NoRow
        /\ f = Truth(d, a)
  BY DEF ExactBut
<1>2. PICK b \in 0..(Margin - 1) :
        /\ \A k \in CyclesOf(d) : Offset(k) < b => rows[<<"service", k>>] = NoRow
        /\ g = Truth(d, b)
  BY DEF ExactBut
<1>3. a \in Nat /\ b \in Nat /\ a <= Margin - 1 /\ b <= Margin - 1
  BY <1>1, <1>2
<1>4. CASE a <= b
  BY <1>1, <1>2, <1>3, <1>4, TruthsAreClose
<1>5. CASE b <= a
  BY <1>1, <1>2, <1>3, <1>5, TruthsAreClose
<1>6. QED
  BY <1>3, <1>4, <1>5

LEMMA LostIs ==
  ASSUME NEW s, NEW d \in OldDays
  PROVE  /\ Lost(s, d) \subseteq CyclesOf(d) /\ IsFiniteSet(Lost(s, d))
         /\ Cardinality(Lost(s, d)) \in Nat
<1>1. Lost(s, d) \subseteq CyclesOf(d) /\ IsFiniteSet(CyclesOf(d))
  BY OldDayIs, CyclesOfDay DEF Lost
<1>2. QED
  BY <1>1, PartIsSmaller

LEMMA NothingToRecount ==
  ASSUME NEW s \in Services, NEW d \in OldDays
  PROVE  RecountFrom(rows, s, d, {}) = Count(rows, s, d)
<1>1. ChangedOf({}, s, d) = {} /\ d \in Days
  BY OldDayIs DEF ChangedOf
<1>2. RecountFrom(rows, s, d, {}) =
        [total |-> Cardinality(UpOf(rows, s, d))
                     + Cardinality(DownOf(rows, s, d) \ ChangedOf({}, s, d)),
         failed |-> Cardinality(DownOf(rows, s, d) \ ChangedOf({}, s, d))]
  BY <1>1, RecountIs
<1>3. DownOf(rows, s, d) \ ChangedOf({}, s, d) = DownOf(rows, s, d)
  BY <1>1
<1>4. Count(rows, s, d) = [total |-> Cardinality(UpOf(rows, s, d)) + Cardinality(DownOf(rows, s, d)),
                           failed |-> Cardinality(DownOf(rows, s, d))]
  BY <1>1, CountIs
<1>5. QED
  BY <1>2, <1>3, <1>4

LEMMA SameIsWithin ==
  ASSUME NEW n \in Nat, NEW f, f.total \in Nat, f.failed \in Nat
  PROVE  Within(n, f, f)
  BY DEF Within, Minus

\* A day counted again from fewer rows differs by the lost ones at most.
LEMMA CountsAreClose ==
  ASSUME Types, Presence, NEW s \in Services, s # "service", NEW d \in OldDays, Counted(d),
         NEW r, Covers(r, s, d)
  PROVE  Within(Cardinality(Lost(s, d)), Count(rows, s, d), Count(r, s, d))
<1> DEFINE L == Lost(s, d)
           U == UpOf(r, s, d)
           D == DownOf(r, s, d)
           V == UpOf(rows, s, d)
           E == DownOf(rows, s, d)
<1>1. /\ d \in Days /\ CyclesOf(d) \subseteq OldCycles /\ OldCycles \subseteq Cycles
      /\ IsFiniteSet(CyclesOf(d)) /\ "site" \in Services
  BY OldDayIs, CyclesOfDay DEF Services, OldCycles
<1>2. ASSUME NEW k \in CyclesOf(d)
      PROVE  /\ rows[<<s, k>>] = NoRow => k \in L
             /\ rows[<<s, k>>] # NoRow => r[<<s, k>>] = rows[<<s, k>>]
  <2>1. k \in OldCycles /\ k \in Cycles /\ Day(k) = d
    BY <1>1 DEF CyclesOf
  <2>2. ASSUME rows[<<s, k>>] = NoRow
        PROVE  k \in L
    <3>1. rows[<<"site", k>>] = NoRow
      BY <2>1, <2>2 DEF Presence
    <3>2. Offset(k) < Margin - 1
      BY <2>1, <3>1, MissingAreFirst
    <3>3. QED
      BY <2>2, <3>2 DEF Lost
  <2>3. QED
    BY <2>2 DEF Covers
<1>3. NoRow.status = "none"
  BY DEF NoRow
<1>4. V \subseteq U /\ E \subseteq D /\ (U \cup D) \ (V \cup E) \subseteq L
  BY <1>2, <1>3 DEF UpOf, DownOf
<1>5. U \cap D = {} /\ V \cap E = {} /\ U \subseteq CyclesOf(d) /\ D \subseteq CyclesOf(d)
      /\ D \ E \subseteq L
  BY <1>2, <1>3 DEF UpOf, DownOf
<1>6. IsFiniteSet(L) /\ Cardinality(L) \in Nat
  BY LostIs
<1>7. /\ Count(r, s, d) = [total |-> Cardinality(U) + Cardinality(D), failed |-> Cardinality(D)]
      /\ Count(rows, s, d) = [total |-> Cardinality(V) + Cardinality(E), failed |-> Cardinality(E)]
  BY <1>1, CountIs
<1> HIDE DEF L, U, D, V, E
<1>8. IsFiniteSet(U) /\ IsFiniteSet(D) /\ IsFiniteSet(V) /\ IsFiniteSet(E)
  <2>1. V \subseteq CyclesOf(d) /\ E \subseteq CyclesOf(d)
    BY <1>4, <1>5
  <2>2. QED
    BY <1>1, <1>5, <2>1, PartIsSmaller
<1> DEFINE W == U \cup D
           X == V \cup E
<1>9. /\ Cardinality(W) = Cardinality(U) + Cardinality(D) /\ IsFiniteSet(W)
      /\ Cardinality(X) = Cardinality(V) + Cardinality(E) /\ IsFiniteSet(X)
  <2>1. IsFiniteSet(W) /\ IsFiniteSet(X)
    BY <1>8, FS_Union
  <2>2. QED
    BY <1>5, <1>8, <2>1, DisjointAdd
<1>10. X \subseteq W /\ W \ X \subseteq L
  BY <1>4
<1> HIDE DEF W, X
<1>11. /\ Cardinality(W \ X) = Cardinality(W) - Cardinality(X) /\ Cardinality(X) <= Cardinality(W)
       /\ Cardinality(W \ X) <= Cardinality(L) /\ Cardinality(W) \in Nat /\ Cardinality(X) \in Nat
  BY <1>6, <1>9, <1>10, PartIsSmaller
<1>12. /\ Cardinality(D \ E) = Cardinality(D) - Cardinality(E) /\ Cardinality(E) <= Cardinality(D)
       /\ Cardinality(D \ E) <= Cardinality(L) /\ Cardinality(D) \in Nat /\ Cardinality(E) \in Nat
  BY <1>4, <1>5, <1>6, <1>8, PartIsSmaller
<1>13. /\ Count(r, s, d) = [total |-> Cardinality(W), failed |-> Cardinality(D)]
       /\ Count(rows, s, d) = [total |-> Cardinality(X), failed |-> Cardinality(E)]
  BY <1>7, <1>9
<1>14. Within(Cardinality(L), Count(rows, s, d), Count(r, s, d))
  BY <1>6, <1>11, <1>12, <1>13 DEF Within, Minus
<1>15. QED
  BY <1>14 DEF L

LEMMA FigureFields ==
  ASSUME NEW f \in Figure
  PROVE  /\ f.total \in 0..PerDay /\ f.failed \in 0..PerDay /\ f.failed <= f.total
         /\ f.failed \in Nat /\ f.total \in Nat
  BY DEF Figure

LEMMA ExactIsFigure ==
  ASSUME NEW d \in OldDays, NEW f, ExactBut(d, f)
  PROVE  f \in Figure
<1>1. PICK few \in 0..(Margin - 1) : f = Truth(d, few)
  BY DEF ExactBut
<1>2. few \in Nat
  BY <1>1
<1>3. QED
  BY <1>1, <1>2, LookedIs

LEMMA NewFigureTypes ==
  ASSUME Types, Presence, RowsAre, FiguresAre, NEW keep \in BOOLEAN,
         NEW s \in Services, NEW d \in Days
  PROVE  NewFigure(s, d, Changes(keep)) \in Figure
<1>1. daily[<<s, d>>] \in Figure
  BY DEF Types
<1>2. Recounted(s, d, Changes(keep)) \in Figure
  <2>1. Recounted(s, d, Changes(keep)) = RecountFrom(rows, s, d, Changes(keep))
    BY DEF Recounted, RecountFrom
  <2>2. Changes(keep) \subseteq Services \X OldCycles /\ OldCycles \subseteq Cycles
    BY ChangesAre DEF OldCycles
  <2>3. ASSUME NEW k \in ChangedOf(Changes(keep), s, d)
        PROVE  k \in DownOf(rows, s, d)
    <3>1. k \in CyclesOf(d) /\ k \in OldCycles /\ <<s, k>> \in Changes(keep)
      BY <2>2 DEF ChangedOf
    <3>2. Changeable(rows, s, k, keep)
      BY <3>1, ChangesAre
    <3>3. QED
      BY <3>1, <3>2 DEF Changeable, DownOf
  <2>4. Changes(keep) \subseteq Services \X Cycles
    BY <2>2
  <2>5. ChangedOf(Changes(keep), s, d) \subseteq DownOf(rows, s, d)
    BY <2>3
  <2>6. RecountFrom(rows, s, d, Changes(keep)) \in Figure
    BY <2>4, <2>5, RecountIs
  <2>7. QED
    BY <2>1, <2>6
<1>3. ASSUME Older(d), s = "service"
      PROVE  Adjusted(s, d) \in Figure
  <2>1. d \in OldDays
    BY <1>3 DEF Older, OldDays
  <2>2. QED
    BY <1>3, <2>1, AdjustedIs, ExactIsFigure
<1>4. QED
  BY <1>1, <1>2, <1>3 DEF NewFigure

LEMMA NewFigureIs ==
  ASSUME Types, Presence, RowsAre, FiguresAre, NEW keep \in BOOLEAN, NEW d \in OldDays
  PROVE  /\ \A s \in Services : Counted(d) =>
              NewFigure(s, d, Changes(keep)) = RecountFrom(rows, s, d, Changes(keep))
         /\ \A s \in Services : ~Counted(d) /\ s # "service" =>
              NewFigure(s, d, Changes(keep)) = daily[<<s, d>>]
         /\ ExactBut(d, NewFigure("service", d, Changes(keep)))
         /\ NewFigure("site", d, Changes(keep)).failed >= Seen(d)
<1>1. d <= Day(now) /\ d \in Nat /\ d \in Days /\ d < Day(Handover)
  BY OldDayIs DEF Presence, OldDays
<1>2. d >= FirstFullDay <=> Counted(d)
  BY FullDays
<1>3. FirstFullDay \in Nat
  <2>1. PICK k \in CyclesOf(d) : k \in OldCycles
    BY <1>1, OldDayIs, CyclesOfDay
  <2>2. QED
    BY <2>1, RawIs
<1>4. ASSUME NEW s \in Services, Counted(d)
      PROVE  NewFigure(s, d, Changes(keep)) = RecountFrom(rows, s, d, Changes(keep))
  BY <1>1, <1>2, <1>4 DEF NewFigure, Recounted, RecountFrom
<1>5. ASSUME ~Counted(d)
      PROVE  /\ NewFigure("service", d, Changes(keep)) = Adjusted("service", d)
             /\ \A s \in Services : s # "service" =>
                  NewFigure(s, d, Changes(keep)) = daily[<<s, d>>]
  <2>1. ~(d >= FirstFullDay) /\ Older(d)
    BY <1>1, <1>2, <1>3, <1>5 DEF Older
  <2>2. QED
    BY <2>1 DEF NewFigure
<1>6. "service" \in Services /\ "site" \in Services
  BY DEF Services
<1>7. ExactBut(d, NewFigure("service", d, Changes(keep)))
  <2>1. CASE Counted(d)
    BY <1>4, <1>6, <2>1, RecountService
  <2>2. CASE ~Counted(d)
    BY <1>5, <2>2, AdjustedIs
  <2>3. QED
    BY <2>1, <2>2
<1>8. NewFigure("site", d, Changes(keep)).failed >= Seen(d)
  <2>1. CASE Counted(d)
    BY <1>4, <1>6, <2>1, RecountSite
  <2>2. CASE ~Counted(d)
    BY <1>5, <1>6, <2>2 DEF FiguresAre
  <2>3. QED
    BY <2>1, <2>2
<1>9. QED
  BY <1>4, <1>5, <1>7, <1>8

LEMMA AnalysisFits ==
  ASSUME Types, Presence, RowsAre, FiguresAre, DoneIs, NEW keep \in BOOLEAN
  PROVE  /\ PlanFits(Analysis(keep)) /\ Analysis(keep) # NoPlan
         /\ done = "full" => Analysis(keep).changes = {}
<1> DEFINE p == Analysis(keep)
<1>1. /\ p.keep = keep /\ p.changes = Changes(keep) /\ p.before = daily
      /\ p.daily = [x \in Services \X Days |-> NewFigure(x[1], x[2], Changes(keep))]
      /\ p.newer <=> now >= Handover
      /\ p.kind = "plan"
  BY DEF Analysis
<1>2. p # NoPlan
  BY <1>1 DEF NoPlan
<1>3. /\ Changes(keep) \subseteq Services \X OldCycles
      /\ \A s \in Services, k \in OldCycles :
           <<s, k>> \in Changes(keep) <=> Changeable(rows, s, k, keep)
  BY ChangesAre
<1> HIDE DEF p
<1>4. \A s \in Services, d \in Days : p.daily[<<s, d>>] = NewFigure(s, d, Changes(keep))
  BY <1>1
<1>5. p.daily \in [Services \X Days -> Figure]
  <2>1. \A s \in Services, d \in Days : NewFigure(s, d, Changes(keep)) \in Figure
    BY NewFigureTypes
  <2>2. QED
    BY <1>1, <2>1
<1>6. ASSUME NEW s \in Services, NEW k \in OldCycles, <<s, k>> \in Changes(keep)
      PROVE  ~Real(s, k) /\ rows[<<s, k>>].status = "down"
  <2>1. Changeable(rows, s, k, keep)
    BY <1>3, <1>6
  <2>2. ~Real(s, k)
    BY <2>1, RealIsKept
  <2>3. QED
    BY <2>1, <2>2 DEF Changeable
<1>7. ASSUME NEW k \in OldCycles, <<"site", k>> \in Changes(keep), rows[<<"dns", k>>].status = "down"
      PROVE  <<"dns", k>> \in Changes(keep)
  <2>1. "site" \in Services /\ "dns" \in Services /\ k \in Cycles
    BY DEF Services, OldCycles
  <2>2. Changeable(rows, "site", k, keep)
    BY <1>3, <1>7, <2>1
  <2>3. Excusable(rows, k, keep) /\ rows[<<"site", k>>].status = "down"
    BY <2>2 DEF Changeable
  <2>4. rows[<<"site", k>>] # NoRow
    BY <2>3 DEF NoRow
  <2>5. Changeable(rows, "dns", k, keep)
    BY <1>7, <2>3, <2>4 DEF Changeable
  <2>6. QED
    BY <1>3, <2>1, <2>5
<1>8. ASSUME NEW s \in Services, NEW d \in OldDays, Counted(d)
      PROVE  \E r : /\ Covers(r, s, d)
                    /\ ChangedOf(p.changes, s, d) \subseteq DownOf(r, s, d)
                    /\ p.daily[<<s, d>>] = RecountFrom(r, s, d, p.changes)
  <2>1. p.daily[<<s, d>>] = RecountFrom(rows, s, d, p.changes)
    BY <1>1, <1>4, <1>8, NewFigureIs, OldDayIs
  <2>2. Covers(rows, s, d)
    BY DEF Covers
  <2>3. \A k \in CyclesOf(d) : <<s, k>> \in p.changes => rows[<<s, k>>].status = "down"
    BY <1>1, <1>6, OldDayIs
  <2>4. ChangedOf(p.changes, s, d) \subseteq DownOf(rows, s, d)
    BY <2>3 DEF ChangedOf, DownOf
  <2>5. QED
    BY <2>1, <2>2, <2>4
<1>9. \A d \in OldDays : /\ ExactBut(d, p.daily[<<"service", d>>])
                         /\ p.daily[<<"site", d>>].failed >= Seen(d)
  <2>1. ASSUME NEW d \in OldDays
        PROVE  /\ ExactBut(d, NewFigure("service", d, Changes(keep)))
               /\ NewFigure("site", d, Changes(keep)).failed >= Seen(d)
               /\ d \in Days
    BY NewFigureIs, OldDayIs
  <2>2. "service" \in Services /\ "site" \in Services
    BY DEF Services
  <2>3. QED
    BY <1>4, <2>1, <2>2
<1>10. PlanFits(p)
  <2>1. p.changes \subseteq Services \X OldCycles
    BY <1>1, <1>3
  <2>2. \A x \in p.changes : ~Real(x[1], x[2]) /\ (rows[x] # NoRow => rows[x].status = "down")
    <3>1. SUFFICES ASSUME NEW x \in p.changes
                   PROVE  ~Real(x[1], x[2]) /\ (rows[x] # NoRow => rows[x].status = "down")
      OBVIOUS
    <3>2. PICK s \in Services, k \in OldCycles : x = <<s, k>>
      BY <2>1
    <3>3. <<s, k>> \in Changes(keep)
      BY <1>1, <3>2
    <3>4. x[1] = s /\ x[2] = k
      BY <3>2
    <3>5. QED
      BY <1>6, <3>2, <3>3, <3>4
  <2>3. \A s \in Services, d \in OldDays : p.before[<<s, d>>] = daily[<<s, d>>]
    BY <1>1
  <2>4. p.newer => Handover <= now
    BY <1>1 DEF Presence, Cycles
  <2>5. p.newer /\ ~p.keep =>
          \A s \in Services, k \in OldCycles :
            Changeable(rows, s, k, FALSE) => <<s, k>> \in p.changes
    <3>1. CASE keep = FALSE
      BY <1>1, <1>3, <3>1
    <3>2. CASE keep = TRUE
      BY <1>1, <3>2
    <3>3. QED
      BY <3>1, <3>2
  <2>6. QED
    BY <1>1, <1>5, <1>7, <1>8, <1>9, <2>1, <2>2, <2>3, <2>4, <2>5 DEF PlanFits
<1>11. ASSUME done = "full" PROVE Changes(keep) = {}
  <2>1. ASSUME NEW s \in Services, NEW k \in OldCycles, Changeable(rows, s, k, keep)
        PROVE  FALSE
    <3>1. Changeable(rows, s, k, FALSE)
      BY <2>1 DEF Changeable, Excusable
    <3>2. QED
      BY <1>11, <3>1 DEF DoneIs
  <2>2. QED
    BY <1>3, <2>1
<1>12. QED
  BY <1>1, <1>2, <1>10, <1>11 DEF p

-----------------------------------------------------------------------------
(* Incidents.                                                              *)

LEMMA HistorySame ==
  ASSUME history' = history
  PROVE  /\ \A s, k : OldRow(s, k)' = OldRow(s, k) /\ Real(s, k)' = Real(s, k)
         /\ \A s, d : First(s, d)' = First(s, d)
         /\ \A d : Reached(d)' = Reached(d) /\ \A few : Truth(d, few)' = Truth(d, few)
<1>1. \A s, k : OldRow(s, k)' = OldRow(s, k)
  BY DEF OldRow
<1>2. \A s, k : Real(s, k)' = Real(s, k)
  BY DEF Real
<1>3. \A s, d : First(s, d)' = First(s, d)
  BY <1>1 DEF First
<1>4. \A d : Reached(d)' = Reached(d) /\ \A few : Truth(d, few)' = Truth(d, few)
  BY DEF Truth, Reached
<1>5. QED
  BY <1>1, <1>2, <1>3, <1>4

LEMMA OutageIs ==
  ASSUME NEW i \in Outages
  PROVE  /\ i.service \in Services
         /\ i.from \in OldCycles /\ i.to \in OldCycles /\ i.from < i.to
         /\ \A k \in i.from..(i.to - 1) : k \in OldCycles /\ OldRow(i.service, k).status = "down"
         /\ i.service = "site" => i \in Streaks("site")
<1>1. \A s : \A j \in Streaks(s) :
        /\ j.service = s /\ j.from \in OldCycles /\ j.to \in OldCycles /\ j.from < j.to
        /\ \A k \in j.from..(j.to - 1) : OldRow(s, k).status = "down"
  BY DEF Streaks
<1>2. PICK s \in Services : i \in Streaks(s)
  BY DEF Outages
<1>3. i.service = s /\ i.from \in OldCycles /\ i.to \in OldCycles /\ i.from < i.to
  BY <1>1, <1>2
<1>4. \A k \in i.from..(i.to - 1) : k \in OldCycles
  BY <1>3 DEF OldCycles, Cycles
<1>5. QED
  BY <1>1, <1>2, <1>3, <1>4

\* What a plan removes, by the raw checks or by where an incident lies, has no
\* real failure in it but a lost one or at the two edges (remeasure.py:278-303).
LEMMA RemovedAreGroundless ==
  ASSUME IInv, NEW keep \in BOOLEAN, NEW i \in Removed(Changes(keep))
  PROVE  Groundless(i)
<1> DEFINE real == {k \in i.from..(i.to - 1) : Real(i.service, k)}
<1>1. i \in incidents /\ i \in Outages /\ Unsupported(i, Changes(keep))
  BY DEF Removed, IInv, IncidentsAre
<1>2. /\ i.service \in Services /\ i.from \in OldCycles /\ i.to \in OldCycles /\ i.from < i.to
      /\ \A k \in i.from..(i.to - 1) : k \in OldCycles /\ OldRow(i.service, k).status = "down"
  BY <1>1, OutageIs
<1>3. i.from \in Nat \ {0} /\ i.to \in Nat \ {0} /\ OldCycles \subseteq Cycles /\ Cycles \subseteq Nat \ {0}
      /\ Handover \in Nat
  BY <1>2 DEF OldCycles, Cycles
<1>4. CASE InRaw(i)
  <2> DEFINE d == Day(i.from)
  <2>1. Counted(d)
    BY <1>2, <1>4, RawIs DEF InRaw, IInv
  <2>2. PICK j \in CyclesOf(d) : rows[<<"site", j>>] # NoRow
    BY <2>1 DEF Counted
  <2>3. j \in Cycles /\ j \in Nat \ {0} /\ Day(j) = d
    BY <1>3, <2>2 DEF CyclesOf
  <2>4. ASSUME NEW k \in i.from..(i.to - 1), Real(i.service, k)
        PROVE  k \in Lost(i.service, d)
    <3>1. k \in OldCycles /\ k \in Cycles /\ k \in Nat \ {0} /\ i.from <= k /\ k \in i.from..i.to
      BY <1>2, <1>3
    <3>2. rows[<<i.service, k>>] = NoRow
      <4>1. SUFFICES ASSUME rows[<<i.service, k>>] # NoRow PROVE FALSE
        OBVIOUS
      <4>2. rows[<<i.service, k>>] = OldRow(i.service, k)
        BY <1>2, <2>4, <3>1, <4>1, OldRowsStand DEF IInv
      <4>3. k \in Failed(i.service)
        BY <1>2, <2>4, <3>1, <4>2, FailedIs DEF IInv
      <4>4. <<i.service, k>> \in Changes(keep)
        BY <1>1, <1>4, <3>1, <4>3 DEF Unsupported
      <4>5. Changeable(rows, i.service, k, keep)
        BY <1>2, <3>1, <4>4, ChangesAre DEF IInv
      <4>6. QED
        BY <1>2, <2>4, <3>1, <4>5, RealIsKept DEF IInv
    <3>3. rows[<<"site", k>>] = NoRow
      BY <1>2, <3>1, <3>2 DEF IInv, Presence
    <3>4. Day(k) = d
      <4>1. d <= Day(k) /\ d \in Nat /\ Day(k) \in Nat
        BY <1>3, <3>1, DayGrows, DayIs
      <4>2. SUFFICES ASSUME d < Day(k) PROVE FALSE
        BY <4>1
      <4>3. j <= k
        BY <2>3, <3>1, <4>1, <4>2, DayGrows
      <4>4. k <= now /\ now \in Nat
        <5>1. now \in Cycles /\ Handover - 1 <= now /\ k < Handover
          BY <3>1 DEF IInv, Presence, OldCycles
        <5>2. now \in Nat
          BY <1>3, <5>1
        <5>3. QED
          BY <1>3, <3>1, <5>1, <5>2
      <4>5. k \in j..now
        BY <2>3, <3>1, <4>3, <4>4
      <4>6. QED
        BY <2>2, <2>3, <3>3, <4>5 DEF IInv, Presence
    <3>5. Offset(k) < Margin - 1
      BY <2>1, <3>1, <3>3, <3>4, MissingAreFirst DEF IInv
    <3>6. i.service = "service" => history[k].site = "good"
      BY <1>3, <2>4, <3>1 DEF Real, OldCycles
    <3>7. k \in CyclesOf(d)
      BY <3>1, <3>4 DEF CyclesOf
    <3>8. QED
      BY <3>2, <3>5, <3>6, <3>7 DEF Lost
  <2>5. real \subseteq Lost(i.service, d)
    BY <2>4
  <2>6. QED
    BY <2>5 DEF Groundless
<1>5. CASE ~InRaw(i)
  <2>1. PICK j \in incidents : j.service = "site" /\ j.from - 1 <= i.from /\ i.to <= j.to + 1
    BY <1>1, <1>5 DEF Unsupported
  <2>2. i.service = "service"
    BY <1>1, <1>5 DEF Unsupported
  <2>3. j \in Outages
    BY <2>1 DEF IInv, IncidentsAre
  <2>4. /\ j \in Streaks("site") /\ j.from \in OldCycles /\ j.to \in OldCycles
        /\ \A k \in j.from..(j.to - 1) : OldRow("site", k).status = "down"
    BY <2>1, <2>3, OutageIs
  <2>5. ASSUME NEW k \in i.from..(i.to - 1), Real(i.service, k)
        PROVE  k \in {j.from - 1, j.to}
    <3>1. k \in OldCycles /\ k \in Nat /\ k < Handover /\ i.from <= k /\ k <= i.to - 1
      BY <1>2, <1>3, <2>5 DEF OldCycles
    <3>2. history[k].site = "good"
      BY <1>3, <2>2, <2>5, <3>1 DEF Real
    <3>3. OldRow("site", k).status = "up"
      BY <3>1, <3>2, OldRowIs DEF IInv, Types, Services
    <3>4. k \notin j.from..(j.to - 1)
      BY <2>4, <3>3
    <3>5. j.from \in Nat \ {0} /\ j.to \in Nat
      BY <1>3, <2>4
    <3>6. k < j.from \/ k > j.to - 1
      BY <3>1, <3>4, <3>5
    <3>7. k >= j.from - 1 /\ k <= j.to
      BY <1>3, <2>1, <3>1, <3>5
    <3>8. QED
      BY <3>1, <3>5, <3>6, <3>7
  <2>6. QED
    BY <1>5, <2>2, <2>4, <2>5 DEF Groundless
<1>6. QED
  BY <1>4, <1>5

\* That raw checks of a day are pruned does not change any more.
LEMMA GroundlessStays ==
  ASSUME Presence, Presence', history' = history,
         \A s \in Services, k \in OldCycles : rows[<<s, k>>] = NoRow => rows'[<<s, k>>] = NoRow,
         \A k \in Cycles :
           rows'[<<"site", k>>] # NoRow => rows[<<"site", k>>] # NoRow \/ now < k,
         NEW i, Groundless(i), i \in Outages
  PROVE  Groundless(i)'
<1> DEFINE real == {k \in i.from..(i.to - 1) : Real(i.service, k)}
<1>1. i.from \in OldCycles /\ i.service \in Services /\ real \subseteq OldCycles
  BY OutageIs
<1>2. \A s, k : Real(s, k)' = Real(s, k)
  BY HistorySame
<1>3. Streaks("site")' = Streaks("site")
  BY HistorySame DEF Streaks
<1>4. real \subseteq Lost(i.service, Day(i.from)) => real \subseteq Lost(i.service, Day(i.from))'
  BY <1>1 DEF Lost
<1>5. ~InRaw(i) => ~InRaw(i)'
  <2> DEFINE S == Present("site")
             T == Present("site")'
  <2>1. /\ InRaw(i) <=> Day(i.from) >= FullFrom(S)
        /\ InRaw(i)' <=> Day(i.from) >= FullFrom(T)
    BY DEF InRaw, FirstFullDay, FullFrom
  <2>2. /\ now \in S /\ now' \in T /\ Handover - 1 <= now
        /\ S \in SUBSET Cycles /\ T \in SUBSET Cycles
    BY DEF Presence, Present
  <2>3. Cycles \subseteq Nat \ {0}
    BY DEF Cycles
  <2>4. \A j \in S : Min(S) <= j /\ Min(S) \in S
    BY <2>2, <2>3, MinIs
  <2>5. ASSUME NEW j \in T
        PROVE  Min(S) <= j
    <3>1. j \in S \/ now < j
      BY DEF Present
    <3>2. Min(S) \in Nat /\ Min(S) <= now /\ now \in Nat /\ j \in Nat
      BY <2>2, <2>3, <2>4
    <3>3. QED
      BY <2>4, <3>1, <3>2
  <2>6. Day(i.from) \in Nat
    BY <1>1, <2>3, DayIs DEF OldCycles
  <2> HIDE DEF S, T
  <2>7. FullFrom(S) <= FullFrom(T)
    BY <2>2, <2>5, FullFromGrows
  <2>8. FullFrom(S) \in Nat /\ FullFrom(T) \in Nat
    BY <2>2, FullFromIsDay
  <2>9. QED
    BY <2>1, <2>6, <2>7, <2>8
<1>6. QED
  BY <1>2, <1>3, <1>4, <1>5 DEF Groundless

LEMMA StandingSame ==
  ASSUME history' = history
  PROVE  /\ Outages' = Outages
         /\ rows' = rows => \A i : Groundless(i)' <=> Groundless(i)
<1>1. \A s, k : OldRow(s, k)' = OldRow(s, k) /\ Real(s, k)' = Real(s, k)
  BY HistorySame
<1>2. \A s : Streaks(s)' = Streaks(s)
  BY <1>1 DEF Streaks
<1>3. ASSUME rows' = rows, NEW i
      PROVE  Groundless(i)' <=> Groundless(i)
  BY <1>1, <1>2, <1>3 DEF Groundless, Lost, InRaw, FirstFullDay, Present
<1>4. QED
  BY <1>2, <1>3 DEF Outages

-----------------------------------------------------------------------------
(* What a step other than the writing of a plan leaves of the past.        *)

Waits ==
  /\ history' = history /\ now <= now'
  /\ \A s \in Services, k \in OldCycles : rows'[<<s, k>>] \in {rows[<<s, k>>], NoRow}
  /\ Handover <= now =>
       \A s \in Services : rows'[<<s, Handover>>] \in {rows[<<s, Handover>>], NoRow}
  /\ \A k \in Cycles : rows'[<<"site", k>>] # NoRow => rows[<<"site", k>>] # NoRow \/ now < k
  /\ \A s \in Services, d \in OldDays : /\ daily'[<<s, d>>] = daily[<<s, d>>]
                                        /\ original'[<<s, d>>] = original[<<s, d>>]

\* Rows that are pruned give a correction nothing more to do.
LEMMA PrunedShrinks ==
  ASSUME NEW r, NEW q, NEW s \in Services, NEW k \in OldCycles, Changeable(q, s, k, FALSE),
         \A t \in Services, j \in OldCycles \cup {Handover} : q[<<t, j>>] \in {r[<<t, j>>], NoRow}
  PROVE  Changeable(r, s, k, FALSE)
<1>1. k \in OldCycles \cup {Handover} /\ NoRow.status = "none" /\ Services = {"site", "dns", "service"}
  BY DEF NoRow, Services
<1>2. \A t \in Services, j \in OldCycles \cup {Handover} :
        q[<<t, j>>].status \in {"up", "down"} => q[<<t, j>>] = r[<<t, j>>]
  BY <1>1
<1>3. q[<<s, k>>] = r[<<s, k>>] /\ q[<<s, k>>].status = "down"
  BY <1>1, <1>2 DEF Changeable
<1>4. ASSUME NEW j \in {k - 1, k + 1}, GoodAt(q, j)
      PROVE  GoodAt(r, j)
  <2>1. j \in OldCycles \cup {Handover} /\ "site" \in Services
    BY <1>1, <1>4 DEF GoodAt, OldCycles, Cycles
  <2>2. QED
    BY <1>2, <1>4, <2>1 DEF GoodAt
<1>5. Excusable(q, k, FALSE) => Excusable(r, k, FALSE)
  <2>1. q[<<"site", k>>].status = "down" => q[<<"site", k>>] = r[<<"site", k>>]
    BY <1>1, <1>2
  <2>2. q[<<"dns", k>>].status = "down" => q[<<"dns", k>>] = r[<<"dns", k>>]
    BY <1>1, <1>2
  <2>3. QED
    BY <1>4, <2>1, <2>2 DEF Excusable
<1>6. q[<<"site", k>>] # NoRow => q[<<"site", k>>] = r[<<"site", k>>]
  BY <1>1
<1>7. QED
  BY <1>3, <1>5, <1>6 DEF Changeable

\* Rows that are gone stay gone.
LEMMA WaitingRows ==
  ASSUME Waits, NEW d \in OldDays
  PROVE  /\ \A s \in Services : \A k \in CyclesOf(d) : rows'[<<s, k>>] \in {rows[<<s, k>>], NoRow}
         /\ Counted(d)' => Counted(d)
         /\ \A f : ExactBut(d, f) => ExactBut(d, f)'
         /\ \A s \in Services : \A r : Covers(r, s, d) => Covers(r, s, d)'
         /\ history \in [OldCycles -> Outcome] =>
              Seen(d)' <= Seen(d) /\ Seen(d) \in Nat /\ Seen(d)' \in Nat
<1>1. CyclesOf(d) \subseteq OldCycles /\ IsFiniteSet(CyclesOf(d)) /\ Services = {"site", "dns", "service"}
  BY OldDayIs, CyclesOfDay DEF Services
<1>2. \A s \in Services : \A k \in CyclesOf(d) : rows'[<<s, k>>] \in {rows[<<s, k>>], NoRow}
  BY <1>1 DEF Waits
<1>3. history' = history
  BY DEF Waits
<1>4. Counted(d)' => Counted(d)
  BY <1>1, <1>2 DEF Counted
<1>5. ASSUME NEW f, ExactBut(d, f)
      PROVE  ExactBut(d, f)'
  <2>1. \A few : Truth(d, few)' = Truth(d, few)
    BY <1>3, HistorySame
  <2>2. \A k \in CyclesOf(d) : rows[<<"service", k>>] = NoRow => rows'[<<"service", k>>] = NoRow
    BY <1>1, <1>2
  <2>3. QED
    BY <1>5, <2>1, <2>2 DEF ExactBut
<1>6. \A s \in Services : \A r : Covers(r, s, d) => Covers(r, s, d)'
  BY <1>2 DEF Covers
<1>7. Seen(d)' <= Seen(d) /\ Seen(d) \in Nat /\ Seen(d)' \in Nat
  <2> DEFINE A == Reached(d) \ Lost("site", d)
             B == (Reached(d) \ Lost("site", d))'
  <2>1. Lost("site", d) \subseteq Lost("site", d)'
    BY <1>1, <1>2, <1>3 DEF Lost
  <2>2. Reached(d)' = Reached(d)
    BY <1>3, HistorySame
  <2>3. B \subseteq A /\ A \subseteq CyclesOf(d)
    BY <2>1, <2>2 DEF Reached
  <2>4. Seen(d) = Cardinality(A) /\ Seen(d)' = Cardinality(B)
    BY DEF Seen
  <2> HIDE DEF A, B
  <2>5. IsFiniteSet(A)
    BY <1>1, <2>3, PartIsSmaller
  <2>6. QED
    BY <2>3, <2>4, <2>5, PartIsSmaller
<1>8. QED
  BY <1>2, <1>4, <1>5, <1>6, <1>7

LEMMA WaitingFigures ==
  ASSUME FiguresAre, Types, Waits
  PROVE  FiguresAre'
<1> SUFFICES ASSUME NEW d \in OldDays
             PROVE  /\ \A s \in Services : Published(s, d)' = First(s, d)'
                    /\ \/ daily'[<<"service", d>>] = First("service", d)'
                       \/ ExactBut(d, daily[<<"service", d>>])'
                    /\ daily'[<<"site", d>>].failed >= Seen(d)'
  BY DEF FiguresAre
<1>1. history' = history /\ \A s \in Services : /\ daily'[<<s, d>>] = daily[<<s, d>>]
                                               /\ original'[<<s, d>>] = original[<<s, d>>]
  BY DEF Waits
<1>2. \A s \in Services : Published(s, d)' = Published(s, d)
  BY <1>1 DEF Published
<1>3. \A s \in Services : Published(s, d)' = First(s, d)'
  BY <1>1, <1>2, HistorySame DEF FiguresAre
<1>4. "service" \in Services /\ "site" \in Services
  BY DEF Services
<1>5. \/ daily'[<<"service", d>>] = First("service", d)'
      \/ ExactBut(d, daily[<<"service", d>>])'
  <2>1. CASE daily[<<"service", d>>] = First("service", d)
    BY <1>1, <1>4, <2>1, HistorySame
  <2>2. CASE ExactBut(d, daily[<<"service", d>>])
    <3>1. ASSUME NEW f, f = daily[<<"service", d>>]
          PROVE  ExactBut(d, f)'
      BY <2>2, <3>1, WaitingRows
    <3>2. daily'[<<"service", d>>] = daily[<<"service", d>>]
      BY <1>1, <1>4
    <3>3. QED
      BY <3>1, <3>2 DEF ExactBut
  <2>3. QED
    BY <2>1, <2>2 DEF FiguresAre
<1>6. daily'[<<"site", d>>].failed >= Seen(d)'
  <2>1. daily[<<"site", d>>].failed >= Seen(d) /\ daily'[<<"site", d>>] = daily[<<"site", d>>]
    BY <1>1, <1>4 DEF FiguresAre
  <2>2. daily[<<"site", d>>].failed \in Nat
    <3>1. daily[<<"site", d>>] \in Figure
      BY <1>4, OldDayIs DEF Types
    <3>2. QED
      BY <3>1, FigureFields
  <2>3. Seen(d)' <= Seen(d) /\ Seen(d) \in Nat /\ Seen(d)' \in Nat
    BY WaitingRows DEF Types
  <2>4. QED
    BY <2>1, <2>2, <2>3
<1>7. QED
  BY <1>3, <1>5, <1>6

LEMMA WaitingPlan ==
  ASSUME Types, Waits, NEW p, PlanFits(p), now \in Cycles, now' \in Cycles
  PROVE  PlanFits(p)'
<1>1. history' = history /\ now <= now' /\ now \in Nat /\ now' \in Nat
  BY DEF Waits, Cycles
<1>2. \A s \in Services, k \in OldCycles : rows'[<<s, k>>] \in {rows[<<s, k>>], NoRow}
  BY DEF Waits
<1>3. NoRow.status = "none" /\ "dns" \in Services
  BY DEF NoRow, Services
<1>4. p.daily \in [Services \X Days -> Figure] /\ p.changes \subseteq Services \X OldCycles
  BY DEF PlanFits
<1>5. \A x \in p.changes : ~Real(x[1], x[2])' /\ (rows'[x] # NoRow => rows'[x].status = "down")
  <2>1. \A x \in p.changes : ~Real(x[1], x[2]) /\ (rows[x] # NoRow => rows[x].status = "down")
    BY DEF PlanFits
  <2>2. \A x \in p.changes : rows'[x] \in {rows[x], NoRow}
    BY <1>2, <1>4
  <2>3. QED
    BY <1>1, <2>1, <2>2, HistorySame
<1>6. \A k \in OldCycles : <<"site", k>> \in p.changes /\ rows'[<<"dns", k>>].status = "down" =>
        <<"dns", k>> \in p.changes
  BY <1>2, <1>3 DEF PlanFits
<1>7. ASSUME NEW s \in Services, NEW d \in OldDays
      PROVE  /\ p.before[<<s, d>>] = daily'[<<s, d>>]
             /\ Counted(d)' => \E r : /\ Covers(r, s, d)'
                                     /\ ChangedOf(p.changes, s, d) \subseteq DownOf(r, s, d)
                                     /\ p.daily[<<s, d>>] = RecountFrom(r, s, d, p.changes)
  <2>1. p.before[<<s, d>>] = daily'[<<s, d>>]
    BY DEF PlanFits, Waits
  <2>2. ASSUME Counted(d)'
        PROVE  \E r : /\ Covers(r, s, d)'
                      /\ ChangedOf(p.changes, s, d) \subseteq DownOf(r, s, d)
                      /\ p.daily[<<s, d>>] = RecountFrom(r, s, d, p.changes)
    <3>1. Counted(d)
      BY <2>2, WaitingRows
    <3>2. PICK r : /\ Covers(r, s, d)
                   /\ ChangedOf(p.changes, s, d) \subseteq DownOf(r, s, d)
                   /\ p.daily[<<s, d>>] = RecountFrom(r, s, d, p.changes)
      BY <3>1 DEF PlanFits
    <3>3. Covers(r, s, d)'
      BY <3>2, WaitingRows
    <3>4. QED
      BY <3>2, <3>3
  <2>3. QED
    BY <2>1, <2>2
<1>8. ASSUME NEW d \in OldDays
      PROVE  /\ ExactBut(d, p.daily[<<"service", d>>])'
             /\ p.daily[<<"site", d>>].failed >= Seen(d)'
  <2>1. ExactBut(d, p.daily[<<"service", d>>]) /\ p.daily[<<"site", d>>].failed >= Seen(d)
    BY DEF PlanFits
  <2>2. ExactBut(d, p.daily[<<"service", d>>])'
    BY <2>1, WaitingRows
  <2>3. p.daily[<<"site", d>>].failed \in Nat
    <3>1. "site" \in Services /\ d \in Days
      BY OldDayIs DEF Services
    <3>2. p.daily[<<"site", d>>] \in Figure
      BY <1>4, <3>1
    <3>3. QED
      BY <3>2, FigureFields
  <2>4. Seen(d)' <= Seen(d) /\ Seen(d) \in Nat /\ Seen(d)' \in Nat
    BY WaitingRows DEF Types
  <2>5. QED
    BY <2>1, <2>2, <2>3, <2>4
<1>9. p.newer => Handover <= now'
  BY <1>1 DEF PlanFits
<1>10. ASSUME p.newer, ~p.keep, NEW s \in Services, NEW k \in OldCycles,
              Changeable(rows', s, k, FALSE)
       PROVE  <<s, k>> \in p.changes
  <2>1. Handover <= now
    BY <1>10 DEF PlanFits
  <2>2. \A t \in Services, j \in OldCycles \cup {Handover} :
          rows'[<<t, j>>] \in {rows[<<t, j>>], NoRow}
    BY <1>2, <2>1 DEF Waits
  <2>3. Changeable(rows, s, k, FALSE)
    BY <1>10, <2>2, PrunedShrinks
  <2>4. QED
    BY <1>10, <2>3 DEF PlanFits
<1>11. QED
  BY <1>4, <1>5, <1>6, <1>7, <1>8, <1>9, <1>10 DEF PlanFits

LEMMA WaitingDone ==
  ASSUME Waits, DoneIs, now \in Cycles, now' \in Cycles, done' = done,
         done = "full" => (plan' # NoPlan => plan'.changes = {})
  PROVE  DoneIs'
<1>1. history' = history /\ now <= now' /\ now \in Nat /\ now' \in Nat
  BY DEF Waits, Cycles
<1>2. OldDaysExact'
  <2>1. SUFFICES ASSUME done # "none", NEW d \in OldDays
                 PROVE  ExactBut(d, daily[<<"service", d>>])'
    BY DEF OldDaysExact, ExactBut
  <2>2. ASSUME NEW f, f = daily[<<"service", d>>]
        PROVE  ExactBut(d, f)'
    <3>1. ExactBut(d, f)
      BY <2>1, <2>2 DEF DoneIs, OldDaysExact, ExactBut
    <3>2. QED
      BY <3>1, WaitingRows
  <2>3. daily'[<<"service", d>>] = daily[<<"service", d>>]
    BY DEF Waits, Services
  <2>4. QED
    BY <2>2, <2>3 DEF ExactBut
<1>3. ASSUME done = "full"
      PROVE  /\ Handover <= now'
             /\ \A s \in Services, k \in OldCycles : ~Changeable(rows', s, k, FALSE)
             /\ \A s \in Services, d \in OldDays :
                  Counted(d)' => \E r : Covers(r, s, d)' /\ daily'[<<s, d>>] = Count(r, s, d)
  <2>1. Handover <= now
    BY <1>3 DEF DoneIs
  <2>2. Handover <= now'
    BY <1>1, <2>1
  <2>3. \A t \in Services, j \in OldCycles \cup {Handover} :
          rows'[<<t, j>>] \in {rows[<<t, j>>], NoRow}
    BY <2>1 DEF Waits
  <2>4. ASSUME NEW s \in Services, NEW k \in OldCycles, Changeable(rows', s, k, FALSE)
        PROVE  FALSE
    <3>1. Changeable(rows, s, k, FALSE)
      BY <2>3, <2>4, PrunedShrinks
    <3>2. QED
      BY <1>3, <3>1 DEF DoneIs
  <2>5. ASSUME NEW s \in Services, NEW d \in OldDays, Counted(d)'
        PROVE  \E r : Covers(r, s, d)' /\ daily'[<<s, d>>] = Count(r, s, d)
    <3>1. Counted(d)
      BY <2>5, WaitingRows
    <3>2. PICK r : Covers(r, s, d) /\ daily[<<s, d>>] = Count(r, s, d)
      BY <1>3, <3>1 DEF DoneIs
    <3>3. Covers(r, s, d)' /\ daily'[<<s, d>>] = daily[<<s, d>>]
      BY <3>2, WaitingRows DEF Waits
    <3>4. QED
      BY <3>2, <3>3
  <2>6. QED
    BY <2>2, <2>4, <2>5
<1>4. QED
  BY <1>2, <1>3 DEF DoneIs

-----------------------------------------------------------------------------
(* The invariant, step by step.                                            *)

LEMMA InitRows ==
  ASSUME Init, NEW s \in Services, NEW k \in Cycles
  PROVE  rows[<<s, k>>] = IF k \in OldCycles THEN OldRow(s, k) ELSE NoRow
  BY DEF Init, OldCycles

LEMMA InitFigures ==
  ASSUME Init, NEW s \in Services, NEW d \in Days
  PROVE  /\ daily[<<s, d>>] = Count(rows, s, d) /\ original[<<s, d>>] = NoFigure
         /\ Published(s, d) = daily[<<s, d>>]
         /\ d \in OldDays => daily[<<s, d>>] = First(s, d)
<1>1. daily[<<s, d>>] = Count(rows, s, d) /\ original[<<s, d>>] = NoFigure
  <2>1. /\ daily = [x \in Services \X Days |-> Count(rows, x[1], x[2])]
        /\ original = [x \in Services \X Days |-> NoFigure]
    BY DEF Init
  <2>2. <<s, d>> \in Services \X Days
    OBVIOUS
  <2>3. QED
    BY <2>1, <2>2
<1>2. ASSUME d \in OldDays
      PROVE  Count(rows, s, d) = First(s, d)
  <2> DEFINE U == UpOf(rows, s, d)
             D == DownOf(rows, s, d)
             G == {k \in CyclesOf(d) : OldRow(s, k).status = "down"}
  <2>1. CyclesOf(d) \subseteq OldCycles /\ OldCycles \subseteq Cycles
    BY <1>2, OldDayIs DEF OldCycles
  <2>2. history \in [OldCycles -> Outcome]
    BY DEF Init
  <2>3. \A k \in CyclesOf(d) : /\ rows[<<s, k>>] = OldRow(s, k)
                               /\ OldRow(s, k).status \in {"up", "down"}
    BY <2>1, <2>2, InitRows, OldRowIs
  <2>4. D = G /\ D \subseteq CyclesOf(d) /\ U = CyclesOf(d) \ D
    BY <2>3 DEF UpOf, DownOf
  <2>5. First(s, d) = [total |-> Cardinality(CyclesOf(d)), failed |-> Cardinality(G)]
    BY DEF First
  <2>6. Count(rows, s, d) = [total |-> Cardinality(U) + Cardinality(D), failed |-> Cardinality(D)]
    BY CountIs
  <2> HIDE DEF U, D, G
  <2>7. /\ Cardinality(U) = Cardinality(CyclesOf(d)) - Cardinality(D)
        /\ Cardinality(D) \in Nat /\ Cardinality(CyclesOf(d)) \in Nat
    <3>1. IsFiniteSet(CyclesOf(d))
      BY CyclesOfDay
    <3>2. QED
      BY <2>4, <3>1, PartIsSmaller
  <2>8. Cardinality(U) + Cardinality(D) = Cardinality(CyclesOf(d))
    BY <2>7
  <2>9. QED
    BY <2>4, <2>5, <2>6, <2>8
<1>3. QED
  BY <1>1, <1>2 DEF Published

LEMMA InitInv == Init => IInv
<1> SUFFICES ASSUME Init PROVE IInv
  OBVIOUS
<1>1. /\ history \in [OldCycles -> Outcome] /\ now = Handover - 1 /\ now \in Cycles
      /\ plan = NoPlan /\ done = "none" /\ OldCycles \subseteq Cycles
  BY DEF Init, Cycles, OldCycles
<1>2. \A s \in Services, k \in Cycles :
        rows[<<s, k>>] = IF k \in OldCycles THEN OldRow(s, k) ELSE NoRow
  BY InitRows
<1>3. \A s \in Services, k \in OldCycles :
        OldRow(s, k) \in Row /\ OldRow(s, k) # NoRow /\ OldRow(s, k).status \in {"up", "down"}
  <2>1. NoRow.status = "none"
    BY DEF NoRow
  <2>2. QED
    BY <1>1, <2>1, OldRowIs
<1>4. Types
  <2>1. rows \in [Services \X Cycles -> Row \cup {NoRow}]
    <3>1. rows = [x \in Services \X Cycles |-> IF x[2] < Handover THEN OldRow(x[1], x[2]) ELSE NoRow]
      BY DEF Init
    <3>2. \A s \in Services, k \in Cycles : rows[<<s, k>>] \in Row \cup {NoRow}
      BY <1>2, <1>3
    <3>3. QED
      BY <3>1, <3>2
  <2>2. daily \in [Services \X Days -> Figure]
    <3>1. daily = [x \in Services \X Days |-> Count(rows, x[1], x[2])]
      BY DEF Init
    <3>2. \A d \in Days, s \in Services : Count(rows, s, d) \in Figure
      BY CountIs
    <3>3. QED
      BY <3>1, <3>2
  <2>3. original \in [Services \X Days -> Figure]
    BY DEF Init, NoFigure, Figure
  <2>4. QED
    BY <1>1, <2>1, <2>2, <2>3 DEF Types
<1>5. Presence
  <2>1. \A s \in Services, k \in Cycles : rows[<<s, k>>] # NoRow <=> k \in OldCycles
    BY <1>2, <1>3
  <2>2. "site" \in Services
    BY DEF Services
  <2>3. \A k \in Cycles : k \in OldCycles <=> k <= now
    BY <1>1 DEF Cycles, OldCycles
  <2>4. \A k \in Cycles : \A j \in k..now : j \in Cycles /\ j <= now
    BY <1>1 DEF Cycles
  <2>5. now <= now
    BY <1>1 DEF Cycles
  <2>6. QED
    BY <1>1, <2>1, <2>2, <2>3, <2>4, <2>5 DEF Presence
<1>6. RowsAre
  BY <1>1, <1>2 DEF RowsAre
<1>7. FiguresAre
  <2>1. SUFFICES ASSUME NEW d \in OldDays
                 PROVE  /\ \A s \in Services : Published(s, d) = First(s, d)
                        /\ daily[<<"service", d>>] = First("service", d)
                        /\ daily[<<"site", d>>].failed >= Seen(d)
    BY DEF FiguresAre
  <2>2. d \in Days
    BY OldDayIs
  <2>3. \A s \in Services : Published(s, d) = First(s, d) /\ daily[<<s, d>>] = First(s, d)
    BY <2>2, InitFigures
  <2>4. First("site", d).failed >= Seen(d)
    BY <1>1, FirstIs
  <2>5. QED
    BY <2>3, <2>4 DEF Services
<1>8. IncidentsAre
  BY <1>1 DEF Init, IncidentsAre, IncidentsStand
<1>9. QED
  BY <1>1, <1>4, <1>5, <1>6, <1>7, <1>8 DEF IInv, PlanIs, DoneIs, OldDaysExact

LEMMA StandStill ==
  ASSUME IInv, IncidentsAre', UNCHANGED <<history, now, rows, daily, original, done>>,
         \/ plan' = plan
         \/ plan' = NoPlan
         \/ \E keep \in BOOLEAN : plan' = Analysis(keep)
  PROVE  IInv'
<1>1. Types' /\ Presence'
  BY DEF IInv, Types, Presence
<1>2. RowsAre'
  <2>1. \A s, k : OldRow(s, k)' = OldRow(s, k) /\ Real(s, k)' = Real(s, k)
    BY HistorySame
  <2>2. QED
    BY <2>1 DEF IInv, RowsAre, NewRow
<1>3. Waits
  BY DEF Waits, IInv, Types, Cycles
<1>4. FiguresAre'
  BY <1>3, WaitingFigures DEF IInv
<1>5. now \in Cycles /\ now' \in Cycles
  BY <1>1 DEF IInv, Types
<1>6. /\ plan' # NoPlan => PlanFits(plan')
      /\ done = "full" => (plan' # NoPlan => plan'.changes = {})
  BY AnalysisFits DEF IInv, PlanIs, DoneIs
<1>7. PlanIs'
  <2>1. ASSUME NEW q, q = plan', q # NoPlan
        PROVE  PlanFits(q)'
    <3>1. PlanFits(q)
      BY <1>6, <2>1
    <3>2. QED
      BY <1>3, <1>5, <3>1, WaitingPlan DEF IInv
  <2>2. QED
    BY <2>1 DEF PlanIs
<1>8. DoneIs'
  BY <1>1, <1>3, <1>5, <1>6, WaitingDone DEF IInv
<1>9. QED
  BY <1>1, <1>2, <1>4, <1>7, <1>8 DEF IInv

LEMMA PlanInv == ASSUME NEW keep \in BOOLEAN, IInv, Plan(keep) PROVE IInv'
<1>1. /\ UNCHANGED <<history, now, rows, daily, original, done>>
      /\ UNCHANGED <<incidents, causes, late>>
      /\ plan' = Analysis(keep) /\ plan'.drop = Removed(Changes(keep))
  BY DEF Plan, Analysis
<1>2. \A i \in incidents \cup (Outages \ incidents) \cup Removed(Changes(keep)) :
        Groundless(i)' <=> Groundless(i)
  BY <1>1, StandingSame
<1>3. IncidentsStand'
  BY <1>1, <1>2, StandingSame DEF IInv, IncidentsAre, IncidentsStand
<1>4. \A i \in Removed(Changes(keep)) : Groundless(i) /\ i \notin causes /\ i \in Outages
  BY RemovedAreGroundless DEF Removed, IInv, IncidentsAre
<1>5. IncidentsAre'
  BY <1>1, <1>2, <1>3, <1>4, StandingSame DEF IInv, IncidentsAre
<1>6. QED
  BY <1>1, <1>5, StandStill

\* A plan is dropped, or an explanation written or withdrawn: what was read
\* stands as it was.
LEMMA PanelInv ==
  ASSUME IInv, UNCHANGED <<history, now, rows, daily, original, incidents, done>>,
         causes' \subseteq Outages, late' \subseteq causes',
         causes' \subseteq incidents \cup late',
         \/ plan' = NoPlan
         \/ plan' = plan /\ (plan # NoPlan => plan.drop \cap causes' \subseteq late')
  PROVE  IInv'
<1>1. \A i : Groundless(i)' <=> Groundless(i)
  BY StandingSame
<1>2. Outages' = Outages
  BY StandingSame
<1>3. IncidentsStand'
  BY <1>1, <1>2 DEF IInv, IncidentsAre, IncidentsStand
<1>4. IncidentsAre'
  BY <1>1, <1>2, <1>3 DEF IInv, IncidentsAre
<1>5. QED
  BY <1>4, StandStill

\* A step that only waits keeps what was promised of the past; the rest is to
\* be shown of the rows alone.
LEMMA WaitingInv ==
  ASSUME IInv, Waits, Types', Presence', RowsAre', plan' = plan, done' = done,
         UNCHANGED <<incidents, causes, late>>
  PROVE  IInv'
<1>1. now \in Cycles /\ now' \in Cycles
  BY DEF IInv, Types
<1>2. FiguresAre'
  BY WaitingFigures DEF IInv
<1>3. PlanIs'
  <2>1. ASSUME NEW q, q = plan, q # NoPlan
        PROVE  PlanFits(q)'
    <3>1. PlanFits(q)
      BY <2>1 DEF IInv, PlanIs
    <3>2. QED
      BY <1>1, <3>1, WaitingPlan DEF IInv
  <2>2. QED
    BY <2>1 DEF PlanIs
<1>4. DoneIs'
  <2>1. done = "full" => (plan' # NoPlan => plan'.changes = {})
    BY DEF IInv, DoneIs
  <2>2. QED
    BY <1>1, <2>1, WaitingDone DEF IInv
<1>5. IncidentsAre'
  <2>1. \A i \in Outages : Groundless(i) => Groundless(i)'
    <3>1. "site" \in Services /\ history' = history
      BY DEF Services, Waits
    <3>2. /\ \A s \in Services, k \in OldCycles :
                rows[<<s, k>>] = NoRow => rows'[<<s, k>>] = NoRow
          /\ \A k \in Cycles :
                rows'[<<"site", k>>] # NoRow => rows[<<"site", k>>] # NoRow \/ now < k
      BY <3>1 DEF Waits
    <3>3. QED
      BY <3>1, <3>2, GroundlessStays DEF IInv
  <2>2. Outages' = Outages
    BY StandingSame DEF Waits
  <2>3. plan # NoPlan => \A i \in plan.drop : Groundless(i)'
    BY <2>1 DEF IInv, IncidentsAre
  <2>4. IncidentsStand'
    BY <2>1, <2>2 DEF IInv, IncidentsAre, IncidentsStand
  <2>5. QED
    BY <2>2, <2>3, <2>4 DEF IInv, IncidentsAre
<1>6. QED
  BY <1>2, <1>3, <1>4, <1>5 DEF IInv

LEMMA PruneInv == IInv /\ Prune => IInv'
<1> SUFFICES ASSUME IInv, Prune PROVE IInv'
  OBVIOUS
<1>1. /\ history' = history /\ now' = now /\ daily' = daily /\ original' = original
      /\ plan' = plan /\ done' = done /\ UNCHANGED <<incidents, causes, late>>
  BY DEF Prune
<1>2. \A s \in Services, k \in Cycles :
        rows'[<<s, k>>] = IF k + Retention < now THEN NoRow ELSE rows[<<s, k>>]
  BY DEF Prune
<1>3. now \in Cycles /\ now \in Nat /\ Retention \in Nat /\ Cycles \subseteq Nat
      /\ OldCycles \subseteq Cycles /\ Handover \in Nat
  BY DEF IInv, Types, Cycles, OldCycles
<1>4. Types'
  <2>1. rows' \in [Services \X Cycles -> Row \cup {NoRow}]
    <3>1. rows \in [Services \X Cycles -> Row \cup {NoRow}]
      BY DEF IInv, Types
    <3>2. rows' = [x \in Services \X Cycles |-> IF x[2] + Retention < now THEN NoRow ELSE rows[x]]
      BY DEF Prune
    <3>3. QED
      BY <3>1, <3>2
  <2>2. QED
    BY <1>1, <2>1 DEF IInv, Types
<1>5. Presence'
  <2>1. /\ Handover - 1 <= now /\ rows[<<"site", now>>] # NoRow
        /\ \A s \in Services, k \in Cycles : rows[<<s, k>>] # NoRow <=> rows[<<"site", k>>] # NoRow
        /\ \A k \in Cycles : rows[<<"site", k>>] # NoRow =>
             k <= now /\ \A j \in k..now : rows[<<"site", j>>] # NoRow
    BY DEF IInv, Presence
  <2>2. "site" \in Services /\ ~(now + Retention < now)
    BY <1>3 DEF Services
  <2>3. rows'[<<"site", now>>] # NoRow
    BY <1>2, <1>3, <2>1, <2>2
  <2>4. \A s \in Services, k \in Cycles : rows'[<<s, k>>] # NoRow <=> rows'[<<"site", k>>] # NoRow
    BY <1>2, <2>1, <2>2
  <2>5. ASSUME NEW k \in Cycles, rows'[<<"site", k>>] # NoRow
        PROVE  k <= now /\ \A j \in k..now : rows'[<<"site", j>>] # NoRow
    <3>1. ~(k + Retention < now) /\ rows[<<"site", k>>] # NoRow
      BY <1>2, <2>2, <2>5
    <3>2. k <= now /\ \A j \in k..now : rows[<<"site", j>>] # NoRow
      BY <2>1, <3>1
    <3>3. \A j \in k..now : j \in Cycles /\ ~(j + Retention < now)
      BY <1>3, <3>1, <3>2 DEF Cycles
    <3>4. QED
      BY <1>2, <2>2, <3>2, <3>3
  <2>6. QED
    BY <1>1, <1>3, <2>1, <2>3, <2>4, <2>5 DEF Presence
<1>6. RowsAre'
  <2>1. \A s, k : OldRow(s, k)' = OldRow(s, k) /\ Real(s, k)' = Real(s, k)
    BY <1>1, HistorySame
  <2>2. \A s \in Services, k \in Cycles : rows'[<<s, k>>] \in {rows[<<s, k>>], NoRow}
    BY <1>2
  <2>3. \A s \in Services, k \in OldCycles :
           \/ rows'[<<s, k>>] \in {NoRow, OldRow(s, k)}
           \/ OldRow(s, k).status = "down" /\ ~Real(s, k) /\ rows'[<<s, k>>] = CorrectedRow
    BY <1>3, <2>2 DEF IInv, RowsAre
  <2>4. \A s \in Services, k \in Cycles \ OldCycles :
          rows'[<<s, k>>] \in {NoRow, NewRow(s, TRUE), NewRow(s, FALSE)}
    BY <2>2 DEF IInv, RowsAre
  <2>5. QED
    BY <2>1, <2>3, <2>4 DEF RowsAre, NewRow
<1>7. Waits
  <2>1. Handover <= now => Handover \in Cycles
    BY <1>3 DEF Cycles
  <2>2. QED
    BY <1>1, <1>2, <1>3, <2>1 DEF Waits, Services
<1>8. QED
  BY <1>1, <1>4, <1>5, <1>6, <1>7, WaitingInv

LEMMA CycleInv == ASSUME NEW good \in BOOLEAN, IInv, Cycle(good) PROVE IInv'
<1>1. /\ now < MaxCycle /\ now' = now + 1 /\ history' = history /\ original' = original
      /\ plan' = plan /\ done' = done /\ UNCHANGED <<incidents, causes, late>>
  BY DEF Cycle
<1>2. \A s \in Services, k \in Cycles :
        rows'[<<s, k>>] = IF k = now' THEN NewRow(s, good) ELSE rows[<<s, k>>]
  BY DEF Cycle
<1>3. /\ now \in Nat \ {0} /\ Cycles \subseteq Nat /\ OldCycles \subseteq Cycles /\ Handover \in Nat
      /\ Handover <= now' /\ now' \in Cycles /\ now \in Cycles /\ now < now'
  BY <1>1 DEF IInv, Types, Presence, Cycles, OldCycles
<1>4. now' \notin OldCycles
  BY <1>3 DEF OldCycles
<1>5. \A s \in Services : NewRow(s, good) \in Row /\ NewRow(s, good) # NoRow
  <2>1. NoRow \notin Row
    BY DEF NoRow, Row
  <2>2. QED
    BY <2>1, NewRowIs
<1>6. Types'
  <2>1. rows' \in [Services \X Cycles -> Row \cup {NoRow}]
    <3>1. rows \in [Services \X Cycles -> Row \cup {NoRow}]
      BY DEF IInv, Types
    <3>2. rows' = [x \in Services \X Cycles |-> IF x[2] = now' THEN NewRow(x[1], good) ELSE rows[x]]
      BY DEF Cycle
    <3>3. QED
      BY <1>5, <3>1, <3>2
  <2>2. daily' \in [Services \X Days -> Figure]
    <3>1. daily' = [x \in Services \X Days |->
             IF x[2] = Day(now') /\ Count(rows', x[1], x[2]) # NoFigure
             THEN Count(rows', x[1], x[2]) ELSE daily[x]]
      BY DEF Cycle
    <3>2. \A s \in Services, d \in Days : Count(rows', s, d) \in Figure
      BY CountIs
    <3>3. daily \in [Services \X Days -> Figure]
      BY DEF IInv, Types
    <3>4. QED
      BY <3>1, <3>2, <3>3
  <2>3. QED
    BY <1>1, <1>3, <2>1, <2>2 DEF IInv, Types
<1>7. Presence'
  <2>1. /\ Handover - 1 <= now /\ rows[<<"site", now>>] # NoRow
        /\ \A s \in Services, k \in Cycles : rows[<<s, k>>] # NoRow <=> rows[<<"site", k>>] # NoRow
        /\ \A k \in Cycles : rows[<<"site", k>>] # NoRow =>
             k <= now /\ \A j \in k..now : rows[<<"site", j>>] # NoRow
    BY DEF IInv, Presence
  <2>2. "site" \in Services
    BY DEF Services
  <2>3. rows'[<<"site", now'>>] # NoRow
    BY <1>2, <1>3, <1>5, <2>2
  <2>4. \A s \in Services, k \in Cycles : rows'[<<s, k>>] # NoRow <=> rows'[<<"site", k>>] # NoRow
    BY <1>2, <1>5, <2>1, <2>2
  <2>5. ASSUME NEW k \in Cycles, rows'[<<"site", k>>] # NoRow
        PROVE  k <= now' /\ \A j \in k..now' : rows'[<<"site", j>>] # NoRow
    <3>1. CASE k = now'
      <4>1. k <= now' /\ \A j \in k..now' : j = now'
        BY <1>3, <3>1
      <4>2. QED
        BY <2>3, <4>1
    <3>2. CASE k # now'
      <4>1. rows[<<"site", k>>] # NoRow
        BY <1>2, <2>2, <2>5, <3>2
      <4>2. k <= now /\ \A j \in k..now : rows[<<"site", j>>] # NoRow
        BY <2>1, <4>1
      <4>3. ASSUME NEW j \in k..now'
            PROVE  rows'[<<"site", j>>] # NoRow
        <5>1. j = now' \/ (j \in k..now /\ j \in Cycles /\ j # now')
          BY <1>1, <1>3, <4>2 DEF Cycles
        <5>2. QED
          BY <1>2, <2>2, <2>3, <4>2, <5>1
      <4>4. QED
        BY <1>3, <4>2, <4>3
    <3>3. QED
      BY <3>1, <3>2
  <2>6. Handover - 1 <= now'
    BY <1>3
  <2>7. QED
    BY <1>3, <2>3, <2>4, <2>5, <2>6 DEF Presence
<1>8. RowsAre'
  <2>1. \A s, k : OldRow(s, k)' = OldRow(s, k) /\ Real(s, k)' = Real(s, k)
    BY <1>1, HistorySame
  <2>2. \A s \in Services, k \in OldCycles : rows'[<<s, k>>] = rows[<<s, k>>]
    BY <1>2, <1>3, <1>4
  <2>3. \A s \in Services, k \in OldCycles :
           \/ rows'[<<s, k>>] \in {NoRow, OldRow(s, k)}
           \/ OldRow(s, k).status = "down" /\ ~Real(s, k) /\ rows'[<<s, k>>] = CorrectedRow
    BY <2>2 DEF IInv, RowsAre
  <2>4. \A s \in Services, k \in Cycles \ OldCycles :
          rows'[<<s, k>>] \in {NoRow, NewRow(s, TRUE), NewRow(s, FALSE)}
    <3>1. \A s \in Services : NewRow(s, good) \in {NewRow(s, TRUE), NewRow(s, FALSE)}
      OBVIOUS
    <3>2. QED
      BY <1>2, <3>1 DEF IInv, RowsAre
  <2>5. QED
    BY <2>1, <2>3, <2>4 DEF RowsAre, NewRow
<1>9. Waits
  <2>1. \A s \in Services, k \in OldCycles : rows'[<<s, k>>] = rows[<<s, k>>]
    BY <1>2, <1>3, <1>4
  <2>2. Handover <= now => \A s \in Services : rows'[<<s, Handover>>] = rows[<<s, Handover>>]
    <3>1. Handover <= now => Handover \in Cycles /\ Handover # now'
      BY <1>1, <1>3 DEF Cycles
    <3>2. QED
      BY <1>2, <3>1
  <2>3. \A s \in Services, d \in OldDays : daily'[<<s, d>>] = daily[<<s, d>>]
    <3>1. SUFFICES ASSUME NEW s \in Services, NEW d \in OldDays
                   PROVE  daily'[<<s, d>>] = daily[<<s, d>>]
      OBVIOUS
    <3>2. d \in Days /\ d # Day(now')
      BY <1>3, OldDayIs
    <3>3. daily' = [x \in Services \X Days |->
             IF x[2] = Day(now') /\ Count(rows', x[1], x[2]) # NoFigure
             THEN Count(rows', x[1], x[2]) ELSE daily[x]]
      BY DEF Cycle
    <3>4. QED
      BY <3>2, <3>3
  <2>4. now <= now'
    BY <1>3
  <2>5. \A k \in Cycles : rows'[<<"site", k>>] # NoRow => rows[<<"site", k>>] # NoRow \/ now < k
    BY <1>2, <1>3 DEF Services
  <2>6. QED
    BY <1>1, <2>1, <2>2, <2>3, <2>4, <2>5 DEF Waits
<1>10. QED
  BY <1>1, <1>6, <1>7, <1>8, <1>9, WaitingInv

\* What Apply writes, figure by figure and row by row.
LEMMA AppliedRows ==
  ASSUME IInv, Apply, NEW s \in Services, NEW k \in Cycles
  PROVE  /\ <<s, k>> \in plan.changes /\ rows[<<s, k>>].status = "down" =>
              k \in OldCycles /\ rows'[<<s, k>>] = CorrectedRow
         /\ ~(<<s, k>> \in plan.changes /\ rows[<<s, k>>].status = "down") =>
              rows'[<<s, k>>] = rows[<<s, k>>]
<1>1. PlanFits(plan)
  BY DEF IInv, PlanIs, Apply
<1>2. rows'[<<s, k>>] = Corrected(<<s, k>>)
  BY DEF Apply
<1>3. ASSUME <<s, k>> \in plan.changes, rows[<<s, k>>].status = "down"
      PROVE  k \in OldCycles /\ rows'[<<s, k>>] = CorrectedRow
  <2>1. k \in OldCycles
    BY <1>1, <1>3 DEF PlanFits
  <2>2. history \in [OldCycles -> Outcome]
    BY DEF IInv, Types
  <2>3. rows[<<s, k>>] = OldRow(s, k)
    BY <1>3, <2>1, OldRowsStand DEF IInv
  <2>4. rows[<<s, k>>] \in Row /\ rows[<<s, k>>].orig = "none"
    BY <2>1, <2>2, <2>3, OldRowIs
  <2>5. Corrected(<<s, k>>) = [rows[<<s, k>>] EXCEPT !.status = "unknown", !.error = "corrected",
                                                     !.orig = IF @ = "none" THEN "down" ELSE @]
    BY <1>3 DEF Corrected
  <2> DEFINE x == rows[<<s, k>>]
  <2>6. x \in Row /\ x.orig = "none"
    BY <2>4
  <2> HIDE DEF x
  <2>7. [x EXCEPT !.status = "unknown", !.error = "corrected",
                  !.orig = IF @ = "none" THEN "down" ELSE @] = CorrectedRow
    <3>1. [x EXCEPT !.status = "unknown", !.error = "corrected",
                    !.orig = IF @ = "none" THEN "down" ELSE @]
            \in [status : {"unknown"}, error : {"corrected"}, orig : {"down"}]
      BY <2>6 DEF Row
    <3>2. \A y \in [status : {"unknown"}, error : {"corrected"}, orig : {"down"}] : y = CorrectedRow
      BY DEF CorrectedRow
    <3>3. QED
      BY <3>1, <3>2
  <2>8. QED
    BY <1>2, <2>1, <2>5, <2>7 DEF x
<1>4. ASSUME ~(<<s, k>> \in plan.changes /\ rows[<<s, k>>].status = "down")
      PROVE  rows'[<<s, k>>] = rows[<<s, k>>]
  BY <1>2, <1>4 DEF Corrected
<1>5. QED
  BY <1>3, <1>4

LEMMA AppliedFigures ==
  ASSUME IInv, Apply
  PROVE  /\ daily' \in [Services \X Days -> Figure] /\ original' \in [Services \X Days -> Figure]
         /\ \A s \in Services, d \in OldDays : daily'[<<s, d>>] = plan.daily[<<s, d>>]
         /\ \A s \in Services, d \in OldDays : Published(s, d)' = Published(s, d)
<1>1. PlanFits(plan)
  BY DEF IInv, PlanIs, Apply
<1>2. /\ daily' = [x \in Services \X Days |-> IF x \in Replaced THEN plan.daily[x] ELSE daily[x]]
      /\ original' = [x \in Services \X Days |-> Kept(x)]
  BY DEF Apply
<1>3. /\ daily \in [Services \X Days -> Figure] /\ original \in [Services \X Days -> Figure]
      /\ history \in [OldCycles -> Outcome]
  BY DEF IInv, Types
<1>4. plan.daily \in [Services \X Days -> Figure]
  BY <1>1 DEF PlanFits
<1>5. original' \in [Services \X Days -> Figure]
  BY <1>2, <1>3 DEF Kept
<1>6. daily' \in [Services \X Days -> Figure]
  BY <1>2, <1>3, <1>4
<1>7. ASSUME NEW s \in Services, NEW d \in OldDays
      PROVE  /\ daily'[<<s, d>>] = plan.daily[<<s, d>>]
             /\ Published(s, d)' = Published(s, d)
  <2>1. <<s, d>> \in Services \X Days
    BY OldDayIs
  <2>2. plan.before[<<s, d>>] = daily[<<s, d>>]
    BY <1>1 DEF PlanFits
  <2>3. <<s, d>> \in Replaced <=> plan.daily[<<s, d>>] # daily[<<s, d>>]
    BY <2>1, <2>2 DEF Replaced
  <2>4. daily'[<<s, d>>] = plan.daily[<<s, d>>]
    BY <1>2, <2>1, <2>3
  <2>5. original'[<<s, d>>] = IF <<s, d>> \in Replaced /\ original[<<s, d>>] = NoFigure
                              THEN daily[<<s, d>>] ELSE original[<<s, d>>]
    BY <1>2, <2>1 DEF Kept
  <2>6. Published(s, d) = First(s, d) /\ First(s, d) # NoFigure
    BY <1>3, FirstIs DEF IInv, FiguresAre
  <2>7. Published(s, d)' = IF original'[<<s, d>>] # NoFigure THEN original'[<<s, d>>]
                           ELSE daily'[<<s, d>>]
    BY DEF Published, NoFigure
  <2>8. QED
    BY <2>3, <2>4, <2>5, <2>6, <2>7 DEF Published
<1>8. QED
  BY <1>5, <1>6, <1>7

\* A full correction leaves nothing a correction would change.
LEMMA AppliedFully ==
  ASSUME IInv, Apply, plan.newer, ~plan.keep,
         NEW s \in Services, NEW k \in OldCycles, Changeable(rows', s, k, FALSE)
  PROVE  FALSE
<1>1. PlanFits(plan) /\ k \in Cycles /\ Services = {"site", "dns", "service"}
  BY DEF IInv, PlanIs, Apply, OldCycles, Services
<1>2. CorrectedRow.status = "unknown"
  BY DEF CorrectedRow
<1>3. ASSUME NEW t \in Services, NEW j \in Cycles, rows'[<<t, j>>].status \in {"up", "down"}
      PROVE  rows'[<<t, j>>] = rows[<<t, j>>]
  BY <1>2, <1>3, AppliedRows
<1>4. rows'[<<s, k>>].status = "down" /\ rows'[<<s, k>>] = rows[<<s, k>>]
  BY <1>1, <1>3 DEF Changeable
<1>5. <<s, k>> \notin plan.changes
  BY <1>1, <1>2, <1>4, AppliedRows
<1>6. \A j : GoodAt(rows', j) => GoodAt(rows, j)
  BY <1>1, <1>3 DEF GoodAt
<1>7. Excusable(rows', k, FALSE) => Excusable(rows, k, FALSE)
  <2>1. rows'[<<"site", k>>].status = "down" => rows'[<<"site", k>>] = rows[<<"site", k>>]
    BY <1>1, <1>3
  <2>2. rows'[<<"dns", k>>].status = "down" => rows'[<<"dns", k>>] = rows[<<"dns", k>>]
    BY <1>1, <1>3
  <2>3. QED
    BY <1>6, <2>1, <2>2 DEF Excusable
<1>8. ~Changeable(rows, s, k, FALSE)
  BY <1>1, <1>5 DEF PlanFits
<1>9. CASE s = "service"
  BY <1>4, <1>8, <1>9 DEF Changeable
<1>10. CASE s = "site"
  BY <1>4, <1>7, <1>8, <1>10 DEF Changeable
<1>11. CASE s = "dns"
  <2>1. <<"site", k>> \notin plan.changes
    BY <1>1, <1>4, <1>5, <1>11 DEF PlanFits
  <2>2. rows'[<<"site", k>>] = rows[<<"site", k>>]
    BY <1>1, <2>1, AppliedRows
  <2>3. QED
    BY <1>4, <1>7, <1>8, <1>11, <2>2 DEF Changeable
<1>12. QED
  BY <1>1, <1>9, <1>10, <1>11

\* A day that counts as complete shows, once its rows are corrected, what the
\* plan counted.
LEMMA AppliedCount ==
  ASSUME IInv, Apply, NEW s \in Services, NEW d \in OldDays, Counted(d)'
  PROVE  \E r : Covers(r, s, d)' /\ plan.daily[<<s, d>>] = Count(r, s, d)
<1>1. PlanFits(plan)
  BY DEF IInv, PlanIs, Apply
<1>2. /\ d \in Days /\ CyclesOf(d) \subseteq OldCycles /\ OldCycles \subseteq Cycles
      /\ "site" \in Services
  BY OldDayIs DEF OldCycles, Services
<1>3. CorrectedRow.status = "unknown"
  BY DEF CorrectedRow
<1>4. Counted(d)
  BY <1>2, <1>3, AppliedRows DEF Counted, NoRow
<1>5. PICK r : /\ Covers(r, s, d)
               /\ ChangedOf(plan.changes, s, d) \subseteq DownOf(r, s, d)
               /\ plan.daily[<<s, d>>] = RecountFrom(r, s, d, plan.changes)
  BY <1>1, <1>4 DEF PlanFits
<1> DEFINE C == ChangedOf(plan.changes, s, d)
           D == DownOf(r, s, d)
           U == UpOf(r, s, d)
<1>6. PICK q : \A k \in CyclesOf(d) :
        q[<<s, k>>] = IF <<s, k>> \in plan.changes THEN CorrectedRow ELSE r[<<s, k>>]
  <2> DEFINE x == [y \in Services \X Cycles |-> IF y \in plan.changes THEN CorrectedRow ELSE r[y]]
  <2>1. \A k \in CyclesOf(d) :
          x[<<s, k>>] = IF <<s, k>> \in plan.changes THEN CorrectedRow ELSE r[<<s, k>>]
    BY <1>2
  <2> HIDE DEF x
  <2>2. QED
    BY <2>1
<1>7. ASSUME NEW k \in CyclesOf(d), rows'[<<s, k>>] # NoRow
      PROVE  q[<<s, k>>] = rows'[<<s, k>>]
  <2>1. k \in Cycles
    BY <1>2
  <2>2. rows[<<s, k>>] # NoRow
    BY <1>7, <2>1, AppliedRows DEF NoRow
  <2>3. r[<<s, k>>] = rows[<<s, k>>]
    BY <1>5, <2>2 DEF Covers
  <2>4. <<s, k>> \in plan.changes => rows[<<s, k>>].status = "down"
    BY <1>1, <2>2 DEF PlanFits
  <2>5. QED
    BY <1>6, <2>1, <2>3, <2>4, AppliedRows
<1>8. Covers(q, s, d)'
  BY <1>7 DEF Covers
<1>9. UpOf(q, s, d) = U /\ DownOf(q, s, d) = D \ C
  <2>1. \A k \in CyclesOf(d) : <<s, k>> \in plan.changes => r[<<s, k>>].status = "down"
    BY <1>5 DEF ChangedOf, DownOf
  <2>2. QED
    BY <1>3, <1>6, <2>1 DEF UpOf, DownOf, ChangedOf
<1>10. plan.changes \subseteq Services \X Cycles
  BY <1>1, <1>2 DEF PlanFits
<1>11. RecountFrom(r, s, d, plan.changes)
         = [total |-> Cardinality(U) + Cardinality(D \ C), failed |-> Cardinality(D \ C)]
  BY <1>2, <1>5, <1>10, RecountIs
<1>12. Count(q, s, d) = [total |-> Cardinality(UpOf(q, s, d)) + Cardinality(DownOf(q, s, d)),
                         failed |-> Cardinality(DownOf(q, s, d))]
  BY <1>2, CountIs
<1> HIDE DEF C, D, U
<1>13. plan.daily[<<s, d>>] = Count(q, s, d)
  BY <1>5, <1>9, <1>11, <1>12
<1>14. QED
  BY <1>8, <1>13

LEMMA ApplyInv == IInv /\ Apply => IInv'
<1> SUFFICES ASSUME IInv, Apply PROVE IInv'
  OBVIOUS
<1>1. /\ PlanFits(plan) /\ history' = history /\ now' = now /\ plan' = NoPlan
      /\ done' \in {"some", "full"}
      /\ done' = "full" => done = "full" \/ (plan.newer /\ ~plan.keep)
  BY DEF IInv, PlanIs, Apply
<1>2. \A s, k : OldRow(s, k)' = OldRow(s, k) /\ Real(s, k)' = Real(s, k)
  BY <1>1, HistorySame
<1>3. /\ \A s, d : First(s, d)' = First(s, d)
      /\ \A d : Reached(d)' = Reached(d) /\ \A few : Truth(d, few)' = Truth(d, few)
  BY <1>1, HistorySame
<1>4. ASSUME NEW s \in Services, NEW k \in Cycles
      PROVE  /\ rows'[<<s, k>>] # NoRow <=> rows[<<s, k>>] # NoRow
             /\ rows'[<<s, k>>] \in Row \cup {NoRow}
  <2>1. rows[<<s, k>>] \in Row \cup {NoRow}
    BY DEF IInv, Types
  <2>2. CorrectedRow \in Row /\ CorrectedRow # NoRow
    BY DEF CorrectedRow, Row, NoRow
  <2>3. NoRow.status # "down"
    BY DEF NoRow
  <2>4. QED
    BY <2>1, <2>2, <2>3, AppliedRows
<1>5. Types'
  <2>1. rows' \in [Services \X Cycles -> Row \cup {NoRow}]
    <3>1. rows' = [x \in Services \X Cycles |-> Corrected(x)]
      BY DEF Apply
    <3>2. \A x \in Services \X Cycles : rows'[x] \in Row \cup {NoRow}
      BY <1>4
    <3>3. QED
      BY <3>1, <3>2
  <2>2. QED
    BY <1>1, <2>1, AppliedFigures DEF IInv, Types
<1>6. Presence'
  <2>1. "site" \in Services /\ \A k \in Cycles : \A j \in k..now : now \in Cycles => j \in Cycles
    BY DEF Services, Cycles
  <2>2. QED
    BY <1>1, <1>4, <2>1 DEF IInv, Presence
<1>7. RowsAre'
  <2>1. OldCycles \subseteq Cycles
    BY DEF OldCycles
  <2>2. ASSUME NEW s \in Services, NEW k \in OldCycles
        PROVE  \/ rows'[<<s, k>>] \in {NoRow, OldRow(s, k)}
               \/ OldRow(s, k).status = "down" /\ ~Real(s, k) /\ rows'[<<s, k>>] = CorrectedRow
    <3>1. CASE <<s, k>> \in plan.changes /\ rows[<<s, k>>].status = "down"
      <4>1. rows'[<<s, k>>] = CorrectedRow
        BY <2>1, <3>1, AppliedRows
      <4>2. ~Real(s, k)
        BY <1>1, <3>1 DEF PlanFits
      <4>3. rows[<<s, k>>] = OldRow(s, k)
        BY <3>1, OldRowsStand DEF IInv
      <4>4. QED
        BY <3>1, <4>1, <4>2, <4>3
    <3>2. CASE ~(<<s, k>> \in plan.changes /\ rows[<<s, k>>].status = "down")
      BY <2>1, <3>2, AppliedRows DEF IInv, RowsAre
    <3>3. QED
      BY <3>1, <3>2
  <2>3. ASSUME NEW s \in Services, NEW k \in Cycles \ OldCycles
        PROVE  rows'[<<s, k>>] \in {NoRow, NewRow(s, TRUE), NewRow(s, FALSE)}
    <3>1. rows'[<<s, k>>] = rows[<<s, k>>]
      BY AppliedRows
    <3>2. QED
      BY <3>1 DEF IInv, RowsAre
  <2>4. QED
    BY <1>2, <2>2, <2>3 DEF RowsAre, NewRow
<1>8. ASSUME NEW d \in OldDays
      PROVE  /\ ExactBut(d, daily[<<"service", d>>])'
             /\ daily'[<<"site", d>>].failed >= Seen(d)'
  <2>1. /\ d \in Days /\ CyclesOf(d) \subseteq OldCycles /\ OldCycles \subseteq Cycles
        /\ "service" \in Services /\ "site" \in Services
    BY OldDayIs DEF OldCycles, Services
  <2>2. \A s \in Services : \A k \in CyclesOf(d) : rows'[<<s, k>>] = NoRow <=> rows[<<s, k>>] = NoRow
    BY <1>4, <2>1
  <2>3. ASSUME NEW f, ExactBut(d, f)
        PROVE  ExactBut(d, f)'
    BY <1>3, <2>1, <2>2, <2>3 DEF ExactBut
  <2>4. ExactBut(d, plan.daily[<<"service", d>>]) /\ plan.daily[<<"site", d>>].failed >= Seen(d)
    BY <1>1 DEF PlanFits
  <2>5. ASSUME NEW f, f = plan.daily[<<"service", d>>]
        PROVE  ExactBut(d, f)'
    BY <2>3, <2>4, <2>5
  <2>6. daily'[<<"service", d>>] = plan.daily[<<"service", d>>]
        /\ daily'[<<"site", d>>] = plan.daily[<<"site", d>>]
    BY <2>1, AppliedFigures
  <2>7. Lost("site", d)' = Lost("site", d)
    BY <1>1, <2>1, <2>2 DEF Lost
  <2>8. Seen(d)' = Seen(d)
    BY <1>3, <2>7 DEF Seen
  <2>9. ExactBut(d, daily[<<"service", d>>])'
    BY <2>5, <2>6 DEF ExactBut
  <2>10. QED
    BY <2>4, <2>6, <2>8, <2>9
<1>9. FiguresAre'
  <2>1. ASSUME NEW d \in OldDays, NEW s \in Services
        PROVE  Published(s, d)' = First(s, d)'
    BY <1>3, AppliedFigures DEF IInv, FiguresAre
  <2>2. QED
    BY <1>8, <2>1 DEF FiguresAre
<1>10. PlanIs'
  BY <1>1 DEF PlanIs, NoPlan
<1>11. DoneIs'
  <2>1. OldDaysExact'
    BY <1>8 DEF OldDaysExact, ExactBut
  <2>2. ASSUME done' = "full"
        PROVE  /\ Handover <= now'
               /\ \A s \in Services, k \in OldCycles : ~Changeable(rows', s, k, FALSE)
    <3>1. CASE plan.newer /\ ~plan.keep
      BY <1>1, <3>1, AppliedFully DEF PlanFits
    <3>2. CASE done = "full"
      <4>1. plan.changes = {} /\ Handover <= now
        BY <3>2 DEF IInv, DoneIs, Apply
      <4>2. \A s \in Services, k \in Cycles : rows'[<<s, k>>] = rows[<<s, k>>]
        BY <4>1, AppliedRows
      <4>3. ASSUME NEW s \in Services, NEW k \in OldCycles, Changeable(rows', s, k, FALSE)
            PROVE  Changeable(rows, s, k, FALSE)
        <5>1. k \in Cycles /\ Services = {"site", "dns", "service"}
          BY DEF OldCycles, Services
        <5>2. \A j : GoodAt(rows', j) <=> GoodAt(rows, j)
          BY <4>2, <5>1 DEF GoodAt
        <5>3. /\ rows'[<<s, k>>] = rows[<<s, k>>] /\ rows'[<<"site", k>>] = rows[<<"site", k>>]
              /\ rows'[<<"dns", k>>] = rows[<<"dns", k>>]
          BY <4>2, <5>1
        <5>4. QED
          BY <4>3, <5>2, <5>3 DEF Changeable, Excusable
      <4>4. QED
        BY <1>1, <3>2, <4>1, <4>3 DEF IInv, DoneIs
    <3>3. QED
      BY <1>1, <2>2, <3>1, <3>2
  <2>3. ASSUME NEW s \in Services, NEW d \in OldDays, Counted(d)'
        PROVE  \E r : Covers(r, s, d)' /\ daily'[<<s, d>>] = Count(r, s, d)
    <3>1. \E r : Covers(r, s, d)' /\ plan.daily[<<s, d>>] = Count(r, s, d)
      BY <2>3, AppliedCount
    <3>2. daily'[<<s, d>>] = plan.daily[<<s, d>>]
      BY AppliedFigures
    <3>3. QED
      BY <3>1, <3>2
  <2>4. QED
    BY <1>1, <2>1, <2>2, <2>3 DEF DoneIs
<1>12. IncidentsAre'
  <2>1. /\ incidents' = incidents \ plan.drop /\ causes' = causes /\ late' = late \ incidents'
        /\ plan # NoPlan
    BY DEF Apply
  <2>2. "site" \in Services /\ OldCycles \subseteq Cycles
    BY DEF Services, OldCycles
  <2>3. /\ \A s \in Services, k \in OldCycles : rows[<<s, k>>] = NoRow => rows'[<<s, k>>] = NoRow
        /\ \A k \in Cycles :
             rows'[<<"site", k>>] # NoRow => rows[<<"site", k>>] # NoRow \/ now < k
    BY <1>4, <2>2
  <2>4. \A i \in Outages : Groundless(i) => Groundless(i)'
    BY <1>1, <1>6, <2>3, GroundlessStays DEF IInv
  <2>5. Outages' = Outages
    BY <1>1, StandingSame
  <2>6. \A i \in Outages' \ incidents' : Groundless(i)'
    BY <2>1, <2>4, <2>5 DEF IInv, IncidentsAre, IncidentsStand
  <2>7. causes' \subseteq incidents' \cup late'
    BY <2>1 DEF IInv, IncidentsAre, IncidentsStand
  <2>8. QED
    BY <1>1, <2>1, <2>5, <2>6, <2>7 DEF IInv, IncidentsAre, IncidentsStand
<1>13. QED
  BY <1>5, <1>6, <1>7, <1>9, <1>10, <1>11, <1>12 DEF IInv

LEMMA Invariance == Spec => []IInv
<1>1. IInv /\ [Next]_vars => IInv'
  <2> SUFFICES ASSUME IInv, [Next]_vars PROVE IInv'
    OBVIOUS
  <2>1. ASSUME NEW keep \in BOOLEAN, Plan(keep) PROVE IInv'
    BY <2>1, PlanInv
  <2>2. CASE Drop
    BY <2>2, PanelInv DEF Drop, IInv, IncidentsAre, IncidentsStand
  <2>3. CASE Apply
    BY <2>3, ApplyInv
  <2>4. CASE Prune
    BY <2>4, PruneInv
  <2>5. ASSUME NEW good \in BOOLEAN, Cycle(good) PROVE IInv'
    BY <2>5, CycleInv
  <2>6. ASSUME NEW i \in incidents, Explain(i) PROVE IInv'
    BY <2>6, PanelInv DEF Explain, IInv, IncidentsAre, IncidentsStand
  <2>7. ASSUME NEW i \in incidents, Retract(i) PROVE IInv'
    BY <2>7, PanelInv DEF Retract, IInv, IncidentsAre, IncidentsStand
  <2>8. CASE UNCHANGED vars
    BY <2>8, PanelInv DEF vars, IInv, IncidentsAre, IncidentsStand
  <2>9. QED
    BY <2>1, <2>2, <2>3, <2>4, <2>5, <2>6, <2>7, <2>8 DEF Next
<1>2. QED
  BY <1>1, InitInv, PTL DEF Spec

-----------------------------------------------------------------------------
(* What the correction promises.                                           *)

\* The type invariant: a figure never has more failures than checks, in the
\* history or in a plan that waits, so no subtraction of the correction goes
\* below zero (remeasure.py:208, 250).
THEOREM TypeCorrect == Spec => []TypeOK
<1>1. IInv => TypeOK
  <2> SUFFICES ASSUME IInv PROVE TypeOK
    OBVIOUS
  <2>1. ASSUME NEW f \in [Services \X Days -> Figure]
        PROVE  f \in Figures /\ \A x \in Services \X Days : f[x].failed <= f[x].total
    <3>1. \A x \in Services \X Days :
            f[x] \in [total : 0..PerDay, failed : 0..PerDay] /\ f[x].failed <= f[x].total
      BY DEF Figure
    <3>2. QED
      BY <3>1 DEF Figures
  <2>2. daily \in [Services \X Days -> Figure] /\ original \in [Services \X Days -> Figure]
    BY DEF IInv, Types
  <2>3. plan # NoPlan => plan.daily \in [Services \X Days -> Figure]
    BY DEF IInv, PlanIs, PlanFits
  <2>4. \A f \in {daily, original} \cup (IF plan = NoPlan THEN {} ELSE {plan.daily}) :
          f \in [Services \X Days -> Figure]
    BY <2>2, <2>3
  <2>5. \A i \in Outages : i.service \in Services /\ i.from < i.to /\ i.to \in OldCycles
    BY OutageIs DEF IInv, Types
  <2>6. QED
    BY <2>1, <2>4, <2>5 DEF IInv, Types, IncidentsAre, TypeOK
<1>2. QED
  BY <1>1, Invariance, PTL

\* However often the correction is planned and written, beside cycles and
\* pruning, a failed check that reached the platform, that repeated or that the
\* current prober confirmed stays down, a website day keeps the failures that
\* reached us, but for lost checks of its first minutes, and only incidents
\* without such a check go (remeasure.py:25-28, 36-40, 216, 267-303).
THEOREM Stands == Spec => []WhatReachedUsStands
<1>1. IInv => WhatReachedUsStands
  <2> SUFFICES ASSUME IInv PROVE WhatReachedUsStands
    OBVIOUS
  <2>1. ASSUME NEW s \in Services, NEW k \in Cycles, rows[<<s, k>>] # NoRow
        PROVE  /\ Real(s, k) => rows[<<s, k>>].error # "corrected"
               /\ rows[<<s, k>>].error = "corrected" <=> rows[<<s, k>>].orig = "down"
    <3>1. CASE k \in OldCycles
      <4>1. \/ rows[<<s, k>>] = OldRow(s, k)
            \/ ~Real(s, k) /\ rows[<<s, k>>] = CorrectedRow
        BY <2>1, <3>1 DEF IInv, RowsAre
      <4>2. OldRow(s, k).error # "corrected" /\ OldRow(s, k).orig = "none"
        BY <3>1, OldRowIs DEF IInv, Types
      <4>3. CorrectedRow.error = "corrected" /\ CorrectedRow.orig = "down"
        BY DEF CorrectedRow
      <4>4. QED
        BY <4>1, <4>2, <4>3
    <3>2. CASE k \notin OldCycles
      <4>1. rows[<<s, k>>] \in {NewRow(s, TRUE), NewRow(s, FALSE)}
        BY <2>1, <3>2 DEF IInv, RowsAre
      <4>2. QED
        BY <4>1, NewRowIs
    <3>3. QED
      BY <3>1, <3>2
  <2>2. \A d \in OldDays :
          LET reached == {k \in CyclesOf(d) : history[k].site = "reached"}
          IN  daily[<<"site", d>>].failed >= Cardinality(reached \ Lost("site", d))
    BY DEF IInv, FiguresAre, Seen, Reached
  <2>3. QED
    BY <2>1, <2>2 DEF WhatReachedUsStands, IInv, IncidentsAre
<1>2. QED
  BY <1>1, Invariance, PTL

\* Once a correction was written, every day before the handover shows for the
\* service exactly the checks that were made, whether its rows were there or
\* gone when the plan was made or when it was written, but for first ones of the
\* day that were pruned while it still counted as complete
\* (remeasure.py:30-33, 216, 222-224, 236-254).
THEOREM Exact == Spec => []OldDaysExact
<1>1. IInv => OldDaysExact
  BY DEF IInv, DoneIs
<1>2. QED
  BY <1>1, Invariance, PTL

\* What a full correction has seen, the next one finds in order, also when raw
\* checks were pruned since: no row to change, and no figure further off than the
\* lost checks of the day's first minutes (remeasure.py:45-46, 216).
THEOREM Settled == Spec => []NothingLeftToDo
<1>1. IInv => NothingLeftToDo
  <2> SUFFICES ASSUME IInv, done = "full"
               PROVE  /\ Analysis(FALSE).changes = {}
                      /\ \A s \in Services, d \in OldDays :
                           Within(Cardinality(Lost(s, d)), Analysis(FALSE).daily[<<s, d>>],
                                  daily[<<s, d>>])
    BY DEF NothingLeftToDo
  <2>1. Types /\ Presence /\ RowsAre /\ FiguresAre /\ DoneIs
    BY DEF IInv
  <2>2. Analysis(FALSE).changes = {} /\ Changes(FALSE) = {}
    <3>1. Analysis(FALSE).changes = {}
      BY <2>1, AnalysisFits
    <3>2. Analysis(FALSE).changes = Changes(FALSE)
      BY DEF Analysis
    <3>3. QED
      BY <3>1, <3>2
  <2>3. ASSUME NEW s \in Services, NEW d \in OldDays
        PROVE  Within(Cardinality(Lost(s, d)), Analysis(FALSE).daily[<<s, d>>], daily[<<s, d>>])
    <3>1. d \in Days /\ daily[<<s, d>>] \in Figure
      BY <2>1, OldDayIs DEF Types
    <3>2. Analysis(FALSE).daily[<<s, d>>] = NewFigure(s, d, Changes(FALSE))
      BY <3>1 DEF Analysis
    <3>3. CASE s = "service"
      <4>1. ExactBut(d, daily[<<"service", d>>])
        BY <2>1 DEF DoneIs, OldDaysExact, ExactBut
      <4>2. ExactBut(d, NewFigure("service", d, Changes(FALSE)))
        BY <2>1, NewFigureIs
      <4>3. QED
        BY <3>2, <3>3, <4>1, <4>2, ExactAreClose
    <3>4. CASE s # "service" /\ Counted(d)
      <4>1. NewFigure(s, d, Changes(FALSE)) = Count(rows, s, d)
        BY <2>1, <2>2, <3>4, NewFigureIs, NothingToRecount
      <4>2. PICK r : Covers(r, s, d) /\ daily[<<s, d>>] = Count(r, s, d)
        BY <3>4 DEF IInv, DoneIs
      <4>3. QED
        BY <2>1, <3>2, <3>4, <4>1, <4>2, CountsAreClose
    <3>5. CASE s # "service" /\ ~Counted(d)
      <4>1. NewFigure(s, d, Changes(FALSE)) = daily[<<s, d>>]
        BY <2>1, <3>5, NewFigureIs
      <4>2. daily[<<s, d>>].total \in Nat /\ daily[<<s, d>>].failed \in Nat
        BY <3>1, FigureFields
      <4>3. Cardinality(Lost(s, d)) \in Nat
        BY LostIs
      <4>4. QED
        BY <3>2, <4>1, <4>2, <4>3, SameIsWithin
    <3>6. QED
      BY <3>3, <3>4, <3>5
  <2>4. QED
    BY <2>2, <2>3
<1>2. QED
  BY <1>1, Invariance, PTL
====
