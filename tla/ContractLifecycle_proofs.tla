------------------------ MODULE ContractLifecycle_proofs ------------------------
(***************************************************************************)
(* What ContractLifecycle guarantees for any number of contracts, any      *)
(* terms and any calendar:                                                 *)
(*   - whatever overlaps, TypeOK, NoActiveOverlap, RentedHasActive,        *)
(*     PendingHoldsPeriodBack and DeletedStaysSilent (LifecycleInv is the  *)
(*     induction);                                                         *)
(*   - for each contract no application of which overlapped (overlapped    *)
(*     has not got it), AdjustmentsChain, AmountFollowsAdjustments and     *)
(*     PastMonthsFrozen (ChainInv is).                                     *)
(***************************************************************************)
EXTENDS ContractLifecycle, FiniteSetTheorems, TLAPS

\* Before it is created, a contract has nothing, and nobody looks at it.
AbsentClean ==
    \A c \in Contracts : contracts[c].status = "absent" =>
        /\ ~ contracts[c].deleted
        /\ \A m \in Months : adjustments[c][m].status = "none" /\ rent_periods[c][m] = 0
        /\ listed[c] = 0
        /\ \A r \in applying : r.contract # c

\* No adjustment is of a month to come, nor a request to apply one.
AdjustedByToday ==
    /\ \A c \in Contracts : \A m \in Pending(c) \cup AppliedMonths(c) : m <= MonthOf(today)
    /\ \A r \in applying : r.period <= MonthOf(today)

\* Only a job under way has listed contracts, and the detection those that are
\* adjusted with some frequency.
ListingInv ==
    /\ running => jobs # <<>>
    /\ ~ running => \A c \in Contracts : listed[c] = 0
    /\ \A c \in Contracts : Detecting(c) => contracts[c].frequency > 0

LifecycleInv ==
    /\ TypeOK /\ AbsentClean /\ AdjustedByToday /\ ListingInv
    /\ NoActiveOverlap /\ RentedHasActive

-----------------------------------------------------------------------------
(* Days and months.                                                        *)

LEMMA MonthFacts ==
    /\ \A day \in Days : MonthOf(day) \in Months /\ MonthOf(day) \in Nat
    /\ \A a, b \in Days : a <= b => MonthOf(a) <= MonthOf(b)
    /\ Months \subseteq Nat /\ Months \subseteq Int /\ Days \subseteq Nat
    /\ \A m \in Nat, day \in Days : FirstDayOf(m) <= day => m <= MonthOf(day)
<1>1. DaysPerMonth \in Nat \ {0} /\ MaxDay \in Nat
  BY LifecycleAssumption
<1>2. \A a, b \in Nat : a \div DaysPerMonth \in Nat /\ (a <= b => a \div DaysPerMonth <= b \div DaysPerMonth)
  BY <1>1
<1>3. \A m \in Nat : m * DaysPerMonth \in Nat /\ (m * DaysPerMonth) \div DaysPerMonth = m
  BY <1>1
<1>4. \A m \in Nat, day \in Nat : FirstDayOf(m) <= day => m <= MonthOf(day)
  BY <1>2, <1>3 DEF FirstDayOf, MonthOf
<1> QED BY <1>1, <1>2, <1>4 DEF Days, Months, MonthOf

LEMMA MultipleStep ==
    ASSUME NEW a \in Int, NEW f \in Nat \ {0}, a % f = 0
    PROVE  (a + f) % f = 0
<1>1. a = f * (a \div f) + (a % f) /\ a \div f \in Int
  OBVIOUS
<1>2. a + f = f * ((a \div f) + 1)
  BY <1>1
<1>3. \A b, q \in Int : b = f * q => b % f = 0
  OBVIOUS
<1> QED BY <1>1, <1>2, <1>3

\* A set of months that has one has a last one.
LEMMA LastMonth ==
    ASSUME NEW S, S \subseteq Months, S # {}
    PROVE  Max(S) \in S /\ \A m \in S : m <= Max(S)
<1> DEFINE Since(k) == {m \in S : m >= k}
           Tails == {Since(k) : k \in S}
<1>1. IsFiniteSet(S)
  <2>1. IsFiniteSet(0..MonthOf(MaxDay))
    BY MonthFacts, FS_Interval, LifecycleAssumption DEF Days, Months
  <2> QED BY <2>1, FS_Subset DEF Months
<1>2. S \subseteq Nat
  BY MonthFacts
<1>3. IsWellFoundedOn(StrictSubsetOrdering(S), SUBSET S)
  BY <1>1, FS_FiniteSubsetsOfFinite, FS_StrictSubsetOrderingWellFounded
<1>4. Tails \subseteq SUBSET S /\ Tails # {}
  OBVIOUS
<1>5. PICK T \in Tails : \A U \in Tails : ~ (<<U, T>> \in StrictSubsetOrdering(S))
  BY <1>3, <1>4, WFMin
<1>6. PICK k \in S : T = Since(k)
  OBVIOUS
<1>7. \A m \in S : m <= k
  <2> SUFFICES ASSUME NEW m \in S, m > k PROVE FALSE
    BY <1>2
  <2>1. \A x, y, z \in Nat : (x >= y /\ y > z => x >= z) /\ (y > z => ~ (z >= y)) /\ x >= x
    OBVIOUS
  <2>2. Since(m) \subseteq Since(k) /\ k \in Since(k) /\ k \notin Since(m)
    BY <1>2, <2>1, Zenon
  <2>3. <<Since(m), T>> \in StrictSubsetOrdering(S)
    BY <1>6, <2>2 DEF StrictSubsetOrdering
  <2> QED BY <1>5, <2>3
<1>8. \E x \in S : \A y \in S : x >= y
  BY <1>2, <1>7
<1>9. Max(S) \in S /\ \A y \in S : Max(S) >= y
  BY <1>8 DEF Max
<1> QED BY <1>2, <1>9

\* It is the only one that no other follows.
LEMMA LastMonthIs ==
    ASSUME NEW S, S \subseteq Months, NEW n \in S, \A m \in S : m <= n
    PROVE  Max(S) = n
<1>1. Max(S) \in S /\ n <= Max(S)
  BY LastMonth
<1>2. Max(S) <= n
  BY <1>1
<1>3. Max(S) \in Nat /\ n \in Nat
  BY <1>1, MonthFacts
<1> QED BY <1>1, <1>2, <1>3

\* The amount of a month, before every raise and from the last one on.
LEMMA AmountBeforeRaises ==
    ASSUME NEW initial, NEW raises, NEW month, \A m \in DOMAIN raises : ~ (m <= month)
    PROVE  AmountInMonth(initial, raises, month) = initial
BY DEF AmountInMonth

LEMMA AmountOfRaise ==
    ASSUME NEW initial, NEW raises, DOMAIN raises \subseteq Months, NEW month \in Int,
           NEW n \in DOMAIN raises, n <= month,
           \A m \in DOMAIN raises : m <= month => m <= n
    PROVE  AmountInMonth(initial, raises, month) = raises[n]
<1> DEFINE due == {m \in DOMAIN raises : m <= month}
<1>1. Max(due) = n /\ due # {}
  BY LastMonthIs
<1> QED BY <1>1 DEF AmountInMonth

\* There is always a raise the amount is of, or none.
LEMMA AmountCases ==
    ASSUME NEW initial, NEW raises, DOMAIN raises \subseteq Months, NEW month \in Int
    PROVE  \/ /\ \A m \in DOMAIN raises : m > month
              /\ AmountInMonth(initial, raises, month) = initial
           \/ \E n \in DOMAIN raises :
                 /\ n <= month
                 /\ \A m \in DOMAIN raises : m <= month => m <= n
                 /\ AmountInMonth(initial, raises, month) = raises[n]
<1> DEFINE due == {m \in DOMAIN raises : m <= month}
<1>1. due \subseteq Months /\ DOMAIN raises \subseteq Nat
  BY MonthFacts
<1>2. CASE due = {}
  BY <1>1, <1>2 DEF AmountInMonth
<1>3. CASE due # {}
  BY <1>1, <1>3, LastMonth DEF AmountInMonth
<1> QED BY <1>2, <1>3

LEMMA AmountType ==
    ASSUME NEW initial \in Amounts, NEW S \in SUBSET Months, NEW raises \in [S -> Amounts],
           NEW month \in Int
    PROVE  AmountInMonth(initial, raises, month) \in Amounts
BY AmountCases

\* Raises that are the same up to a month give it the same amount.
LEMMA SameAmount ==
    ASSUME NEW initial, NEW a, NEW b, NEW i \in Int, NEW j \in Int,
           DOMAIN a \subseteq Months, DOMAIN b \subseteq Months,
           {m \in DOMAIN a : m <= i} = {m \in DOMAIN b : m <= j},
           \A m \in DOMAIN a : m <= i => a[m] = b[m]
    PROVE  AmountInMonth(initial, a, i) = AmountInMonth(initial, b, j)
<1>1. CASE {m \in DOMAIN a : m <= i} = {}
  BY <1>1 DEF AmountInMonth
<1>2. CASE {m \in DOMAIN a : m <= i} # {}
  BY <1>2, LastMonth DEF AmountInMonth
<1> QED BY <1>1, <1>2

-----------------------------------------------------------------------------
(* Each action preserves LifecycleInv.                                     *)

LEMMA InitLifecycle == Init => LifecycleInv
<1> SUFFICES ASSUME Init PROVE LifecycleInv
  OBVIOUS
<1> USE DEF Init, NoContract, NoAdjustment
<1>1. TypeOK
  <2>1. 0 \in Days /\ 0 \in 0..MaxAmount
    BY LifecycleAssumption DEF Days
  <2>2. listed \in [Contracts -> 0..MaxAmount] /\ running \in BOOLEAN
    BY <2>1 DEF NothingListed
  <2> QED BY <2>1, <2>2, LifecycleAssumption
          DEF TypeOK, ContractRow, AdjustmentRow, ContractStatus, PropertyStatus, ApplyRequest
<1>2. AbsentClean /\ AdjustedByToday /\ ListingInv
  BY DEF AbsentClean, AdjustedByToday, ListingInv, Detecting, NothingListed, Pending, AppliedMonths
<1>3. NoActiveOverlap /\ RentedHasActive
  BY DEF NoActiveOverlap, RentedHasActive, Active
<1> QED BY <1>1, <1>2, <1>3 DEF LifecycleInv

\* What is listed stays while the jobs do not move.
LEMMA KeepsListing ==
    ASSUME ListingInv, UNCHANGED calendar,
           \A c \in Contracts : listed[c] # 0 => contracts'[c].frequency = contracts[c].frequency
    PROVE  ListingInv'
BY DEF ListingInv, Detecting, calendar

\* Contracts that are active stay so with the same days, or no longer are.
LEMMA FewerActive ==
    ASSUME NoActiveOverlap,
           \A c \in Contracts : Active(c)' =>
              /\ Active(c)
              /\ contracts'[c].start_date = contracts[c].start_date
              /\ contracts'[c].end_date = contracts[c].end_date
    PROVE  NoActiveOverlap'
BY DEF NoActiveOverlap, Overlaps

\* The amounts a new contract starts with.
LEMMA CreatedAmounts ==
    ASSUME TypeOK, NEW t \in Terms, NEW declared \in Declarable(t),
           NEW raises \in [declared -> Amounts]
    PROVE  /\ declared \subseteq Months
           /\ \A m \in declared : m <= MonthOf(today)
           /\ t.initial_amount \in Amounts
           /\ \A m \in Int : AmountInMonth(t.initial_amount, raises, m) \in Amounts
<1>1. t \in TermsRow
  BY LifecycleAssumption
<1>2. \A m \in SinceMonths(t) : m \in Months /\ m <= MonthOf(today)
  BY <1>1, MonthFacts, LifecycleAssumption DEF SinceMonths, TermsRow, TypeOK, FirstDayOf, Days
<1>3. \A m \in Windows(t) : m \in Months /\ m <= MonthOf(today)
  BY DEF Windows
<1>4. declared \subseteq Months /\ \A m \in declared : m <= MonthOf(today)
  BY <1>2, <1>3 DEF Declarable
<1>5. t.initial_amount \in Amounts
  BY <1>1 DEF TermsRow
<1> QED BY <1>4, <1>5, AmountType

\* What Create writes of a contract, its raises and its past months.
Created(c, t, declared, raises) ==
    LET amount(m) == AmountInMonth(t.initial_amount, raises, m)
    IN  /\ contracts' = [contracts EXCEPT ![c] =
             [status |-> "draft", deleted |-> FALSE,
              start_date |-> t.start_date, end_date |-> t.end_date,
              initial_amount |-> t.initial_amount,
              current_amount |-> amount(MonthOf(today)),
              frequency |-> t.frequency, notified |-> FALSE]]
        /\ adjustments' = [adjustments EXCEPT ![c] =
             [m \in Months |-> IF m \in declared
                THEN [status |-> "applied", previous |-> amount(m - 1), new |-> raises[m]]
                ELSE NoAdjustment]]
        /\ rent_periods' = [rent_periods EXCEPT ![c] =
             [m \in Months |-> IF m \in PastMonths(t) THEN amount(m) ELSE 0]]

LEMMA CreateLifecycle ==
    ASSUME LifecycleInv, NEW c \in Contracts, NEW t \in Terms, Create(c, t)
    PROVE  LifecycleInv'
<1> PICK declared \in Declarable(t) : \E raises \in [declared -> Amounts] :
        Created(c, t, declared, raises)
  BY DEF Create, Created
<1>1. PICK raises \in [declared -> Amounts] : Created(c, t, declared, raises)
  OBVIOUS
<1>2. /\ contracts[c].status = "absent" /\ UNCHANGED <<calendar, properties, requests>>
  BY DEF Create
<1>3. TypeOK
  BY DEF LifecycleInv
<1>4. /\ declared \subseteq Months /\ \A m \in declared : m <= MonthOf(today)
      /\ t \in TermsRow /\ \A m \in Int : AmountInMonth(t.initial_amount, raises, m) \in Amounts
      /\ Months \subseteq Int /\ MonthOf(today) \in Int /\ Amounts \subseteq 0..MaxAmount
      /\ 0 \in 0..MaxAmount
  <2>1. /\ declared \subseteq Months /\ \A m \in declared : m <= MonthOf(today)
        /\ \A m \in Int : AmountInMonth(t.initial_amount, raises, m) \in Amounts
    BY <1>3, CreatedAmounts
  <2>2. t \in TermsRow /\ Amounts \subseteq 0..MaxAmount /\ 0 \in 0..MaxAmount
    BY LifecycleAssumption DEF Amounts
  <2>3. MonthOf(today) \in Nat /\ Months \subseteq Int
    <3>1. today \in Days
      BY <1>3 DEF TypeOK
    <3> QED BY <3>1, MonthFacts
  <2> QED BY <2>1, <2>2, <2>3
<1> DEFINE amount(m) == AmountInMonth(t.initial_amount, raises, m)
           new == contracts'[c]
<1>5. /\ contracts' = [contracts EXCEPT ![c] = new] /\ new \in ContractRow
      /\ new.status = "draft"
  <2>1. amount(MonthOf(today)) \in 0..MaxAmount
    BY <1>4
  <2> HIDE DEF amount
  <2> QED BY <1>1, <1>3, <1>4, <2>1 DEF Created, TypeOK, ContractRow, ContractStatus, TermsRow, amount
<1>6. /\ adjustments' = [adjustments EXCEPT ![c] = adjustments'[c]]
      /\ adjustments'[c] \in [Months -> AdjustmentRow]
      /\ \A m \in Months : adjustments'[c][m].status = IF m \in declared THEN "applied" ELSE "none"
  <2>1. \A m \in Months : amount(m - 1) \in 0..MaxAmount
    <3>1. \A m \in Months : m - 1 \in Int
      BY <1>4
    <3> QED BY <1>4, <3>1
  <2>2. \A m \in declared : raises[m] \in 0..MaxAmount
    BY <1>4
  <2> HIDE DEF amount
  <2> QED BY <1>1, <1>3, <1>4, <2>1, <2>2 DEF Created, TypeOK, AdjustmentRow, NoAdjustment, amount
<1>7. rent_periods' \in [Contracts -> [Months -> 0..MaxAmount]]
      /\ \A d \in Contracts \ {c} : rent_periods'[d] = rent_periods[d]
  <2>1. \A m \in Months : amount(m) \in 0..MaxAmount
    BY <1>4
  <2> HIDE DEF amount
  <2> QED BY <1>1, <1>3, <1>4, <2>1 DEF Created, TypeOK, amount
<1> HIDE DEF new
<1>8. \A d \in Contracts \ {c} : contracts'[d] = contracts[d] /\ adjustments'[d] = adjustments[d]
  BY <1>3, <1>5, <1>6 DEF TypeOK
<1>9. contracts'[c] = new
  BY DEF new
<1>10. TypeOK'
  BY <1>2, <1>3, <1>5, <1>6, <1>7 DEF TypeOK, calendar, requests
<1>11. AbsentClean' /\ ListingInv'
  <2>1. AbsentClean'
    BY <1>2, <1>5, <1>7, <1>8, <1>9 DEF LifecycleInv, AbsentClean, calendar, requests
  <2>2. \A d \in Contracts : listed[d] # 0 => contracts'[d].frequency = contracts[d].frequency
    BY <1>2, <1>8 DEF LifecycleInv, AbsentClean
  <2> QED BY <1>2, <2>1, <2>2, KeepsListing DEF LifecycleInv
<1>12. AdjustedByToday'
  <2> SUFFICES ASSUME NEW d \in Contracts
               PROVE  (\A m \in Pending(d) \cup AppliedMonths(d) : m <= MonthOf(today))'
    BY <1>2 DEF LifecycleInv, AdjustedByToday, calendar, requests
  <2>1. CASE d = c
    BY <1>2, <1>4, <1>6, <2>1 DEF Pending, AppliedMonths, calendar
  <2>2. CASE d # c
    BY <1>2, <1>8, <2>2 DEF LifecycleInv, AdjustedByToday, Pending, AppliedMonths, calendar
  <2> QED BY <2>1, <2>2
<1>13. \A d \in Contracts : Active(d)' <=> Active(d) /\ d # c
  BY <1>2, <1>5, <1>8, <1>9 DEF Active
<1>14. NoActiveOverlap'
  BY <1>8, <1>13, FewerActive DEF LifecycleInv
<1>15. RentedHasActive'
  <2>1. ~ Active(c)
    BY <1>2 DEF Active
  <2> QED BY <1>2, <1>13, <2>1 DEF LifecycleInv, RentedHasActive, ActiveOn
<1> QED BY <1>10, <1>11, <1>12, <1>14, <1>15 DEF LifecycleInv

\* One contract's row changes, and maybe its property and its periods.
LEMMA ContractChange ==
    ASSUME LifecycleInv, NEW c \in Contracts, NEW new \in ContractRow,
           contracts' = [contracts EXCEPT ![c] = new],
           contracts[c].status # "absent", new.status # "absent",
           new.frequency = contracts[c].frequency,
           UNCHANGED <<calendar, adjustments, requests>>,
           rent_periods' \in [Contracts -> [Months -> 0..MaxAmount]],
           \A d \in Contracts \ {c} : rent_periods'[d] = rent_periods[d],
           properties' \in [Properties -> PropertyStatus \cup {"deleted"}],
           \A d \in Contracts \ {c} :
              /\ Active(c)' /\ Active(d) /\ PropertyOf[d] = PropertyOf[c]
              => ~ Overlaps(new, contracts[d]) /\ ~ Overlaps(contracts[d], new),
           \A p \in Properties : properties'[p] = "rented" =>
              (p = PropertyOf[c] /\ Active(c)')
              \/ (properties[p] = "rented" /\ (p = PropertyOf[c] => ~ Active(c)))
    PROVE  LifecycleInv'
<1>1. contracts'[c] = new /\ \A d \in Contracts \ {c} : contracts'[d] = contracts[d]
  BY DEF LifecycleInv, TypeOK
<1>2. TypeOK' /\ ListingInv'
  <2>1. TypeOK'
    BY DEF LifecycleInv, TypeOK, calendar, requests
  <2>2. \A d \in Contracts : contracts'[d].frequency = contracts[d].frequency
    BY <1>1
  <2> QED BY <2>1, <2>2, KeepsListing DEF LifecycleInv
<1>3. AbsentClean' /\ AdjustedByToday'
  BY <1>1 DEF LifecycleInv, AbsentClean, AdjustedByToday, Pending, AppliedMonths, calendar, requests
<1>4. \A d \in Contracts \ {c} : Active(d)' <=> Active(d)
  BY <1>1 DEF Active
<1>5. NoActiveOverlap'
  <2> SUFFICES ASSUME NEW d \in Contracts, NEW e \in Contracts,
                      d # e, PropertyOf[d] = PropertyOf[e], Active(d)', Active(e)'
               PROVE  ~ Overlaps(contracts'[d], contracts'[e])
    BY DEF NoActiveOverlap, Overlaps
  <2>1. CASE d = c
    BY <1>1, <1>4, <2>1
  <2>2. CASE e = c
    BY <1>1, <1>4, <2>2
  <2>3. CASE d # c /\ e # c
    BY <1>1, <1>4, <2>3 DEF LifecycleInv, NoActiveOverlap
  <2> QED BY <2>1, <2>2, <2>3
<1>6. RentedHasActive'
  <2> SUFFICES ASSUME NEW p \in Properties, properties'[p] = "rented"
               PROVE  \E d \in Contracts : PropertyOf[d] = p /\ Active(d)'
    BY DEF RentedHasActive, ActiveOn, Active
  <2>1. CASE p = PropertyOf[c] /\ Active(c)'
    BY <2>1
  <2>2. CASE properties[p] = "rented" /\ (p = PropertyOf[c] => ~ Active(c))
    <3>1. PICK d \in Contracts : PropertyOf[d] = p /\ Active(d)
      BY <2>2 DEF LifecycleInv, RentedHasActive, ActiveOn
    <3> QED BY <1>4, <2>2, <3>1
  <2> QED BY <2>1, <2>2
<1> QED BY <1>2, <1>3, <1>5, <1>6 DEF LifecycleInv

LEMMA OccupancyFacts ==
    ASSUME TypeOK, NEW p \in Properties, NEW status \in PropertyStatus
    PROVE  /\ Occupancy(properties, p, status) \in [Properties -> PropertyStatus \cup {"deleted"}]
           /\ \A q \in Properties \ {p} : Occupancy(properties, p, status)[q] = properties[q]
           /\ Occupancy(properties, p, status)[p] \in {status, "deleted"}
BY DEF TypeOK, Occupancy, PropertyStatus

LEMMA WithPeriodFacts ==
    ASSUME NEW periods \in [Months -> 0..MaxAmount], NEW month \in Months,
           NEW amount \in 0..MaxAmount
    PROVE  /\ WithPeriod(periods, month, amount) \in [Months -> 0..MaxAmount]
           /\ \A m \in Months : periods[m] # 0 => WithPeriod(periods, month, amount)[m] = periods[m]
           /\ \A m \in Months \ {month} : WithPeriod(periods, month, amount)[m] = periods[m]
           /\ periods[month] = 0 => WithPeriod(periods, month, amount)[month] = amount
BY DEF WithPeriod

LEMMA UpdateEndDateLifecycle ==
    ASSUME LifecycleInv, NEW c \in Contracts, NEW end \in Days, UpdateEndDate(c, end)
    PROVE  LifecycleInv'
<1> DEFINE new == [contracts[c] EXCEPT !.end_date = end]
<1>1. /\ Visible(c) /\ contracts' = [contracts EXCEPT ![c] = new]
      /\ Active(c) => Conflicts(c, new) = {}
      /\ UNCHANGED <<calendar, properties, adjustments, rent_periods, requests>>
  BY DEF UpdateEndDate
<1>2. contracts[c] \in ContractRow /\ TypeOK
  BY DEF LifecycleInv, TypeOK
<1>3. /\ new \in ContractRow /\ new.status = contracts[c].status /\ new.deleted = contracts[c].deleted
      /\ new.frequency = contracts[c].frequency
  BY <1>2 DEF ContractRow
<1> HIDE DEF new
<1>4. Active(c)' <=> Active(c)
  BY <1>1, <1>2, <1>3 DEF Active, TypeOK
<1>5. \A d \in Contracts \ {c} :
        Active(c) /\ Active(d) /\ PropertyOf[d] = PropertyOf[c]
        => ~ Overlaps(new, contracts[d]) /\ ~ Overlaps(contracts[d], new)
  BY <1>1 DEF Conflicts, ActiveOn, Overlaps
<1>6. \A p \in Properties : properties'[p] = "rented" =>
        (p = PropertyOf[c] /\ Active(c)') \/ (properties[p] = "rented" /\ (p = PropertyOf[c] => ~ Active(c)))
  BY <1>1, <1>4
<1>7. contracts[c].status # "absent"
  BY <1>1 DEF Visible
<1> QED BY <1>1, <1>2, <1>3, <1>4, <1>5, <1>6, <1>7, ContractChange DEF TypeOK

LEMMA ActivateLifecycle ==
    ASSUME LifecycleInv, NEW c \in Contracts, Activate(c)
    PROVE  LifecycleInv'
<1> DEFINE new == [contracts[c] EXCEPT !.status = "active"]
<1>1. /\ contracts[c].status = "draft" /\ contracts' = [contracts EXCEPT ![c] = new]
      /\ Conflicts(c, contracts[c]) = {}
      /\ properties' = Occupancy(properties, PropertyOf[c], "rented")
      /\ rent_periods' = [rent_periods EXCEPT ![c] = ActivationPeriod(c)]
      /\ UNCHANGED <<calendar, adjustments, requests>>
  BY DEF Activate
<1>2. contracts[c] \in ContractRow /\ TypeOK /\ rent_periods[c] \in [Months -> 0..MaxAmount]
  BY DEF LifecycleInv, TypeOK
<1>3. /\ new \in ContractRow /\ new.status = "active" /\ new.frequency = contracts[c].frequency
      /\ new.start_date = contracts[c].start_date /\ new.end_date = contracts[c].end_date
  BY <1>2 DEF ContractRow, ContractStatus
<1> HIDE DEF new
<1>4. ~ Active(c) /\ (Active(c)' => new.deleted = FALSE) /\ (Active(c)' <=> ~ new.deleted)
  BY <1>1, <1>2, <1>3 DEF Active, TypeOK, ContractRow
<1>5. \A d \in Contracts \ {c} :
        Active(d) /\ PropertyOf[d] = PropertyOf[c]
        => ~ Overlaps(new, contracts[d]) /\ ~ Overlaps(contracts[d], new)
  BY <1>1, <1>3 DEF Conflicts, ActiveOn, Overlaps
<1>6. PropertyOf[c] \in Properties
  BY LifecycleAssumption
<1>7. /\ properties' \in [Properties -> PropertyStatus \cup {"deleted"}]
      /\ \A q \in Properties \ {PropertyOf[c]} : properties'[q] = properties[q]
  BY <1>1, <1>2, <1>6, OccupancyFacts DEF PropertyStatus
<1>8. ActivationPeriod(c) \in [Months -> 0..MaxAmount]
  <2>1. MonthOf(today) \in Months /\ contracts[c].current_amount \in 0..MaxAmount
    BY <1>2, MonthFacts DEF TypeOK, ContractRow
  <2> QED BY <1>2, <2>1, WithPeriodFacts DEF ActivationPeriod
<1>9. /\ rent_periods' \in [Contracts -> [Months -> 0..MaxAmount]]
      /\ \A d \in Contracts \ {c} : rent_periods'[d] = rent_periods[d]
  <2> HIDE DEF ActivationPeriod
  <2> QED BY <1>1, <1>2, <1>8 DEF TypeOK
<1>10. Active(c)'
  <2>1. ~ contracts[c].deleted /\ new.deleted = contracts[c].deleted
    BY <1>2 DEF Activate, Visible, new, ContractRow
  <2> QED BY <1>4, <2>1
<1>11. \A p \in Properties : properties'[p] = "rented" =>
        (p = PropertyOf[c] /\ Active(c)') \/ (properties[p] = "rented" /\ (p = PropertyOf[c] => ~ Active(c)))
  BY <1>7, <1>10
<1> QED BY <1>1, <1>3, <1>5, <1>7, <1>9, <1>11, ContractChange

\* A contract that ends, or is deleted, and leaves its property if active.
LEMMA EndsLifecycle ==
    ASSUME LifecycleInv, NEW c \in Contracts, NEW new \in ContractRow,
           contracts[c].status # "absent", new.status # "absent",
           new.status # "active" \/ new.deleted, new.frequency = contracts[c].frequency,
           contracts' = [contracts EXCEPT ![c] = new],
           properties' = (IF Active(c) THEN Occupancy(properties, PropertyOf[c], "available")
                          ELSE properties),
           UNCHANGED <<calendar, adjustments, rent_periods, requests>>
    PROVE  LifecycleInv'
<1>1. TypeOK /\ PropertyOf[c] \in Properties
  BY LifecycleAssumption DEF LifecycleInv
<1>2. ~ Active(c)'
  BY <1>1 DEF Active, TypeOK
<1>3. /\ properties' \in [Properties -> PropertyStatus \cup {"deleted"}]
      /\ \A q \in Properties \ {PropertyOf[c]} : properties'[q] = properties[q]
      /\ properties'[PropertyOf[c]] = "rented" => ~ Active(c) /\ properties[PropertyOf[c]] = "rented"
  <2>1. CASE Active(c)
    BY <1>1, <2>1, OccupancyFacts DEF PropertyStatus
  <2>2. CASE ~ Active(c)
    BY <1>1, <2>2 DEF TypeOK
  <2> QED BY <2>1, <2>2
<1>4. \A p \in Properties : properties'[p] = "rented" =>
        (p = PropertyOf[c] /\ Active(c)') \/ (properties[p] = "rented" /\ (p = PropertyOf[c] => ~ Active(c)))
  BY <1>3
<1> QED BY <1>1, <1>2, <1>3, <1>4, ContractChange DEF TypeOK

LEMMA TerminateLifecycle ==
    ASSUME LifecycleInv, NEW c \in Contracts, Terminate(c)
    PROVE  LifecycleInv'
<1> DEFINE new == [contracts[c] EXCEPT !.status = "terminated"]
<1>1. /\ Active(c) /\ contracts' = [contracts EXCEPT ![c] = new]
      /\ properties' = Occupancy(properties, PropertyOf[c], "available")
      /\ UNCHANGED <<calendar, adjustments, rent_periods, requests>>
  BY DEF Terminate
<1>2. new \in ContractRow /\ new.status = "terminated" /\ new.frequency = contracts[c].frequency
  BY DEF LifecycleInv, TypeOK, ContractRow, ContractStatus
<1>3. contracts[c].status # "absent"
  BY <1>1 DEF Active
<1> HIDE DEF new
<1> QED BY <1>1, <1>2, <1>3, EndsLifecycle

LEMMA DeleteLifecycle ==
    ASSUME LifecycleInv, NEW c \in Contracts, Delete(c)
    PROVE  LifecycleInv'
<1> DEFINE new == [contracts[c] EXCEPT !.deleted = TRUE]
<1>1. /\ Visible(c) /\ contracts' = [contracts EXCEPT ![c] = new]
      /\ properties' = (IF Active(c) THEN Occupancy(properties, PropertyOf[c], "available")
                        ELSE properties)
      /\ UNCHANGED <<calendar, adjustments, rent_periods, requests>>
  BY DEF Delete
<1>2. /\ new \in ContractRow /\ new.status = contracts[c].status /\ new.deleted
      /\ new.frequency = contracts[c].frequency
  BY DEF LifecycleInv, TypeOK, ContractRow
<1>3. contracts[c].status # "absent"
  BY <1>1 DEF Visible
<1> HIDE DEF new
<1> QED BY <1>1, <1>2, <1>3, EndsLifecycle

\* Requests that have not written, and requests dropped.
LEMMA ApplyingLifecycle ==
    ASSUME LifecycleInv, applying' \subseteq ApplyRequest, overlapped' \subseteq Contracts,
           \A r \in applying' : /\ r.period <= MonthOf(today)
                                /\ contracts[r.contract].status # "absent",
           UNCHANGED <<calendar, contracts, properties, adjustments, rent_periods>>
    PROVE  LifecycleInv'
<1>1. TypeOK' /\ AbsentClean' /\ AdjustedByToday'
  BY DEF LifecycleInv, TypeOK, AbsentClean, AdjustedByToday, calendar, Pending, AppliedMonths
<1>2. NoActiveOverlap' /\ RentedHasActive' /\ ListingInv'
  BY KeepsListing DEF LifecycleInv, NoActiveOverlap, RentedHasActive, Active, ActiveOn
<1> QED BY <1>1, <1>2 DEF LifecycleInv

\* The requests there are meet what ApplyingLifecycle asks for.
LEMMA ApplyingFacts ==
    ASSUME LifecycleInv, NEW r \in applying
    PROVE  /\ r \in ApplyRequest /\ r.period <= MonthOf(today)
           /\ contracts[r.contract].status # "absent"
<1>1. r \in ApplyRequest /\ r.contract \in Contracts
  BY DEF LifecycleInv, TypeOK, ApplyRequest
<1> QED BY <1>1 DEF LifecycleInv, AdjustedByToday, AbsentClean

LEMMA ApplyReadLifecycle ==
    ASSUME LifecycleInv, NEW c \in Contracts, NEW m \in Months, NEW new \in Amounts,
           ApplyRead(c, m, new)
    PROVE  LifecycleInv'
<1> DEFINE read == [contract |-> c, period |-> m, new |-> new, selected |-> FALSE]
<1>1. read \in ApplyRequest /\ read.contract = c /\ read.period = m
  BY DEF ApplyRequest
<1>2. m <= MonthOf(today) /\ contracts[c].status # "absent"
  BY DEF ApplyRead, LifecycleInv, AdjustedByToday, AbsentClean, Pending
<1>3. applying' = applying \cup {read}
  BY DEF ApplyRead
<1>4. overlapped' \subseteq Contracts
  BY DEF ApplyRead, LifecycleInv, TypeOK, ApplyRequest
<1> HIDE DEF read
<1> QED BY <1>1, <1>2, <1>3, <1>4, ApplyingFacts, ApplyingLifecycle DEF ApplyRead

LEMMA ApplySelectLifecycle ==
    ASSUME LifecycleInv, NEW r \in applying, ApplySelect(r)
    PROVE  LifecycleInv'
<1> DEFINE selected == [r EXCEPT !.selected = TRUE]
<1>1. /\ selected \in ApplyRequest /\ selected.contract = r.contract
      /\ selected.period = r.period
  BY DEF LifecycleInv, TypeOK, ApplyRequest
<1>2. applying' = (applying \ {r}) \cup {selected}
  BY DEF ApplySelect
<1>3. overlapped' \subseteq Contracts
  BY DEF ApplySelect, LifecycleInv, TypeOK
<1> HIDE DEF selected
<1> QED BY <1>1, <1>2, <1>3, ApplyingFacts, ApplyingLifecycle DEF ApplySelect

LEMMA ApplyDropLifecycle ==
    ASSUME LifecycleInv, NEW r \in applying, ApplyDrop(r)
    PROVE  LifecycleInv'
<1>1. applying' \subseteq applying /\ overlapped' \subseteq Contracts
  BY DEF ApplyDrop, LifecycleInv, TypeOK
<1> QED BY <1>1, ApplyingFacts, ApplyingLifecycle DEF ApplyDrop

\* What the commit of an application of month m of contract c writes.
Commits(r, c, m) ==
    /\ r.new \in Amounts /\ contracts[c].status # "absent"
    /\ contracts' = [contracts EXCEPT ![c].current_amount = r.new]
    /\ contracts' \in [Contracts -> ContractRow]
    /\ adjustments' \in [Contracts -> [Months -> AdjustmentRow]]
    /\ adjustments'[c][m].status = "applied" /\ adjustments'[c][m].new = r.new
    /\ adjustments'[c][m].previous = adjustments[c][m].previous
    /\ \A d \in Contracts, k \in Months :
          d # c \/ k # m => adjustments'[d][k] = adjustments[d][k]
    /\ \A d \in Contracts \ {c} : adjustments'[d] = adjustments[d]
    /\ rent_periods' = [rent_periods EXCEPT ![c] = WithPeriod(rent_periods[c], m, r.new)]
    /\ rent_periods' \in [Contracts -> [Months -> 0..MaxAmount]]
    /\ applying' = applying \ {r}
    /\ overlapped' = IF Detecting(c) THEN overlapped \cup {c} ELSE overlapped
    /\ UNCHANGED <<calendar, properties>>

LEMMA ApplyCommitRows ==
    ASSUME LifecycleInv, NEW r \in applying, ApplyCommit(r), NEW c, NEW m,
           c = r.contract, m = r.period
    PROVE  c \in Contracts /\ m \in Months /\ Commits(r, c, m)
<1>1. TypeOK /\ c \in Contracts /\ m \in Months /\ contracts[c].status # "absent"
  BY ApplyingFacts DEF LifecycleInv, ApplyRequest
<1>2. r.new \in Amounts /\ r.new \in 0..MaxAmount
  BY <1>1 DEF TypeOK, ApplyRequest, Amounts
<1>3. /\ adjustments' = [adjustments EXCEPT ![c][m].status = "applied", ![c][m].new = r.new]
      /\ contracts' = [contracts EXCEPT ![c].current_amount = r.new]
      /\ rent_periods' = [rent_periods EXCEPT ![c] = WithPeriod(rent_periods[c], m, r.new)]
      /\ applying' = applying \ {r}
      /\ overlapped' = IF Detecting(c) THEN overlapped \cup {c} ELSE overlapped
      /\ UNCHANGED <<calendar, properties>>
  BY DEF ApplyCommit
<1>4. contracts' \in [Contracts -> ContractRow]
  <2>1. [contracts[c] EXCEPT !.current_amount = r.new] \in ContractRow
    <3>1. contracts[c] \in ContractRow
      BY <1>1 DEF TypeOK
    <3> QED BY <1>2, <3>1 DEF ContractRow
  <2> QED BY <1>1, <1>3, <2>1 DEF TypeOK
<1> DEFINE new == [adjustments[c][m] EXCEPT !.status = "applied", !.new = r.new]
<1>5. adjustments[c] \in [Months -> AdjustmentRow] /\ adjustments[c][m] \in AdjustmentRow
  BY <1>1 DEF TypeOK
<1>6. /\ new \in AdjustmentRow /\ new.status = "applied" /\ new.new = r.new
      /\ new.previous = adjustments[c][m].previous
  BY <1>2, <1>5 DEF AdjustmentRow
<1>7. adjustments' = [adjustments EXCEPT ![c] = [adjustments[c] EXCEPT ![m] = new]]
  BY <1>1, <1>3, <1>5 DEF TypeOK
<1> HIDE DEF new
<1>8. /\ adjustments' \in [Contracts -> [Months -> AdjustmentRow]]
      /\ adjustments'[c][m] = new
      /\ \A d \in Contracts, k \in Months :
            d # c \/ k # m => adjustments'[d][k] = adjustments[d][k]
      /\ \A d \in Contracts \ {c} : adjustments'[d] = adjustments[d]
  BY <1>1, <1>5, <1>6, <1>7 DEF TypeOK
<1>9. WithPeriod(rent_periods[c], m, r.new) \in [Months -> 0..MaxAmount]
  BY <1>1, <1>2, WithPeriodFacts DEF TypeOK
<1>10. rent_periods' \in [Contracts -> [Months -> 0..MaxAmount]]
  BY <1>1, <1>3, <1>9 DEF TypeOK
<1> QED BY <1>1, <1>2, <1>3, <1>4, <1>6, <1>8, <1>10 DEF Commits

LEMMA ApplyCommitLifecycle ==
    ASSUME LifecycleInv, NEW r \in applying, ApplyCommit(r), NEW c, NEW m,
           c = r.contract, m = r.period
    PROVE  LifecycleInv'
<1>1. TypeOK
  BY DEF LifecycleInv
<1>2. c \in Contracts /\ m \in Months /\ Commits(r, c, m)
  BY ApplyCommitRows
<1>3. /\ \A d \in Contracts \ {c} : contracts'[d] = contracts[d] /\ rent_periods'[d] = rent_periods[d]
      /\ \A d \in Contracts : /\ contracts'[d].status = contracts[d].status
                              /\ contracts'[d].deleted = contracts[d].deleted
                              /\ contracts'[d].start_date = contracts[d].start_date
                              /\ contracts'[d].end_date = contracts[d].end_date
                              /\ contracts'[d].frequency = contracts[d].frequency
  <2>1. /\ contracts' = [contracts EXCEPT ![c].current_amount = r.new]
        /\ rent_periods' = [rent_periods EXCEPT ![c] = WithPeriod(rent_periods[c], m, r.new)]
    BY <1>2 DEF Commits
  <2> QED BY <1>1, <2>1 DEF TypeOK, ContractRow
<1>4. TypeOK'
  BY <1>1, <1>2 DEF Commits, TypeOK, calendar
<1>5. AbsentClean' /\ ListingInv'
  <2>1. AbsentClean'
    BY <1>2, <1>3 DEF Commits, LifecycleInv, AbsentClean, calendar
  <2> QED BY <1>2, <1>3, <2>1, KeepsListing DEF Commits, LifecycleInv
<1>6. AdjustedByToday'
  <2>1. /\ today' = today /\ applying' = applying \ {r}
        /\ adjustments'[c][m].status = "applied" /\ r \in applying
        /\ \A d \in Contracts, k \in Months :
              d # c \/ k # m => adjustments'[d][k] = adjustments[d][k]
    BY <1>2 DEF Commits, calendar
  <2>2. AdjustedByToday /\ m <= MonthOf(today)
    BY DEF LifecycleInv, AdjustedByToday
  <2> QED BY <1>2, <2>1, <2>2 DEF AdjustedByToday, Pending, AppliedMonths
<1>7. \A d \in Contracts : Active(d)' <=> Active(d)
  BY <1>3 DEF Active
<1>8. NoActiveOverlap'
  BY <1>3, <1>7, FewerActive DEF LifecycleInv
<1>9. RentedHasActive'
  BY <1>2, <1>7 DEF Commits, LifecycleInv, RentedHasActive, ActiveOn
<1> QED BY <1>4, <1>5, <1>6, <1>8, <1>9 DEF LifecycleInv

\* The status of a property nobody rents.
LEMMA SetPropertyLifecycle ==
    ASSUME LifecycleInv, NEW p \in Properties, NEW status \in {"available", "unavailable", "deleted"},
           properties' = [properties EXCEPT ![p] = status],
           UNCHANGED <<calendar, contracts, adjustments, rent_periods, requests>>
    PROVE  LifecycleInv'
<1>1. TypeOK'
  BY DEF LifecycleInv, TypeOK, PropertyStatus, calendar, requests
<1>2. AbsentClean' /\ AdjustedByToday' /\ NoActiveOverlap' /\ ListingInv'
  BY KeepsListing DEF LifecycleInv, AbsentClean, AdjustedByToday, NoActiveOverlap, calendar,
     requests, Pending, AppliedMonths, Active
<1>3. RentedHasActive'
  BY DEF LifecycleInv, TypeOK, RentedHasActive, ActiveOn, Active
<1> QED BY <1>1, <1>2, <1>3 DEF LifecycleInv

\* The calendar alone: the jobs go through the queue as the days pass.
LEMMA CalendarLifecycle ==
    ASSUME LifecycleInv, today' \in Days, today <= today', jobs' \in Seq(JobNames),
           running' \in BOOLEAN, listed' \in [Contracts -> 0..MaxAmount], ListingInv',
           \A c \in Contracts : contracts[c].status = "absent" => listed'[c] = 0,
           UNCHANGED <<contracts, properties, adjustments, rent_periods, requests>>
    PROVE  LifecycleInv'
<1>1. MonthOf(today) <= MonthOf(today') /\ MonthOf(today) \in Nat /\ MonthOf(today') \in Nat
  BY MonthFacts DEF LifecycleInv, TypeOK
<1>2. \A m \in Months : m <= MonthOf(today) => m <= MonthOf(today')
  BY <1>1, MonthFacts
<1>3. AdjustedByToday'
  <2>1. Months' = Months /\ MonthOf(today)' = MonthOf(today')
    BY DEF Months, MonthOf
  <2>2. \A r \in applying : r.period \in Months
    BY DEF LifecycleInv, TypeOK, ApplyRequest
  <2>3. \A c \in Contracts : Pending(c)' = Pending(c) /\ AppliedMonths(c)' = AppliedMonths(c)
    BY DEF Pending, AppliedMonths
  <2>4. \A c \in Contracts : Pending(c) \cup AppliedMonths(c) \subseteq Months
    BY DEF Pending, AppliedMonths
  <2> QED BY <1>2, <2>1, <2>2, <2>3, <2>4 DEF LifecycleInv, AdjustedByToday, requests
<1>4. TypeOK' /\ AbsentClean'
  BY DEF LifecycleInv, TypeOK, AbsentClean, requests
<1>5. NoActiveOverlap' /\ RentedHasActive'
  BY DEF LifecycleInv, NoActiveOverlap, RentedHasActive, Active, ActiveOn
<1> QED BY <1>3, <1>4, <1>5 DEF LifecycleInv

LEMMA JobFacts ==
    ASSUME jobs \in Seq(JobNames), jobs # <<>>
    PROVE  /\ Tail(jobs) \in Seq(JobNames)
           /\ Head(jobs) \in JobNames
           /\ \A name \in JobNames : Append(Tail(jobs), name) \in Seq(JobNames)
<1>1. Tail(jobs) \in Seq(JobNames) /\ Head(jobs) \in JobNames
  OBVIOUS
<1> QED BY <1>1

LEMMA NextDayLifecycle ==
    ASSUME LifecycleInv, NextDay
    PROVE  LifecycleInv'
<1> DEFINE daily == <<"detect_due_adjustments", "detect_expiring_contracts">>
           monthly == <<"generate_rent_periods">>
<1>1. /\ daily \in Seq(JobNames) /\ monthly \o daily \in Seq(JobNames)
      /\ <<>> \o daily \in Seq(JobNames)
  <2>1. daily \in Seq(JobNames) /\ monthly \in Seq(JobNames) /\ <<>> \in Seq(JobNames)
    BY DEF JobNames
  <2>2. \A s, t \in Seq(JobNames) : s \o t \in Seq(JobNames)
    OBVIOUS
  <2> HIDE DEF daily, monthly
  <2> QED BY <2>1, <2>2
<1>2. \A day : Beat(day) = monthly \o daily \/ Beat(day) = <<>> \o daily
  BY DEF Beat
<1> HIDE DEF monthly
<1>3. today' \in Days /\ today <= today' /\ jobs' \in Seq(JobNames)
  <2>1. today \in Nat /\ today <= MaxDay /\ MaxDay \in Nat
    BY LifecycleAssumption DEF LifecycleInv, TypeOK, Days
  <2>2. CASE today < MaxDay
    <3>1. today' = today + 1 /\ jobs' = Beat(today + 1)
      BY <2>2 DEF NextDay
    <3>2. jobs' \in Seq(JobNames)
      BY <1>1, <1>2, <3>1
    <3> QED BY <2>1, <2>2, <3>1, <3>2 DEF Days
  <2>3. CASE ~ (today < MaxDay)
    <3>1. today' = today /\ jobs' = daily
      BY <2>3 DEF NextDay
    <3>2. jobs' \in Seq(JobNames)
      BY <1>1, <3>1
    <3> QED BY <2>1, <3>1, <3>2 DEF Days
  <2> QED BY <2>2, <2>3
<1>4. /\ ~ running' /\ running' \in BOOLEAN /\ listed' = listed
      /\ \A c \in Contracts : listed[c] = 0
  BY DEF NextDay, LifecycleInv, ListingInv, TypeOK
<1>5. ListingInv'
  BY <1>4 DEF ListingInv, Detecting
<1> QED BY <1>3, <1>4, <1>5, CalendarLifecycle DEF NextDay, LifecycleInv, TypeOK

LEMMA StartJobLifecycle ==
    ASSUME LifecycleInv, NEW name \in JobNames, StartJob(name)
    PROVE  LifecycleInv'
<1>1. /\ today' \in Days /\ today <= today' /\ jobs' \in Seq(JobNames) /\ running' \in BOOLEAN
      /\ jobs' = jobs /\ jobs # <<>> /\ Head(jobs) = name /\ running'
  BY MonthFacts DEF StartJob, LifecycleInv, TypeOK
<1>2. /\ \A c \in Contracts : listed'[c] = IF c \in Candidates(name)
                                           THEN contracts[c].current_amount ELSE 0
      /\ listed' \in [Contracts -> 0..MaxAmount]
  <2>1. \A c \in Contracts : contracts[c].current_amount \in 0..MaxAmount
    BY DEF LifecycleInv, TypeOK, ContractRow
  <2>2. listed' = [c \in Contracts |->
                     IF c \in Candidates(name) THEN contracts[c].current_amount ELSE 0]
    BY DEF StartJob
  <2> QED BY <2>1, <2>2, LifecycleAssumption
<1>3. \A c \in Candidates(name) :
        /\ contracts[c].status # "absent"
        /\ name = "detect_due_adjustments" => contracts[c].frequency > 0
  BY DEF Candidates, Active
<1>4. ListingInv'
  <2>1. contracts' = contracts
    BY DEF StartJob
  <2> QED BY <1>1, <1>2, <1>3, <2>1 DEF ListingInv, Detecting
<1> QED BY <1>1, <1>2, <1>3, <1>4, CalendarLifecycle DEF StartJob

\* Once a job is over, or lost, nothing is listed.
LEMMA ListedNothing ==
    ASSUME running' = FALSE, listed' = NothingListed
    PROVE  /\ ListingInv' /\ running' \in BOOLEAN /\ \A c \in Contracts : listed'[c] = 0
           /\ listed' \in [Contracts -> 0..MaxAmount]
<1>1. \A c \in Contracts : listed'[c] = 0
  BY DEF NothingListed
<1>2. listed' \in [Contracts -> 0..MaxAmount]
  BY LifecycleAssumption DEF NothingListed
<1> QED BY <1>1, <1>2 DEF ListingInv, Detecting

LEMMA LoseJobLifecycle ==
    ASSUME LifecycleInv, NEW requeued \in BOOLEAN, LoseJob(requeued)
    PROVE  LifecycleInv'
<1>1. today' \in Days /\ today <= today'
  BY MonthFacts DEF LoseJob, LifecycleInv, TypeOK
<1>2. jobs' \in Seq(JobNames)
  BY JobFacts DEF LoseJob, LifecycleInv, TypeOK
<1>3. /\ ListingInv' /\ running' \in BOOLEAN /\ listed' \in [Contracts -> 0..MaxAmount]
      /\ \A c \in Contracts : listed'[c] = 0
  BY ListedNothing DEF LoseJob
<1> QED BY <1>1, <1>2, <1>3, CalendarLifecycle DEF LoseJob

\* What the end of a job leaves of the calendar.
JobOver ==
    /\ UNCHANGED <<today, requests>> /\ jobs' \in Seq(JobNames)
    /\ ListingInv' /\ running' \in BOOLEAN /\ listed' \in [Contracts -> 0..MaxAmount]
    /\ \A c \in Contracts : listed'[c] = 0

LEMMA GenerateLifecycle ==
    ASSUME LifecycleInv, GenerateRentPeriods, JobOver
    PROVE  LifecycleInv'
<1>1. /\ rent_periods' = [c \in Contracts |-> IF c \in ChargedToday
           THEN WithPeriod(rent_periods[c], MonthOf(today), listed[c])
           ELSE rent_periods[c]]
      /\ UNCHANGED <<contracts, properties, adjustments>>
  BY DEF GenerateRentPeriods
<1>2. MonthOf(today) \in Months /\ TypeOK
  BY MonthFacts DEF LifecycleInv, TypeOK
<1>3. \A c \in Contracts : listed[c] \in 0..MaxAmount
  BY <1>2 DEF TypeOK
<1>4. \A c \in Contracts :
        WithPeriod(rent_periods[c], MonthOf(today), listed[c])
          \in [Months -> 0..MaxAmount]
  BY <1>2, <1>3, WithPeriodFacts DEF TypeOK
<1>5. rent_periods' \in [Contracts -> [Months -> 0..MaxAmount]]
  BY <1>1, <1>2, <1>4 DEF TypeOK
<1>6. TypeOK'
  BY <1>1, <1>2, <1>5 DEF TypeOK, JobOver, requests
<1>7. AbsentClean'
  <2>1. \A c \in Contracts : contracts[c].status = "absent" => c \notin ChargedToday
    BY DEF LifecycleInv, AbsentClean, ChargedToday, Listed
  <2> QED BY <1>1, <2>1 DEF LifecycleInv, AbsentClean, JobOver, requests
<1>8. AdjustedByToday'
  BY <1>1 DEF LifecycleInv, AdjustedByToday, Pending, AppliedMonths, JobOver, requests
<1>9. NoActiveOverlap' /\ RentedHasActive'
  BY <1>1 DEF LifecycleInv, NoActiveOverlap, RentedHasActive, Active, ActiveOn
<1> QED BY <1>6, <1>7, <1>8, <1>9 DEF LifecycleInv, JobOver

\* The month a contract's next adjustment is of, when it has come.
LEMMA NextDueFacts ==
    ASSUME LifecycleInv, NEW c \in DueForAdjustment, Detecting(c)
    PROVE  /\ c \in Contracts /\ contracts[c].status # "absent" /\ Pending(c) = {}
           /\ contracts[c].frequency \in Nat \ {0}
           /\ NextDue(c) \in Months /\ NextDue(c) <= MonthOf(today)
           /\ \A m \in AppliedMonths(c) : m < NextDue(c)
           /\ AppliedMonths(c) = {} => NextDue(c) = MonthOf(contracts[c].start_date)
                                                     + contracts[c].frequency
           /\ AppliedMonths(c) # {} => /\ Max(AppliedMonths(c)) \in AppliedMonths(c)
                                       /\ NextDue(c) = Max(AppliedMonths(c))
                                                       + contracts[c].frequency
<1>1. /\ c \in Contracts /\ contracts[c].status # "absent" /\ contracts[c].frequency > 0
      /\ Pending(c) = {} /\ NextDue(c) <= MonthOf(today)
  BY DEF DueForAdjustment, Listed, LifecycleInv, ListingInv, AbsentClean
<1>2. /\ contracts[c].frequency \in Nat \ {0} /\ contracts[c].start_date \in Days
      /\ today \in Days
  BY <1>1 DEF LifecycleInv, TypeOK, ContractRow
<1>3. /\ MonthOf(contracts[c].start_date) \in Nat
      /\ MonthOf(today) \in Months /\ Months \subseteq Nat /\ AppliedMonths(c) \subseteq Months
      /\ \A n \in Nat : n <= MonthOf(today) => n \in Months
  <2>1. MonthOf(MaxDay) \in Nat /\ MonthOf(today) \in Nat /\ MonthOf(today) <= MonthOf(MaxDay)
    BY <1>2, MonthFacts, LifecycleAssumption DEF Days
  <2>2. \A n \in Nat : n <= MonthOf(today) => n \in Months
    BY <2>1 DEF Months
  <2> QED BY <1>2, <2>2, MonthFacts DEF AppliedMonths
<1>4. CASE AppliedMonths(c) = {}
  <2>1. NextDue(c) = MonthOf(contracts[c].start_date) + contracts[c].frequency
    BY <1>2, <1>3, <1>4 DEF NextDue
  <2>2. NextDue(c) \in Nat
    BY <1>2, <1>3, <2>1
  <2> QED BY <1>1, <1>2, <1>3, <1>4, <2>1, <2>2
<1>5. CASE AppliedMonths(c) # {}
  <2> DEFINE last == Max(AppliedMonths(c))
  <2>1. last \in AppliedMonths(c) /\ (\A m \in AppliedMonths(c) : m <= last) /\ last \in Nat
    BY <1>3, <1>5, LastMonth
  <2>2. NextDue(c) = last + contracts[c].frequency
    BY <1>2, <1>5, <2>1 DEF NextDue
  <2> HIDE DEF last
  <2>3. NextDue(c) \in Nat /\ last < NextDue(c)
    BY <1>2, <2>1, <2>2
  <2>4. \A m \in AppliedMonths(c) : m < NextDue(c)
    BY <1>3, <2>1, <2>3
  <2> QED BY <1>1, <1>2, <1>3, <1>5, <2>1, <2>2, <2>3, <2>4 DEF last
<1> QED BY <1>4, <1>5

\* What the detection writes: one pending adjustment for each contract due.
LEMMA DetectDueRows ==
    ASSUME LifecycleInv, running, Head(jobs) = "detect_due_adjustments", DetectDueAdjustments
    PROVE  /\ adjustments' \in [Contracts -> [Months -> AdjustmentRow]]
           /\ \A c \in Contracts \ DueForAdjustment : adjustments'[c] = adjustments[c]
           /\ \A c \in DueForAdjustment :
                 /\ Detecting(c)
                 /\ adjustments'[c][NextDue(c)] =
                       [status |-> "pending", previous |-> listed[c], new |-> 0]
                 /\ \A m \in Months \ {NextDue(c)} : adjustments'[c][m] = adjustments[c][m]
           /\ UNCHANGED <<contracts, properties, rent_periods>>
<1> DEFINE due(c) == [status |-> "pending", previous |-> listed[c], new |-> 0]
<1>1. /\ adjustments' = [c \in Contracts |-> IF c \in DueForAdjustment
           THEN [adjustments[c] EXCEPT ![NextDue(c)] = due(c)] ELSE adjustments[c]]
      /\ UNCHANGED <<contracts, properties, rent_periods>>
  BY DEF DetectDueAdjustments
<1>2. \A c \in Contracts : due(c) \in AdjustmentRow /\ adjustments[c] \in [Months -> AdjustmentRow]
  BY LifecycleAssumption DEF LifecycleInv, TypeOK, AdjustmentRow
<1>3. \A c \in DueForAdjustment : c \in Contracts /\ Detecting(c) /\ NextDue(c) \in Months
  <2>1. \A c \in DueForAdjustment : c \in Contracts /\ Detecting(c)
    BY DEF DueForAdjustment, Listed, Detecting
  <2> QED BY <2>1, NextDueFacts
<1> HIDE DEF due
<1>4. \A c \in DueForAdjustment :
        /\ adjustments'[c] \in [Months -> AdjustmentRow]
        /\ adjustments'[c][NextDue(c)] = due(c)
        /\ \A m \in Months \ {NextDue(c)} : adjustments'[c][m] = adjustments[c][m]
  BY <1>1, <1>2, <1>3
<1>5. \A c \in Contracts \ DueForAdjustment : adjustments'[c] = adjustments[c]
  BY <1>1
<1>6. adjustments' \in [Contracts -> [Months -> AdjustmentRow]]
  BY <1>1, <1>2, <1>4, <1>5
<1> QED BY <1>1, <1>3, <1>4, <1>5, <1>6 DEF due

LEMMA DetectDueLifecycle ==
    ASSUME LifecycleInv, running, Head(jobs) = "detect_due_adjustments", DetectDueAdjustments,
           JobOver
    PROVE  LifecycleInv'
<1>1. /\ adjustments' \in [Contracts -> [Months -> AdjustmentRow]]
      /\ \A c \in Contracts \ DueForAdjustment : adjustments'[c] = adjustments[c]
      /\ \A c \in DueForAdjustment :
            /\ Detecting(c)
            /\ \A m \in Months \ {NextDue(c)} : adjustments'[c][m] = adjustments[c][m]
      /\ UNCHANGED <<contracts, properties, rent_periods>>
  BY DetectDueRows
<1>2. \A c \in DueForAdjustment : contracts[c].status # "absent" /\ NextDue(c) <= MonthOf(today)
  BY <1>1, NextDueFacts
<1>3. TypeOK'
  BY <1>1 DEF LifecycleInv, TypeOK, JobOver, requests
<1>4. AbsentClean'
  BY <1>1, <1>2 DEF LifecycleInv, AbsentClean, JobOver, requests
<1>5. AdjustedByToday'
  <2> SUFFICES ASSUME NEW c \in Contracts
               PROVE  (\A m \in Pending(c) \cup AppliedMonths(c) : m <= MonthOf(today))'
    BY DEF LifecycleInv, AdjustedByToday, JobOver, requests
  <2>1. CASE c \in DueForAdjustment
    BY <1>1, <1>2, <2>1 DEF LifecycleInv, AdjustedByToday, Pending, AppliedMonths, JobOver
  <2>2. CASE c \notin DueForAdjustment
    BY <1>1, <2>2 DEF LifecycleInv, AdjustedByToday, Pending, AppliedMonths, JobOver
  <2> QED BY <2>1, <2>2
<1>6. NoActiveOverlap' /\ RentedHasActive'
  BY <1>1 DEF LifecycleInv, NoActiveOverlap, RentedHasActive, Active, ActiveOn
<1> QED BY <1>3, <1>4, <1>5, <1>6 DEF LifecycleInv, JobOver

\* What the expiry changes of a contract's row: its status if it was listed,
\* or the notice.
LEMMA DetectExpiringRows ==
    ASSUME LifecycleInv, DetectExpiringContracts
    PROVE  /\ contracts' \in [Contracts -> ContractRow]
           /\ \A c \in Contracts :
                 /\ contracts'[c].status \in {contracts[c].status, "expired"}
                 /\ contracts'[c].status = "absent" <=> contracts[c].status = "absent"
                 /\ contracts'[c].deleted = contracts[c].deleted
                 /\ contracts'[c].start_date = contracts[c].start_date
                 /\ contracts'[c].end_date = contracts[c].end_date
                 /\ contracts'[c].initial_amount = contracts[c].initial_amount
                 /\ contracts'[c].current_amount = contracts[c].current_amount
                 /\ contracts'[c].frequency = contracts[c].frequency
                 /\ c \notin Listed => contracts'[c].status = contracts[c].status
                 /\ c \notin Listed /\ contracts[c].deleted => contracts'[c] = contracts[c]
           /\ \A p \in Properties :
                 properties'[p] = "rented" =>
                    /\ properties[p] = "rented"
                    /\ \A c \in Listed : PropertyOf[c] # p
           /\ properties' \in [Properties -> PropertyStatus \cup {"deleted"}]
           /\ UNCHANGED <<adjustments, rent_periods>>
<1>1. PICK deleted \in SUBSET {c \in Listed : contracts[c].deleted} :
      /\ contracts' = [c \in Contracts |->
            IF c \in Listed
            THEN IF Visible(c) \/ c \in deleted
                 THEN [contracts[c] EXCEPT !.status = "expired"] ELSE contracts[c]
            ELSE IF c \in ToNotify THEN [contracts[c] EXCEPT !.notified = TRUE]
            ELSE contracts[c]]
      /\ properties' = [p \in Properties |->
            IF (\E c \in Listed : PropertyOf[c] = p) /\ properties[p] # "deleted"
            THEN "available" ELSE properties[p]]
      /\ UNCHANGED <<adjustments, rent_periods>>
  BY DEF DetectExpiringContracts
<1>2. \A c \in Contracts : contracts[c] \in ContractRow
  BY DEF LifecycleInv, TypeOK
<1>3. ASSUME NEW c \in Contracts
      PROVE  /\ contracts'[c] \in ContractRow
             /\ contracts'[c].status \in {contracts[c].status, "expired"}
             /\ contracts'[c].status = "absent" <=> contracts[c].status = "absent"
             /\ contracts'[c].deleted = contracts[c].deleted
             /\ contracts'[c].start_date = contracts[c].start_date
             /\ contracts'[c].end_date = contracts[c].end_date
             /\ contracts'[c].initial_amount = contracts[c].initial_amount
             /\ contracts'[c].current_amount = contracts[c].current_amount
             /\ contracts'[c].frequency = contracts[c].frequency
             /\ c \notin Listed => contracts'[c].status = contracts[c].status
             /\ c \notin Listed /\ contracts[c].deleted => contracts'[c] = contracts[c]
  <2>1. contracts[c] \in ContractRow /\ (c \in Listed => contracts[c].status # "absent")
    BY <1>2 DEF LifecycleInv, AbsentClean, Listed
  <2>2. CASE contracts'[c] = contracts[c]
    BY <2>1, <2>2
  <2>3. CASE c \in Listed /\ contracts'[c] = [contracts[c] EXCEPT !.status = "expired"]
    BY <2>1, <2>3 DEF ContractRow, ContractStatus
  <2>4. CASE /\ c \notin Listed /\ c \in ToNotify
             /\ contracts'[c] = [contracts[c] EXCEPT !.notified = TRUE]
    BY <2>1, <2>4 DEF ContractRow, ToNotify, Active
  <2> QED BY <1>1, <2>2, <2>3, <2>4
<1>4. contracts' \in [Contracts -> ContractRow]
  BY <1>1, <1>3
<1>5. properties' \in [Properties -> PropertyStatus \cup {"deleted"}]
  BY <1>1 DEF LifecycleInv, TypeOK, PropertyStatus
<1>6. \A p \in Properties :
        properties'[p] = "rented" =>
           properties[p] = "rented" /\ \A c \in Listed : PropertyOf[c] # p
  BY <1>1
<1> QED BY <1>1, <1>3, <1>4, <1>5, <1>6

LEMMA DetectExpiringLifecycle ==
    ASSUME LifecycleInv, DetectExpiringContracts, JobOver
    PROVE  LifecycleInv'
<1>1. /\ contracts' \in [Contracts -> ContractRow]
      /\ \A c \in Contracts :
            /\ contracts'[c].status \in {contracts[c].status, "expired"}
            /\ contracts'[c].status = "absent" <=> contracts[c].status = "absent"
            /\ contracts'[c].deleted = contracts[c].deleted
            /\ contracts'[c].start_date = contracts[c].start_date
            /\ contracts'[c].end_date = contracts[c].end_date
            /\ c \notin Listed => contracts'[c].status = contracts[c].status
      /\ \A p \in Properties :
            properties'[p] = "rented" =>
               properties[p] = "rented" /\ \A c \in Listed : PropertyOf[c] # p
      /\ properties' \in [Properties -> PropertyStatus \cup {"deleted"}]
      /\ UNCHANGED <<adjustments, rent_periods>>
  BY DetectExpiringRows
<1>2. TypeOK'
  BY <1>1 DEF LifecycleInv, TypeOK, JobOver, requests
<1>3. AbsentClean'
  BY <1>1 DEF LifecycleInv, AbsentClean, JobOver, requests
<1>4. AdjustedByToday'
  BY <1>1 DEF LifecycleInv, AdjustedByToday, Pending, AppliedMonths, JobOver, requests
<1>5. NoActiveOverlap'
  BY <1>1, FewerActive DEF LifecycleInv, Active
<1>6. RentedHasActive'
  BY <1>1 DEF LifecycleInv, RentedHasActive, ActiveOn, Active
<1> QED BY <1>2, <1>3, <1>4, <1>5, <1>6 DEF LifecycleInv, JobOver

LEMMA RunJobLifecycle ==
    ASSUME LifecycleInv, NEW name \in JobNames, NEW acked \in BOOLEAN, RunJob(name, acked)
    PROVE  LifecycleInv'
<1>1. JobOver
  <2>1. jobs' \in Seq(JobNames)
    BY JobFacts DEF RunJob, LifecycleInv, TypeOK
  <2> QED BY <2>1, ListedNothing DEF RunJob, JobOver
<1>2. \/ GenerateRentPeriods
      \/ running /\ Head(jobs) = "detect_due_adjustments" /\ DetectDueAdjustments
      \/ DetectExpiringContracts
  BY DEF RunJob
<1> QED BY <1>1, <1>2, GenerateLifecycle, DetectDueLifecycle, DetectExpiringLifecycle

LEMMA NextLifecycle == LifecycleInv /\ [Next]_vars => LifecycleInv'
<1> SUFFICES ASSUME LifecycleInv, [Next]_vars PROVE LifecycleInv'
  OBVIOUS
<1>1. ASSUME NEW c \in Contracts,
             \/ \E t \in Terms : Create(c, t)
             \/ \E end \in Days : UpdateEndDate(c, end)
             \/ Activate(c) \/ Terminate(c) \/ Delete(c)
             \/ \E m \in Months, new \in Amounts : ApplyRead(c, m, new)
      PROVE  LifecycleInv'
  BY <1>1, CreateLifecycle, UpdateEndDateLifecycle, ActivateLifecycle, TerminateLifecycle,
     DeleteLifecycle, ApplyReadLifecycle
<1>2. ASSUME NEW r \in applying, ApplySelect(r) \/ ApplyCommit(r) \/ ApplyDrop(r)
      PROVE  LifecycleInv'
  BY <1>2, ApplySelectLifecycle, ApplyCommitLifecycle, ApplyDropLifecycle
<1>3. ASSUME NEW p \in Properties,
             (\E status \in {"available", "unavailable"} : SetPropertyStatus(p, status))
             \/ DeleteProperty(p)
      PROVE  LifecycleInv'
  BY <1>3, SetPropertyLifecycle DEF SetPropertyStatus, DeleteProperty
<1>4. ASSUME \/ NextDay \/ \E name \in JobNames : StartJob(name)
             \/ \E requeued \in BOOLEAN : LoseJob(requeued)
             \/ \E name \in JobNames, acked \in BOOLEAN : RunJob(name, acked)
      PROVE  LifecycleInv'
  BY <1>4, NextDayLifecycle, StartJobLifecycle, LoseJobLifecycle, RunJobLifecycle
<1>5. CASE UNCHANGED vars
  <2> USE <1>5 DEF vars
  <2>1. TypeOK' /\ AbsentClean' /\ AdjustedByToday'
    BY DEF LifecycleInv, TypeOK, AbsentClean, AdjustedByToday, Pending, AppliedMonths
  <2>2. NoActiveOverlap' /\ RentedHasActive' /\ ListingInv'
    BY KeepsListing DEF LifecycleInv, NoActiveOverlap, RentedHasActive, Active, ActiveOn, calendar
  <2> QED BY <2>1, <2>2 DEF LifecycleInv
<1> QED BY <1>1, <1>2, <1>3, <1>4, <1>5 DEF Next, Operate

LEMMA LifecycleInvariant == Spec => []LifecycleInv
BY InitLifecycle, NextLifecycle, PTL DEF Spec

\* Contracts, adjustments, periods, properties and the queue of jobs keep
\* their types.
THEOREM LifecycleTypeCorrect == Spec => []TypeOK
<1>1. LifecycleInv => TypeOK
  BY DEF LifecycleInv
<1> QED BY <1>1, LifecycleInvariant, PTL

\* RN-01: whatever is created, activated, extended or ended, in whatever
\* order, two active contracts of one property have no day in common.
THEOREM NoActiveOverlapHolds == Spec => []NoActiveOverlap
<1>1. LifecycleInv => NoActiveOverlap
  BY DEF LifecycleInv
<1> QED BY <1>1, LifecycleInvariant, PTL

\* A rented property has an active contract, whatever the expiry job finds of
\* the contracts it has listed.
THEOREM RentedHasActiveHolds == Spec => []RentedHasActive
<1>1. LifecycleInv => RentedHasActive
  BY DEF LifecycleInv
<1> QED BY <1>1, LifecycleInvariant, PTL

-----------------------------------------------------------------------------
(* What a step does to one contract.                                       *)

\* What amounts are computed from stays.
KeepsTerms(c) ==
    /\ contracts'[c].status = "absent" <=> contracts[c].status = "absent"
    /\ contracts'[c].start_date = contracts[c].start_date
    /\ contracts'[c].initial_amount = contracts[c].initial_amount
    /\ contracts'[c].current_amount = contracts[c].current_amount
    /\ contracts'[c].frequency = contracts[c].frequency
    /\ adjustments'[c] = adjustments[c]

\* No amount, adjustment or period changes.
Untouched(c) == KeepsTerms(c) /\ rent_periods'[c] = rent_periods[c]

\* The charging job under way has listed c.
Charging(c) == running /\ Head(jobs) = "generate_rent_periods" /\ listed[c] # 0

\* The period of the month is created, if it is not there, by the activation
\* or by the job.
ChargedMonth(c, amount) ==
    /\ KeepsTerms(c) /\ contracts[c].status # "absent" /\ MonthOf(today) \notin Pending(c)
    /\ rent_periods'[c] = WithPeriod(rent_periods[c], MonthOf(today), amount)
    /\ \/ amount = contracts[c].current_amount /\ Visible(c)
       \/ amount = listed[c] /\ Charging(c)

\* The detection writes the next adjustment.
FallsDue(c) ==
    /\ c \in DueForAdjustment /\ running /\ Head(jobs) = "detect_due_adjustments"
    /\ DetectDueAdjustments

StepOf(c) ==
    \/ Untouched(c)
    \/ \E amount \in 0..MaxAmount : ChargedMonth(c, amount)
    \/ \E t \in Terms : Create(c, t)
    \/ \E r \in applying : r.contract = c /\ ApplyCommit(r)
    \/ FallsDue(c)

LEMMA OperateOn ==
    ASSUME LifecycleInv, NEW c \in Contracts, NEW d \in Contracts,
           \/ \E t \in Terms : Create(d, t)
           \/ \E end \in Days : UpdateEndDate(d, end)
           \/ Activate(d) \/ Terminate(d) \/ Delete(d)
    PROVE  StepOf(c)
<1>1. TypeOK /\ contracts[d] \in ContractRow
  BY DEF LifecycleInv, TypeOK
<1>2. CASE \E t \in Terms : Create(d, t)
  <2>1. CASE d = c
    BY <1>2, <2>1 DEF StepOf
  <2>2. CASE d # c
    BY <1>1, <1>2, <2>2 DEF Create, TypeOK, StepOf, Untouched, KeepsTerms
  <2> QED BY <2>1, <2>2
<1>3. CASE \E end \in Days : UpdateEndDate(d, end)
  <2>1. PICK end \in Days : UpdateEndDate(d, end)
    BY <1>3
  <2>2. /\ contracts' = [contracts EXCEPT ![d] = [contracts[d] EXCEPT !.end_date = end]]
        /\ Visible(d) /\ UNCHANGED <<adjustments, rent_periods>>
    BY <2>1 DEF UpdateEndDate
  <2>3. Untouched(c)
    BY <1>1, <2>2 DEF TypeOK, ContractRow, Untouched, KeepsTerms, Visible
  <2> QED BY <2>3 DEF StepOf
<1>4. CASE Activate(d)
  <2>1. /\ contracts' = [contracts EXCEPT ![d] = [contracts[d] EXCEPT !.status = "active"]]
        /\ Visible(d) /\ UNCHANGED adjustments
        /\ rent_periods' = [rent_periods EXCEPT ![d] = ActivationPeriod(d)]
    BY <1>4 DEF Activate
  <2>2. /\ KeepsTerms(c) /\ contracts[d].current_amount \in 0..MaxAmount
        /\ contracts[d].status # "absent"
    BY <1>1, <2>1 DEF TypeOK, ContractRow, KeepsTerms, Visible
  <2>3. rent_periods'[c] = IF c = d THEN ActivationPeriod(d) ELSE rent_periods[c]
    BY <1>1, <2>1 DEF TypeOK
  <2>4. ActivationPeriod(d) = rent_periods[d] \/
        /\ MonthOf(today) \notin Pending(d)
        /\ ActivationPeriod(d)
             = WithPeriod(rent_periods[d], MonthOf(today), contracts[d].current_amount)
    BY DEF ActivationPeriod
  <2> QED BY <2>1, <2>2, <2>3, <2>4 DEF StepOf, Untouched, ChargedMonth
<1>5. CASE Terminate(d)
  <2>1. /\ contracts' = [contracts EXCEPT ![d] = [contracts[d] EXCEPT !.status = "terminated"]]
        /\ Active(d) /\ UNCHANGED <<adjustments, rent_periods>>
    BY <1>5 DEF Terminate
  <2>2. Untouched(c)
    BY <1>1, <2>1 DEF TypeOK, ContractRow, Untouched, KeepsTerms, Active
  <2> QED BY <2>2 DEF StepOf
<1>6. CASE Delete(d)
  <2>1. /\ contracts' = [contracts EXCEPT ![d] = [contracts[d] EXCEPT !.deleted = TRUE]]
        /\ Visible(d) /\ UNCHANGED <<adjustments, rent_periods>>
    BY <1>6 DEF Delete
  <2>2. Untouched(c)
    BY <1>1, <2>1 DEF TypeOK, ContractRow, Untouched, KeepsTerms, Visible
  <2> QED BY <2>2 DEF StepOf
<1> QED BY <1>2, <1>3, <1>4, <1>5, <1>6

LEMMA CommitOn ==
    ASSUME LifecycleInv, NEW c \in Contracts, NEW r \in applying, ApplyCommit(r)
    PROVE  StepOf(c)
<1>1. PICK d, m : d = r.contract /\ m = r.period
  OBVIOUS
<1>2. TypeOK /\ d \in Contracts /\ m \in Months /\ Commits(r, d, m)
  BY <1>1, ApplyCommitRows DEF LifecycleInv
<1>3. CASE d = c
  BY <1>1, <1>3 DEF StepOf
<1>4. CASE d # c
  BY <1>2, <1>4 DEF TypeOK, Commits, StepOf, Untouched, KeepsTerms
<1> QED BY <1>3, <1>4

LEMMA JobOn ==
    ASSUME LifecycleInv, NEW c \in Contracts, NEW name \in JobNames, NEW acked \in BOOLEAN,
           RunJob(name, acked)
    PROVE  StepOf(c)
<1>1. CASE GenerateRentPeriods /\ running /\ Head(jobs) = "generate_rent_periods"
  <2>1. /\ rent_periods'[c] = IF c \in ChargedToday
             THEN WithPeriod(rent_periods[c], MonthOf(today), listed[c])
             ELSE rent_periods[c]
        /\ UNCHANGED <<contracts, adjustments>>
    BY <1>1 DEF GenerateRentPeriods
  <2>2. c \in ChargedToday =>
          /\ contracts[c].status # "absent" /\ MonthOf(today) \notin Pending(c)
          /\ Charging(c) /\ listed[c] \in 0..MaxAmount
    BY <1>1 DEF ChargedToday, Listed, Charging, LifecycleInv, AbsentClean, TypeOK
  <2>3. KeepsTerms(c)
    BY <2>1 DEF KeepsTerms
  <2>4. CASE c \in ChargedToday
    <3>1. ChargedMonth(c, listed[c]) /\ listed[c] \in 0..MaxAmount
      BY <2>1, <2>2, <2>3, <2>4 DEF ChargedMonth
    <3> QED BY <3>1 DEF StepOf
  <2>5. CASE c \notin ChargedToday
    BY <2>1, <2>3, <2>5 DEF StepOf, Untouched
  <2> QED BY <2>4, <2>5
<1>2. CASE DetectDueAdjustments /\ running /\ Head(jobs) = "detect_due_adjustments"
  <2>1. CASE c \in DueForAdjustment
    BY <1>2, <2>1 DEF StepOf, FallsDue
  <2>2. CASE c \notin DueForAdjustment
    BY <1>2, <2>2, DetectDueRows DEF StepOf, Untouched, KeepsTerms
  <2> QED BY <2>1, <2>2
<1>3. CASE DetectExpiringContracts
  <2>1. Untouched(c)
    BY <1>3, DetectExpiringRows DEF Untouched, KeepsTerms
  <2> QED BY <2>1 DEF StepOf
<1> QED BY <1>1, <1>2, <1>3 DEF RunJob

\* Every step, for every contract.
LEMMA EveryStep ==
    ASSUME LifecycleInv, Next, NEW c \in Contracts
    PROVE  StepOf(c)
<1>1. ASSUME UNCHANGED <<contracts, adjustments, rent_periods>>
      PROVE  StepOf(c)
  BY <1>1 DEF StepOf, Untouched, KeepsTerms
<1>2. ASSUME NEW d \in Contracts, NEW m \in Months, NEW new \in Amounts, ApplyRead(d, m, new)
      PROVE  StepOf(c)
  BY <1>1, <1>2 DEF ApplyRead
<1>3. ASSUME NEW r \in applying, ApplySelect(r) \/ ApplyDrop(r)
      PROVE  StepOf(c)
  BY <1>1, <1>3 DEF ApplySelect, ApplyDrop
<1>4. ASSUME NEW p \in Properties,
             (\E status \in {"available", "unavailable"} : SetPropertyStatus(p, status))
             \/ DeleteProperty(p)
      PROVE  StepOf(c)
  BY <1>1, <1>4 DEF SetPropertyStatus, DeleteProperty
<1>5. ASSUME \/ NextDay \/ \E name \in JobNames : StartJob(name)
             \/ \E requeued \in BOOLEAN : LoseJob(requeued)
      PROVE  StepOf(c)
  BY <1>1, <1>5 DEF NextDay, StartJob, LoseJob
<1> QED BY <1>2, <1>3, <1>4, <1>5, OperateOn, CommitOn, JobOn DEF Next, Operate

\* What each step does to the applications under way.
LEMMA ApplicationsOn ==
    ASSUME Next
    PROVE  \/ applying' = applying
           \/ \E c \in Contracts, m \in Months, new \in Amounts : ApplyRead(c, m, new)
           \/ \E r \in applying : ApplySelect(r) \/ ApplyCommit(r) \/ ApplyDrop(r)
<1>1. CASE Operate
  BY <1>1 DEF Operate, Create, UpdateEndDate, Activate, Terminate, Delete,
              SetPropertyStatus, DeleteProperty, requests
<1>2. CASE ~ Operate
  BY <1>2 DEF Next, NextDay, StartJob, LoseJob, RunJob, requests
<1> QED BY <1>1, <1>2

\* And to what the job under way has listed.
LEMMA ListingOn ==
    ASSUME Next
    PROVE  \/ UNCHANGED <<jobs, running, listed>>
           \/ running' = FALSE /\ listed' = NothingListed
           \/ NextDay
           \/ \E name \in JobNames : StartJob(name)
<1>1. CASE Operate
  BY <1>1 DEF Operate, Create, UpdateEndDate, Activate, Terminate, Delete, ApplyRead, ApplySelect,
              ApplyCommit, ApplyDrop, SetPropertyStatus, DeleteProperty, calendar
<1>2. CASE ~ Operate
  BY <1>2 DEF Next, LoseJob, RunJob
<1> QED BY <1>1, <1>2

\* No application selects a contract that is deleted.
LEMMA DeletedSelected ==
    ASSUME LifecycleInv, Next, NEW c \in Contracts, contracts[c].deleted
    PROVE  Selected(c)' \subseteq Selected(c)
<1>1. ~ Visible(c)
  BY DEF Visible
<1>2. ASSUME NEW d \in Contracts, NEW m \in Months, NEW new \in Amounts, ApplyRead(d, m, new)
      PROVE  Selected(c)' \subseteq Selected(c)
  BY <1>2 DEF ApplyRead, Selected
<1>3. ASSUME NEW r \in applying, ApplySelect(r)
      PROVE  Selected(c)' \subseteq Selected(c)
  <2>1. r.contract # c /\ [r EXCEPT !.selected = TRUE].contract = r.contract
    BY <1>1, <1>3 DEF ApplySelect, LifecycleInv, TypeOK, ApplyRequest
  <2>2. applying' = (applying \ {r}) \cup {[r EXCEPT !.selected = TRUE]}
    BY <1>3 DEF ApplySelect
  <2> QED BY <2>1, <2>2 DEF Selected
<1>4. ASSUME NEW r \in applying, ApplyCommit(r) \/ ApplyDrop(r)
      PROVE  Selected(c)' \subseteq Selected(c)
  BY <1>4 DEF ApplyCommit, ApplyDrop, Selected
<1>5. CASE applying' = applying
  BY <1>5 DEF Selected
<1> QED BY <1>2, <1>3, <1>4, <1>5, ApplicationsOn

\* No job lists it.
LEMMA DeletedListed ==
    ASSUME Next, NEW c \in Contracts, contracts[c].deleted, listed[c] = 0
    PROVE  listed'[c] = 0
<1>1. ASSUME NEW name \in JobNames, StartJob(name)
      PROVE  listed'[c] = 0
  <2>1. c \notin Candidates(name)
    BY DEF Candidates, Active
  <2> QED BY <1>1, <2>1 DEF StartJob
<1> QED BY <1>1, ListingOn DEF NothingListed, NextDay

\* And what no application has selected nor a job listed stays as it is.
LEMMA DeletedRow ==
    ASSUME LifecycleInv, Next, NEW c \in Contracts, contracts[c].deleted,
           Selected(c) = {}, listed[c] = 0
    PROVE  contracts'[c] = contracts[c]
<1>1. /\ ~ Visible(c) /\ ~ Active(c) /\ contracts[c].status # "absent" /\ TypeOK
  BY DEF LifecycleInv, AbsentClean, Visible, Active
<1>2. ASSUME NEW d \in Contracts,
             \/ \E t \in Terms : Create(d, t)
             \/ \E end \in Days : UpdateEndDate(d, end)
             \/ Activate(d) \/ Terminate(d) \/ Delete(d)
             \/ \E m \in Months, new \in Amounts : ApplyRead(d, m, new)
      PROVE  contracts'[c] = contracts[c]
  <2>1. CASE d = c
    BY <1>1, <1>2, <2>1 DEF Create, UpdateEndDate, Activate, Terminate, Delete, ApplyRead
  <2>2. CASE d # c
    BY <1>1, <1>2, <2>2 DEF Create, UpdateEndDate, Activate, Terminate, Delete, ApplyRead, TypeOK
  <2> QED BY <2>1, <2>2
<1>3. ASSUME NEW r \in applying, ApplySelect(r) \/ ApplyCommit(r) \/ ApplyDrop(r)
      PROVE  contracts'[c] = contracts[c]
  <2>1. CASE ApplyCommit(r)
    <3>1. r.contract # c /\ contracts' = [contracts EXCEPT ![r.contract].current_amount = r.new]
      BY <2>1 DEF ApplyCommit, Selected
    <3> QED BY <1>1, <3>1 DEF TypeOK
  <2> QED BY <1>3, <2>1 DEF ApplySelect, ApplyDrop
<1>4. ASSUME NEW name \in JobNames, NEW acked \in BOOLEAN, RunJob(name, acked)
      PROVE  contracts'[c] = contracts[c]
  <2>1. CASE DetectExpiringContracts
    BY <2>1, DetectExpiringRows DEF Listed
  <2> QED BY <1>4, <2>1 DEF RunJob, GenerateRentPeriods, DetectDueAdjustments
<1>5. ASSUME \/ NextDay \/ \E name \in JobNames : StartJob(name)
             \/ \E requeued \in BOOLEAN : LoseJob(requeued)
             \/ \E p \in Properties :
                   \/ \E status \in {"available", "unavailable"} : SetPropertyStatus(p, status)
                   \/ DeleteProperty(p)
      PROVE  contracts'[c] = contracts[c]
  BY <1>5 DEF NextDay, StartJob, LoseJob, SetPropertyStatus, DeleteProperty
<1> QED BY <1>2, <1>3, <1>4, <1>5 DEF Next, Operate

LEMMA DeletedStep ==
    ASSUME LifecycleInv, Next, NEW c \in Contracts, contracts[c].deleted
    PROVE  /\ Selected(c)' \subseteq Selected(c)
           /\ listed'[c] # 0 => listed[c] # 0
           /\ Selected(c) = {} /\ listed[c] = 0 =>
                /\ contracts'[c] = [contracts[c] EXCEPT !.notified = contracts'[c].notified]
                /\ adjustments'[c] = adjustments[c]
                /\ rent_periods'[c] = rent_periods[c]
<1>1. ~ Visible(c) /\ contracts[c].status # "absent" /\ contracts[c] \in ContractRow
  BY DEF LifecycleInv, AbsentClean, Visible, TypeOK
<1>2. ASSUME Selected(c) = {}, listed[c] = 0
      PROVE  /\ contracts'[c] = contracts[c]
             /\ adjustments'[c] = adjustments[c]
             /\ rent_periods'[c] = rent_periods[c]
  <2>1. \A amount \in 0..MaxAmount : ~ ChargedMonth(c, amount)
    BY <1>1, <1>2 DEF ChargedMonth, Charging
  <2>2. ~ \E t \in Terms : Create(c, t)
    BY <1>1 DEF Create
  <2>3. ~ \E r \in applying : r.contract = c /\ ApplyCommit(r)
    BY <1>2 DEF ApplyCommit, Selected
  <2>4. ~ FallsDue(c)
    BY <1>2 DEF FallsDue, DueForAdjustment, Listed
  <2> QED BY <1>2, <2>1, <2>2, <2>3, <2>4, EveryStep, DeletedRow DEF StepOf, Untouched, KeepsTerms
<1>3. contracts'[c] = contracts[c] =>
        contracts'[c] = [contracts[c] EXCEPT !.notified = contracts'[c].notified]
  BY <1>1 DEF ContractRow
<1> QED BY <1>2, <1>3, DeletedSelected, DeletedListed

\* RN-C08: once a contract is deleted no job lists it and no application
\* selects it, and when those that had are over nothing of it changes.
THEOREM DeletedStaysSilentHolds == Spec => DeletedStaysSilent
<1>1. LifecycleInv /\ [Next]_vars =>
        [\A c \in Contracts : contracts[c].deleted =>
           /\ Selected(c)' \subseteq Selected(c)
           /\ listed'[c] # 0 => listed[c] # 0
           /\ Selected(c) = {} /\ listed[c] = 0 =>
                /\ contracts'[c] = [contracts[c] EXCEPT !.notified = contracts'[c].notified]
                /\ adjustments'[c] = adjustments[c]
                /\ rent_periods'[c] = rent_periods[c]]_vars
  BY DeletedStep
<1> QED BY <1>1, LifecycleInvariant, PTL DEF Spec, DeletedStaysSilent

\* RN-P01: while the adjustment of a month is pending, no activation, job or
\* application creates the period of the month.
LEMMA PendingStep ==
    ASSUME LifecycleInv, Next, NEW c \in Contracts, NEW m \in Months,
           m \in Pending(c), rent_periods[c][m] = 0
    PROVE  rent_periods'[c][m] = 0 \/ (m \notin Pending(c))'
<1>1. /\ contracts[c].status # "absent" /\ MonthOf(today) \in Months
      /\ rent_periods[c] \in [Months -> 0..MaxAmount]
  BY MonthFacts DEF LifecycleInv, AbsentClean, Pending, TypeOK
<1>2. ASSUME NEW amount \in 0..MaxAmount, ChargedMonth(c, amount)
      PROVE  rent_periods'[c][m] = 0 \/ (m \notin Pending(c))'
  <2>1. WithPeriod(rent_periods[c], MonthOf(today), amount)[m] = rent_periods[c][m]
    BY <1>1, <1>2 DEF ChargedMonth, WithPeriod
  <2> QED BY <1>2, <2>1 DEF ChargedMonth
<1>3. ASSUME NEW r \in applying, r.contract = c, ApplyCommit(r)
      PROVE  rent_periods'[c][m] = 0 \/ (m \notin Pending(c))'
  <2>1. PICK k : k = r.period
    OBVIOUS
  <2>2. TypeOK /\ k \in Months /\ Commits(r, c, k)
    BY <1>3, <2>1, ApplyCommitRows DEF LifecycleInv
  <2>3. CASE k = m
    BY <2>2, <2>3 DEF Commits, Pending
  <2>4. CASE k # m
    <3>1. WithPeriod(rent_periods[c], k, r.new)[m] = rent_periods[c][m]
      BY <1>1, <2>4 DEF WithPeriod
    <3>2. rent_periods'[c] = WithPeriod(rent_periods[c], k, r.new)
      BY <2>2 DEF Commits, TypeOK
    <3> QED BY <3>1, <3>2
  <2> QED BY <2>3, <2>4
<1>4. ~ FallsDue(c)
  BY DEF FallsDue, DueForAdjustment
<1>5. ~ \E t \in Terms : Create(c, t)
  BY <1>1 DEF Create
<1> QED BY <1>2, <1>3, <1>4, <1>5, EveryStep DEF StepOf, Untouched

THEOREM PendingHoldsPeriodBackHolds == Spec => PendingHoldsPeriodBack
<1>1. LifecycleInv /\ [Next]_vars =>
        [\A c \in Contracts, m \in Months :
           m \in Pending(c) /\ rent_periods[c][m] = 0
               => rent_periods'[c][m] = 0 \/ m \notin Pending(c)']_vars
  BY PendingStep
<1> QED BY <1>1, LifecycleInvariant, PTL DEF Spec, PendingHoldsPeriodBack

-----------------------------------------------------------------------------
(* Contracts whose applications did not overlap: the chain.                *)

\* What AmountFollowsAdjustments and AdjustmentsChain say of one contract.
Follows(c) ==
    /\ contracts[c].current_amount =
          AmountInMonth(contracts[c].initial_amount, Applied(c), MonthOf(today))
    /\ \A m \in Months : rent_periods[c][m] # 0 =>
          \/ rent_periods[c][m] = contracts[c].initial_amount
          \/ \E n \in AppliedMonths(c) : n <= m /\ rent_periods[c][m] = Applied(c)[n]

Chained(c) ==
    \A m \in Pending(c) \cup AppliedMonths(c) :
        /\ adjustments[c][m].previous =
              AmountInMonth(contracts[c].initial_amount, Applied(c), m - 1)
        /\ m \in Pending(c) => \A n \in AppliedMonths(c) \cup Pending(c) : n <= m
        /\ contracts[c].frequency > 0 =>
              (m - MonthOf(contracts[c].start_date)) % contracts[c].frequency = 0

\* One application of it at a time, of an adjustment that is still pending.
AppliesPending(c) ==
    /\ \A r \in applying : r.contract = c => r.period \in Pending(c)
    /\ \A r, s \in applying : r.contract = c /\ s.contract = c => r = s

\* An amount of its that a month charged today may have.
InForce(c, amount) ==
    \/ amount = contracts[c].initial_amount
    \/ \E n \in AppliedMonths(c) : n <= MonthOf(today) /\ amount = Applied(c)[n]

\* What a job has listed of it: the detection, the amount it still has.
ListedAmount(c) ==
    /\ Detecting(c) => listed[c] = contracts[c].current_amount
    /\ Charging(c) => InForce(c, listed[c])

Chain(c) ==
    /\ AppliesPending(c) /\ ListedAmount(c) /\ Chained(c)
    /\ contracts[c].status # "absent" => Follows(c)

ChainInv == \A c \in Contracts \ overlapped : Chain(c)

\* The months of a contract's adjustments, and the raises applied in them.
LEMMA AdjustmentFacts ==
    ASSUME LifecycleInv, NEW c \in Contracts
    PROVE  /\ Pending(c) \subseteq Months /\ AppliedMonths(c) \subseteq Months
           /\ Pending(c) \cap AppliedMonths(c) = {}
           /\ DOMAIN Applied(c) = AppliedMonths(c)
           /\ \A m \in AppliedMonths(c) : Applied(c)[m] = adjustments[c][m].new
           /\ \A m \in Pending(c) \cup AppliedMonths(c) : m <= MonthOf(today)
           /\ contracts[c].status = "absent" => Pending(c) = {} /\ AppliedMonths(c) = {}
           /\ MonthOf(today) \in Nat /\ MonthOf(today) \in Months
           /\ contracts[c].frequency \in Nat /\ MonthOf(contracts[c].start_date) \in Nat
           /\ contracts[c].current_amount \in 0..MaxAmount
           /\ rent_periods[c] \in [Months -> 0..MaxAmount]
<1>1. /\ Pending(c) \subseteq Months /\ AppliedMonths(c) \subseteq Months
      /\ Pending(c) \cap AppliedMonths(c) = {}
      /\ DOMAIN Applied(c) = AppliedMonths(c)
      /\ \A m \in AppliedMonths(c) : Applied(c)[m] = adjustments[c][m].new
  BY DEF Pending, AppliedMonths, Applied
<1>2. /\ \A m \in Pending(c) \cup AppliedMonths(c) : m <= MonthOf(today)
      /\ contracts[c].status = "absent" => Pending(c) = {} /\ AppliedMonths(c) = {}
  BY DEF LifecycleInv, AdjustedByToday, AbsentClean, Pending, AppliedMonths
<1>3. /\ today \in Days /\ contracts[c].start_date \in Days /\ contracts[c].frequency \in Nat
      /\ contracts[c].current_amount \in 0..MaxAmount
      /\ rent_periods[c] \in [Months -> 0..MaxAmount]
  BY DEF LifecycleInv, TypeOK, ContractRow
<1> QED BY <1>1, <1>2, <1>3, MonthFacts

\* Nothing that Follows and Chained speak of changes, but the date.
LEMMA KeptChain ==
    ASSUME LifecycleInv, NEW c \in Contracts, KeepsTerms(c),
           today' \in Days, today <= today', Chained(c),
           contracts[c].status # "absent" => Follows(c)
    PROVE  /\ Chained(c)'
           /\ contracts[c].status # "absent" =>
                 contracts'[c].current_amount =
                    AmountInMonth(contracts'[c].initial_amount, Applied(c)', MonthOf(today'))
<1>1. /\ Pending(c)' = Pending(c) /\ AppliedMonths(c)' = AppliedMonths(c)
      /\ Applied(c)' = Applied(c)
  BY DEF KeepsTerms, Pending, AppliedMonths, Applied
<1>2. Chained(c)'
  BY <1>1 DEF Chained, KeepsTerms
<1>3. /\ \A m \in AppliedMonths(c) : m <= MonthOf(today) /\ m <= MonthOf(today')
      /\ MonthOf(today) \in Int /\ MonthOf(today') \in Int
  <2>1. /\ MonthOf(today) <= MonthOf(today') /\ MonthOf(today) \in Nat /\ MonthOf(today') \in Nat
    BY MonthFacts DEF LifecycleInv, TypeOK
  <2>2. \A m \in AppliedMonths(c) : m \in Nat /\ m <= MonthOf(today)
    BY AdjustmentFacts, MonthFacts
  <2> QED BY <2>1, <2>2
<1>4. AmountInMonth(contracts[c].initial_amount, Applied(c), MonthOf(today))
        = AmountInMonth(contracts[c].initial_amount, Applied(c), MonthOf(today'))
  BY <1>3, AdjustmentFacts, SameAmount
<1> QED BY <1>1, <1>2, <1>4 DEF Follows, KeepsTerms

LEMMA UntouchedChain ==
    ASSUME LifecycleInv, NEW c \in Contracts, Untouched(c),
           today' \in Days, today <= today', Chained(c),
           contracts[c].status # "absent" => Follows(c)
    PROVE  Chained(c)' /\ (contracts[c].status # "absent" => Follows(c)')
<1>1. KeepsTerms(c) /\ rent_periods'[c] = rent_periods[c]
  BY DEF Untouched
<1>2. AppliedMonths(c)' = AppliedMonths(c) /\ Applied(c)' = Applied(c)
  BY <1>1 DEF KeepsTerms, AppliedMonths, Applied
<1>3. /\ Chained(c)'
      /\ contracts[c].status # "absent" =>
            contracts'[c].current_amount =
               AmountInMonth(contracts'[c].initial_amount, Applied(c)', MonthOf(today'))
  BY <1>1, KeptChain
<1> QED BY <1>1, <1>2, <1>3 DEF Follows, KeepsTerms

\* The amount in force is that of the contract, or of one of its raises.
LEMMA CurrentInForce ==
    ASSUME LifecycleInv, NEW c \in Contracts, Follows(c)
    PROVE  InForce(c, contracts[c].current_amount)
<1>1. contracts[c].current_amount
        = AmountInMonth(contracts[c].initial_amount, Applied(c), MonthOf(today))
  BY DEF Follows
<1>2. /\ MonthOf(today) \in Int /\ DOMAIN Applied(c) = AppliedMonths(c)
      /\ AppliedMonths(c) \subseteq Months
  BY AdjustmentFacts
<1> QED BY <1>1, <1>2, AmountCases DEF InForce

LEMMA ChargedChain ==
    ASSUME LifecycleInv, NEW c \in Contracts, NEW amount, ChargedMonth(c, amount),
           today' = today, Chained(c), Follows(c), ListedAmount(c)
    PROVE  Chained(c)' /\ Follows(c)'
<1> DEFINE month == MonthOf(today)
           initial == contracts[c].initial_amount
<1>1. /\ KeepsTerms(c) /\ contracts[c].status # "absent"
      /\ rent_periods'[c] = WithPeriod(rent_periods[c], month, amount)
  BY DEF ChargedMonth
<1>2. AppliedMonths(c)' = AppliedMonths(c) /\ Applied(c)' = Applied(c)
  BY <1>1 DEF KeepsTerms, AppliedMonths, Applied
<1>3. today' \in Days /\ today <= today'
  BY MonthFacts DEF LifecycleInv, TypeOK
<1>4. /\ Chained(c)'
      /\ contracts'[c].current_amount =
            AmountInMonth(contracts'[c].initial_amount, Applied(c)', MonthOf(today'))
  BY <1>1, <1>3, KeptChain
<1>5. amount = initial \/ \E n \in AppliedMonths(c) : n <= month /\ amount = Applied(c)[n]
  BY CurrentInForce DEF ChargedMonth, ListedAmount, InForce
<1>6. \A m \in Months : rent_periods'[c][m] = rent_periods[c][m]
                        \/ (m = month /\ rent_periods'[c][m] = amount)
  BY <1>1, AdjustmentFacts DEF WithPeriod
<1> HIDE DEF month, initial
<1>7. \A m \in Months : rent_periods'[c][m] # 0 =>
         \/ rent_periods'[c][m] = initial
         \/ \E n \in AppliedMonths(c) : n <= m /\ rent_periods'[c][m] = Applied(c)[n]
  BY <1>5, <1>6 DEF Follows, initial
<1>8. contracts'[c].initial_amount = initial
  BY <1>1 DEF KeepsTerms, initial
<1> QED BY <1>2, <1>4, <1>7, <1>8 DEF Follows

\* A new contract: its raises are applied, none is pending.
LEMMA CreateChain ==
    ASSUME LifecycleInv, NEW c \in Contracts, NEW t \in Terms, Create(c, t)
    PROVE  Chained(c)' /\ Follows(c)'
<1> PICK declared \in Declarable(t) : \E raises \in [declared -> Amounts] :
        Created(c, t, declared, raises)
  BY DEF Create, Created
<1>1. PICK raises \in [declared -> Amounts] : Created(c, t, declared, raises)
  OBVIOUS
<1> DEFINE amount(m) == AmountInMonth(t.initial_amount, raises, m)
<1>2. /\ TypeOK /\ declared \subseteq Months /\ \A m \in declared : m <= MonthOf(today)
      /\ \A m \in Int : amount(m) \in Amounts
  BY CreatedAmounts DEF LifecycleInv
<1>3. MonthOf(today) \in Int /\ Months \subseteq Int /\ UNCHANGED today
  BY AdjustmentFacts, MonthFacts DEF Create, calendar
<1>4. /\ contracts'[c].start_date = t.start_date /\ contracts'[c].frequency = t.frequency
      /\ contracts'[c].initial_amount = t.initial_amount
      /\ contracts'[c].current_amount = amount(MonthOf(today))
  BY <1>1, <1>2 DEF Created, TypeOK
<1>5. /\ \A m \in Months : adjustments'[c][m] = IF m \in declared
            THEN [status |-> "applied", previous |-> amount(m - 1), new |-> raises[m]]
            ELSE NoAdjustment
      /\ \A m \in Months : rent_periods'[c][m] = IF m \in PastMonths(t) THEN amount(m) ELSE 0
  <2> HIDE DEF amount
  <2> QED BY <1>1, <1>2 DEF Created, TypeOK, amount
<1> HIDE DEF amount
<1>raised. \A m \in declared : /\ adjustments'[c][m].status = "applied"
                              /\ adjustments'[c][m].previous = amount(m - 1)
                              /\ adjustments'[c][m].new = raises[m]
  <2> TAKE m \in declared
  <2>1. adjustments'[c][m] = [status |-> "applied", previous |-> amount(m - 1), new |-> raises[m]]
    BY <1>2, <1>5
  <2> QED BY <2>1
<1>none. \A m \in Months \ declared : adjustments'[c][m].status = "none"
  <2> TAKE m \in Months \ declared
  <2>1. adjustments'[c][m] = NoAdjustment
    BY <1>5
  <2> QED BY <2>1 DEF NoAdjustment
<1>6. AppliedMonths(c)' = declared /\ Pending(c)' = {}
  BY <1>2, <1>raised, <1>none DEF AppliedMonths, Pending
<1>7. Applied(c)' = raises
  <2>1. Applied(c)' = [m \in declared |-> adjustments'[c][m].new]
    BY <1>6 DEF Applied
  <2>2. \A m \in declared : adjustments'[c][m].new = raises[m]
    BY <1>raised
  <2>3. raises = [m \in declared |-> raises[m]]
    OBVIOUS
  <2> QED BY <2>1, <2>2, <2>3
<1>8. t.frequency > 0 => \A m \in declared : (m - MonthOf(t.start_date)) % t.frequency = 0
  <2>1. t.frequency \in Nat
    BY LifecycleAssumption DEF TermsRow
  <2>2. \A m \in Windows(t) : (m - MonthOf(t.start_date)) % t.frequency = 0
    BY DEF Windows
  <2>3. t.frequency > 0 => SinceMonths(t) = {}
    BY <2>1 DEF SinceMonths
  <2> QED BY <2>2, <2>3 DEF Declarable
<1>9. Chained(c)'
  BY <1>4, <1>6, <1>7, <1>8, <1>raised DEF Chained, amount
<1>10. \A m \in Months : rent_periods'[c][m] # 0 =>
          \/ rent_periods'[c][m] = t.initial_amount
          \/ \E n \in declared : n <= m /\ rent_periods'[c][m] = raises[n]
  <2>1. ASSUME NEW m \in Months
        PROVE  amount(m) = t.initial_amount \/ \E n \in declared : n <= m /\ amount(m) = raises[n]
    <3>1. m \in Int /\ DOMAIN raises = declared
      BY <1>3
    <3> QED BY <1>2, <3>1, AmountCases DEF amount
  <2> QED BY <1>5, <2>1
<1> QED BY <1>3, <1>4, <1>6, <1>7, <1>9, <1>10 DEF Follows, amount

\* The pending adjustment is applied: it is the last of the chain.
LEMMA CommitChain ==
    ASSUME LifecycleInv, NEW c \in Contracts, NEW m \in Pending(c), NEW r \in applying,
           Commits(r, c, m), Chained(c), Follows(c)
    PROVE  Chained(c)' /\ Follows(c)'
<1> DEFINE A == AppliedMonths(c)
           raises == Applied(c)
           raises2 == Applied(c)'
           initial == contracts[c].initial_amount
<1>1. /\ m \in Months /\ m \in Int /\ Months \subseteq Int /\ A \subseteq Months /\ m \notin A
      /\ MonthOf(today) \in Int /\ m <= MonthOf(today) /\ DOMAIN raises = A
      /\ \A n \in A : raises[n] = adjustments[c][n].new
  BY AdjustmentFacts, MonthFacts
<1>2. /\ \A n \in A \cup Pending(c) : n <= m
      /\ adjustments[c][m].previous = AmountInMonth(initial, raises, m - 1)
      /\ \A n \in A \cup Pending(c) : contracts[c].frequency > 0 =>
            (n - MonthOf(contracts[c].start_date)) % contracts[c].frequency = 0
      /\ \A n \in A : adjustments[c][n].previous = AmountInMonth(initial, raises, n - 1)
  BY DEF Chained
<1>3. Pending(c) = {m}
  <2>1. \A n \in Pending(c) : n <= m /\ m <= n
    BY <1>2 DEF Chained
  <2>2. \A n \in Pending(c) : n \in Int
    BY <1>1 DEF Pending
  <2>3. \A i, j \in Int : i <= j /\ j <= i => i = j
    OBVIOUS
  <2>4. \A n \in Pending(c) : n = m
    BY <1>1, <2>1, <2>2, <2>3
  <2> QED BY <2>4
<1>4. /\ adjustments'[c][m].status = "applied" /\ adjustments'[c][m].new = r.new
      /\ adjustments'[c][m].previous = adjustments[c][m].previous
      /\ \A n \in Months \ {m} : adjustments'[c][n] = adjustments[c][n]
      /\ UNCHANGED today
  BY DEF Commits, calendar
<1>5. AppliedMonths(c)' = A \cup {m} /\ Pending(c)' = {}
  BY <1>1, <1>3, <1>4 DEF AppliedMonths, Pending
<1>6. /\ DOMAIN raises2 = A \cup {m} /\ raises2[m] = r.new
      /\ \A n \in A : raises2[n] = raises[n]
  <2>1. raises2 = [n \in A \cup {m} |-> adjustments'[c][n].new]
    BY <1>5 DEF Applied
  <2> QED BY <1>1, <1>4, <2>1
<1>7. /\ contracts'[c].initial_amount = initial /\ contracts'[c].current_amount = r.new
      /\ contracts'[c].start_date = contracts[c].start_date
      /\ contracts'[c].frequency = contracts[c].frequency
  BY DEF Commits, LifecycleInv, TypeOK, ContractRow
<1>8. \A n \in Months : rent_periods'[c][n] = rent_periods[c][n]
                        \/ (n = m /\ rent_periods'[c][n] = r.new)
  <2>1. rent_periods'[c] = WithPeriod(rent_periods[c], m, r.new)
    BY DEF Commits, LifecycleInv, TypeOK
  <2> QED BY <2>1, AdjustmentFacts DEF WithPeriod
<1> HIDE DEF A, raises, raises2, initial
\* Before its month, nothing changes of the amounts.
<1>9. \A n \in A \cup {m} : AmountInMonth(initial, raises2, n - 1) = AmountInMonth(initial, raises, n - 1)
  <2> SUFFICES ASSUME NEW n \in A \cup {m}
               PROVE  AmountInMonth(initial, raises2, n - 1) = AmountInMonth(initial, raises, n - 1)
    OBVIOUS
  <2>1. n \in Int /\ n - 1 \in Int /\ n <= m
    BY <1>1, <1>2
  <2>2. ~ (m <= n - 1)
    BY <1>1, <2>1
  <2>3. DOMAIN raises \subseteq Months /\ DOMAIN raises2 \subseteq Months
    BY <1>1, <1>6
  <2>4. {k \in DOMAIN raises2 : k <= n - 1} = {k \in DOMAIN raises : k <= n - 1}
    BY <1>1, <1>6, <2>2
  <2>5. \A k \in DOMAIN raises2 : k <= n - 1 => raises2[k] = raises[k]
    BY <1>6, <2>2
  <2> QED BY <2>1, <2>3, <2>4, <2>5, SameAmount
<1>10. Chained(c)'
  <2>1. \A n \in A \cup {m} : adjustments'[c][n].previous = AmountInMonth(initial, raises2, n - 1)
    BY <1>1, <1>2, <1>4, <1>9
  <2> QED BY <1>2, <1>3, <1>5, <1>7, <2>1 DEF Chained, A, raises2, initial
<1>11. AmountInMonth(initial, raises2, MonthOf(today)) = r.new
  <2>1. DOMAIN raises2 \subseteq Months /\ m \in DOMAIN raises2
    BY <1>1, <1>6
  <2>2. \A k \in DOMAIN raises2 : k <= MonthOf(today) => k <= m
    BY <1>1, <1>2, <1>6 DEF A
  <2> QED BY <1>1, <1>6, <2>1, <2>2, AmountOfRaise
<1>12. \A n \in Months : rent_periods'[c][n] # 0 =>
          \/ rent_periods'[c][n] = initial
          \/ \E k \in A \cup {m} : k <= n /\ rent_periods'[c][n] = raises2[k]
  <2> SUFFICES ASSUME NEW n \in Months, rent_periods'[c][n] # 0
               PROVE  \/ rent_periods'[c][n] = initial
                      \/ \E k \in A \cup {m} : k <= n /\ rent_periods'[c][n] = raises2[k]
    OBVIOUS
  <2>1. CASE rent_periods'[c][n] = rent_periods[c][n]
    <3>1. \/ rent_periods[c][n] = initial
          \/ \E k \in A : k <= n /\ rent_periods[c][n] = raises[k]
      BY <2>1 DEF Follows, A, raises, initial
    <3> QED BY <1>6, <2>1, <3>1
  <2>2. CASE n = m /\ rent_periods'[c][n] = r.new
    BY <1>1, <1>6, <2>2
  <2> QED BY <1>8, <2>1, <2>2
<1> QED BY <1>4, <1>5, <1>7, <1>10, <1>11, <1>12 DEF Follows, A, raises2, initial

\* The next adjustment falls due: nothing is applied of it yet, and the amount
\* in force is still that of the months before it.
LEMMA DueChain ==
    ASSUME LifecycleInv, NEW c \in Contracts, FallsDue(c), today' = today,
           Chained(c), Follows(c), ListedAmount(c)
    PROVE  Chained(c)' /\ Follows(c)'
<1> DEFINE A == AppliedMonths(c)
           raises == Applied(c)
           initial == contracts[c].initial_amount
           start == MonthOf(contracts[c].start_date)
           f == contracts[c].frequency
           k == NextDue(c)
<1>0. c \in DueForAdjustment /\ Detecting(c) /\ listed[c] = contracts[c].current_amount
  BY DEF FallsDue, DueForAdjustment, Listed, Detecting, ListedAmount
<1>1. /\ c \in Contracts /\ Pending(c) = {} /\ f \in Nat \ {0}
      /\ k \in Months /\ k <= MonthOf(today) /\ \A m \in A : m < k
      /\ A = {} => k = start + f
      /\ A # {} => Max(A) \in A /\ k = Max(A) + f
  BY <1>0, NextDueFacts
<1>2. /\ A \subseteq Months /\ Months \subseteq Int /\ MonthOf(today) \in Int /\ start \in Int
      /\ DOMAIN raises = A /\ \A m \in A : m <= MonthOf(today)
  BY <1>1, AdjustmentFacts, MonthFacts
<1>3. /\ adjustments'[c][k] = [status |-> "pending", previous |-> contracts[c].current_amount,
                               new |-> 0]
      /\ \A m \in Months \ {k} : adjustments'[c][m] = adjustments[c][m]
      /\ UNCHANGED <<contracts, rent_periods>>
  BY <1>0, DetectDueRows DEF FallsDue
<1>4. /\ \A m \in A : adjustments[c][m].previous = AmountInMonth(initial, raises, m - 1)
      /\ \A m \in A : (m - start) % f = 0
  BY <1>1 DEF Chained
<1> HIDE DEF k
<1>5. k \notin A
  <2>1. ~ (k < k)
    BY <1>1, <1>2
  <2> QED BY <1>1, <2>1
<1>6. /\ adjustments'[c][k].status = "pending"
      /\ adjustments'[c][k].previous = contracts[c].current_amount
  BY <1>3
<1>7. Pending(c)' = {k} /\ AppliedMonths(c)' = A
  BY <1>1, <1>3, <1>5, <1>6 DEF Pending, AppliedMonths
<1>8. Applied(c)' = raises
  BY <1>2, <1>3, <1>5, <1>7 DEF Applied
<1> HIDE DEF A, raises, initial, start, f
<1>9. contracts[c].current_amount = AmountInMonth(initial, raises, k - 1)
  <2>1. contracts[c].current_amount = AmountInMonth(initial, raises, MonthOf(today))
    BY DEF Follows, raises, initial
  <2>2. k - 1 \in Int /\ \A m \in A : m <= k - 1 /\ m <= MonthOf(today)
    BY <1>1, <1>2
  <2>3. AmountInMonth(initial, raises, MonthOf(today)) = AmountInMonth(initial, raises, k - 1)
    <3>1. {m \in DOMAIN raises : m <= MonthOf(today)} = {m \in DOMAIN raises : m <= k - 1}
      BY <1>2, <2>2
    <3>2. DOMAIN raises \subseteq Months /\ k - 1 \in Int /\ MonthOf(today) \in Int
      BY <1>2, <2>2
    <3> QED BY <3>1, <3>2, SameAmount
  <2> QED BY <2>1, <2>3
<1>10. (k - start) % f = 0
  <2>1. CASE A = {}
    <3>1. 0 % f = 0
      BY <1>1
    <3>2. k - start = 0 + f
      BY <1>1, <1>2, <2>1
    <3>3. (0 + f) % f = 0
      BY <1>1, <3>1, MultipleStep
    <3> QED BY <3>2, <3>3
  <2>2. CASE A # {}
    <3>1. PICK n \in A : k = n + f
      BY <1>1, <2>2
    <3>2. n - start \in Int /\ (n - start) % f = 0 /\ k - start = (n - start) + f
      BY <1>1, <1>2, <1>4, <3>1
    <3>3. ((n - start) + f) % f = 0
      BY <1>1, <3>2, MultipleStep
    <3> QED BY <3>2, <3>3
  <2> QED BY <2>1, <2>2
<1>11. Chained(c)'
  <2>1. \A m \in A \cup {k} : adjustments'[c][m].previous = AmountInMonth(initial, raises, m - 1)
    BY <1>2, <1>3, <1>4, <1>5, <1>6, <1>9
  <2>2. \A m \in A \cup {k} : m <= k
    BY <1>1, <1>2
  <2>3. \A m \in A \cup {k} : (m - start) % f = 0
    BY <1>4, <1>10
  <2> QED BY <1>3, <1>7, <1>8, <2>1, <2>2, <2>3 DEF Chained, raises, initial, start, f
<1>12. Follows(c)'
  BY <1>3, <1>7, <1>8 DEF Follows, A, raises
<1> QED BY <1>11, <1>12

\* Days only go by, and a day that goes by changes no contract.
LEMMA DaysGoBy ==
    ASSUME LifecycleInv, Next, NEW c \in Contracts
    PROVE  /\ today' \in Days /\ today <= today'
           /\ today' = today \/ Untouched(c)
<1>1. today \in Days /\ today' \in Days
  BY NextLifecycle DEF LifecycleInv, TypeOK
<1>2. CASE NextDay
  <2>1. today' = today + 1 \/ today' = today
    BY <1>2 DEF NextDay
  <2>2. today \in Nat
    BY <1>1, MonthFacts
  <2>3. Untouched(c)
    BY <1>2 DEF NextDay, Untouched, KeepsTerms
  <2> QED BY <1>1, <2>1, <2>2, <2>3
<1>3. CASE Operate
  <2>1. today' = today
    BY <1>3 DEF Operate, Create, UpdateEndDate, Activate, Terminate, Delete, ApplyRead,
                ApplySelect, ApplyCommit, ApplyDrop, SetPropertyStatus, DeleteProperty, calendar
  <2> QED BY <1>1, <2>1, MonthFacts
<1>4. CASE \/ \E name \in JobNames : StartJob(name)
           \/ (\E requeued \in BOOLEAN : LoseJob(requeued))
           \/ \E name \in JobNames, acked \in BOOLEAN : RunJob(name, acked)
  <2>1. today' = today
    BY <1>4 DEF StartJob, LoseJob, RunJob
  <2> QED BY <1>1, <2>1, MonthFacts
<1> QED BY <1>2, <1>3, <1>4 DEF Next

\* What overlapped stays so.
LEMMA OverlapGrows ==
    ASSUME Next
    PROVE  overlapped \subseteq overlapped'
<1>1. CASE Operate
  BY <1>1 DEF Operate, Create, UpdateEndDate, Activate, Terminate, Delete, ApplyRead, ApplySelect,
              ApplyCommit, ApplyDrop, SetPropertyStatus, DeleteProperty, requests
<1>2. CASE ~ Operate
  BY <1>2 DEF Next, NextDay, StartJob, LoseJob, RunJob, requests
<1> QED BY <1>1, <1>2

\* A pending adjustment stays pending unless it is applied.
LEMMA PendingStays ==
    ASSUME LifecycleInv, Next, NEW c \in Contracts, NEW m \in Pending(c),
           ~ \E r \in applying : r.contract = c /\ ApplyCommit(r)
    PROVE  m \in Pending(c)'
<1>1. ~ \E t \in Terms : Create(c, t)
  BY AdjustmentFacts DEF Create
<1>2. ~ FallsDue(c)
  BY DEF FallsDue, DueForAdjustment
<1>3. KeepsTerms(c)
  BY <1>1, <1>2, EveryStep DEF StepOf, Untouched, ChargedMonth
<1> QED BY <1>3 DEF KeepsTerms, Pending

LEMMA AppliesPendingStep ==
    ASSUME LifecycleInv, Next, NEW c \in Contracts, AppliesPending(c), c \notin overlapped'
    PROVE  AppliesPending(c)'
<1>1. ASSUME NEW d \in Contracts, NEW m \in Months, NEW new \in Amounts, ApplyRead(d, m, new)
      PROVE  AppliesPending(c)'
  <2> DEFINE read == [contract |-> d, period |-> m, new |-> new, selected |-> FALSE]
  <2>1. /\ applying' = applying \cup {read} /\ m \in Pending(d) /\ adjustments' = adjustments
        /\ overlapped' = overlapped \cup {r.contract : r \in {q \in applying : q.contract = d}}
    BY <1>1 DEF ApplyRead
  <2>2. read.contract = d /\ read.period = m
    OBVIOUS
  <2>3. Pending(c)' = Pending(c)
    BY <2>1 DEF Pending
  <2> HIDE DEF read
  <2>4. d = c => \A r \in applying : r.contract # c
    BY <2>1
  <2> QED BY <2>1, <2>2, <2>3, <2>4 DEF AppliesPending
<1>2. ASSUME NEW r \in applying, ApplySelect(r)
      PROVE  AppliesPending(c)'
  <2> DEFINE selected == [r EXCEPT !.selected = TRUE]
  <2>1. selected.contract = r.contract /\ selected.period = r.period
    BY DEF LifecycleInv, TypeOK, ApplyRequest
  <2>2. applying' = (applying \ {r}) \cup {selected} /\ adjustments' = adjustments
    BY <1>2 DEF ApplySelect
  <2>3. Pending(c)' = Pending(c)
    BY <2>2 DEF Pending
  <2> HIDE DEF selected
  <2> QED BY <2>1, <2>2, <2>3 DEF AppliesPending
<1>3. ASSUME NEW r \in applying, ApplyDrop(r)
      PROVE  AppliesPending(c)'
  <2>1. applying' = applying \ {r} /\ Pending(c)' = Pending(c)
    BY <1>3 DEF ApplyDrop, Pending
  <2> QED BY <2>1 DEF AppliesPending
<1>4. ASSUME NEW r \in applying, ApplyCommit(r)
      PROVE  AppliesPending(c)'
  <2>1. applying' = applying \ {r}
    BY <1>4 DEF ApplyCommit
  <2>2. CASE r.contract = c
    <3>1. \A q \in applying' : q.contract # c
      BY <2>1, <2>2 DEF AppliesPending
    <3> QED BY <3>1 DEF AppliesPending
  <2>3. CASE r.contract # c
    <3>1. PICK d, m : d = r.contract /\ m = r.period
      OBVIOUS
    <3>2. Commits(r, d, m)
      BY <1>4, <3>1, ApplyCommitRows
    <3>3. Pending(c)' = Pending(c)
      BY <2>3, <3>1, <3>2 DEF Commits, Pending
    <3> QED BY <2>1, <3>3 DEF AppliesPending
  <2> QED BY <2>2, <2>3
<1>5. CASE applying' = applying
  <2>1. ~ \E r \in applying : r.contract = c /\ ApplyCommit(r)
    BY <1>5 DEF ApplyCommit
  <2>2. \A m \in Pending(c) : m \in Pending(c)'
    BY <2>1, PendingStays
  <2> QED BY <1>5, <2>2 DEF AppliesPending
<1> QED BY <1>1, <1>2, <1>3, <1>4, <1>5, ApplicationsOn

\* A job that goes on finds the amounts it has listed as they were, or raised
\* since in the months it may charge.
LEMMA ListedKept ==
    ASSUME LifecycleInv, Next, NEW c \in Contracts, Chain(c), c \notin overlapped',
           UNCHANGED <<jobs, running, listed>>, today' = today
    PROVE  ListedAmount(c)'
<1>1. /\ Detecting(c)' <=> Detecting(c)
      /\ Charging(c)' <=> Charging(c)
      /\ ~ (Detecting(c) /\ Charging(c))
  BY DEF Detecting, Charging
<1>2. ListedAmount(c) /\ AppliesPending(c)
  BY DEF Chain
<1>3. CASE KeepsTerms(c)
  <2>1. AppliedMonths(c)' = AppliedMonths(c) /\ Applied(c)' = Applied(c)
    BY <1>3 DEF KeepsTerms, AppliedMonths, Applied
  <2> QED BY <1>1, <1>2, <1>3, <2>1 DEF ListedAmount, InForce, KeepsTerms
<1>4. CASE \E t \in Terms : Create(c, t)
  <2>1. listed[c] = 0
    BY <1>4 DEF Create, LifecycleInv, AbsentClean
  <2> QED BY <1>1, <2>1 DEF ListedAmount, Detecting, Charging
<1>5. ASSUME NEW r \in applying, r.contract = c, ApplyCommit(r)
      PROVE  ListedAmount(c)'
  <2>1. PICK m : m = r.period
    OBVIOUS
  <2>2. Commits(r, c, m) /\ m \in Pending(c)
    BY <1>2, <1>5, <2>1, ApplyCommitRows DEF AppliesPending
  <2>3. ~ Detecting(c)
    BY <2>2 DEF Commits
  <2>4. /\ AppliedMonths(c) \subseteq AppliedMonths(c)'
        /\ \A n \in AppliedMonths(c) : Applied(c)'[n] = Applied(c)[n]
    <3>1. /\ adjustments'[c][m].status = "applied"
          /\ \A k \in Months : k # m => adjustments'[c][k] = adjustments[c][k]
      BY <2>2 DEF Commits
    <3>2. \A n \in AppliedMonths(c) : n # m /\ n \in Months
      BY <2>2, AdjustmentFacts
    <3> QED BY <3>1, <3>2 DEF AppliedMonths, Applied
  <2>5. contracts'[c].initial_amount = contracts[c].initial_amount
    BY <2>2 DEF Commits, LifecycleInv, TypeOK, ContractRow
  <2> QED BY <1>1, <1>2, <2>3, <2>4, <2>5 DEF ListedAmount, InForce
<1>6. CASE FallsDue(c)
  <2>1. contracts'[c] = contracts[c] /\ ~ Charging(c)
    BY <1>6 DEF FallsDue, DetectDueAdjustments, Charging
  <2> QED BY <1>1, <1>2, <2>1 DEF ListedAmount
<1> QED BY <1>3, <1>4, <1>5, <1>6, EveryStep DEF StepOf, Untouched, ChargedMonth

LEMMA ListedAmountStep ==
    ASSUME LifecycleInv, Next, NEW c \in Contracts, Chain(c), c \notin overlapped'
    PROVE  ListedAmount(c)'
<1>1. ASSUME NEW name \in JobNames, StartJob(name)
      PROVE  ListedAmount(c)'
  <2>1. /\ listed'[c] = 0 \/ listed'[c] = contracts[c].current_amount
        /\ UNCHANGED <<today, contracts, adjustments>>
    BY <1>1 DEF StartJob
  <2>2. listed'[c] # 0 => contracts[c].status # "absent"
    BY <1>1 DEF StartJob, Candidates, Active
  <2>3. CASE listed'[c] = 0
    BY <2>3 DEF ListedAmount, Detecting, Charging
  <2>4. CASE listed'[c] # 0
    <3>1. InForce(c, contracts[c].current_amount)
      BY <2>2, <2>4, CurrentInForce DEF Chain
    <3>2. AppliedMonths(c)' = AppliedMonths(c) /\ Applied(c)' = Applied(c)
      BY <2>1 DEF AppliedMonths, Applied
    <3> QED BY <2>1, <2>4, <3>1, <3>2 DEF ListedAmount, InForce
  <2> QED BY <2>3, <2>4
<1>2. CASE ~ running'
  BY <1>2 DEF ListedAmount, Detecting, Charging
<1>3. CASE NextDay
  <2>1. ~ running'
    BY <1>3 DEF NextDay, LifecycleInv, ListingInv
  <2> QED BY <1>2, <2>1
<1>4. CASE UNCHANGED <<jobs, running, listed>> /\ running /\ ~ NextDay
  <2>1. today' = today
    BY <1>4 DEF Next, Operate, StartJob, LoseJob, RunJob, Create, UpdateEndDate, Activate, Terminate,
                Delete, ApplyRead, ApplySelect, ApplyCommit, ApplyDrop, SetPropertyStatus,
                DeleteProperty, calendar
  <2> QED BY <1>4, <2>1, ListedKept
<1> QED BY <1>1, <1>2, <1>3, <1>4, ListingOn

\* The chain of a contract, whatever the step.
LEMMA ChainStep ==
    ASSUME LifecycleInv, Next, NEW c \in Contracts, Chain(c)
    PROVE  Chained(c)' /\ ((contracts[c].status # "absent")' => Follows(c)')
<1>1. /\ Chained(c) /\ (contracts[c].status # "absent" => Follows(c))
      /\ AppliesPending(c) /\ ListedAmount(c)
  BY DEF Chain
<1>2. today' \in Days /\ today <= today' /\ (today' = today \/ Untouched(c))
  BY DaysGoBy
<1>3. CASE Untouched(c)
  <2>1. contracts'[c].status = "absent" <=> contracts[c].status = "absent"
    BY <1>3 DEF Untouched, KeepsTerms
  <2> QED BY <1>1, <1>2, <1>3, <2>1, UntouchedChain
<1>4. ASSUME today' = today, NEW amount, ChargedMonth(c, amount)
      PROVE  Chained(c)' /\ Follows(c)'
  <2>1. contracts[c].status # "absent"
    BY <1>4 DEF ChargedMonth
  <2> QED BY <1>1, <1>4, <2>1, ChargedChain
<1>5. ASSUME NEW t \in Terms, Create(c, t)
      PROVE  Chained(c)' /\ Follows(c)'
  BY <1>5, CreateChain
<1>6. ASSUME NEW r \in applying, r.contract = c, ApplyCommit(r)
      PROVE  Chained(c)' /\ Follows(c)'
  <2>1. PICK m : m = r.period
    OBVIOUS
  <2>2. m \in Pending(c)
    BY <1>1, <1>6, <2>1 DEF AppliesPending
  <2>3. Commits(r, c, m)
    BY <1>6, <2>1, ApplyCommitRows
  <2>4. contracts[c].status # "absent"
    BY <2>3 DEF Commits
  <2> QED BY <1>1, <2>2, <2>3, <2>4, CommitChain
<1>7. ASSUME today' = today, FallsDue(c)
      PROVE  Chained(c)' /\ Follows(c)'
  <2>1. contracts[c].status # "absent"
    BY <1>7 DEF FallsDue, DueForAdjustment, Listed, LifecycleInv, AbsentClean
  <2> QED BY <1>1, <1>7, <2>1, DueChain
<1> QED BY <1>2, <1>3, <1>4, <1>5, <1>6, <1>7, EveryStep DEF StepOf

LEMMA NextChain == LifecycleInv /\ ChainInv /\ [Next]_vars => ChainInv'
<1> SUFFICES ASSUME LifecycleInv, ChainInv, [Next]_vars
             PROVE  ChainInv'
  OBVIOUS
<1>1. CASE Next
  <2> SUFFICES ASSUME NEW c \in Contracts, c \notin overlapped'
               PROVE  Chain(c)'
    BY DEF ChainInv
  <2>1. Chain(c)
    BY <1>1, OverlapGrows DEF ChainInv
  <2>2. AppliesPending(c)'
    BY <1>1, <2>1, AppliesPendingStep DEF Chain
  <2>3. ListedAmount(c)'
    BY <1>1, <2>1, ListedAmountStep
  <2>4. Chained(c)' /\ ((contracts[c].status # "absent")' => Follows(c)')
    BY <1>1, <2>1, ChainStep
  <2> QED BY <2>2, <2>3, <2>4 DEF Chain
<1>2. CASE UNCHANGED vars
  <2> USE <1>2 DEF vars
  <2>1. \A c \in Contracts : /\ Pending(c)' = Pending(c) /\ AppliedMonths(c)' = AppliedMonths(c)
                             /\ Applied(c)' = Applied(c)
    BY DEF Pending, AppliedMonths, Applied
  <2>2. \A c \in Contracts : Chain(c) => Chain(c)'
    <3> SUFFICES ASSUME NEW c \in Contracts, Chain(c) PROVE Chain(c)'
      OBVIOUS
    <3>1. AppliesPending(c)' /\ ListedAmount(c)'
      BY <2>1 DEF Chain, AppliesPending, ListedAmount, Detecting, Charging, InForce
    <3>2. Chained(c)' /\ (contracts'[c].status # "absent" => Follows(c)')
      BY <2>1 DEF Chain, Chained, Follows
    <3> QED BY <3>1, <3>2 DEF Chain
  <2> QED BY <2>2 DEF ChainInv
<1> QED BY <1>1, <1>2

LEMMA InitChain == Init => ChainInv
<1> SUFFICES ASSUME Init, NEW c \in Contracts PROVE Chain(c)
  BY DEF ChainInv
<1>1. /\ contracts[c].status = "absent" /\ ~ running /\ applying = {}
      /\ Pending(c) = {} /\ AppliedMonths(c) = {}
  BY DEF Init, NoContract, NoAdjustment, Pending, AppliedMonths
<1> QED BY <1>1 DEF Chain, AppliesPending, ListedAmount, Detecting, Charging, Chained

LEMMA ChainInvariant == Spec => [](LifecycleInv /\ ChainInv)
<1>1. Init => LifecycleInv /\ ChainInv
  BY InitLifecycle, InitChain
<1>2. LifecycleInv /\ ChainInv /\ [Next]_vars => LifecycleInv' /\ ChainInv'
  BY NextLifecycle, NextChain
<1> QED BY <1>1, <1>2, PTL DEF Spec

\* RN-04: each adjustment of a contract starts from the amount the one before
\* left, and at most one is pending, the last, unless two applications of it
\* overlapped or one met the detection job.
THEOREM AdjustmentsChainHolds == Spec => []AdjustmentsChain
<1>1. LifecycleInv /\ ChainInv => AdjustmentsChain
  BY DEF ChainInv, Chain, Chained, AdjustmentsChain
<1> QED BY <1>1, ChainInvariant, PTL

\* RN-04: and its amount in force, as that of every month charged, is what the
\* applied adjustments make of the initial one.
THEOREM AmountFollowsAdjustmentsHolds == Spec => []AmountFollowsAdjustments
<1>1. LifecycleInv /\ ChainInv => AmountFollowsAdjustments
  BY DEF ChainInv, Chain, Follows, AmountFollowsAdjustments
<1> QED BY <1>1, ChainInvariant, PTL

\* No step rewrites the amount of a period, nor an adjustment that is applied
\* unless its applications overlapped.
LEMMA FrozenStep ==
    ASSUME LifecycleInv, Next, NEW c \in Contracts
    PROVE  /\ AppliesPending(c) =>
                \A m \in AppliedMonths(c) : adjustments'[c][m] = adjustments[c][m]
           /\ \A m \in Months : rent_periods[c][m] # 0 => rent_periods'[c][m] = rent_periods[c][m]
<1>1. /\ AppliedMonths(c) \subseteq Months /\ Pending(c) \cap AppliedMonths(c) = {}
      /\ rent_periods[c] \in [Months -> 0..MaxAmount]
  BY AdjustmentFacts
<1>2. ASSUME NEW amount, ChargedMonth(c, amount)
      PROVE  /\ adjustments'[c] = adjustments[c]
             /\ \A m \in Months : rent_periods[c][m] # 0 => rent_periods'[c][m] = rent_periods[c][m]
  BY <1>1, <1>2 DEF ChargedMonth, KeepsTerms, WithPeriod
<1>3. ASSUME NEW r \in applying, r.contract = c, ApplyCommit(r)
      PROVE  /\ AppliesPending(c) =>
                  \A m \in AppliedMonths(c) : adjustments'[c][m] = adjustments[c][m]
             /\ \A m \in Months : rent_periods[c][m] # 0 => rent_periods'[c][m] = rent_periods[c][m]
  <2>1. PICK k : k = r.period
    OBVIOUS
  <2>2. Commits(r, c, k)
    BY <1>3, <2>1, ApplyCommitRows
  <2>3. rent_periods'[c] = WithPeriod(rent_periods[c], k, r.new)
    BY <2>2 DEF Commits, LifecycleInv, TypeOK
  <2>4. \A m \in Months : rent_periods[c][m] # 0 => rent_periods'[c][m] = rent_periods[c][m]
    BY <1>1, <2>3 DEF WithPeriod
  <2>5. AppliesPending(c) => \A m \in AppliedMonths(c) : m \in Months /\ m # k
    BY <1>1, <1>3, <2>1 DEF AppliesPending
  <2> QED BY <2>2, <2>4, <2>5 DEF Commits
<1>4. CASE FallsDue(c)
  <2>1. Detecting(c) /\ c \in DueForAdjustment
    BY <1>4 DEF FallsDue, DueForAdjustment, Listed, Detecting
  <2>2. \A m \in AppliedMonths(c) : m \in Months /\ m # NextDue(c)
    <3>1. \A m \in AppliedMonths(c) : m < NextDue(c)
      BY <2>1, NextDueFacts
    <3>2. \A m \in Months : m \in Int
      BY MonthFacts
    <3> QED BY <1>1, <3>1, <3>2
  <2> QED BY <1>4, <2>1, <2>2, DetectDueRows DEF FallsDue
<1>5. ASSUME NEW t \in Terms, Create(c, t)
      PROVE  AppliedMonths(c) = {} /\ \A m \in Months : rent_periods[c][m] = 0
  BY <1>5, AdjustmentFacts DEF Create, LifecycleInv, AbsentClean
<1> QED BY <1>2, <1>3, <1>4, <1>5, EveryStep DEF StepOf, Untouched, KeepsTerms

\* sdd_02, 2.8: what was charged stays as it was, and what was applied unless
\* two applications of it overlapped.
THEOREM PastMonthsFrozenHolds == Spec => PastMonthsFrozen
<1>1. LifecycleInv /\ ChainInv /\ [Next]_vars =>
        [\A c \in Contracts :
           /\ c \notin overlapped =>
                \A m \in AppliedMonths(c) : adjustments'[c][m] = adjustments[c][m]
           /\ \A m \in Months :
                rent_periods[c][m] # 0 => rent_periods'[c][m] = rent_periods[c][m]]_vars
  BY FrozenStep DEF ChainInv, Chain
<1> QED BY <1>1, ChainInvariant, PTL DEF Spec, PastMonthsFrozen

=============================================================================
