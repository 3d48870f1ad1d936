------------------------ MODULE RentLedger_proofs ------------------------
(***************************************************************************)
(* The invariants of RentLedger, for any periods, contracts, payments and  *)
(* amounts.  The one induction is over LedgerInv, in which the balance,    *)
(* the status and the history of a period hold each other up: a payment    *)
(* is never larger than the balance the row shows, the row shows what the  *)
(* live payments add up to, so taking one of them out never goes below     *)
(* zero.                                                                   *)
(***************************************************************************)
EXTENDS RentLedger, Functions, FiniteSetTheorems, TLAPS

-----------------------------------------------------------------------------
(* Facts about SumFunctionOnSet of module Functions, for every finite set  *)
(* of indices.  The sum is defined by a recursion that takes out an index  *)
(* CHOOSEn from the set; what is shown here is that any index can be taken *)
(* out, and what follows from that.  The inductions are stated as minimal  *)
(* counterexamples among the subsets of the index set.                     *)

\* The functions that sum v over every subset of S, whichever index is
\* taken out first.
SumsOver(v, S) ==
    {f \in [SUBSET S -> Int] :
        /\ f[{}] = 0
        /\ \A U \in SUBSET S : \A x \in U : f[U] = v[x] + f[U \ {x}]}

\* Among a nonempty set of subsets of a finite set there is a smallest one.
LEMMA MinimalSubset ==
    ASSUME NEW S, IsFiniteSet(S), NEW Bad, Bad \subseteq SUBSET S, Bad # {}
    PROVE  \E T \in Bad : \A x \in T : T \ {x} \notin Bad
<1>1. FiniteSubsetsOf(S) = SUBSET S
  BY FS_FiniteSubsetsOfFinite
<1>2. IsWellFoundedOn(StrictSubsetOrdering(S), SUBSET S)
  BY <1>1, FS_StrictSubsetOrderingWellFounded
<1>3. PICK T \in Bad : \A U \in Bad : ~ (<<U, T>> \in StrictSubsetOrdering(S))
  BY <1>2, WFMin
<1>4. ASSUME NEW x \in T PROVE T \ {x} \notin Bad
  <2>1. <<T \ {x}, T>> \in StrictSubsetOrdering(S)
    BY DEF StrictSubsetOrdering
  <2> QED BY <1>3, <2>1
<1> QED BY <1>3, <1>4

\* Such a function exists, for every finite set.
LEMMA SumsExist ==
    ASSUME NEW S, IsFiniteSet(S), NEW v, \A x \in S : v[x] \in Int
    PROVE  SumsOver(v, S) # {}
<1> DEFINE Bad == {T \in SUBSET S : SumsOver(v, T) = {}}
<1>1. SUFFICES ASSUME S \in Bad PROVE FALSE
  OBVIOUS
<1>2. PICK T \in Bad : \A x \in T : T \ {x} \notin Bad
  BY <1>1, MinimalSubset
<1>3. CASE T = {}
  <2> DEFINE f == [U \in SUBSET T |-> 0]
  <2>1. f \in SumsOver(v, T)
    BY <1>3 DEF SumsOver
  <2> QED BY <1>2, <2>1
<1>4. CASE T # {}
  <2>1. PICK x \in T : TRUE
    BY <1>4
  <2>2. SumsOver(v, T \ {x}) # {}
    BY <1>2, <2>1
  <2>3. PICK g \in SumsOver(v, T \ {x}) : TRUE
    BY <2>2
  <2> DEFINE d(U) == IF x \in U THEN v[x] ELSE 0
             f == [U \in SUBSET T |-> g[U \ {x}] + d(U)]
  <2>4. v[x] \in Int
    OBVIOUS
  <2>5. \A U \in SUBSET T : U \ {x} \in SUBSET (T \ {x}) /\ g[U \ {x}] \in Int
    BY <2>3 DEF SumsOver
  <2>6. f \in [SUBSET T -> Int]
    <3>1. ASSUME NEW U \in SUBSET T PROVE g[U \ {x}] + d(U) \in Int
      <4>1. g[U \ {x}] \in Int /\ d(U) \in Int
        BY <2>4, <2>5
      <4> HIDE DEF d
      <4> QED BY <4>1
    <3> HIDE DEF d
    <3> QED BY <3>1
  <2>7. f[{}] = 0
    <3>1. g[{} \ {x}] = 0
      BY <2>3 DEF SumsOver
    <3> QED BY <3>1
  <2>8. ASSUME NEW U \in SUBSET T, NEW y \in U
        PROVE  f[U] = v[y] + f[U \ {y}]
    <3>1. v[y] \in Int
      OBVIOUS
    <3>2. CASE y = x
      <4>1. (U \ {x}) \ {x} = U \ {x}
        OBVIOUS
      <4>2. f[U] = g[U \ {x}] + v[x] /\ f[U \ {y}] = g[U \ {x}] + 0
        BY <3>2, <4>1
      <4> QED BY <4>2, <2>4, <2>5, <3>2
    <3>3. CASE y # x
      <4>1. y \in U \ {x} /\ U \ {x} \in SUBSET (T \ {x})
        BY <3>3
      <4>2. g[U \ {x}] = v[y] + g[(U \ {x}) \ {y}]
        BY <4>1, <2>3 DEF SumsOver
      <4>3. (U \ {x}) \ {y} = (U \ {y}) \ {x}
        OBVIOUS
      <4>4. d(U) = d(U \ {y}) /\ d(U) \in Int
        BY <3>3, <2>4
      <4>5. f[U] = g[U \ {x}] + d(U) /\ f[U \ {y}] = g[(U \ {y}) \ {x}] + d(U \ {y})
        OBVIOUS
      <4>6. g[(U \ {y}) \ {x}] \in Int
        BY <2>5
      <4>7. g[U \ {x}] = v[y] + g[(U \ {y}) \ {x}]
        BY <4>2, <4>3
      <4> HIDE DEF f, d
      <4> QED BY <4>4, <4>5, <4>6, <4>7, <3>1
    <3> QED BY <3>2, <3>3
  <2>9. f \in SumsOver(v, T)
    <3> HIDE DEF f
    <3> QED BY <2>6, <2>7, <2>8 DEF SumsOver
  <2> QED BY <1>2, <2>9
<1> QED BY <1>3, <1>4

\* The recursion that defines the sum, with its CHOOSEn index.
SumStep(v, S, f) ==
    [s \in SUBSET S |->
        IF s = {} THEN 0
        ELSE LET x == CHOOSE x \in s : TRUE IN v[x] + f[s \ {x}]]

\* SumFunctionOnSet is one of these functions, at the set itself.
LEMMA SumIsSum ==
    ASSUME NEW S, IsFiniteSet(S), NEW v, \A x \in S : v[x] \in Int
    PROVE  \A f \in SumsOver(v, S) : SumFunctionOnSet(v, S) = f[S]
<1> TAKE f \in SumsOver(v, S)
<1> DEFINE iter == CHOOSE h : h = SumStep(v, S, h)
<1>1. SumFunctionOnSet(v, S) = iter[S]
  BY DEF SumFunctionOnSet, FoldFunctionOnSet, MapThenFoldSet, SumStep
<1>2. f = SumStep(v, S, f)
  <2>1. ASSUME NEW s \in SUBSET S
        PROVE  f[s] = IF s = {} THEN 0
                      ELSE LET x == CHOOSE x \in s : TRUE IN v[x] + f[s \ {x}]
    <3>1. CASE s = {}
      BY <3>1 DEF SumsOver
    <3>2. CASE s # {}
      <4>1. (CHOOSE x \in s : TRUE) \in s
        BY <3>2
      <4> QED BY <3>2, <4>1 DEF SumsOver
    <3> QED BY <3>1, <3>2
  <2> QED BY <2>1 DEF SumStep, SumsOver
<1>3. iter = SumStep(v, S, iter)
  BY <1>2
<1> HIDE DEF iter
<1> DEFINE Bad == {T \in SUBSET S : iter[T] # f[T]}
<1>4. SUFFICES ASSUME S \in Bad PROVE FALSE
  BY <1>1
<1>5. PICK T \in Bad : \A x \in T : T \ {x} \notin Bad
  BY <1>4, MinimalSubset
<1>6. CASE T = {}
  BY <1>2, <1>3, <1>5, <1>6 DEF SumStep
<1>7. CASE T # {}
  <2> DEFINE x == CHOOSE x \in T : TRUE
  <2>1. x \in T
    BY <1>7
  <2>2. iter[T \ {x}] = f[T \ {x}]
    BY <1>5, <2>1
  <2>3. iter[T] = v[x] + iter[T \ {x}] /\ f[T] = v[x] + f[T \ {x}]
    BY <1>2, <1>3, <1>7 DEF SumStep
  <2> QED BY <1>5, <2>2, <2>3
<1> QED BY <1>6, <1>7

\* The sum is an integer, 0 over no index, and any index can be taken out.
LEMMA SumProperties ==
    ASSUME NEW S, IsFiniteSet(S), NEW v, \A x \in S : v[x] \in Int
    PROVE  /\ SumFunctionOnSet(v, S) \in Int
           /\ S = {} => SumFunctionOnSet(v, S) = 0
           /\ \A x \in S : SumFunctionOnSet(v, S) = v[x] + SumFunctionOnSet(v, S \ {x})
<1>1. PICK f \in SumsOver(v, S) : TRUE
  BY SumsExist
<1>2. SumFunctionOnSet(v, S) = f[S]
  BY SumIsSum
<1>3. ASSUME NEW x \in S
      PROVE  SumFunctionOnSet(v, S \ {x}) = f[S \ {x}]
  <2> DEFINE h == [U \in SUBSET (S \ {x}) |-> f[U]]
  <2>1. h \in SumsOver(v, S \ {x})
    BY DEF SumsOver
  <2>2. IsFiniteSet(S \ {x})
    BY FS_RemoveElement
  <2>3. SumFunctionOnSet(v, S \ {x}) = h[S \ {x}]
    BY <2>1, <2>2, SumIsSum
  <2> QED BY <2>3
<1> QED BY <1>2, <1>3 DEF SumsOver

\* Functions that agree on the indices have the same sum.
LEMMA SumAgrees ==
    ASSUME NEW S, IsFiniteSet(S), NEW v, NEW w,
           \A x \in S : v[x] \in Int /\ w[x] = v[x]
    PROVE  SumFunctionOnSet(w, S) = SumFunctionOnSet(v, S)
<1>1. PICK f \in SumsOver(v, S) : TRUE
  BY SumsExist
<1>2. f \in SumsOver(w, S)
  BY DEF SumsOver
<1> QED BY <1>2, SumIsSum

\* A sum of natural numbers is one, and at least each of them.
LEMMA SumOfNaturals ==
    ASSUME NEW S, IsFiniteSet(S), NEW v, \A x \in S : v[x] \in Nat
    PROVE  /\ SumFunctionOnSet(v, S) \in Nat
           /\ \A x \in S : v[x] <= SumFunctionOnSet(v, S)
<1>1. PICK f \in SumsOver(v, S) : TRUE
  BY SumsExist
<1> DEFINE Bad == {T \in SUBSET S : f[T] \notin Nat}
<1>2. Bad = {}
  <2>1. SUFFICES ASSUME Bad # {} PROVE FALSE
    OBVIOUS
  <2>2. PICK T \in Bad : \A x \in T : T \ {x} \notin Bad
    BY <2>1, MinimalSubset
  <2>3. CASE T = {}
    BY <2>2, <2>3 DEF SumsOver
  <2>4. CASE T # {}
    <3>1. PICK x \in T : TRUE
      BY <2>4
    <3>2. f[T \ {x}] \in Nat
      BY <2>2, <3>1
    <3>3. f[T] = v[x] + f[T \ {x}] /\ v[x] \in Nat
      BY <3>1 DEF SumsOver
    <3> QED BY <2>2, <3>2, <3>3
  <2> QED BY <2>3, <2>4
<1>3. \A T \in SUBSET S : f[T] \in Nat
  BY <1>2
<1>4. SumFunctionOnSet(v, S) = f[S]
  BY SumIsSum
<1>5. ASSUME NEW x \in S PROVE v[x] <= f[S]
  <2>1. f[S] = v[x] + f[S \ {x}] /\ f[S \ {x}] \in Nat
    BY <1>3 DEF SumsOver
  <2> QED BY <2>1
<1> QED BY <1>3, <1>4, <1>5

\* One index more, and one index less.
LEMMA SumAdd ==
    ASSUME NEW S, IsFiniteSet(S), NEW v, NEW w, NEW x, x \notin S,
           w[x] \in Int, \A y \in S : v[y] \in Int /\ w[y] = v[y]
    PROVE  SumFunctionOnSet(w, S \cup {x}) = SumFunctionOnSet(v, S) + w[x]
<1>1. IsFiniteSet(S \cup {x}) /\ (S \cup {x}) \ {x} = S
  BY FS_AddElement
<1>2. \A y \in S \cup {x} : w[y] \in Int
  OBVIOUS
<1>3. SumFunctionOnSet(w, S \cup {x}) = w[x] + SumFunctionOnSet(w, (S \cup {x}) \ {x})
  BY <1>1, <1>2, SumProperties
<1>4. SumFunctionOnSet(w, S) = SumFunctionOnSet(v, S)
  BY SumAgrees
<1>5. SumFunctionOnSet(v, S) \in Int
  BY SumProperties
<1>6. SumFunctionOnSet(w, S \cup {x}) = w[x] + SumFunctionOnSet(v, S)
  BY <1>1, <1>3, <1>4, Zenon
<1> QED BY <1>5, <1>6

LEMMA SumDrop ==
    ASSUME NEW S, IsFiniteSet(S), NEW v, NEW w, NEW x \in S,
           \A y \in S : v[y] \in Int, \A y \in S \ {x} : w[y] = v[y]
    PROVE  SumFunctionOnSet(w, S \ {x}) = SumFunctionOnSet(v, S) - v[x]
<1>1. IsFiniteSet(S \ {x})
  BY FS_RemoveElement
<1>2. SumFunctionOnSet(w, S \ {x}) = SumFunctionOnSet(v, S \ {x})
  BY <1>1, SumAgrees
<1>3. SumFunctionOnSet(v, S) = v[x] + SumFunctionOnSet(v, S \ {x})
  BY SumProperties
<1>4. SumFunctionOnSet(v, S \ {x}) \in Int
  BY <1>1, SumProperties
<1> QED BY <1>2, <1>3, <1>4

-----------------------------------------------------------------------------
(* The induction.                                                          *)

\* A payment belongs to a generated period and has a positive amount.
PaymentsOfPeriods ==
    \A p \in Payments : payments[p].origin # "absent" =>
        /\ payments[p].period \in Periods
        /\ Exists(payments[p].period)
        /\ payments[p].amount \in Amounts

\* A generated period has a positive amount.
PeriodsHaveAmounts ==
    \A rp \in Periods : Exists(rp) => rent_periods[rp].amount_due \in Amounts

\* The payment a month was loaded with is the only one the month ever has.
HistoryAlone ==
    \A p, q \in Payments :
        /\ payments[p].origin = "initial_load"
        /\ payments[q].origin # "absent"
        /\ payments[q].period = payments[p].period
        => q = p

LedgerInv ==
    /\ TypeOK
    /\ PaymentsOfPeriods
    /\ PeriodsHaveAmounts
    /\ LedgerBalanced
    /\ StatusFollowsCapital
    /\ HistoryStaysPaid
    /\ HistoryAlone
----------------------------------------------------------------------------
(* What a step does to the sum of one period's live payments.              *)

LEMMA LiveFinite == \A rp : IsFiniteSet(LivePayments(rp))
BY LedgerAssumption, FS_Subset DEF LivePayments

LEMMA AmountsAreNaturals ==
    ASSUME TypeOK PROVE \A p \in Payments : AmountOf[p] \in Nat
BY LedgerAssumption DEF TypeOK, PaymentRow, AmountOf

\* A step that neither adds, voids nor changes a payment of the period.
LEMMA ImputedSame ==
    ASSUME TypeOK, NEW rp,
           LivePayments(rp)' = LivePayments(rp),
           \A p \in LivePayments(rp) : payments'[p].amount = payments[p].amount
    PROVE  Imputed(rp)' = Imputed(rp)
<1>1. \A p \in LivePayments(rp) : AmountOf[p] \in Int /\ AmountOf'[p] = AmountOf[p]
  BY AmountsAreNaturals DEF AmountOf, LivePayments
<1>2. SumFunctionOnSet(AmountOf', LivePayments(rp)) = SumFunctionOnSet(AmountOf, LivePayments(rp))
  BY <1>1, LiveFinite, SumAgrees
<1> QED BY <1>2 DEF Imputed

\* A step that adds one payment to the period.
LEMMA ImputedAdd ==
    ASSUME TypeOK, NEW rp, NEW p \in Payments, p \notin LivePayments(rp),
           payments'[p].amount \in Int,
           LivePayments(rp)' = LivePayments(rp) \cup {p},
           \A q \in LivePayments(rp) : payments'[q].amount = payments[q].amount
    PROVE  Imputed(rp)' = Imputed(rp) + payments'[p].amount
<1>1. \A q \in LivePayments(rp) : AmountOf[q] \in Int /\ AmountOf'[q] = AmountOf[q]
  BY AmountsAreNaturals DEF AmountOf, LivePayments
<1>2. AmountOf'[p] = payments'[p].amount /\ AmountOf'[p] \in Int
  BY DEF AmountOf
<1>f. IsFiniteSet(LivePayments(rp))
  BY LiveFinite
<1>3. SumFunctionOnSet(AmountOf', LivePayments(rp) \cup {p})
        = SumFunctionOnSet(AmountOf, LivePayments(rp)) + AmountOf'[p]
  <2> DEFINE S == LivePayments(rp)
             v == AmountOf
             w == AmountOf'
  <2>1. IsFiniteSet(S) /\ p \notin S /\ w[p] \in Int
    BY <1>2, <1>f
  <2>2. \A q \in S : v[q] \in Int /\ w[q] = v[q]
    BY <1>1
  <2> HIDE DEF S, v, w
  <2>3. SumFunctionOnSet(w, S \cup {p}) = SumFunctionOnSet(v, S) + w[p]
    BY <2>1, <2>2, SumAdd
  <2> QED BY <2>3 DEF S, v, w
<1> QED BY <1>2, <1>3 DEF Imputed

\* A step that voids one payment of the period.
LEMMA ImputedDrop ==
    ASSUME TypeOK, NEW rp, NEW p \in LivePayments(rp),
           LivePayments(rp)' = LivePayments(rp) \ {p},
           \A q \in LivePayments(rp) : payments'[q].amount = payments[q].amount
    PROVE  /\ Imputed(rp)' = Imputed(rp) - payments[p].amount
           /\ payments[p].amount <= Imputed(rp)
<1>1. \A q \in LivePayments(rp) : AmountOf[q] \in Nat /\ AmountOf'[q] = AmountOf[q]
  BY AmountsAreNaturals DEF AmountOf, LivePayments
<1>2. AmountOf[p] = payments[p].amount
  BY DEF AmountOf, LivePayments
<1>f. IsFiniteSet(LivePayments(rp))
  BY LiveFinite
<1>3. SumFunctionOnSet(AmountOf', LivePayments(rp) \ {p})
        = SumFunctionOnSet(AmountOf, LivePayments(rp)) - AmountOf[p]
  <2> DEFINE S == LivePayments(rp)
             v == AmountOf
             w == AmountOf'
  <2>1. IsFiniteSet(S) /\ p \in S
    BY <1>f
  <2>2. (\A q \in S : v[q] \in Int) /\ (\A q \in S \ {p} : w[q] = v[q])
    BY <1>1
  <2> HIDE DEF S, v, w
  <2>3. SumFunctionOnSet(w, S \ {p}) = SumFunctionOnSet(v, S) - v[p]
    BY <2>1, <2>2, SumDrop
  <2> QED BY <2>3 DEF S, v, w
<1>4. AmountOf[p] <= SumFunctionOnSet(AmountOf, LivePayments(rp))
  BY <1>1, LiveFinite, SumOfNaturals
<1> QED BY <1>2, <1>3, <1>4 DEF Imputed

\* A step that leaves the payments table alone.
LEMMA ImputedUnchanged ==
    ASSUME UNCHANGED payments
    PROVE  \A rp : Imputed(rp)' = Imputed(rp) /\ LivePayments(rp)' = LivePayments(rp)
BY DEF Imputed, LivePayments, AmountOf

\* Nothing is imputed to a period that does not exist.
LEMMA NothingImputed ==
    ASSUME LedgerInv, NEW rp \in Periods, ~ Exists(rp)
    PROVE  Imputed(rp) = 0 /\ LivePayments(rp) = {}
<1>1. LivePayments(rp) = {}
  BY DEF LivePayments, LedgerInv, PaymentsOfPeriods
<1>2. SumFunctionOnSet(AmountOf, {}) = 0
  BY FS_EmptySet, SumProperties
<1> QED BY <1>1, <1>2 DEF Imputed
----------------------------------------------------------------------------
(* The steps.                                                              *)

LEMMA InitInv == Init => LedgerInv
<1> SUFFICES ASSUME Init PROVE LedgerInv
  OBVIOUS
<1>1. TypeOK
  BY LedgerAssumption DEF Init, TypeOK, RentPeriodRow, PaymentRow, NoPeriodRow,
     NoPaymentRow, RentPeriodStatus
<1>2. \A rp \in Periods : Imputed(rp) = 0
  <2> TAKE rp \in Periods
  <2>1. LivePayments(rp) = {}
    BY DEF Init, LivePayments, NoPaymentRow
  <2>2. SumFunctionOnSet(AmountOf, {}) = 0
    BY FS_EmptySet, SumProperties
  <2> QED BY <2>1, <2>2 DEF Imputed
<1>3. LedgerBalanced
  BY <1>2 DEF LedgerBalanced, Init, NoPeriodRow
<1>4. PaymentsOfPeriods /\ HistoryStaysPaid /\ HistoryAlone
  BY DEF Init, PaymentsOfPeriods, HistoryStaysPaid, HistoryAlone, NoPaymentRow
<1>5. PeriodsHaveAmounts /\ StatusFollowsCapital
  BY DEF Init, PeriodsHaveAmounts, StatusFollowsCapital, Exists, NoPeriodRow
<1> QED BY <1>1, <1>3, <1>4, <1>5 DEF LedgerInv

LEMMA GeneratePeriodInv ==
    ASSUME LedgerInv, NEW rp \in Periods, NEW amount \in Amounts,
           GeneratePeriod(rp, amount)
    PROVE  LedgerInv'
<1> USE DEF GeneratePeriod
<1>1. TypeOK'
  BY LedgerAssumption DEF LedgerInv, TypeOK, RentPeriodRow, RentPeriodStatus, Amounts
<1>2. \A o \in Periods : Imputed(o)' = Imputed(o)
  BY ImputedUnchanged
<1>3. Imputed(rp) = 0
  BY NothingImputed
<1>4. rent_periods' = [rent_periods EXCEPT ![rp] =
          [status |-> "pending", amount_due |-> amount, paid_total |-> 0]]
      /\ rent_periods \in [Periods -> RentPeriodRow] /\ amount \in Int /\ amount > 0
  BY LedgerAssumption DEF LedgerInv, TypeOK, Amounts
<1>5. LedgerBalanced'
  BY <1>2, <1>3, <1>4 DEF LedgerInv, LedgerBalanced
<1>6. StatusFollowsCapital'
  BY <1>2, <1>3, <1>4 DEF LedgerInv, StatusFollowsCapital, Exists
<1>7. PaymentsOfPeriods' /\ HistoryAlone'
  BY <1>4 DEF LedgerInv, PaymentsOfPeriods, HistoryAlone, Exists
<1>8. PeriodsHaveAmounts'
  BY <1>4 DEF LedgerInv, PeriodsHaveAmounts, Exists
<1>9. HistoryStaysPaid'
  BY <1>4 DEF LedgerInv, HistoryStaysPaid, PaymentsOfPeriods, Exists
<1> QED BY <1>1, <1>5, <1>6, <1>7, <1>8, <1>9 DEF LedgerInv

LEMMA LoadHistoryInv ==
    ASSUME LedgerInv, NEW rp \in Periods, NEW p \in Payments, NEW amount \in Amounts,
           LoadHistory(rp, p, amount)
    PROVE  LedgerInv'
<1> DEFINE row == [status |-> "paid", amount_due |-> amount, paid_total |-> amount]
           loaded == [origin |-> "initial_load", period |-> rp, amount |-> amount,
                      voided |-> FALSE, forgiven |-> FALSE]
<1>1. /\ ~ Exists(rp) /\ payments[p].origin = "absent"
      /\ rent_periods' = [rent_periods EXCEPT ![rp] = row]
      /\ payments' = [payments EXCEPT ![p] = loaded]
      /\ UNCHANGED <<contract_deleted, audit_log>>
  BY DEF LoadHistory
<1>2. /\ rent_periods \in [Periods -> RentPeriodRow]
      /\ payments \in [Payments -> PaymentRow]
      /\ amount \in Int /\ amount > 0
  BY LedgerAssumption DEF LedgerInv, TypeOK, Amounts
<1>3. TypeOK'
  BY <1>1, LedgerAssumption DEF LedgerInv, TypeOK, RentPeriodRow, RentPeriodStatus,
     PaymentRow, Amounts
<1>4. ASSUME NEW o \in Periods PROVE Imputed(o)' = IF o = rp THEN amount ELSE Imputed(o)
  <2>1. CASE o = rp
    <3>1. Imputed(rp) = 0 /\ LivePayments(rp) = {}
      BY <1>1, NothingImputed
    <3>2. LivePayments(rp)' = LivePayments(rp) \cup {p}
      BY <1>1, <1>2, <3>1 DEF LivePayments
    <3>3. payments'[p].amount = amount
      BY <1>1, <1>2
    <3> QED BY <1>2, <2>1, <3>1, <3>2, <3>3, ImputedAdd DEF LedgerInv
  <2>2. CASE o # rp
    <3>1. LivePayments(o)' = LivePayments(o)
      BY <1>1, <1>2, <2>2 DEF LivePayments
    <3>2. \A q \in LivePayments(o) : payments'[q].amount = payments[q].amount
      BY <1>1, <1>2 DEF LivePayments
    <3> QED BY <2>2, <3>1, <3>2, ImputedSame DEF LedgerInv
  <2> QED BY <2>1, <2>2
<1>5. LedgerBalanced'
  BY <1>1, <1>2, <1>4 DEF LedgerInv, LedgerBalanced
<1>6. StatusFollowsCapital'
  BY <1>1, <1>2, <1>4 DEF LedgerInv, StatusFollowsCapital, Exists
<1>7. PaymentsOfPeriods'
  BY <1>1, <1>2 DEF LedgerInv, PaymentsOfPeriods, Exists
<1>8. PeriodsHaveAmounts'
  BY <1>1, <1>2 DEF LedgerInv, PeriodsHaveAmounts, Exists
<1>9. HistoryStaysPaid'
  BY <1>1, <1>2 DEF LedgerInv, HistoryStaysPaid, PaymentsOfPeriods, Exists
<1>10. HistoryAlone'
  BY <1>1, <1>2 DEF LedgerInv, HistoryAlone, PaymentsOfPeriods
<1> QED BY <1>3, <1>5, <1>6, <1>7, <1>8, <1>9, <1>10 DEF LedgerInv

LEMMA RegisterPaymentInv ==
    ASSUME LedgerInv, NEW rp \in Periods, NEW p \in Payments, NEW amount \in Amounts,
           RegisterPayment(rp, p, amount)
    PROVE  LedgerInv'
<1> DEFINE due == rent_periods[rp].amount_due
           paid == rent_periods[rp].paid_total + amount
<1>1. PICK forgiven \in BOOLEAN :
        /\ Exists(rp) /\ payments[p].origin = "absent"
        /\ rent_periods[rp].status # "paid"
        /\ amount <= due - rent_periods[rp].paid_total
        /\ rent_periods' = [rent_periods EXCEPT
             ![rp].paid_total = paid, ![rp].status = StatusAfterPayment(paid, due)]
        /\ payments' = [payments EXCEPT ![p] =
             [origin |-> "manual", period |-> rp, amount |-> amount,
              voided |-> FALSE, forgiven |-> forgiven]]
        /\ audit_log' \subseteq audit_log \cup {Logged("interest.forgiven", p)}
        /\ UNCHANGED contract_deleted
  BY DEF RegisterPayment, AcceptsPayment, MayForgive
<1>2. /\ rent_periods \in [Periods -> RentPeriodRow]
      /\ payments \in [Payments -> PaymentRow]
      /\ rent_periods[rp].paid_total \in Int /\ due \in Int
      /\ amount \in Int /\ amount > 0
  BY LedgerAssumption DEF LedgerInv, TypeOK, Amounts, RentPeriodRow
<1>3. /\ StatusAfterPayment(paid, due) = IF paid = due THEN "paid" ELSE "partial"
      /\ StatusAfterPayment(paid, due) \in RentPeriodStatus
      /\ paid \in Int
  BY <1>1, <1>2 DEF StatusAfterPayment, RentPeriodStatus
<1>4. /\ rent_periods'[rp].paid_total = paid /\ rent_periods'[rp].amount_due = due
      /\ rent_periods'[rp].status = StatusAfterPayment(paid, due)
      /\ \A o \in Periods \ {rp} : rent_periods'[o] = rent_periods[o]
  BY <1>1, <1>2 DEF RentPeriodRow
<1>5. TypeOK'
  <2>1. rent_periods' \in [Periods -> RentPeriodRow]
    <3> HIDE DEF paid, due
    <3> QED BY <1>1, <1>2, <1>3 DEF RentPeriodRow
  <2>2. payments' \in [Payments -> PaymentRow]
    BY <1>1, <1>2, LedgerAssumption DEF PaymentRow, Amounts
  <2>3. audit_log' \subseteq AuditEntry
    BY <1>1 DEF LedgerInv, TypeOK, AuditEntry, AuditActions, Logged
  <2> QED BY <1>1, <2>1, <2>2, <2>3 DEF LedgerInv, TypeOK
<1>6. ASSUME NEW o \in Periods
      PROVE  Imputed(o)' = IF o = rp THEN Imputed(rp) + amount ELSE Imputed(o)
  <2>1. CASE o = rp
    <3>1. p \notin LivePayments(rp)
      BY <1>1 DEF LivePayments
    <3>2. LivePayments(rp)' = LivePayments(rp) \cup {p}
      BY <1>1, <1>2 DEF LivePayments
    <3>3. payments'[p].amount = amount
      BY <1>1, <1>2
    <3>4. \A q \in LivePayments(rp) : payments'[q].amount = payments[q].amount
      BY <1>1, <1>2, <3>1 DEF LivePayments
    <3> QED BY <1>2, <2>1, <3>1, <3>2, <3>3, <3>4, ImputedAdd DEF LedgerInv
  <2>2. CASE o # rp
    <3>1. LivePayments(o)' = LivePayments(o)
      BY <1>1, <1>2, <2>2 DEF LivePayments
    <3>2. \A q \in LivePayments(o) : payments'[q].amount = payments[q].amount
      BY <1>1, <1>2 DEF LivePayments
    <3> QED BY <2>2, <3>1, <3>2, ImputedSame DEF LedgerInv
  <2> QED BY <2>1, <2>2
<1>7. LedgerBalanced'
  BY <1>1, <1>2, <1>4, <1>6 DEF LedgerInv, LedgerBalanced
<1>8. StatusFollowsCapital'
  <2>1. Imputed(rp)' = paid /\ paid > 0
    BY <1>2, <1>6 DEF LedgerInv, LedgerBalanced
  <2>2. ASSUME NEW o \in Periods \ {rp}, Exists(o)'
        PROVE  rent_periods'[o].status =
                 IF Imputed(o)' = rent_periods'[o].amount_due THEN "paid"
                 ELSE IF Imputed(o)' = 0 THEN "pending" ELSE "partial"
    BY <1>4, <1>6, <2>2 DEF LedgerInv, StatusFollowsCapital, Exists
  <2> QED BY <1>3, <1>4, <2>1, <2>2 DEF StatusFollowsCapital
<1>9. PaymentsOfPeriods' /\ PeriodsHaveAmounts'
  BY <1>1, <1>2, <1>3, <1>4 DEF LedgerInv, PaymentsOfPeriods, PeriodsHaveAmounts, Exists
<1>10. \A q \in Payments : payments[q].origin = "initial_load" => payments[q].period # rp
  BY <1>1 DEF LedgerInv, HistoryStaysPaid
<1>11. HistoryStaysPaid'
  <2>1. ASSUME NEW q \in Payments, payments'[q].origin = "initial_load"
        PROVE  /\ payments'[q] = payments[q] /\ payments[q].period \in Periods \ {rp}
    BY <1>1, <1>2, <1>10, <2>1 DEF LedgerInv, PaymentsOfPeriods
  <2> QED BY <1>4, <2>1 DEF LedgerInv, HistoryStaysPaid
<1>12. HistoryAlone'
  BY <1>1, <1>2, <1>10 DEF LedgerInv, HistoryAlone
<1> QED BY <1>5, <1>7, <1>8, <1>9, <1>11, <1>12 DEF LedgerInv

LEMMA VoidPaymentInv ==
    ASSUME LedgerInv, NEW p \in Payments, VoidPayment(p)
    PROVE  LedgerInv'
<1> PICK rp \in Periods, amount \in Amounts :
        payments[p].period = rp /\ payments[p].amount = amount
  BY DEF VoidPayment, AcceptsVoid, LedgerInv, PaymentsOfPeriods
<1> DEFINE paid == PaidAfterVoid(rent_periods[rp].paid_total, amount)
<1>1. /\ payments[p].origin = "manual" /\ ~ payments[p].voided
      /\ rent_periods' = [rent_periods EXCEPT
           ![rp].paid_total = paid, ![rp].status = StatusAfterVoid(paid)]
      /\ payments' = [payments EXCEPT ![p].voided = TRUE]
      /\ audit_log' = audit_log \cup {Logged("payment.voided", p)}
      /\ UNCHANGED contract_deleted
  BY DEF VoidPayment, AcceptsVoid
<1>2. /\ rent_periods \in [Periods -> RentPeriodRow]
      /\ payments \in [Payments -> PaymentRow]
      /\ Exists(rp) /\ amount \in Int /\ amount > 0
      /\ rent_periods[rp].paid_total \in Int /\ rent_periods[rp].amount_due \in Int
  BY <1>1, LedgerAssumption DEF LedgerInv, TypeOK, PaymentsOfPeriods, Amounts, RentPeriodRow
<1>3. ASSUME NEW o \in Periods
      PROVE  /\ Imputed(o)' = IF o = rp THEN Imputed(rp) - amount ELSE Imputed(o)
             /\ o = rp => amount <= Imputed(rp)
  <2>1. \A q \in Payments : payments'[q].amount = payments[q].amount
    BY <1>1, <1>2 DEF PaymentRow
  <2>2. CASE o = rp
    <3>1. p \in LivePayments(rp)
      BY <1>1 DEF LivePayments
    <3>2. LivePayments(rp)' = LivePayments(rp) \ {p}
      BY <1>1, <1>2 DEF LivePayments, PaymentRow
    <3>3. \A q \in LivePayments(rp) : payments'[q].amount = payments[q].amount
      BY <2>1 DEF LivePayments
    <3>4. Imputed(rp)' = Imputed(rp) - amount /\ amount <= Imputed(rp)
      BY <3>1, <3>2, <3>3, ImputedDrop DEF LedgerInv
    <3> QED BY <2>2, <3>4
  <2>3. CASE o # rp
    <3>1. LivePayments(o)' = LivePayments(o)
      BY <1>1, <1>2, <2>3 DEF LivePayments, PaymentRow
    <3>2. \A q \in LivePayments(o) : payments'[q].amount = payments[q].amount
      BY <2>1 DEF LivePayments
    <3> QED BY <2>3, <3>1, <3>2, ImputedSame DEF LedgerInv
  <2> QED BY <2>2, <2>3
<1>4. /\ paid = Imputed(rp) - amount /\ paid >= 0 /\ paid < rent_periods[rp].amount_due
      /\ Imputed(rp) \in Int /\ paid \in Int
  <2>1. rent_periods[rp].paid_total = Imputed(rp) /\ Imputed(rp) \in 0..rent_periods[rp].amount_due
    BY <1>2 DEF LedgerInv, LedgerBalanced
  <2> QED BY <1>2, <1>3, <2>1 DEF PaidAfterVoid
<1>5. /\ rent_periods'[rp].paid_total = paid
      /\ rent_periods'[rp].amount_due = rent_periods[rp].amount_due
      /\ rent_periods'[rp].status = StatusAfterVoid(paid)
      /\ \A o \in Periods \ {rp} : rent_periods'[o] = rent_periods[o]
  BY <1>1, <1>2 DEF RentPeriodRow
<1>6. /\ StatusAfterVoid(paid) = IF paid = 0 THEN "pending" ELSE "partial"
      /\ StatusAfterVoid(paid) \in RentPeriodStatus
  BY <1>2, <1>4 DEF StatusAfterVoid, RentPeriodStatus
<1>7. TypeOK'
  <2>1. rent_periods' \in [Periods -> RentPeriodRow]
    <3> DEFINE status == StatusAfterVoid(paid)
    <3>1. paid \in Int /\ status \in RentPeriodStatus
      BY <1>4, <1>6
    <3>2. rent_periods' = [rent_periods EXCEPT ![rp].paid_total = paid, ![rp].status = status]
      BY <1>1
    <3> HIDE DEF paid, status
    <3> QED BY <1>2, <3>1, <3>2 DEF RentPeriodRow
  <2>2. payments' \in [Payments -> PaymentRow]
    BY <1>1, <1>2 DEF PaymentRow
  <2>3. audit_log' \subseteq AuditEntry
    BY <1>1 DEF LedgerInv, TypeOK, AuditEntry, AuditActions, Logged
  <2> QED BY <1>1, <2>1, <2>2, <2>3 DEF LedgerInv, TypeOK
<1>8. LedgerBalanced'
  BY <1>2, <1>3, <1>4, <1>5 DEF LedgerInv, LedgerBalanced
<1>9. StatusFollowsCapital'
  <2>1. Imputed(rp)' = paid
    BY <1>2, <1>3, <1>4
  <2>2. ASSUME NEW o \in Periods \ {rp}, Exists(o)'
        PROVE  rent_periods'[o].status =
                 IF Imputed(o)' = rent_periods'[o].amount_due THEN "paid"
                 ELSE IF Imputed(o)' = 0 THEN "pending" ELSE "partial"
    BY <1>3, <1>5, <2>2 DEF LedgerInv, StatusFollowsCapital, Exists
  <2> HIDE DEF paid
  <2>3. rent_periods'[rp].status =
          IF Imputed(rp)' = rent_periods'[rp].amount_due THEN "paid"
          ELSE IF Imputed(rp)' = 0 THEN "pending" ELSE "partial"
    BY <1>2, <1>4, <1>5, <1>6, <2>1
  <2> QED BY <2>2, <2>3 DEF StatusFollowsCapital
<1>10. /\ \A q \in Payments : /\ payments'[q].origin = payments[q].origin
                             /\ payments'[q].period = payments[q].period
                             /\ payments'[q].amount = payments[q].amount
       /\ \A q \in Payments \ {p} : payments'[q] = payments[q]
  BY <1>1, <1>2 DEF PaymentRow
<1>11. PaymentsOfPeriods' /\ PeriodsHaveAmounts'
  BY <1>2, <1>5, <1>6, <1>10 DEF LedgerInv, PaymentsOfPeriods, PeriodsHaveAmounts, Exists
<1>12. HistoryAlone'
  BY <1>10 DEF LedgerInv, HistoryAlone
<1>13. HistoryStaysPaid'
  <2>1. ASSUME NEW q \in Payments, payments'[q].origin = "initial_load"
        PROVE  /\ payments'[q] = payments[q] /\ payments[q].period \in Periods \ {rp}
    BY <1>1, <1>10, <2>1 DEF LedgerInv, HistoryAlone, PaymentsOfPeriods
  <2> QED BY <1>5, <2>1 DEF LedgerInv, HistoryStaysPaid
<1> QED BY <1>7, <1>8, <1>9, <1>11, <1>12, <1>13 DEF LedgerInv

\* Deletions and certificates, which touch neither table, and stuttering.
LEMMA OtherStepsInv ==
    ASSUME LedgerInv, UNCHANGED <<rent_periods, payments>>,
           contract_deleted' \in [Contracts -> BOOLEAN], audit_log' \subseteq AuditEntry
    PROVE  LedgerInv'
<1>1. TypeOK'
  BY DEF LedgerInv, TypeOK
<1>2. \A o \in Periods : Imputed(o)' = Imputed(o)
  BY ImputedUnchanged
<1>3. LedgerBalanced' /\ StatusFollowsCapital'
  BY <1>2 DEF LedgerInv, LedgerBalanced, StatusFollowsCapital, Exists
<1>4. PaymentsOfPeriods' /\ PeriodsHaveAmounts' /\ HistoryStaysPaid' /\ HistoryAlone'
  BY DEF LedgerInv, PaymentsOfPeriods, PeriodsHaveAmounts, HistoryStaysPaid,
     HistoryAlone, Exists
<1> QED BY <1>1, <1>3, <1>4 DEF LedgerInv

LEMMA StepInv == LedgerInv /\ [Next]_vars => LedgerInv'
<1> SUFFICES ASSUME LedgerInv, [Next]_vars PROVE LedgerInv'
  OBVIOUS
<1>1. ASSUME NEW rp \in Periods, NEW amount \in Amounts, GeneratePeriod(rp, amount)
      PROVE  LedgerInv'
  BY <1>1, GeneratePeriodInv
<1>2. ASSUME NEW rp \in Periods, NEW p \in Payments, NEW amount \in Amounts,
             LoadHistory(rp, p, amount)
      PROVE  LedgerInv'
  BY <1>2, LoadHistoryInv
<1>3. ASSUME NEW rp \in Periods, NEW p \in Payments, NEW amount \in Amounts,
             RegisterPayment(rp, p, amount)
      PROVE  LedgerInv'
  BY <1>3, RegisterPaymentInv
<1>4. ASSUME NEW p \in Payments, VoidPayment(p) PROVE LedgerInv'
  BY <1>4, VoidPaymentInv
<1>5. ASSUME NEW c \in Contracts, DeleteContract(c) PROVE LedgerInv'
  BY <1>5, OtherStepsInv
     DEF DeleteContract, LedgerInv, TypeOK, AuditEntry, AuditActions, Logged
<1>6. ASSUME NEW c \in Contracts, IssueDebtCertificate(c) PROVE LedgerInv'
  BY <1>6, OtherStepsInv
     DEF IssueDebtCertificate, LedgerInv, TypeOK, AuditEntry, AuditActions, Logged
<1>7. CASE UNCHANGED vars
  BY <1>7, OtherStepsInv DEF vars, LedgerInv, TypeOK
<1> QED BY <1>1, <1>2, <1>3, <1>4, <1>5, <1>6, <1>7 DEF Next
----------------------------------------------------------------------------
(* The theorems.                                                           *)

\* LedgerInv holds in every reachable state.
THEOREM Invariance == Spec => []LedgerInv
<1>1. Init => LedgerInv
  BY InitInv
<1>2. LedgerInv /\ [Next]_vars => LedgerInv'
  BY StepInv
<1> QED BY <1>1, <1>2, PTL DEF Spec

\* Every row always has the columns and values its table allows.
THEOREM TypeCorrect == Spec => []TypeOK
<1>1. LedgerInv => TypeOK
  BY DEF LedgerInv
<1> QED BY <1>1, Invariance, PTL

\* paid_total is what the live payments of the period add up to, and at most
\* its amount, however many payments were registered and voided: RN-P05.
THEOREM Balanced == Spec => []LedgerBalanced
<1>1. LedgerInv => LedgerBalanced
  BY DEF LedgerInv
<1> QED BY <1>1, Invariance, PTL

\* The status column, which the debt and panel queries trust, is always the
\* one the live payments call for.
THEOREM StatusCorrect == Spec => []StatusFollowsCapital
<1>1. LedgerInv => StatusFollowsCapital
  BY DEF LedgerInv
<1> QED BY <1>1, Invariance, PTL

\* A loaded month stays paid and its payment is never voided: RN-P09.
THEOREM HistoryIsFinal == Spec => []HistoryStaysPaid
<1>1. LedgerInv => HistoryStaysPaid
  BY DEF LedgerInv
<1> QED BY <1>1, Invariance, PTL

\* The debt a contract shows is the capital its live payments leave uncovered,
\* so what a debt certificate says of it is true of the payments.
THEOREM CertificateTruthful == Spec => []DebtIsUnpaidCapital
<1>1. LedgerInv => DebtIsUnpaidCapital
  <2> SUFFICES ASSUME LedgerInv, NEW c \in Contracts, ~ contract_deleted[c],
                      NEW rp \in PeriodsOf(c)
               PROVE  rent_periods[rp].status \in UnpaidStatuses
                        <=> Imputed(rp) < rent_periods[rp].amount_due
    BY DEF DebtIsUnpaidCapital, ContractDebt
  <2>1. rp \in Periods /\ Exists(rp)
    BY DEF PeriodsOf
  <2>2. rent_periods[rp].amount_due \in 0..MaxAmount
    BY <2>1 DEF LedgerInv, TypeOK, RentPeriodRow
  <2>3. Imputed(rp) \in 0..rent_periods[rp].amount_due
    BY <2>1 DEF LedgerInv, LedgerBalanced
  <2>4. Imputed(rp) = rent_periods[rp].amount_due
          <=> ~ Imputed(rp) < rent_periods[rp].amount_due
    BY <2>2, <2>3
  <2> QED BY <2>1, <2>4 DEF LedgerInv, StatusFollowsCapital, UnpaidStatuses
<1> QED BY <1>1, Invariance, PTL

\* A registered payment never changes but for being voided, once: RN-06.
THEOREM Immutability == Spec => PaymentsImmutable
<1> DEFINE Kept ==
      \A p \in Payments : payments[p].origin # "absent" =>
         \/ payments'[p] = payments[p]
         \/ /\ ~ payments[p].voided
            /\ payments'[p] = [payments[p] EXCEPT !.voided = TRUE]
<1>1. ASSUME TypeOK, Next PROVE Kept
  <2>1. payments \in [Payments -> PaymentRow]
    BY <1>1 DEF TypeOK
  <2>2. ASSUME NEW rp \in Periods, NEW q \in Payments, NEW amount \in Amounts,
               LoadHistory(rp, q, amount) \/ RegisterPayment(rp, q, amount)
        PROVE  Kept
    BY <2>1, <2>2 DEF LoadHistory, RegisterPayment
  <2>3. ASSUME NEW q \in Payments, VoidPayment(q) PROVE Kept
    BY <2>1, <2>3 DEF VoidPayment, AcceptsVoid
  <2>4. ASSUME UNCHANGED payments PROVE Kept
    BY <2>4
  <2> QED BY <1>1, <2>2, <2>3, <2>4
      DEF Next, GeneratePeriod, DeleteContract, IssueDebtCertificate
<1>2. TypeOK /\ [Next]_vars => [Kept]_vars
  BY <1>1
<1> QED BY <1>2, TypeCorrect, PTL DEF Spec, PaymentsImmutable
============================================================================
