---------------------------- MODULE MoneyProofs ----------------------------
(***************************************************************************)
(* What the split promises for every amount and every pair of percentages: *)
(* the rounding, the bills the worker takes, the balance of each day, and  *)
(* that its statistics are the sums of its ledger.                         *)
(***************************************************************************)
EXTENDS Money, FiniteSetTheorems, WellFoundedInduction, TLAPS

(***************************************************************************)
(* Rounding                                                                *)
(***************************************************************************)

\* Division with remainder, as the prover knows it.
LEMMA Division ==
    ASSUME NEW x \in Nat, NEW d \in Nat \ {0}
    PROVE  /\ x \div d \in Nat
           /\ x % d \in 0..(d - 1)
           /\ x = d * (x \div d) + (x % d)
BY SMT

LEMMA ProductIsNat == ASSUME NEW m \in Nat, NEW n \in Nat PROVE m * n \in Nat
BY SMT

\* quantize(ROUND_HALF_UP) gives the nearest cent, a half upwards.
LEMMA RoundsToNearest ==
    ASSUME NEW amount \in Nat, NEW num \in Nat
    PROVE  /\ RoundHalfUp(amount, num) \in Nat
           /\ NearestCent(RoundHalfUp(amount, num), amount, num)
<1> DEFINE x == amount * num
           q == x \div Den
           rest == x % Den
<1>1. Den \in Nat \ {0}
  BY MoneyAssumption
<1>2. x \in Nat
  BY ProductIsNat
<1>3. q \in Nat /\ rest \in 0..(Den - 1) /\ x = Den * q + rest
  BY <1>1, <1>2, Division
<1>4. RoundHalfUp(amount, num) = IF 2 * rest >= Den THEN q + 1 ELSE q
  BY DEF RoundHalfUp
<1>5. 2 * amount * num = 2 * x
  BY SMT
<1> HIDE DEF x, q, rest
<1>6. Den * (q + 1) = Den * q + Den /\ Den * q \in Nat
  BY <1>1, <1>3, SMT
<1>7. ASSUME NEW r \in {q, q + 1}
      PROVE  2 * Den * r = 2 * (Den * r)
  BY <1>1, <1>3, SMT
<1>8. CASE 2 * rest >= Den
  <2>1. RoundHalfUp(amount, num) = q + 1
    BY <1>4, <1>8
  <2>2. 2 * x - Den < 2 * (Den * (q + 1)) /\ 2 * (Den * (q + 1)) <= 2 * x + Den
    <3> DEFINE y == Den * q
    <3>1. y \in Nat /\ x = y + rest /\ Den * (q + 1) = y + Den
      BY <1>3, <1>6
    <3> HIDE DEF y
    <3> QED
      BY <3>1, <1>1, <1>3, <1>8
  <2> QED
    BY <2>1, <2>2, <1>3, <1>5, <1>7 DEF NearestCent
<1>9. CASE ~(2 * rest >= Den)
  <2>1. RoundHalfUp(amount, num) = q
    BY <1>4, <1>9
  <2>2. 2 * x - Den < 2 * (Den * q) /\ 2 * (Den * q) <= 2 * x + Den
    <3> DEFINE y == Den * q
    <3>1. y \in Nat /\ x = y + rest
      BY <1>3, <1>6
    <3> HIDE DEF y
    <3> QED
      BY <3>1, <1>1, <1>3, <1>9
  <2> QED
    BY <2>1, <2>2, <1>3, <1>5, <1>7 DEF NearestCent
<1> QED
  BY <1>8, <1>9

\* A share of at most the whole never rounds to more than the whole.
LEMMA FeeWithinAmount ==
    ASSUME NEW amount \in Nat
    PROVE  RoundHalfUp(amount, FeeNum) <= amount
<1> DEFINE r == RoundHalfUp(amount, FeeNum)
<1>1. Den \in Nat \ {0} /\ FeeNum \in Nat /\ FeeNum <= Den
  BY MoneyAssumption
<1>2. r \in Nat /\ 2 * Den * r <= 2 * amount * FeeNum + Den
  BY <1>1, RoundsToNearest DEF NearestCent
<1> HIDE DEF r
<1>3. SUFFICES ASSUME r >= amount + 1 PROVE FALSE
  BY <1>2 DEF r
<1>4. 2 * amount * FeeNum <= 2 * amount * Den
  BY <1>1, SMT
<1>5. 2 * Den * r >= 2 * Den * (amount + 1)
  BY <1>1, <1>2, <1>3, SMT
<1>6. 2 * Den * (amount + 1) = 2 * amount * Den + 2 * Den
  BY <1>1, SMT
<1> QED
  <2> DEFINE left == 2 * Den * r
             whole == 2 * amount * Den
             share == 2 * amount * FeeNum
  <2>1. left \in Int /\ whole \in Int /\ share \in Int
    BY <1>1, <1>2, SMT
  <2>2. left <= share + Den /\ share <= whole /\ left >= whole + 2 * Den
    BY <1>2, <1>4, <1>5, <1>6
  <2> HIDE DEF left, whole, share
  <2> QED
    BY <2>1, <2>2, <1>1

\* The bill of an amount, as the API computes it.
LEMMA BillIsAcceptable ==
    ASSUME NEW amount \in Nat
    PROVE  /\ ComputeBill(amount) \in Bill
           /\ Acceptable(ComputeBill(amount), amount)
           /\ ComputeBill(amount).amount = amount
           /\ NearestCent(ComputeBill(amount).fee, amount, FeeNum)
           /\ NearestCent(ComputeBill(amount).tax, amount, TaxNum)
<1> DEFINE fee == RoundHalfUp(amount, FeeNum)
           tax == RoundHalfUp(amount, TaxNum)
<1>1. FeeNum \in Nat /\ TaxNum \in Nat
  BY MoneyAssumption
<1>2. fee \in Nat /\ NearestCent(fee, amount, FeeNum) /\ fee <= amount
  BY <1>1, RoundsToNearest, FeeWithinAmount
<1>3. tax \in Nat /\ NearestCent(tax, amount, TaxNum)
  BY <1>1, RoundsToNearest
<1>4. ComputeBill(amount) = [amount |-> amount, net |-> amount - fee, fee |-> fee,
                             tax |-> tax, total |-> amount + tax]
  BY DEF ComputeBill
<1> HIDE DEF fee, tax
<1> QED
  BY <1>2, <1>3, <1>4 DEF Bill, Acceptable

(***************************************************************************)
(* The inductive invariant.                                                *)
(***************************************************************************)

\* Every committed charge carries the bill of its amount.
BillsComputed ==
    \A p \in Charged :
        /\ charged[p].bill.amount \in Nat
        /\ charged[p].bill = ComputeBill(charged[p].bill.amount)

Inv == TypeOK /\ BillsComputed /\ DaysBalance

\* A charge with its bill is well formed.
LEMMA ChargeIsTyped ==
    ASSUME NEW p \in Payments, TypeOK, BillsComputed, charged[p] # None
    PROVE  /\ charged[p] \in Charge
           /\ charged[p].bill \in Bill
           /\ charged[p].bill.net + charged[p].bill.fee + charged[p].bill.tax
                  = charged[p].bill.total
           /\ charged[p].bill.net \in Nat
<1>1. charged[p] \in Charge
  BY DEF TypeOK
<1>2. charged[p].bill = ComputeBill(charged[p].bill.amount) /\ charged[p].bill.amount \in Nat
  BY DEF BillsComputed, Charged
<1>3. Acceptable(charged[p].bill, charged[p].bill.amount) /\ charged[p].bill \in Bill
  BY <1>2, BillIsAcceptable
<1> QED
  BY <1>1, <1>3 DEF Acceptable, Bill

LEMMA PayKeeps ==
    ASSUME Inv, NEW p \in Payments, NEW kind \in {"subscription", "gift"},
           NEW day \in Days, NEW amount \in Amounts, Pay(p, kind, day, amount)
    PROVE  Inv'
<1> DEFINE c == [kind |-> kind, day |-> day, bill |-> ComputeBill(amount)]
<1>1. amount \in Nat
  BY MoneyAssumption
<1>2. c \in Charge /\ c.bill = ComputeBill(c.bill.amount) /\ c.bill.amount \in Nat
  BY <1>1, BillIsAcceptable DEF Charge
<1>3. charged' = [charged EXCEPT ![p] = c] /\ UNCHANGED <<ledger, givenUp, stats>>
  BY DEF Pay
<1> HIDE DEF c
<1>4. charged \in [Payments -> Charge \union {None}]
  BY DEF Inv, TypeOK
<1>5. \A q \in Payments : charged'[q] = IF q = p THEN c ELSE charged[q]
  BY <1>3, <1>4
<1>6. TypeOK'
  BY <1>2, <1>3, <1>4 DEF Inv, TypeOK
<1>7. BillsComputed'
  <2> SUFFICES ASSUME NEW q \in Payments, charged'[q] # None
               PROVE  /\ charged'[q].bill.amount \in Nat
                      /\ charged'[q].bill = ComputeBill(charged'[q].bill.amount)
    BY DEF BillsComputed, Charged, ComputeBill, RoundHalfUp
  <2>1. CASE q = p
    BY <2>1, <1>2, <1>5
  <2>2. CASE q # p
    <3>1. charged'[q] = charged[q] /\ q \in Charged
      BY <2>2, <1>5 DEF Charged
    <3> QED
      BY <3>1 DEF Inv, BillsComputed
  <2> QED
    BY <2>1, <2>2
<1>8. DaysBalance'
  BY <1>3 DEF Inv, DaysBalance
<1> QED
  BY <1>6, <1>7, <1>8 DEF Inv

\* The row of a day after an increment: its columns, and their balance.
LEMMA IncrementBalances ==
    ASSUME NEW t \in Totals, NEW c \in Charge,
           t.gross = t.net + t.fees + t.tax,
           c.bill.net + c.bill.fee + c.bill.tax = c.bill.total
    PROVE  LET u == Incremented(t, c) IN
           u \in Totals /\ u.gross = u.net + u.fees + u.tax
<1> DEFINE u == Incremented(t, c)
<1>1. /\ t.subscribers \in Nat /\ t.gifts \in Nat /\ t.gross \in Nat
      /\ t.net \in Int /\ t.fees \in Nat /\ t.tax \in Nat
  BY DEF Totals
<1>2. /\ c.bill.total \in Nat /\ c.bill.net \in Int
      /\ c.bill.fee \in Nat /\ c.bill.tax \in Nat
  BY DEF Charge, Bill
<1>3. Counts(c, "subscription") \in Nat /\ Counts(c, "gift") \in Nat
  BY DEF Counts
<1>4. u \in Totals
  BY <1>1, <1>2, <1>3 DEF Incremented, Totals
<1>5. u.gross = u.net + u.fees + u.tax
  BY <1>1, <1>2 DEF Incremented
<1> QED
  BY <1>4, <1>5 DEF u

LEMMA RecordKeeps ==
    ASSUME Inv, NEW p \in Payments, Record(p)
    PROVE  Inv'
<1>1. PICK c \in Charge : c = charged[p]
  BY DEF Inv, TypeOK, Record
<1>2. /\ ledger' = ledger \union {p}
      /\ stats' = [stats EXCEPT ![c.day] = Incremented(@, c)]
      /\ UNCHANGED <<charged, givenUp>>
  BY <1>1 DEF Record
<1>3. c.day \in Days /\ stats[c.day] \in Totals
  BY DEF Inv, TypeOK, Charge
<1>4. c.bill.net + c.bill.fee + c.bill.tax = c.bill.total
  BY <1>1, ChargeIsTyped DEF Inv, Record
<1>5. stats[c.day].gross = stats[c.day].net + stats[c.day].fees + stats[c.day].tax
  BY <1>3 DEF Inv, DaysBalance
<1>6. PICK u \in Totals : /\ u = Incremented(stats[c.day], c)
                          /\ u.gross = u.net + u.fees + u.tax
  BY <1>3, <1>4, <1>5, IncrementBalances
<1>7. stats' = [stats EXCEPT ![c.day] = u]
  BY <1>2, <1>6
<1>8. stats \in [Days -> Totals]
  BY DEF Inv, TypeOK
<1>9. TypeOK'
  BY <1>2, <1>7, <1>8 DEF Inv, TypeOK
<1>10. BillsComputed'
  BY <1>2 DEF Inv, BillsComputed, Charged, ComputeBill, RoundHalfUp
<1>11. DaysBalance'
  BY <1>3, <1>6, <1>7, <1>8 DEF Inv, DaysBalance
<1> QED
  BY <1>9, <1>10, <1>11 DEF Inv

LEMMA InvHolds == Spec => []Inv
<1>1. Init => Inv
  BY DEF Init, Inv, TypeOK, BillsComputed, Charged, DaysBalance, Totals, NoTotals, None
<1>2. Inv /\ [Next]_vars => Inv'
  <2> SUFFICES ASSUME Inv, [Next]_vars PROVE Inv'
    OBVIOUS
  <2>1. ASSUME NEW p \in Payments, NEW kind \in {"subscription", "gift"},
               NEW day \in Days, NEW amount \in Amounts, Pay(p, kind, day, amount)
        PROVE  Inv'
    BY <2>1, PayKeeps
  <2>2. ASSUME NEW p \in Payments, Record(p) PROVE Inv'
    BY <2>2, RecordKeeps
  <2>3. ASSUME NEW p \in Payments, GiveUp(p) PROVE Inv'
    BY <2>3 DEF GiveUp, Inv, TypeOK, BillsComputed, Charged, DaysBalance,
                ComputeBill, RoundHalfUp
  <2>4. CASE UNCHANGED vars
    BY <2>4 DEF vars, Inv, TypeOK, BillsComputed, Charged, DaysBalance,
                ComputeBill, RoundHalfUp
  <2> QED
    BY <2>1, <2>2, <2>3, <2>4 DEF Next
<1> QED
  BY <1>1, <1>2, PTL DEF Spec

\* The type invariant: amounts, fees and totals are never negative
\* (money.compute_bill, WorkerProcessor._increment_stats).
THEOREM TypeCorrect == Spec => []TypeOK
<1>1. Inv => TypeOK
  BY DEF Inv
<1> QED
  BY <1>1, InvHolds, PTL

\* Fee and tax of every charged bill are the nearest cent, a half upwards, for
\* every amount and every pair of percentages (money._round_half_up).
THEOREM RoundingIsHalfUp == Spec => []BillsRoundHalfUp
<1>1. Inv => BillsRoundHalfUp
  <2> SUFFICES ASSUME Inv, NEW p \in Charged
               PROVE  /\ NearestCent(charged[p].bill.fee, charged[p].bill.amount, FeeNum)
                      /\ NearestCent(charged[p].bill.tax, charged[p].bill.amount, TaxNum)
    BY DEF BillsRoundHalfUp
  <2>1. charged[p].bill = ComputeBill(charged[p].bill.amount) /\ charged[p].bill.amount \in Nat
    BY DEF Inv, BillsComputed
  <2> QED
    BY <2>1, BillIsAcceptable
<1> QED
  BY <1>1, InvHolds, PTL

\* Every bill the API computes passes the worker's checks: whatever the
\* percentages, as long as the fee is not more than the whole
\* (money.compute_bill, processor._Bill.from_payload).
THEOREM BillsAreAcceptable == Spec => []BillsAcceptable
<1>1. Inv => BillsAcceptable
  <2> SUFFICES ASSUME Inv, NEW p \in Charged
               PROVE  Acceptable(charged[p].bill, charged[p].bill.amount)
    BY DEF BillsAcceptable
  <2>1. charged[p].bill = ComputeBill(charged[p].bill.amount) /\ charged[p].bill.amount \in Nat
    BY DEF Inv, BillsComputed
  <2> QED
    BY <2>1, BillIsAcceptable
<1> QED
  BY <1>1, InvHolds, PTL

\* The statistics of every day balance (WorkerProcessor._increment_stats).
THEOREM StatisticsBalance == Spec => []DaysBalance
<1>1. Inv => DaysBalance
  BY DEF Inv
<1> QED
  BY <1>1, InvHolds, PTL

(***************************************************************************)
(* Sums.  The sum of a finite set is defined by recursion on its subsets.  *)
(* What follows about it is shown by the least size of a counterexample.   *)
(***************************************************************************)

\* Every nonempty set of naturals has a least element.
LessThan == {z \in Nat \X Nat : z[1] < z[2]}

LEMMA NatMin ==
    ASSUME NEW T, T \subseteq Nat, T # {}
    PROVE  \E n \in T : \A m \in T : n <= m
<1>1. IsWellFoundedOn(LessThan, Nat)
  <2>1. OpToRel(<, Nat) = LessThan
    BY DEF OpToRel, LessThan
  <2>2. QED
    BY <2>1, NatLessThanWellFounded
<1>2. PICK n \in T : \A m \in T : ~(<<m, n>> \in LessThan)
  BY <1>1, WFMin
<1>3. ASSUME NEW m \in T PROVE n <= m
  <2>1. n \in Nat /\ m \in Nat
    OBVIOUS
  <2>2. ~(m < n)
    BY <1>2, <2>1 DEF LessThan
  <2>3. QED
    BY <2>1, <2>2
<1>4. QED
  BY <1>3

\* The sum of v over S: f sums v over every subset of S, one element at a time.
One(s) == CHOOSE x \in s : TRUE
IsSum(f, v, S) ==
    f = [s \in SUBSET S |-> IF s = {} THEN 0 ELSE v[One(s)] + f[s \ {One(s)}]]
SumOver(v, S) == LET f == CHOOSE f : IsSum(f, v, S) IN f[S]

LEMMA OneOf == ASSUME NEW s, s # {} PROVE One(s) \in s
BY DEF One

\* Taking one element away.
LEMMA OneLess ==
    ASSUME NEW S, IsFiniteSet(S), NEW s \in SUBSET S, NEW x \in s
    PROVE  /\ Cardinality(s) \in Nat /\ Cardinality(s \ {x}) \in Nat
           /\ Cardinality(s \ {x}) < Cardinality(s)
<1>1. IsFiniteSet(s)
  BY FS_Subset
<1>2. Cardinality(s \ {x}) = Cardinality(s) - 1 /\ Cardinality(s) \in Nat
      /\ Cardinality(s \ {x}) \in Nat
  BY <1>1, FS_RemoveElement, FS_CardinalityType, FS_Subset
<1>3. QED
  BY <1>2

\* The recursion has a solution.
LEMMA SumExists ==
    ASSUME NEW S, IsFiniteSet(S), NEW v
    PROVE  \E f : IsSum(f, v, S)
<1> DEFINE Body(f) == [s \in SUBSET S |-> IF s = {} THEN 0 ELSE v[One(s)] + f[s \ {One(s)}]]
           Upto(f, n) == \A s \in SUBSET S : Cardinality(s) <= n => f[s] = Body(f)[s]
           Bad == {n \in Nat : ~\E f : f = [s \in SUBSET S |-> f[s]] /\ Upto(f, n)}
<1>1. Bad = {}
  <2> SUFFICES ASSUME Bad # {} PROVE FALSE
    OBVIOUS
  <2>1. PICK n \in Bad : \A m \in Bad : n <= m
    BY NatMin
  <2>2. CASE n = 0
    <3> DEFINE f == [s \in SUBSET S |-> 0]
    <3>1. ASSUME NEW s \in SUBSET S, Cardinality(s) <= 0 PROVE f[s] = Body(f)[s]
      <4>1. s = {}
        BY <3>1, FS_EmptySet, FS_Subset, FS_CardinalityType
      <4>2. QED
        BY <4>1
    <3>2. f = [s \in SUBSET S |-> f[s]]
      OBVIOUS
    <3>3. QED
      BY <2>2, <3>1, <3>2
  <2>3. CASE n # 0
    <3>1. n - 1 \in Nat /\ n - 1 \notin Bad
      <4>1. n \in Nat
        OBVIOUS
      <4>2. n - 1 \in Nat /\ ~(n <= n - 1)
        BY <2>3, <4>1
      <4> HIDE DEF Bad
      <4>3. QED
        BY <2>1, <4>2
    <3>2. PICK f : f = [s \in SUBSET S |-> f[s]] /\ Upto(f, n - 1)
      BY <3>1
    <3> DEFINE g == Body(f)
    <3>3. ASSUME NEW s \in SUBSET S, Cardinality(s) <= n PROVE g[s] = Body(g)[s]
      <4>1. CASE s = {}
        BY <4>1
      <4>2. CASE s # {}
        <5> DEFINE r == s \ {One(s)}
        <5>1. r \in SUBSET S /\ Cardinality(r) <= n - 1
          BY <2>1, <3>1, <3>3, <4>2, OneOf, OneLess
        <5>2. f[r] = g[r]
          BY <3>2, <5>1
        <5>3. QED
          BY <4>2, <5>2
      <4>3. QED
        BY <4>1, <4>2
    <3>4. g = [s \in SUBSET S |-> g[s]]
      OBVIOUS
    <3>5. QED
      BY <3>3, <3>4
  <2>4. QED
    BY <2>2, <2>3
<1>2. Cardinality(S) \in Nat
  BY FS_CardinalityType
<1>3. PICK f : f = [s \in SUBSET S |-> f[s]] /\ Upto(f, Cardinality(S))
  BY <1>1, <1>2
<1>4. \A s \in SUBSET S : Cardinality(s) <= Cardinality(S)
  BY FS_Subset
<1>5. \A s \in SUBSET S : f[s] = Body(f)[s]
  BY <1>3, <1>4
<1>6. f = Body(f)
  BY <1>3, <1>5
<1>7. QED
  BY <1>6 DEF IsSum

\* The sum over a part does not depend on the whole, nor on values elsewhere.
LEMMA SumUnique ==
    ASSUME NEW S, IsFiniteSet(S), NEW U, NEW v, NEW w, NEW f, NEW g,
           IsSum(f, v, S), IsSum(g, w, U), \A x \in S : v[x] \in Int /\ w[x] = v[x]
    PROVE  \A s \in SUBSET S : s \subseteq U => f[s] = g[s] /\ f[s] \in Int
<1> DEFINE Bad == {n \in Nat : \E s \in SUBSET S : /\ s \subseteq U /\ Cardinality(s) = n
                                                   /\ ~(f[s] = g[s] /\ f[s] \in Int)}
<1> SUFFICES ASSUME Bad # {} PROVE FALSE
  <2>1. \A s \in SUBSET S : Cardinality(s) \in Nat
    BY FS_Subset, FS_CardinalityType
  <2>2. QED
    BY <2>1
<1>1. PICK n \in Bad : \A m \in Bad : n <= m
  BY NatMin
<1>2. PICK s \in SUBSET S : /\ s \subseteq U /\ Cardinality(s) = n
                            /\ ~(f[s] = g[s] /\ f[s] \in Int)
  OBVIOUS
<1>3. s # {}
  <2>1. s = {} => f[s] = 0 /\ g[s] = 0
    BY <1>2 DEF IsSum
  <2>2. QED
    BY <1>2, <2>1
<1> DEFINE x == One(s)
           r == s \ {x}
<1>4. /\ x \in s /\ r \in SUBSET S /\ r \subseteq U
      /\ Cardinality(r) \in Nat /\ Cardinality(r) < n /\ n \in Nat
  BY <1>2, <1>3, OneOf, OneLess
<1>5. f[r] = g[r] /\ f[r] \in Int
  <2> SUFFICES ASSUME ~(f[r] = g[r] /\ f[r] \in Int) PROVE FALSE
    OBVIOUS
  <2>1. Cardinality(r) \in Bad
    BY <1>4
  <2> HIDE DEF Bad, r
  <2>2. QED
    BY <1>1, <1>4, <2>1
<1>6. f[s] = v[x] + f[r] /\ g[s] = w[x] + g[r]
  BY <1>2, <1>3 DEF IsSum
<1>7. v[x] \in Int /\ w[x] = v[x]
  BY <1>4
<1>8. QED
  BY <1>2, <1>5, <1>6, <1>7

\* Whichever element is taken first.
LEMMA SumAnyOrder ==
    ASSUME NEW S, IsFiniteSet(S), NEW v, NEW f, IsSum(f, v, S), \A x \in S : v[x] \in Int
    PROVE  \A s \in SUBSET S : \A p \in s : f[s] = v[p] + f[s \ {p}]
<1> DEFINE Bad == {n \in Nat : \E s \in SUBSET S : \E p \in s :
                                  Cardinality(s) = n /\ f[s] # v[p] + f[s \ {p}]}
<1> SUFFICES ASSUME Bad # {} PROVE FALSE
  <2>1. \A s \in SUBSET S : Cardinality(s) \in Nat
    BY FS_Subset, FS_CardinalityType
  <2>2. QED
    BY <2>1
<1>1. PICK n \in Bad : \A m \in Bad : n <= m
  BY NatMin
<1>2. PICK s \in SUBSET S : \E p \in s : Cardinality(s) = n /\ f[s] # v[p] + f[s \ {p}]
  OBVIOUS
<1>3. PICK p \in s : Cardinality(s) = n /\ f[s] # v[p] + f[s \ {p}]
  BY <1>2
<1> DEFINE x == One(s)
           r == s \ {x}
           t == s \ {p}
           u == r \ {p}
<1>4. x \in s /\ r \in SUBSET S /\ t \in SUBSET S /\ n \in Nat
  BY <1>3, OneOf
<1>5. f[s] = v[x] + f[r]
  BY <1>3 DEF IsSum
<1>6. x # p
  BY <1>3, <1>5
<1>7. /\ Cardinality(r) \in Nat /\ Cardinality(r) < n
      /\ Cardinality(t) \in Nat /\ Cardinality(t) < n
  BY <1>3, <1>4, OneLess
<1>8. ASSUME NEW a \in SUBSET S, NEW q \in a, Cardinality(a) \in Nat, Cardinality(a) < n
      PROVE  f[a] = v[q] + f[a \ {q}]
  <2> SUFFICES ASSUME f[a] # v[q] + f[a \ {q}] PROVE FALSE
    OBVIOUS
  <2>1. Cardinality(a) \in Bad
    BY <1>8
  <2> HIDE DEF Bad
  <2>2. QED
    BY <1>1, <1>4, <1>8, <2>1
<1>9. f[r] = v[p] + f[u]
  BY <1>4, <1>6, <1>7, <1>8
<1>10. f[t] = v[x] + f[u]
  <2>1. t \ {x} = u /\ x \in t
    BY <1>4, <1>6
  <2>2. QED
    BY <1>4, <1>7, <1>8, <2>1
<1>11. f[u] \in Int /\ v[x] \in Int /\ v[p] \in Int
  <2>1. u \in SUBSET S
    OBVIOUS
  <2>2. QED
    BY <1>4, <2>1, SumUnique
<1>12. f[s] = v[p] + f[t]
  BY <1>5, <1>9, <1>10, <1>11
<1>13. QED
  BY <1>3, <1>12

\* The sum is that of any function that sums.
LEMMA SumIs ==
    ASSUME NEW S, IsFiniteSet(S), NEW v
    PROVE  \E f : IsSum(f, v, S) /\ SumOver(v, S) = f[S]
<1>1. PICK f : f = CHOOSE g : IsSum(g, v, S)
  OBVIOUS
<1>2. IsSum(f, v, S)
  BY <1>1, SumExists
<1>3. QED
  BY <1>1, <1>2 DEF SumOver

\* What the statistics need of sums: nothing, the same values, one more.
LEMMA SumEmpty == ASSUME NEW v PROVE SumOver(v, {}) = 0
<1>1. PICK f : IsSum(f, v, {}) /\ SumOver(v, {}) = f[{}]
  BY SumIs, FS_EmptySet
<1>2. QED
  BY <1>1 DEF IsSum

LEMMA SumSame ==
    ASSUME NEW S, IsFiniteSet(S), NEW v, NEW w, \A x \in S : v[x] \in Int /\ w[x] = v[x]
    PROVE  SumOver(w, S) = SumOver(v, S) /\ SumOver(v, S) \in Int
<1>1. PICK f : IsSum(f, v, S) /\ SumOver(v, S) = f[S]
  BY SumIs
<1>2. PICK g : IsSum(g, w, S) /\ SumOver(w, S) = g[S]
  BY SumIs
<1>3. f[S] = g[S] /\ f[S] \in Int
  BY <1>1, <1>2, SumUnique
<1>4. QED
  BY <1>1, <1>2, <1>3

LEMMA SumAdds ==
    ASSUME NEW S, IsFiniteSet(S), NEW p, p \notin S, NEW v,
           \A x \in S \union {p} : v[x] \in Int
    PROVE  SumOver(v, S \union {p}) = SumOver(v, S) + v[p]
<1> DEFINE U == S \union {p}
<1>1. IsFiniteSet(U)
  BY FS_AddElement
<1>2. PICK f : IsSum(f, v, U) /\ SumOver(v, U) = f[U]
  BY <1>1, SumIs
<1>3. PICK g : IsSum(g, v, S) /\ SumOver(v, S) = g[S]
  BY SumIs
<1>4. f[U] = v[p] + f[S]
  <2>1. U \ {p} = S /\ p \in U /\ U \in SUBSET U
    OBVIOUS
  <2>2. QED
    BY <1>1, <1>2, <2>1, SumAnyOrder
<1>5. g[S] = f[S] /\ g[S] \in Int
  <2>1. S \in SUBSET S /\ S \subseteq U /\ \A x \in S : v[x] \in Int
    OBVIOUS
  <2>2. QED
    BY <1>2, <1>3, <2>1, SumUnique
<1>6. v[p] \in Int
  OBVIOUS
<1>7. QED
  BY <1>2, <1>3, <1>4, <1>5, <1>6

\* The fold of the community modules.
LEMMA FoldIsSum ==
    ASSUME NEW v, NEW S
    PROVE  SumOver(v, S) = MapThenSumSet(LAMBDA p : v[p], S)
BY DEF SumOver, IsSum, One, MapThenSumSet, MapThenFoldSet

(***************************************************************************)
(* The statistics and the ledger.                                          *)
(***************************************************************************)

SharesOf(column) == [p \in ledger |-> Share(charged[p])[column]]
RowsOf(d) == {p \in ledger : charged[p].day = d}

Reconciled ==
    \A d \in Days, column \in DOMAIN NoTotals :
        stats[d][column] = SumOver(SharesOf(column), RowsOf(d))

\* The sums are of finitely many payments, all of them charged.
SumInv ==
    /\ IsFiniteSet(ledger)
    /\ ledger \subseteq Charged
    /\ Reconciled

LEMMA Columns ==
    DOMAIN NoTotals = {"subscribers", "gifts", "gross", "net", "fees", "tax"}
BY DEF NoTotals

\* Each column of a charge is a whole number, and an increment adds it.
LEMMA ShareIsAdded ==
    ASSUME NEW t \in Totals, NEW c \in Charge, NEW column \in DOMAIN NoTotals
    PROVE  /\ Share(c)[column] \in Int
           /\ t[column] \in Int
           /\ Incremented(t, c)[column] = t[column] + Share(c)[column]
<1>1. /\ c.bill.total \in Int /\ c.bill.net \in Int
      /\ c.bill.fee \in Int /\ c.bill.tax \in Int
  BY DEF Charge, Bill
<1>2. Counts(c, "subscription") \in Int /\ Counts(c, "gift") \in Int
  BY DEF Counts
<1>3. CASE column = "subscribers"
  BY <1>2, <1>3 DEF Share, Incremented, Totals
<1>4. CASE column = "gifts"
  BY <1>2, <1>4 DEF Share, Incremented, Totals
<1>5. CASE column = "gross"
  BY <1>1, <1>5 DEF Share, Incremented, Totals
<1>6. CASE column = "net"
  BY <1>1, <1>6 DEF Share, Incremented, Totals
<1>7. CASE column = "fees"
  BY <1>1, <1>7 DEF Share, Incremented, Totals
<1>8. CASE column = "tax"
  BY <1>1, <1>8 DEF Share, Incremented, Totals
<1>9. QED
  BY <1>3, <1>4, <1>5, <1>6, <1>7, <1>8, Columns

\* The rows of the ledger have whole shares.
LEMMA SharesAreWhole ==
    ASSUME TypeOK, SumInv, NEW column \in DOMAIN NoTotals
    PROVE  /\ \A p \in ledger : charged[p] \in Charge /\ SharesOf(column)[p] \in Int
           /\ \A d \in Days : IsFiniteSet(RowsOf(d))
<1>1. ASSUME NEW p \in ledger PROVE charged[p] \in Charge /\ SharesOf(column)[p] \in Int
  <2>1. charged[p] \in Charge
    BY DEF TypeOK, SumInv, Charged
  <2>2. \A t \in Totals : Share(charged[p])[column] \in Int
    BY <2>1, ShareIsAdded
  <2>3. NoTotals \in Totals
    BY DEF NoTotals, Totals
  <2>4. QED
    BY <2>1, <2>2, <2>3 DEF SharesOf
<1>2. ASSUME NEW d \in Days PROVE IsFiniteSet(RowsOf(d))
  BY FS_Subset DEF SumInv, RowsOf
<1>3. QED
  BY <1>1, <1>2

LEMMA PayReconciles ==
    ASSUME TypeOK, SumInv, NEW p \in Payments, NEW kind \in {"subscription", "gift"},
           NEW day \in Days, NEW amount \in Amounts, Pay(p, kind, day, amount)
    PROVE  SumInv'
<1>1. /\ charged[p] = None /\ UNCHANGED <<ledger, stats>>
      /\ \A q \in Payments : q # p => charged'[q] = charged[q]
  BY DEF TypeOK, Pay
<1>2. p \notin ledger
  BY <1>1 DEF SumInv, Charged
<1>3. \A q \in ledger : charged'[q] = charged[q]
  BY <1>1, <1>2 DEF TypeOK
<1>4. (ledger \subseteq Charged)'
  BY <1>1, <1>3 DEF SumInv, Charged
<1>5. Reconciled'
  BY <1>1, <1>3 DEF SumInv, Reconciled, SharesOf, RowsOf, NoTotals, Share, Counts
<1>6. QED
  BY <1>1, <1>4, <1>5 DEF SumInv

LEMMA RecordReconciles ==
    ASSUME TypeOK, SumInv, NEW p \in Payments, Record(p)
    PROVE  SumInv'
<1> DEFINE c == charged[p]
<1>1. /\ c # None /\ p \notin ledger /\ charged' = charged
      /\ ledger' = ledger \union {p}
      /\ stats' = [stats EXCEPT ![c.day] = Incremented(@, c)]
  BY DEF Record
<1>2. c \in Charge /\ c.day \in Days
  BY <1>1 DEF TypeOK, Charge
<1>3. IsFiniteSet(ledger)' /\ (ledger \subseteq Charged)'
  BY <1>1, FS_AddElement DEF SumInv, Charged
<1> HIDE DEF c
<1>4. ASSUME NEW d \in Days, NEW column \in DOMAIN NoTotals
      PROVE  stats'[d][column] = SumOver(SharesOf(column)', RowsOf(d)')
  <2> DEFINE S == RowsOf(d)
             v == SharesOf(column)
             w == SharesOf(column)'
  <2>1. IsFiniteSet(S) /\ S \subseteq ledger /\ \A q \in S : v[q] \in Int
    BY SharesAreWhole DEF RowsOf
  <2>2. \A q \in S : w[q] = v[q]
    BY <1>1 DEF SharesOf, RowsOf, Share, Counts
  <2>3. w[p] = Share(c)[column]
    BY <1>1 DEF SharesOf, Share, Counts, c
  <2>4. stats[d] \in Totals /\ stats[d][column] = SumOver(v, S)
    BY DEF TypeOK, SumInv, Reconciled
  <2>5. SumOver(w, S) = SumOver(v, S)
    <3> HIDE DEF v, w, S
    <3> QED
      BY <2>1, <2>2, SumSame
  <2>6. /\ Share(c)[column] \in Int
        /\ Incremented(stats[d], c)[column] = stats[d][column] + Share(c)[column]
    BY <1>2, <2>4, ShareIsAdded
  <2>7. CASE c.day = d
    <3>1. RowsOf(d)' = S \union {p} /\ p \notin S
      BY <1>1, <2>7 DEF RowsOf, c
    <3>2. SumOver(w, S \union {p}) = SumOver(w, S) + w[p]
      <4> HIDE DEF v, w, S
      <4>1. \A q \in S \union {p} : w[q] \in Int
        BY <2>1, <2>2, <2>3, <2>6
      <4> QED
        BY <2>1, <3>1, <4>1, SumAdds
    <3>3. stats'[d] = Incremented(stats[d], c)
      BY <1>1, <2>7 DEF TypeOK
    <3> HIDE DEF v, S
    <3> QED
      BY <2>3, <2>4, <2>5, <2>6, <3>1, <3>2, <3>3
  <2>8. CASE c.day # d
    <3>1. RowsOf(d)' = S
      BY <1>1, <2>8 DEF RowsOf, c
    <3>2. stats'[d] = stats[d]
      BY <1>1, <2>8 DEF TypeOK
    <3> HIDE DEF v, S
    <3> QED
      BY <2>4, <2>5, <3>1, <3>2
  <2>9. QED
    BY <2>7, <2>8
<1>5. Reconciled'
  BY <1>4 DEF Reconciled, NoTotals
<1>6. QED
  BY <1>3, <1>5 DEF SumInv

LEMMA SumInvHolds == Spec => []SumInv
<1>1. Init => SumInv
  <2> SUFFICES ASSUME Init PROVE SumInv
    OBVIOUS
  <2>1. IsFiniteSet(ledger) /\ ledger \subseteq Charged
    BY FS_EmptySet DEF Init
  <2>2. ASSUME NEW d \in Days, NEW column \in DOMAIN NoTotals
        PROVE  stats[d][column] = SumOver(SharesOf(column), RowsOf(d))
    <3>1. RowsOf(d) = {} /\ stats[d] = NoTotals
      BY DEF Init, RowsOf
    <3>2. NoTotals[column] = 0
      BY DEF NoTotals
    <3>3. QED
      BY <3>1, <3>2, SumEmpty
  <2>3. QED
    BY <2>1, <2>2 DEF SumInv, Reconciled
<1>2. TypeOK /\ SumInv /\ [Next]_vars => SumInv'
  <2> SUFFICES ASSUME TypeOK, SumInv, [Next]_vars PROVE SumInv'
    OBVIOUS
  <2>1. ASSUME NEW p \in Payments, NEW kind \in {"subscription", "gift"},
               NEW day \in Days, NEW amount \in Amounts, Pay(p, kind, day, amount)
        PROVE  SumInv'
    BY <2>1, PayReconciles
  <2>2. ASSUME NEW p \in Payments, Record(p) PROVE SumInv'
    BY <2>2, RecordReconciles
  <2>3. ASSUME UNCHANGED <<charged, ledger, stats>> PROVE SumInv'
    <3>1. IsFiniteSet(ledger)' /\ (ledger \subseteq Charged)'
      BY <2>3 DEF SumInv, Charged
    <3>2. Reconciled'
      BY <2>3 DEF SumInv, Reconciled, SharesOf, RowsOf, NoTotals, Share, Counts
    <3>3. QED
      BY <3>1, <3>2 DEF SumInv
  <2>4. ASSUME NEW p \in Payments, GiveUp(p) PROVE SumInv'
    BY <2>3, <2>4 DEF GiveUp
  <2>5. CASE UNCHANGED vars
    BY <2>3, <2>5 DEF vars
  <2> QED
    BY <2>1, <2>2, <2>4, <2>5 DEF Next
<1>3. Inv => TypeOK
  BY DEF Inv
<1>4. QED
  BY <1>1, <1>2, <1>3, InvHolds, PTL DEF Spec

\* The statistics of every day are the sums of its ledger transactions, however many
\* they are and in whatever order they are recorded (WorkerProcessor._increment_stats).
THEOREM DaysAreReconciled == Spec => []DaysReconcile
<1>1. SumInv => DaysReconcile
  BY FoldIsSum DEF SumInv, Reconciled, DaysReconcile, SharesOf, RowsOf
<1> QED
  BY <1>1, SumInvHolds, PTL
=============================================================================
