------------------------------- MODULE Money -------------------------------
(***************************************************************************)
(* The three-way split of a payment, from the API that computes a bill     *)
(* once to the worker that checks it, writes it to the ledger and adds it  *)
(* to the statistics of the day.  Amounts are integer cents; the columns   *)
(* that hold them are BIGINT, and a value that does not fit is an error    *)
(* that rolls the transaction back.                                        *)
(*                                                                         *)
(* That an event is applied once is the subject of EventProcessing; here   *)
(* a charged payment is recorded or given up.  Free subscriptions have no  *)
(* bill and are not payments.                                              *)
(***************************************************************************)
EXTENDS Integers, FiniteSetsExt

CONSTANTS
    Payments,
    Days,      \* pairs of a publication and the UTC date of occurred_at
    Amounts,   \* amounts that clients ask for, bounded for TLC
    FeeNum,    \* platform_fee_pct = FeeNum / Den
    TaxNum,    \* tax_pct = TaxNum / Den
    Den,
    GiftMin,   \* the smallest gift
    MaxInt     \* the largest BIGINT

ASSUME MoneyAssumption ==
    /\ Amounts \subseteq Nat
    /\ Den \in Nat \ {0}
    /\ FeeNum \in 0..Den
    /\ TaxNum \in Nat
    /\ GiftMin \in Nat
    /\ MaxInt \in Nat

VARIABLES
    charged,  \* [Payments -> Charge]: what the API has committed
    ledger,   \* payments with a ledger transaction
    givenUp,  \* payments whose event is terminal
    stats     \* [Days -> Totals]: publication_daily_stats

vars == <<charged, ledger, givenUp, stats>>

Bill == [amount : Nat, net : Int, fee : Nat, tax : Nat, total : Nat]

\* A paid subscription or a gift.
Charge == [kind : {"subscription", "gift"}, day : Days, bill : Bill]
None == [kind |-> "none"]

Totals == [subscribers : Nat, gifts : Nat, gross : Nat, net : Int, fees : Nat, tax : Nat]
NoTotals == [subscribers |-> 0, gifts |-> 0, gross |-> 0, net |-> 0, fees |-> 0, tax |-> 0]

Init ==
    /\ charged = [p \in Payments |-> None]
    /\ ledger = {}
    /\ givenUp = {}
    /\ stats = [d \in Days |-> NoTotals]
-----------------------------------------------------------------------------
\* Mutant: ROUND_HALF_EVEN, the default of the decimal module.
RoundHalfEven(amount, num) ==
    LET q == (amount * num) \div Den
        rest == (amount * num) % Den
    IN  IF 2 * rest > Den \/ (2 * rest = Den /\ q % 2 = 1) THEN q + 1 ELSE q

\* Decimal(amount) * pct quantized to whole cents with ROUND_HALF_UP.
RoundHalfUp(amount, num) ==
    LET q == (amount * num) \div Den
        rest == (amount * num) % Den
    IN  IF 2 * rest >= Den THEN q + 1 ELSE q

\* Mutant: the author's share is rounded by itself.
ComputeBillRounded(amount) ==
    [amount |-> amount, net |-> RoundHalfUp(amount, Den - FeeNum),
     fee |-> RoundHalfUp(amount, FeeNum), tax |-> RoundHalfUp(amount, TaxNum),
     total |-> amount + RoundHalfUp(amount, TaxNum)]

ComputeBill(amount) ==
    LET tax == RoundHalfUp(amount, TaxNum)
        fee == RoundHalfUp(amount, FeeNum)
    IN  [amount |-> amount, net |-> amount - fee, fee |-> fee, tax |-> tax,
         total |-> amount + tax]

\* Whether _Bill.from_payload takes the bill of an event over this amount.
Acceptable(bill, amount) ==
    /\ bill.amount >= 0 /\ bill.net >= 0 /\ bill.fee >= 0
    /\ bill.tax >= 0 /\ bill.total >= 0
    /\ bill.amount = amount
    /\ bill.net + bill.fee + bill.tax = bill.total
    /\ bill.amount + bill.tax = bill.total

Counts(c, kind) == IF c.kind = kind THEN 1 ELSE 0

\* Mutant: the day's row is replaced.
IncrementedFromZero(t, c) ==
    [subscribers |-> t.subscribers + Counts(c, "subscription"),
     gifts |-> t.gifts + Counts(c, "gift"),
     gross |-> c.bill.total, net |-> c.bill.net,
     fees |-> c.bill.fee, tax |-> c.bill.tax]

\* The day's row after _increment_stats.
Incremented(t, c) ==
    [subscribers |-> t.subscribers + Counts(c, "subscription"),
     gifts |-> t.gifts + Counts(c, "gift"),
     gross |-> t.gross + c.bill.total, net |-> t.net + c.bill.net,
     fees |-> t.fees + c.bill.fee, tax |-> t.tax + c.bill.tax]

\* The ledger row and the day's row fit their columns; the total is the
\* largest value of the one and gross of the other.
Fits(c) ==
    /\ c.bill.total <= MaxInt
    /\ Incremented(stats[c.day], c).gross <= MaxInt

\* create_subscription on a paid plan, and send_gift.  The amount is stored in
\* a BIGINT; the bill goes into the JSON payload of the event.
Pay(p, kind, day, amount) ==
    /\ charged[p] = None
    /\ amount > 0
    /\ kind = "gift" => amount >= GiftMin
    /\ amount <= MaxInt
    /\ charged' = [charged EXCEPT ![p] =
                      [kind |-> kind, day |-> day, bill |-> ComputeBill(amount)]]
    /\ UNCHANGED <<ledger, givenUp, stats>>

\* The handler transaction of the payment's event.
Record(p) ==
    LET c == charged[p] IN
    /\ c # None
    /\ p \notin ledger \union givenUp
    /\ Acceptable(c.bill, c.bill.amount)
    /\ Fits(c)
    /\ ledger' = ledger \union {p}
    /\ stats' = [stats EXCEPT ![c.day] = Incremented(@, c)]
    /\ UNCHANGED <<charged, givenUp>>

\* Every attempt at the event has failed.
GiveUp(p) ==
    LET c == charged[p] IN
    /\ c # None
    /\ p \notin ledger \union givenUp
    /\ ~(Acceptable(c.bill, c.bill.amount) /\ Fits(c))
    /\ givenUp' = givenUp \union {p}
    /\ UNCHANGED <<charged, ledger, stats>>

Next == \E p \in Payments :
    \/ \E kind \in {"subscription", "gift"}, day \in Days, amount \in Amounts :
          Pay(p, kind, day, amount)
    \/ Record(p)
    \/ GiveUp(p)

Spec == Init /\ [][Next]_vars
-----------------------------------------------------------------------------
TypeOK ==
    /\ charged \in [Payments -> Charge \union {None}]
    /\ ledger \subseteq Payments
    /\ givenUp \subseteq Payments
    /\ stats \in [Days -> Totals]

Charged == {p \in Payments : charged[p] # None}

\* r is amount * num / Den rounded to the nearest cent, a half upwards.
NearestCent(r, amount, num) ==
    /\ 2 * amount * num - Den < 2 * Den * r
    /\ 2 * Den * r <= 2 * amount * num + Den

\* Tax and fee are rounded to the nearest cent and a half cent upwards, on the
\* remainder as on the whole (test_round_half_up_on_fee_and_tax).
BillsRoundHalfUp ==
    \A p \in Charged :
        LET bill == charged[p].bill IN
        /\ NearestCent(bill.fee, bill.amount, FeeNum)
        /\ NearestCent(bill.tax, bill.amount, TaxNum)

\* The worker takes every bill the API computes: no rounding of tax and fee
\* unbalances it or leaves the author a negative share.
BillsAcceptable ==
    \A p \in Charged : Acceptable(charged[p].bill, charged[p].bill.amount)

\* What a day shows is what its author, the platform and the tax office get.
DaysBalance ==
    \A d \in Days : stats[d].gross = stats[d].net + stats[d].fees + stats[d].tax

\* What a charged payment adds to the columns of its day.
Share(c) ==
    [subscribers |-> Counts(c, "subscription"), gifts |-> Counts(c, "gift"),
     gross |-> c.bill.total, net |-> c.bill.net, fees |-> c.bill.fee, tax |-> c.bill.tax]

\* A day's statistics are the sums of its ledger transactions, and count them:
\* nothing is left out, added twice or half added when a column overflows.
DaysReconcile ==
    \A d \in Days, column \in DOMAIN NoTotals :
        LET share == [p \in ledger |-> Share(charged[p])[column]]
        IN  stats[d][column] =
                MapThenSumSet(LAMBDA p : share[p], {p \in ledger : charged[p].day = d})
=============================================================================
