\* Three payments on two days in a ledger whose columns hold six bits.
CONSTANTS
    Payments = {pay1, pay2, pay3}
    Days = {monday, tuesday}
    Amounts <- MCAmounts
    FeeNum = 10
    TaxNum = 8
    Den = 100
    GiftMin = 50
    MaxInt = 63
SPECIFICATION Spec
INVARIANTS BillsRoundHalfUp BillsAcceptable DaysReconcile
CHECK_DEADLOCK FALSE
