SPECIFICATION OneFamilySpec
CONSTANTS
    payoff = payoff
    bill = bill
    out = out
    back = back
    f1 = f1
    f2 = f2
    l1 = l1
    l2 = l2
    report = report
    number = number
    None = None
    Lines <- AllLines
    KindOf <- MCKinds
    DepositLines <- MCDeposits
    AmountOf <- MCAmounts
    RefOf <- MCRefs
    DayOf <- MCDays
    Worded <- MCWorded
    Reports = {report}
    Itemizes <- MCItemizes
    PairDays = 7
    MaxLoans = 2
    LoanNumbers = {number}
    Balances = {2}
    Tolerance = 0
    Files = {f1, f2, l1, l2}
    FileOf <- AllFiles
    MaxRowId = 5
    Typed = {out, back, payoff}
INVARIANTS
    NoStrayRecord
    CardMoneyOnce
    SecondPassSilent
    PayoffOnce
PROPERTIES
    UndoneCleanly
