SPECIFICATION Spec
CONSTANTS
    payoff = payoff
    bill = bill
    out = out
    back = back
    f1 = f1
    f2 = f2
    l1 = l1
    l2 = l2
    report = report
    number = number
    None = None
    Lines <- LoanLines
    KindOf <- MCKinds
    DepositLines <- MCDeposits
    AmountOf <- MCAmounts
    RefOf <- MCRefs
    DayOf <- MCDays
    Worded <- MCWorded
    Reports = {}
    Itemizes <- MCItemizes
    PairDays = 7
    MaxLoans = 1
    LoanNumbers = {number}
    Balances = {2}
    Tolerance = 0
    Files = {l1, l2}
    FileOf <- LoanFiles
    Typed = {payoff}
    MaxRowId = 3
PROPERTIES
    ClosedLoanKept
