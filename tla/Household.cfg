SPECIFICATION SuiteSpec
CONSTANTS
    k1 = k1
    k2 = k2
    k3 = k3
    b1 = b1
    r1 = r1
    r2 = r2
    h1 = h1
    n1 = n1
    n2 = n2
    loan1 = loan1
    rent = rent
    c1 = c1
    c2 = c2
    p1 = p1
    p2 = p2
    None = None
    Keys = {k1, k2, k3}
    Households <- ThreeHouseholds
    Scope <- OneScope
    Eligible = {k1, k2}
    BankRows = {b1}
    Requests = {r1, r2}
    MaxVersion = 2
    MaxChanges = 2
    Hashes = {h1}
    Names = {n1, n2}
    NoPath = None
    Legacy <- TwoOfOneFile
    MaxSessions = 3
    MaxDocs = 4
    MonthLengths <- TwoMonths
    Week = 2
    Year = 2
    Plans <- RentOrLoan
    Cards <- TwoCards
    Debits <- TwoDebits
    Amounts = {1, 2}
    Nil = None
    Window = 2
    Lookback = 3
    NamedDays = 2
    UnnamedDays = 1
    MaxTurns = 2
    MaxDecisions = 2
INVARIANTS
    DocumentsReadable
PROPERTIES
    DuplicatesSettled
    CommitmentsFollowStatements
    DebtsSettled
SYMMETRY Alike
CHECK_DEADLOCK FALSE
