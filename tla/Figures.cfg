SPECIFICATION SuiteSpec
CONSTANTS
    food = food
    fun = fun
    salary = salary
    visa = visa
    shop = shop
    home = home
    other = other
    rent = rent
    loan = loan
    bill = bill
    whole = whole
    list = list
    late = late
    None = None
    Nothing = Nothing
    Entries <- PanelEntries
    Files <- NoFiles
    Categories = {}
    Default = {}
    Cards = {}
    Days = 2
    Months = 1
    Today = 3
    PageSize = 1
    MaxRows = 2
    MaxChanges = 2
    Name = "surplus"
    Shown = 1
    MaxCalls = 3
    MaxOpens = 1
    Rows = {1, 2, 3}
    LastMonth = 4
    Cap = 2
    MaxMoves = 2
    Accounts = {home, other}
    Spending = home
    LastDay = 3
    Payments <- Bills
    Cash <- Funds
    Essentials = {0, 2}
    Buffer = 1
    MaxSteps = 1
    Unset = Unset
    AccountMoves <- ThreeMoves
    Opening = 10
    StatementFiles <- ThreeFiles
    Initials = {0, 10}
    LastDate = 3
    Nil = Nil
    MaxImports = 2
    MaxEdits = 2
INVARIANTS
    BooksAgree
    PagesOfOneVersion
    OwnWritesShown
    ChangesNoticed
    BalanceHolds
PROPERTIES
    FigureHolds
CHECK_DEADLOCK FALSE
