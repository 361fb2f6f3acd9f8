SPECIFICATION SuiteSpec
CONSTANTS
    visa = visa
    master = master
    deposit = deposit
    purchase = purchase
    grocery = grocery
    a1 = a1
    a2 = a2
    t1 = t1
    t2 = t2
    t3 = t3
    b1 = b1
    b2 = b2
    rent = rent
    gas = gas
    gym = gym
    phone = phone
    food = food
    fun = fun
    None = None
    Targets = {visa, master}
    Rows = {deposit, purchase, grocery}
    TargetOf <- TwoCards
    DayOf <- Days
    Overlap <- OneDay
    NoTarget = NoTarget
    Imported = {grocery}
    MaxSyncs = 3
    MaxFiles = 1
    Accounts = {a1, a2}
    Admins = {a1, a2}
    Tabs = {t1, t2, t3}
    Browser <- BrowserOf
    Lifetime = 4
    Idle = 3
    Touch = 1
    PageSize = 1
    MaxTime = 4
    MaxLogins = 3
    MaxChanges = 3
    Keys = {a1, a2, t1}
    WindowMs = 3
    Maximum = 2
    Capacity = 2
    Cleanup = 2
    NoBucket = NoBucket
    LastMs = 7
    MaxRequests = 5
    Payments <- AllPayments
    MonthDays <- ShortYear
    Months = {1, 2, 3}
    Raises <- UpOrDown
    Charges <- AllCharges
    Typed <- OneTyped
    Alike <- OneAlike
    Goals <- AllGoals
    Deposits <- InOrOut
    LoanBalances = {3, 10, 15}
    Sentences <- Texts
    OwnRules <- OneOwn
    DefaultRules <- TwoDefaults
    NotRead = NotRead
    MaxTyped = 30
    MaxPlans = 3
    MaxEdits = 5
    MaxSteps = 2
INVARIANTS
    OneOpenOffer
    AccessHolds
    ThrottleHolds
    PlansHold
    SiteHolds
PROPERTIES
    NoFileRowOffered
    CarriedUntilOffered
CHECK_DEADLOCK FALSE
