SPECIFICATION Spec
CONSTANTS
    monthly = monthly
    quarterly = quarterly
    report = report
    sheet = sheet
    salary = salary
    bought = bought
    account = account
    Files = {report}
    Keys = {bought}
    RowsOf <- OneRows
    KindOf <- OneCard
    Blocked = {}
    Faulty = {}
    SyncFiles = {report}
    Accounts = {}
    Removable = {}
    Card = card
    None = None
    ManualKinds = {}
    MaxSessions = 2
    MaxMoney = 3
    MaxVersion = 2
    MaxByHand = 0
PROPERTIES
    CancelledStaysCancelled
CHECK_DEADLOCK FALSE
