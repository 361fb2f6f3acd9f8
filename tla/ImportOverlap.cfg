SPECIFICATION Spec
CONSTANTS
    monthly = monthly
    quarterly = quarterly
    report = report
    sheet = sheet
    salary = salary
    bought = bought
    account = account
    Files = {monthly, quarterly, report, sheet}
    Keys = {salary, bought}
    RowsOf <- AllRows
    KindOf <- AllKinds
    Blocked = {}
    Faulty = {report}
    SyncFiles = {}
    Accounts = {account}
    Removable = {account}
    Card = card
    None = None
    ManualKinds = {"bank", "expense"}
    MaxSessions = 2
    MaxMoney = 3
    MaxVersion = 3
    MaxByHand = 1
CONSTRAINT OneFamily
INVARIANTS
    NoDoubleImport
    SameVersionSameRows
    NothingLeftBehind
    OneSessionPerFile
PROPERTIES
    CommitCoversFile
    HandWorkSurvivesRollback
    FollowsLifecycle
CHECK_DEADLOCK FALSE
