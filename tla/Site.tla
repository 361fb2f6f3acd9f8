-------------------------------- MODULE Site --------------------------------
(***************************************************************************)
(* The pages of the site (app/App.tsx), each on the machine of Screen.tla:  *)
(* which resource of a page is looked at, and which page's rows, filters,   *)
(* offers and services are meant.                                           *)
(***************************************************************************)
EXTENDS PagesMoney, PagesHome

CONSTANT MaxSteps   \* bound: presses, writes of other tabs, faults, looks
VARIABLES place, view, server, version, shown, error, live, superseded, due, question, out, happened, told, wronged

Pages == UNION {{<<"Loan", LoanReads[r]>> : r \in DOMAIN LoanReads},
    {<<"Report", ReportReads[r]>> : r \in DOMAIN ReportReads},
    {<<"Card", CardReads[r]>> : r \in DOMAIN CardReads},
    {<<"Funding", FundingReads[r]>> : r \in DOMAIN FundingReads},
    {<<"Document", DocumentReads[r]>> : r \in DOMAIN DocumentReads},
    {<<"Connection", ConnectionReads[r]>> : r \in DOMAIN ConnectionReads},
    {<<"Import", ImportReads[r]>> : r \in DOMAIN ImportReads},
    {<<"Customer", CustomerReads[r]>> : r \in DOMAIN CustomerReads},
    {<<"Alert", AlertReads[r]>> : r \in DOMAIN AlertReads},
    {<<"Settings", SettingsReads[r]>> : r \in DOMAIN SettingsReads},
    {<<"Agenda", AgendaReads[r]>> : r \in DOMAIN AgendaReads},
    {<<"CheckIn", CheckInReads[r]>> : r \in DOMAIN CheckInReads},
    {<<"Setup", SetupReads[r]>> : r \in DOMAIN SetupReads},
    {<<"Schedule", ScheduleReads[r]>> : r \in DOMAIN ScheduleReads},
    {<<"Double", DoubleReads[r]>> : r \in DOMAIN DoubleReads},
    {<<"Expense", ExpenseReads[r]>> : r \in DOMAIN ExpenseReads},
    {<<"Income", IncomeReads[r]>> : r \in DOMAIN IncomeReads},
    {<<"Account", AccountReads[r]>> : r \in DOMAIN AccountReads},
    {<<"Movement", MovementReads[r]>> : r \in DOMAIN MovementReads},
    {<<"Reconcile", ReconcileReads[r]>> : r \in DOMAIN ReconcileReads},
    {<<"Subscription", SubscriptionReads[r]>> : r \in DOMAIN SubscriptionReads},
    {<<"Recurring", RecurringReads[r]>> : r \in DOMAIN RecurringReads},
    {<<"Budget", BudgetReads[r]>> : r \in DOMAIN BudgetReads},
    {<<"Saving", SavingReads[r]>> : r \in DOMAIN SavingReads},
    {<<"Asset", AssetReads[r]>> : r \in DOMAIN AssetReads},
    {<<"Category", CategoryReads[r]>> : r \in DOMAIN CategoryReads},
    {<<"Method", MethodReads[r]>> : r \in DOMAIN MethodReads},
    {<<"Family", FamilyReads[r]>> : r \in DOMAIN FamilyReads}}
KeyedBy(p) ==
    CASE p = "Card" -> CardKeyed [] p = "Expense" -> ExpenseKeyed [] p = "Income" -> IncomeKeyed
      [] p = "Movement" -> MovementKeyed [] p = "Budget" -> BudgetKeyed [] OTHER -> {}
ViewsOf(p) ==
    CASE p = "Loan" -> LoanViews [] p = "Report" -> ReportViews [] p = "Card" -> CardViews
      [] p = "Customer" -> CustomerViews [] p = "Schedule" -> ScheduleViews [] p = "Expense" -> ExpenseViews
      [] p = "Income" -> IncomeViews [] p = "Movement" -> MovementViews [] p = "Budget" -> BudgetViews
      [] OTHER -> {"first"}
ListedOn(p, v, row) ==
    CASE p = "Loan" -> LoanListed(v, row) [] p = "Report" -> ReportListed(v, row) [] p = "Card" -> CardListed(v, row)
      [] p = "Customer" -> CustomerListed(v, row) [] p = "Schedule" -> ScheduleListed(v, row)
      [] p = "Expense" -> ExpenseListed(v, row) [] p = "Income" -> IncomeListed(v, row)
      [] p = "Movement" -> MovementListed(v, row) [] p = "Budget" -> BudgetListed(v, row) [] OTHER -> TRUE
OfferedOn(p, row) ==
    CASE p = "Loan" -> LoanOffers(row) [] p = "Report" -> ReportOffers(row) [] p = "Card" -> CardOffers(row)
      [] p = "Funding" -> FundingOffers(row) [] p = "Document" -> DocumentOffers(row)
      [] p = "Connection" -> ConnectionOffers(row) [] p = "Import" -> ImportOffers(row)
      [] p = "Customer" -> CustomerOffers(row) [] p = "Alert" -> AlertOffers(row)
      [] p = "Settings" -> SettingsOffers(row) [] p = "Agenda" -> AgendaOffers(row)
      [] p = "CheckIn" -> CheckInOffers(row) [] p = "Setup" -> SetupOffers(row)
      [] p = "Schedule" -> ScheduleOffers(row) [] p = "Double" -> DoubleOffers(row)
      [] p = "Expense" -> ExpenseOffers(row) [] p = "Income" -> IncomeOffers(row)
      [] p = "Account" -> AccountOffers(row) [] p = "Movement" -> MovementOffers(row)
      [] p = "Reconcile" -> ReconcileOffers(row) [] p = "Subscription" -> SubscriptionOffers(row)
      [] p = "Recurring" -> RecurringOffers(row) [] p = "Budget" -> BudgetOffers(row)
      [] p = "Saving" -> SavingOffers(row) [] p = "Asset" -> AssetOffers(row)
      [] p = "Category" -> CategoryOffers(row) [] p = "Method" -> MethodOffers(row)
      [] p = "Family" -> FamilyOffers(row)
OpsOf(p) ==
    CASE p = "Loan" -> LoanOps [] p = "Report" -> ReportOps [] p = "Card" -> CardOps [] p = "Funding" -> FundingOps
      [] p = "Document" -> DocumentOps [] p = "Connection" -> ConnectionOps [] p = "Import" -> ImportOps
      [] p = "Customer" -> CustomerOps [] p = "Alert" -> AlertOps [] p = "Settings" -> SettingsOps
      [] p = "Agenda" -> AgendaOps [] p = "CheckIn" -> CheckInOps [] p = "Setup" -> SetupOps
      [] p = "Schedule" -> ScheduleOps [] p = "Double" -> DoubleOps [] p = "Expense" -> ExpenseOps
      [] p = "Income" -> IncomeOps [] p = "Account" -> AccountOps [] p = "Movement" -> MovementOps
      [] p = "Reconcile" -> ReconcileOps [] p = "Subscription" -> SubscriptionOps [] p = "Recurring" -> RecurringOps
      [] p = "Budget" -> BudgetOps [] p = "Saving" -> SavingOps [] p = "Asset" -> AssetOps
      [] p = "Category" -> CategoryOps [] p = "Method" -> MethodOps [] p = "Family" -> FamilyOps
BeginsOf(p) ==
    CASE p = "Loan" -> LoanStates [] p = "Report" -> ReportStates [] p = "Card" -> CardStates
      [] p = "Funding" -> FundingStates [] p = "Document" -> DocumentStates [] p = "Connection" -> ConnectionStates
      [] p = "Import" -> ImportStates [] p = "Customer" -> CustomerStates [] p = "Alert" -> AlertStates
      [] p = "Settings" -> SettingsStates [] p = "Agenda" -> AgendaStates [] p = "CheckIn" -> CheckInStates
      [] p = "Setup" -> SetupStates [] p = "Schedule" -> ScheduleStates [] p = "Double" -> DoubleStates
      [] p = "Expense" -> ExpenseStates [] p = "Income" -> IncomeStates [] p = "Account" -> AccountStates
      [] p = "Movement" -> MovementStates [] p = "Reconcile" -> ReconcileStates
      [] p = "Subscription" -> SubscriptionStates [] p = "Recurring" -> RecurringStates
      [] p = "Budget" -> BudgetStates [] p = "Saving" -> SavingStates [] p = "Asset" -> AssetStates
      [] p = "Category" -> CategoryStates [] p = "Method" -> MethodStates [] p = "Family" -> FamilyStates
DoesOn(p, op, saw, now) ==
    CASE p = "Loan" -> LoanDoes(op, saw, now) [] p = "Report" -> ReportDoes(op, saw, now)
      [] p = "Card" -> CardDoes(op, saw, now) [] p = "Funding" -> FundingDoes(op, saw, now)
      [] p = "Document" -> DocumentDoes(op, saw, now) [] p = "Connection" -> ConnectionDoes(op, saw, now)
      [] p = "Import" -> ImportDoes(op, saw, now) [] p = "Customer" -> CustomerDoes(op, saw, now)
      [] p = "Alert" -> AlertDoes(op, saw, now) [] p = "Settings" -> SettingsDoes(op, saw, now)
      [] p = "Agenda" -> AgendaDoes(op, saw, now) [] p = "CheckIn" -> CheckInDoes(op, saw, now)
      [] p = "Setup" -> SetupDoes(op, saw, now) [] p = "Schedule" -> ScheduleDoes(op, saw, now)
      [] p = "Double" -> DoubleDoes(op, saw, now) [] p = "Expense" -> ExpenseDoes(op, saw, now)
      [] p = "Income" -> IncomeDoes(op, saw, now) [] p = "Account" -> AccountDoes(op, saw, now)
      [] p = "Movement" -> MovementDoes(op, saw, now) [] p = "Reconcile" -> ReconcileDoes(op, saw, now)
      [] p = "Subscription" -> SubscriptionDoes(op, saw, now) [] p = "Recurring" -> RecurringDoes(op, saw, now)
      [] p = "Budget" -> BudgetDoes(op, saw, now) [] p = "Saving" -> SavingDoes(op, saw, now)
      [] p = "Asset" -> AssetDoes(op, saw, now) [] p = "Category" -> CategoryDoes(op, saw, now)
      [] p = "Method" -> MethodDoes(op, saw, now) [] p = "Family" -> FamilyDoes(op, saw, now)
-----------------------------------------------------------------------------
Page == INSTANCE Screen WITH
    Places <- Pages, Keyed <- KeyedBy, Views <- ViewsOf, Listed <- ListedOn, Offered <- OfferedOn, Ops <- OpsOf,
    Begins <- BeginsOf, Does <- DoesOn, asked <- question
SiteInit == Page!ScreenInit
SiteNext == Page!ScreenNext
siteVars == <<place, view, server, version, shown, error, live, superseded, due, question, out, happened, told, wronged>>
SiteSpec == SiteInit /\ [][SiteNext]_siteVars
(* A page at rest shows what was asked of it, and no refusal meets an offer  *)
(* that was still as shown (see ScreenHolds).                                *)
SiteHolds == Page!ScreenHolds
=============================================================================
