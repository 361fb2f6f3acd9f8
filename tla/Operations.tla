----------------------------- MODULE Operations -----------------------------
(***************************************************************************)
(* The vocabulary in which the pages describe what a user can do: a row a  *)
(* page lists, the ways an operation is started, and what a form sends.    *)
(***************************************************************************)
EXTENDS FiniteSets, TLC

(* A row that is not there: removed, or not created yet.                     *)
Gone == [gone |-> TRUE]
IsThere(row) == row # Gone

(* An operation: the function of services/ it calls, how it is started (or   *)
(* that only other pages do), what blocks it (nothing, a request of the kind *)
(* for a row, of this opening of the form ("held" also keeps the form open,  *)
(* "seen" takes it only for the row on the screen now), of any of the page's *)
(* buttons ("still": nor while it loads), or of its questions), whether the  *)
(* page reloads on success or puts the answered row in its place, shows the  *)
(* change before it is sent, and offers it not knowing if it can be done.    *)
Press(call) == [call |-> call, by |-> "press", guard |-> "none", reloads |-> TRUE, patches |-> FALSE,
                hopeful |-> FALSE, doubtful |-> FALSE]
Elsewhere == [Press("none") EXCEPT !.by = "elsewhere"]
Form(call) == [Press(call) EXCEPT !.by = "form"]
Confirm(call) == [Press(call) EXCEPT !.by = "confirm", !.guard = "dialog"]
Guarded(op, guard) == [op EXCEPT !.guard = guard]
Unread(op) == [op EXCEPT !.reloads = FALSE]
Patching(op) == [op EXCEPT !.reloads = FALSE, !.patches = TRUE]
Hopeful(op) == [op EXCEPT !.reloads = FALSE, !.hopeful = TRUE]
Doubtful(op) == [op EXCEPT !.doubtful = TRUE]

(* What a form of these fields may make of a row: it sends all its fields as *)
(* they were when it was opened but for the one the user changed, and leaves *)
(* the others as they are.                                                   *)
Sent(fields, saw, now) ==
    LET sends(values) == [f \in DOMAIN now |-> IF f \in DOMAIN fields THEN values[f] ELSE now[f]]
    IN {sends(saw)} \cup UNION {{sends([saw EXCEPT ![f] = v]) : v \in fields[f]} : f \in DOMAIN fields}
Edited(fields, saw, now) == IF now = Gone THEN {} ELSE Sent(fields, saw, now)
(* A row created where one has been meanwhile is another one.                *)
Created(now, rows) == IF now = Gone THEN rows ELSE {now}
Removed(now) == IF now = Gone THEN {} ELSE {Gone}
-----------------------------------------------------------------------------
(* The changing calls of services/planning.service.ts, by the first segment  *)
(* of their URLs.                                                            *)
CategoryCalls == {"createCategory", "updateCategory", "deleteCategory", "createRule", "deleteRule"}
PaymentMethodCalls == {"createPaymentMethod", "updatePaymentMethod", "deletePaymentMethod"}
RecurringCalls == {"createRecurring", "updateRecurring", "deleteRecurring", "generateRecurring"}
SubscriptionCalls == {"createSubscription", "updateSubscription", "deleteSubscription"}
SavingCalls == {"createSavingsGoal", "updateSavingsGoal", "depositToGoal", "deleteSavingsGoal"}
AssetCalls == {"createAsset", "updateAsset", "deleteAsset"}
FamilyCalls == {"createFamilyMember", "updateFamilyMember", "deleteFamilyMember"}
AlertCalls == {"markAlertRead", "markAllAlertsRead", "deleteAlert"}
(* Settings: looks alone are their own domain.                               *)
SettingCalls == {"updateSettings"}
LookCalls == {"updateLooks"}
(* services/finance.service.ts.                                              *)
ExpenseCalls == {"createExpense", "updateExpense", "deleteExpense", "quickAddExpense"}
IncomeCalls == {"createIncome", "updateIncome", "deleteIncome"}
BudgetCalls == {"upsertBudget", "copyBudgets", "deleteBudget"}
ReminderCalls == {"createReminder", "updateReminder", "deleteReminder"}
(* services/planning.service.ts, bank.                                       *)
BankCalls == {"createBankAccount", "setBankAnchor", "deleteBankAccount", "createBankTransaction", "deleteBankTransaction"}
ReconcileCalls == {"reconcileAuto", "reconcileIncome", "reconcileExpense", "reconcileLoan", "reconcileExclude", "reconcileReset"}
(* services/finance.service.ts, loans and card reports; future.service.ts,   *)
(* the cards themselves.                                                     *)
LoanCalls == {"createLoan", "updateLoan", "deleteLoan", "closeLoan"}
CreditCalls == {"confirmCreditImport", "deleteCreditImport", "updateCreditTransaction", "recategorizeCredit"}
CardCalls == {"createCreditCard", "updateCreditCard", "assignCreditCard", "assignTransactionCard"}
(* services/journey.service.ts, documents.service.ts, connections.service.ts.  *)
ImportCalls == {"uploadSession", "answerSession", "saveRow", "commitSession", "completeSession", "cancelSession"}
DocumentCalls == {"deleteDocument", "rollbackDocument"}
ConnectionCalls == {"createConnection", "updateCredentials", "syncConnection", "deleteConnection"}
CustomerCalls == {"createCrmCustomer", "updateCrmCustomer"}
(* A removal of a double is said to be of the records it removed; whoever    *)
(* hears of those hears of the assistant's own, too.                         *)
AssistantCalls == {"reviewDuplicate", "undoDuplicate"}
JourneyCalls == {"saveFunding", "saveProfile", "saveSituation", "confirmCoverage", "finishOnboarding", "decideCommitment",
                 "startCheckIn", "advanceCheckIn", "completeCheckIn"}
Domain(call) ==
    CASE call \in CategoryCalls -> "categories" [] call \in PaymentMethodCalls -> "payment-methods"
      [] call \in RecurringCalls -> "recurring" [] call \in SubscriptionCalls -> "subscriptions"
      [] call \in SavingCalls -> "savings" [] call \in AssetCalls -> "assets" [] call \in FamilyCalls -> "family"
      [] call \in AlertCalls -> "alerts" [] call \in SettingCalls -> "settings" [] call \in LookCalls -> "appearance"
      [] call \in ExpenseCalls -> "expenses" [] call \in IncomeCalls -> "incomes" [] call \in BudgetCalls -> "budgets"
      [] call \in BankCalls \cup ReconcileCalls -> "bank" [] call \in LoanCalls -> "loans" [] call \in CreditCalls \cup CardCalls -> "credit"
      [] call \in ImportCalls -> "imports" [] call \in DocumentCalls -> "documents" [] call \in ConnectionCalls -> "connections"
      [] call \in CustomerCalls -> "crm" [] call \in AssistantCalls -> "household-assistant"
      [] call \in JourneyCalls -> "journey" [] call \in ReminderCalls -> "reminders"
=============================================================================
