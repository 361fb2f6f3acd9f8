----------------------------- MODULE PagesMoney -----------------------------
(***************************************************************************)
(* The pages of the money and of what is planned with it: what each reads, *)
(* lists and offers, and what the server makes of it.                      *)
(***************************************************************************)
EXTENDS Operations, Integers

(* pages/ExpensesPage.tsx and ExpenseEditor.tsx.  Rows of a card report are  *)
(* read-only here.                                                           *)
ExpenseStates == [source : {"manual", "credit"}, category : {"food", "home"}]
ExpenseForm == [category |-> {"food", "home"}]
ExpenseReads == [expenses |-> {"financial"}]
ExpenseKeyed == {"food", "next month"}
ExpenseViews == {"first", "food", "next month"}
ExpenseListed(view, row) == CASE view = "first" -> TRUE [] view = "food" -> row.category = "food" [] view = "next month" -> FALSE
ExpenseOps ==
    [edit   |-> Guarded(Form("updateExpense"), "form"),
     create |-> Guarded(Form("createExpense"), "form"),
     remove |-> Confirm("deleteExpense")]
ExpenseOffers(row) == {"create"} \cup IF row = Gone THEN {} ELSE IF row.source = "credit" THEN {} ELSE {"edit", "remove"}
ExpenseDoes(op, saw, now) ==
    CASE op = "create" -> Created(now, [source : {"manual"}, category : ExpenseForm.category])
      [] op = "edit" -> Edited(ExpenseForm, saw, now)
      [] op = "remove" -> Removed(now)
-----------------------------------------------------------------------------
(* pages/IncomesPage.tsx.                                                    *)
IncomeStates == [type : {"salary", "other"}, recurring : {FALSE}]
IncomeForm == [type |-> {"salary", "other"}]
IncomeReads == [incomes |-> {"financial"}]
IncomeKeyed == {"salary", "next month"}
IncomeViews == {"first", "salary", "next month"}
IncomeListed(view, row) == CASE view = "first" -> TRUE [] view = "salary" -> row.type = "salary" [] view = "next month" -> FALSE
IncomeOps ==
    [edit   |-> Guarded(Form("updateIncome"), "page"),
     create |-> Guarded(Form("createIncome"), "page"),
     remove |-> Confirm("deleteIncome")]
IncomeOffers(row) == {"create"} \cup IF row = Gone THEN {} ELSE {"edit", "remove"}
IncomeDoes(op, saw, now) ==
    CASE op = "create" -> Created(now, IncomeStates)
      [] op = "edit" -> Edited(IncomeForm, saw, now)
      [] op = "remove" -> Removed(now)
-----------------------------------------------------------------------------
(* pages/BankPage.tsx: its accounts, and the rows of the chosen one.  A file *)
(* taken in leaves the page; the balance the bank shows is asked for where   *)
(* no statement prints one.                                                  *)
AccountStates == [basis : {"accumulated", "statement"}, anchored : {FALSE}]
AccountReads == [accounts |-> {"financial"}]
AccountOps ==
    [create |-> Form("createBankAccount"),
     upload |-> Unread(Guarded(Press("uploadSession"), "page")),
     anchor |-> Form("setBankAnchor"),
     remove |-> Confirm("deleteBankAccount")]
AccountOffers(row) ==
    {"create"} \cup (IF row = Gone THEN {} ELSE {"upload", "remove"})
               \cup (IF row # Gone /\ row.basis = "accumulated" THEN {"anchor"} ELSE {})
AccountDoes(op, saw, now) ==
    CASE op = "create" -> Created(now, [basis : {"accumulated"}, anchored : {FALSE}])
      [] op = "upload" -> {now}
      [] op = "anchor" -> IF now = Gone THEN {} ELSE {[now EXCEPT !.anchored = TRUE]}
      [] op = "remove" -> Removed(now)

MovementStates == [type : {"deposit", "withdrawal"}]
MovementReads == [transactions |-> {"financial"}]
MovementKeyed == {"other account"}
MovementViews == {"first", "other account", "deposits"}
MovementListed(view, row) ==
    CASE view = "first" -> TRUE [] view = "deposits" -> row.type = "deposit" [] view = "other account" -> FALSE
MovementOps == [create |-> Form("createBankTransaction"), remove |-> Confirm("deleteBankTransaction")]
MovementOffers(row) == {"create"} \cup IF row = Gone THEN {} ELSE {"remove"}
MovementDoes(op, saw, now) == IF op = "create" THEN Created(now, MovementStates) ELSE Removed(now)
-----------------------------------------------------------------------------
(* pages/BankReconcilePage.tsx.  What a row is offered follows from what it  *)
(* is and whether it waits, was dealt with, is to be looked at or left out.  *)
ReconcileStates == [kind : {"deposit", "standard", "loan"}, status : {"pending", "review", "done", "excluded"}]
ReconcileReads == [reconciliation |-> {"financial"}]
ReconcileOps ==
    [auto    |-> Guarded(Press("reconcileAuto"), "page"),
     income  |-> Guarded(Press("reconcileIncome"), "page"),
     expense |-> Guarded(Press("reconcileExpense"), "page"),
     loan    |-> Guarded(Press("reconcileLoan"), "page"),
     exclude |-> Guarded(Press("reconcileExclude"), "page"),
     reset   |-> Guarded(Press("reconcileReset"), "page")]
IncomeRow(row) == IF row.status = "pending" /\ row.kind = "deposit" THEN {"income", "exclude"} ELSE {}
SpendRow(row) == IF row.status = "pending" /\ row.kind = "standard" THEN {"expense", "exclude"} ELSE {}
LoanGroupCard(row) == IF row.kind = "loan" THEN {"loan"} ELSE {}
ReviewRow(row) == IF row.status \in {"pending", "review"} THEN {"exclude", "reset"} ELSE {}
DoneRow(row) == IF row.status = "done" THEN {"reset"} ELSE {}
ReconcileOffers(row) ==
    IF row = Gone THEN {} ELSE {"auto"} \cup IncomeRow(row) \cup SpendRow(row) \cup LoanGroupCard(row) \cup ReviewRow(row) \cup DoneRow(row)
ReconcileDoes(op, saw, now) ==
    LET becomes(status) == [now EXCEPT !.status = status]
        waits == now # Gone /\ now.status \in {"pending", "excluded"}
        refused == (op = "income" /\ (~waits \/ now.kind # "deposit")) \/ (op = "expense" /\ (~waits \/ now.kind # "standard"))
    IN IF now = Gone \/ refused THEN {} ELSE
       CASE op = "auto" -> IF now.status = "pending" THEN {becomes("done"), becomes("review")} ELSE {now}
         [] op \in {"income", "expense", "loan"} -> {becomes("done")}
         [] op = "exclude" -> {becomes("excluded")}
         [] op = "reset" -> {becomes("pending")}
-----------------------------------------------------------------------------
(* pages/SubscriptionsPage.tsx.  A candidate is what the card rows suggest;  *)
(* added twice it is there twice.  The form sends the status it was opened   *)
(* with.                                                                     *)
SubscriptionStates == [status : {"candidate", "active", "inactive"}, frequency : {"monthly"}, copies : {1}]
SubscriptionForm == [frequency |-> {"monthly", "yearly"}, status |-> {}]
SubscriptionReads == [items |-> {"financial"}, candidates |-> {"financial"}]
SubscriptionOps ==
    [add    |-> Press("createSubscription"),
     toggle |-> Press("updateSubscription"),
     edit   |-> Form("updateSubscription"),
     create |-> Form("createSubscription"),
     remove |-> Confirm("deleteSubscription")]
SubscriptionOffers(row) ==
    IF row = Gone THEN {"create"} ELSE IF row.status = "candidate" THEN {"add"} ELSE {"toggle", "edit", "remove"}
SubscriptionDoes(op, saw, now) ==
    LET stored == now # Gone /\ now.status # "candidate" IN
    CASE op = "create" -> Created(now, [status : {"active"}, frequency : SubscriptionForm.frequency, copies : {1}])
      [] op = "add" -> {IF stored THEN [now EXCEPT !.copies = 2] ELSE [saw EXCEPT !.status = "active"]}
      [] op = "toggle" /\ stored -> {[now EXCEPT !.status = IF saw.status = "active" THEN "inactive" ELSE "active"]}
      [] op = "edit" /\ stored -> Edited(SubscriptionForm, saw, now)
      [] op = "remove" /\ stored -> {Gone}
      [] OTHER -> {}
-----------------------------------------------------------------------------
(* pages/RecurringPage.tsx.  A payment found on a statement is not turned    *)
(* into expenses again.                                                      *)
RecurringStates == [frequency : {"monthly", "yearly"}, detected : BOOLEAN, generated : {FALSE}]
RecurringForm == [frequency |-> {"monthly", "yearly"}]
RecurringReads == [recurring |-> {"financial"}]
RecurringOps ==
    [edit     |-> Form("updateRecurring"),
     create   |-> Form("createRecurring"),
     remove   |-> Confirm("deleteRecurring"),
     generate |-> Unread(Press("generateRecurring"))]
RecurringOffers(row) == {"create", "generate"} \cup IF row = Gone THEN {} ELSE {"edit", "remove"}
RecurringDoes(op, saw, now) ==
    CASE op = "create" -> Created(now, [frequency : RecurringForm.frequency, detected : {FALSE}, generated : {FALSE}])
      [] op = "edit" -> Edited(RecurringForm, saw, now)
      [] op = "remove" -> Removed(now)
      [] op = "generate" -> {IF now = Gone \/ now.detected THEN now ELSE [now EXCEPT !.generated = TRUE]}
-----------------------------------------------------------------------------
(* pages/BudgetsPage.tsx and MonthProgressPanel.tsx.  The form names a       *)
(* category, not a row; the overrun toggle hides what is within its budget.  *)
BudgetStates == [spent : {1, 2}, amount : {1, 2}]
Over(row) == row.spent > row.amount
BudgetForm == [amount |-> {1, 2}]
BudgetReads == [budgets |-> {"financial"}, progress |-> {"financial"}]
BudgetKeyed == {"next month"}
BudgetViews == {"first", "overrun", "next month"}
BudgetListed(view, row) == CASE view = "first" -> TRUE [] view = "overrun" -> Over(row) [] view = "next month" -> FALSE
BudgetOps ==
    [set    |-> Form("upsertBudget"),
     copy   |-> Press("copyBudgets"),
     target |-> Guarded(Press("updateSettings"), "row"),
     remove |-> Confirm("deleteBudget")]
BudgetOffers(row) == {"set", "copy", "target"} \cup IF row = Gone THEN {} ELSE {"remove"}
BudgetDoes(op, saw, now) ==
    CASE op = "set" -> IF now = Gone THEN BudgetStates ELSE Sent(BudgetForm, now, now)
      [] op = "copy" -> IF now = Gone THEN BudgetStates \cup {Gone} ELSE {now}
      [] op = "target" -> {now}
      [] op = "remove" -> Removed(now)
-----------------------------------------------------------------------------
(* pages/SavingsPage.tsx.  What was saved towards a payoff goal is read from *)
(* its loan; the form of any other goal sends back what was saved as it was  *)
(* when it was opened.                                                       *)
SavingStates == [goalType : {"savings", "debt_payoff"}, saved : {0, 1}, monthlyTarget : {0}]
SavingForm(goalType) ==
    IF goalType = "debt_payoff" THEN [monthlyTarget |-> {0, 1}] ELSE [monthlyTarget |-> {0, 1}, saved |-> {0, 1}]
SavingReads == [goals |-> {"financial"}, loans |-> {"loans"}]
SavingOps ==
    [edit    |-> Form("updateSavingsGoal"),
     create  |-> Form("createSavingsGoal"),
     deposit |-> Form("depositToGoal"),
     remove  |-> Confirm("deleteSavingsGoal")]
SavingOffers(row) ==
    {"create"} \cup (IF row = Gone THEN {} ELSE {"edit", "remove"})
               \cup (IF row # Gone /\ row.goalType # "debt_payoff" THEN {"deposit"} ELSE {})
SavingDoes(op, saw, now) ==
    LET sends == SavingForm(saw.goalType) IN
    CASE op = "create" -> Created(now, [goalType : {"savings", "debt_payoff"}, saved : {0}, monthlyTarget : {0, 1}])
      [] op = "edit" -> IF now = Gone THEN {} ELSE IF now.goalType = "debt_payoff" /\ "saved" \in DOMAIN sends THEN {}
                        ELSE Sent(sends, saw, now)
      [] op = "deposit" -> IF now = Gone \/ now.goalType = "debt_payoff" THEN {}
                           ELSE {[now EXCEPT !.saved = n] : n \in {now.saved + 1, IF now.saved > 0 THEN now.saved - 1 ELSE 0}}
      [] op = "remove" -> Removed(now)
-----------------------------------------------------------------------------
(* pages/AssetsPage.tsx.                                                     *)
AssetStates == [assetType : {"investment", "pension"}, currentValue : {1}]
AssetForm == [assetType |-> {"investment", "pension"}, currentValue |-> {1, 2}]
AssetReads == [assets |-> {"financial"}, netWorth |-> {"financial"}]
AssetOps == [edit |-> Form("updateAsset"), create |-> Form("createAsset"), remove |-> Confirm("deleteAsset")]
AssetOffers(row) == {"create"} \cup IF row = Gone THEN {} ELSE {"edit", "remove"}
AssetDoes(op, saw, now) ==
    CASE op = "create" -> Created(now, AssetStates)
      [] op = "edit" -> Edited(AssetForm, saw, now)
      [] op = "remove" -> Removed(now)
-----------------------------------------------------------------------------
(* pages/CategoriesRulesPage.tsx.  What everyone has (no owner) is not       *)
(* offered for removal.                                                      *)
CategoryStates == [kind : {"category", "rule"}, owned : BOOLEAN]
CategoryReads == [categories |-> {"financial"}, rules |-> {"financial"}]
CategoryOps ==
    [addCategory    |-> Form("createCategory"),
     addRule        |-> Form("createRule"),
     removeCategory |-> Confirm("deleteCategory"),
     removeRule     |-> Confirm("deleteRule")]
CategoryOffers(row) ==
    {"addCategory", "addRule"} \cup
    (IF row = Gone THEN {} ELSE IF ~row.owned THEN {} ELSE IF row.kind = "rule" THEN {"removeRule"} ELSE {"removeCategory"})
CategoryDoes(op, saw, now) ==
    CASE op = "addCategory" -> Created(now, {[kind |-> "category", owned |-> TRUE]})
      [] op = "addRule" -> Created(now, {[kind |-> "rule", owned |-> TRUE]})
      [] op = "removeCategory" -> IF now = Gone THEN {} ELSE IF ~now.owned THEN {} ELSE {Gone}
      [] op = "removeRule" -> Removed(now)
-----------------------------------------------------------------------------
(* pages/PaymentMethodsPage.tsx.                                             *)
MethodStates == [type : {"credit_card", "cash"}, owned : BOOLEAN]
MethodForm == [type |-> {"credit_card", "cash"}]
MethodReads == [methods |-> {"financial"}]
MethodOps == [edit |-> Form("updatePaymentMethod"), create |-> Form("createPaymentMethod"), remove |-> Confirm("deletePaymentMethod")]
MethodOffers(row) == {"create"} \cup IF row = Gone THEN {} ELSE IF row.owned THEN {"edit", "remove"} ELSE {}
MethodDoes(op, saw, now) ==
    LET own == IF now = Gone THEN FALSE ELSE now.owned IN
    CASE op = "create" -> Created(now, [type : MethodForm.type, owned : {TRUE}])
      [] op = "edit" -> IF own THEN Sent(MethodForm, saw, now) ELSE {}
      [] op = "remove" -> IF own THEN {Gone} ELSE {}
-----------------------------------------------------------------------------
(* pages/FamilyPage.tsx and FamilyMemberWizard.tsx.  A relation is set or    *)
(* changed, never cleared; a member whose income could not be stored is      *)
(* there, and finishing the wizard again adds it again.                      *)
FamilyStates == [relation : {"none", "spouse"}, copies : {1}]
FamilyForm == [relation |-> {"none", "spouse", "child"}]
FamilyReads == [members |-> {"financial"}]
FamilyOps ==
    [edit   |-> Form("updateFamilyMember"),
     create |-> Guarded(Form("createFamilyMember"), "form"),
     remove |-> Confirm("deleteFamilyMember")]
FamilyOffers(row) == {"create"} \cup IF row = Gone THEN {} ELSE {"edit", "remove"}
FamilyDoes(op, saw, now) ==
    CASE op = "create" -> IF now = Gone THEN [relation : FamilyForm.relation, copies : {1}] ELSE {[now EXCEPT !.copies = 2]}
      [] op = "edit" -> {IF row # Gone /\ row.relation = "none" THEN now ELSE row : row \in Edited(FamilyForm, saw, now)}
      [] op = "remove" -> Removed(now)
=============================================================================
