------------------------------ MODULE PagesHome -----------------------------
(***************************************************************************)
(* The pages of what is owed, of what comes in as files, and of the home:  *)
(* loans, cards, the funding plan, documents, connections, imports; people, *)
(* alerts, settings, the payments ahead, the weekly check, the first steps. *)
(***************************************************************************)
EXTENDS Operations, Integers

(* pages/LoansPage.tsx, components/loans/.  The form sends the status it was *)
(* opened with; a closed loan is kept.                                       *)
LoanStates == [status : {"active", "finished"}, source : {"manual", "statement"}, opening : {"contract", "reconstructed"}]
LoanForm == [status |-> {"active", "finished"}]
LoanReads == [loans |-> {"loans", "bank", "imports", "documents"}]
LoanViews == {"first", "closed"}
LoanListed(view, row) == view = "closed" \/ row.status # "finished"
LoanOps ==
    [edit   |-> Form("updateLoan"),
     create |-> Form("createLoan"),
     upload |-> Unread(Guarded(Press("uploadSession"), "page")),
     close  |-> Guarded(Form("closeLoan"), "form"),
     remove |-> Confirm("deleteLoan")]
LoanOffers(row) ==
    {"create", "upload"} \cup (IF row = Gone THEN {} ELSE {"edit"})
                         \cup (IF row # Gone /\ row.status # "finished" THEN {"close", "remove"} ELSE {})
LoanDoes(op, saw, now) ==
    LET owed == now # Gone /\ now.status # "finished" IN
    CASE op = "create" -> Created(now, [status : {"active"}, source : {"manual"}, opening : {"contract"}])
      [] op = "upload" -> {now}
      [] op = "edit" -> {[row EXCEPT !.opening = "contract"] : row \in Edited(LoanForm, saw, now)}
      [] op = "close" /\ owed -> {[now EXCEPT !.status = "finished"]}
      [] op = "remove" /\ owed -> {Gone}
      [] OTHER -> {}
-----------------------------------------------------------------------------
(* pages/CreditPage.tsx: a report and one of its transactions.  Financing is *)
(* not sorted into categories; a sorted row may teach a rule, which sorts    *)
(* what is still unsorted.                                                   *)
ReportStates == [confirmed : BOOLEAN, type : {"purchase", "financing"}, category : {"none", "food"}]
ReportReads == [imports |-> {"financial"}, cards |-> {"financial"}, charts |-> {"financial"}]
ReportViews == {"first", "unsorted"}
ReportListed(view, row) == view = "unsorted" => row.category = "none"
ReportOps ==
    [upload  |-> Unread(Guarded(Press("uploadSession"), "page")),
     confirm |-> Press("confirmCreditImport"),
     sort    |-> Press("updateCreditTransaction"),
     learn   |-> Form("createRule"),
     reapply |-> Press("recategorizeCredit"),
     remove  |-> Confirm("deleteCreditImport")]
ReportOffers(row) ==
    {"upload", "reapply"} \cup (IF row = Gone THEN {} ELSE {"remove"})
                          \cup (IF row # Gone /\ ~row.confirmed THEN {"confirm"} ELSE {})
                          \cup (IF row # Gone /\ row.type # "financing" THEN {"sort", "learn"} ELSE {})
ReportDoes(op, saw, now) ==
    LET there == now # Gone
        ruled == IF there /\ now.category = "none" /\ now.type # "financing" THEN {now, [now EXCEPT !.category = "food"]} ELSE {now}
    IN CASE op = "upload" -> {now}
         [] op \in {"learn", "reapply"} -> ruled
         [] op = "confirm" /\ there /\ ~now.confirmed -> {[now EXCEPT !.confirmed = TRUE]}
         [] op = "sort" /\ there -> {[now EXCEPT !.category = c] : c \in {"none", "food"}}
         [] op = "remove" -> Removed(now)
         [] OTHER -> {}

(* components/credit/CreditWallet.tsx: the cards, and which rows are whose.  *)
CardStates == [billingDay : {1}, rows : {"none", "assigned"}]
CardForm == [billingDay |-> {1, 2}]
CardReads == [wallet |-> {"credit", "imports", "documents", "categories"}]
CardKeyed == {"next month"}
CardViews == {"first", "unassigned", "next month"}
CardListed(view, row) == CASE view = "first" -> TRUE [] view = "unassigned" -> row.rows = "none" [] view = "next month" -> FALSE
CardOps ==
    [create |-> Guarded(Form("createCreditCard"), "page"),
     edit   |-> Guarded(Form("updateCreditCard"), "page"),
     report |-> Guarded(Press("assignCreditCard"), "page"),
     row    |-> Guarded(Press("assignTransactionCard"), "page")]
CardOffers(row) == {"create"} \cup IF row = Gone THEN {} ELSE {"edit", "report", "row"}
CardDoes(op, saw, now) ==
    CASE op = "create" -> Created(now, [billingDay : CardForm.billingDay, rows : {"none"}])
      [] op = "edit" -> Edited(CardForm, saw, now)
      [] op \in {"report", "row"} -> IF now = Gone THEN {} ELSE {[now EXCEPT !.rows = r] : r \in {"none", "assigned"}}
-----------------------------------------------------------------------------
(* components/picture/FundingPlan.tsx: only what was changed is sent, and    *)
(* the answered plan is put in place.                                        *)
FundingStates == [account : {"spend", "keep"}, reserve : {0}]
FundingReads == [funding |-> {"bank", "journey", "credit", "loans", "recurring", "subscriptions", "reminders"}]
FundingOps == [save |-> Guarded(Patching(Press("saveFunding")), "page")]
FundingOffers(row) == IF row = Gone THEN {} ELSE {"save"}
FundingDoes(op, saw, now) ==
    {[now EXCEPT !.account = a] : a \in {"spend", "keep"}} \cup {[now EXCEPT !.reserve = n] : n \in {0, 1}}
-----------------------------------------------------------------------------
(* pages/DocumentsPage.tsx.  Removal is offered for every document, and      *)
(* refused while any session of its file is on record; undoing is refused    *)
(* when what it links to is gone.                                            *)
DocumentStates == [status : {"imported", "logged"}, inSession : BOOLEAN, linked : BOOLEAN]
DocumentReads == [documents |-> {"documents", "imports", "credit", "loans", "bank"}]
DocumentOps ==
    [upload   |-> Unread(Guarded(Press("uploadSession"), "page")),
     rollback |-> Doubtful(Confirm("rollbackDocument")),
     remove   |-> Doubtful(Confirm("deleteDocument"))]
DocumentOffers(row) ==
    {"upload"} \cup (IF row = Gone THEN {} ELSE {"remove"})
               \cup (IF row # Gone /\ row.status = "imported" THEN {"rollback"} ELSE {})
DocumentDoes(op, saw, now) ==
    CASE op = "upload" -> {now}
      [] op = "remove" /\ now # Gone /\ ~now.inSession -> {Gone}
      [] op = "rollback" /\ now # Gone /\ now.status = "imported" /\ now.linked -> {[now EXCEPT !.status = "rolled_back"]}
      [] OTHER -> {}
-----------------------------------------------------------------------------
(* pages/ConnectionsPage.tsx.  Nothing is offered while a sync is under way, *)
(* though the server refuses another sync only; new credentials have not     *)
(* been verified.                                                            *)
ConnectionStates == [sync : {"none", "running", "done", "failed"}, verified : {TRUE}]
ConnectionReads == [connections |-> {"connections"}]
ConnectionOps ==
    [create      |-> Guarded(Patching(Form("createConnection")), "form"),
     sync        |-> Patching(Press("syncConnection")),
     credentials |-> Patching(Form("updateCredentials")),
     remove      |-> Patching(Confirm("deleteConnection"))]
OfferedWhileActive(row) ==   \* mutant: the buttons of a connection that is being synced stay
    {"create"} \cup IF row = Gone THEN {} ELSE {"sync", "credentials", "remove"}
IsActive(row) == row.sync = "running"
ConnectionOffers(row) == {"create"} \cup IF row = Gone THEN {} ELSE IF IsActive(row) THEN {} ELSE {"sync", "credentials", "remove"}
ConnectionDoes(op, saw, now) ==
    CASE op = "create" -> Created(now, [sync : {"none"}, verified : {FALSE}])
      [] op = "sync" /\ now # Gone /\ ~IsActive(now) -> {[now EXCEPT !.sync = "running"]}
      [] op = "credentials" /\ now # Gone -> {[now EXCEPT !.verified = FALSE]}
      [] op = "remove" /\ now # Gone -> {Gone}
      [] OTHER -> {}
-----------------------------------------------------------------------------
(* pages/ImportJourneyPage.tsx and ImportRowsReview.tsx: one session, read   *)
(* once and then replaced by the answer of each step.  The version says what *)
(* was seen; editing, adding and finishing also look at the books, which may *)
(* have moved since the session was prepared or added.                       *)
Editable == {"uploaded", "processing", "failed", "needs_input", "ready_for_review"}
ImportStates ==
    [status : Editable \cup {"review", "completed", "cancelled"}, pending : {0}, moved : BOOLEAN, version : {0}] \cup
    [status : {"ready_for_review"}, pending : {1}, moved : {FALSE}, version : {0}]
ImportReads == [session |-> {}]
ImportOps ==
    [answer   |-> Guarded(Patching(Press("answerSession")), "page"),
     save     |-> Doubtful(Guarded(Patching(Form("saveRow")), "page")),
     commit   |-> Doubtful(Guarded(Patching(Press("commitSession")), "page")),
     complete |-> Doubtful(Guarded(Patching(Press("completeSession")), "page")),
     cancel   |-> Guarded(Patching(Press("cancelSession")), "page")]
ImportOffers(row) ==
    IF row = Gone THEN {} ELSE
    (IF row.status \in Editable THEN {"answer", "cancel"} ELSE {})
    \cup (IF row.status \in {"needs_input", "ready_for_review"} THEN {"save"} ELSE {})
    \cup (IF row.status = "ready_for_review" /\ row.pending = 0 THEN {"commit"} ELSE {})
    \cup (IF row.status = "review" THEN {"complete"} ELSE {})
ImportDoes(op, saw, now) ==
    LET next(status, pending) == [status |-> status, pending |-> pending, moved |-> FALSE, version |-> now.version + 1]
        seen == now.version = saw.version
        stands == seen /\ ~now.moved
        added == now.status \in {"review", "completed"}
    IN CASE op = "answer" /\ seen /\ now.status \in Editable ->
              {next("failed", 0), next("needs_input", 0), next("ready_for_review", 0), next("ready_for_review", 1)}
         [] op = "save" /\ stands /\ now.status \in {"needs_input", "ready_for_review"} -> {next(now.status, 0)}
         [] op = "commit" /\ stands /\ now.status = "ready_for_review" /\ now.pending = 0 -> {next("review", 0)}
         [] op = "commit" /\ added -> {now}
         [] op = "complete" /\ added /\ ~now.moved -> {next("completed", 0)}
         [] op = "cancel" /\ now.status \in Editable -> {next("cancelled", 0)}
         [] OTHER -> {}
-----------------------------------------------------------------------------
(* crm/pages/CrmCustomersPage.tsx and CrmCustomerDetailPage.tsx, for an      *)
(* administrator.  One's own role and status cannot be changed there, but    *)
(* another administrator can; who was, is refused everything.                *)
CustomerStates == {row \in [role : {"ADMIN", "USER"}, status : {"active", "inactive"}, self : BOOLEAN] :
                     row.self => row.role = "ADMIN" /\ row.status = "active"}
MayAct(row) == row.self => row.role = "ADMIN" /\ row.status = "active"
CustomerForm(row) == IF row.self THEN [role |-> {}] ELSE [role |-> {"ADMIN", "USER"}]
CustomerReads == [customers |-> {"crm"}]
CustomerViews == {"first", "with activity"}
CustomerListed(view, row) == MayAct(row) /\ (view = "with activity" => row.status = "active")
CustomerOps ==
    [create    |-> Doubtful(Guarded(Form("createCrmCustomer"), "form")),
     edit      |-> Guarded(Form("updateCrmCustomer"), "form"),
     toggle    |-> Confirm("updateCrmCustomer"),
     colleague |-> Elsewhere]
CustomerOffers(row) ==
    {"create"} \cup (IF row = Gone THEN {} ELSE {"edit", "colleague"} \cup IF row.self THEN {} ELSE {"toggle"})
CustomerDoes(op, saw, now) ==
    LET acts == IF now = Gone THEN FALSE ELSE MayAct(now) IN
    CASE op = "create" -> Created(now, [role : {"ADMIN", "USER"}, status : {"active"}, self : {FALSE}])
      [] op = "colleague" /\ now # Gone ->
           {[now EXCEPT !.role = r, !.status = s] : r \in {"ADMIN", "USER"}, s \in {"active", "inactive"}}
      [] op = "edit" /\ acts -> {row \in Edited(CustomerForm(saw), saw, now) : row.self => row.role = "ADMIN"}
      [] op = "toggle" /\ acts ->
           {row \in {[now EXCEPT !.status = IF saw.status = "active" THEN "inactive" ELSE "active"]} : MayAct(row)}
      [] OTHER -> {}
-----------------------------------------------------------------------------
(* pages/AlertsPage.tsx.  Reading the list scans for news first.             *)
AlertStates == [isRead : BOOLEAN]
AlertReads == [alerts |-> {"alerts", "financial"}]
AlertOps == [readAll |-> Press("markAllAlertsRead"), read |-> Press("markAlertRead"), remove |-> Press("deleteAlert"),
             scan |-> Elsewhere]
AlertOffers(row) ==
    IF row = Gone THEN {"scan"} ELSE {"remove"} \cup IF row.isRead THEN {} ELSE {"readAll", "read"}
AlertDoes(op, saw, now) ==
    CASE op = "readAll" -> {IF now = Gone THEN now ELSE [now EXCEPT !.isRead = TRUE]}
      [] op = "read" /\ now # Gone -> {[now EXCEPT !.isRead = TRUE]}
      [] op = "remove" -> Removed(now)
      [] op = "scan" -> {IF now = Gone THEN [isRead |-> FALSE] ELSE now}
      [] OTHER -> {}
-----------------------------------------------------------------------------
(* pages/SettingsPage.tsx and context/ThemeContext.tsx.  A field is shown as *)
(* chosen and then sent by itself.                                           *)
SettingsStates == [currency : {"ILS", "USD"}, dateFormat : {"DD/MM/YYYY", "YYYY-MM-DD"}]
SettingsReads == [settings |-> {"settings", "appearance"}]
SettingsOps ==
    [shekels |-> Hopeful(Press("updateLooks")), dollars |-> Hopeful(Press("updateLooks")),
     yearFirst |-> Hopeful(Press("updateLooks")), theme |-> Unread(Press("updateLooks"))]
SettingsOffers(row) == {"theme"} \cup IF row = Gone THEN {} ELSE {"shekels", "dollars", "yearFirst"}
SettingsDoes(op, saw, now) ==
    CASE op = "shekels" -> {[now EXCEPT !.currency = "ILS"]}
      [] op = "dollars" -> {[now EXCEPT !.currency = "USD"]}
      [] op = "yearFirst" -> {[now EXCEPT !.dateFormat = "YYYY-MM-DD"]}
      [] op = "theme" -> {now}
-----------------------------------------------------------------------------
(* pages/CommitmentsPage.tsx.  What is decided is the payment as it was      *)
(* shown; whether another payment covers it, only the server knows.          *)
AgendaStates == [print : {0}, covered : BOOLEAN, decision : {"none", "unpaid"}]
AgendaReads == [events |-> {"financial"}]
AgendaOps ==
    [decide |-> Guarded(Form("decideCommitment"), "held"),
     fold   |-> Doubtful(Guarded(Form("decideCommitment"), "held")),
     moves  |-> Elsewhere]
AgendaOffers(row) == IF row = Gone THEN {} ELSE {"decide", "fold", "moves"}
AgendaDoes(op, saw, now) ==
    LET fits == IF now = Gone THEN FALSE ELSE now.print = saw.print IN
    CASE op = "moves" -> {[now EXCEPT !.print = 1 - now.print], Gone}
      [] op = "decide" /\ fits -> {[now EXCEPT !.decision = d] : d \in {"unpaid", "paid"}}
      [] op = "fold" /\ fits /\ now.covered -> {[now EXCEPT !.decision = "duplicate"]}
      [] OTHER -> {}
-----------------------------------------------------------------------------
(* pages/CheckInPage.tsx.  The last step but one is offered although         *)
(* something blocking has come up since; the server refuses it.              *)
NoDraft == -1
CheckInStates == [step : {NoDraft, 0, 1, 2, 3}, blocked : BOOLEAN, token : {0}]
CheckInReads == [view |-> {"financial"}]
CheckInOps ==
    [start    |-> Guarded(Press("startCheckIn"), "page"),
     advance  |-> Guarded(Press("advanceCheckIn"), "page"),
     toAction |-> Doubtful(Guarded(Press("advanceCheckIn"), "page")),
     complete |-> Guarded(Press("completeCheckIn"), "page"),
     changes  |-> Elsewhere]
CheckInOffers(row) ==
    IF row = Gone THEN {}
    ELSE {"changes"} \cup (IF row.step = NoDraft THEN {"start"} ELSE {})
                     \cup (IF row.step = 0 \/ (row.step = 1 /\ ~row.blocked) THEN {"advance"} ELSE {})
                     \cup (IF row.step = 2 THEN {"toAction"} ELSE {})
                     \cup (IF row.step = 3 /\ ~row.blocked THEN {"complete"} ELSE {})
CheckInDoes(op, saw, now) ==
    CASE op = "changes" -> {[now EXCEPT !.token = 1 - now.token, !.blocked = b] : b \in BOOLEAN}
      [] op = "start" -> {IF now.step = NoDraft THEN [now EXCEPT !.step = 0] ELSE now}
      [] op \in {"advance", "toAction"} ->
           IF now.step # saw.step \/ (saw.step >= 1 /\ now.blocked) THEN {} ELSE {[now EXCEPT !.step = saw.step + 1]}
      [] op = "complete" ->
           IF now.step = NoDraft THEN {now}
           ELSE IF now.step # 3 \/ now.token # saw.token \/ now.blocked THEN {}
           ELSE {[now EXCEPT !.step = NoDraft]}
-----------------------------------------------------------------------------
(* pages/FinancialDataPage.tsx, OnboardingPage.tsx and the panels they show. *)
(* What was checked is the data of the version on the screen.                *)
Unchecked == -1
SetupStates == [scope : BOOLEAN, useful : BOOLEAN, manualOnly : {FALSE}, data : {0}, checked : {Unchecked, 0}, done : {FALSE}]
SetupReads == [status |-> {"financial"}]
SetupOps ==
    [situation   |-> Guarded(Press("saveSituation"), "row"),
     scope       |-> Guarded(Press("saveProfile"), "page"),
     anchor      |-> Guarded(Press("setBankAnchor"), "page"),
     confirm     |-> Guarded(Press("confirmCoverage"), "still"),
     finish      |-> Doubtful(Guarded(Press("finishOnboarding"), "page")),
     finishEmpty |-> Guarded(Press("finishOnboarding"), "page")]
Sufficient(row) == row.scope /\ row.checked = row.data
SetupOffers(row) ==
    IF row = Gone THEN {}
    ELSE {"situation", "scope", "anchor"} \cup (IF row.scope THEN {"confirm"} ELSE {})
         \cup (IF Sufficient(row) /\ ~row.done THEN {"finish"} ELSE {})
         \cup (IF Sufficient(row) /\ ~row.done /\ row.manualOnly /\ ~row.useful THEN {"finishEmpty"} ELSE {})
SetupDoes(op, saw, now) ==
    LET changed == [now EXCEPT !.data = now.data + 1] IN
    CASE op = "situation" -> {changed}
      [] op = "scope" -> {[changed EXCEPT !.scope = TRUE, !.manualOnly = b] : b \in BOOLEAN}
      [] op = "anchor" -> {[changed EXCEPT !.useful = TRUE]}
      [] op = "confirm" -> IF saw.data = now.data THEN {[now EXCEPT !.checked = now.data]} ELSE {}
      [] op \in {"finish", "finishEmpty"} ->
           IF Sufficient(now) /\ (now.useful \/ (now.manualOnly /\ op = "finishEmpty")) THEN {[now EXCEPT !.done = TRUE]} ELSE {}
-----------------------------------------------------------------------------
(* pages/CalendarPage.tsx and ReminderForm.tsx: a month drawn from three     *)
(* lists.                                                                    *)
ScheduleStates == [kind : {"reminder", "recurring", "subscription"}, month : {"first", "next month"}, monthly : BOOLEAN, active : BOOLEAN]
ScheduleReads == [schedule |-> {"financial"}]
ScheduleViews == {"first", "next month"}
ScheduleListed(view, row) ==
    LET falls == row.month = view IN
    CASE row.kind = "reminder" -> row.active /\ falls
      [] row.kind = "recurring" -> row.monthly \/ falls
      [] row.kind = "subscription" -> row.active /\ (row.monthly \/ falls)
ScheduleOps == [create |-> Guarded(Form("createReminder"), "form"), moves |-> Elsewhere]
ScheduleOffers(row) == {"create"} \cup IF row = Gone THEN {} ELSE {"moves"}
ScheduleDoes(op, saw, now) ==
    CASE op = "create" -> Created(now, [kind : {"reminder"}, month : ScheduleViews, monthly : {FALSE}, active : {TRUE}])
      [] op = "moves" -> {[now EXCEPT !.month = m] : m \in ScheduleViews}
-----------------------------------------------------------------------------
(* components/assistant/DuplicateReview.tsx.  A decision is about the        *)
(* records as they are on the screen when they are confirmed, an undo about  *)
(* the decision as the history showed it.                                    *)
DoubleStates == [version : {0}, decision : {"none", "separate", "removed"}]
DoubleReads == [evidence |-> {"financial"}, history |-> {"financial"}]
DoubleOps ==
    [review |-> Guarded(Form("reviewDuplicate"), "seen"),
     undo   |-> Guarded(Form("undoDuplicate"), "held"),
     edited |-> Elsewhere]
DoubleOffers(row) == IF row = Gone THEN {} ELSE {"edited"} \cup IF row.decision = "none" THEN {"review"} ELSE {"undo"}
DoubleDoes(op, saw, now) ==
    LET current == now.version = saw.version IN
    CASE op = "edited" -> {[now EXCEPT !.version = 1 - now.version]}
      [] op = "review" -> IF current /\ now.decision = "none" THEN {[now EXCEPT !.decision = d] : d \in {"separate", "removed"}} ELSE {}
      [] op = "undo" -> IF current /\ now.decision # "none" THEN {[now EXCEPT !.decision = "none"]} ELSE {}
=============================================================================
