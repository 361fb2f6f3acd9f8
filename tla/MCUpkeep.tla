------------------------------- MODULE MCUpkeep -------------------------------
(* Instances of the components that read what the household brings and say   *)
(* what needs its attention; each behaviour exercises the one in focus, the  *)
(* others stay as they began.                                                *)
EXTENDS Attention, TLC

CONSTANTS food, fun, mortgage, shop, g1, page, home,
          employer, transfer, principalWord, interestWord, overdraft, mixed, fee, loan7, totalWord, opening,
          acc, gone, visa, master, plan, p1, p2, p3, p4, None

VARIABLES focus,
          loan, rows, today, uploads, edited, source,
          file, strict, stage, statement,
          dropped, answers, session,
          household, edits

(* Alerts: a calm household, overrun budgets, a duplicate that is seen, is   *)
(* settled or is cut off, and an expensive loan that never ends.             *)
Budget(i, n, used) == [id |-> i, name |-> n, used |-> used, amount |-> 100]
Owed(i, n, rate, ends, told) == [id |-> i, name |-> n, rate |-> rate, ends |-> ends, statement |-> told]
Calm == [budgets |-> {Budget(1, food, 90), Budget(2, fun, 20)}, loans |-> {Owed(1, mortgage, 7, TRUE, TRUE)},
         day |-> [count |-> 2, total |-> 19], total |-> 100, income |-> 5, expense |-> 5, uncategorized |-> 4,
         history |-> 10, average |-> 100, charges |-> {[id |-> 1, name |-> shop, amount |-> 300]}, groups |-> {}, limited |-> FALSE,
         bank |-> [unresolved |-> 0, pending |-> 1, coarse |-> 1], drafts |-> 1, reminders |-> 2]
Overrun == [Calm EXCEPT !.budgets = {Budget(1, food, 101), Budget(2, fun, 120)}, !.day.total = 20]
Doubled == [Calm EXCEPT !.budgets = {Budget(2, fun, 120)}, !.groups = {g1}]
CutOff == [Doubled EXCEPT !.groups = {}, !.limited = TRUE, !.bank.unresolved = 1]
Dear == [Calm EXCEPT !.budgets = {}, !.charges = {[id |-> i, name |-> shop, amount |-> 300 + i] : i \in 1..2},
                     !.loans = {Owed(1, mortgage, 8, FALSE, FALSE)}, !.groups = {g1}]
FiveSituations == {Calm, Overrun, Doubled, CutOff, Dear}

(* A schedule of three payments, from one of them on, in another order, in   *)
(* columns that moved or without some of them, with a row lost at most; and  *)
(* the usual one, whole or from the second payment on, with a cell that      *)
(* cannot be read, is blank, or is misprinted by a little or by much.        *)
Label(c) == [is |-> "label", label |-> c]
Text == [is |-> "text"]
Usual == <<"number", "date", "principal", "interest", "total", "balance">>
Orders == {Usual, <<"extra", "date", "number", "balance", "interest", "principal", "total">>, SubSeq(Usual, 1, 4) \o <<"balance">>,
           SubSeq(Usual, 1, 4)}
Payment(n, p, i, b) == [number |-> n, principal |-> p, interest |-> i, total |-> p + i, balance |-> b]
Table == <<Payment(1, 380, 20, 620), Payment(2, 388, 12, 232), Payment(3, 232, 5, 0)>>
Tables == {SubSeq(Table, k, 3) : k \in 1..3} \cup {<<Table[2], Table[3], Table[1]>>}
Lost(table) == [is : {"none"}, column : {"none"}, at : {0}] \cup [is : {"row"}, column : {"row"}, at : DOMAIN table]
Misread(table) ==
    [is : {"text", "blank"}, column : Range(Usual), at : DOMAIN table]
      \cup [is : {"little", "much"}, column : Range(Usual) \ {"date"}, at : DOMAIN table]
Shown(c, r, wrong) ==
    CASE c = "extra" \/ wrong = "text" \/ (c = "date" /\ wrong = "blank") -> Text
      [] c = "date" /\ wrong = "none" -> [is |-> "date", value |-> r.number]
      [] c # "date" /\ wrong = "blank" -> [is |-> "blank"]
      [] OTHER -> [is |-> "number", value |-> r[c] + (CASE wrong = "little" -> 3 [] wrong = "much" -> 100 [] OTHER -> 0)]
Sheet(order, table, fault) ==
    LET wrong(i, c) == IF fault.at = i /\ fault.column = c THEN fault.is ELSE "none"
        lines == [i \in DOMAIN table |-> [k \in DOMAIN order |-> Shown(order[k], table[i], wrong(i, order[k]))]]
        kept == IF fault.is = "row" THEN RemoveAt(lines, fault.at) ELSE lines
    IN [cells |-> <<<<Label("title")>>, [k \in DOMAIN order |-> Label(order[k])]>> \o kept \o <<<<Text, Text>>>>,
        printed |-> table, fault |-> fault]
AllSheets ==
    UNION {{Sheet(o, t, f) : o \in Orders, f \in Lost(t)} : t \in Tables}
      \cup UNION {{Sheet(Usual, t, f) : f \in Misread(t)} : t \in {Table, SubSeq(Table, 2, 3)}}
Schedules == INSTANCE LoanSchedule WITH
    Sheets <- AllSheets,
    Terms <- {[balance |-> 10000, rate |-> 480, payment |-> 3000], [balance |-> 1000, rate |-> 600, payment |-> 5],
              [balance |-> 10, rate |-> 0, payment |-> 3]},
    Tolerance <- 5, Dear <- 800, Days <- 3, MaxMonths <- 12, Cap <- 9, MaxUploads <- 1

(* Statements of four moves, printed in the layouts that are read, with one  *)
(* misprint at most.                                                         *)
Words == {shop, employer, transfer, principalWord, interestWord, overdraft, mixed, fee, loan7, totalWord, opening}
Told == [w \in Words |-> CASE w = principalWord -> "loan_principal" [] w = interestWord -> "loan_interest"
                           [] w = overdraft -> "overdraft_interest" [] w = mixed -> "loan_mixed" [] w = fee -> "loan_fee"
                           [] OTHER -> "standard"]
Move(day, amount, type, words) == [day |-> day, amount |-> amount, type |-> type, words |-> words]
Paid(day, amount, w) == Move(day, amount, "withdrawal", {w})
Got(day, amount, w) == Move(day, amount, "deposit", {w})
Histories ==
    {<<Paid(1, 5, shop), Got(2, 5, transfer), Got(3, 5, transfer), Paid(4, 5, shop)>>,
     <<Paid(1, 5, shop), Paid(1, 3, shop), Got(2, 5, transfer), Got(4, 80, employer)>>,
     <<Got(1, 4, employer), Paid(2, 7, principalWord), Move(3, 2, "withdrawal", {interestWord, loan7}), Got(4, 40, employer)>>,
     <<Paid(1, 6, fee), Got(2, 3, overdraft), Paid(3, 4, overdraft), Got(4, 9, mixed)>>,
     <<Paid(1, 6, mixed), Got(1, 3, employer), Paid(2, 4, shop), Got(3, 9, principalWord)>>}
Misprints == {[is |-> "none"]} \cup [is : {"lost", "digit", "side", "balance", "shift", "off", "stray"}, at : 1..4]
Hit(f, i, what) == f.is = what /\ f.at = i
BalanceAt(h) ==
    LET b[i \in 0..Len(h)] == IF i = 0 THEN 50 ELSE b[i - 1] + (IF h[i].type = "deposit" THEN h[i].amount ELSE -h[i].amount) IN b
Amount(h, f, i) == h[i].amount + (IF Hit(f, i, "digit") THEN 1 ELSE 0)
Side(h, f, i) == IF Hit(f, i, "side") THEN (IF h[i].type = "deposit" THEN "withdrawal" ELSE "deposit") ELSE h[i].type
Balance(h, f, i) == BalanceAt(h)[i] + (IF Hit(f, i, "balance") THEN 1 ELSE 0)
Day(h, f, i) == IF Hit(f, i, "lost") THEN None ELSE h[i].day
Cells(h, f, i) ==
    [day |-> Day(h, f, i), words |-> h[i].words, balance |-> Balance(h, f, i),
     debit |-> IF Side(h, f, i) = "withdrawal" THEN Amount(h, f, i) ELSE None,
     credit |-> IF Side(h, f, i) = "deposit" THEN Amount(h, f, i) ELSE 0,
     amount |-> IF Side(h, f, i) = "deposit" THEN Amount(h, f, i) ELSE -Amount(h, f, i)]
Book(h, f, columns) ==
    [format |-> "workbook", moves |-> h, sheets |-> <<[columns |-> columns, rows |-> [i \in DOMAIN h |-> Cells(h, f, i)]]>>]
Columns == [debit |-> 100, credit |-> 200, balance |-> 300]
Token(v, x) == [value |-> v, x |-> x]
PrintedLine(y, day, words, tokens) == [page |-> 1, y |-> y, day |-> day, words |-> words, tokens |-> tokens]
AmountAt(h, f, i) ==
    Columns[IF Side(h, f, i) = "deposit" THEN "credit" ELSE "debit"] + (CASE Hit(f, i, "shift") -> 25 [] Hit(f, i, "off") -> 48 [] OTHER -> 0)
Tokens(h, f, i, printed) ==
    (IF Hit(f, i, "stray") THEN <<Token(8, 130)>> ELSE <<>>) \o <<Token(Amount(h, f, i), AmountAt(h, f, i))>>
      \o (CASE printed = "none" \/ (printed = "some" /\ i \in {1, 3}) -> <<>>
             [] printed = "daily" /\ i < Len(h) /\ h[i + 1].day = h[i].day -> <<Token(0, 300)>>
             [] OTHER -> <<Token(Balance(h, f, i), 300)>>)
Lines(h, f, printed) ==   \* each followed by a line its description wraps to
    [k \in 1..2 * Len(h) |-> LET i == (k + 1) \div 2
                             IN IF k % 2 = 1 THEN PrintedLine(900 - 40 * i, Day(h, f, i), h[i].words, Tokens(h, f, i, printed))
                                ELSE PrintedLine(888 - 40 * i, None, {shop}, <<>>)]
Pdf(h, f, printed, header) ==
    [format |-> "pdf", moves |-> h, daily |-> printed = "daily",
     header |-> IF header THEN [page |-> 1, y |-> 900, columns |-> IF printed = "none" THEN [c \in {"debit", "credit"} |-> Columns[c]]
                                                                  ELSE Columns]
                ELSE None,
     rows |-> <<PrintedLine(940, 1, {shop}, <<Token(3, 100)>>), PrintedLine(920, None, {totalWord, opening}, <<Token(50, 300)>>)>>
                \o Lines(h, f, printed) \o <<PrintedLine(500, 4, {totalWord}, <<Token(1, 20)>>)>>]
AllStatements ==
    {Book(h, f, c) : h \in Histories, f \in Misprints,
                     c \in {{"date", "debit", "credit", "balance"}, {"date", "amount", "balance"}, {"date"}, {"date", "credit"}}}
      \cup {Pdf(h, f, p, header) : h \in Histories, f \in Misprints, p \in {"each", "some", "none", "daily"}, header \in BOOLEAN}
Statements == INSTANCE StatementFile WITH
    Files <- AllStatements,
    KindOf <- Told, NumberOf <- [w \in Words |-> IF w = loan7 THEN 7 ELSE None], Summaries <- {totalWord}, Openings <- {opening},
    Unpaid <- {transfer}, Hints <- [w \in Words |-> IF w \in {employer, transfer} THEN "deposit" ELSE None],
    MonthDays <- 2, RoundTripDays <- 2, SalaryThreshold <- 50

(* Files as they are dropped: card reports of one sheet or two, in two       *)
(* layouts and a bare one, expense sheets, statements, schedules.            *)
Says(name, words) == [is |-> "text", name |-> name, words |-> words]
Val(name) == Says(name, {})
Num(n) == [is |-> "number", value |-> n, words |-> {}]
Money(n) == [is |-> "money", value |-> n, words |-> {}]
DateCell(d, early) == [is |-> "date", day |-> d, early |-> early, words |-> {}]
Dated(d) == DateCell(d, TRUE)
DayText(d) == [is |-> "dayText", day |-> d, valid |-> TRUE, words |-> {}]
Part(n, k) == [is |-> "part", nth |-> n, count |-> k, words |-> {}]
Split(k) == [is |-> "split", count |-> k, words |-> {"payments"}]
Empty == [is |-> "blank", words |-> {}]
Bought(day, charge, name, amount, use, nth, count) ==
    [day |-> day, charge |-> charge, name |-> name, amount |-> amount, use |-> use, nth |-> nth, count |-> count]
Purchases == <<Bought(3, 9, p1, 5, "regular", 2, 6), Bought(4, None, p2, 4, "credit", None, 3),
               Bought(5, 9, p3, -2, "refund", None, 1), Bought(6, 9, p4, 7, "financing", None, 1),
               Bought(7, 9, p1, 5, "standing_order", None, 1)>>
Business(r) == Says(r.name, IF r.use = "financing" THEN {"revolving"} ELSE {})
DateOf(d) == IF d = None THEN Empty ELSE Dated(d)
Parts(r) == IF r.nth # None THEN Part(r.nth, r.count) ELSE IF r.count > 1 THEN Split(r.count) ELSE Empty
Uses == [regular |-> {}, credit |-> {"payments", "instalments"}, refund |-> {"refund"}, financing |-> {},
         standing_order |-> {"standing"}]
Titles(columns) == [c \in DOMAIN columns |-> Says(page, columns[c])]
CalHead == Titles(<<{"date"}, {"business", "name"}, {"amount"}, {"chargeDate"}, {"type", "dealType"}, {"notes"}>>)
CalRow(r) == <<Dated(r.day), Business(r), Money(r.amount), DateOf(r.charge), Says(page, Uses[r.use]), Parts(r)>>
MaxHead == Titles(<<{"date"}, {"business", "name"}, {"type", "dealType"}, {"amount"}, {"amount"},
                    {"chargeDate", "date"}, {"payments"}>>)
MaxRow(r) == <<DayText(r.day), Business(r), Says(page, Uses[r.use]), Num(r.amount), Num(99), DateOf(r.charge),
               IF r.nth # None THEN Part(r.nth, r.count) ELSE Num(r.count)>>
BareHead == Titles(<<{"date"}, {"business", "name"}, {"amount"}>>)
BareRow(r) == <<DayText(r.day), Business(r), Num(r.amount)>>
Bare(r) == Bought(r.day, None, r.name, r.amount, IF r.use \in {"credit", "standing_order"} THEN "regular" ELSE r.use, None, 1)
Rest(layout, words) ==   \* a row of totals, with a day or without
    CASE layout = "cal" -> <<<<Empty, Says(page, words), Money(12)>>>>
      [] layout = "max" -> <<<<DayText(9), Says(page, words), Empty, Num(12)>>>>
      [] OTHER -> <<<<DayText(9), Says(page, words), Num(12)>>>>
Printed(layout, rs, words) ==
    [name |-> {}, rows |-> <<<<Says(page, IF layout = "bare" THEN {} ELSE {"card"})>>>>
        \o <<CASE layout = "cal" -> CalHead [] layout = "max" -> MaxHead [] OTHER -> BareHead>>
        \o [i \in DOMAIN rs |-> CASE layout = "cal" -> CalRow(rs[i]) [] layout = "max" -> MaxRow(rs[i]) [] OTHER -> BareRow(rs[i])]
        \o Rest(layout, words)]
Dropped(printed, format, sheets, bank, schedule, truth) ==
    [printed |-> printed, format |-> format, columns |-> FALSE, sheets |-> sheets, bank |-> bank, schedule |-> schedule,
     truth |-> truth, early |-> {}, readable |-> TRUE]
Reports ==
    {Dropped("credit", "workbook", <<Printed(l, SubSeq(Purchases, 1, k), {"total"})>>
                \o (IF k < 5 THEN <<Printed(l, SubSeq(Purchases, k + 1, 5), w)>> ELSE <<>>), None, None,
             [i \in 1..5 |-> IF l = "bare" THEN Bare(Purchases[i]) ELSE Purchases[i]]) :
        l \in {"cal", "max", "bare"}, k \in 2..5, w \in {{"total"}, {"toCharge", "balance"}}}
Spent(day, name, amount, method, category) == [day |-> day, name |-> name, amount |-> amount, method |-> method, category |-> category]
Plans == <<Spent(3, p1, 5, shop, food), Spent(None, p2, 4, None, None), Spent(5, p3, 2, shop, None)>>
PlanHead == Titles(<<{"name"}, {"amount"}, {"means", "payment"}, {"date"}, {"category"}>>)
Cell(v) == IF v = None THEN Empty ELSE Val(v)
PlanDay(d, days) ==
    CASE d = None -> Empty [] d # None /\ days = "text" -> DayText(d) [] OTHER -> DateCell(d, days = "early")
PlanRow(r, days) ==
    <<Val(r.name), IF r.day = 5 THEN Money(-r.amount) ELSE Num(r.amount), Cell(r.method), PlanDay(r.day, days), Cell(r.category)>>
Tab(table) == <<[name |-> {}, rows |-> table]>>
PlanSheets ==
    {[Dropped("expense_sheet", "workbook",
              Tab(<<<<Val(page)>>, PlanHead, <<Val(page)>>>> \o [i \in 1..k |-> PlanRow(Plans[i], days)] \o <<<<Val(page), Money(0)>>>>),
              None, None, SubSeq(Plans, 1, k))
        EXCEPT !.early = IF days = "early" THEN {i \in 1..k : Plans[i].day # None} ELSE {}] :
        k \in 1..3, days \in {"text", "early", "onDay"}}
Account == Titles(<<{"date"}, {"debit"}, {"credit"}, {"balance"}, {"name"}>>)
Owing == Titles(<<{"schedule"}, {"principalNumber", "payment", "paymentNumber"},
                  {"principalAmount", "payment", "amount"}, {"balanceAfter", "payment", "balance"}>>)
Others ==
    {Dropped("bank", "workbook", Tab(<<Account, <<DayText(3), Num(5)>>>>), [rows |-> <<p1>>, faulty |-> FALSE], None, None)}
      \cup {[Dropped("bank", "pdf", <<>>, [rows |-> <<p1, p2>>, faulty |-> faulty], None, None)
                EXCEPT !.columns = columns, !.readable = ~faulty] : faulty \in BOOLEAN, columns \in BOOLEAN}
      \cup {Dropped("loan_schedule", "workbook", Tab(<<Owing>>), [rows |-> <<p1>>, faulty |-> FALSE],
                    [rows |-> <<p1>>, numbered |-> numbered], None) : numbered \in BOOLEAN}
      \cup {[Dropped("credit", "broken", <<>>, None, None, None) EXCEPT !.readable = FALSE]}
AllReplies ==
    {<<>>} \cup [{"kind"} -> {"bank", "credit", "expense_sheet"}] \cup [{"account"} -> {acc, gone}] \cup [{"loan"} -> {plan, gone}]
      \cup [{"month"} -> {1}]
      \cup {"kind" :> k @@ "account" :> acc @@ "card" :> visa @@ "loan" :> plan @@ "month" :> 1 :
                k \in {"bank", "credit", "expense_sheet", "loan_schedule"}}
AllDropped == Reports \cup PlanSheets \cup Others
Sheets == INSTANCE SheetFile WITH
    Files <- AllDropped, There <- {acc, visa, plan}, Answers <- AllReplies,
    HeaderRows <- 3, TextRows <- 10, MaxRows <- 5, file <- dropped

(* A household of an account, two cards and a loan, one card idle; nothing is *)
(* recorded, or all is, or all of it waits for a decision, or the loan is     *)
(* paid off; and one of an account alone, whose statement shows a bill and a  *)
(* repayment of no card and no loan of hers.                                  *)
Nothing == [accounts |-> acc :> None, cards |-> visa :> None @@ master :> None, loans |-> plan :> None, bill |-> None,
            repayment |-> None, report |-> None, session |-> None, due |-> None, manual |-> FALSE]
Whole == [Nothing EXCEPT !.accounts[acc] = [months |-> {3}, balance |-> 0], !.cards[visa] = {3}, !.cards[master] = {},
                         !.loans[plan] = "file", !.due = "settled", !.manual = TRUE]
Undecided == [Whole EXCEPT !.cards[visa] = None, !.cards[master] = None, !.loans[plan] = None, !.bill = "unread",
                           !.repayment = "unread", !.report = master, !.session = [what |-> "bank", of |-> acc], !.due = "open"]
PaidOff == [Whole EXCEPT !.loans[plan] = "finished", !.repayment = "kept"]
Clues == [Nothing EXCEPT !.accounts[acc] = [months |-> {3}, balance |-> 0], !.bill = "kept", !.repayment = "kept"]
All == [accounts |-> {acc}, cards |-> {visa, master}, loans |-> {plan}, cash |-> TRUE]
AccountAlone == [accounts |-> {acc}, cards |-> {}, loans |-> {}, cash |-> FALSE]
Having(banks, cards, owed, cash) == [bankAccounts |-> banks, creditCards |-> cards, loans |-> owed, cashActivity |-> cash]
Guide == INSTANCE Picture WITH
    Accounts <- {acc}, Cards <- {visa, master}, Loans <- {plan}, This <- 3, Idle <- {master},
    Situations <- {Having(1, 2, 1, TRUE), Having(0, 0, 0, FALSE), Having(None, 1, 1, FALSE)},
    Starts <- {[books |-> b, has |-> All] : b \in {Nothing, Whole, Undecided, PaidOff}} \cup {[books |-> Clues, has |-> AccountAlone]},
    MaxDay <- 1, MaxChanges <- 1, Patience <- 30, changes <- edits

scheduleVars == <<loan, rows, today, uploads, edited, source>>
statementVars == <<file, strict, stage, statement>>
sheetVars == <<dropped, answers, session>>
pictureVars == <<household, edits>>
vars == <<focus, alertVars, scheduleVars, statementVars, sheetVars, pictureVars>>

Init ==
    /\ focus \in {"alerts", "schedules", "statements", "sheets", "picture"}
    /\ AttentionInit /\ (focus # "alerts" => situation = Calm)
    /\ Schedules!Init /\ Statements!Init /\ Sheets!Init
    /\ Guide!Init /\ (focus # "picture" => household.books = Nothing /\ household.onboarding = "pending")
Next ==
    /\ UNCHANGED focus
    /\ \/ focus = "alerts" /\ AttentionNext /\ UNCHANGED <<scheduleVars, statementVars, sheetVars, pictureVars>>
       \/ focus = "schedules" /\ Schedules!Next /\ UNCHANGED <<alertVars, statementVars, sheetVars, pictureVars>>
       \/ focus = "statements" /\ Statements!Next /\ UNCHANGED <<alertVars, scheduleVars, sheetVars, pictureVars>>
       \/ focus = "sheets" /\ Sheets!Next /\ UNCHANGED <<alertVars, scheduleVars, statementVars, pictureVars>>
       \/ focus = "picture" /\ Guide!Next /\ UNCHANGED <<alertVars, scheduleVars, statementVars, sheetVars>>
Spec == Init /\ [][Next]_vars

(* The properties of each component, stated in its module.                   *)
LoanFiguresAgree == Schedules!AcceptedIsWhole /\ Schedules!LoanFiguresAgree
DocumentsRead == Statements!MisreadsNoticed /\ Statements!BucketsComplete /\ Sheets!FilesRead
PictureLeadsOn == focus = "picture" => Guide!PictureLeadsOn
OrdinarySpending == Statements!OrdinarySpending
=============================================================================
