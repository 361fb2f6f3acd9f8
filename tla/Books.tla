-------------------------------- MODULE Books --------------------------------
(***************************************************************************)
(* The household's books and every figure that is added up from them: the  *)
(* month's totals, the categories, the budgets, the ledger and its pages,  *)
(* the daily curve, the card wallet and the explanation of a figure page   *)
(* by page.  Each screen adds up on its own, from the same three tables.   *)
(* Amounts are whole cents, dates are days counted from the first of the   *)
(* first month, a name stands for a business and everything about it.      *)
(***************************************************************************)
EXTENDS Integers, Sequences, FiniteSets, FiniteSetsExt, SequencesExt

CONSTANTS Entries,     \* what may be typed: [kind, date, amount, category, recurring]
          Files,       \* file -> the rows of a card report: [date, charge, amount, use, key]
          Categories,  \* categories with a budget of their own
          Default,     \* those that can not be deleted
          Cards, Days, Months, Today,
          PageSize, None,
          MaxRows, MaxChanges

(* What the database and the settings hold: whole cents, days, and lists that  *)
(* end.  None is neither a number nor a report, and no card is named "all".    *)
BooksAssumption ==
    /\ IsFiniteSet(Entries) /\ \A e \in Entries : /\ e.kind \in {"income", "expense"}
                                                  /\ e.date \in Int /\ e.amount \in Int /\ e.recurring \in BOOLEAN
    /\ \A f \in DOMAIN Files :
        /\ IsFiniteSet(DOMAIN Files[f]) /\ DOMAIN Files[f] \subseteq Nat
        /\ \A k \in DOMAIN Files[f] : /\ Files[f][k].date \in Int /\ Files[f][k].amount \in Int
                                      /\ Files[f][k].charge \in Int \cup {None}
    /\ IsFiniteSet(Categories) /\ IsFiniteSet(Cards) /\ "all" \notin Cards \cup {None}
    /\ {Days, PageSize} \subseteq Nat \ {0} /\ Months \in Nat /\ Today \in Int
    /\ None \notin Int /\ None \notin [status : {"pending", "confirmed"}, total : Int]

VARIABLES rows,        \* <<table, id>> -> row
          reports,     \* file -> [status, total] or None
          budgets,     \* <<month, category>> -> amount
          categories, changes

books == <<rows, reports, budgets, categories, changes>>

Init ==
    /\ rows = <<>> /\ reports = [f \in DOMAIN Files |-> None]
    /\ budgets = <<>> /\ categories = Categories /\ changes = 0
-----------------------------------------------------------------------------
(* The rows of a month.                                                      *)
Month(date) == (date - 1) \div Days + 1
DaysOf(m) == (m - 1) * Days + 1 .. m * Days
Total(ids) == FoldSet(LAMBDA i, s : s + rows[i].amount, 0, ids)
In(table) == {i \in DOMAIN rows : i[1] = table}
Incomes(m) == {i \in In("income") : rows[i].date \in DaysOf(m)}
Expenses(m) == {i \in In("expense") : rows[i].date \in DaysOf(m)}
Confirmed == {i \in In("card") : reports[rows[i].report].status = "confirmed"}
SpendingCredit == {i \in Confirmed : rows[i].use # "financing"}
CreditIn(m) == {i \in SpendingCredit : rows[i].date \in DaysOf(m)}

MonthTotals(m) ==
    LET income == Total(Incomes(m))  expense == Total(Expenses(m)) + Total(CreditIn(m))
    IN [income |-> income, expense |-> expense, credit |-> Total(CreditIn(m)), balance |-> income - expense]

SpentByCategory(m) ==
    [c \in Categories \cup {None} |->
        Total({i \in Expenses(m) : rows[i].category = c}) + Total({i \in CreditIn(m) : rows[i].category = c})]

Cumulative(m, day) ==   \* the curve of a month's spending
    Total({i \in In("expense") : Month(rows[i].date) = m /\ rows[i].date <= day})
        + Total({i \in CreditIn(m) : rows[i].date <= day})

Trend(m, n) == [k \in 1..n |-> MonthTotals(m - n + k)]
-----------------------------------------------------------------------------
(* The ledger: a month narrowed by days, category and recurrence, newest     *)
(* first, a page at a time.  A page beyond the last is the last.             *)
WithoutLastDay(m, from, to) ==   \* mutant: the last day is left out
    {d \in DaysOf(m) : d >= from /\ (to = None \/ d < to)}
LedgerRange(m, from, to) == {d \in DaysOf(m) : d >= from /\ (to = None \/ d <= to)}

Ledger(m, q) ==
    {i \in In("expense") \cup SpendingCredit :
        /\ rows[i].date \in LedgerRange(m, q.from, q.to)
        /\ q.category # {} => rows[i].category \in q.category
        /\ q.recurring => rows[i].recurring}
IncomeLedger(m, q) ==
    {i \in In("income") : rows[i].date \in LedgerRange(m, q.from, q.to) /\ (q.category # {} => rows[i].category \in q.category)}

Later(i, j) ==
    \/ rows[i].date > rows[j].date
    \/ rows[i].date = rows[j].date /\ (i[2] > j[2] \/ (i[2] = j[2] /\ i[1] = "card" /\ j[1] = "expense"))
PagesOf(keys) == IF keys = {} THEN 1 ELSE (Cardinality(keys) + PageSize - 1) \div PageSize
ClampPage(keys, page) == IF page < PagesOf(keys) THEN page ELSE PagesOf(keys)
Page(keys, page) ==
    {i \in keys : Cardinality({j \in keys : Later(j, i)}) \div PageSize = ClampPage(keys, page) - 1}
-----------------------------------------------------------------------------
(* A figure explained page by page: its sources one behind the other, each   *)
(* in the order of its ids.                                                  *)
Sources(name, m) ==
    <<IF name = "income" THEN {} ELSE Expenses(m), IF name = "income" THEN {} ELSE CreditIn(m),
      IF name = "expense" THEN {} ELSE Incomes(m)>>
Taken(ids, skip, take) ==
    {i \in ids : LET before == Cardinality({j \in ids : j[2] < i[2]}) IN skip <= before /\ before < skip + take}
Components(name, m, page) ==
    LET next(acc, ids) ==
            IF acc.skip >= Cardinality(ids) THEN [acc EXCEPT !.skip = @ - Cardinality(ids)]
            ELSE [skip |-> 0, taken |-> acc.taken \cup Taken(ids, acc.skip, PageSize - Cardinality(acc.taken))]
        first == [skip |-> (page - 1) * PageSize, taken |-> {}]
        s == Sources(name, m)
    IN next(next(next(first, s[1]), s[2]), s[3]).taken
Signed(name, i) == IF name = "surplus" /\ i[1] # "income" THEN -rows[i].amount ELSE rows[i].amount

Metric(name, m, page) ==
    [value |-> LET t == MonthTotals(m)
               IN IF name = "income" THEN t.income ELSE IF name = "expense" THEN t.expense ELSE t.balance,
     total |-> LET s == Sources(name, m) IN Cardinality(s[1]) + Cardinality(s[2]) + Cardinality(s[3]),
     page |-> page,
     components |-> {<<i, Signed(name, i)>> : i \in Components(name, m, page)}]

(* The next charge of the cards, as the wallet and as the metric tell it.    *)
Wallet(m, card) ==
    LET shown == {i \in Confirmed : /\ Month(rows[i].date) \in {m - 1, m} \/ (rows[i].charge # None /\ rows[i].charge >= Today)
                                    /\ card = "all" \/ rows[i].card = card}
        spend == {i \in shown : rows[i].use # "financing"}
        due == {rows[i].charge : i \in {i \in spend : rows[i].charge # None /\ rows[i].charge >= Today}}
    IN [total |-> Total({i \in spend : Month(rows[i].date) = m}),
        financing |-> Total({i \in shown \ spend : Month(rows[i].date) = m}),
        next |-> IF due = {} THEN None
                 ELSE [date |-> Min(due), amount |-> Total({i \in spend : rows[i].charge = Min(due)})]]
NextCharge(card) ==
    LET due == {i \in SpendingCredit : /\ rows[i].charge # None /\ rows[i].charge >= Today
                                       /\ card = "all" \/ rows[i].card = card}
        date == Min({rows[i].charge : i \in due})
    IN IF due = {} THEN None ELSE [date |-> date, amount |-> Total({i \in due : rows[i].charge = date})]

(* What one report brought, by the month and by the meaning of its rows.     *)
RowsOf(f) == {i \in In("card") : rows[i].report = f}
MonthlyBreakdown(f) ==
    [m \in {Month(rows[i].date) : i \in {i \in RowsOf(f) : rows[i].use # "financing"}} |->
        Total({i \in RowsOf(f) : rows[i].use # "financing" /\ Month(rows[i].date) = m})]
Breakdown(f) == [u \in {rows[i].use : i \in RowsOf(f)} |-> Total({i \in RowsOf(f) : rows[i].use = u})]

(* Budgets against what was spent, on their own page and on the dashboard.   *)
Budgeted(m) == {c \in Categories : <<m, c>> \in DOMAIN budgets}
BudgetList(m) ==
    LET spent == SpentByCategory(m) IN
    [c \in Budgeted(m) |-> [amount |-> budgets[<<m, c>>], spent |-> spent[c], remaining |-> budgets[<<m, c>>] - spent[c]]]
SummaryBudget(m) ==
    LET spent == SpentByCategory(m) IN
    [used |-> FoldSet(LAMBDA c, s : s + spent[c], 0, Budgeted(m)),
     overrun |-> Cardinality({c \in Budgeted(m) : spent[c] > budgets[<<m, c>>]})]
-----------------------------------------------------------------------------
(* What changes the books.                                                   *)
Change == changes < MaxChanges /\ changes' = changes + 1
NextId(table, ids) == 1 + Max({0} \cup {i[2] : i \in {i \in ids : i[1] = table}})
With(i, row) == [j \in DOMAIN rows \cup {i} |-> IF j = i THEN row ELSE rows[j]]
Typed(e) == [date |-> e.date, amount |-> e.amount, category |-> e.category, recurring |-> e.recurring,
             report |-> None, charge |-> None, use |-> None, card |-> None, key |-> None]

Enter(e) ==
    /\ Change /\ Cardinality(DOMAIN rows) < MaxRows /\ (e.kind = "expense" => e.category \in categories \cup {None})
    /\ rows' = With(<<e.kind, NextId(e.kind, DOMAIN rows)>>, Typed(e))
    /\ UNCHANGED <<reports, budgets, categories>>
Edit(i, e) ==
    /\ Change /\ i[1] = e.kind /\ (e.kind = "expense" => e.category \in categories \cup {None})
    /\ rows' = [rows EXCEPT ![i] = Typed(e)]
    /\ UNCHANGED <<reports, budgets, categories>>
Delete(i) ==
    /\ Change /\ i[1] # "card" /\ rows' = [j \in DOMAIN rows \ {i} |-> rows[j]]
    /\ UNCHANGED <<reports, budgets, categories>>

(* A card report: the rows it has beyond what is stored become its own; the  *)
(* same file, or one with nothing new, is told and leaves the books alone.   *)
Same(r, s) == r.date = s.date /\ r.amount = s.amount /\ r.key = s.key
Fresh(f, card) ==
    LET stored == {i \in In("card") : card = None \/ rows[i].card \in {card, None}} IN
    {k \in DOMAIN Files[f] :
        Cardinality({j \in 1..k : Same(Files[f][j], Files[f][k])})
            > Cardinality({i \in stored : Same(rows[i], Files[f][k])})}
CreateImport(f, card) ==
    LET fresh == Fresh(f, card)
        start == NextId("card", DOMAIN rows)
        id(k) == start + Cardinality({j \in fresh : j < k})
        new == {<<"card", id(k)>> : k \in fresh}
        row(i) == LET r == Files[f][CHOOSE k \in fresh : id(k) = i[2]]
                  IN [date |-> r.date, amount |-> r.amount, category |-> None, recurring |-> r.use = "standing_order",
                      report |-> f, charge |-> r.charge, use |-> r.use, card |-> card, key |-> r.key]
    IN /\ Change /\ reports[f] = None /\ fresh # {}
       /\ card # None => \A k \in DOMAIN Files[f] : \A i \in In("card") : rows[i].card = None => ~Same(rows[i], Files[f][k])
       /\ rows' = [i \in DOMAIN rows \cup new |-> IF i \in new THEN row(i) ELSE rows[i]]
       /\ reports' = [reports EXCEPT ![f] = [status |-> "pending",
              total |-> FoldSet(LAMBDA k, s : s + Files[f][k].amount, 0, {k \in fresh : Files[f][k].use # "financing"})]]
       /\ UNCHANGED <<budgets, categories>>
ConfirmImport(f) ==
    /\ Change /\ reports[f] # None /\ reports[f].status = "pending"
    /\ reports' = [reports EXCEPT ![f].status = "confirmed"]
    /\ UNCHANGED <<rows, budgets, categories>>
RemoveImport(f) ==
    /\ Change /\ reports[f] # None /\ reports' = [reports EXCEPT ![f] = None]
    /\ rows' = [i \in DOMAIN rows \ RowsOf(f) |-> rows[i]]
    /\ UNCHANGED <<budgets, categories>>
UpdateTransaction(i, c) ==
    /\ Change /\ i[1] = "card" /\ c \in categories \cup {None} /\ c # rows[i].category
    /\ rows' = [rows EXCEPT ![i].category = c]
    /\ UNCHANGED <<reports, budgets, categories>>
Assign(f, card) ==
    /\ Change /\ reports[f] # None
    /\ rows' = [i \in DOMAIN rows |-> IF i \in RowsOf(f) THEN [rows[i] EXCEPT !.card = card] ELSE rows[i]]
    /\ UNCHANGED <<reports, budgets, categories>>

(* Budgets, and a category that goes with its budgets and leaves its rows.   *)
Upsert(m, c, amount) ==
    /\ Change /\ c \in categories
    /\ budgets' = [k \in DOMAIN budgets \cup {<<m, c>>} |-> IF k = <<m, c>> THEN amount ELSE budgets[k]]
    /\ UNCHANGED <<rows, reports, categories>>
RemoveBudget(k) ==
    /\ Change /\ budgets' = [j \in DOMAIN budgets \ {k} |-> budgets[j]]
    /\ UNCHANGED <<rows, reports, categories>>
CopyFromPrevious(m) ==
    LET copied == {<<m, c>> : c \in Budgeted(m - 1) \ Budgeted(m)}
    IN /\ Change /\ Budgeted(m - 1) # {}
       /\ budgets' = [k \in DOMAIN budgets \cup copied |-> IF k \in copied THEN budgets[<<m - 1, k[2]>>] ELSE budgets[k]]
       /\ UNCHANGED <<rows, reports, categories>>
RemoveCategory(c) ==
    /\ Change /\ c \in categories \ Default /\ categories' = categories \ {c}
    /\ rows' = [i \in DOMAIN rows |-> IF rows[i].category = c THEN [rows[i] EXCEPT !.category = None] ELSE rows[i]]
    /\ budgets' = [k \in {k \in DOMAIN budgets : k[2] # c} |-> budgets[k]]
    /\ UNCHANGED reports

Write ==
    \/ \E e \in Entries : Enter(e) \/ \E i \in DOMAIN rows : Edit(i, e)
    \/ \E i \in DOMAIN rows : Delete(i) \/ \E c \in Categories \cup {None} : UpdateTransaction(i, c)
    \/ \E f \in DOMAIN Files :
        ConfirmImport(f) \/ RemoveImport(f) \/ \E card \in Cards \cup {None} : CreateImport(f, card) \/ Assign(f, card)
    \/ \E m \in 1..Months, c \in Categories, a \in {0, 3} : Upsert(m, c, a)
    \/ \E k \in DOMAIN budgets : RemoveBudget(k)
    \/ \E m \in 2..Months : CopyFromPrevious(m)
    \/ \E c \in Categories : RemoveCategory(c)

Spec == Init /\ [][Write]_books
-----------------------------------------------------------------------------
Whole == [from |-> 1, to |-> None, category |-> {}, recurring |-> FALSE]
Names == {"income", "expense", "surplus"}
Pages(n) == 1..(IF n = 0 THEN 1 ELSE (n + PageSize - 1) \div PageSize)

(* Every screen tells the same month: the total, its categories, the curve's *)
(* end, the ledger page by page, filter by filter and part by part, and the  *)
(* wallet of the cards are sums of the same rows, none of them twice         *)
(* (dashboard.service.ts:9-94, expenses.service.ts:106-150, reports.service  *)
(* .ts:60-73, wallet.service.ts:7-24).                                       *)
SameMonth(m) ==
    LET t == MonthTotals(m)  spent == SpentByCategory(m)  all == Ledger(m, Whole) IN
    /\ t.expense = FoldSet(LAMBDA c, s : s + spent[c], 0, Categories \cup {None})
    /\ t.expense = Cumulative(m, m * Days) /\ t.expense = Total(all)
    /\ t.expense = FoldSet(LAMBDA c, s : s + Total(Ledger(m, [Whole EXCEPT !.category = {c}])), 0, categories \cup {None})
    /\ \A d \in DaysOf(m) : Total(all) = Total(Ledger(m, [Whole EXCEPT !.to = d])) + Total(Ledger(m, [Whole EXCEPT !.from = d + 1]))
    /\ all = UNION {Page(all, p) : p \in 1..PagesOf(all)}
    /\ \A p \in 1..PagesOf(all) + 1 : all # {} => Page(all, p) # {} /\ Cardinality(Page(all, p)) <= PageSize
    /\ t.income = Total(IncomeLedger(m, Whole))
    /\ t.credit = Wallet(m, "all").total
    /\ t.credit = FoldSet(LAMBDA c, s : s + Wallet(m, c).total, 0, Cards \cup {None})
    /\ Trend(m, 1)[1] = t

(* A figure is the sum of the rows that explain it, on all its pages.        *)
Explained(m) ==
    \A name \in Names :
        LET first == Metric(name, m, 1)  parts == UNION {Metric(name, m, p).components : p \in Pages(first.total)}
        IN /\ first.value = FoldSet(LAMBDA c, s : s + c[2], 0, parts)
           /\ Cardinality(parts) = first.total

(* Budgets, the reports and the next charge agree wherever they are told.    *)
SameElsewhere ==
    /\ \A m \in 1..Months : LET l == BudgetList(m) IN
        /\ SummaryBudget(m).used = FoldSet(LAMBDA c, s : s + l[c].spent, 0, DOMAIN l)
        /\ SummaryBudget(m).overrun = Cardinality({c \in DOMAIN l : l[c].remaining < 0})
    /\ \A k \in DOMAIN budgets : k[2] \in categories
    /\ \A f \in DOMAIN Files : reports[f] # None =>
        LET months == MonthlyBreakdown(f)  uses == Breakdown(f) IN
        /\ reports[f].total = FoldSet(LAMBDA m, s : s + months[m], 0, DOMAIN months)
        /\ reports[f].total = FoldSet(LAMBDA u, s : s + uses[u], 0, DOMAIN uses \ {"financing"})
    /\ \A m \in 1..Months, card \in Cards \cup {None, "all"} : Wallet(m, card).next = NextCharge(card)

FiguresAgree == (\A m \in 1..Months : SameMonth(m) /\ Explained(m)) /\ SameElsewhere
=============================================================================
