---------------------------- MODULE LoanSchedule ----------------------------
(* A loan's terms: read in the bank's schedule file, stored with the loan,   *)
(* and what the application computes from them (loanSchedule.parser,         *)
(* loanSchedule.service, loanCalculator.service).  Amounts are agorot, rates *)
(* hundredths of a percent a year; a file's own rate is in parts of a million*)
(* a month.                                                                  *)
EXTENDS Integers, Sequences, SequencesExt, TLC

CONSTANTS Sheets,     \* what may be uploaded: [cells, a sequence of rows of cells; printed, the
                      \* rows of the bank's table; fault, where the cells are not the table's]
          Terms,      \* [balance, rate, payment] of loans typed in by hand
          Tolerance,  \* 5 agorot
          MaxMonths,  \* a simulation ends there (600) ...
          Cap,        \* ... and a schedule that is drawn there (120)
          Dear,       \* the rate from which a loan is expensive (8%)
          Days,       \* bound: days
          MaxUploads  \* bound: files uploaded

VARIABLES loan, rows, today, uploads, edited,
          source      \* the file the rows were read in
vars == <<loan, rows, today, uploads, edited, source>>

(* What a loan of these terms pays, month by month.  Both loops carry the    *)
(* balance on unrounded, here in hundredths of an agora, and round what they *)
(* return; a balance of half an agora is none.                               *)
Million == 1000000
Fine == 100
Rounded(a, b) == (2 * a + b) \div (2 * b)
Accrued(balance, rate) == Rounded(balance * rate, 120000)
Agorot(f) == Rounded(f, Fine)
Left(f) == 2 * f > Fine
Smaller(a, b) == IF a < b THEN a ELSE b
Sum(f, S) == FoldFunctionOnSet(LAMBDA x, y : x + y, 0, f, S)
ComputeLoan(t) ==
    LET interest == Agorot(Accrued(Fine * t.balance, t.rate))
        run[m \in 0..MaxMonths] ==
            IF m = 0 THEN [balance |-> Fine * t.balance, months |-> 0, total |-> 0, year |-> 0]
            ELSE LET r == run[m - 1]
                     due == Accrued(r.balance, t.rate)
                     principal == Fine * t.payment - due
                 IN IF ~Left(r.balance) \/ principal <= 0 THEN r
                    ELSE [balance |-> r.balance - Smaller(principal, r.balance), months |-> m,
                          total |-> r.total + due, year |-> r.year + IF m <= 12 THEN due ELSE 0]
        end == run[MaxMonths]
        paidOff == end.months > 0 /\ ~Left(end.balance)
    IN [interest |-> interest, principal |-> IF t.payment > interest THEN t.payment - interest ELSE 0,
        year |-> Agorot(end.year), months |-> IF paidOff THEN end.months ELSE -1,
        total |-> IF paidOff THEN Agorot(end.total) ELSE -1, expensive |-> t.rate >= Dear]
HeldInterest(t) ==   \* mutant: every row charges the first month's interest
    LET due == Agorot(Accrued(Fine * t.balance, t.rate))
    IN [m \in 1..ComputeLoan(t).months |-> [number |-> m, interest |-> due, principal |-> t.payment - due, balance |-> 0]]
AmortizationSchedule(t) ==   \* the last payment is not cut to what is left
    LET line[m \in 0..Cap] ==
            IF m = 0 THEN [balance |-> Fine * t.balance, rows |-> <<>>]
            ELSE LET so == line[m - 1]
                     due == Accrued(so.balance, t.rate)
                     principal == Fine * t.payment - due
                     after == so.balance - Smaller(principal, so.balance)
                 IN IF ~Left(so.balance) \/ principal <= 0 THEN so
                    ELSE [balance |-> after,
                          rows |-> Append(so.rows, [number |-> m, interest |-> Agorot(due), principal |-> Agorot(principal),
                                                    balance |-> Agorot(after)])]
    IN line[Cap].rows
-----------------------------------------------------------------------------
(* A cell is a printed label, a number, a date, blank, or unreadable; a blank*)
(* one reads as zero, and so does one of a column that is not there.         *)
Columns == {"number", "date", "principal", "interest", "total", "balance"}
Empty == [is |-> "blank"]
Found(row) == {row[i].label : i \in {i \in DOMAIN row : row[i].is = "label"}} \cap Columns
HeaderRows(sheet) == {i \in DOMAIN sheet : i <= 40 /\ Cardinality(Found(sheet[i])) >= 5}
Header(sheet) == CHOOSE i \in HeaderRows(sheet) : \A j \in HeaderRows(sheet) : i <= j
ColumnOf(row, c) ==
    LET is == {i \in DOMAIN row : row[i].is = "label" /\ row[i].label = c}
    IN IF is = {} THEN 0 ELSE CHOOSE i \in is : \A j \in is : i <= j
Number(cell) == cell.is \in {"number", "blank"}
Value(cell) == IF cell = Empty THEN 0 ELSE cell.value
Readable(row) == row["date"].is = "date" /\ \A c \in {"number", "principal", "interest", "balance"} : Number(row[c])
ReadRow(row) ==
    [number |-> Value(row["number"]), date |-> row["date"].value, principal |-> Value(row["principal"]),
     interest |-> Value(row["interest"]), balance |-> Value(row["balance"]),
     total |-> IF Number(row["total"]) THEN Value(row["total"]) ELSE Value(row["principal"]) + Value(row["interest"])]
ReadRows(sheet) ==
    LET header == Header(sheet)
        column == [c \in Columns |-> ColumnOf(sheet[header], c)]
        cells == [i \in header + 1..Len(sheet) |->
                    [c \in Columns |-> IF column[c] \in DOMAIN sheet[i] THEN sheet[i][column[c]] ELSE Empty]]
        lines == SelectSeq([n \in 1..Len(sheet) - header |-> header + n], LAMBDA i : Readable(cells[i]))
        sorted == SortSeq(lines, LAMBDA i, j : LET a == Value(cells[i]["number"])
                                                   b == Value(cells[j]["number"]) IN a < b \/ (a = b /\ i < j))
    IN [n \in DOMAIN sorted |-> ReadRow(cells[sorted[n]])]

AnySum(rs) == TRUE   \* mutant: the principal column is not added up
Balanced(rs) ==   \* the principal column adds up to the balance before the first row
    LET off == Sum([i \in DOMAIN rs |-> rs[i].principal], DOMAIN rs) - (rs[1].balance + rs[1].principal)
    IN off <= Tolerance /\ -off <= Tolerance
Accepted(sheet) == HeaderRows(sheet) # {} /\ ReadRows(sheet) # <<>> /\ Balanced(ReadRows(sheet))

(* The rate of each row, the average of them, and the amount at the opening: *)
(* the payments made before the first row, one after the other.              *)
Before(rs, i) == IF i = 1 THEN rs[1].balance + rs[1].principal ELSE rs[i - 1].balance
RowRates(rs) == [i \in {i \in DOMAIN rs : Before(rs, i) > 0} |-> (rs[i].interest * Million) \div Before(rs, i)]
MonthlyRate(rs) == LET r == RowRates(rs) IN IF r = <<>> THEN 0 ELSE Sum(r, DOMAIN r) \div Cardinality(DOMAIN r)
Made(rs) == IF rs[1].number > 1 THEN rs[1].number - 1 ELSE 0
Opening(rs) ==
    LET before[k \in 0..Made(rs)] ==
            IF k = 0 THEN rs[1].balance + rs[1].principal
            ELSE ((before[k - 1] + rs[1].total) * 100000) \div (100000 + MonthlyRate(rs) \div 10)
    IN before[Made(rs)]
Parsed(sheet) ==
    LET rs == ReadRows(sheet)
        balance == rs[1].balance + rs[1].principal
    IN [balance |-> balance, payment |-> rs[1].total, rate |-> Rounded(12 * MonthlyRate(rs), 100),
        total |-> rs[Len(rs)].number,
        made |-> Made(rs), remaining |-> Len(rs), next |-> rs[1].date, end |-> rs[Len(rs)].date,
        original |-> Opening(rs), source |-> IF Made(rs) = 0 THEN "contract" ELSE "reconstructed",
        principalPaid |-> Opening(rs) - balance, rows |-> rs]
-----------------------------------------------------------------------------
NoLoan == [status |-> "none"]
Init == loan = NoLoan /\ rows = <<>> /\ today = 1 /\ uploads = 0 /\ edited = FALSE /\ source = NoLoan

CreateLoan(t) ==
    /\ loan = NoLoan /\ edited' = TRUE
    /\ loan' = [status |-> "active", balance |-> t.balance, rate |-> t.rate, payment |-> t.payment, total |-> -1,
                made |-> -1, original |-> t.balance, source |-> "contract", from |-> "manual", fee |-> 1]
    /\ UNCHANGED <<rows, today, uploads, source>>

(* A file makes the loan, or updates it and replaces its schedule; a closed  *)
(* loan keeps its balance, an amount of the contract is not guessed again.   *)
ImportSchedule(sheet) ==
    /\ uploads < MaxUploads /\ uploads' = uploads + 1
    /\ Accepted(sheet.cells) /\ source' = [printed |-> sheet.printed, fault |-> sheet.fault]
    /\ LET p == Parsed(sheet.cells)
           closed == loan.status = "finished"
           agreed == loan # NoLoan /\ loan.source = "contract"
       IN /\ loan' = [status |-> IF loan = NoLoan THEN "active" ELSE loan.status,
                      balance |-> IF closed THEN loan.balance ELSE p.balance, rate |-> p.rate, payment |-> p.payment,
                      total |-> p.total, made |-> IF closed THEN loan.made ELSE p.made,
                      original |-> IF agreed THEN loan.original ELSE p.original,
                      source |-> IF agreed THEN loan.source ELSE p.source, from |-> "bank_file",
                      fee |-> IF loan = NoLoan THEN 0 ELSE loan.fee]
          /\ rows' = p.rows
    /\ edited' = (loan.status = "finished")
    /\ UNCHANGED today
RejectSchedule(sheet) ==
    /\ uploads < MaxUploads /\ uploads' = uploads + 1 /\ ~Accepted(sheet.cells) /\ UNCHANGED <<loan, rows, today, edited, source>>

Close ==
    /\ loan.status = "active" /\ loan' = [loan EXCEPT !.status = "finished", !.balance = 0] /\ edited' = TRUE
    /\ UNCHANGED <<rows, today, uploads, source>>
(* A member writes the terms anew, and may take a loan out of the closed     *)
(* ones; a count of payments that the closing had filled up is then unknown. *)
Update(t, status) ==
    /\ loan # NoLoan /\ edited' = TRUE
    /\ LET filled == loan.total # -1 /\ loan.made = loan.total
       IN loan' = [loan EXCEPT !.balance = t.balance, !.rate = t.rate, !.payment = t.payment, !.status = status,
                               !.made = IF loan.status = "finished" /\ status # "finished" /\ filled THEN -1 ELSE @]
    /\ UNCHANGED <<rows, today, uploads, source>>
Day == today < Days /\ today' = today + 1 /\ UNCHANGED <<loan, rows, uploads, edited, source>>
Next ==
    \/ \E t \in Terms : CreateLoan(t) \/ \E status \in {"active", "finished"} : Update(t, status)
    \/ \E s \in Sheets : ImportSchedule(s) \/ RejectSchedule(s)
    \/ Close \/ Day
Spec == Init /\ [][Next]_vars
-----------------------------------------------------------------------------
(* The schedule that is shown: the stored one, else a computed one.          *)
Simulated == AmortizationSchedule([balance |-> loan.balance, rate |-> loan.rate, payment |-> loan.payment])
Schedule ==
    IF rows # <<>> THEN
        LET ahead == {i \in DOMAIN rows : rows[i].date > today}
            first == CHOOSE i \in ahead : \A j \in ahead : i <= j
        IN [source |-> "bank_file",
            rows |-> [i \in DOMAIN rows |-> [number |-> rows[i].number, principal |-> rows[i].principal, interest |-> rows[i].interest,
                      status |-> IF i \notin ahead THEN "paid" ELSE IF i = first THEN "next" ELSE "future"]]]
    ELSE [source |-> "computed",
          rows |-> [m \in DOMAIN Simulated |-> [number |-> m, principal |-> Simulated[m].principal, interest |-> Simulated[m].interest,
                    status |-> IF m = 1 THEN "next" ELSE "future"]]]

(* Where it stands: payments left of its schedule, or of a computed one.     *)
Progress ==
    LET counted == loan.total # -1 /\ loan.made # -1
        computed == ComputeLoan([balance |-> loan.balance, rate |-> loan.rate, payment |-> loan.payment]).months
        remaining == IF counted THEN loan.total - loan.made ELSE IF loan.balance > 0 THEN computed ELSE -1
        closed == loan.status = "finished" \/ loan.balance = 0
        repaid == IF loan.original > loan.balance THEN loan.original - loan.balance ELSE 0
    IN [lifecycle |-> CASE closed -> "closed" [] ~closed /\ remaining \in 0..3 -> "ending_soon" [] OTHER -> "active",
        repaid |-> repaid, remaining |-> IF closed THEN 0 ELSE remaining,
        percent |-> IF closed THEN 100 ELSE IF loan.original > 0 THEN (repaid * 100) \div loan.original ELSE 0,
        certainty |-> IF loan.from = "bank_file" /\ loan.source # "reconstructed" /\ counted THEN "measured" ELSE "scenario"]

(* What paying it off today costs and saves.                                 *)
QuoteFromToday ==   \* mutant: today's payment is counted among those saved
    LET ahead == {i \in DOMAIN rows : rows[i].date >= today}
        saved == Sum([i \in DOMAIN rows |-> rows[i].interest], ahead)
    IN [payoff |-> loan.balance + loan.fee, saved |-> saved, net |-> saved - loan.fee, payments |-> Cardinality(ahead)]
EarlyRepaymentQuote ==
    LET ahead == {i \in DOMAIN rows : rows[i].date > today}
        saved == Sum([i \in DOMAIN rows |-> rows[i].interest], ahead)
    IN [payoff |-> loan.balance + loan.fee, saved |-> saved, net |-> saved - loan.fee, payments |-> Cardinality(ahead)]
-----------------------------------------------------------------------------
(* A file of the bank's table with one fault, a row lost, a cell unreadable, *)
(* blank or misprinted, in whatever order its columns and rows stand, is     *)
(* accepted only if what its check can see is right: no row is lost behind   *)
(* the first that is read, and none of their principals is misread by more   *)
(* than the tolerance.  What the check cannot see is the first row's own     *)
(* principal, which it has on both sides, the numbers, the interest, the     *)
(* totals and the other balances: the balance and the counts are right       *)
(* unless the fault is in one of their cells.                                *)
AsPrinted(d) == CHOOSE r \in Range(source.printed) : r.number = d
Near(a, b) == a - b <= Tolerance /\ b - a <= Tolerance
AcceptedIsWhole ==
    rows # <<>> =>
        LET dates == {rows[i].date : i \in DOMAIN rows}
            first == CHOOSE d \in dates : \A e \in dates : d <= e
        IN /\ dates = {r.number : r \in {r \in Range(source.printed) : r.number >= first}}
           /\ \A i \in 2..Len(rows) : Near(rows[i].principal, AsPrinted(rows[i].date).principal)
           /\ source.fault.column \notin {"principal", "number"} =>
                 Near(Before(rows, 1), AsPrinted(first).balance + AsPrinted(first).principal)
           /\ source.fault.column # "number" => Made(rows) + Len(rows) = rows[Len(rows)].number

(* The figures of a loan agree, though two loops compute them: the months    *)
(* left are the rows of the schedule shown, its interest is the total's up   *)
(* to the rounding of each row, its rows' principal the balance (to less     *)
(* than a payment more, as the last row is a whole payment).  A schedule     *)
(* that starts midway leads back to more than is owed, unless the file says  *)
(* no payment or its interest or total is at fault or the balance was edited;*)
(* and paying off today saves what the rows ahead would charge.              *)
LoanFiguresAgree ==
    loan # NoLoan =>
        LET c == ComputeLoan([balance |-> loan.balance, rate |-> loan.rate, payment |-> loan.payment])
            s == Schedule.rows
            n == Len(s)
            interest == Sum([i \in DOMAIN s |-> s[i].interest], DOMAIN s)
            principal == Sum([i \in DOMAIN s |-> s[i].principal], DOMAIN s)
            ahead == {i \in DOMAIN s : s[i].status # "paid"}
        IN /\ Schedule.source = "computed" /\ c.months \in 1..Cap =>
                /\ n = c.months /\ s[1].interest = c.interest /\ s[1].principal - c.principal \in 0..1
                /\ 2 * (interest - c.total) \in -(n + 1)..(n + 1)
                /\ 2 * (principal - loan.balance) \in -(n + 1)..(2 * loan.payment + n)
           /\ Schedule.source = "bank_file" /\ ~edited => Near(principal, loan.balance)
           /\ Schedule.source = "bank_file" => EarlyRepaymentQuote.saved = Sum([i \in DOMAIN s |-> s[i].interest], ahead)
           /\ loan.status = "finished" => Progress.remaining = 0 /\ Progress.percent = 100
           /\ loan.source = "reconstructed" =>
                 edited \/ loan.payment = 0 \/ source.fault.column \in {"interest", "total"} \/ loan.original > loan.balance
=============================================================================
