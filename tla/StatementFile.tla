---------------------------- MODULE StatementFile ----------------------------
(* A statement of the bank is read (bankParser.service): the rows of a       *)
(* workbook by its columns, those of a PDF by where their tokens stand or,   *)
(* when no columns are found, line by line; then the balance is replayed and *)
(* the money sorted into the buckets a household is told.  Amounts are whole *)
(* units, a confidence is in hundredths, a description is a set of words.    *)
EXTENDS Integers, Sequences, SequencesExt

CONSTANTS Files,      \* what may be uploaded, see Workbook and Page below
          KindOf,     \* word -> kind of line it tells, "standard" if none
          NumberOf,   \* word -> loan number, or None
          Summaries, Openings,   \* words of summary rows, and of an opening balance
          Unpaid,     \* words of a credit that is no salary: generic wording, benefits
          Hints,      \* word -> direction it hints at, or None
          MonthDays, RoundTripDays, SalaryThreshold, None

VARIABLES file, strict, stage, statement
vars == <<file, strict, stage, statement>>

Total(f, S) == FoldFunctionOnSet(LAMBDA a, b : a + b, 0, f, S)
Abs(n) == IF n < 0 THEN -n ELSE n
Least(S) == CHOOSE n \in S : \A k \in S : n <= k
Greatest(S) == CHOOSE n \in S : \A k \in S : k <= n

(* What a description says: the first pattern that matches, in their order.  *)
Patterns == <<"loan_principal", "loan_interest", "overdraft_interest", "loan_mixed", "loan_fee">>
Kind(words) ==
    LET told == {i \in DOMAIN Patterns : \E w \in words : KindOf[w] = Patterns[i]}
    IN IF told = {} THEN "standard" ELSE Patterns[Least(told)]
KindsWithLoanRef == {"loan_principal", "loan_interest", "loan_mixed", "loan_fee"}
LoanRef(words) ==
    LET numbers == {NumberOf[w] : w \in words} \ {None}
    IN IF Kind(words) \notin KindsWithLoanRef \/ numbers = {} THEN None ELSE CHOOSE n \in numbers : TRUE
Row(day, words, amount, type, balance, confidence) ==
    [day |-> day, words |-> words, amount |-> amount, type |-> type, balance |-> balance, confidence |-> confidence,
     kind |-> Kind(words), ref |-> LoanRef(words)]
IsSummary(words) == words \cap Summaries # {}
Nothing == [rows |-> <<>>, rejected |-> 0]
-----------------------------------------------------------------------------
(* A workbook: sheets whose header names their columns, cells without a      *)
(* number or a date being None.  A row without a date or of a summary is     *)
(* passed over, one without an amount is reported.                           *)
HeaderFound(sheet) == "date" \in sheet.columns /\ sheet.columns \cap {"debit", "credit", "amount"} # {}
Moved(v) == v # None /\ v # 0
ReadCells(sheet, row) ==
    LET cell == [c \in {"debit", "credit", "amount", "balance"} |-> IF c \in sheet.columns THEN row[c] ELSE None]
        split == sheet.columns \cap {"debit", "credit"} # {}
        read(amount, type, confidence) == <<Row(row.day, row.words, Abs(amount), type, cell["balance"], confidence)>>
    IN CASE split /\ Moved(cell["credit"]) -> read(cell["credit"], "deposit", 100)
         [] split /\ ~Moved(cell["credit"]) /\ Moved(cell["debit"]) -> read(cell["debit"], "withdrawal", 100)
         [] ~split /\ Moved(cell["amount"]) -> read(cell["amount"], IF cell["amount"] > 0 THEN "deposit" ELSE "withdrawal", 90)
         [] OTHER -> <<>>
ReadSheet(read, sheet) ==
    LET step(acc, row) ==
            IF row.day = None \/ IsSummary(row.words) THEN acc
            ELSE LET r == ReadCells(sheet, row)
                 IN [rows |-> acc.rows \o r, rejected |-> acc.rejected + (IF r = <<>> THEN 1 ELSE 0)]
    IN IF HeaderFound(sheet) THEN FoldLeft(step, read, sheet.rows) ELSE read
Workbook(f) == FoldLeft(ReadSheet, Nothing, f.sheets)
-----------------------------------------------------------------------------
(* A page: rows of tokens, each a number where it stands.  An amount belongs *)
(* to the nearest column; of two amounts the better aligned is kept.         *)
ColumnTol == 40
ColumnTight == 12
Distance(token, x) == Abs(token.x - x)
DistanceConfidence(d) ==
    IF d <= ColumnTight THEN 100 ELSE (2 * (100 * (ColumnTol - ColumnTight) - 60 * (d - ColumnTight)) + (ColumnTol - ColumnTight))
                                         \div (2 * (ColumnTol - ColumnTight))
ColumnOf(columns, token) ==
    LET order == SelectSeq(<<"debit", "credit", "balance">>, LAMBDA c : c \in DOMAIN columns)
        near(i) == Distance(token, columns[order[i]])
    IN order[CHOOSE i \in DOMAIN order : \A j \in DOMAIN order : near(i) < near(j) \/ (near(i) = near(j) /\ i <= j)]
NoMoney == [money |-> <<>>, balance |-> None, ambiguous |-> FALSE]
ReadToken(columns, read, token) ==
    LET role == ColumnOf(columns, token)
        d == Distance(token, columns[role])
        found == [value |-> Abs(token.value), role |-> role, distance |-> d]
    IN CASE d > ColumnTol -> read
         [] d <= ColumnTol /\ role = "balance" -> [read EXCEPT !.balance = token.value]
         [] d <= ColumnTol /\ role # "balance" /\ token.value = 0 -> read
         [] OTHER -> [read EXCEPT !.ambiguous = read.money # <<>>,
                                  !.money = IF @ # <<>> /\ d >= @[1].distance THEN @ ELSE <<found>>]
ReadTokens(columns, row) == FoldLeft(LAMBDA read, token : ReadToken(columns, read, token), NoMoney, row.tokens)

(* Only the header's page has rows above the header; an amount without a     *)
(* column is reported; what is left over of the words joins the nearest row. *)
Body(f) == SortSeq(SelectSeq(f.rows, LAMBDA r : ~(r.page = f.header.page /\ r.y >= f.header.y)),
                   LAMBDA r, s : r.page < s.page \/ (r.page = s.page /\ r.y > s.y))
Dated(f) == SelectSeq(Body(f), LAMBDA r : r.day # None)
Anchors(f) == SelectSeq(Dated(f), LAMBDA r : ReadTokens(f.header.columns, r).money # <<>>)
Unplaced(f) == SelectSeq(Dated(f), LAMBDA r : ReadTokens(f.header.columns, r).money = <<>> /\ ~IsSummary(r.words))
MaxDescGap == 22
Gap(r, a) == Abs(a.y - r.y)
Joins(r, anchors, i) ==
    LET near == {j \in DOMAIN anchors : anchors[j].page = r.page /\ Gap(r, anchors[j]) < MaxDescGap}
    IN /\ \A j \in DOMAIN anchors : <<anchors[j].page, anchors[j].y>> # <<r.page, r.y>>
       /\ i \in near
       /\ \A j \in near : Gap(r, anchors[i]) < Gap(r, anchors[j]) \/ (Gap(r, anchors[i]) = Gap(r, anchors[j]) /\ i <= j)
ReadAnchor(f, anchors, i) ==
    LET a == anchors[i]
        read == ReadTokens(f.header.columns, a)
        money == read.money[1]
        sure == DistanceConfidence(money.distance)
        loose == {k \in DOMAIN f.rows : Joins(f.rows[k], anchors, i)}
    IN Row(a.day, a.words \cup UNION {f.rows[k].words : k \in loose}, money.value,
           IF money.role = "credit" THEN "deposit" ELSE "withdrawal", read.balance,
           IF read.ambiguous THEN (sure + 1) \div 2 ELSE sure)
Page(f) ==
    LET anchors == Anchors(f)
    IN [rows |-> [i \in DOMAIN anchors |-> ReadAnchor(f, anchors, i)], rejected |-> Len(Unplaced(f))]
-----------------------------------------------------------------------------
(* A PDF without columns: the lines with a date and a number.  With a column *)
(* of balances, an amount is what the balance moved by; without, a guess.    *)
Numbers(line) == [i \in DOMAIN line.tokens |-> line.tokens[i].value]
Candidate(line) == line.day # None /\ line.tokens # <<>>
Candidates(f) == SelectSeq(f.rows, Candidate)
HasBalanceColumn(f) ==
    LET cs == Candidates(f)
    IN 10 * Cardinality({i \in DOMAIN cs : Len(cs[i].tokens) >= 2}) >= 6 * Len(cs)
Seed(f) ==
    LET seeds == SelectSeq(f.rows, LAMBDA r : r.day = None /\ IsSummary(r.words) /\ r.words \cap Openings # {} /\ r.tokens # <<>>)
    IN IF seeds = <<>> THEN None ELSE Last(Numbers(Last(seeds)))
KeywordType(words) ==
    CASE \E w \in words : Hints[w] = "deposit" -> "deposit"
      [] OTHER -> "withdrawal"
Guessed(signed, words) == IF signed < 0 THEN "withdrawal" ELSE KeywordType(words)
ReadLine(columns, read, line) ==
    LET n == Numbers(line)
        balance == Last(n)
        printed == n[Len(n) - 1]
        moved == balance - read.previous
        largest == CHOOSE i \in DOMAIN n : \A j \in DOMAIN n : Abs(n[i]) > Abs(n[j]) \/ (Abs(n[i]) = Abs(n[j]) /\ i <= j)
        with(amount, type, b, confidence, previous) ==
            IF amount = 0 THEN [read EXCEPT !.rejected = @ + 1, !.previous = previous]
            ELSE [rows |-> Append(read.rows, Row(line.day, line.words, amount, type, b, confidence)),
                  rejected |-> read.rejected, previous |-> previous]
    IN CASE columns /\ Len(n) >= 2 /\ read.previous # None ->
              with(IF moved # 0 THEN Abs(moved) ELSE Abs(printed), IF moved >= 0 THEN "deposit" ELSE "withdrawal", balance, 75, balance)
         [] columns /\ Len(n) >= 2 /\ read.previous = None ->
              with(Abs(printed), Guessed(printed, line.words), balance, IF printed < 0 THEN 60 ELSE 35, balance)
         [] OTHER -> with(Abs(n[largest]), Guessed(n[largest], line.words), None, IF n[largest] < 0 THEN 60 ELSE 35, read.previous)
Text(f) ==
    FoldLeft(LAMBDA read, line : ReadLine(HasBalanceColumn(f), read, line),
             [rows |-> <<>>, rejected |-> Len(SelectSeq(f.rows, LAMBDA r : r.day # None /\ r.tokens = <<>>)), previous |-> Seed(f)],
             Candidates(f))
-----------------------------------------------------------------------------
(* The balance is replayed from the first one printed; where it does not     *)
(* agree the row is marked and the replay goes on from what is printed.      *)
Signed(r) == IF r.type = "deposit" THEN r.amount ELSE -r.amount
Net(rows, S) == Total([i \in S |-> Signed(rows[i])], S)
Printed(rows) == {i \in DOMAIN rows : rows[i].balance # None}
OpeningBalance(rows) ==
    IF Printed(rows) = {} THEN None
    ELSE rows[Least(Printed(rows))].balance - Net(rows, 1..Least(Printed(rows)))
GoOn(row, expected) == expected   \* mutant: after a mismatch the replay keeps its own sum
Resync(row, expected) == IF row.balance # None THEN row.balance ELSE expected
Replay(rows) ==
    LET running[i \in 0..Len(rows)] ==
            IF i = 0 THEN OpeningBalance(rows) ELSE Resync(rows[i], running[i - 1] + Signed(rows[i]))
    IN running
Mismatches(rows) ==
    LET running == Replay(rows)
    IN {i \in Printed(rows) : rows[i].balance # running[i - 1] + Signed(rows[i])}
BalanceChecks(rows) ==
    LET wrong == Mismatches(rows)
        after(i) == {j \in Printed(rows) : j > i}
    IN [i \in DOMAIN rows |->
          CASE i \in wrong -> "mismatch"
            [] i \in Printed(rows) \ wrong -> "printed"
            [] i \notin Printed(rows) /\ after(i) # {} /\ Least(after(i)) \notin wrong -> "chain"
            [] OTHER -> "unverified"]
Factor(check) == CASE check = "mismatch" -> 30 [] check = "unverified" -> 80 [] OTHER -> 100
Checked(rows) ==
    LET checks == BalanceChecks(rows)
    IN [i \in DOMAIN rows |-> [row |-> rows[i], check |-> checks[i], confidence |-> (rows[i].confidence * Factor(checks[i]) + 50) \div 100]]

(* One bank prints zero for every balance of a day but the last: dropped if  *)
(* without them three days or more reconcile, and with them none would.      *)
WithoutPlaceholders(rows) ==
    [i \in DOMAIN rows |-> IF i < Len(rows) /\ rows[i + 1].day = rows[i].day THEN [rows[i] EXCEPT !.balance = None] ELSE rows[i]]
DailyBalances(rows) ==
    LET within == {i \in DOMAIN rows : i < Len(rows) /\ rows[i + 1].day = rows[i].day}
    IN /\ Mismatches(rows) # {}
       /\ Printed(rows) = DOMAIN rows /\ \A i \in 1..Len(rows) - 1 : rows[i].day <= rows[i + 1].day
       /\ \A i \in within : rows[i].balance = 0
       /\ within # {} /\ Len(rows) - Cardinality(within) >= 3
       /\ Mismatches(WithoutPlaceholders(rows)) = {}
-----------------------------------------------------------------------------
(* Money that left and came back: each ordinary withdrawal, in order, with   *)
(* the nearest ordinary deposit of its amount that is still free.            *)
Interest(r) == r.kind \in {"loan_interest", "overdraft_interest"}
DaysApart(rows, w, d) == Abs(rows[d].day - rows[w].day)
Returned(rows, w, taken) ==
    {d \in DOMAIN rows \ taken : /\ rows[d].type = "deposit" /\ rows[d].kind = "standard" /\ rows[d].amount = rows[w].amount
                                 /\ DaysApart(rows, w, d) <= RoundTripDays}
SpentNever(pairs) == {}   \* mutant: a deposit is paired as often as it fits
Spent(pairs) == {p[2] : p \in pairs}
RoundTrips(rows) ==
    LET pair(pairs, w) ==
            LET fit == Returned(rows, w, Spent(pairs))
                nearest == CHOOSE d \in fit : \A e \in fit : DaysApart(rows, w, d) < DaysApart(rows, w, e)
                                                              \/ (DaysApart(rows, w, d) = DaysApart(rows, w, e) /\ d <= e)
            IN IF rows[w].type # "withdrawal" \/ rows[w].kind # "standard" \/ fit = {} THEN pairs ELSE pairs \cup {<<w, nearest>>}
    IN FoldLeft(pair, {}, [i \in DOMAIN rows |-> i])

(* Credits that may be a salary; one ten times the median of the others is   *)
(* marked.  Whether a month met the bank's condition is said of whole months.*)
SalaryCandidates(rows) ==
    {i \in DOMAIN rows : /\ rows[i].type = "deposit" /\ rows[i].kind = "standard" /\ rows[i].words \cap Unpaid = {}
                         /\ i \notin Spent(RoundTrips(rows))}
Median(f) ==
    LET atMost(a) == {i \in DOMAIN f : f[i] <= a}
    IN Least({a \in {f[i] : i \in DOMAIN f} : Cardinality(atMost(a)) > Cardinality(DOMAIN f) \div 2})
Atypical(rows, i) ==
    LET others == SalaryCandidates(rows) \ {i}
    IN others # {} /\ LET m == Median([o \in others |-> rows[o].amount]) IN m > 0 /\ rows[i].amount >= 10 * m
Month(day) == (day - 1) \div MonthDays
Coverage(rows) == [from |-> Least({rows[i].day : i \in DOMAIN rows}), to |-> Greatest({rows[i].day : i \in DOMAIN rows})]
MonthlyCondition(rows, m) ==
    LET covered == Coverage(rows).from <= m * MonthDays + 1 /\ Coverage(rows).to >= (m + 1) * MonthDays
        paid == {i \in SalaryCandidates(rows) : Month(rows[i].day) = m}
        total == Total([i \in paid |-> rows[i].amount], paid)
    IN IF ~covered THEN "unknown" ELSE IF total >= SalaryThreshold THEN "met" ELSE "not_met"
MonthlyConditions(rows) ==
    [m \in Month(Coverage(rows).from)..Month(Coverage(rows).to) |-> MonthlyCondition(rows, m)]

(* The buckets; what a round trip carries is set aside on both sides.        *)
Sum(rows, Of(_)) == LET S == {i \in DOMAIN rows : Of(rows[i])} IN Total([i \in S |-> rows[i].amount], S)
In(r) == r.type = "deposit"
Loan(r) == r.kind \in {"loan_principal", "loan_mixed"}
Money(rows) ==
    LET pending == Total([d \in Spent(RoundTrips(rows)) |-> rows[d].amount], Spent(RoundTrips(rows)))
        income == Sum(rows, LAMBDA r : In(r) /\ ~Interest(r) /\ ~Loan(r))
        spend == Sum(rows, LAMBDA r : ~In(r) /\ ~Interest(r) /\ ~Loan(r))
        charged == Sum(rows, LAMBDA r : ~In(r) /\ Interest(r))
        refunded == Sum(rows, LAMBDA r : In(r) /\ Interest(r))
    IN [deposits |-> Sum(rows, In), withdrawals |-> Sum(rows, LAMBDA r : ~In(r)),
        income |-> income, incomeConfirmed |-> income - pending, spend |-> spend, spendConfirmed |-> spend - pending,
        charged |-> charged, refunded |-> refunded, net |-> charged - refunded,
        principal |-> Sum(rows, LAMBDA r : ~In(r) /\ r.kind = "loan_principal"),
        mixed |-> Sum(rows, LAMBDA r : ~In(r) /\ r.kind = "loan_mixed"), pending |-> pending]
(* Interest by loan is gross: what the account was credited has no loan.     *)
LoanFinancing(rows) ==
    LET charged == {i \in DOMAIN rows : rows[i].kind = "loan_interest" /\ ~In(rows[i]) /\ rows[i].ref # None}
    IN [l \in {rows[i].ref : i \in charged} |-> Sum(rows, LAMBDA r : r.kind = "loan_interest" /\ ~In(r) /\ r.ref = l)]
MonthFinancing(rows) ==
    [m \in {Month(rows[i].day) : i \in {i \in DOMAIN rows : Interest(rows[i])}} |->
        Sum(rows, LAMBDA r : Interest(r) /\ Month(r.day) = m /\ ~In(r)) - Sum(rows, LAMBDA r : Interest(r) /\ Month(r.day) = m /\ In(r))]

ReviewThreshold == 70
BuildStatement(reader, read) ==
    LET rows == read.rows
        checked == Checked(rows)
    IN [reader |-> reader, rows |-> rows, rejected |-> read.rejected, mismatches |-> Mismatches(rows),
        checks |-> [i \in DOMAIN rows |-> checked[i].check],
        review |-> {i \in DOMAIN rows : checked[i].confidence < ReviewThreshold \/ (In(rows[i]) /\ Loan(rows[i]))},
        opening |-> OpeningBalance(rows),
        closing |-> IF Printed(rows) = {} THEN None ELSE Replay(rows)[Len(rows)],
        trips |-> RoundTrips(rows), candidates |-> SalaryCandidates(rows),
        atypical |-> {i \in SalaryCandidates(rows) : Atypical(rows, i)}, conditions |-> MonthlyConditions(rows),
        money |-> Money(rows), byLoan |-> LoanFinancing(rows), byMonth |-> MonthFinancing(rows)]
-----------------------------------------------------------------------------
Init == file = None /\ strict = FALSE /\ stage = "idle" /\ statement = None

Upload(f) ==
    /\ stage = "idle" /\ file' = f /\ strict' \in BOOLEAN
    /\ stage' = IF f.format = "workbook" THEN "workbook" ELSE "columns"
    /\ UNCHANGED statement
Accept(reader, read) == statement' = BuildStatement(reader, read) /\ stage' = "read" /\ UNCHANGED <<file, strict>>
Refuse == stage' = "refused" /\ UNCHANGED <<file, strict, statement>>

ReadWorkbook ==
    /\ stage = "workbook"
    /\ LET read == Workbook(file) IN IF read.rows = <<>> THEN Refuse ELSE Accept("excel", read)

(* A caller may insist on columns (all four of them); otherwise a PDF whose  *)
(* columns are not found, or that cannot be read, is read line by line.      *)
Columns == file.header # None /\ (strict => "balance" \in DOMAIN file.header.columns)
ReadColumns ==
    /\ stage = "columns"
    /\ IF Columns /\ Page(file).rows # <<>>
         THEN LET read == Page(file)
                  daily == file.daily /\ DailyBalances(read.rows)
              IN Accept("columns", IF daily THEN [read EXCEPT !.rows = WithoutPlaceholders(read.rows)] ELSE read)
         ELSE IF strict THEN Refuse
         ELSE stage' = "text" /\ UNCHANGED <<file, strict, statement>>
ReadText ==
    /\ stage = "text"
    /\ LET read == Text(file) IN IF read.rows = <<>> THEN Refuse ELSE Accept("text", read)

Next == (\E f \in Files : Upload(f)) \/ ReadWorkbook \/ ReadColumns \/ ReadText
Spec == Init /\ [][Next]_vars
-----------------------------------------------------------------------------
(* What the household is told of a file with one misprint at most: a row     *)
(* that was read by its column and that the printed balances bear out, the   *)
(* first balance aside, is a move the account made; and a move between the   *)
(* first and the last balance that is missing shows as a mismatch, a row     *)
(* that was turned away or one to review.  A misprint is told once or twice, *)
(* never of every row that follows it, unless zeroes stand for balances.     *)
SameMove(r, m) == r.day = m.day /\ r.amount = m.amount /\ r.type = m.type
MisreadsNoticed ==
    stage = "read" /\ statement.reader # "text" /\ Printed(statement.rows) # {} =>
        LET rows == statement.rows
            first == Least(Printed(rows))
            last == Greatest(Printed(rows))
            borne == {i \in DOMAIN rows \ statement.review : i > first /\ statement.checks[i] \in {"printed", "chain"}}
        IN /\ \A i \in borne : \E m \in Range(file.moves) : SameMove(rows[i], m)
           /\ (statement.mismatches = {} /\ statement.rejected = 0 /\ statement.review = {}) =>
                 \A m \in Range(file.moves) :
                    m.day \in rows[first].day + 1..rows[last].day - 1 => \E i \in DOMAIN rows : SameMove(rows[i], m)
           /\ file.format = "workbook" \/ ~file.daily => Cardinality(statement.mismatches) <= 2

(* The buckets are apart and complete: every unit that moved is in one of    *)
(* them (or is a loan's money coming in, which is reviewed), the balance     *)
(* moved by their difference when nothing contradicts it, nothing leaves and *)
(* comes back twice, what is confirmed is never below nothing, and a salary  *)
(* is not money that came back.                                              *)
BucketsComplete ==
    stage = "read" =>
        LET m == statement.money
            rows == statement.rows
            reversed == Sum(rows, LAMBDA r : In(r) /\ Loan(r))
        IN /\ m.deposits = m.income + m.refunded + reversed
           /\ m.withdrawals = m.spend + m.charged + m.principal + m.mixed
           /\ \A i \in DOMAIN rows : In(rows[i]) /\ Loan(rows[i]) => i \in statement.review
           /\ statement.mismatches = {} /\ statement.opening # None => statement.closing - statement.opening = m.deposits - m.withdrawals
           /\ m.incomeConfirmed >= 0 /\ m.spendConfirmed >= 0
           /\ \A p, q \in statement.trips : p = q \/ (p[1] # q[1] /\ p[2] # q[2])
           /\ 2 * m.pending = Total([p \in statement.trips |-> rows[p[1]].amount + rows[p[2]].amount], statement.trips)
           /\ Total(statement.byMonth, DOMAIN statement.byMonth) = m.net

(* bankParser.service.ts: "Ordinary spending: debit rows whose lineKind is   *)
(* "standard" - nothing else".                                               *)
OrdinarySpending ==
    stage = "read" => statement.money.spend = Sum(statement.rows, LAMBDA r : ~In(r) /\ r.kind = "standard")

(* bankParser.service.ts: "Trust the balance delta for the amount when it    *)
(* agrees with the printed figure (...); else keep the printed amount."      *)
PrintedAmountKept ==
    stage = "read" /\ statement.reader = "text" =>
        \A i \in DOMAIN statement.rows :
            \E line \in Range(Candidates(file)) :
                line.day = statement.rows[i].day /\ \E k \in DOMAIN line.tokens : Abs(line.tokens[k].value) = statement.rows[i].amount
=============================================================================
