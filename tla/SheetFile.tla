------------------------------- MODULE SheetFile -------------------------------
(***************************************************************************)
(* A file that is dropped on the import page: what kind it is taken for,   *)
(* what is read of a card report or an expense sheet, and what the owner   *)
(* is asked before she may approve it (modules/imports, modules/credit:    *)
(* creditParser, utils/sheetDates).  A workbook is a sequence of sheets of *)
(* rows of cells.  A cell's words are the header words found in its text;  *)
(* what a bank statement or a schedule holds is read by StatementFile and  *)
(* LoanSchedule, here it is only how many rows, with which faults.         *)
(***************************************************************************)
EXTENDS Integers, Sequences, FiniteSets, FiniteSetsExt, SequencesExt

CONSTANTS Files,       \* [printed, format, columns, sheets, bank, schedule, truth, early, readable]
          There,       \* accounts, cards and loans of the household
          Answers,     \* what the owner may answer: a function of some of the questions' names
          HeaderRows, TextRows, MaxRows, None

VARIABLES file, answers, session

vars == <<file, answers, session>>

Init == file = None /\ answers = <<>> /\ session = None
-----------------------------------------------------------------------------
(* The kind, from the words of the first rows of every sheet.                *)
BankSignals == [balance |-> 3, credit |-> 3, debit |-> 3, opening |-> 3, valueDate |-> 2, reference |-> 2, operation |-> 1]
CreditSignals == [business |-> 3, chargeDate |-> 3, dealType |-> 3, voucher |-> 2, payments |-> 1, card |-> 1]
ScheduleSignals == {"schedule", "principalNumber", "balanceAfter", "principalAmount"}

Upper(s, k) == SubSeq(s, 1, IF Len(s) < k THEN Len(s) ELSE k)
WordsOf(row) == UNION {row[c].words : c \in DOMAIN row}
HeaderText(sheets) ==
    UNION {sheets[s].name \cup UNION {WordsOf(r) : r \in ToSet(Upper(sheets[s].rows, TextRows))} : s \in DOMAIN sheets}
Score(text, signals) == FoldSet(LAMBDA w, sum : sum + signals[w], 0, text \cap DOMAIN signals)

ScoredOnly(f) ==   \* mutant: a schedule is scored like a statement
    LET text == HeaderText(f.sheets)  bank == Score(text, BankSignals)  credit == Score(text, CreditSignals)
    IN IF bank = credit THEN "unknown" ELSE IF bank > credit THEN "bank" ELSE "credit"
Detected(f) ==
    LET verdict(text, lead) ==
            CASE f.format = "broken" -> "unknown"
              [] Cardinality(text \cap ScheduleSignals) >= 2 -> "loan_schedule"
              [] lead = 0 -> "unknown"
              [] OTHER -> IF lead > 0 THEN "bank" ELSE "credit"
        scored(text) == verdict(text, Score(text, BankSignals) - Score(text, CreditSignals))
    IN scored(HeaderText(f.sheets))
-----------------------------------------------------------------------------
(* The header: the first row with the columns that are needed; a column has  *)
(* the first cell that holds a word of its role, and may have several roles. *)
CardRoles == [charge |-> {"chargeDate"}, date |-> {"date"}, business |-> {"business", "description"}, amount |-> {"amount"},
              payments |-> {"payments", "paymentNumber"}, type |-> {"type"}, notes |-> {"notes"}]
SheetRoles == [name |-> {"name", "description"}, amount |-> {"amount"}, method |-> {"means", "payment"}, date |-> {"date"},
               category |-> {"category"}]
Holding(row, words) == {c \in DOMAIN row : row[c].words \cap words # {}}
Columns(row, roles) == [role \in {r \in DOMAIN roles : Holding(row, roles[r]) # {}} |-> Min(Holding(row, roles[role]))]
HeaderRow(rows, roles, needed) ==
    LET found == {i \in DOMAIN Upper(rows, HeaderRows) : needed \subseteq DOMAIN Columns(rows[i], roles)}
    IN IF found = {} THEN None ELSE Min(found)

Blank == [is |-> "blank", words |-> {}]
Cell(row, columns, role) ==
    IF role \in DOMAIN columns /\ columns[role] \in DOMAIN row THEN row[columns[role]] ELSE Blank
Name(cell) == CASE cell.is = "blank" -> None [] cell.is = "text" -> cell.name [] OTHER -> cell   \* whatever is there, as text

(* A workbook's date comes as an instant that may be just before its day.  A *)
(* card report's is rounded to the day it shows; an expense sheet's parser,   *)
(* which has a copy of its own, takes the instant as it is.                   *)
CardDayAsItIs(cell) ==   \* mutant: a card report's is not rounded
    CASE cell.is = "date" -> IF cell.early THEN cell.day - 1 ELSE cell.day
      [] cell.is = "dayText" /\ cell.valid -> cell.day
      [] cell.is = "number" -> cell.value
      [] OTHER -> None
CardDay(cell) ==
    CASE cell.is = "date" -> cell.day
      [] cell.is = "dayText" /\ cell.valid -> cell.day
      [] cell.is = "number" -> cell.value
      [] OTHER -> None
SheetDay(cell) ==
    CASE cell.is = "date" -> IF cell.early THEN cell.day - 1 ELSE cell.day
      [] cell.is = "dayText" -> cell.day   \* a month 13 is January of the next year
      [] cell.is = "number" -> cell.value
      [] OTHER -> None
-----------------------------------------------------------------------------
(* A card report: every sheet.                                               *)
CardAmount(cell) == IF cell.is \in {"number", "money"} THEN cell.value ELSE 0
Once == [count |-> 1, nth |-> None]
CellPayments(cell) ==
    CASE cell.is \in {"number", "money"} /\ cell.value >= 1 -> [count |-> cell.value, nth |-> None]
      [] cell.is = "part" -> [count |-> cell.count, nth |-> cell.nth]
      [] OTHER -> Once
NotePayments(cell) ==
    CASE cell.is = "part" -> [count |-> cell.count, nth |-> cell.nth]
      [] cell.is = "split" /\ cell.count >= 1 -> [count |-> cell.count, nth |-> None]
      [] OTHER -> Once
NormalizeType(type, amount, business) ==
    CASE "revolving" \in business.words -> "financing"
      [] amount < 0 \/ "refund" \in type.words -> "refund"
      [] "standing" \in type.words -> "standing_order"
      [] type.words \cap {"instalments", "payments"} # {} -> "credit"
      [] OTHER -> "regular"

CardRow(row, columns) ==
    LET cell(role) == Cell(row, columns, role)
        payments == IF "payments" \in DOMAIN columns THEN CellPayments(cell("payments")) ELSE NotePayments(cell("notes"))
    IN [day |-> CardDay(cell("date")), charge |-> CardDay(cell("charge")), name |-> Name(cell("business")),
        amount |-> CardAmount(cell("amount")), count |-> payments.count, nth |-> payments.nth,
        use |-> NormalizeType(cell("type"), CardAmount(cell("amount")), cell("business"))]
IsSummary(cell) == cell.words \cap {"total", "toCharge"} # {}

CardEntry(r, business) ==
    IF r.day # None /\ r.name # None /\ r.amount # 0 /\ ~IsSummary(business) THEN r ELSE None
CardEntries(rows, columns) ==
    SelectSeq([i \in DOMAIN rows |-> CardEntry(CardRow(rows[i], columns), Cell(rows[i], columns, "business"))],
              LAMBDA r : r # None)
Below(rows, at) == SubSeq(rows, at + 1, Len(rows))
CardSheet(rows, at) == IF at = None THEN <<>> ELSE CardEntries(Below(rows, at), Columns(rows[at], CardRoles))
ParseSheet(sheet) == CardSheet(sheet.rows, HeaderRow(sheet.rows, CardRoles, {"date", "business", "amount"}))
FirstSheetOnly(f) == ParseSheet(f.sheets[1])   \* mutant: the foreign purchases' sheet is left out
ParseCreditFile(f) == FlattenSeq([s \in DOMAIN f.sheets |-> ParseSheet(f.sheets[s])])

(* An expense sheet: the first sheet only.                                   *)
Magnitude(n) == IF n < 0 THEN -n ELSE n
SheetAmount(cell) ==
    CASE cell.is = "number" -> Magnitude(cell.value)
      [] cell.is = "money" /\ cell.value # 0 -> Magnitude(cell.value)
      [] OTHER -> None
SheetRow(row, columns) ==
    LET cell(role) == Cell(row, columns, role)
    IN [day |-> SheetDay(cell("date")), name |-> Name(cell("name")), amount |-> SheetAmount(cell("amount")),
        method |-> Name(cell("method")), category |-> Name(cell("category"))]
SheetEntries(rows, columns) ==
    SelectSeq([i \in DOMAIN rows |-> SheetRow(rows[i], columns)], LAMBDA r : r.name # None /\ r.amount # None)
ExpenseRows(rows, at) == IF at = None THEN <<>> ELSE SheetEntries(Below(rows, at), Columns(rows[at], SheetRoles))
FirstRows(f) == IF f.sheets = <<>> THEN <<>> ELSE f.sheets[1].rows
ParseExpensesFile(f) == ExpenseRows(FirstRows(f), HeaderRow(FirstRows(f), SheetRoles, {"name", "amount"}))
-----------------------------------------------------------------------------
(* What is taken in: the answered kind, or the detected one; a file nothing  *)
(* is known of is an expense sheet if it can be read as one.                 *)
Taken(f, detected) ==
    CASE f.format = "pdf" -> IF f.columns THEN "bank" ELSE "unknown"
      [] detected # "unknown" -> detected
      [] OTHER -> IF ParseExpensesFile(f) # <<>> THEN "expense_sheet" ELSE "unknown"
Kind(f, a) == IF "kind" \in DOMAIN a THEN a.kind ELSE Taken(f, Detected(f))
Known(a, name) == name \in DOMAIN a /\ a[name] \in There

Failure == [kind |-> "unknown", rows |-> <<>>, questions |-> {}, blocked |-> FALSE, error |-> TRUE]
Preview(kind, rows, questions, faulty) ==
    [kind |-> kind, rows |-> rows, questions |-> questions, blocked |-> faulty \/ rows = <<>>, error |-> Len(rows) > MaxRows]
Asked(question, condition) == IF condition THEN {question} ELSE {}

Unasked(rows, a) == {}   \* mutant: the month of undated expenses is not asked
Undated(rows, a) == Asked("month", "month" \notin DOMAIN a /\ \E r \in ToSet(rows) : r.day = None)
RowsRead(f, kind) ==
    CASE kind = "bank" /\ f.bank # None -> f.bank.rows
      [] kind = "credit" /\ f.format = "workbook" -> ParseCreditFile(f)
      [] kind = "loan_schedule" /\ f.schedule # None -> f.schedule.rows
      [] kind = "expense_sheet" /\ f.format = "workbook" -> ParseExpensesFile(f)
      [] OTHER -> <<>>
Previewed(f, a, kind, rows) ==
    CASE kind = "unknown" -> [Preview(kind, <<>>, {"kind"}, FALSE) EXCEPT !.blocked = FALSE]
      [] kind = "bank" /\ f.bank # None -> Preview(kind, rows, Asked("account", ~Known(a, "account")), f.bank.faulty)
      [] rows = <<>> -> Failure
      [] kind = "credit" -> Preview(kind, rows, Asked("card", ~Known(a, "card")), FALSE)
      [] kind = "expense_sheet" -> Preview(kind, rows, Undated(rows, a), FALSE)
      [] OTHER -> Preview(kind, rows, Asked("loan", IF "loan" \in DOMAIN a THEN ~Known(a, "loan") ELSE ~f.schedule.numbered), FALSE)
PreparedAs(f, a, kind) == Previewed(f, a, kind, RowsRead(f, kind))
Prepare(f, a) == PreparedAs(f, a, Kind(f, a))
Status(p) ==
    IF p.error \/ p.blocked THEN "failed" ELSE IF p.questions # {} THEN "needs_input" ELSE "ready_for_review"

Outcome(before, p) ==
    IF p.error /\ before # None THEN [before EXCEPT !.status = "failed"]
    ELSE [status |-> Status(p), kind |-> p.kind, rows |-> p.rows, questions |-> p.questions]
ProcessSession(f, a) == session' = Outcome(session, Prepare(f, a))
Create(f, a) ==
    /\ session = None
    /\ file' = f /\ answers' = a /\ ProcessSession(f, a)
Answer(a) ==
    /\ session # None
    /\ answers' = a @@ answers
    /\ ProcessSession(file, a @@ answers) /\ UNCHANGED file

Next ==
    \/ \E f \in Files, a \in Answers : Create(f, a)
    \/ \E a \in Answers : Answer(a)
Spec == Init /\ [][Next]_vars
-----------------------------------------------------------------------------
(* A file is never taken for something it is not, unless the owner says so:  *)
(* it is what it was printed as or the owner is asked.  A report whose words *)
(* speak for a statement and a card alike is the exception, it may pass for  *)
(* an expense sheet.  (statementDetector.service.ts detectStatement)         *)
Tied(f) == f.format = "workbook" /\ Detected(f) = "unknown"
Recognised ==
    session # None /\ "kind" \notin DOMAIN answers /\ ~(Tied(file) /\ session.kind = "expense_sheet")
        => session.kind \in {file.printed, "unknown"}

(* What is read is what is printed, row by row: no purchase of a second      *)
(* sheet missed, no total taken for one, instalments and signs as they are,  *)
(* and the days too, but for an expense sheet's date cells that come as an   *)
(* instant before their day (file.early): those are read a day early, though *)
(* utils/sheetDates.ts says it is shared by every statement parser because   *)
(* "a second copy once put every Cal date a day early".                      *)
(* (creditParser.service.ts, importsParser.service.ts parseCellDate)         *)
Showing(i) == IF i \in file.early THEN [file.truth[i] EXCEPT !.day = @ - 1] ELSE file.truth[i]
ReadAsPrinted ==
    session # None /\ session.kind = file.printed /\ session.status # "failed" /\ file.truth # None
        => /\ session.rows = [i \in DOMAIN file.truth |-> Showing(i)]
           /\ file.printed = "credit" => session.rows = file.truth

(* What is ready to be approved has all that booking it needs, and a file    *)
(* that can be read at all is never stuck: whatever was answered, some       *)
(* answer makes it ready.  (importSession.service.ts prepare)                *)
ReadyIsKnown ==
    /\ session # None /\ session.status = "ready_for_review" =>
        /\ session.rows # <<>>
        /\ session.kind = "bank" => Known(answers, "account") /\ ~file.bank.faulty
        /\ session.kind = "credit" => Known(answers, "card")
        /\ session.kind = "loan_schedule" => Known(answers, "loan") \/ file.schedule.numbered
        /\ session.kind = "expense_sheet" => "month" \in DOMAIN answers \/ \A r \in ToSet(session.rows) : r.day # None
    /\ session # None /\ session.status # "ready_for_review" /\ file.readable =>
        \E a \in Answers : Status(Prepare(file, a @@ answers)) = "ready_for_review"
FilesRead == Recognised /\ ReadAsPrinted /\ ReadyIsKnown
=============================================================================
