----------------------------- MODULE Commitments -----------------------------
(***************************************************************************)
(* The fixed monthly debits a bank statement proves                        *)
(* (modules/bank/statementCommitments.detector, .service), the loans and   *)
(* recurring payments added from them, the schedule files that take their  *)
(* tracks out of a loan first seen on a statement                          *)
(* (modules/loans/loanSchedule.service).  A date is a day number and a     *)
(* month has MonthDays days, so that a day of the month is never clamped.  *)
(* The statement is taken to be newer than today.  Each request is one     *)
(* financial transaction, one step here; an import waits between the       *)
(* preview its owner approves and its commit.                              *)
(***************************************************************************)
EXTENDS Integers, Sequences, SequencesExt, FiniteSetsExt

CONSTANTS Statements,  \* the withdrawals of each statement file of one account: a
                       \* sequence of records [kind, ref, payee, date, amount]
          Tracks,      \* schedule files: records [number, track, day, amount]
          Typed,       \* recurring payments entered by hand: records [payee, amount, day]
          NoRef, Never,
          MonthDays, DayTolerance, LoanDayTolerance, FeeWindow, SamePaymentDays,
          MaxEdits     \* bound: commitments edited or removed by hand

Files == DOMAIN Statements
MonthOf(d) == d \div MonthDays
DayOf(d) == d % MonthDays
Apart(a, b) == LET gap == IF a > b THEN a - b ELSE b - a
               IN IF gap < MonthDays - gap THEN gap ELSE MonthDays - gap

VARIABLES stored,     \* the account's withdrawals, in the order they were imported
          staged,     \* statements read and not yet committed
          preview,    \* keys offered to the owner of each staged statement
          taken,      \* statements committed
          loans,      \* loans on record, in the order they were made
          payments,   \* recurring payments on record
          dismissed,  \* keys of commitments the owner did not want
          edits       \* commitments edited or removed by hand

vars == <<stored, staged, preview, taken, loans, payments, dismissed, edits>>

Init ==
    /\ stored = <<>> /\ staged = {} /\ taken = {} /\ dismissed = {} /\ edits = 0 /\ loans = <<>>
    /\ preview = [f \in Files |-> {}]
    /\ \E known \in SUBSET Typed :
        payments = {[key |-> Never, payee |-> p.payee, amount |-> p.amount, next |-> p.day,
                     through |-> 0] : p \in known}
-----------------------------------------------------------------------------
(* The detector.  The series of a loan are built in the order its rows are   *)
(* stored; each is named by the first day it was seen on.                    *)
Dates(rows) == FoldLeft(LAMBDA ds, r : IF r.date \in Range(ds) THEN ds ELSE Append(ds, r.date), <<>>, rows)

LoanRows(rows) == SelectSeq(rows, LAMBDA r : r.kind \in {"loan", "interest"})
PaidOff(rows, d) ==
    \E i \in DOMAIN rows : rows[i].kind = "fee" /\ rows[i].date <= d + FeeWindow /\ d <= rows[i].date + FeeWindow

NumberOn(rows, d) ==
    LET refs == {r.ref : r \in {r \in Range(rows) : r.date = d /\ r.kind = "loan" /\ r.ref # NoRef}}
    IN IF Cardinality(refs) = 1 THEN CHOOSE n \in refs : TRUE ELSE NoRef

AddDay(rows, series, d) ==
    LET n == NumberOn(rows, d)
        of == {i \in DOMAIN series : /\ series[i].number = n
                                     /\ Apart(series[i].day, DayOf(d)) <= LoanDayTolerance}
    IN IF PaidOff(rows, d) THEN series
       ELSE IF of # {} THEN [series EXCEPT ![Min(of)].dates = @ \cup {d}]
       ELSE Append(series, [number |-> n, day |-> DayOf(d), dates |-> {d}])

Series(rows) ==
    LET loan == LoanRows(rows)
    IN Range(FoldLeft(LAMBDA s, d : AddDay(rows, s, d), <<>>, Dates(loan)))

NextMonthly(last, after) ==
    CHOOSE d \in (after + 1)..(after + MonthDays) : DayOf(d) = DayOf(last)
Stopped(last, end) == last + MonthDays + DayTolerance <= end

DayTotal(rows, d) == FoldLeft(LAMBDA t, r : IF r.date = d THEN t + r.amount ELSE t, 0, LoanRows(rows))

FoundLoans(rows, end) ==
    {LET last == Max(s.dates)
     IN [key |-> <<"loan", s.number, s.day>>, kind |-> "loan", payee |-> s.number,
         amount |-> DayTotal(rows, last), last |-> last, next |-> NextMonthly(last, end)] :
        s \in {s \in Series(rows) : /\ Cardinality({MonthOf(d) : d \in s.dates}) >= 2
                                    /\ ~Stopped(Max(s.dates), end)}}

(* One debit a month to a payee: of several, the one nearest to what a lone  *)
(* debit usually is; then the latest stretch of months that agree.           *)
OfPayee(rows, p) ==
    {[at |-> i, date |-> rows[i].date, amount |-> rows[i].amount] :
        i \in {i \in DOMAIN rows : rows[i].kind = "fixed" /\ rows[i].payee = p}}
InMonth(debits, m) == {r \in debits : MonthOf(r.date) = m}
Distance(a, b) == IF a > b THEN a - b ELSE b - a

Typical(debits, months) ==
    LET lone == UNION {InMonth(debits, m) : m \in {m \in months : Cardinality(InMonth(debits, m)) = 1}}
        half == Cardinality(lone) \div 2
    IN CHOOSE a \in {r.amount : r \in lone} : /\ Cardinality({r \in lone : r.amount < a}) <= half
                                              /\ Cardinality({r \in lone : r.amount <= a}) > half
ByDate(rows) == [i \in 1..Cardinality(rows) |->
                    CHOOSE r \in rows : Cardinality({q \in rows : q.date < r.date}) = i - 1]

Occurrences(debits) ==
    LET months == {MonthOf(r.date) : r \in debits}
    IN IF \/ Cardinality(debits) > 2 * Cardinality(months)
          \/ \A m \in months : Cardinality(InMonth(debits, m)) > 1
       THEN <<>>
       ELSE LET typical == Typical(debits, months)
            IN ByDate({CHOOSE r \in InMonth(debits, m) :
                          \A q \in InMonth(debits, m) : Distance(r.amount, typical) <= Distance(q.amount, typical) :
                       m \in months})

Agreeing(run) ==
    /\ \A i, j \in DOMAIN run : run[i].amount * 100 <= run[j].amount * 115
    /\ \A i \in 2..Len(run) : /\ MonthOf(run[i].date) - MonthOf(run[i - 1].date) <= 2
                              /\ Apart(DayOf(run[i].date), DayOf(run[i - 1].date)) <= DayTolerance
LastN(occ, n) == SubSeq(occ, Len(occ) - n + 1, Len(occ))
LatestRun(occ) == LastN(occ, Max({n \in 1..Len(occ) : Agreeing(LastN(occ, n))}))

FoundPayment(rows, end, p) ==
    LET occ == Occurrences(OfPayee(rows, p))
        run == LatestRun(occ)
        last == run[Len(run)]
    IN IF /\ Len(occ) >= 2
          /\ Len(run) >= 3 \/ (Len(run) = 2 /\ Len(occ) >= 3)
          /\ ~Stopped(last.date, end)
       THEN {[key |-> <<"recurring", p>>, kind |-> "recurring", payee |-> p, amount |-> last.amount,
              last |-> last.date, next |-> NextMonthly(last.date, end)]}
       ELSE {}

Found(rows) ==
    IF rows = <<>> THEN {}
    ELSE LET end == Max({r.date : r \in Range(rows)})
         IN FoundLoans(rows, end)
            \cup UNION {FoundPayment(rows, end, p) : p \in {r.payee : r \in Range(rows)} \ {NoRef}}
-----------------------------------------------------------------------------
(* The account's rows, then those of a statement it does not have yet: an    *)
(* identical line counts as often as the busier of the two has it.           *)
Copies(rows, r) == Cardinality({i \in DOMAIN rows : rows[i] = r})
Merged(f) ==
    FoldLeftDomain(LAMBDA rows, i : IF Copies(SubSeq(Statements[f], 1, i), Statements[f][i]) > Copies(rows, Statements[f][i])
                                    THEN Append(rows, Statements[f][i]) ELSE rows,
                   stored, Statements[f])

(* untracked: neither dismissed nor on record under its key, nor as a payment*)
(* of that payee, day and amount; a loan number on record is that loan.      *)
Near(amount, day, c) ==
    /\ Apart(day, DayOf(c.last)) <= SamePaymentDays
    /\ Distance(amount, c.amount) * 20 <= c.amount

Known(c) ==
    \/ c.key \in dismissed \cup {p.key : p \in payments} \cup {l.key : l \in Range(loans)}
    \/ /\ c.kind = "loan"
       /\ \E l \in Range(loans) : \/ c.payee # NoRef /\ l.number = c.payee
                                  \/ l.active /\ Near(l.amount, DayOf(l.next), c)
    \/ /\ c.kind = "recurring"
       /\ \E p \in payments : p.payee = c.payee /\ Near(p.amount, DayOf(p.next), c)

Untracked(found) == {c \in found : ~Known(c)}

(* refresh: newer evidence for what an older statement added; a statement    *)
(* loan keeps what the schedules of its number do not cover.                 *)
IsTrackLeftover(remaining, total) == remaining < 10 \/ remaining * 100 < total
ActiveTracks(n) == {i \in DOMAIN loans : /\ n # NoRef /\ loans[i].number = n
                                         /\ loans[i].source = "bank_file" /\ loans[i].active}
OnTracks(n) == FoldSet(LAMBDA i, t : t + loans[i].amount, 0, ActiveTracks(n))

OlderOrSame(x, c) == x.key = c.key   \* mutant: refreshed by evidence it already had
Older(x, c) == x.key = c.key /\ x.through < c.last
Evidence(x, found) == {c \in found : Older(x, c)}

RefreshedPayments(found) ==
    {IF Evidence(p, found) = {} THEN p
     ELSE LET c == CHOOSE c \in Evidence(p, found) : TRUE
          IN [p EXCEPT !.amount = c.amount, !.next = c.next, !.through = c.last] : p \in payments}

Remaining(l, c) == c.amount - OnTracks(c.payee)
RefreshedLoan(l, found) ==
    IF l.source # "statement" \/ Evidence(l, found) = {} THEN <<l>>
    ELSE LET c == CHOOSE c \in Evidence(l, found) : TRUE
         IN IF IsTrackLeftover(Remaining(l, c), c.amount) THEN <<>>
            ELSE <<[l EXCEPT !.amount = Remaining(l, c), !.next = c.next, !.through = c.last]>>
RefreshedLoans(found) == FlattenSeq([i \in DOMAIN loans |-> RefreshedLoan(loans[i], found)])
-----------------------------------------------------------------------------
Preview(f) ==
    /\ f \notin taken
    /\ staged' = staged \cup {f}
    /\ preview' = [preview EXCEPT ![f] = {c.key : c \in Untracked(Found(Merged(f)))}]
    /\ UNCHANGED <<stored, taken, loans, payments, dismissed, edits>>

(* apply, after the rows of the statement were added: refresh, then add what *)
(* was offered and kept, and remember what was not.                          *)
NewLoan(c) == [key |-> c.key, number |-> c.payee, track |-> NoRef, source |-> "statement", active |-> TRUE,
               amount |-> c.amount, next |-> c.next, through |-> c.last]
NewPayment(c) == [key |-> c.key, payee |-> c.payee, amount |-> c.amount, next |-> c.next, through |-> c.last]

Commit(f, skip) ==
    LET found == Found(Merged(f))
        fresh == RefreshedLoans(found)
    IN
    /\ f \in staged /\ skip \subseteq preview[f]
    /\ staged' = staged \ {f} /\ stored' = Merged(f) /\ taken' = taken \cup {f}
    /\ LET offered == {c \in Untracked(found) : c.key \in preview[f]}
           kept == {c \in offered : c.key \notin skip}
       IN /\ dismissed' = dismissed \cup {c.key : c \in offered \ kept}
          /\ loans' = fresh \o SetToSortSeq({NewLoan(c) : c \in {c \in kept : c.kind = "loan"}},
                                            LAMBDA a, b : a.amount > b.amount)
          /\ payments' = RefreshedPayments(found)
                         \cup {NewPayment(c) : c \in {c \in kept : c.kind = "recurring"}}
    /\ UNCHANGED <<preview, edits>>

(* loanSchedule.importSchedule: a track's file updates the track, or makes it*)
(* and takes its payment out of the first loan of its number the statement   *)
(* made.                                                                     *)
Placeholders(n) == {i \in DOMAIN loans : loans[i].number = n /\ loans[i].source = "statement"}
NewTrack(t) == [key |-> Never, number |-> t.number, track |-> t.track, source |-> "bank_file",
                active |-> TRUE, amount |-> t.amount, next |-> t.day, through |-> 0]

Carved(t) ==
    IF Placeholders(t.number) = {} THEN loans
    ELSE LET i == Min(Placeholders(t.number))
             left == loans[i].amount - t.amount
         IN IF IsTrackLeftover(left, loans[i].amount + OnTracks(t.number))
            THEN RemoveAt(loans, i)
            ELSE [loans EXCEPT ![i].amount = left]

ImportSchedule(t) ==
    /\ IF \E i \in DOMAIN loans : loans[i].number = t.number /\ loans[i].track = t.track
       THEN loans' = [i \in DOMAIN loans |->
                        IF loans[i].number = t.number /\ loans[i].track = t.track
                        THEN [loans[i] EXCEPT !.amount = t.amount] ELSE loans[i]]
       ELSE loans' = Append(Carved(t), NewTrack(t))
    /\ UNCHANGED <<stored, staged, preview, taken, payments, dismissed, edits>>

(* recurring.update and the two removals, which dismiss what was found.      *)
ByHand == edits < MaxEdits /\ edits' = edits + 1
Edit(p) ==
    /\ ByHand
    /\ payments' = (payments \ {p}) \cup {[p EXCEPT !.amount = @ + 1]}
    /\ UNCHANGED <<stored, staged, preview, taken, loans, dismissed>>

Dismissed(key) == IF key = Never THEN dismissed ELSE dismissed \cup {key}
RemovePayment(p) ==
    /\ ByHand
    /\ payments' = payments \ {p} /\ dismissed' = Dismissed(p.key)
    /\ UNCHANGED <<stored, staged, preview, taken, loans>>
RemoveLoan(i) ==
    /\ ByHand /\ loans[i].active
    /\ loans' = RemoveAt(loans, i) /\ dismissed' = Dismissed(loans[i].key)
    /\ UNCHANGED <<stored, staged, preview, taken, payments>>

CloseLoan(i) ==
    /\ ByHand /\ loans[i].active /\ loans' = [loans EXCEPT ![i].active = FALSE]
    /\ UNCHANGED <<stored, staged, preview, taken, payments, dismissed>>

Next ==
    \/ \E f \in Files : Preview(f) \/ \E skip \in SUBSET preview[f] : Commit(f, skip)
    \/ \E t \in Tracks : ImportSchedule(t)
    \/ \E p \in payments : Edit(p) \/ RemovePayment(p)
    \/ \E i \in DOMAIN loans : RemoveLoan(i) \/ CloseLoan(i)

Spec == Init /\ [][Next]_vars
-----------------------------------------------------------------------------
(* What a statement proved is never counted again by the forecast: however   *)
(* statements overlap and in whatever order they come, the next payment of a *)
(* commitment still on the statements lies after the last one stored         *)
(* (statementCommitments.service.ts:88-111, 136).                            *)
NotCountedTwice ==
    \A c \in Found(stored) :
        /\ \A p \in payments : p.key = c.key => p.next > c.last
        /\ \A l \in Range(loans) : l.key = c.key => l.next > c.last

(* An amount the owner corrected is replaced by newer evidence only, never by*)
(* a statement that had already been taken into account                      *)
(* (statementCommitments.service.ts:97).                                     *)
CorrectionsLast ==
    edits' = edits =>
        \A p \in payments, q \in payments' : p.key # Never /\ p.key = q.key /\ p.amount # q.amount
            => q.through > p.through

(* "Each schedule carves its own track out of it, so the forecast neither    *)
(* double-counts nor drops a track whose file hasn't arrived yet"            *)
(* (loanSchedule.service.ts:79-81): no import lowers what is on record for a *)
(* loan number below what the statements show of it.                         *)
OnRecord(ls, n) == FoldSet(LAMBDA i, t : t + ls[i].amount, 0,
                           {i \in DOMAIN ls : ls[i].number = n /\ ls[i].active})
DaysOf(rows, n) == {c \in Found(rows) : c.kind = "loan" /\ c.payee = n}
Shown(rows, n) == FoldSet(LAMBDA c, t : t + c.amount, 0, DaysOf(rows, n))
OneDay(rows, n) == Cardinality(DaysOf(rows, n)) <= 1
Numbers == {t.number : t \in Tracks}

TrackDropped(n) ==
    /\ taken' # taken
    /\ OnRecord(loans', n) < OnRecord(loans, n)
    /\ OnRecord(loans', n) + 10 <= Shown(stored', n)
NoTrackDropped == [][\A n \in Numbers : ~TrackDropped(n)]_vars

(* The same of loans paid on one day of the month, and: a schedule file never*)
(* brings what is on record above what the statements show of its number.    *)
CarvedOnce(n) ==
    /\ loans' # loans /\ taken' = taken /\ Len(loans') >= Len(loans)
    /\ Placeholders(n) # {} /\ OneDay(stored, n)
    => OnRecord(loans', n) <= 10 + Max({OnRecord(loans, n), Shown(stored, n)})

(* The three above: what is on record follows the statements.                *)
CommitmentsFollowStatements ==
    /\ []NotCountedTwice
    /\ [][/\ CorrectionsLast
          /\ \A n \in Numbers : CarvedOnce(n) /\ (TrackDropped(n) => ~OneDay(stored, n) \/ ~OneDay(stored', n))]_vars
=============================================================================
