----------------------------- MODULE Obligations -----------------------------
(***************************************************************************)
(* What a household still owes and which of it is settled: the calendar of *)
(* repeating payments and bank schedules (modules/dashboard/cashflow), the *)
(* card bills, and the decisions that take a payment off the plan, made by *)
(* the owner or read from the bank (modules/journey/commitments, routes).  *)
(* Requests under the owner's lock are single steps; a question to the     *)
(* assistant runs without the lock: it reads, and then records one bill at *)
(* a time while others act.  An amount stands for the fingerprint of the   *)
(* payment it belongs to.                                                  *)
(***************************************************************************)
EXTENDS Integers, Sequences, SequencesExt, FiniteSetsExt

CONSTANTS MonthLengths,  \* days of each month, in order
          Week, Year,    \* days of a week, months of a year
          Plans,         \* the payments planned, a set of possibilities, each a function
                         \* name -> [kind, every, anchor, entries, amount]; entries are the
                         \* days of the rows of a bank's schedule
          Cards,         \* name -> [due, bill], the day its bill is charged and
                         \* its sum to begin with, Nil if there is none
          Debits,        \* debits of the bank: name -> [amount, date, names], names a card or Nil
          Amounts, Nil,
          Window, Lookback,          \* days shown ahead, days looked back
          NamedDays, UnnamedDays,    \* how far from the due day a debit may lie
          MaxTurns, MaxDecisions   \* bounds: turns of plans, bills and debits; decisions
                                     \* of the owner

VARIABLES today, plans, bills, debits, decisions, reading, turns, decided

owedVars == <<today, plans, bills, debits, decisions, reading, turns, decided>>

(* A payment repeats or follows the rows of a bank's schedule, and no card    *)
(* has a payment's name.                                                      *)
Planned ==
    {p \in [kind : {"repeating", "scheduled"}, every : {"week", "month", "year", Nil}, anchor : Int,
            amount : Int, entries : SUBSET Int] : p.kind = "scheduled" \/ p.every # Nil}
ASSUME OwedAssumption ==
    /\ MonthLengths \in Seq(Nat)
    /\ \A P \in Plans : \A p \in DOMAIN P : P[p] \in Planned /\ p \notin DOMAIN Cards
    /\ \A c \in DOMAIN Cards : Cards[c].due \in Int

Start(m) == FoldSet(LAMBDA k, s : s + MonthLengths[k], 0, 1..m - 1)
Days == 1..Start(Len(MonthLengths) + 1)
MonthOf(d) == CHOOSE m \in DOMAIN MonthLengths : Start(m) < d /\ d <= Start(m) + MonthLengths[m]
DayOf(d) == d - Start(MonthOf(d))

OwedInit ==
    /\ today = 1 /\ turns = 0 /\ decided = 0 /\ reading = {}
    /\ plans \in Plans
    /\ bills = [c \in DOMAIN Cards |-> Cards[c].bill]
    /\ debits = [p \in DOMAIN Debits |-> "coming"]
    /\ decisions = <<>>
-----------------------------------------------------------------------------
(* The calendar: every month on the anchor's day, or the last of a shorter   *)
(* month; every year in the anchor's month; every week from the anchor.      *)
InMonth(m, day) == Start(m) + IF day <= MonthLengths[m] THEN day ELSE MonthLengths[m]
Monthly(anchor, from, to) ==
    {d \in Days : /\ from <= d /\ anchor <= d /\ d <= to
                  /\ \E m \in DOMAIN MonthLengths : d = InMonth(m, DayOf(anchor))}
Weekly(anchor, from, to) ==
    {d \in Days : from <= d /\ anchor <= d /\ d <= to /\ (d - anchor) % Week = 0}
Yearly(anchor, from, to) ==
    {d \in Monthly(anchor, from, to) : (MonthOf(d) - MonthOf(anchor)) % Year = 0}

Floor == today - Lookback
Dates(p) ==
    CASE p.kind = "scheduled" -> {d \in p.entries : Floor <= d /\ d <= today + Window}
      [] p.kind # "scheduled" /\ p.every = "week" -> Weekly(p.anchor, Floor, today + Window)
      [] p.kind # "scheduled" /\ p.every = "month" -> Monthly(p.anchor, Floor, today + Window)
      [] p.kind # "scheduled" /\ p.every = "year" -> Yearly(p.anchor, Floor, today + Window)

Upcoming == UNION {{[key |-> <<p, d>>, amount |-> plans[p].amount] : d \in Dates(plans[p])} : p \in DOMAIN plans}
Billed == {[key |-> <<c, Cards[c].due>>, amount |-> bills[c]] : c \in {c \in DOMAIN Cards : bills[c] # Nil}}

(* A debt acknowledged as unpaid stays when its schedule moves on.           *)
ListedOnly ==   \* mutant: an acknowledged debt lasts as long as its plan
    {[key |-> k, amount |-> decisions[k].saved] :
        k \in {k \in DOMAIN decisions : decisions[k].what = "unpaid" /\ k[2] < today /\ k[1] \in DOMAIN plans}}
Acknowledged ==
    {[key |-> k, amount |-> decisions[k].saved] :
        k \in {k \in DOMAIN decisions : decisions[k].what = "unpaid" /\ k[2] < today}}
Rows ==
    LET scheduled == Upcoming \cup Billed
    IN scheduled \cup {r \in Acknowledged : r.key \notin {s.key : s \in scheduled}}

There == {p \in DOMAIN debits : debits[p] \in {"settled", "other"}}

(* What each row counts as: its decision, when the fingerprint still fits ...*)
Decided(r) == IF r.key \in DOMAIN decisions /\ decisions[r.key].print = r.amount
              THEN decisions[r.key].what ELSE "open"
(* ... and a linked debit is there, unchanged, and linked to no other row;   *)
PaidBy(r) == IF Decided(r) = "paid" THEN decisions[r.key].debit ELSE Nil
NeverMind(rows, p) == TRUE   \* mutant: one debit settles two bills
UsedOnce(rows, p) == \A r, q \in rows : PaidBy(r) = p /\ PaidBy(q) = p => r = q
Proves(rows, r) ==
    LET p == PaidBy(r)
    IN /\ p \in There
       /\ Debits[p].amount = r.amount /\ Debits[p].date <= today
       /\ decisions[r.key].unchanged
       /\ UsedOnce(rows, p)
Paid(rows, r) == IF PaidBy(r) # Nil /\ ~Proves(rows, r) THEN "open" ELSE Decided(r)
(* ... and the row it is part of is open and large enough for all of them.   *)
PartOf(rows, r) ==
    {t \in rows : t.key = decisions[r.key].of /\ Paid(rows, t) = "unpaid" /\ r.amount > 0 /\ t.amount >= r.amount}
Parts(rows, t) == {r \in rows : Paid(rows, r) = "duplicate" /\ t \in PartOf(rows, r)}
Total(rows) == FoldSet(LAMBDA r, s : s + r.amount, 0, rows)
CountsAs(rows, r) ==
    IF Paid(rows, r) = "duplicate" /\ ~\E t \in PartOf(rows, r) : Total(Parts(rows, t)) <= t.amount
    THEN "open" ELSE Paid(rows, r)
-----------------------------------------------------------------------------
(* Card bills nobody decided, in the order they are due: each takes the one  *)
(* debit settled as a card's that fits its sum, its card and its day.        *)
Apart(a, b) == IF a > b THEN a - b ELSE b - a
Linked == {decisions[k].debit : k \in {k \in DOMAIN decisions : decisions[k].what = "paid"}}
Undecided == {r \in Billed : r.key \notin DOMAIN decisions}
Fitting(r) ==
    {p \in DOMAIN debits \ Linked :
        /\ debits[p] = "settled" /\ Debits[p].date <= today /\ Debits[p].amount = r.amount
        /\ Debits[p].names \in {r.key[1], Nil}
        /\ Apart(Debits[p].date, r.key[2]) <= IF Debits[p].names = Nil THEN UnnamedDays ELSE NamedDays}
Claim(claims, r) ==
    LET free == Fitting(r) \ {c.debit : c \in claims}
    IN IF Cardinality(free) = 1 THEN claims \cup {[key |-> r.key, amount |-> r.amount, debit |-> CHOOSE p \in free : TRUE]}
       ELSE claims
Claims == FoldLeft(Claim, {}, SetToSortSeq(Undecided, LAMBDA a, b : a.key[2] < b.key[2]))

Record(c) == [what |-> "paid", print |-> c.amount, debit |-> c.debit, of |-> Nil, saved |-> c.amount, unchanged |-> TRUE]
Overwritten(claims) ==   \* mutant: what was read from the bank replaces what was decided meanwhile
    [k \in DOMAIN decisions \cup {c.key : c \in claims} |->
        IF \E c \in claims : c.key = k THEN Record(CHOOSE c \in claims : c.key = k) ELSE decisions[k]]
Recorded(claims) ==
    [k \in DOMAIN decisions \cup {c.key : c \in claims} |->
        IF k \in DOMAIN decisions THEN decisions[k] ELSE Record(CHOOSE c \in claims : c.key = k)]
-----------------------------------------------------------------------------
(* Every page that shows the household's picture reads under the lock.       *)
Read ==
    /\ Claims # {} /\ decisions' = Recorded(Claims)
    /\ UNCHANGED <<today, plans, bills, debits, reading, turns, decided>>

(* The assistant's question: the claims it read are recorded one by one; a   *)
(* bill decided by somebody else meanwhile is left alone.                    *)
AskAssistant ==
    /\ reading = {} /\ Claims # {} /\ reading' = Claims
    /\ UNCHANGED <<today, plans, bills, debits, decisions, turns, decided>>
RecordOne(c) ==
    /\ reading' = reading \ {c} /\ decisions' = Recorded({c})
    /\ UNCHANGED <<today, plans, bills, debits, turns, decided>>

(* The owner's decision on a row as it is now; the request first reads.      *)
Allocated(rows, t, r) ==
    Total({q \in rows : q.key # r.key /\ Decided(q) = "duplicate" /\ decisions[q.key].of = t.key})
MayBePart(rows, r, t) ==
    /\ t.key # r.key /\ CountsAs(rows, t) = "unpaid" /\ t.amount >= r.amount
    /\ Allocated(rows, t, r) + r.amount <= t.amount
MayProve(r, p) ==
    /\ p \in There /\ Debits[p].amount = r.amount /\ Debits[p].date <= today
    /\ \A k \in DOMAIN decisions \ {r.key} : ~(decisions[k].what = "paid" /\ decisions[k].debit = p)

Choose(r, what, debit, of) ==
    /\ decided' = decided + 1
    /\ decisions' = [k \in DOMAIN decisions \cup {r.key} |->
                        IF k = r.key THEN [what |-> what, print |-> r.amount, debit |-> debit, of |-> of,
                                           saved |-> r.amount, unchanged |-> TRUE]
                        ELSE decisions[k]]
    /\ UNCHANGED <<today, plans, bills, debits, reading, turns>>
DecideOn ==
    /\ decided < MaxDecisions /\ Claims = {}
    /\ LET rows == Rows
       IN \E r \in rows :
            \/ Choose(r, "unpaid", Nil, Nil) \/ Choose(r, "paid", Nil, Nil)
            \/ \E p \in DOMAIN debits : MayProve(r, p) /\ Choose(r, "paid", p, Nil)
            \/ \E t \in rows : MayBePart(rows, r, t) /\ Choose(r, "duplicate", Nil, t.key)
-----------------------------------------------------------------------------
(* What changes around the decisions.                                        *)
TurnOfEvents == turns < MaxTurns /\ turns' = turns + 1 /\ UNCHANGED <<today, reading, decided>>

Reschedule(p, d) ==
    /\ TurnOfEvents /\ d # plans[p].anchor
    /\ plans' = [plans EXCEPT ![p].anchor = d, ![p].entries = IF plans[p].kind = "scheduled" THEN {d} ELSE {}]
    /\ UNCHANGED <<bills, debits, decisions>>
Drop(p) ==
    /\ TurnOfEvents /\ plans' = [q \in DOMAIN plans \ {p} |-> plans[q]]
    /\ UNCHANGED <<bills, debits, decisions>>
Itemize(c, a) ==
    /\ TurnOfEvents /\ a # bills[c] /\ bills' = [bills EXCEPT ![c] = a]
    /\ UNCHANGED <<plans, debits, decisions>>
(* A row of the bank is imported, read again by the resolver, or undone with *)
(* its import; a row that changed no longer proves what it was linked to.    *)
Turn(p, to) ==
    /\ TurnOfEvents /\ debits' = [debits EXCEPT ![p] = to]
    /\ decisions' = [k \in DOMAIN decisions |->
                        IF decisions[k].debit = p THEN [decisions[k] EXCEPT !.unchanged = FALSE] ELSE decisions[k]]
    /\ UNCHANGED <<plans, bills>>
Arrive(p) == debits[p] = "coming" /\ Turn(p, "settled")
Reclassify(p) == (debits[p] = "settled" /\ Turn(p, "other")) \/ (debits[p] = "other" /\ Turn(p, "settled"))
UndoDebit(p) == p \in There /\ Turn(p, "gone")
Tomorrow ==
    /\ today + 1 \in Days /\ today' = today + 1
    /\ UNCHANGED <<plans, bills, debits, decisions, reading, turns, decided>>

OwedNext ==
    \/ Read \/ AskAssistant \/ \E c \in reading : RecordOne(c)
    \/ DecideOn
    \/ \E p \in DOMAIN plans : Drop(p) \/ \E d \in Days : Reschedule(p, d)
    \/ \E c \in DOMAIN Cards, a \in Amounts \cup {Nil} : Itemize(c, a)
    \/ \E p \in DOMAIN debits : Arrive(p) \/ Reclassify(p) \/ UndoDebit(p)
    \/ Tomorrow

OwedSpec == OwedInit /\ [][OwedNext]_owedVars
-----------------------------------------------------------------------------
(* Money is left out of the plan for a reason that still stands: of the rows *)
(* that count as paid by the bank each has a debit of its own, and what is   *)
(* part of another payment fits into it and into nothing else.  Both stay    *)
(* true while the assistant records what it read before others decided       *)
(* (commitments.service.ts:45-50, 81-121).                                   *)
LeftOutOnce ==
    LET rows == Rows
        proved == {r \in rows : CountsAs(rows, r) = "paid" /\ PaidBy(r) # Nil}
    IN /\ \A r, q \in proved : r # q => PaidBy(r) # PaidBy(q)
       /\ \A r \in proved : PaidBy(r) \in There /\ Debits[PaidBy(r)].amount = r.amount
       /\ \A t \in rows :
            LET parts == {r \in rows : CountsAs(rows, r) = "duplicate" /\ decisions[r.key].of = t.key}
            IN parts # {} => CountsAs(rows, t) = "unpaid" /\ Total(parts) <= t.amount

(* "Advancing or removing a schedule is not evidence that its acknowledged   *)
(* debt was paid" (commitments.service.ts:73): once its day has passed, what *)
(* was owed stays on the list until somebody decides about it.               *)
Owed ==
    LET rows == Rows
    IN {r.key : r \in {r \in rows : r.key[2] < today /\ CountsAs(rows, r) = "unpaid"}}
DebtStays == [][decisions' = decisions => Owed \subseteq {r.key : r \in Rows'}]_owedVars

(* What somebody decided stays until the owner decides again: a claim read   *)
(* before is not recorded over it (commitments.service.ts:47-50).            *)
Same(k) ==
    /\ k \in DOMAIN decisions'
    /\ \A field \in {"what", "print", "debit", "of", "saved"} : decisions'[k][field] = decisions[k][field]
DecisionStays == [][decided' = decided => \A k \in DOMAIN decisions : Same(k)]_owedVars

(* The three: what is settled is settled for a reason, and what is not stays.*)
DebtsSettled == []LeftOutOnce /\ DebtStays /\ DecisionStays
=============================================================================
