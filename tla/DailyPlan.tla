------------------------------ MODULE DailyPlan ------------------------------
(***************************************************************************)
(* The daily allowance a household lives by: the figure, the transfers it  *)
(* asks for and the owner's confirmation it rests on (modules/journey:     *)
(* allowance, coverage, funding), over the days of one month.  With several*)
(* accounts only the spending account's cash counts, each payment has an   *)
(* account that pays it, and another account's shortfall is a transfer.    *)
(* The owner looks at the figure in the morning, what is charged that day  *)
(* is charged, the transfers of the day are made, and some of the allowance*)
(* is spent.  Amounts are whole cents.                                     *)
(***************************************************************************)
EXTENDS Integers, FiniteSets, FiniteSetsExt

CONSTANTS Accounts, Spending,   \* the spending account is one of them
          LastDay,                 \* the last day of the month; the first is today
          Payments,             \* name -> [amount, dates, card]: dates it may be due on;
                                \* card bills count after the month too
          Cash,                 \* account -> sums it may start with
          Essentials, Buffer,   \* essential costs still ahead, cash never to be planned with
          MaxSteps, Unset      \* bound: payments made known and payers chosen

VARIABLES day, cash, essential, dueOn, known, payer, seen, confirmed, plan, steps

dayVars == <<day, cash, essential, dueOn, known, payer, seen, confirmed, plan, steps>>
ASSUME DayAssumption ==
    /\ IsFiniteSet(Accounts) /\ Spending \in Accounts /\ LastDay \in Nat \ {0} /\ Buffer \in Nat
    /\ IsFiniteSet(DOMAIN Payments)
    /\ \A p \in DOMAIN Payments : Payments[p].amount \in Nat /\ Payments[p].dates \subseteq Nat \ {0}
    /\ \A a \in Accounts : Cash[a] \subseteq Int
    /\ Essentials \subseteq Nat

DayInit ==
    /\ day = 1 /\ steps = 0 /\ seen = Unset /\ confirmed = Unset /\ plan = Unset
    /\ cash \in {c \in [Accounts -> UNION {Cash[a] : a \in Accounts}] : \A a \in Accounts : c[a] \in Cash[a]}
    /\ dueOn \in {f \in [DOMAIN Payments -> 1..LastDay + 1] : \A p \in DOMAIN Payments : f[p] \in Payments[p].dates}
    /\ essential \in Essentials /\ known = DOMAIN Payments
    /\ payer \in [DOMAIN Payments -> Accounts \cup {Unset}]
-----------------------------------------------------------------------------
(* The figure.                                                               *)
Dates == day..LastDay
Lowermost(S) == CHOOSE x \in S : \A y \in S : x <= y
AtLeast0(n) == IF n > 0 THEN n ELSE 0
Rounded(n, d) == (2 * n + d) \div (2 * d)

Relevant == {p \in known : dueOn[p] <= LastDay \/ Payments[p].card}
PaidFrom(a) == {p \in Relevant : payer[p] = a}
Sum(names) == FoldSet(LAMBDA p, s : s + Payments[p].amount, 0, names)
DueBy(a, d) == Sum({p \in PaidFrom(a) : dueOn[p] <= LastDay /\ dueOn[p] <= d})
After(a) == Sum({p \in PaidFrom(a) : dueOn[p] > LastDay})

(* Another account: its worst shortfall, and the first day it shows; what    *)
(* its cards charge after the month is there by the last day.                *)
LeftInMonth(a, d) == cash[a] - DueBy(a, d)   \* mutant: the bills after the month are forgotten
Left(a, d) == cash[a] - DueBy(a, d) - IF d = LastDay THEN After(a) ELSE 0
Deficit(a) == AtLeast0(-Lowermost({Left(a, d) : d \in Dates}))
Transfers ==
    {[to |-> a, amount |-> Deficit(a), date |-> Lowermost({d \in Dates : Left(a, d) < 0})] :
        a \in {a \in Accounts \ {Spending} : Deficit(a) > 0}}
Sent(d) == FoldSet(LAMBDA t, s : s + t.amount, 0, {t \in Transfers : t.date <= d})

(* What is there for each day after what must be paid by then; the allowance *)
(* is the least of it, spread evenly from today.                             *)
Share(d) == Rounded(essential * (d - day + 1), LastDay - day + 1)
Available(d) == cash[Spending] - Buffer - After(Spending) - DueBy(Spending, d) - Sent(d) - Share(d)
Daily == AtLeast0(Lowermost({Available(d) \div (d - day + 1) : d \in Dates}))
Shortfall == AtLeast0(-Lowermost({Available(d) : d \in Dates}))
-----------------------------------------------------------------------------
(* The owner reads the data behind the figure and confirms what was read;    *)
(* the figure is given on that day and as long as the data is the same.      *)
Data == <<cash, essential, dueOn, known, payer>>
DayVersion == Data
Assigned == \A p \in Relevant : payer[p] # Unset
Ready == Assigned /\ confirmed # Unset /\ confirmed.day = day /\ confirmed.version = DayVersion

Review ==
    /\ plan = Unset /\ day <= LastDay /\ seen # Data /\ seen' = Data
    /\ UNCHANGED <<day, cash, essential, dueOn, known, payer, confirmed, plan, steps>>
Confirm ==
    /\ plan = Unset /\ day <= LastDay /\ ~Ready /\ seen = Data /\ confirmed' = [day |-> day, version |-> DayVersion, data |-> seen]
    /\ UNCHANGED <<day, cash, essential, dueOn, known, payer, seen, plan, steps>>
Look ==
    /\ plan = Unset /\ day <= LastDay /\ Ready /\ plan' = [daily |-> Daily, shortfall |-> Shortfall, transfers |-> Transfers, data |-> Data]
    /\ UNCHANGED <<day, cash, essential, dueOn, known, payer, seen, confirmed, steps>>

(* Payers chosen, payments that become known: any other figure is out.       *)
NewFigure == day <= LastDay /\ steps < MaxSteps /\ steps' = steps + 1 /\ plan' = Unset /\ UNCHANGED <<day, cash, essential, dueOn, seen, confirmed>>
SaveFunding(p, a) == NewFigure /\ a # payer[p] /\ payer' = [payer EXCEPT ![p] = a] /\ UNCHANGED known
Learn(p) == NewFigure /\ p \notin known /\ known' = known \cup {p} /\ UNCHANGED payer

(* A day lived by the figure.                                                *)
Evening(spent) ==
    LET charged == {p \in known : dueOn[p] <= day}
        received(a) == FoldSet(LAMBDA t, s : s + t.amount, 0, {t \in plan.transfers : t.to = a /\ t.date <= day})
    IN /\ plan # Unset /\ plan.data = Data /\ day <= LastDay /\ spent <= plan.daily
       /\ cash' = [a \in Accounts |-> cash[a] + received(a) - Sum(charged \cap PaidFrom(a))
                      - IF a = Spending THEN Sent(day) + Share(day) + spent ELSE 0]
       /\ essential' = essential - Share(day)
       /\ known' = known \ charged /\ day' = day + 1 /\ plan' = Unset
       /\ UNCHANGED <<dueOn, payer, seen, confirmed, steps>>

DayNext ==
    \/ Review \/ Confirm \/ Look
    \/ \E p \in DOMAIN Payments : Learn(p) \/ \E a \in Accounts : SaveFunding(p, a)
    \/ \E s \in 0..(IF plan = Unset THEN -1 ELSE plan.daily) : Evening(s)

DaySpec == DayInit /\ [][DayNext]_dayVars
-----------------------------------------------------------------------------
(* Living by the figure works: when everything due on a day is charged, the  *)
(* transfers are made and no more than the allowance is spent, no other      *)
(* account is overdrawn, and by the end of the month each holds the card     *)
(* bills of the next; and when the figure shows no shortfall the spending    *)
(* account keeps the buffer and its own card bills, and the figure of the    *)
(* next morning is as large, to a cent of rounding                           *)
(* (allowance.ts, coverage.service.ts:30-70).                                *)
FigureHolds ==
    [][ day' = day + 1 =>
        /\ \A a \in Accounts \ {Spending} : cash'[a] >= IF day = LastDay THEN After(a) ELSE 0
        /\ plan.shortfall = 0 =>
              /\ cash'[Spending] >= Buffer + After(Spending)
              /\ day < LastDay => Shortfall' <= 1 /\ Daily' >= plan.daily - 1 ]_dayVars
=============================================================================
