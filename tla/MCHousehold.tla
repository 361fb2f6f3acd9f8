----------------------------- MODULE MCHousehold -----------------------------
(* Instances of the components that keep the household's own records; each   *)
(* behaviour exercises the one in focus, the others stay as they began.      *)
EXTENDS DuplicateReview, DocumentStore, Obligations, TLC

CONSTANTS k1, k2, k3, b1, r1, r2, h1, n1, n2, loan1, rent, c1, c2, p1, p2

VARIABLES focus, bankRows, staged, preview, taken, loans, payments, dismissed, edits

Household(a, b, c) == [k \in {k1, k2, k3} |-> IF k = k1 THEN a ELSE IF k = k2 THEN b ELSE c]
ThreeHouseholds ==
    {Household("expense", "expense", "credit"), Household("income", "income", "credit"),
     Household("credit", "credit", "expense")}
OneScope == [k \in Keys |-> "same"]
TwoOfOneFile == <<[hash |-> h1, path |-> <<h1, n1>>], [hash |-> h1, path |-> <<h1, n1>>]>>

(* A loan of two tracks, whose interest is charged in two equal lines, and a *)
(* rent that was raised, on three statements.                                *)
Debit(k, ref, payee, m, day, amount) ==
    [kind |-> k, ref |-> ref, payee |-> payee, date |-> 30 * m + day, amount |-> amount]
Month(m) == <<Debit("loan", loan1, None, m, 5, 700 + m), Debit("interest", None, None, m, 5, 150), Debit("interest", None, None, m, 5, 150),
              Debit("fixed", None, rent, m, 2, IF m = 3 THEN 520 ELSE 500)>>
Track(t, amount) == [number |-> loan1, track |-> t, day |-> 5, amount |-> amount]
Fixed == INSTANCE Commitments WITH
    Statements <- [f \in 1..3 |-> Month(f - 1) \o Month(f)], Tracks <- {Track(1, 600), Track(2, 403)},
    Typed <- {[payee |-> rent, amount |-> 500, day |-> 2]}, NoRef <- None, Never <- None,
    MonthDays <- 30, DayTolerance <- 4, LoanDayTolerance <- 2, FeeWindow <- 3,
    SamePaymentDays <- 3, MaxEdits <- 1, stored <- bankRows

(* A rent due in several ways, two card bills of equal sum on one day, and   *)
(* two debits of the bank that may have paid them, one of which names a card.*)
Plan(p, k, every, anchor) ==
    p :> [kind |-> k, every |-> every, anchor |-> anchor, amount |-> 1,
          entries |-> IF k = "scheduled" THEN {anchor} ELSE {}]
TwoMonths == <<3, 2>>
RentOrLoan ==
    {Plan(rent, "repeating", "month", 3), Plan(loan1, "scheduled", None, 4),
     Plan(rent, "repeating", "week", 2), Plan(rent, "repeating", "year", 1)}
TwoCards == [c \in {c1, c2} |-> [due |-> 2, bill |-> 1]]
TwoDebits == [p \in {p1, p2} |-> [amount |-> 1, date |-> 2, names |-> IF p = p1 THEN None ELSE c1]]

fixedVars == <<bankRows, staged, preview, taken, loans, payments, dismissed, edits>>
ASSUME InstancesAssumption == ReviewAssumption /\ Assumption /\ OwedAssumption

Alike == Permutations({r1, r2})
suiteVars == <<focus, reviewVars, vars, fixedVars, owedVars>>

(* One initial state of each for when another is in focus.                   *)
QuietReview == ReviewInit /\ kind[k1] = "credit" /\ linked = {} /\ orphans = {} /\ \A k \in DOMAIN stamp : stamp[k] = 1
QuietStore == Init /\ \A d \in DOMAIN doc : doc[d] = "none"
QuietFixed == Fixed!Init /\ payments = {}
QuietOwed == OwedInit /\ plans = Plan(rent, "repeating", "month", 3)

SuiteInit ==
    \/ focus = "review" /\ ReviewInit /\ QuietStore /\ QuietFixed /\ QuietOwed
    \/ focus = "store" /\ Init /\ QuietReview /\ QuietFixed /\ QuietOwed
    \/ focus = "fixed" /\ Fixed!Init /\ QuietReview /\ QuietStore /\ QuietOwed
    \/ focus = "owed" /\ OwedInit /\ QuietReview /\ QuietStore /\ QuietFixed
SuiteNext ==
    /\ UNCHANGED focus
    /\ \/ focus = "review" /\ ReviewNext /\ UNCHANGED <<vars, fixedVars, owedVars>>
       \/ focus = "store" /\ Next /\ UNCHANGED <<reviewVars, fixedVars, owedVars>>
       \/ focus = "fixed" /\ Fixed!Next /\ UNCHANGED <<reviewVars, vars, owedVars>>
       \/ focus = "owed" /\ OwedNext /\ UNCHANGED <<reviewVars, vars, fixedVars>>
SuiteSpec == SuiteInit /\ [][SuiteNext]_suiteVars

(* Stated in Commitments.                                                    *)
CommitmentsFollowStatements == Fixed!CommitmentsFollowStatements
-----------------------------------------------------------------------------
(* One loan number paid on two days of the month, three statements that      *)
(* overlap by a month, and the schedule file of each of its two tracks.      *)
TwoDays(m) == <<Debit("loan", loan1, None, m, 10, 800), Debit("loan", loan1, None, m, 16, 300)>>
Tracked == INSTANCE Commitments WITH
    Statements <- [f \in 1..3 |-> TwoDays(f) \o TwoDays(f + 1)],
    Tracks <- {[Track(1, 800) EXCEPT !.day = 10], [Track(2, 300) EXCEPT !.day = 16]}, Typed <- {},
    NoRef <- None, Never <- None, MonthDays <- 30, DayTolerance <- 4, LoanDayTolerance <- 2, FeeWindow <- 3,
    SamePaymentDays <- 3, MaxEdits <- 0, stored <- bankRows

TrackSpec ==
    /\ focus = "fixed" /\ Tracked!Init /\ QuietReview /\ QuietStore /\ QuietOwed
    /\ [][Tracked!Next /\ UNCHANGED <<focus, reviewVars, vars, owedVars>>]_suiteVars

(* Stated in Commitments.                                                    *)
NoTrackDropped == Tracked!NoTrackDropped
=============================================================================
