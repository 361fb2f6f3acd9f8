------------------------------ MODULE MCFigures ------------------------------
(* Instances of the components that add up the household's figures; each     *)
(* behaviour exercises the one in focus, the others stay as they began.  The *)
(* panel explains one figure of two rows, a page each.                       *)
EXTENDS Explanation, CheckIn, DailyPlan, AccountBalance, TLC

CONSTANTS food, fun, salary, visa, shop, home, other, rent, loan, bill,
          whole, list, late

VARIABLE focus

Entry(k, date, amount, c, r) == [kind |-> k, date |-> date, amount |-> amount, category |-> c, recurring |-> r]
Line(date, charge, amount, use) == [date |-> date, charge |-> charge, amount |-> amount, use |-> use, key |-> shop]
Figures == INSTANCE Books WITH
    Entries <- {Entry("expense", 2, 5, food, TRUE), Entry("expense", 3, 2, None, FALSE), Entry("income", 2, 9, salary, FALSE)},
    Files <- <<<<Line(1, 3, 4, "regular"), Line(2, 3, -1, "refund"), Line(2, None, 7, "financing")>>,
               <<Line(2, 3, -1, "refund"), Line(3, 4, 6, "standing_order")>>>>,
    Categories <- {food, fun}, Default <- {food}, Cards <- {visa}, Days <- 2, Months <- 2, Today <- 3,
    PageSize <- 2, MaxRows <- 3, MaxChanges <- 5

PanelEntries == {Entry("expense", 2, 5, None, TRUE), Entry("income", 2, 9, salary, FALSE)}
NoFiles == <<>>

(* A month of three days: a loan that may be due after it, a card's bill; and *)
(* three moves of the bank's, two of one day, in files that overlap.         *)
Payment(amount, dates, card) == [amount |-> amount, dates |-> dates, card |-> card]
Bills == rent :> Payment(3, 1..2, FALSE) @@ loan :> Payment(2, 2..4, FALSE) @@ bill :> Payment(1, 3..4, TRUE)
Funds == home :> {4, 9} @@ other :> {0, 2}
ThreeMoves == <<[day |-> 1, amount |-> 5], [day |-> 2, amount |-> -2], [day |-> 2, amount |-> 7]>>
Listing(from, to, prints) == [from |-> from, to |-> to, prints |-> prints]
ThreeFiles == whole :> Listing(1, 2, TRUE) @@ list :> Listing(2, 3, FALSE) @@ late :> Listing(3, 3, TRUE)
ASSUME InstancesAssumption == Figures!BooksAssumption

suiteVars == <<focus, all, weekVars, dayVars, balanceVars>>

(* One initial state of each for when another is in focus.                   *)
QuietPanel == ExplanationInit /\ rows = <<>>
QuietWeek == CheckInInit /\ entered = <<>>
QuietDay ==
    /\ DayInit /\ \A p \in DOMAIN payer : payer[p] = Unset
    /\ dueOn = rent :> 1 @@ loan :> 2 @@ bill :> 3 /\ cash = home :> 4 @@ other :> 0 /\ essential = 0
QuietBalance == BalanceInit /\ initial = 0

SuiteInit ==
    \/ focus = "books" /\ Figures!Init /\ open = FALSE /\ page = 1 /\ snapshot = None /\ waiting = 0 /\ data = None
         /\ error = FALSE /\ reload = FALSE /\ calls = <<>> /\ shared = <<>> /\ writing = {} /\ opens = 0
         /\ writes = 0 /\ told = 0 /\ walk = {} /\ QuietWeek /\ QuietDay /\ QuietBalance
    \/ focus = "panel" /\ ExplanationInit /\ QuietWeek /\ QuietDay /\ QuietBalance
    \/ focus = "week" /\ CheckInInit /\ QuietPanel /\ QuietDay /\ QuietBalance
    \/ focus = "day" /\ DayInit /\ QuietPanel /\ QuietWeek /\ QuietBalance
    \/ focus = "balance" /\ BalanceInit /\ QuietPanel /\ QuietWeek /\ QuietDay
SuiteNext ==
    /\ UNCHANGED focus
    /\ \/ focus = "books" /\ Figures!Write /\ UNCHANGED <<panel, net, weekVars, dayVars, balanceVars>>
       \/ focus = "panel" /\ ExplanationNext /\ UNCHANGED <<weekVars, dayVars, balanceVars>>
       \/ focus = "week" /\ CheckInNext /\ UNCHANGED <<all, dayVars, balanceVars>>
       \/ focus = "balance" /\ BalanceNext /\ UNCHANGED <<all, weekVars, dayVars>>
       \/ focus = "day" /\ DayNext /\ UNCHANGED <<all, weekVars, balanceVars>>
SuiteSpec == SuiteInit /\ [][SuiteNext]_suiteVars

(* The books' property, stated in their module.                              *)
BooksAgree == focus = "books" => Figures!FiguresAgree
=============================================================================
