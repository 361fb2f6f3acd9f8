---------------------------- MODULE MCSyncOffers ----------------------------
(* What reaches the household's books from outside, and who reaches them: a  *)
(* card and a debit card of one login, with an old row that stays pending    *)
(* long enough for the overlap to pass it by; the door; what is planned; and  *)
(* the pages of the site, each with a row, two presses or faults and another *)
(* tab.                                                                      *)
(* Each behaviour exercises the component in focus.                          *)
EXTENDS SyncOffers, Access, Throttle, Plans, Site, TLC

CONSTANTS visa, master, deposit, purchase, grocery,
          a1, a2, t1, t2, t3, b1, b2,
          rent, gas, gym, phone, food, fun

VARIABLE focus

TwoCards == (deposit :> visa) @@ (purchase :> visa) @@ (grocery :> master)
Days == (deposit :> 1) @@ (grocery :> 2) @@ (purchase :> 3)
OneDay == [t \in Targets |-> 1]

(* Two tabs of one browser and one of another; nobody logged in yet, or two  *)
(* administrators who are.                                                   *)
BrowserOf == (t1 :> b1) @@ (t2 :> b2) @@ (t3 :> b1)
Away == [at |-> "away"]
Account(legacy) == [role |-> "ADMIN", status |-> "active", hash |-> [version |-> 1, legacy |-> legacy]]
Held(n, a) == [token |-> n, account |-> a, expires |-> 8, seen |-> 4]
LoggedOut ==
    /\ user = (a1 :> Account(TRUE)) @@ (a2 :> Account(FALSE))
    /\ logins = {} /\ cookie = [b \in {b1, b2} |-> None]
    /\ request = [t \in {t1, t2, t3} |-> IF t = t3 THEN Away ELSE Free]
    /\ log = <<>> /\ now = 1 /\ minted = 0 /\ changes = 3 /\ used = [n \in 1..3 |-> 0]
LoggedIn ==
    /\ user = [a \in {a1, a2} |-> Account(FALSE)]
    /\ logins = {Held(1, a1), Held(2, a2)} /\ cookie = (b1 :> 1) @@ (b2 :> 2)
    /\ request = [t \in {t1, t2, t3} |-> IF t = t3 THEN Away ELSE Free]
    /\ log = <<a1, a1>> /\ now = 4 /\ minted = 3 /\ changes = 1 /\ used = [n \in 1..3 |-> 4]

(* Payments that repeat, one of them on a day no short month has; charges of *)
(* a standing order, of a steady and of an unsteady name; goals, one a loan. *)
Payment(n, a, every, m, d, found) == [name |-> n, amount |-> a, every |-> every, month |-> m, day |-> d, detected |-> found]
Charge(n, m, d, a, standing) == [name |-> n, month |-> m, day |-> d, amount |-> a, standing |-> standing]
AllPayments ==
    {Payment(rent, 5, "monthly", 1, 3, FALSE), Payment(gas, 5, "yearly", 2, 3, FALSE), Payment(gym, 4, "monthly", 1, 1, TRUE)}
AllCharges ==
    {Charge(gym, 1, 3, 50, TRUE), Charge(gym, 2, 2, 60, FALSE),
     Charge(phone, 1, 1, 40, FALSE), Charge(phone, 2, 1, 42, FALSE), Charge(phone, 3, 2, 50, FALSE)}
    \cup {Charge(food, m[1], m[2], 10, FALSE) : m \in ((1..3) \X (1..2)) \ {<<2, 2>>}}
AllGoals == {[type |-> "savings", target |-> 7, current |-> 2], [type |-> "debt_payoff", target |-> 0, current |-> 0]}
(* Texts: "food 5$, phone 25 yesterday", "3 fun food $2", "gym 9 7", "gym  *)
(* two days ago", "2 fun 9$ today, no, two days ago", whose 9 is a price and  *)
(* whose 2 is near enough to be taken for one, and "gym 40$", which is too    *)
(* much.                                                                      *)
Num(v, from) == [is |-> "number", value |-> v, from |-> from, to |-> from + (IF v < 10 THEN 1 ELSE 2)]
Nam(w) == [is |-> "name", word |-> w]
DaysAgo(b) == [is |-> "day", back |-> b]
Currency(from) == [is |-> "currency", from |-> from, to |-> from + 1]
Texts ==
    {<<Nam(food), Num(5, 5), Currency(6), Nam(phone), Num(25, 15), DaysAgo(1)>>,
     <<Num(3, 0), Nam(fun), Nam(food), Currency(11), Num(2, 12)>>,
     <<Nam(gym), Num(9, 4), Num(7, 6)>>,
     <<Nam(gym), DaysAgo(2)>>,
     <<Num(2, 0), Nam(fun), Num(9, 6), Currency(7), DaysAgo(0), DaysAgo(2)>>,
     <<Nam(gym), Num(40, 4), Currency(6)>>}
Rule(w, c) == [keyword |-> w, category |-> c]
OneOwn == <<Rule(food, fun)>>
TwoDefaults == <<Rule(fun, gym), Rule(food, food)>>
ShortYear == <<3, 2>>
UpOrDown == {1, -1}
InOrOut == {3, -4, 20}
OneAlike == {<<gym, fun>>}
OneTyped == {[name |-> fun, amount |-> 20]}

suiteVars == <<focus, vars, accessVars, limitVars, planVars, siteVars>>

SuiteInit ==
    /\ focus \in {"offers", "door", "limit", "repeat", "keep", "save", "web"}
    /\ Init
    /\ overlap = {} /\ walk = None
    /\ LoggedOut \/ (focus = "door" /\ LoggedIn)
    /\ LimitInit /\ PlansInit /\ (focus # "save" => loan.balance = 10)
    /\ SiteInit /\ (focus # "web" => (place[1] = "Funding" /\ server.account = "spend"))
Planned ==
    \/ focus = "repeat" /\ RepeatNext /\ nextId' <= MaxPlans
    \/ focus = "keep" /\ KeepNext
    \/ focus = "save" /\ SaveNext /\ nextId' <= MaxPlans
Inside ==
    \/ focus = "offers" /\ Next /\ UNCHANGED <<accessVars, limitVars, planVars>>
    \/ focus = "door" /\ AccessNext /\ UNCHANGED <<vars, limitVars, planVars>>
    \/ focus = "limit" /\ LimitNext /\ UNCHANGED <<vars, accessVars, planVars>>
    \/ UNCHANGED <<vars, accessVars, limitVars>> /\ Planned
SuiteNext ==
    /\ UNCHANGED focus
    /\ \/ focus = "web" /\ SiteNext /\ UNCHANGED <<vars, accessVars, limitVars, planVars>>
       \/ focus # "web" /\ UNCHANGED siteVars /\ Inside
SuiteSpec == SuiteInit /\ [][SuiteNext]_suiteVars
=============================================================================
