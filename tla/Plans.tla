-------------------------------- MODULE Plans --------------------------------
(* What the household plans: the payments it repeats and the expenses made   *)
(* of them, the subscriptions it keeps and those its card rows suggest, the  *)
(* goals it saves for or pays a loan off for, what it types in a hurry, and  *)
(* the names it keeps beside those every household is given.                 *)
(* Every operation runs under its owner's lock and is one step.              *)
EXTENDS Integers, Sequences, FiniteSets, FiniteSetsExt, Functions

CONSTANTS Payments,   \* payments that may be typed: [name, amount, every, month, day, detected]
          MonthDays,  \* days of each month of a year (a year is as long as this sequence)
          Months,     \* months that may be generated
          Raises,     \* what an amount may be changed by
          Charges,    \* confirmed card rows: [name, month, day, amount, standing]
          Typed,      \* subscriptions that may be typed: [name, amount]
          Alike,      \* pairs of names one of which is part of the other
          Goals,      \* goals that may be set: [type, target, current]
          Deposits, LoanBalances,
          Sentences,  \* texts that may be typed: sequences of words, those that matter with
                      \* the places they lie between: a currency word's `to' ends the
                      \* shortest of its spellings
          MaxTyped,   \* the largest amount that may be typed
          OwnRules, DefaultRules, \* sequences of [keyword, category]
          NotRead, MaxPlans, MaxEdits

VARIABLES payments, expenses, nextId, subscriptions, goals, loan, edits, last
planVars == <<payments, expenses, nextId, subscriptions, goals, loan, edits, last>>

MonthOfYear(m) == ((m - 1) % Len(MonthDays)) + 1
Clamped(day, m) == Min({day, MonthDays[MonthOfYear(m)]})
SumOf(S, f(_)) == FoldSet(LAMBDA x, s : s + f(x), 0, S)
Round(a, b) == (2 * a + b) \div (2 * b)

(* A year has months and a month days; a goal's target is positive, but for   *)
(* a loan's, which is read off its balance; and money is whole cents.        *)
ASSUME PlansAssumption ==
    /\ MonthDays \in Seq(Nat) /\ MonthDays # <<>> /\ Months \subseteq Int
    /\ Payments \subseteq [name : {p.name : p \in Payments}, amount : Int, every : {"monthly", "yearly"},
                           month : Int, day : Int, detected : BOOLEAN]
    /\ Raises \subseteq Int
    /\ IsFiniteSet(Charges)
    /\ \A c \in Charges : c.month \in Int /\ c.day \in Int /\ c.amount \in Int
    /\ \A c \in Typed : c.amount \in Int
    /\ \A g \in Goals : g.type # "debt_payoff" => g.target \in Nat \ {0} /\ g.current \in Nat
    /\ LoanBalances \subseteq Nat /\ Deposits \subseteq Int
    /\ Sentences \subseteq Seq(UNION {Range(s) : s \in Sentences})
    /\ \A s \in Sentences : \A i \in DOMAIN s :
          /\ s[i].is \in {"number", "currency"} => s[i].from \in Nat /\ s[i].to \in Nat /\ s[i].from <= s[i].to
          /\ s[i].is = "currency" => s[i].to - s[i].from <= 3
    /\ {OwnRules, DefaultRules} \subseteq Seq(Range(OwnRules) \cup Range(DefaultRules))

Quiet == [did |-> "other"]
PlansInit ==
    /\ payments = {} /\ expenses = {} /\ nextId = 1 /\ subscriptions = {} /\ goals = {} /\ edits = 0 /\ last = Quiet
    /\ loan \in {[balance |-> b, status |-> "active", kept |-> TRUE] : b \in LoanBalances}
Revised == edits < MaxEdits /\ edits' = edits + 1
Count == nextId <= MaxPlans /\ nextId' = nextId + 1

(* Payments that repeat.                                                     *)
Create(p) ==
    /\ Revised /\ Count
    /\ payments' = payments \cup {[id |-> nextId, of |-> p]} /\ last' = Quiet
    /\ UNCHANGED <<expenses, subscriptions, goals, loan>>
Update(p, by) ==
    /\ Revised
    /\ payments' = (payments \ {p}) \cup {[p EXCEPT !.of.amount = @ + by]} /\ last' = Quiet
    /\ UNCHANGED <<expenses, nextId, subscriptions, goals, loan>>
Remove(p) ==
    /\ Revised
    /\ payments' = payments \ {p} /\ last' = Quiet
    /\ UNCHANGED <<expenses, nextId, subscriptions, goals, loan>>

(* The expenses of a month: one for each payment due in it, but for those a  *)
(* statement brings, and for those the month has under their name and amount.*)
(* Each keeps which payment and which run it is of.                          *)
Due(m) == {p \in payments : ~p.of.detected /\ (p.of.every = "monthly" \/ p.of.month = MonthOfYear(m))}
Key(x) == <<x.name, x.amount>>
KeysOfAll(m) == {Key(e) : e \in {e \in expenses : e.recurring /\ e.month < m}}   \* mutant: another month's are looked at
ExistingKeys(m) == {Key(e) : e \in {e \in expenses : e.recurring /\ e.month = m}}
Missing(m) == {p \in Due(m) : Key(p.of) \notin ExistingKeys(m)}
Generate(m) ==
    /\ Revised
    /\ expenses' = expenses \cup {[of |-> p.id, run |-> edits, edited |-> FALSE,
                                   name |-> p.of.name, amount |-> p.of.amount, month |-> m,
                                   day |-> Clamped(p.of.day, m), recurring |-> TRUE] : p \in Missing(m)}
    /\ last' = [did |-> "generated", month |-> m]
    /\ UNCHANGED <<payments, nextId, subscriptions, goals, loan>>
(* A member corrects or removes an expense of a payment.                     *)
EditExpense(e) ==
    /\ Revised
    /\ expenses' \in {expenses \ {e}, (expenses \ {e}) \cup {[e EXCEPT !.edited = TRUE, !.amount = @ + 1]}} /\ last' = Quiet
    /\ UNCHANGED <<payments, nextId, subscriptions, goals, loan>>

(* Subscriptions: what they cost a month and a year ...                      *)
Active == {s \in subscriptions : s.status = "active"}
Monthly == {s \in Active : s.every = "monthly"}
Yearly == Active \ Monthly
MonthlyTotal == Round(12 * SumOf(Monthly, LAMBDA s : s.amount) + SumOf(Yearly, LAMBDA s : s.amount), 12)
YearlyAsMonthly == 12 * SumOf(Active, LAMBDA s : s.amount)   \* mutant: a yearly one is taken for a monthly one
AnnualTotal == 12 * SumOf(Monthly, LAMBDA s : s.amount) + SumOf(Yearly, LAMBDA s : s.amount)

(* ... and those the card rows suggest: a standing order of two months, or   *)
(* three months of much the same amount, of no name that is kept already.    *)
Of(name) == {c \in Charges : c.name = name}
Amounts(cs) == {c.amount : c \in cs}
MonthsOf(cs) == {c.month : c \in cs}
Average(cs) == Round(SumOf(cs, LAMBDA c : c.amount), Cardinality(cs))
StandingOrder(cs) == 2 * Cardinality({c \in cs : c.standing}) >= Cardinality(cs) /\ Cardinality(MonthsOf(cs)) >= 2
Steady(cs) ==
    /\ Cardinality(MonthsOf(cs)) >= 3 /\ 5 * Cardinality(cs) <= 7 * Cardinality(MonthsOf(cs))
    /\ 4 * Max(Amounts(cs)) <= 5 * Min(Amounts(cs))
LastCharge(cs) == CHOOSE c \in cs : \A d \in cs : <<d.month, d.day>> = <<c.month, c.day>> \/ d.month < c.month \/ (d.month = c.month /\ d.day <= c.day)
NextMonthly(c) == [month |-> c.month + 1, day |-> Clamped(c.day, c.month + 1)]
KeptActive(name) == \E s \in Active : s.name = name   \* mutant: only an active one of that very name
Kept(name) == \E s \in subscriptions : s.name = name \/ <<name, s.name>> \in Alike \/ <<s.name, name>> \in Alike
Recurring == {n \in {c.name : c \in Charges} : StandingOrder(Of(n)) \/ Steady(Of(n))}
Suggestions ==
    [n \in Recurring |->
        [name |-> n, amount |-> Average(Of(n)), next |-> NextMonthly(LastCharge(Of(n))),
         confidence |-> IF StandingOrder(Of(n)) THEN "high" ELSE "medium"]]
Candidates == {Suggestions[n] : n \in {n \in Recurring : ~Kept(n)}}
Subscribe(c, every) ==
    /\ Revised /\ Count
    /\ subscriptions' = subscriptions \cup {[id |-> nextId, name |-> c.name, amount |-> c.amount, every |-> every, status |-> "active"]}
    /\ last' = Quiet
    /\ UNCHANGED <<payments, expenses, goals, loan>>
Suspend(s) ==
    /\ Revised
    /\ subscriptions' = (subscriptions \ {s}) \cup {[s EXCEPT !.status = IF @ = "active" THEN "inactive" ELSE "active"]}
    /\ last' = Quiet
    /\ UNCHANGED <<payments, expenses, nextId, goals, loan>>
Unsubscribe(s) ==
    /\ Revised
    /\ subscriptions' = subscriptions \ {s} /\ last' = Quiet
    /\ UNCHANGED <<payments, expenses, nextId, goals, loan>>

(* Goals.  That of a loan is read off its balance: what it was when the goal *)
(* was set is the target.                                                    *)
Percent(current, target) == IF target > 0 THEN Min({100, Round(100 * current, target)}) ELSE 0
Floor0(n) == Max({0, n})
OwedWhileActive == loan.balance   \* mutant: a finished loan is still owed
Owed == IF loan.status = "finished" THEN 0 ELSE loan.balance
GoalProgress(g) ==
    LET saved == Floor0(g.target - Owed)
    IN CASE g.type # "debt_payoff" -> [current |-> g.current, remaining |-> Floor0(g.target - g.current),
                                       percent |-> Percent(g.current, g.target), complete |-> g.current >= g.target]
         [] g.type = "debt_payoff" /\ ~loan.kept -> [current |-> 0, remaining |-> g.target, percent |-> 0, complete |-> FALSE]
         [] OTHER -> [current |-> saved, remaining |-> Owed, percent |-> Percent(saved, g.target), complete |-> Owed <= 0]
SetAside == {g \in goals : g.type # "debt_payoff"}
SavedTotal == SumOf(SetAside, LAMBDA g : GoalProgress(g).current)
Goal(g) == [id |-> nextId, type |-> g.type, target |-> IF g.type = "debt_payoff" THEN loan.balance ELSE g.target,
            current |-> IF g.type = "debt_payoff" THEN 0 ELSE g.current]
CreateGoal(g) ==
    /\ Revised /\ Count
    /\ g.type = "debt_payoff" => loan.kept /\ loan.status # "finished" /\ loan.balance > 0
    /\ goals' = goals \cup {Goal(g)} /\ last' = Quiet
    /\ UNCHANGED <<payments, expenses, subscriptions, loan>>
EditGoal(g, with) ==
    /\ Revised /\ g.type # "debt_payoff" /\ with.type # "debt_payoff"
    /\ goals' = (goals \ {g}) \cup {[g EXCEPT !.target = with.target, !.current = with.current]} /\ last' = Quiet
    /\ UNCHANGED <<payments, expenses, nextId, subscriptions, loan>>
Deposit(g, amount) ==
    /\ Revised /\ g.type # "debt_payoff"
    /\ goals' = (goals \ {g}) \cup {[g EXCEPT !.current = Floor0(@ + amount)]} /\ last' = Quiet
    /\ UNCHANGED <<payments, expenses, nextId, subscriptions, loan>>
RemoveGoal(g) ==
    /\ Revised
    /\ goals' = goals \ {g} /\ last' = Quiet
    /\ UNCHANGED <<payments, expenses, nextId, subscriptions, loan>>
(* The loan is edited by hand, also into a finished one or back, closed, or  *)
(* removed unless it is finished: its goals stay and no longer know it.      *)
EditLoan == \E b \in LoanBalances, s \in {"active", "finished"} : loan' = [loan EXCEPT !.balance = b, !.status = s]
CloseLoan == loan.status # "finished" /\ loan' = [loan EXCEPT !.status = "finished", !.balance = 0]
RemoveLoan == loan.status # "finished" /\ loan' = [loan EXCEPT !.kept = FALSE]
LoanMoves ==
    /\ Revised /\ loan.kept
    /\ EditLoan \/ CloseLoan \/ RemoveLoan
    /\ last' = Quiet
    /\ UNCHANGED <<payments, expenses, nextId, subscriptions, goals>>

(* What is typed in a hurry: the first number with a currency word from five *)
(* characters before it to seven behind it, or the largest number; the day a *)
(* word names, yesterday before the day before; the words left make the name.*)
Word(s, kind) == {i \in DOMAIN s : s[i].is = kind}
NearCurrency(s) ==
    {i \in Word(s, "number") : \E j \in Word(s, "currency") : s[j].from >= s[i].from - 5 /\ s[j].to <= s[i].to + 7}
Largest(s) ==   \* mutant: a currency word makes no difference
    IF Word(s, "number") = {} THEN NotRead ELSE Max({s[i].value : i \in Word(s, "number")})
AmountOf(s) ==
    CASE Word(s, "number") = {} -> NotRead
      [] NearCurrency(s) # {} -> s[Min(NearCurrency(s))].value
      [] OTHER -> Max({s[i].value : i \in Word(s, "number")})
DaysBack(s) ==
    LET named == {s[i].back : i \in Word(s, "day")} \ {0}
    IN IF named = {} THEN 0 ELSE Min(named)
NameOf(s) == SelectSeq(s, LAMBDA w : w.is = "name")
Ruled(rules, name) == {i \in DOMAIN rules : \E w \in DOMAIN name : name[w].word = rules[i].keyword}
CategoryByRules(rules, name) == IF Ruled(rules, name) = {} THEN NotRead ELSE rules[Min(Ruled(rules, name))].category
DefaultFirst(name) == CategoryByRules(DefaultRules \o OwnRules, name)   \* mutant: the household's rules come last
Categorize(name) == CategoryByRules(OwnRules \o DefaultRules, name)
QuickAdd(s) ==
    /\ Revised /\ AmountOf(s) # NotRead /\ AmountOf(s) > 0 /\ AmountOf(s) <= MaxTyped
    /\ last' = [did |-> "typed", text |-> s, amount |-> AmountOf(s), back |-> DaysBack(s), category |-> Categorize(NameOf(s))]
    /\ UNCHANGED <<payments, expenses, nextId, subscriptions, goals, loan>>

RepeatNext ==
    \/ \E p \in Payments : Create(p)
    \/ \E p \in payments : Remove(p) \/ \E by \in Raises : Update(p, by)
    \/ \E m \in Months : Generate(m)
    \/ \E e \in expenses : EditExpense(e)
KeepNext ==
    \/ \E c \in Candidates \cup Typed, every \in {"monthly", "yearly"} : Subscribe(c, every)
    \/ \E s \in subscriptions : Suspend(s) \/ Unsubscribe(s)
    \/ \E s \in Sentences : QuickAdd(s)
SaveNext ==
    \/ \E g \in Goals : CreateGoal(g)
    \/ \E g \in goals : RemoveGoal(g) \/ (\E d \in Deposits : Deposit(g, d)) \/ \E with \in Goals : EditGoal(g, with)
    \/ LoanMoves
PlansNext == RepeatNext \/ KeepNext \/ SaveNext
PlansSpec == PlansInit /\ [][PlansNext]_planVars
-----------------------------------------------------------------------------
(* recurring.service.ts: "so re-running is safe".  However often a month is  *)
(* generated, in whatever order, beside edits of the payments and of their   *)
(* expenses: no two runs make an expense of one payment in one month at one  *)
(* amount, unless a member has changed or removed the first of them; each    *)
(* due one has its expense after the run, and the run would add no more.     *)
Made == {e \in expenses : ~e.edited}
GeneratedOnce ==
    /\ \A e, f \in Made : e.of = f.of /\ e.month = f.month /\ Key(e) = Key(f) => e = f
    /\ last.did = "generated" =>
          /\ Missing(last.month) = {}
          /\ \A p \in Due(last.month) : \E e \in expenses : e.month = last.month /\ Key(e) = Key(p.of)
    /\ \A e \in expenses : e.day <= MonthDays[MonthOfYear(e.month)]

(* What is suggested falls due in the month after its last charge, on a day   *)
(* that month has (subscriptions.service.ts nextMonthlyDate).                 *)
NextIsAMonthOn ==
    \A n \in Recurring :
        LET next == Suggestions[n].next
        IN next.month = Max(MonthsOf(Of(n))) + 1 /\ next.day <= MonthDays[MonthOfYear(next.month)]

(* The cost of a year is that of twelve months, up to rounding; what is      *)
(* suggested is not kept under a name that overlaps it, even inactive.       *)
SubscriptionsAgree ==
    /\ 12 * MonthlyTotal - AnnualTotal \in -6..6
    /\ \A s \in subscriptions : \A c \in Candidates : s.name # c.name /\ <<s.name, c.name>> \notin Alike /\ <<c.name, s.name>> \notin Alike
    /\ NextIsAMonthOn

(* What is done of a goal and what is left make its target, unless more was  *)
(* saved or is owed than that; a goal is complete exactly when nothing is    *)
(* left of it, then at 100%, and a loan paid down is never money set aside.  *)
GoalsAddUp ==
    /\ \A g \in goals :
          LET p == GoalProgress(g)
          IN /\ p.current + p.remaining >= g.target
             /\ p.current <= g.target => (p.remaining <= g.target => p.current + p.remaining = g.target)
             /\ p.complete <=> p.remaining = 0
             /\ p.percent \in 0..100 /\ (p.complete => p.percent = 100)
             /\ g.type = "debt_payoff" /\ loan.kept /\ loan.status = "finished" => p.complete
    /\ SavedTotal = SumOf({g \in goals : g.type # "debt_payoff"}, LAMBDA g : g.current)

(* What a text says it cost: the amount recorded is a number of the text, no *)
(* later than the first price in it, a number a currency word follows; where *)
(* no other number has a currency word near, it is that price.  And a rule   *)
(* of the household's own decides before those every household is given.     *)
Price(s) ==
    {i \in Word(s, "number") : \E j \in Word(s, "currency") : s[j].from - s[i].to \in 0..1}
Far(s, k) ==
    \A j \in Word(s, "currency") : s[j].from - s[k].to > 7 \/ s[k].from - s[j].from > 5
QuickAddReads ==
    last.did = "typed" =>
        /\ \A i \in Price(last.text) :
              /\ \E k \in Word(last.text, "number") : k <= i /\ last.amount = last.text[k].value
              /\ (\A k \in Word(last.text, "number") \ {i} : Far(last.text, k)) => last.amount = last.text[i].value
        /\ Ruled(OwnRules, NameOf(last.text)) # {} =>
              last.category \in {OwnRules[i].category : i \in Ruled(OwnRules, NameOf(last.text))}

PlansHold == GeneratedOnce /\ SubscriptionsAgree /\ GoalsAddUp /\ QuickAddReads
=============================================================================
