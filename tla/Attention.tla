----------------------------- MODULE Attention -----------------------------
(* What asks for the household's attention: the scan that raises alerts each *)
(* time they are read, the alerts a member reads or removes, and the list    *)
(* that merges alerts, reminders, bills and the dashboard's own counters.    *)
(* Reading the alerts takes no lock, the dashboard reads under the owner's.  *)
EXTENDS Integers, Sequences, FiniteSets, SequencesExt

CONSTANTS Situations, \* what the books may say: see the fields used by Detected
          Readers,    \* requests that list the alerts ...
          Locked,     \* ... and those of them in the owner's transaction
          MaxAlerts,  \* bound: alerts raised
          MaxMonths,  \* bound: months
          MaxNews     \* bound: changes of the books and months that pass

VARIABLES situation, month, alerts, nextId, scan, alone, raced, changes
alertVars == <<situation, month, alerts, nextId, scan, alone, raced, changes>>

(* A finding, under its title, and what it is about: a budget, loan, charge. *)
Finding(type, tone, title, key, of) == [type |-> type, tone |-> tone, title |-> title, key |-> key, of |-> of]
NoKey == "none"
NoId == 0

(* A percentage of a budget, in hundredths, rounded half up.                 *)
Percent(used, total) == IF total <= 0 THEN 0 ELSE (20000 * used + total) \div (2 * total)
OverBudget(s) == {b \in s.budgets : Percent(b.used, b.amount) > 10000}
NearBudget(s) == {b \in s.budgets : Percent(b.used, b.amount) \in 9000..10000}
BudgetFindings(s) ==
    {Finding("budget", "critical", <<"over", b.name>>, NoKey, b.id) : b \in OverBudget(s)}
        \cup {Finding("budget", "warning", <<"near", b.name>>, NoKey, b.id) : b \in NearBudget(s)}

Expensive == 8
LoanFindings(s) ==
    {Finding("loan", "warning", <<"rate", l.name>>, NoKey, l.id) : l \in {l \in s.loans : l.rate >= Expensive}}
        \cup {Finding("loan", "critical", <<"endless", l.name>>, NoKey, l.id) : l \in {l \in s.loans : ~l.ends /\ ~l.statement}}

(* Two payments or more on a day that make 30% of a month's, of 45 days.     *)
HeavyDay(s) == s.total > 0 /\ s.day.count >= 2 /\ 450 * s.day.total >= 90 * s.total
DayFindings(s) == {Finding("upcoming", "warning", <<"day">>, NoKey, NoId) : d \in {d \in {s.day} : HeavyDay(s)}}
Overspent(s) == s.income > 0 /\ s.expense > s.income
BalanceFindings(s) == {Finding("balance", "critical", <<"balance">>, NoKey, NoId) : x \in {x \in {s.expense} : Overspent(s)}}
UncategorizedFindings(s) == {Finding("category", "info", <<"category">>, NoKey, NoId) : n \in {n \in {s.uncategorized} : n >= 5}}

(* A charge above three times the average of ten rows or more, and above 300.*)
HighCharge(s, c) == s.history >= 10 /\ s.average > 0 /\ c.amount > 3 * s.average /\ c.amount > 300
ChargeFindings(s) == {Finding("charge", "info", <<"charge", c.name>>, NoKey, c.id) : c \in {c \in s.charges : HighCharge(s, c)}}
DuplicateFindings(s) == {Finding("duplicate", "info", <<"same", g>>, g, NoId) : g \in s.groups}

(* What a scan finds; and the name an alert is known by, which two loans of  *)
(* one name share, and two high charges of one business.                     *)
Detected(s) ==
    UNION {BudgetFindings(s), LoanFindings(s), DayFindings(s), BalanceFindings(s), UncategorizedFindings(s),
           ChargeFindings(s), DuplicateFindings(s)}
DedupeKey(f) == IF f.key # NoKey THEN f.key ELSE <<f.type, f.title>>

Nobody == "nobody"
ASSUME AttentionAssumption ==
    /\ Locked \subseteq Readers /\ Nobody \notin Readers /\ {MaxAlerts, MaxMonths, MaxNews} \subseteq Nat
    /\ \A s \in Situations : IsFiniteSet(Detected(s)) /\ IsFiniteSet(s.budgets)

Visible == {a \in alerts : ~a.withdrawn}
Showing == {a \in Visible : a.month = month}
Shows(as) == {DedupeKey(a) : a \in as}

Idle == [at |-> "idle"]
Reading(p) == scan[p].at # "idle"
(* A step of somebody other than p: whoever else reads is not alone.         *)
Disturb(p) == alone' = [q \in Readers |-> q = p /\ alone[q]]
AttentionInit ==
    /\ situation \in Situations /\ month = 1 /\ alerts = {} /\ nextId = 1 /\ changes = 0 /\ raced = FALSE
    /\ scan = [p \in Readers |-> Idle] /\ alone = [p \in Readers |-> FALSE]

(* The scan reads the books (a transaction goes on seeing what it sees here) *)
Look(p) ==
    /\ ~Reading(p)
    /\ p \in Locked => \A q \in Locked : ~Reading(q)
    /\ scan' = [scan EXCEPT ![p] = [at |-> "looked", found |-> Detected(situation), limited |-> situation.limited,
                                    live |-> situation.groups, snapshot |-> IF p \in Locked THEN Showing ELSE {}]]
    /\ alone' = [q \in Readers |-> q = p /\ \A r \in Readers \ {p} : ~Reading(r)]
    /\ raced' = (raced \/ \E r \in Readers \ {p} : Reading(r))
    /\ UNCHANGED <<situation, month, alerts, nextId, changes>>

(* ... withdraws the duplicates it no longer sees, unless it was cut short   *)
(* (what a transaction writes is seen by others at its commit) ...           *)
Gone(p, a) == ~scan[p].limited /\ a.type = "duplicate" /\ a.key \notin scan[p].live
NoneGone(p) == alerts   \* mutant: what is no longer there stays
Withdrawn(p) == {IF Gone(p, a) THEN [a EXCEPT !.withdrawn = TRUE] ELSE a : a \in alerts}
Withdraw(p) ==
    /\ scan[p].at = "looked"
    /\ alerts' = IF p \in Locked THEN alerts ELSE Withdrawn(p)
    /\ scan' = [scan EXCEPT ![p].at = "withdrew"]
    /\ Disturb(p)
    /\ UNCHANGED <<situation, month, nextId, raced, changes>>

(* ... keeps of what it found what no alert of the month shows already ...   *)
KnownUnread(p) == Shows({a \in Showing : ~a.read})   \* mutant: what was read is forgotten
Known(p) == Shows(IF p \in Locked THEN {a \in scan[p].snapshot : ~Gone(p, a)} ELSE Showing)
Missing(p) == {f \in scan[p].found : DedupeKey(f) \notin Known(p)}
Compare(p) ==
    /\ scan[p].at = "withdrew"
    /\ scan' = [scan EXCEPT ![p].at = "raising", ![p].found = Missing(p)]
    /\ Disturb(p)
    /\ UNCHANGED <<situation, month, alerts, nextId, raced, changes>>

(* ... and raises an alert for each, a statement at a time.                  *)
Alert(f, id) == [id |-> id, type |-> f.type, tone |-> f.tone, title |-> f.title, key |-> f.key, of |-> f.of,
                 read |-> FALSE, withdrawn |-> FALSE, month |-> month]
Raise(p) ==
    /\ scan[p].at = "raising" /\ p \notin Locked /\ scan[p].found # {} /\ nextId <= MaxAlerts
    /\ LET f == CHOOSE f \in scan[p].found : TRUE
       IN alerts' = alerts \cup {Alert(f, nextId)} /\ scan' = [scan EXCEPT ![p].found = @ \ {f}]
    /\ nextId' = nextId + 1
    /\ Disturb(p)
    /\ UNCHANGED <<situation, month, raced, changes>>
Answer(p) ==
    /\ scan[p].at = "raising" /\ p \notin Locked /\ scan[p].found = {}
    /\ scan' = [scan EXCEPT ![p] = Idle]
    /\ Disturb(p)
    /\ UNCHANGED <<situation, month, alerts, nextId, raced, changes>>
Commit(p) ==
    /\ scan[p].at = "raising" /\ p \in Locked
    /\ LET new == SetToSeq(scan[p].found)
       IN /\ nextId + Len(new) - 1 <= MaxAlerts /\ nextId' = nextId + Len(new)
          /\ alerts' = Withdrawn(p) \cup {Alert(new[i], nextId + i - 1) : i \in DOMAIN new}
    /\ scan' = [scan EXCEPT ![p] = Idle]
    /\ Disturb(p)
    /\ UNCHANGED <<situation, month, raced, changes>>

(* A member reads an alert, all of them, or removes one.                     *)
MarkRead(a) == alerts' = (alerts \ {a}) \cup {[a EXCEPT !.read = TRUE]}
MarkAllRead == alerts' = {[a EXCEPT !.read = TRUE] : a \in alerts}
Act ==
    /\ \/ \E a \in Visible : ~a.read /\ MarkRead(a)
       \/ (\E a \in alerts : ~a.read) /\ MarkAllRead
       \/ \E a \in Visible : alerts' = alerts \ {a}
    /\ Disturb(Nobody)
    /\ UNCHANGED <<situation, month, nextId, scan, raced, changes>>

(* The books change: under the owner's lock, decisions on duplicates aside.  *)
Change ==
    /\ changes < MaxNews /\ changes' = changes + 1
    /\ situation' \in Situations \ {situation}
    /\ (\E p \in Locked : Reading(p)) => [situation' EXCEPT !.groups = situation.groups] = situation
    /\ Disturb(Nobody)
    /\ UNCHANGED <<month, alerts, nextId, scan, raced>>
MonthPasses ==
    /\ month < MaxMonths /\ month' = month + 1 /\ changes < MaxNews /\ changes' = changes + 1
    /\ \A p \in Readers : ~Reading(p)
    /\ UNCHANGED <<situation, alerts, nextId, scan, alone, raced>>

AttentionNext ==
    \/ \E p \in Readers : Look(p) \/ Withdraw(p) \/ Compare(p) \/ Raise(p) \/ Answer(p) \/ Commit(p)
    \/ Act \/ Change \/ MonthPasses
AttentionSpec == AttentionInit /\ [][AttentionNext]_alertVars

(* The list: one line for each topic.  Those of the counters ...             *)
Line(source, topic, tone, priority) ==
    [source |-> source, topic |-> topic, tone |-> tone, priority |-> priority, dismissed |-> FALSE, id |-> 0]
Overruns == {b \in situation.budgets : b.used > b.amount}
Counters ==
    LET bank == situation.bank
    IN {Line("summary", <<"budget">>, "warning", IF Cardinality(o) = 1 THEN 35 ELSE 10) : o \in {Overruns} \ {{}}}
         \cup {Line("summary", <<"bank-unresolved">>, "critical", 0) : n \in {bank.unresolved} \ {0}}
         \cup {Line("summary", <<"bank-review">>, "warning", 20) : n \in {n \in {bank.pending} \ {0} : bank.unresolved = 0}}
         \cup {Line("summary", <<"bank-coarse">>, "info", 25) : n \in {bank.coarse} \ {0}}
         \cup {Line("credit", <<"credit-pending">>, "warning", 21) : n \in {situation.drafts} \ {0}}
(* ... of the alerts, those read being there only to silence their topic ... *)
Topic(a) == CASE a.type \in {"budget", "upcoming"} -> <<a.type>>
              [] OTHER -> <<"alert", a.type, IF a.key # NoKey THEN a.key ELSE a.id>>
AlertLine(a) == [source |-> "alert", topic |-> Topic(a), tone |-> a.tone, priority |-> 30, dismissed |-> a.read, id |-> a.id]
Upcoming == {Line("upcoming", <<"upcoming">>, "warning", 45) : d \in {d \in {situation.day} : HeavyDay(situation)}}
(* ... and of the two nearest reminders.                                     *)
Reminders == {[Line("reminder", <<"reminder", n>>, IF n = 1 THEN "warning" ELSE "info", 50) EXCEPT !.id = n] :
                n \in {n \in 1..2 : n <= situation.reminders}}
Candidates == Counters \cup {AlertLine(a) : a \in Showing} \cup Upcoming \cup Reminders

(* The order they are listed in: the unread alerts first, by tone and age.   *)
Rank(tone) == CASE tone = "critical" -> 0 [] tone = "warning" -> 1 [] tone = "info" -> 2
NewestFirst(c, d) == c.id > d.id   \* mutant: what was dismissed comes first if it is newer
ListedBefore(c, d) ==
    \/ ~c.dismissed /\ d.dismissed
    \/ c.dismissed = d.dismissed /\ (~c.dismissed /\ Rank(c.tone) < Rank(d.tone))
    \/ c.dismissed = d.dismissed /\ (c.dismissed \/ c.tone = d.tone) /\ c.id > d.id
Wins(c, d) == c.priority < d.priority \/ (c.priority = d.priority /\ ListedBefore(c, d))
Winner(cs) == CHOOSE c \in cs : \A d \in cs \ {c} : Wins(c, d)
Topics == {c.topic : c \in Candidates}
Winners == {w \in {Winner({c \in Candidates : c.topic = t}) : t \in Topics} : ~w.dismissed}
(* What is said: at most two alerts, the most urgent.                        *)
Louder(c, d) == Rank(c.tone) < Rank(d.tone) \/ (c.tone = d.tone /\ (c.priority < d.priority \/ c.id > d.id))
Said == {w \in Winners : w.source = "alert" => Cardinality({v \in Winners : v.source = "alert" /\ Louder(v, w)}) < 2}
-----------------------------------------------------------------------------
(* Once a scan that nothing disturbed has ended, every finding has an alert  *)
(* of this month and, unless the scan was cut short, no alert is left of     *)
(* duplicates that are no longer there.                                      *)
LoneScanSettles ==
    [][\A p \in Readers : (Answer(p) \/ Commit(p)) /\ alone[p] =>
          /\ {DedupeKey(f) : f \in Detected(situation)} \subseteq Shows(Showing')
          /\ situation.limited \/ \A a \in Visible' : a.type = "duplicate" => a.key \in situation.groups]_alertVars

(* As long as no two scans ran at once, nothing is told twice in a month:    *)
(* reading again adds nothing, also when two loans or two charges share one  *)
(* title and each has an alert of its own.                                   *)
Identity(f) == <<DedupeKey(f), f.of>>
SameKey(a, b) == a.id # b.id /\ Identity(a) = Identity(b)
OnceUnlessRaced == raced \/ \A a, b \in Showing : ~SameKey(a, b)

(* News is never silenced by what was dismissed before it, nor is a topic    *)
(* whose every alert was dismissed brought back by the source it came from,  *)
(* unless several budgets are overrun.                                       *)
NewsHeard ==
    \A t \in {Topic(a) : a \in Showing} :
        LET about == {a \in Showing : Topic(a) = t}
        IN IF \E a \in about : ~a.read THEN \E w \in Winners : w.topic = t
           ELSE (\E w \in Winners : w.topic = t) => t = <<"budget">> /\ Cardinality(Overruns) > 1

(* The three of them.                                                        *)
AlertsSettle == LoneScanSettles /\ [](OnceUnlessRaced /\ NewsHeard)
=============================================================================
