------------------------------- MODULE Picture -------------------------------
(***************************************************************************)
(* What an owner is asked for until the picture of the household is ready  *)
(* (modules/journey: picture, review, coverage, routes): the actions drawn *)
(* from the books and from what she said she has, the confirmation of the  *)
(* data she saw, and the end of the onboarding.  The books change by other *)
(* modules' requests: any legal change of one part of them is a step.      *)
(***************************************************************************)
EXTENDS Integers, Sequences, FiniteSets, FiniteSetsExt

CONSTANTS Accounts, Cards, Loans, None,
          This,        \* this month; earlier ones are smaller
          Situations,  \* what the owner may say she has, None for what she does not know
          Idle,        \* cards that really have no charges
          Starts,      \* households to begin with: [books, has], has being what she has,
                       \* [accounts, cards, loans, cash]
          MaxDay, MaxChanges, \* bounds: days, changes of the books
          Patience     \* answers after which she would give up

VARIABLES household,   \* the books, what she has, the profile of its owner, the day
          changes

vars == <<household, changes>>

(* What a part of the books may hold.                                        *)
Values ==
    [accounts |-> [Accounts -> {None} \cup [months : {{}, {This}, {This - 2, This}}, balance : {None} \cup 0..MaxDay]],
     cards |-> [Cards -> {None, {}, {This - 2}, {This - 2, This}, {This}}],   \* months of their reports
     loans |-> [Loans -> {None, "typed", "file", "finished"}],
     bill |-> {None, "unread", "kept", "settled"},        \* a card's bill on the statement
     repayment |-> {None, "unread", "kept", "linked"},    \* a loan's payment there
     report |-> {None} \cup Cards,                        \* waits for approval
     session |-> {None} \cup [what : {"bank"}, of : Accounts] \cup [what : {"card", "accepted"}, of : Cards],
     due |-> {None, "open", "unpriced", "settled"},       \* a payment ahead
     manual |-> BOOLEAN]                                  \* expenses typed in
Owned(parts) == {p \in DOMAIN parts : parts[p] # None}
Current(b) == {l \in Loans : b.loans[l] \in {"typed", "file"}}   \* a loan that ended is not looked at
Counts(b) == [bankAccounts |-> Cardinality(Owned(b.accounts)), creditCards |-> Cardinality(Owned(b.cards)),
              loans |-> Cardinality(Current(b))]
(* What is registered is hers; a line on a statement needs rows; it is       *)
(* linked to, or itemized by, what is there.                                 *)
Legal(b, has, day) ==
    /\ Owned(b.accounts) \subseteq has.accounts /\ Owned(b.cards) \subseteq has.cards /\ Owned(b.loans) \subseteq has.loans
    /\ b.report \in {None} \cup has.cards
    /\ b.session # None => b.session.of \in has.accounts \cup has.cards
    /\ b.bill # None \/ b.repayment # None => \E a \in Owned(b.accounts) : b.accounts[a].months # {}
    /\ b.bill = "settled" => \E c \in Owned(b.cards) : b.cards[c] # {}
    /\ b.repayment = "linked" => Owned(b.loans) # {}
    /\ \A a \in Owned(b.accounts) : b.accounts[a].balance \in {None} \cup 0..day

(* The confirmation holds for the day and the data it was given for.  Their  *)
(* version is a fingerprint of all that is shown with the profile's revision,*)
(* which every change of the books and of the situation raises: no later     *)
(* data has it again, so such a change ends the confirmation for good.       *)
Acknowledged(h) == h.coverage # None /\ h.coverage.day = h.day /\ h.coverage.scope = h.scope
Silent(h) == IF Acknowledged(h) THEN h.coverage.quiet ELSE {}

(* What blocks: sessions that did not end, reports nobody approved, rows     *)
(* that were not read.                                                       *)
Issues(b) ==
    {<<"session", 1>> : x \in {b.session} \ {None}} \cup {<<"report", c>> : c \in {b.report} \ {None}}
      \cup {<<"row", r>> : r \in {s \in {"bill", "repayment"} : b[s] = "unread"}}

Empty(b) == {c \in Owned(b.cards) : b.cards[c] = {}}
Stale(h, c) == h.books.cards[c] # {} /\ Max(h.books.cards[c]) < This - 1 /\ ~Acknowledged(h)
Gapped(months) == months # {} /\ months # Min(months)..Max(months)
Missing(h, area) ==
    /\ h.situation # None
    /\ h.situation[area] # None
    /\ h.situation[area] > Counts(h.books)[area]
InventoryKnown(h) == h.scope # None \/ (h.situation # None /\ \A f \in DOMAIN h.situation : h.situation[f] # None)
MissingAreas(h) == {area \in {"bankAccounts", "creditCards", "loans"} : Missing(h, area)}

(* The kinds of actions, most urgent first: by priority, then by name.       *)
Order == <<"session", "issue", "card-clue", "loan-clue", "situation", "inventory", "bank-data", "card-data", "manual",
           "card-update", "commitments", "balance", "scope", "acknowledge", "schedule", "history">>
If(holds, what) == IF holds THEN {<<what, None>>} ELSE {}
Each(what, set) == {<<what, x>> : x \in set}

\* mutant: whether something was left out is no question
NoScope(h) == {}
AskScope(h) == If(h.scope = None /\ InventoryKnown(h), "scope")
\* mutant: a card that has no charges is asked for all the same
AllEmpty(h) == Empty(h.books)
Unexplained(h) == Empty(h.books) \ Silent(h)

Actions(h) ==
    LET b == h.books
        bare == {a \in Owned(b.accounts) : b.accounts[a].months = {} /\ b.accounts[a].balance = None}
    IN If(b.session # None, "session")
         \cup Each("issue", {i \in Issues(b) : i[1] # "session"})
         \cup If(b.bill \in {"unread", "kept"} /\ Owned(b.cards) = {}, "card-clue")
         \cup If(b.repayment \in {"unread", "kept"} /\ Current(b) = {}, "loan-clue")
         \cup If(~InventoryKnown(h), "situation")
         \cup Each("inventory", MissingAreas(h))
         \cup Each("bank-data", bare)
         \cup Each("card-data", Unexplained(h))
         \cup If(h.situation # None /\ h.situation.cashActivity = TRUE /\ ~b.manual, "manual")
         \cup Each("card-update", {c \in Owned(b.cards) : Stale(h, c)})
         \cup If(b.due \in {"open", "unpriced"}, "commitments")
         \cup Each("balance", {a \in Owned(b.accounts) \ bare : b.accounts[a].balance # h.day})
         \cup AskScope(h)
         \cup If(h.scope # None /\ ~Acknowledged(h), "acknowledge")
         \cup Each("schedule", {l \in Current(b) : b.loans[l] # "file"})
         \cup Each("history", {a \in Owned(b.accounts) : Gapped(b.accounts[a].months)} \cup {c \in Owned(b.cards) : Gapped(b.cards[c])})
Urgency(a) == CHOOSE i \in DOMAIN Order : Order[i] = a[1]
Foremost(actions) == CHOOSE a \in actions : \A other \in actions : Urgency(a) <= Urgency(other)

RequiredGaps(h) == Each("area", MissingAreas(h)) \cup Each("card", Unexplained(h))
Sufficient(h) == InventoryKnown(h) /\ RequiredGaps(h) = {} /\ Issues(h.books) = {} /\ Acknowledged(h)
(* What the server asks of a daily figure, with one account.                 *)
DailyTold(h) ==
    /\ h.scope # None /\ Owned(h.books.accounts) # {}
    /\ \A a \in Owned(h.books.accounts) : h.books.accounts[a].balance = h.day
    /\ Issues(h.books) = {} /\ h.books.due \notin {"open", "unpriced"}
    /\ Acknowledged(h) /\ RequiredGaps(h) = {}
(* ... and of the end of the onboarding.                                     *)
Reviewed(h) == h.scope # None /\ Issues(h.books) = {} /\ Acknowledged(h) /\ RequiredGaps(h) = {}
Active(b) ==
    \/ b.manual
    \/ \E a \in Owned(b.accounts) : b.accounts[a].months # {}
    \/ \E c \in Owned(b.cards) : b.cards[c] # {}
Useful(b) == Active(b) \/ Current(b) # {} \/ \E a \in Owned(b.accounts) : b.accounts[a].balance # None

Init ==
    /\ \E s \in Starts, o \in {"pending", "legacy"} :
          household = [day |-> 0, books |-> s.books, has |-> s.has, situation |-> None, scope |-> None, coverage |-> None,
                       onboarding |-> o]
    /\ household.onboarding = "legacy" <=> Active(household.books)
    /\ changes = 0

Edited(h, b) == [h EXCEPT !.books = b, !.coverage = None]
Situated(h, s) == [h EXCEPT !.situation = s, !.coverage = None]
Scoped(h, manualOnly) == [h EXCEPT !.scope = [manualOnly |-> manualOnly]]
Confirmed(h, quiet) == [h EXCEPT !.coverage = [day |-> h.day, scope |-> h.scope, quiet |-> quiet]]

Situate(s) == household.situation # s /\ household' = Situated(household, s) /\ UNCHANGED changes
ConfirmScope(manualOnly) ==
    /\ household' = Scoped(household, manualOnly)
    /\ household' # household
    /\ UNCHANGED changes
(* Every source on the screen has to be confirmed, for the data it showed.   *)
Acknowledge(quiet) ==
    /\ quiet \subseteq Owned(household.books.cards)
    /\ household' = Confirmed(household, quiet)
    /\ UNCHANGED changes
Complete(noActivity) ==
    /\ household.onboarding # "completed"
    /\ Reviewed(household)
    /\ Useful(household.books) \/ (household.scope.manualOnly /\ noActivity)
    /\ household' = [household EXCEPT !.onboarding = "completed"]
    /\ UNCHANGED changes
Defer ==
    /\ household.onboarding = "pending"
    /\ household' = [household EXCEPT !.onboarding = "deferred"]
    /\ UNCHANGED changes
Change(part) ==
    /\ changes < MaxChanges
    /\ \E v \in Values[part] :
          LET b == [household.books EXCEPT ![part] = v]
          IN b # household.books /\ Legal(b, household.has, household.day) /\ household' = Edited(household, b)
    /\ changes' = changes + 1
DayPasses == household.day < MaxDay /\ household' = [household EXCEPT !.day = @ + 1] /\ UNCHANGED changes

Next ==
    \/ \E s \in Situations : Situate(s)
    \/ \E b \in BOOLEAN : ConfirmScope(b) \/ Complete(b)
    \/ Defer \/ DayPasses
    \/ \E quiet \in SUBSET Empty(household.books) : Acknowledge(quiet)
    \/ \E part \in DOMAIN Values : Change(part)
Spec == Init /\ [][Next]_vars

(* What an owner does who is asked for something: she brings what is missing *)
(* if she has it, decides what is open and confirms what she sees.  A loan   *)
(* that ended she no longer has, but a payment may still be linked to it.    *)
Owes(h) == {l \in h.has.loans : h.books.loans[l] # "finished"}
Unregistered(h, area) ==
    CASE area = "bankAccounts" -> h.has.accounts \ Owned(h.books.accounts)
      [] area = "creditCards" -> h.has.cards \ Owned(h.books.cards)
      [] OTHER -> Owes(h) \ Current(h.books)
TrueSituation(h) == [bankAccounts |-> Cardinality(h.has.accounts), creditCards |-> Cardinality(h.has.cards),
                     loans |-> Cardinality(Owes(h)), cashActivity |-> h.has.cash]
Overstated(h) ==
    h.situation # None /\ \E area \in {"bankAccounts", "creditCards", "loans"} :
        h.situation[area] # None /\ h.situation[area] > TrueSituation(h)[area]
CanAnswer(h, a) ==
    CASE a[1] = "inventory" -> Unregistered(h, a[2]) # {}
      [] a[1] = "card-clue" -> h.has.cards # {}
      [] a[1] = "loan-clue" -> h.has.loans # {}
      [] a[1] = "manual" -> h.has.cash
      [] OTHER -> TRUE

Reported(b, c) == [b EXCEPT !.cards[c] = IF @ = None THEN {This} ELSE @ \cup {This}]
Stated(b, a, months, day) ==
    [b EXCEPT !.accounts[a] = [months |-> (IF @ = None THEN {} ELSE @.months) \cup months, balance |-> day]]
Finished(h, s) ==
    LET b == [h.books EXCEPT !.session = None]
    IN CASE s.what = "bank" -> Stated(b, s.of, {This}, h.day)
         [] s.what = "card" -> Reported(b, s.of)
         [] OTHER -> b
Decided(b, issue) ==
    IF issue[1] = "report" THEN [Reported(b, issue[2]) EXCEPT !.report = None] ELSE [b EXCEPT ![issue[2]] = "kept"]
Registered(h, area) ==
    LET new == CHOOSE x \in Unregistered(h, area) : TRUE
    IN CASE area = "bankAccounts" -> [h.books EXCEPT !.accounts[new] = [months |-> {}, balance |-> None]]
         [] area = "creditCards" -> [h.books EXCEPT !.cards[new] = {}]
         [] OTHER -> [h.books EXCEPT !.loans[new] = "typed"]
Linked(h) == IF Owes(h) # {} THEN [Registered(h, "loans") EXCEPT !.repayment = "linked"] ELSE [h.books EXCEPT !.repayment = "linked"]
Brought(h, a) ==
    LET b == h.books
    IN CASE a[1] = "session" -> Finished(h, b.session)
         [] a[1] = "issue" -> Decided(b, a[2])
         [] a[1] = "card-clue" -> [Reported(b, CHOOSE c \in h.has.cards : TRUE) EXCEPT !.bill = "settled"]
         [] a[1] = "loan-clue" -> Linked(h)
         [] a[1] = "inventory" -> Registered(h, a[2])
         [] a[1] = "bank-data" -> Stated(b, a[2], {This}, h.day - 1)   \* a statement ends the day before
         [] a[1] \in {"card-data", "card-update"} -> Reported(b, a[2])
         [] a[1] = "manual" -> [b EXCEPT !.manual = TRUE]
         [] a[1] = "commitments" -> [b EXCEPT !.due = "settled"]
         [] a[1] = "balance" -> Stated(b, a[2], {}, h.day)
         [] OTHER -> b   \* a schedule or old months, asked only of a picture that is ready
Declared(a) == a[1] = "card-data" /\ a[2] \in Idle   \* that nothing was charged
Answered(h, a) ==
    CASE a[1] = "situation" -> Situated(h, TrueSituation(h))
      [] a[1] = "scope" \/ (Declared(a) /\ h.scope = None) -> Scoped(h, FALSE)   \* first, on the page of both
      [] a[1] = "acknowledge" \/ Declared(a) -> Confirmed(h, Empty(h.books) \cap Idle)
      [] OTHER -> Edited(h, Brought(h, a))
RECURSIVE Led(_, _)
Led(h, patience) ==
    \/ Reviewed(h)
    \/ LET asked == {a \in Actions(h) : CanAnswer(h, a)}
       IN patience > 0 /\ asked # {} /\ Led(Answered(h, Foremost(asked)), patience - 1)

(* The screen and the server agree on when the picture is ready: exactly     *)
(* then nothing necessary is asked, and a daily figure is told of such a     *)
(* picture only.  The owner who does the first thing asked that she can, in  *)
(* whatever household, gets there; unless she said she has more than she     *)
(* has, which a loan paid off since makes of what was true: that is asked    *)
(* for until she corrects it, and then she gets there.  An answer may make   *)
(* an earlier confirmation stale, which is asked again.                      *)
Necessary == {"session", "issue", "situation", "inventory", "card-data", "scope", "acknowledge"}
PictureLeadsOn ==
    /\ Reviewed(household) <=> \A a \in Actions(household) : a[1] \notin Necessary
    /\ Reviewed(household) => Sufficient(household)
    /\ DailyTold(household) => Reviewed(household)
    /\ Overstated(household) => ~Reviewed(household) /\ Led(Situated(household, TrueSituation(household)), Patience)
    /\ ~Overstated(household) => Led(household, Patience)
=============================================================================
