--------------------------- MODULE FiguresProofs ---------------------------
(***************************************************************************)
(* Theorems of what the screens say of the figures.  In Books, everything  *)
(* that is added up agrees with everything else that is; in Explanation,   *)
(* no page of a figure is shown beside a page of another version of the    *)
(* books, all of them together add up to it, and once an own write is      *)
(* answered and nothing is left to load, what the panel shows was read     *)
(* after it; in CheckIn, a comparison that does not say it is limited      *)
(* counts every difference.                                                *)
(*                                                                         *)
(* BooksInv is what the writes of the books keep: typed rows, reports that *)
(* own their rows and tell their total, categories that are there.  The    *)
(* sums follow from it by induction over the subsets of a finite set.      *)
(* NetInv follows the calls: a shared or awaited one is of the key it was  *)
(* sent for.  WalkInv adds that the pages shown since the explanation      *)
(* began tell the same version, the one the panel goes on to ask for.      *)
(* RecentInv adds that a shared or awaited answer is as new as the last    *)
(* write answered, unless a reload is due.                                 *)
(*                                                                         *)
(* In DailyPlan, who lives a day by the figure overdraws no account and is *)
(* told as much the next morning: a figure that was given is still the one *)
(* its data gives (DayInv), and each of its numbers is read off the last   *)
(* day on which it is least.  In AccountBalance, a balance computed today  *)
(* is the one that is derived now (BalanceInv), and the moves up to a day  *)
(* are those up to the anchor's and those since.                           *)
(***************************************************************************)
EXTENDS Explanation, CheckIn, DailyPlan, AccountBalance, Sums, SequenceTheorems

-----------------------------------------------------------------------------
(* What the books hold.  Rows are typed and numbered in their tables; a card  *)
(* row belongs to a report that is there, whose total is that of its rows;    *)
(* what rows and budgets mean by a category is one that is there.             *)

TableNames == {"income", "expense", "card"}
Labels == {e.category : e \in Entries} \cup Categories \cup {None}
Printed == UNION {{Files[f][k] : k \in DOMAIN Files[f]} : f \in DOMAIN Files}
Row == [date : Int, amount : Int, category : Labels, recurring : BOOLEAN,
        report : DOMAIN Files \cup {None}, charge : Int \cup {None},
        use : {r.use : r \in Printed} \cup {None}, card : Cards \cup {None}, key : {r.key : r \in Printed} \cup {None}]

RowsTyped ==
    /\ IsFiniteSet(DOMAIN rows) /\ DOMAIN rows \subseteq TableNames \X Nat
    /\ \A i \in DOMAIN rows : rows[i] \in Row
ReportsKept ==
    /\ DOMAIN reports = DOMAIN Files
    /\ \A i \in In("card") : rows[i].report \in DOMAIN Files /\ reports[rows[i].report] # None
    /\ \A f \in DOMAIN Files : reports[f] # None =>
        /\ reports[f] \in [status : {"pending", "confirmed"}, total : Int]
        /\ reports[f].total = Total({i \in RowsOf(f) : rows[i].use # "financing"})
MeaningsKept ==
    /\ categories \subseteq Categories
    /\ \A i \in DOMAIN rows : i[1] # "income" => rows[i].category \in categories \cup {None}
    /\ \A k \in DOMAIN budgets : k[2] \in categories /\ budgets[k] \in Int
BooksInv == RowsTyped /\ ReportsKept /\ MeaningsKept

Weight == [i \in DOMAIN rows |-> rows[i].amount]

(* So is one of the rows there are, a finite number of whole amounts.         *)
LEMMA TotalIs ==
    ASSUME RowsTyped, NEW S \in SUBSET DOMAIN rows
    PROVE  Total(S) = SumAt(Weight, S) /\ IsFiniteSet(S) /\ Weights(Weight, S)
<1>1. IsFiniteSet(S)
  BY FS_Subset DEF RowsTyped
<1>2. \A i \in S : rows[i].amount \in Int
  BY DEF RowsTyped, Row
<1>3. Total(S) = TotalAt(rows, S) /\ Weight = AmountsAt(rows)
  BY DEF Total, TotalAt, Weight, AmountsAt
<1> QED BY <1>1, <1>2, <1>3, TotalAtIs DEF Weights, Weight

(* A total is a whole number of cents.                                        *)
LEMMA TotalInt ==
    ASSUME RowsTyped, NEW S \in SUBSET DOMAIN rows PROVE Total(S) \in Int
  BY TotalIs, SumInt

(* Rows that are apart are added up apart.                                    *)
LEMMA TotalBoth ==
    ASSUME RowsTyped, NEW A \in SUBSET DOMAIN rows, NEW B \in SUBSET DOMAIN rows, A \cap B = {}
    PROVE  Total(A \cup B) = Total(A) + Total(B)
<1>1. A \cup B \in SUBSET DOMAIN rows
  OBVIOUS
<1>2. IsFiniteSet(A) /\ IsFiniteSet(B) /\ Weights(Weight, A \cup B)
  BY <1>1, TotalIs
<1>3. SumAt(Weight, A \cup B) = SumAt(Weight, A) + SumAt(Weight, B)
  BY <1>2, SumBoth
<1> QED BY <1>1, <1>3, TotalIs

(* Rows parted by what f says of them.                                        *)
LEMMA TotalParts ==
    ASSUME RowsTyped, NEW S \in SUBSET DOMAIN rows, NEW C, IsFiniteSet(C), NEW f, \A i \in S : f[i] \in C
    PROVE  Total(S) = SumAt([c \in C |-> Total({i \in S : f[i] = c})], C)
<1>1. \A c \in C : Total({i \in S : f[i] = c}) = SumAt(Weight, {i \in S : f[i] = c})
  <2> SUFFICES ASSUME NEW c \in C PROVE Total({i \in S : f[i] = c}) = SumAt(Weight, {i \in S : f[i] = c})
    OBVIOUS
  <2> DEFINE K == {i \in S : f[i] = c}
  <2>1. K \in SUBSET DOMAIN rows
    OBVIOUS
  <2> HIDE DEF K
  <2>2. Total(K) = SumAt(Weight, K)
    BY <2>1, TotalIs
  <2> QED BY <2>2 DEF K
<1>2. [c \in C |-> Total({i \in S : f[i] = c})] = [c \in C |-> SumAt(Weight, {i \in S : f[i] = c})]
  BY <1>1
<1>3. Total(S) = SumAt(Weight, S) /\ IsFiniteSet(S) /\ Weights(Weight, S)
  BY TotalIs
<1>4. SumAt(Weight, S) = SumAt([c \in C |-> SumAt(Weight, {i \in S : f[i] = c})], C)
  BY <1>3, SumParts
<1> QED BY <1>2, <1>3, <1>4

(* Where an element stands in a strict order is all its own, and no place is   *)
(* left out.                                                                   *)
Below(S, R, i) == {j \in S : <<j, i>> \in R}
LEMMA Ranks ==
    ASSUME NEW S, IsFiniteSet(S), NEW R,
           \A i \in S : <<i, i>> \notin R,
           \A i, j \in S : i # j => <<i, j>> \in R \/ <<j, i>> \in R,
           \A i, j, k \in S : <<i, j>> \in R /\ <<j, k>> \in R => <<i, k>> \in R
    PROVE  \A f : f = [i \in S |-> Cardinality(Below(S, R, i))] =>
              /\ \A i \in S : f[i] \in 0..Cardinality(S)-1
              /\ \A i, j \in S : f[i] = f[j] => i = j
              /\ \A p \in 0..Cardinality(S)-1 : \E i \in S : f[i] = p
<1> DEFINE ahead(i) == {j \in S : <<j, i>> \in R}
           f == [i \in S |-> Cardinality(ahead(i))]
           n == Cardinality(S)
<1>1. n \in Nat
  BY FS_CardinalityType
<1>2. \A i \in S : IsFiniteSet(ahead(i)) /\ f[i] \in Nat
  BY FS_Subset, FS_CardinalityType
<1>3. ASSUME NEW i \in S PROVE f[i] \in 0..n-1
  <2> DEFINE b == ahead(i)
             r == S \ {i}
  <2>1. b \in SUBSET r
    OBVIOUS
  <2>2. IsFiniteSet(r) /\ Cardinality(r) = n - 1
    BY FS_RemoveElement
  <2>3. f[i] = Cardinality(b) /\ f[i] \in Nat
    BY <1>2
  <2> HIDE DEF b, r, n, f
  <2>4. Cardinality(b) <= Cardinality(r)
    BY <2>1, <2>2, FS_Subset
  <2> QED BY <1>1, <2>2, <2>3, <2>4
<1>4. ASSUME NEW i \in S, NEW j \in S, <<i, j>> \in R PROVE f[i] < f[j]
  <2>1. ahead(i) \in SUBSET ahead(j) /\ i \in ahead(j) /\ i \notin ahead(i)
    BY <1>4
  <2>2. Cardinality(ahead(i)) <= Cardinality(ahead(j)) /\ Cardinality(ahead(i)) # Cardinality(ahead(j))
    BY <1>2, <2>1, FS_Subset
  <2> QED BY <1>2, <2>2
<1>5. \A i, j \in S : f[i] = f[j] => i = j
  <2> SUFFICES ASSUME NEW i \in S, NEW j \in S, i # j PROVE f[i] # f[j]
    OBVIOUS
  <2>1. f[i] < f[j] \/ f[j] < f[i]
    BY <1>4
  <2>2. f[i] \in Nat /\ f[j] \in Nat
    BY <1>2
  <2> HIDE DEF f
  <2> QED BY <2>1, <2>2
<1>6. \A p \in 0..n-1 : \E i \in S : f[i] = p
  <2>1. f \in Injection(S, 0..n-1)
    <3>1. f \in [S -> 0..n-1]
      BY <1>3
    <3> HIDE DEF f
    <3> QED BY <1>5, <3>1 DEF Injection, IsInjective
  <2>2. IsFiniteSet(0..n-1) /\ Cardinality(0..n-1) = n
    <3> HIDE DEF n
    <3>1. 0 \in Int /\ n - 1 \in Int
      BY <1>1
    <3>2. IsFiniteSet(0..n-1) /\ Cardinality(0..n-1) = IF 0 > n - 1 THEN 0 ELSE n - 1 - 0 + 1
      BY <3>1, FS_Interval
    <3> QED BY <1>1, <3>2
  <2>3. f \in Surjection(S, 0..n-1)
    BY <2>1, <2>2, FS_Injection
  <2> HIDE DEF f
  <2> QED BY <2>3 DEF Surjection
<1> HIDE DEF f
<1>7. \A i \in S : f[i] \in 0..n-1
  BY <1>3
<1> QED BY <1>5, <1>6, <1>7 DEF f, Below

-----------------------------------------------------------------------------
(* A month and its ledger.                                                    *)

(* One multiple more.                                                         *)
LEMMA Mono == ASSUME NEW d \in Nat \ {0}, NEW q \in Int, NEW m \in Int, q < m PROVE d * q + d <= d * m
<1>1. q + 1 <= m
  OBVIOUS
<1>2. d * (q + 1) <= d * m
  BY <1>1
<1> QED BY <1>2

(* The month of a date is the one among whose days it is.                     *)
LEMMA MonthsApart ==
    ASSUME NEW d \in Nat \ {0}, NEW x \in Int, NEW m \in Int
    PROVE  (x - 1) \div d + 1 = m <=> x \in (m - 1) * d + 1 .. m * d
<1> DEFINE q == (x - 1) \div d
<1>1. q \in Int /\ d * q <= x - 1 /\ x - 1 < d * q + d
  BY Quotient
<1> HIDE DEF q
<1>2. ASSUME q + 1 = m PROVE x \in (m - 1) * d + 1 .. m * d
  <2>1. q = m - 1
    BY <1>1, <1>2
  <2>2. d * q = (m - 1) * d /\ d * q + d = m * d
    BY <2>1
  <2> QED BY <1>1, <2>2
<1>3. ASSUME x \in (m - 1) * d + 1 .. m * d PROVE q + 1 = m
  <2>0. (m-1) * d \in Int /\ m * d \in Int /\ d * q \in Int /\ d * (m - 1) = (m-1) * d /\ d * (m - 1) + d = m * d /\ m * d = d * m
    BY <1>1
  <2>1. ~(q < m - 1)
    <3> SUFFICES ASSUME q < m - 1 PROVE FALSE
      OBVIOUS
    <3>1. d * q + d <= d * (m - 1)
      BY <1>1, Mono
    <3> QED BY <1>1, <1>3, <2>0, <3>1
  <2>2. ~(m - 1 < q)
    <3> SUFFICES ASSUME m - 1 < q PROVE FALSE
      OBVIOUS
    <3>1. d * (m - 1) + d <= d * q
      BY <1>1, Mono
    <3> QED BY <1>1, <1>3, <2>0, <3>1
  <2> QED BY <1>1, <2>1, <2>2
<1> QED BY <1>2, <1>3 DEF q

(* A row is of one month, by its number and by its days.                      *)
LEMMA OfTheMonth ==
    ASSUME BooksAssumption, RowsTyped, NEW m \in Int
    PROVE  \A i \in DOMAIN rows : rows[i].date \in DaysOf(m) <=> Month(rows[i].date) = m
<1> SUFFICES ASSUME NEW i \in DOMAIN rows PROVE rows[i].date \in DaysOf(m) <=> Month(rows[i].date) = m
  OBVIOUS
<1>1. rows[i].date \in Int /\ Days \in Nat \ {0}
  BY DEF RowsTyped, Row, BooksAssumption
<1> QED BY <1>1, MonthsApart DEF Month, DaysOf

(* The rows of a month: of three tables, none in two of them.                 *)
LEMMA MonthRows ==
    ASSUME NEW m
    PROVE  /\ Expenses(m) \in SUBSET DOMAIN rows /\ CreditIn(m) \in SUBSET DOMAIN rows /\ Incomes(m) \in SUBSET DOMAIN rows
           /\ \A i \in Expenses(m) : i[1] = "expense"
           /\ \A i \in CreditIn(m) : i[1] = "card"
           /\ \A i \in Incomes(m) : i[1] = "income"
           /\ Expenses(m) \cap CreditIn(m) = {} /\ Expenses(m) \cap Incomes(m) = {} /\ CreditIn(m) \cap Incomes(m) = {}
  BY DEF Expenses, CreditIn, Incomes, In, SpendingCredit, Confirmed

(* The ledger without a filter is the spending of its month.                  *)
LEMMA WholeLedger ==
    ASSUME BooksAssumption, RowsTyped, NEW m \in 1..Months
    PROVE  /\ LedgerRange(m, 1, None) = DaysOf(m)
           /\ Ledger(m, Whole) = Expenses(m) \cup CreditIn(m) /\ IncomeLedger(m, Whole) = Incomes(m)
           /\ Total(Ledger(m, Whole)) = MonthTotals(m).expense
<1>1. LedgerRange(m, 1, None) = DaysOf(m)
  <2>1. \A d \in DaysOf(m) : d >= 1
    <3>1. m - 1 \in Nat /\ Days \in Nat /\ (m - 1) * Days \in Nat /\ m * Days \in Int
      BY DEF BooksAssumption
    <3> QED BY <3>1 DEF DaysOf
  <2> QED BY <2>1 DEF LedgerRange
<1>2. Ledger(m, Whole) = Expenses(m) \cup CreditIn(m)
  <2>1. Ledger(m, Whole) = {i \in In("expense") \cup SpendingCredit : rows[i].date \in DaysOf(m)}
    BY <1>1 DEF Ledger, Whole
  <2> QED BY <2>1 DEF Expenses, CreditIn
<1>3. IncomeLedger(m, Whole) = Incomes(m)
  BY <1>1 DEF IncomeLedger, Whole, Incomes
<1> QED BY <1>1, <1>2, <1>3, MonthRows, TotalBoth DEF MonthTotals

(* The month by its categories, and by the cards. *)
Category == [i \in DOMAIN rows |-> rows[i].category]
CardOf == [i \in DOMAIN rows |-> rows[i].card]

(* The spending of a month, by category.                                      *)
LEMMA ByCategory ==
    ASSUME BooksAssumption, RowsTyped, MeaningsKept, NEW m \in 1..Months
    PROVE  LET spent == SpentByCategory(m) IN
           /\ \A c \in Categories \cup {None} : spent[c] \in Int
           /\ MonthTotals(m).expense = FoldSet(LAMBDA c, s : s + spent[c], 0, Categories \cup {None})
<1> DEFINE E == Expenses(m)
           K == CreditIn(m)
           C == Categories \cup {None}
           whole == E \cup K
           of == [c \in C |-> Total({i \in whole : Category[i] = c})]
<1>1. IsFiniteSet(C)
  BY FS_AddElement DEF BooksAssumption
<1>2. whole \in SUBSET DOMAIN rows /\ E \cap K = {}
  BY MonthRows
<1>3. \A i \in whole : Category[i] \in C
  <2>1. \A i \in whole : i \in DOMAIN rows /\ i[1] # "income"
    BY MonthRows
  <2> QED BY <2>1 DEF MeaningsKept, Category
<1>4. Total(whole) = SumAt(of, C)
  <2> HIDE DEF whole, C
  <2> QED BY <1>1, <1>2, <1>3, TotalParts
<1>5. ASSUME NEW c \in C PROVE SpentByCategory(m)[c] = of[c] /\ of[c] \in Int
  <2> DEFINE A == {i \in E : rows[i].category = c}
             B == {i \in K : rows[i].category = c}
  <2>1. A \in SUBSET DOMAIN rows /\ B \in SUBSET DOMAIN rows /\ A \cap B = {} /\ A \cup B \in SUBSET DOMAIN rows
    BY <1>2
  <2>2. {i \in whole : Category[i] = c} = A \cup B
    BY <1>2 DEF Category
  <2>3. SpentByCategory(m)[c] = Total(A) + Total(B)
    BY DEF SpentByCategory
  <2>4. of[c] = Total(A \cup B)
    BY <2>2
  <2> HIDE DEF A, B, of
  <2>5. Total(A \cup B) = Total(A) + Total(B) /\ Total(A \cup B) \in Int
    BY <2>1, TotalBoth, TotalInt
  <2> QED BY <2>3, <2>4, <2>5
<1>6. PICK spent : spent = SpentByCategory(m)
  OBVIOUS
<1>7. SumAt(of, C) = SumAt(spent, C)
  <2> HIDE DEF of, C
  <2> QED BY <1>1, <1>5, <1>6, SumAlike
<1>8. FoldSet(LAMBDA c, s : s + SpentByCategory(m)[c], 0, C) = SumAt(SpentByCategory(m), C)
  BY DEF SumAt
<1>9. Total(whole) = MonthTotals(m).expense
  BY WholeLedger
<1> HIDE DEF of, whole
<1>10. MonthTotals(m).expense = FoldSet(LAMBDA c, s : s + SpentByCategory(m)[c], 0, C)
  BY <1>4, <1>6, <1>7, <1>8, <1>9
<1>11. \A c \in C : SpentByCategory(m)[c] \in Int
  BY <1>5
<1> QED BY <1>10, <1>11

(* The curve of a month ends at its spending.                                 *)
LEMMA CurveEnds ==
    ASSUME BooksAssumption, RowsTyped, NEW m \in 1..Months
    PROVE  Cumulative(m, m * Days) = MonthTotals(m).expense
<1>1. \A i \in DOMAIN rows : rows[i].date \in DaysOf(m) <=> Month(rows[i].date) = m
  BY OfTheMonth
<1>2. \A d \in DaysOf(m) : d <= m * Days
  BY DEF DaysOf
<1>3. {i \in In("expense") : Month(rows[i].date) = m /\ rows[i].date <= m * Days} = Expenses(m)
  BY <1>1, <1>2 DEF Expenses, In
<1>4. {i \in CreditIn(m) : rows[i].date <= m * Days} = CreditIn(m)
  BY <1>2 DEF CreditIn
<1> HIDE DEF MonthTotals
<1> QED BY <1>3, <1>4 DEF Cumulative, MonthTotals

(* The ledgers narrowed to each category add up to the month.                 *)
LEMMA LedgersOfCategories ==
    ASSUME BooksAssumption, RowsTyped, MeaningsKept, NEW m \in 1..Months
    PROVE  MonthTotals(m).expense
               = FoldSet(LAMBDA c, s : s + Total(Ledger(m, [Whole EXCEPT !.category = {c}])), 0, categories \cup {None})
<1> DEFINE C == categories \cup {None}
           whole == Ledger(m, Whole)
           part(c) == Ledger(m, [Whole EXCEPT !.category = {c}])
           w == [c \in C |-> Total(part(c))]
           of == [c \in C |-> Total({i \in whole : Category[i] = c})]
<1>1. IsFiniteSet(C)
  <2>1. IsFiniteSet(categories)
    BY FS_Subset DEF BooksAssumption, MeaningsKept
  <2> QED BY <2>1, FS_AddElement
<1>2. whole = Expenses(m) \cup CreditIn(m) /\ Total(whole) = MonthTotals(m).expense
  BY WholeLedger
<1>3. whole \in SUBSET DOMAIN rows /\ \A i \in whole : Category[i] \in C
  <2>1. whole \in SUBSET DOMAIN rows /\ \A i \in whole : i[1] # "income"
    BY <1>2, MonthRows
  <2> HIDE DEF whole
  <2> QED BY <2>1 DEF MeaningsKept, Category
<1>4. ASSUME NEW c PROVE part(c) = {i \in whole : Category[i] = c}
  <2>1. Whole.from = 1 /\ Whole.to = None /\ Whole.category = {} /\ Whole.recurring = FALSE
    BY DEF Whole
  <2>2. LET q == [Whole EXCEPT !.category = {c}] IN q.from = 1 /\ q.to = None /\ q.category = {c} /\ q.recurring = FALSE
    BY DEF Whole
  <2> QED BY <1>3, <2>1, <2>2 DEF Ledger, Category
<1>5. w = of
  BY <1>4
<1>6. FoldSet(LAMBDA c, s : s + Total(part(c)), 0, C) = SumAt(w, C)
  <2> HIDE DEF part, C
  <2>1. \A g : Rec(w, C, g) <=> g = [s \in SUBSET C |-> IF s = {} THEN 0 ELSE g[s \ {Some(s)}] + Total(part(Some(s)))]
    <3>1. \A s \in SUBSET C : s # {} => w[Some(s)] = Total(part(Some(s)))
      BY DEF Some
    <3> HIDE DEF w
    <3> SUFFICES ASSUME NEW g PROVE
          [s \in SUBSET C |-> IF s = {} THEN 0 ELSE g[s \ {Some(s)}] + w[Some(s)]]
             = [s \in SUBSET C |-> IF s = {} THEN 0 ELSE g[s \ {Some(s)}] + Total(part(Some(s)))]
      BY DEF Rec
    <3> QED BY <3>1
  <2>2. (CHOOSE g : Rec(w, C, g)) = (CHOOSE g : g = [s \in SUBSET C |-> IF s = {} THEN 0 ELSE g[s \ {Some(s)}] + Total(part(Some(s)))])
    BY <2>1
  <2>3. FoldSet(LAMBDA c, s : s + Total(part(c)), 0, C)
          = (CHOOSE g : g = [s \in SUBSET C |-> IF s = {} THEN 0 ELSE g[s \ {Some(s)}] + Total(part(Some(s)))])[C]
    BY DEF FoldSet, MapThenFoldSet, Some
  <2> QED BY <2>2, <2>3, Unfold
<1>7. Total(whole) = SumAt(of, C)
  <2> HIDE DEF whole, C
  <2> QED BY <1>1, <1>3, TotalParts
<1> HIDE DEF w, of, whole
<1> QED BY <1>2, <1>5, <1>6, <1>7

(* So do those up to a day and from the next one on.                          *)
LEMMA LedgersOfDays ==
    ASSUME BooksAssumption, RowsTyped, NEW m \in 1..Months, NEW d \in DaysOf(m)
    PROVE  Total(Ledger(m, Whole)) = Total(Ledger(m, [Whole EXCEPT !.to = d])) + Total(Ledger(m, [Whole EXCEPT !.from = d + 1]))
<1> DEFINE whole == Ledger(m, Whole)
           A == {i \in whole : rows[i].date <= d}
           B == {i \in whole : rows[i].date >= d + 1}
<1>1. d \in Int /\ d # None
  BY DEF DaysOf, BooksAssumption
<1>2. whole = Expenses(m) \cup CreditIn(m) /\ whole \in SUBSET DOMAIN rows
  BY WholeLedger, MonthRows
<1>3. \A i \in whole : rows[i].date \in Int
  BY <1>2 DEF RowsTyped, Row
<1>4. \A x \in DaysOf(m) : x \in Int /\ x >= 1
  <2>1. m - 1 \in Nat /\ Days \in Nat /\ (m - 1) * Days \in Nat /\ m * Days \in Int
    BY DEF BooksAssumption
  <2> QED BY <2>1 DEF DaysOf
<1>5. A = Ledger(m, [Whole EXCEPT !.to = d])
  <2>1. LET q == [Whole EXCEPT !.to = d] IN q.from = 1 /\ q.to = d /\ q.category = {} /\ q.recurring = FALSE
    BY DEF Whole
  <2>2. \A x : x \in LedgerRange(m, 1, d) <=> x \in LedgerRange(m, 1, None) /\ x <= d
    BY <1>1 DEF LedgerRange
  <2>3. Whole.from = 1 /\ Whole.to = None /\ Whole.category = {} /\ Whole.recurring = FALSE
    BY DEF Whole
  <2> QED BY <2>1, <2>2, <2>3 DEF Ledger
<1>6. B = Ledger(m, [Whole EXCEPT !.from = d + 1])
  <2>1. LET q == [Whole EXCEPT !.from = d + 1] IN q.from = d + 1 /\ q.to = None /\ q.category = {} /\ q.recurring = FALSE
    BY DEF Whole
  <2>2. \A x : x \in LedgerRange(m, d + 1, None) <=> x \in LedgerRange(m, 1, None) /\ x >= d + 1
    BY <1>1, <1>4 DEF LedgerRange
  <2>3. Whole.from = 1 /\ Whole.to = None /\ Whole.category = {} /\ Whole.recurring = FALSE
    BY DEF Whole
  <2> QED BY <2>1, <2>2, <2>3 DEF Ledger
<1>7. A \cap B = {} /\ A \cup B = whole
  <2> HIDE DEF whole
  <2>1. \A i \in whole : (rows[i].date <= d) <=> ~(rows[i].date >= d + 1)
    BY <1>1, <1>3
  <2> QED BY <2>1
<1>8. A \in SUBSET DOMAIN rows /\ B \in SUBSET DOMAIN rows
  BY <1>2
<1> HIDE DEF A, B, whole
<1>9. Total(A \cup B) = Total(A) + Total(B)
  BY <1>7, <1>8, TotalBoth
<1> QED BY <1>5, <1>6, <1>7, <1>9 DEF whole

(* The wallet of all cards tells the credit of the month.                     *)
LEMMA WalletTotal ==
    ASSUME BooksAssumption, RowsTyped, NEW m \in 1..Months, NEW card
    PROVE  Wallet(m, card).total = Total({i \in CreditIn(m) : card = "all" \/ rows[i].card = card})
<1>1. \A i \in DOMAIN rows : rows[i].date \in DaysOf(m) <=> Month(rows[i].date) = m
  BY OfTheMonth
<1> DEFINE inView == {i \in Confirmed : /\ Month(rows[i].date) \in {m - 1, m} \/ (rows[i].charge # None /\ rows[i].charge >= Today)
                                        /\ card = "all" \/ rows[i].card = card}
           spend == {i \in inView : rows[i].use # "financing"}
<1>2. {i \in spend : Month(rows[i].date) = m} = {i \in CreditIn(m) : card = "all" \/ rows[i].card = card}
  BY <1>1 DEF CreditIn, SpendingCredit, Confirmed, In
<1>3. Wallet(m, card).total = Total({i \in spend : Month(rows[i].date) = m})
  BY DEF Wallet
<1> HIDE DEF inView, spend
<1> QED BY <1>2, <1>3

(* So do the wallets of each card together.                                   *)
LEMMA WalletsOfCards ==
    ASSUME BooksAssumption, RowsTyped, NEW m \in 1..Months
    PROVE  /\ MonthTotals(m).credit = Wallet(m, "all").total
           /\ MonthTotals(m).credit = FoldSet(LAMBDA c, s : s + Wallet(m, c).total, 0, Cards \cup {None})
<1> DEFINE K == CreditIn(m)
           C == Cards \cup {None}
           w == [c \in C |-> Wallet(m, c).total]
           of == [c \in C |-> Total({i \in K : CardOf[i] = c})]
<1>1. MonthTotals(m).credit = Total(K)
  BY DEF MonthTotals
<1>2. Wallet(m, "all").total = Total(K)
  <2>1. {i \in K : "all" = "all" \/ rows[i].card = "all"} = K
    OBVIOUS
  <2>2. Wallet(m, "all").total = Total({i \in K : "all" = "all" \/ rows[i].card = "all"})
    BY WalletTotal
  <2> QED BY <2>1, <2>2
<1>3. IsFiniteSet(C) /\ "all" \notin C
  BY FS_AddElement DEF BooksAssumption
<1>4. K \in SUBSET DOMAIN rows /\ \A i \in K : CardOf[i] \in C
  <2>1. K \in SUBSET DOMAIN rows
    BY MonthRows
  <2> QED BY <2>1 DEF RowsTyped, Row, CardOf
<1>5. ASSUME NEW c \in C PROVE w[c] = of[c]
  <2>1. {i \in K : c = "all" \/ rows[i].card = c} = {i \in K : CardOf[i] = c}
    BY <1>3, <1>4 DEF CardOf
  <2>2. Wallet(m, c).total = Total({i \in K : c = "all" \/ rows[i].card = c})
    BY WalletTotal
  <2> QED BY <2>1, <2>2
<1>6. w = of
  BY <1>5
<1>7. FoldSet(LAMBDA c, s : s + Wallet(m, c).total, 0, C) = SumAt(w, C)
  <2> HIDE DEF C
  <2>1. \A g : Rec(w, C, g) <=> g = [s \in SUBSET C |-> IF s = {} THEN 0 ELSE g[s \ {Some(s)}] + Wallet(m, Some(s)).total]
    <3>1. \A s \in SUBSET C : s # {} => w[Some(s)] = Wallet(m, Some(s)).total
      BY DEF Some
    <3> HIDE DEF w
    <3> SUFFICES ASSUME NEW g PROVE
          [s \in SUBSET C |-> IF s = {} THEN 0 ELSE g[s \ {Some(s)}] + w[Some(s)]]
             = [s \in SUBSET C |-> IF s = {} THEN 0 ELSE g[s \ {Some(s)}] + Wallet(m, Some(s)).total]
      BY DEF Rec
    <3> QED BY <3>1
  <2>2. (CHOOSE g : Rec(w, C, g)) = (CHOOSE g : g = [s \in SUBSET C |-> IF s = {} THEN 0 ELSE g[s \ {Some(s)}] + Wallet(m, Some(s)).total])
    BY <2>1
  <2>3. FoldSet(LAMBDA c, s : s + Wallet(m, c).total, 0, C)
          = (CHOOSE g : g = [s \in SUBSET C |-> IF s = {} THEN 0 ELSE g[s \ {Some(s)}] + Wallet(m, Some(s)).total])[C]
    BY DEF FoldSet, MapThenFoldSet, Some
  <2> QED BY <2>2, <2>3, Unfold
<1>8. Total(K) = SumAt(of, C)
  <2> HIDE DEF K, C
  <2> QED BY <1>3, <1>4, TotalParts
<1> HIDE DEF w, of, K
<1> QED BY <1>1, <1>2, <1>6, <1>7, <1>8

-----------------------------------------------------------------------------
(* The pages of a ledger.                                                     *)

(* Which page of P a place is on. *)
LEMMA PageOfPlace ==
    ASSUME NEW P \in Nat \ {0}, NEW r \in Nat, NEW q \in Nat
    PROVE  r \div P = q <=> r \in q * P .. q * P + P - 1
<1> DEFINE m == q + 1
           x == r + 1
<1>1. (x - 1) \div P + 1 = m <=> x \in (m - 1) * P + 1 .. m * P
  BY MonthsApart
<1>2. x - 1 = r /\ m - 1 = q /\ m * P = q * P + P /\ q * P \in Int
  OBVIOUS
<1>3. r \div P \in Int
  BY Quotient
<1> QED BY <1>1, <1>2, <1>3

(* A finite set in a strict order is covered by its pages, none of them empty *)
(* or too long.                                                               *)
LEMMA PagesCover ==
    ASSUME NEW P \in Nat \ {0}, NEW n \in Nat, n # 0
    PROVE  LET N == (n + P - 1) \div P
           IN  /\ N \in Nat /\ N >= 1
               /\ \A r \in 0..n-1 : r \div P + 1 \in 1..N
               /\ \A c \in 1..N : (c - 1) * P \in 0..n-1
<1> DEFINE N == (n + P - 1) \div P
<1>1. N \in Int /\ P * N <= n + P - 1 /\ n + P - 1 < P * N + P
  BY Quotient
<1> HIDE DEF N
<1>2. P * N \in Int /\ N >= 1
  <2>1. ASSUME N <= 0 PROVE FALSE
    <3>1. P * N <= P * 0
      <4>1. CASE N = 0
        BY <4>1
      <4>2. CASE N < 0
        <5>1. P * N + P <= P * 0
          BY <1>1, <4>2, Mono
        <5> QED BY <1>1, <5>1
      <4> QED BY <1>1, <2>1, <4>1, <4>2
    <3> QED BY <1>1, <3>1
  <2> QED BY <1>1, <2>1
<1>3. ASSUME NEW r \in 0..n-1 PROVE r \div P + 1 \in 1..N
  <2> DEFINE q == r \div P
  <2>1. q \in Int /\ P * q <= r /\ r < P * q + P
    BY Quotient
  <2> HIDE DEF q
  <2>2. q < N
    <3> SUFFICES ASSUME N <= q PROVE FALSE
      BY <1>1, <2>1
    <3>1. P * N <= P * q
      <4>1. CASE N = q
        BY <1>1, <4>1
      <4>2. CASE N < q
        <5>1. P * N + P <= P * q
          BY <1>1, <2>1, <4>2, Mono
        <5> QED BY <1>1, <1>2, <2>1, <5>1
      <4> QED BY <1>1, <2>1, <4>1, <4>2
    <3> QED BY <1>1, <1>2, <2>1, <3>1
  <2>3. q >= 0
    <3> SUFFICES ASSUME q < 0 PROVE FALSE
      BY <2>1
    <3>1. P * q + P <= P * 0
      BY <2>1, Mono
    <3> QED BY <2>1, <3>1
  <2> QED BY <1>1, <2>1, <2>2, <2>3 DEF q
<1>4. ASSUME NEW c \in 1..N PROVE (c - 1) * P \in 0..n-1
  <2>1. c \in Int /\ c - 1 \in Nat /\ (c - 1) * P \in Nat /\ (c - 1) * P + P = P * c
    BY <1>1
  <2>2. P * c <= P * N
    <3>1. CASE c = N
      BY <3>1, <1>2
    <3>2. CASE c < N
      <4>1. P * c + P <= P * N
        BY <1>1, <2>1, <3>2, Mono
      <4> QED BY <1>1, <1>2, <2>1, <4>1
    <3> QED BY <1>1, <2>1, <3>1, <3>2
  <2> QED BY <1>1, <1>2, <2>1, <2>2
<1> QED BY <1>1, <1>2, <1>3, <1>4 DEF N

(* The order of the ledger is strict and leaves no two rows level.            *)
LEMMA LaterOrders ==
    ASSUME RowsTyped, NEW S \in SUBSET DOMAIN rows, \A i \in S : i[1] # "income"
    PROVE  /\ \A i \in S : ~Later(i, i)
           /\ \A i, j \in S : i # j => Later(i, j) \/ Later(j, i)
           /\ \A i, j, k \in S : Later(i, j) /\ Later(j, k) => Later(i, k)
<1>1. \A i \in S : i \in {"expense", "card"} \X Nat /\ i[1] \in {"expense", "card"} /\ i[2] \in Nat /\ rows[i].date \in Int
  BY DEF RowsTyped, Row, TableNames
<1>2. \A i, j \in S : i[1] = j[1] /\ i[2] = j[2] => i = j
  BY <1>1
<1> QED BY <1>1, <1>2 DEF Later

(* The pages of a ledger hold all of it, each a page full at most.            *)
LEMMA LedgerPages ==
    ASSUME BooksAssumption, RowsTyped, NEW keys \in SUBSET DOMAIN rows, \A i \in keys : i[1] # "income"
    PROVE  /\ keys = UNION {Page(keys, p) : p \in 1..PagesOf(keys)}
           /\ \A p \in 1..PagesOf(keys) + 1 : keys # {} => Page(keys, p) # {} /\ Cardinality(Page(keys, p)) <= PageSize
<1> DEFINE n == Cardinality(keys)
           N == PagesOf(keys)
           R == {e \in keys \X keys : Later(e[1], e[2])}
           f == [i \in keys |-> Cardinality(Below(keys, R, i))]
<1>1. IsFiniteSet(keys) /\ n \in Nat /\ PageSize \in Nat \ {0}
  BY FS_Subset, FS_CardinalityType DEF RowsTyped, BooksAssumption
<1>2. \A i, j \in keys : <<i, j>> \in R <=> Later(i, j)
  OBVIOUS
<1>3. CASE keys = {}
  <2>1. \A p : Page(keys, p) = {}
    BY <1>3 DEF Page
  <2> QED BY <1>3, <2>1
<1>4. CASE keys # {}
  <2>1. n # 0 /\ N = (n + PageSize - 1) \div PageSize
    BY <1>1, <1>4, FS_EmptySet DEF PagesOf
  <2>2. /\ \A i \in keys : f[i] \in 0..n-1
        /\ \A i, j \in keys : f[i] = f[j] => i = j
        /\ \A p \in 0..n-1 : \E i \in keys : f[i] = p
    <3>1. /\ \A i \in keys : <<i, i>> \notin R
          /\ \A i, j \in keys : i # j => <<i, j>> \in R \/ <<j, i>> \in R
          /\ \A i, j, k \in keys : <<i, j>> \in R /\ <<j, k>> \in R => <<i, k>> \in R
      <4> HIDE DEF R
      <4> QED BY <1>2, LaterOrders
    <3>2. f = [i \in keys |-> Cardinality(Below(keys, R, i))]
      OBVIOUS
    <3>3. IsFiniteSet(keys)
      BY <1>1
    <3> HIDE DEF R, f
    <3>4. \A g : g = [i \in keys |-> Cardinality(Below(keys, R, i))] =>
              /\ \A i \in keys : g[i] \in 0..Cardinality(keys)-1
              /\ \A i, j \in keys : g[i] = g[j] => i = j
              /\ \A p \in 0..Cardinality(keys)-1 : \E i \in keys : g[i] = p
      BY <3>1, <3>3, Ranks
    <3> QED BY <3>2, <3>4
  <2>3. \A i \in keys : f[i] = Cardinality({j \in keys : Later(j, i)})
    BY <1>2 DEF Below
  <2> HIDE DEF f, n, N, R
  <2>4. /\ N \in Nat /\ N >= 1
        /\ \A r \in 0..n-1 : r \div PageSize + 1 \in 1..N
        /\ \A c \in 1..N : (c - 1) * PageSize \in 0..n-1
    BY <1>1, <2>1, PagesCover
  <2> DEFINE at(c) == {i \in keys : f[i] \in (c - 1) * PageSize .. (c - 1) * PageSize + PageSize - 1}
  <2>5. ASSUME NEW p \in Nat PROVE Page(keys, p) = IF p < N THEN {i \in keys : f[i] \div PageSize = p - 1} ELSE {i \in keys : f[i] \div PageSize = N - 1}
    <3>1. PagesOf(keys) = N
      BY DEF N
    <3> QED BY <2>3, <3>1 DEF Page, ClampPage
  <2>6. ASSUME NEW c \in 1..N PROVE {i \in keys : f[i] \div PageSize = c - 1} = at(c)
    <3>1. c - 1 \in Nat
      BY <2>4
    <3>2. ASSUME NEW i \in keys PROVE f[i] \div PageSize = c - 1 <=> f[i] \in (c - 1) * PageSize .. (c - 1) * PageSize + PageSize - 1
      <4>1. f[i] \in Nat
        BY <1>1, <2>2
      <4> QED BY <1>1, <3>1, <4>1, PageOfPlace
    <3> QED BY <3>2
  <2>7. ASSUME NEW c \in 1..N PROVE at(c) # {} /\ Cardinality(at(c)) <= PageSize
    <3>1. c - 1 \in Nat /\ (c - 1) * PageSize \in 0..n-1
      BY <2>4
    <3>2. PICK a : a = (c - 1) * PageSize
      OBVIOUS
    <3>3. a \in Nat /\ a + PageSize - 1 \in Int
      BY <1>1, <3>1, <3>2
    <3>4. \E i \in keys : f[i] = a
      BY <2>2, <3>1, <3>2
    <3>5. at(c) = {i \in keys : f[i] \in a .. a + PageSize - 1}
      BY <3>2
    <3>6. a \in a .. a + PageSize - 1
      BY <1>1, <3>3
    <3> DEFINE K == at(c)
               g == [i \in K |-> f[i]]
               I == a .. a + PageSize - 1
    <3>7. IsFiniteSet(I) /\ Cardinality(I) = PageSize
      <4>1. IsFiniteSet(I) /\ Cardinality(I) = IF a > a + PageSize - 1 THEN 0 ELSE (a + PageSize - 1) - a + 1
        BY <3>3, FS_Interval
      <4> QED BY <1>1, <3>3, <4>1
    <3> HIDE DEF at
    <3>8. g \in Injection(K, I)
      <4>1. g \in [K -> I]
        BY <3>5
      <4>2. \A i, j \in K : g[i] = g[j] => i = j
        BY <2>2, <3>5
      <4> HIDE DEF g, K
      <4> QED BY <4>1, <4>2 DEF Injection, IsInjective
    <3>9. Cardinality(K) <= Cardinality(I)
      <4> HIDE DEF g, K, I
      <4> QED BY <3>7, <3>8, FS_Injection
    <3> QED BY <3>4, <3>5, <3>6, <3>7, <3>9
  <2>8. ASSUME NEW p \in 1..N+1 PROVE \E c \in 1..N : Page(keys, p) = at(c)
    <3>1. p \in Nat /\ (p < N => p \in 1..N) /\ N \in 1..N
      BY <2>4
    <3> HIDE DEF at
    <3>2. CASE p < N
      BY <2>5, <2>6, <3>1, <3>2
    <3>3. CASE ~(p < N)
      BY <2>5, <2>6, <3>1, <3>3
    <3> QED BY <3>2, <3>3
  <2>9. ASSUME NEW i \in keys PROVE \E p \in 1..N : i \in Page(keys, p)
    <3> DEFINE p == f[i] \div PageSize + 1
    <3>1. p \in 1..N /\ f[i] \div PageSize = p - 1
      <4>1. f[i] \div PageSize \in Int
        BY <1>1, <2>2, Quotient
      <4> QED BY <2>2, <2>4, <4>1
    <3> HIDE DEF p
    <3>2. p \in Nat /\ (~(p < N) => p = N)
      BY <2>4, <3>1
    <3>3. Page(keys, p) = {j \in keys : f[j] \div PageSize = p - 1}
      BY <2>5, <3>2
    <3> QED BY <3>1, <3>3
  <2>10. \A p : Page(keys, p) \subseteq keys
    BY DEF Page
  <2> HIDE DEF at
  <2>11. keys = UNION {Page(keys, p) : p \in 1..N}
    BY <2>9, <2>10
  <2>12. \A p \in 1..N+1 : Page(keys, p) # {} /\ Cardinality(Page(keys, p)) <= PageSize
    BY <2>7, <2>8
  <2> QED BY <2>11, <2>12 DEF N
<1> QED BY <1>3, <1>4

(* Every screen of a month tells the same, whatever rows there are.           *)
THEOREM MonthsAgree ==
    ASSUME BooksAssumption, RowsTyped, MeaningsKept, NEW m \in 1..Months
    PROVE  SameMonth(m)
<1> DEFINE whole == Ledger(m, Whole)
<1>1. whole \in SUBSET DOMAIN rows /\ \A i \in whole : i[1] # "income"
  BY WholeLedger, MonthRows
<1>2. /\ whole = UNION {Page(whole, p) : p \in 1..PagesOf(whole)}
      /\ \A p \in 1..PagesOf(whole) + 1 : whole # {} => Page(whole, p) # {} /\ Cardinality(Page(whole, p)) <= PageSize
  <2> HIDE DEF whole
  <2> QED BY <1>1, LedgerPages
<1>3. MonthTotals(m).expense = FoldSet(LAMBDA c, s : s + SpentByCategory(m)[c], 0, Categories \cup {None})
  BY ByCategory
<1>4. /\ MonthTotals(m).expense = Cumulative(m, m * Days) /\ MonthTotals(m).expense = Total(whole)
      /\ MonthTotals(m).income = Total(IncomeLedger(m, Whole))
  <2>1. MonthTotals(m).income = Total(Incomes(m))
    BY DEF MonthTotals
  <2> QED BY <2>1, CurveEnds, WholeLedger
<1>5. MonthTotals(m).expense
          = FoldSet(LAMBDA c, s : s + Total(Ledger(m, [Whole EXCEPT !.category = {c}])), 0, categories \cup {None})
  BY LedgersOfCategories
<1>6. \A d \in DaysOf(m) : Total(whole) = Total(Ledger(m, [Whole EXCEPT !.to = d])) + Total(Ledger(m, [Whole EXCEPT !.from = d + 1]))
  BY LedgersOfDays
<1>7. /\ MonthTotals(m).credit = Wallet(m, "all").total
      /\ MonthTotals(m).credit = FoldSet(LAMBDA c, s : s + Wallet(m, c).total, 0, Cards \cup {None})
  BY WalletsOfCards
<1>8. Trend(m, 1)[1] = MonthTotals(m)
  <2>1. m - 1 + 1 = m /\ 1 \in 1..1
    OBVIOUS
  <2> QED BY <2>1 DEF Trend
<1> HIDE DEF whole
<1>9. SameMonth(m) <=>
        /\ MonthTotals(m).expense = FoldSet(LAMBDA c, s : s + SpentByCategory(m)[c], 0, Categories \cup {None})
        /\ MonthTotals(m).expense = Cumulative(m, m * Days) /\ MonthTotals(m).expense = Total(whole)
        /\ MonthTotals(m).expense = FoldSet(LAMBDA c, s : s + Total(Ledger(m, [Whole EXCEPT !.category = {c}])), 0, categories \cup {None})
        /\ \A d \in DaysOf(m) : Total(whole) = Total(Ledger(m, [Whole EXCEPT !.to = d])) + Total(Ledger(m, [Whole EXCEPT !.from = d + 1]))
        /\ whole = UNION {Page(whole, p) : p \in 1..PagesOf(whole)}
        /\ \A p \in 1..PagesOf(whole) + 1 : whole # {} => Page(whole, p) # {} /\ Cardinality(Page(whole, p)) <= PageSize
        /\ MonthTotals(m).income = Total(IncomeLedger(m, Whole))
        /\ MonthTotals(m).credit = Wallet(m, "all").total
        /\ MonthTotals(m).credit = FoldSet(LAMBDA c, s : s + Wallet(m, c).total, 0, Cards \cup {None})
        /\ Trend(m, 1)[1] = MonthTotals(m)
  BY DEF SameMonth, whole
<1> QED BY <1>2, <1>3, <1>4, <1>5, <1>6, <1>7, <1>8, <1>9

(* A sum of what is taken away.                                               *)
LEMMA SumNegated ==
    ASSUME NEW w, NEW v, NEW S, IsFiniteSet(S), Weights(w, S), \A x \in S : v[x] = -w[x]
    PROVE  SumAt(v, S) = -SumAt(w, S)
<1> DEFINE P == {T \in SUBSET S : SumAt(v, T) = -SumAt(w, T)}
<1>1. {} \in P
  BY SumNone
<1>2. ASSUME NEW T \in SUBSET S, NEW x \in S \ T, T \in P PROVE T \cup {x} \in P
  <2>1. IsFiniteSet(T) /\ Weights(w, T \cup {x}) /\ Weights(v, T \cup {x}) /\ w[x] \in Int /\ v[x] = -w[x] /\ T \cup {x} \in SUBSET S
    BY FS_Subset DEF Weights
  <2>2. SumAt(w, T \cup {x}) = SumAt(w, T) + w[x] /\ SumAt(v, T \cup {x}) = SumAt(v, T) + v[x]
    BY <2>1, SumOn
  <2>3. SumAt(w, T) \in Int
    BY SumInt
  <2>4. SumAt(v, T) = -SumAt(w, T)
    BY <1>2
  <2>5. SumAt(v, T \cup {x}) = -SumAt(w, T \cup {x})
    BY <2>1, <2>2, <2>3, <2>4
  <2> QED BY <2>1, <2>5
<1> HIDE DEF P
<1>3. S \in P
  BY <1>1, <1>2, OneMore
<1> QED BY <1>3 DEF P

(* The places of rows of one table, by their ids. *)
Earlier(S, i) == Cardinality({j \in S : j[2] < i[2]})

(* No two rows of a table are at one place.                                   *)
LEMMA Places ==
    ASSUME RowsTyped, NEW S \in SUBSET DOMAIN rows, NEW table, \A i \in S : i[1] = table
    PROVE  /\ IsFiniteSet(S) /\ Cardinality(S) \in Nat
           /\ \A i \in S : Earlier(S, i) \in 0..Cardinality(S)-1
           /\ \A i, j \in S : Earlier(S, i) = Earlier(S, j) => i = j
<1> DEFINE R == {e \in S \X S : e[1][2] < e[2][2]}
           f == [i \in S |-> Cardinality(Below(S, R, i))]
<1>1. IsFiniteSet(S) /\ Cardinality(S) \in Nat
  BY FS_Subset, FS_CardinalityType DEF RowsTyped
<1>2. \A i, j \in S : <<i, j>> \in R <=> i[2] < j[2]
  OBVIOUS
<1>3. \A i \in S : i[2] \in Nat
  BY DEF RowsTyped
<1>4. \A i, j \in S : i[2] = j[2] => i = j
  BY DEF RowsTyped
<1>5. \A i \in S : f[i] = Earlier(S, i)
  BY <1>2 DEF Below, Earlier
<1>6. f = [i \in S |-> Cardinality(Below(S, R, i))]
  OBVIOUS
<1> HIDE DEF R, f
<1>7. /\ \A i \in S : <<i, i>> \notin R
      /\ \A i, j \in S : i # j => <<i, j>> \in R \/ <<j, i>> \in R
      /\ \A i, j, k \in S : <<i, j>> \in R /\ <<j, k>> \in R => <<i, k>> \in R
  BY <1>2, <1>3, <1>4
<1>8. \A g : g = [i \in S |-> Cardinality(Below(S, R, i))] =>
              /\ \A i \in S : g[i] \in 0..Cardinality(S)-1
              /\ \A i, j \in S : g[i] = g[j] => i = j
              /\ \A p \in 0..Cardinality(S)-1 : \E i \in S : g[i] = p
  BY <1>1, <1>7, Ranks
<1>9. /\ \A i \in S : f[i] \in 0..Cardinality(S)-1
      /\ \A i, j \in S : f[i] = f[j] => i = j
  BY <1>6, <1>8
<1> QED BY <1>1, <1>5, <1>9

(* What is taken behind the rows skipped is no more than is left.             *)
LEMMA TakenFrom ==
    ASSUME RowsTyped, NEW S \in SUBSET DOMAIN rows, NEW table, \A i \in S : i[1] = table,
           NEW skip \in Nat, NEW take, skip < Cardinality(S)
    PROVE  /\ Taken(S, skip, take) \in SUBSET S /\ IsFiniteSet(Taken(S, skip, take))
           /\ Cardinality(Taken(S, skip, take)) <= Cardinality(S) - skip
<1> DEFINE T == Taken(S, skip, take)
           n == Cardinality(S)
           g == [i \in T |-> Earlier(S, i)]
<1>1. T \in SUBSET S /\ \A i \in T : skip <= Earlier(S, i)
  BY DEF Taken, Earlier
<1>2. /\ IsFiniteSet(S) /\ n \in Nat
      /\ \A i \in S : Earlier(S, i) \in 0..n-1
      /\ \A i, j \in S : Earlier(S, i) = Earlier(S, j) => i = j
  BY Places
<1> HIDE DEF T, n
<1>3. IsFiniteSet(T)
  BY <1>1, <1>2, FS_Subset
<1>4. g \in Injection(T, skip..n-1)
  <2>1. g \in [T -> skip..n-1]
    BY <1>1, <1>2
  <2>2. \A i, j \in T : g[i] = g[j] => i = j
    BY <1>1, <1>2
  <2> HIDE DEF g
  <2> QED BY <2>1, <2>2 DEF Injection, IsInjective
<1>5. IsFiniteSet(skip..n-1) /\ Cardinality(skip..n-1) = n - skip
  <2>1. n - 1 \in Int /\ skip \in Int /\ skip < n
    BY <1>2 DEF n
  <2>2. IsFiniteSet(skip..n-1) /\ Cardinality(skip..n-1) = IF skip > n - 1 THEN 0 ELSE n - 1 - skip + 1
    BY <2>1, FS_Interval
  <2> QED BY <1>2, <2>1, <2>2
<1> HIDE DEF g
<1>6. Cardinality(T) <= n - skip
  BY <1>4, <1>5, FS_Injection
<1> QED BY <1>1, <1>3, <1>6 DEF T, n

-----------------------------------------------------------------------------
(* A figure explained page by page.                                           *)

(* The walk along the sources: how far it still has to skip, and what it took, *)
(* once some rows are behind it.                                               *)
Step(acc, ids) ==
    IF acc.skip >= Cardinality(ids) THEN [acc EXCEPT !.skip = @ - Cardinality(ids)]
    ELSE [skip |-> 0, taken |-> acc.taken \cup Taken(ids, acc.skip, PageSize - Cardinality(acc.taken))]
Walk(acc, skip, behind) ==
    /\ acc \in [skip : Nat, taken : SUBSET DOMAIN rows]
    /\ acc.skip = IF behind < skip THEN skip - behind ELSE 0
    /\ Cardinality(acc.taken) <= IF skip < behind THEN behind - skip ELSE 0

(* One source further.                                                        *)
LEMMA StepWalks ==
    ASSUME BooksAssumption, RowsTyped, NEW S \in SUBSET DOMAIN rows, NEW table, \A i \in S : i[1] = table,
           NEW skip \in Nat, NEW behind \in Nat, NEW acc, Walk(acc, skip, behind)
    PROVE  /\ Walk(Step(acc, S), skip, behind + Cardinality(S))
           /\ acc.taken \subseteq Step(acc, S).taken /\ Step(acc, S).taken \subseteq acc.taken \cup S
           /\ \A i \in S : behind + Earlier(S, i) \in skip..skip + PageSize - 1 => i \in Step(acc, S).taken
<1> DEFINE n == Cardinality(S)
           t == acc.taken
           more == Taken(S, acc.skip, PageSize - Cardinality(t))
<1>1. /\ IsFiniteSet(S) /\ n \in Nat /\ PageSize \in Nat \ {0}
      /\ \A i \in S : Earlier(S, i) \in 0..n-1
  BY Places DEF BooksAssumption
<1>2. acc.skip \in Nat /\ t \in SUBSET DOMAIN rows /\ IsFiniteSet(t) /\ Cardinality(t) \in Nat
  BY FS_Subset, FS_CardinalityType DEF Walk, RowsTyped
<1>3. CASE acc.skip >= n
  <2>1. Step(acc, S) = [acc EXCEPT !.skip = @ - n]
    BY <1>3 DEF Step
  <2>2. /\ Step(acc, S) \in [skip : Nat, taken : SUBSET DOMAIN rows]
        /\ Step(acc, S).skip = acc.skip - n /\ Step(acc, S).taken = t
    <3> HIDE DEF n
    <3> QED BY <1>1, <1>2, <1>3, <2>1 DEF Walk
  <2> HIDE DEF n
  <2>3. Walk(Step(acc, S), skip, behind + n)
    <3> HIDE DEF t
    <3>1. /\ acc.skip = IF behind < skip THEN skip - behind ELSE 0
          /\ Cardinality(t) <= IF skip < behind THEN behind - skip ELSE 0
      BY DEF Walk, t
    <3>2. Step(acc, S).skip = IF behind + n < skip THEN skip - (behind + n) ELSE 0
      BY <1>1, <1>2, <1>3, <2>2, <3>1
    <3>3. Cardinality(t) <= IF skip < behind + n THEN behind + n - skip ELSE 0
      BY <1>1, <1>2, <3>1
    <3>4. Cardinality(Step(acc, S).taken) = Cardinality(t)
      BY <2>2
    <3>5. Cardinality(Step(acc, S).taken) <= IF skip < behind + n THEN behind + n - skip ELSE 0
      BY <3>3, <3>4
    <3>6. Step(acc, S) \in [skip : Nat, taken : SUBSET DOMAIN rows]
      BY <2>2
    <3> QED BY <1>1, <3>2, <3>5, <3>6 DEF Walk
  <2>4. ASSUME NEW i \in S, behind + Earlier(S, i) \in skip..skip + PageSize - 1 PROVE FALSE
    <3>1. acc.skip = IF behind < skip THEN skip - behind ELSE 0
      BY DEF Walk
    <3>2. Earlier(S, i) \in 0..n-1
      BY <1>1
    <3> QED BY <1>1, <1>2, <1>3, <2>4, <3>1, <3>2
  <2> QED BY <2>2, <2>3, <2>4 DEF n
<1>4. CASE ~(acc.skip >= n)
  <2>1. Step(acc, S) = [skip |-> 0, taken |-> t \cup more]
    BY <1>4 DEF Step
  <2>2. more \in SUBSET S /\ IsFiniteSet(more) /\ Cardinality(more) \in Nat /\ Cardinality(more) <= n - acc.skip
    <3>1. acc.skip < Cardinality(S)
      BY <1>1, <1>2, <1>4
    <3> QED BY <1>2, <3>1, TakenFrom, FS_CardinalityType
  <2>3. Step(acc, S).skip = 0 /\ Step(acc, S).taken = t \cup more
    BY <2>1
  <2>4. t \cup more \in SUBSET DOMAIN rows /\ Cardinality(t \cup more) <= Cardinality(t) + Cardinality(more)
    <3> HIDE DEF t, more
    <3>1. /\ Cardinality(t \cup more) = Cardinality(t) + Cardinality(more) - Cardinality(t \cap more)
          /\ Cardinality(t \cap more) \in Nat
      BY <1>2, <2>2, FS_Union, FS_Intersection, FS_CardinalityType
    <3> QED BY <1>2, <2>2, <3>1
  <2>5. /\ acc.skip = IF behind < skip THEN skip - behind ELSE 0
        /\ Cardinality(t) <= IF skip < behind THEN behind - skip ELSE 0
    BY DEF Walk
  <2>6. Cardinality(t \cup more) \in Nat
    <3> HIDE DEF t, more
    <3> QED BY <1>2, <2>2, FS_Union, FS_CardinalityType
  <2>7. ASSUME NEW i \in S, behind + Earlier(S, i) \in skip..skip + PageSize - 1 PROVE i \in more
    <3> DEFINE r == Earlier(S, i)
    <3>1. r \in 0..n-1
      BY <1>1
    <3> HIDE DEF r, n, t
    <3>2. acc.skip <= r /\ r < acc.skip + (PageSize - Cardinality(t))
      BY <1>1, <1>2, <1>4, <2>5, <2>7, <3>1 DEF r
    <3> QED BY <3>2 DEF r, t, Taken, Earlier
  <2> HIDE DEF more, n, t
  <2>8. Step(acc, S).skip = IF behind + n < skip THEN skip - (behind + n) ELSE 0
    BY <1>1, <1>2, <1>4, <2>3, <2>5
  <2>9. Cardinality(t \cup more) <= IF skip < behind + n THEN behind + n - skip ELSE 0
    BY <1>1, <1>2, <1>4, <2>2, <2>4, <2>5, <2>6
  <2>10. Walk(Step(acc, S), skip, behind + n)
    <3>1. Cardinality(Step(acc, S).taken) = Cardinality(t \cup more)
      BY <2>3
    <3>2. PICK T : T = t \cup more
      OBVIOUS
    <3>3. Step(acc, S) \in [skip : Nat, taken : SUBSET DOMAIN rows]
      BY <2>1, <2>4, <3>2
    <3>4. Cardinality(Step(acc, S).taken) <= IF skip < behind + n THEN behind + n - skip ELSE 0
      BY <2>9, <3>1
    <3> QED BY <1>1, <2>8, <3>3, <3>4 DEF Walk
  <2> QED BY <2>2, <2>3, <2>7, <2>10 DEF n, t
<1> QED BY <1>3, <1>4

Behind(name, m, i) ==
    LET s == Sources(name, m)
    IN IF i \in s[1] THEN Earlier(s[1], i) ELSE IF i \in s[2] THEN Cardinality(s[1]) + Earlier(s[2], i)
       ELSE Cardinality(s[1]) + Cardinality(s[2]) + Earlier(s[3], i)
Explaining(name, m) == LET s == Sources(name, m) IN s[1] \cup s[2] \cup s[3]

(* The sources of a figure are rows of three tables.                          *)
LEMMA SourceRows ==
    ASSUME BooksAssumption, RowsTyped, NEW m, NEW name
    PROVE  LET s == Sources(name, m) IN
           /\ s[1] \in SUBSET DOMAIN rows /\ s[2] \in SUBSET DOMAIN rows /\ s[3] \in SUBSET DOMAIN rows
           /\ \A i \in s[1] : i[1] = "expense"
           /\ \A i \in s[2] : i[1] = "card"
           /\ \A i \in s[3] : i[1] = "income"
  BY MonthRows DEF Sources

(* A row is on the page of its place behind the sources before it.            *)
LEMMA OnItsPage ==
    ASSUME BooksAssumption, RowsTyped, NEW m, NEW name, NEW p \in Nat \ {0}
    PROVE  /\ Components(name, m, p) \subseteq Explaining(name, m)
           /\ \A i \in Explaining(name, m) :
                Behind(name, m, i) \in (p - 1) * PageSize .. (p - 1) * PageSize + PageSize - 1 => i \in Components(name, m, p)
<1>1. PICK A, B, C : A = Sources(name, m)[1] /\ B = Sources(name, m)[2] /\ C = Sources(name, m)[3]
  OBVIOUS
<1>2. PICK skip \in Nat : skip = (p - 1) * PageSize
  <2>1. p - 1 \in Nat /\ PageSize \in Nat
    BY DEF BooksAssumption
  <2> QED BY <2>1
<1>3. PICK a0 : a0 = [skip |-> skip, taken |-> {}]
  OBVIOUS
<1>4. PICK a1, a2, a3 : a1 = Step(a0, A) /\ a2 = Step(a1, B) /\ a3 = Step(a2, C)
  OBVIOUS
<1>5. Components(name, m, p) = a3.taken
  BY <1>1, <1>2, <1>3, <1>4 DEF Components, Step
<1>6. /\ A \in SUBSET DOMAIN rows /\ B \in SUBSET DOMAIN rows /\ C \in SUBSET DOMAIN rows
      /\ \A i \in A : i[1] = "expense"
      /\ \A i \in B : i[1] = "card"
      /\ \A i \in C : i[1] = "income"
  BY <1>1, SourceRows
<1>7. Walk(a0, skip, 0)
  BY <1>3, FS_EmptySet DEF Walk
<1>8. Cardinality(A) \in Nat /\ Cardinality(B) \in Nat
  BY <1>6, FS_Subset, FS_CardinalityType DEF RowsTyped
<1>9. PICK x, y \in Nat : x = Cardinality(A) /\ y = Cardinality(B)
  BY <1>8
<1>10. /\ Walk(a1, skip, 0 + Cardinality(A))
       /\ a0.taken \subseteq a1.taken /\ a1.taken \subseteq a0.taken \cup A
       /\ \A i \in A : 0 + Earlier(A, i) \in skip..skip + PageSize - 1 => i \in a1.taken
  BY <1>4, <1>6, <1>7, StepWalks
<1>11. Walk(a1, skip, x)
  BY <1>9, <1>10
<1>12. /\ Walk(a2, skip, x + Cardinality(B))
       /\ a1.taken \subseteq a2.taken /\ a2.taken \subseteq a1.taken \cup B
       /\ \A i \in B : x + Earlier(B, i) \in skip..skip + PageSize - 1 => i \in a2.taken
  BY <1>4, <1>6, <1>11, StepWalks
<1>13. Walk(a2, skip, x + y) /\ x + y \in Nat
  BY <1>9, <1>12
<1>14. /\ a2.taken \subseteq a3.taken /\ a3.taken \subseteq a2.taken \cup C
       /\ \A i \in C : x + y + Earlier(C, i) \in skip..skip + PageSize - 1 => i \in a3.taken
  BY <1>4, <1>6, <1>13, StepWalks
<1>15. Explaining(name, m) = A \cup B \cup C
  BY <1>1 DEF Explaining
<1>16. ASSUME NEW i
       PROVE  Behind(name, m, i) = IF i \in A THEN Earlier(A, i) ELSE IF i \in B THEN x + Earlier(B, i) ELSE x + y + Earlier(C, i)
  BY <1>1, <1>9 DEF Behind
<1>17. a0.taken = {}
  BY <1>3
<1>18. \A i \in A : Earlier(A, i) \in Int
  BY <1>6, Places
<1>19. ASSUME NEW i \in A \cup B \cup C, Behind(name, m, i) \in skip .. skip + PageSize - 1 PROVE i \in a3.taken
  <2>1. CASE i \in A
    BY <1>10, <1>12, <1>14, <1>16, <1>18, <1>19, <2>1
  <2>2. CASE i \notin A /\ i \in B
    BY <1>12, <1>14, <1>16, <1>19, <2>2
  <2>3. CASE i \notin A /\ i \notin B
    BY <1>14, <1>16, <1>19, <2>3
  <2> QED BY <2>1, <2>2, <2>3
<1>20. a3.taken \subseteq A \cup B \cup C
  BY <1>10, <1>12, <1>14, <1>17
<1> QED BY <1>2, <1>5, <1>15, <1>19, <1>20

(* The pages of a figure hold each of its rows, and no others. *)
LEMMA AllPages ==
    ASSUME BooksAssumption, RowsTyped, NEW m, NEW name, NEW n, n = Metric(name, m, 1).total
    PROVE  /\ UNION {Components(name, m, p) : p \in Pages(n)} = Explaining(name, m)
           /\ n = Cardinality(Explaining(name, m)) /\ IsFiniteSet(Explaining(name, m)) /\ n \in Nat
<1>1. PICK A, B, C : A = Sources(name, m)[1] /\ B = Sources(name, m)[2] /\ C = Sources(name, m)[3]
  OBVIOUS
<1>2. /\ A \in SUBSET DOMAIN rows /\ B \in SUBSET DOMAIN rows /\ C \in SUBSET DOMAIN rows
      /\ \A i \in A : i[1] = "expense"
      /\ \A i \in B : i[1] = "card"
      /\ \A i \in C : i[1] = "income"
  BY <1>1, SourceRows
<1>3. /\ IsFiniteSet(A) /\ Cardinality(A) \in Nat /\ \A i \in A : Earlier(A, i) \in 0..Cardinality(A)-1
      /\ IsFiniteSet(B) /\ Cardinality(B) \in Nat /\ \A i \in B : Earlier(B, i) \in 0..Cardinality(B)-1
      /\ IsFiniteSet(C) /\ Cardinality(C) \in Nat /\ \A i \in C : Earlier(C, i) \in 0..Cardinality(C)-1
  BY <1>2, Places
<1>4. n = Cardinality(A) + Cardinality(B) + Cardinality(C)
  BY <1>1 DEF Metric
<1>5. PICK whole : whole = Explaining(name, m)
  OBVIOUS
<1>6. whole = A \cup B \cup C
  BY <1>1, <1>5 DEF Explaining
<1>7. IsFiniteSet(whole) /\ Cardinality(whole) = n /\ n \in Nat
  <2>1. A \cap B = {} /\ (A \cup B) \cap C = {}
    BY <1>2
  <2>2. IsFiniteSet(A \cup B) /\ Cardinality(A \cup B) = Cardinality(A) + Cardinality(B) - Cardinality(A \cap B)
    BY <1>3, FS_Union
  <2>3. IsFiniteSet((A \cup B) \cup C)
        /\ Cardinality((A \cup B) \cup C) = Cardinality(A \cup B) + Cardinality(C) - Cardinality((A \cup B) \cap C)
    BY <1>3, <2>2, FS_Union
  <2>4. Cardinality(A \cap B) = 0 /\ Cardinality((A \cup B) \cap C) = 0
    BY <2>1, FS_EmptySet
  <2>5. Cardinality(A \cup B) = Cardinality(A) + Cardinality(B)
    BY <1>3, <2>2, <2>4
  <2>6. Cardinality((A \cup B) \cup C) = n
    BY <1>3, <1>4, <2>3, <2>4, <2>5
  <2> QED BY <1>3, <1>4, <1>6, <2>3, <2>6
<1>8. ASSUME NEW i \in whole PROVE \E p \in Pages(n) : i \in Components(name, m, p)
  <2>1. PICK r : r = Behind(name, m, i)
    OBVIOUS
  <2>2. r = IF i \in A THEN Earlier(A, i) ELSE IF i \in B THEN Cardinality(A) + Earlier(B, i)
            ELSE Cardinality(A) + Cardinality(B) + Earlier(C, i)
    BY <1>1, <2>1 DEF Behind
  <2>3. r \in 0..n-1
    BY <1>3, <1>4, <1>6, <1>8, <2>2
  <2>4. PageSize \in Nat \ {0} /\ n # 0
    BY <1>7, <2>3 DEF BooksAssumption
  <2>5. PICK q : q = r \div PageSize
    OBVIOUS
  <2>6. Pages(n) = 1..((n + PageSize - 1) \div PageSize) /\ q + 1 \in Pages(n)
    <3>1. \A x \in 0..n-1 : x \div PageSize + 1 \in 1..((n + PageSize - 1) \div PageSize)
      BY <1>7, <2>4, PagesCover
    <3> QED BY <2>3, <2>4, <2>5, <3>1 DEF Pages
  <2>7. (n + PageSize - 1) \div PageSize \in Int /\ q \in Int
    BY <1>7, <2>3, <2>4, <2>5, Quotient
  <2>8. q \in Nat /\ q + 1 \in Nat \ {0} /\ q + 1 - 1 = q
    BY <2>6, <2>7
  <2>9. r \in q * PageSize .. q * PageSize + PageSize - 1
    <3>1. r \in Nat
      BY <1>7, <2>3
    <3> QED BY <2>4, <2>5, <2>8, <3>1, PageOfPlace
  <2>10. Behind(name, m, i) \in (q + 1 - 1) * PageSize .. (q + 1 - 1) * PageSize + PageSize - 1
    BY <2>1, <2>8, <2>9
  <2>11. PICK p : p = q + 1
    OBVIOUS
  <2>12. p \in Nat \ {0} /\ Behind(name, m, i) \in (p - 1) * PageSize .. (p - 1) * PageSize + PageSize - 1
    BY <2>8, <2>10, <2>11
  <2>13. i \in Components(name, m, p)
    BY <1>5, <1>8, <2>12, OnItsPage
  <2> QED BY <2>6, <2>11, <2>13
<1>9. \A p \in Pages(n) : Components(name, m, p) \subseteq whole
  <2> SUFFICES ASSUME NEW p \in Pages(n) PROVE Components(name, m, p) \subseteq whole
    OBVIOUS
  <2>1. p \in Nat \ {0}
    BY DEF Pages
  <2> QED BY <1>5, <2>1, OnItsPage
<1>10. UNION {Components(name, m, p) : p \in Pages(n)} = whole
  BY <1>8, <1>9
<1> QED BY <1>5, <1>7, <1>10

(* What a figure's rows tell, each with its sign. *)
Terms(name) == [i \in DOMAIN rows |-> Signed(name, i)]

(* The value of a figure is the sum of the signed rows that explain it.       *)
LEMMA ValueOf ==
    ASSUME BooksAssumption, RowsTyped, NEW m, NEW name \in Names
    PROVE  Metric(name, m, 1).value = SumAt(Terms(name), Explaining(name, m)) /\ Weights(Terms(name), DOMAIN rows)
<1> DEFINE E == Expenses(m)
           K == CreditIn(m)
           I == Incomes(m)
           w == Terms(name)
<1>1. /\ E \in SUBSET DOMAIN rows /\ K \in SUBSET DOMAIN rows /\ I \in SUBSET DOMAIN rows
      /\ E \cap K = {} /\ (E \cup K) \cap I = {} /\ E \cup K \in SUBSET DOMAIN rows
      /\ \A i \in E \cup K : i[1] # "income"
      /\ \A i \in I : i[1] = "income"
  BY MonthRows
<1>2. Weights(w, DOMAIN rows)
  BY DEF Weights, Terms, Signed, RowsTyped, Row
<1>3. \A S \in SUBSET DOMAIN rows : Total(S) = SumAt(Weight, S) /\ IsFiniteSet(S) /\ Weights(Weight, S) /\ Weights(w, S)
  <2>1. \A S \in SUBSET DOMAIN rows : Weights(w, S)
    BY <1>2 DEF Weights
  <2> QED BY <2>1, TotalIs
<1>4. \A i \in DOMAIN rows : w[i] = IF name = "surplus" /\ i[1] # "income" THEN -Weight[i] ELSE Weight[i]
  BY DEF Terms, Signed, Weight
<1>5. MonthTotals(m).income = Total(I) /\ MonthTotals(m).expense = Total(E) + Total(K)
      /\ MonthTotals(m).balance = Total(I) - (Total(E) + Total(K))
  BY DEF MonthTotals
<1>6. Total(E \cup K) = Total(E) + Total(K) /\ Total(I) \in Int /\ Total(E \cup K) \in Int
  BY <1>1, TotalBoth, TotalInt
<1> HIDE DEF w, E, K, I
<1>7. CASE name = "income"
  <2>1. Explaining(name, m) = I /\ Metric(name, m, 1).value = Total(I)
    BY <1>5, <1>7 DEF Explaining, Sources, Metric, I
  <2>2. \A i \in I : w[i] = Weight[i]
    BY <1>1, <1>4, <1>7
  <2>3. SumAt(w, I) = SumAt(Weight, I)
    BY <1>1, <1>3, <2>2, SumAlike
  <2> QED BY <1>1, <1>2, <1>3, <2>1, <2>3 DEF w
<1>8. CASE name = "expense"
  <2>1. Explaining(name, m) = E \cup K /\ Metric(name, m, 1).value = Total(E \cup K)
    BY <1>5, <1>6, <1>8 DEF Explaining, Sources, Metric, E, K
  <2>2. \A i \in E \cup K : w[i] = Weight[i]
    BY <1>1, <1>4, <1>8
  <2>3. SumAt(w, E \cup K) = SumAt(Weight, E \cup K)
    BY <1>1, <1>3, <2>2, SumAlike
  <2> QED BY <1>1, <1>2, <1>3, <2>1, <2>3 DEF w
<1>9. CASE name = "surplus"
  <2>1. Explaining(name, m) = (E \cup K) \cup I /\ Metric(name, m, 1).value = Total(I) - Total(E \cup K)
    BY <1>5, <1>6, <1>9 DEF Explaining, Sources, Metric, E, K, I
  <2>2. (\A i \in E \cup K : w[i] = -Weight[i]) /\ \A i \in I : w[i] = Weight[i]
    BY <1>1, <1>4, <1>9
  <2>3. SumAt(w, I) = SumAt(Weight, I) /\ SumAt(w, E \cup K) = -SumAt(Weight, E \cup K)
    BY <1>1, <1>3, <2>2, SumAlike, SumNegated
  <2>4. IsFiniteSet(E \cup K) /\ IsFiniteSet(I) /\ Weights(w, (E \cup K) \cup I)
    BY <1>1, <1>3
  <2>5. SumAt(w, (E \cup K) \cup I) = SumAt(w, E \cup K) + SumAt(w, I)
    BY <1>1, <2>4, SumBoth
  <2>6. SumAt(w, (E \cup K) \cup I) = Total(I) - Total(E \cup K)
    BY <1>1, <1>3, <1>6, <2>3, <2>5
  <2> QED BY <1>2, <2>1, <2>6 DEF w
<1> QED BY <1>7, <1>8, <1>9 DEF Names

(* What a page lists is added up by its second part.                          *)
LEMMA PartsAdded ==
    ASSUME NEW parts, IsFiniteSet(parts)
    PROVE  FoldSet(LAMBDA c, s : s + c[2], 0, parts) = SumAt([c \in parts |-> c[2]], parts)
<1> DEFINE w == [c \in parts |-> c[2]]
<1>1. \A g : Rec(w, parts, g) <=> g = [s \in SUBSET parts |-> IF s = {} THEN 0 ELSE g[s \ {Some(s)}] + Some(s)[2]]
  <2>1. \A s \in SUBSET parts : s # {} => w[Some(s)] = Some(s)[2]
    BY DEF Some
  <2> HIDE DEF w
  <2> SUFFICES ASSUME NEW g PROVE
        [s \in SUBSET parts |-> IF s = {} THEN 0 ELSE g[s \ {Some(s)}] + w[Some(s)]]
           = [s \in SUBSET parts |-> IF s = {} THEN 0 ELSE g[s \ {Some(s)}] + Some(s)[2]]
    BY DEF Rec
  <2> QED BY <2>1
<1>2. (CHOOSE g : Rec(w, parts, g)) = (CHOOSE g : g = [s \in SUBSET parts |-> IF s = {} THEN 0 ELSE g[s \ {Some(s)}] + Some(s)[2]])
  BY <1>1
<1>3. FoldSet(LAMBDA c, s : s + c[2], 0, parts)
        = (CHOOSE g : g = [s \in SUBSET parts |-> IF s = {} THEN 0 ELSE g[s \ {Some(s)}] + Some(s)[2]])[parts]
  BY DEF FoldSet, MapThenFoldSet, Some
<1> QED BY <1>2, <1>3, Unfold

(* A figure is the sum of the rows on all its pages, each of them once.       *)
THEOREM FiguresExplained ==
    ASSUME BooksAssumption, RowsTyped, NEW m
    PROVE  Explained(m)
<1> SUFFICES ASSUME NEW name \in Names
             PROVE  LET first == Metric(name, m, 1)  parts == UNION {Metric(name, m, p).components : p \in Pages(first.total)}
                    IN /\ first.value = FoldSet(LAMBDA c, s : s + c[2], 0, parts)
                       /\ Cardinality(parts) = first.total
  BY DEF Explained
<1>1. PICK n : n = Metric(name, m, 1).total
  OBVIOUS
<1>2. PICK parts : parts = UNION {Metric(name, m, p).components : p \in Pages(n)}
  OBVIOUS
<1>3. PICK whole : whole = Explaining(name, m)
  OBVIOUS
<1>4. IsFiniteSet(whole) /\ Cardinality(whole) = n /\ UNION {Components(name, m, p) : p \in Pages(n)} = whole
  BY <1>1, <1>3, AllPages
<1>5. \A p : Metric(name, m, p).components = {<<i, Signed(name, i)>> : i \in Components(name, m, p)}
  BY DEF Metric
<1> DEFINE f == [i \in whole |-> <<i, Signed(name, i)>>]
           w == Terms(name)
<1>6. parts = {<<i, Signed(name, i)>> : i \in whole}
  BY <1>2, <1>4, <1>5
<1>7. parts = {f[i] : i \in whole}
  BY <1>6
<1>8. whole \in SUBSET DOMAIN rows
  <2>1. PICK s : s = Sources(name, m)
    OBVIOUS
  <2> QED BY <1>3, <2>1, SourceRows DEF Explaining
<1>9. \A i, j \in whole : f[i] = f[j] => i = j
  OBVIOUS
<1>10. \A i \in whole : f[i][2] = w[i]
  BY <1>8 DEF Terms
<1> HIDE DEF f, w
<1>11. IsFiniteSet(parts) /\ Cardinality(parts) = Cardinality(whole)
  <2>1. \A i \in whole : f[i] \in parts
    BY <1>7
  <2>2. f \in Bijection(whole, parts)
    <3>1. f \in [whole -> parts]
      BY <2>1 DEF f
    <3> QED BY <1>7, <1>9, <3>1 DEF Bijection, Injection, Surjection, IsInjective
  <2> QED BY <1>4, <2>2, FS_Bijection DEF ExistsBijection
<1>12. Weights(w, whole)
  BY <1>8, ValueOf DEF Weights, w
<1> DEFINE v == [c \in parts |-> c[2]]
<1>13. \A i \in whole : v[f[i]] = w[i]
  BY <1>7, <1>10
<1> HIDE DEF v
<1>14. SumAt(v, {f[i] : i \in whole}) = SumAt(w, whole)
  BY <1>4, <1>9, <1>12, <1>13, SumRenamed
<1>15. Metric(name, m, 1).value = FoldSet(LAMBDA c, s : s + c[2], 0, parts)
  <2>1. Metric(name, m, 1).value = SumAt(w, whole)
    BY <1>3, ValueOf DEF w
  <2>2. FoldSet(LAMBDA c, s : s + c[2], 0, parts) = SumAt(v, parts)
    BY <1>11, PartsAdded DEF v
  <2> QED BY <1>7, <1>14, <2>1, <2>2
<1>16. Cardinality(parts) = n
  BY <1>4, <1>11
<1> QED BY <1>1, <1>2, <1>15, <1>16

-----------------------------------------------------------------------------
(* The next charge, the budgets and the reports.                              *)

(* The least of a set of days that are not before today. *)
LEMMA Least ==
    ASSUME NEW t \in Int, NEW Q \in SUBSET Int, Q # {}, \A d \in Q : d >= t
    PROVE  Min(Q) \in Q
<1> DEFINE T == {d - t : d \in Q}
<1>1. T \in SUBSET Nat /\ T # {}
  <2>1. \A d \in Q : d - t \in Nat
    <3> SUFFICES ASSUME NEW d \in Q PROVE d - t \in Nat
      OBVIOUS
    <3>1. d \in Int /\ d >= t
      OBVIOUS
    <3> QED BY <3>1
  <2> QED BY <2>1
<1> HIDE DEF T
<1>2. PICK x \in T : \A y \in T : x <= y
  BY <1>1, Lowest
<1>3. PICK d \in Q : x = d - t
  BY DEF T
<1>4. ASSUME NEW e \in Q PROVE d <= e
  <2>1. x <= e - t
    BY <1>2 DEF T
  <2>2. d \in Int /\ e \in Int
    OBVIOUS
  <2> QED BY <1>3, <2>1, <2>2
<1>5. \E y \in Q : \A z \in Q : y =< z
  BY <1>4
<1> QED BY <1>5 DEF Min

(* The wallet and the metric tell the same next charge.                       *)
LEMMA NextAgrees ==
    ASSUME BooksAssumption, RowsTyped, NEW m, NEW card
    PROVE  Wallet(m, card).next = NextCharge(card)
<1> DEFINE inView == {i \in Confirmed : /\ Month(rows[i].date) \in {m - 1, m} \/ (rows[i].charge # None /\ rows[i].charge >= Today)
                                        /\ card = "all" \/ rows[i].card = card}
           spend == {i \in inView : rows[i].use # "financing"}
           dates == {rows[i].charge : i \in {i \in spend : rows[i].charge # None /\ rows[i].charge >= Today}}
           owing == {i \in SpendingCredit : /\ rows[i].charge # None /\ rows[i].charge >= Today
                                            /\ card = "all" \/ rows[i].card = card}
<1>1. Wallet(m, card).next = IF dates = {} THEN None
                             ELSE [date |-> Min(dates), amount |-> Total({i \in spend : rows[i].charge = Min(dates)})]
  BY DEF Wallet
<1>2. NextCharge(card) = IF owing = {} THEN None
                         ELSE [date |-> Min({rows[i].charge : i \in owing}),
                               amount |-> Total({i \in owing : rows[i].charge = Min({rows[j].charge : j \in owing})})]
  BY DEF NextCharge
<1>3. {i \in spend : rows[i].charge # None /\ rows[i].charge >= Today} = owing
  BY DEF SpendingCredit
<1>4. dates = {rows[i].charge : i \in owing}
  BY <1>3
<1>5. CASE owing = {}
  BY <1>1, <1>2, <1>4, <1>5
<1>6. CASE owing # {}
  <2>1. dates # {}
    BY <1>4, <1>6
  <2>2. owing \subseteq DOMAIN rows
    BY DEF SpendingCredit, Confirmed, In
  <2>3. dates \in SUBSET Int /\ \A d \in dates : d >= Today
    BY <1>4, <2>2 DEF RowsTyped, Row
  <2>4. Today \in Int
    BY DEF BooksAssumption
  <2>5. Min(dates) \in dates
    <3> HIDE DEF dates
    <3> QED BY <2>1, <2>3, <2>4, Least
  <2>6. PICK d : d = Min(dates)
    OBVIOUS
  <2>7. {i \in spend : rows[i].charge = d} = {i \in owing : rows[i].charge = d}
    <3>1. d # None /\ d >= Today
      <4>1. d \in dates
        BY <2>5, <2>6
      <4> HIDE DEF owing, spend
      <4>2. PICK x \in owing : d = rows[x].charge
        BY <1>4, <4>1
      <4>3. owing = {i \in spend : rows[i].charge # None /\ rows[i].charge >= Today}
        BY <1>3
      <4> QED BY <4>2, <4>3
    <3> HIDE DEF owing, spend
    <3>2. owing = {i \in spend : rows[i].charge # None /\ rows[i].charge >= Today}
      BY <1>3
    <3> QED BY <3>1, <3>2
  <2> HIDE DEF owing, spend, dates
  <2>8. Total({i \in spend : rows[i].charge = d}) = Total({i \in owing : rows[i].charge = d})
    BY <2>7
  <2> QED BY <1>1, <1>2, <1>4, <1>6, <2>1, <2>6, <2>8
<1> QED BY <1>5, <1>6

(* The dashboard and the budgets page tell the same spending and overruns.    *)
LEMMA BudgetsAgree ==
    ASSUME BooksAssumption, RowsTyped, MeaningsKept, NEW m \in 1..Months
    PROVE  LET l == BudgetList(m) IN
           /\ SummaryBudget(m).used = FoldSet(LAMBDA c, s : s + l[c].spent, 0, DOMAIN l)
           /\ SummaryBudget(m).overrun = Cardinality({c \in DOMAIN l : l[c].remaining < 0})
<1>1. PICK l : l = BudgetList(m)
  OBVIOUS
<1>2. PICK spent : spent = SpentByCategory(m)
  OBVIOUS
<1>3. PICK B : B = Budgeted(m)
  OBVIOUS
<1>4. /\ l = [c \in B |-> [amount |-> budgets[<<m, c>>], spent |-> spent[c], remaining |-> budgets[<<m, c>>] - spent[c]]]
      /\ SummaryBudget(m).overrun = Cardinality({c \in B : spent[c] > budgets[<<m, c>>]})
  BY <1>1, <1>2, <1>3 DEF BudgetList, SummaryBudget
<1>5. DOMAIN l = B /\ \A c \in B : l[c].spent = spent[c] /\ l[c].remaining = budgets[<<m, c>>] - spent[c]
  BY <1>4
<1>6. \A c \in B : spent[c] \in Int /\ budgets[<<m, c>>] \in Int
  <2>1. \A c \in B : c \in Categories \cup {None} /\ <<m, c>> \in DOMAIN budgets
    BY <1>3 DEF Budgeted
  <2> QED BY <1>2, <2>1, ByCategory DEF MeaningsKept
<1>7. {c \in DOMAIN l : l[c].remaining < 0} = {c \in B : spent[c] > budgets[<<m, c>>]}
  <2>1. \A c \in B : l[c].remaining < 0 <=> spent[c] > budgets[<<m, c>>]
    <3> SUFFICES ASSUME NEW c \in B PROVE l[c].remaining < 0 <=> spent[c] > budgets[<<m, c>>]
      OBVIOUS
    <3>1. PICK x, y : x = spent[c] /\ y = budgets[<<m, c>>]
      OBVIOUS
    <3>2. x \in Int /\ y \in Int /\ l[c].remaining = y - x
      BY <1>5, <1>6, <3>1
    <3> QED BY <3>1, <3>2
  <2> QED BY <1>5, <2>1
<1> DEFINE w == [c \in B |-> l[c].spent]
<1>8. IsFiniteSet(B)
  <2>1. B \in SUBSET Categories
    BY <1>3 DEF Budgeted
  <2> QED BY <2>1, FS_Subset DEF BooksAssumption
<1>9. FoldSet(LAMBDA c, s : s + BudgetList(m)[c].spent, 0, B) = SumAt(w, B)
  <2>1. \A g : Rec(w, B, g)
                 <=> g = [s \in SUBSET B |-> IF s = {} THEN 0 ELSE g[s \ {Some(s)}] + BudgetList(m)[Some(s)].spent]
    <3>1. \A s \in SUBSET B : s # {} => w[Some(s)] = BudgetList(m)[Some(s)].spent
      BY <1>1 DEF Some
    <3> HIDE DEF w
    <3> SUFFICES ASSUME NEW g PROVE
          [s \in SUBSET B |-> IF s = {} THEN 0 ELSE g[s \ {Some(s)}] + w[Some(s)]]
             = [s \in SUBSET B |-> IF s = {} THEN 0 ELSE g[s \ {Some(s)}] + BudgetList(m)[Some(s)].spent]
      BY DEF Rec
    <3> QED BY <3>1
  <2>2. (CHOOSE g : Rec(w, B, g))
          = (CHOOSE g : g = [s \in SUBSET B |-> IF s = {} THEN 0 ELSE g[s \ {Some(s)}] + BudgetList(m)[Some(s)].spent])
    BY <2>1
  <2>3. FoldSet(LAMBDA c, s : s + BudgetList(m)[c].spent, 0, B)
          = (CHOOSE g : g = [s \in SUBSET B |-> IF s = {} THEN 0 ELSE g[s \ {Some(s)}] + BudgetList(m)[Some(s)].spent])[B]
    BY DEF FoldSet, MapThenFoldSet, Some
  <2> QED BY <2>2, <2>3, Unfold
<1>10. SummaryBudget(m).used = SumAt(SpentByCategory(m), Budgeted(m))
  BY DEF SumAt, SummaryBudget
<1>11. SumAt(w, B) = SumAt(spent, B)
  <2>1. \A c \in B : w[c] = spent[c]
    BY <1>5
  <2> HIDE DEF w
  <2> QED BY <1>8, <2>1, SumAlike
<1>12. SummaryBudget(m).used = FoldSet(LAMBDA c, s : s + BudgetList(m)[c].spent, 0, B)
  BY <1>2, <1>3, <1>9, <1>10, <1>11
<1>13. SummaryBudget(m).used = FoldSet(LAMBDA c, s : s + BudgetList(m)[c].spent, 0, DOMAIN BudgetList(m))
  BY <1>1, <1>5, <1>12
<1>14. {c \in DOMAIN BudgetList(m) : BudgetList(m)[c].remaining < 0} = {c \in B : spent[c] > budgets[<<m, c>>]}
  BY <1>1, <1>7
<1>15. SummaryBudget(m).overrun = Cardinality({c \in DOMAIN BudgetList(m) : BudgetList(m)[c].remaining < 0})
  BY <1>4, <1>14
<1> QED BY <1>13, <1>15

(* The total of a report is that of its months and of its meanings.           *)
LEMMA ReportsAgree ==
    ASSUME BooksAssumption, RowsTyped, ReportsKept, NEW file \in DOMAIN Files, reports[file] # None
    PROVE  LET months == MonthlyBreakdown(file)  uses == Breakdown(file) IN
           /\ reports[file].total = FoldSet(LAMBDA m, s : s + months[m], 0, DOMAIN months)
           /\ reports[file].total = FoldSet(LAMBDA u, s : s + uses[u], 0, DOMAIN uses \ {"financing"})
<1>1. PICK N : N = {i \in RowsOf(file) : rows[i].use # "financing"}
  OBVIOUS
<1>2. N \in SUBSET DOMAIN rows /\ IsFiniteSet(N) /\ RowsOf(file) \subseteq DOMAIN rows
  BY <1>1, FS_Subset DEF RowsOf, In, RowsTyped
<1>3. reports[file].total = Total(N)
  BY <1>1 DEF ReportsKept
<1>4. ASSUME NEW f, f = [i \in N |-> f[i]] PROVE IsFiniteSet({f[i] : i \in N})
  <2>1. f \in Surjection(N, {f[i] : i \in N})
    BY <1>4 DEF Surjection
  <2> QED BY <1>2, <2>1, FS_Surjection
<1>5. reports[file].total = SumAt(MonthlyBreakdown(file), DOMAIN MonthlyBreakdown(file))
  <2> DEFINE f == [i \in N |-> Month(rows[i].date)]
             C == {f[i] : i \in N}
             of == [c \in C |-> Total({i \in N : f[i] = c})]
  <2>1. MonthlyBreakdown(file) = of
    <3>1. C = {Month(rows[i].date) : i \in N}
      OBVIOUS
    <3>2. MonthlyBreakdown(file) = [c \in C |-> Total({i \in RowsOf(file) : rows[i].use # "financing" /\ Month(rows[i].date) = c})]
      BY <1>1, <3>1 DEF MonthlyBreakdown
    <3>3. ASSUME NEW c PROVE {i \in RowsOf(file) : rows[i].use # "financing" /\ Month(rows[i].date) = c} = {i \in N : f[i] = c}
      BY <1>1
    <3> HIDE DEF f
    <3> QED BY <3>2, <3>3
  <2>2. IsFiniteSet(C) /\ \A i \in N : f[i] \in C
    <3>1. f = [i \in N |-> f[i]]
      OBVIOUS
    <3> HIDE DEF f
    <3> QED BY <1>4, <3>1
  <2> HIDE DEF f, C
  <2>3. Total(N) = SumAt(of, C)
    BY <1>2, <2>2, TotalParts
  <2>4. DOMAIN of = C
    OBVIOUS
  <2> QED BY <1>3, <2>1, <2>3, <2>4
<1>6. reports[file].total = SumAt(Breakdown(file), DOMAIN Breakdown(file) \ {"financing"})
  <2> DEFINE f == [i \in N |-> rows[i].use]
             C == {f[i] : i \in N}
             of == [c \in C |-> Total({i \in N : f[i] = c})]
  <2>1. IsFiniteSet(C) /\ \A i \in N : f[i] \in C
    <3>1. f = [i \in N |-> f[i]]
      OBVIOUS
    <3> HIDE DEF f
    <3> QED BY <1>4, <3>1
  <2>2. DOMAIN Breakdown(file) \ {"financing"} = C
    BY <1>1 DEF Breakdown
  <2>3. ASSUME NEW u \in C PROVE Breakdown(file)[u] = of[u]
    <3>1. u \in DOMAIN Breakdown(file) /\ u # "financing"
      BY <2>2
    <3>2. {i \in RowsOf(file) : rows[i].use = u} = {i \in N : f[i] = u}
      BY <1>1, <3>1
    <3>3. Breakdown(file)[u] = Total({i \in RowsOf(file) : rows[i].use = u})
      BY <3>1 DEF Breakdown
    <3> HIDE DEF f
    <3> QED BY <3>2, <3>3
  <2> HIDE DEF f, C
  <2>4. Total(N) = SumAt(of, C)
    BY <1>2, <2>1, TotalParts
  <2> HIDE DEF of
  <2>5. SumAt(Breakdown(file), C) = SumAt(of, C)
    BY <2>1, <2>3, SumAlike
  <2> QED BY <1>3, <2>2, <2>4, <2>5
<1>7. FoldSet(LAMBDA m, s : s + MonthlyBreakdown(file)[m], 0, DOMAIN MonthlyBreakdown(file))
        = SumAt(MonthlyBreakdown(file), DOMAIN MonthlyBreakdown(file))
  BY DEF SumAt
<1>8. FoldSet(LAMBDA u, s : s + Breakdown(file)[u], 0, DOMAIN Breakdown(file) \ {"financing"})
        = SumAt(Breakdown(file), DOMAIN Breakdown(file) \ {"financing"})
  BY DEF SumAt
<1>9. reports[file].total = FoldSet(LAMBDA m, s : s + MonthlyBreakdown(file)[m], 0, DOMAIN MonthlyBreakdown(file))
  BY <1>5, <1>7
<1>10. reports[file].total = FoldSet(LAMBDA u, s : s + Breakdown(file)[u], 0, DOMAIN Breakdown(file) \ {"financing"})
  BY <1>6, <1>8
<1> QED BY <1>9, <1>10

(* So budgets, reports and the next charge agree wherever they are told.      *)
THEOREM AgreeElsewhere ==
    ASSUME BooksAssumption, BooksInv
    PROVE  SameElsewhere
<1> USE DEF BooksInv
<1>1. \A k \in DOMAIN budgets : k[2] \in categories
  BY DEF MeaningsKept
<1>2. \A m \in 1..Months : LET l == BudgetList(m) IN
        /\ SummaryBudget(m).used = FoldSet(LAMBDA c, s : s + l[c].spent, 0, DOMAIN l)
        /\ SummaryBudget(m).overrun = Cardinality({c \in DOMAIN l : l[c].remaining < 0})
  BY BudgetsAgree
<1>3. \A f \in DOMAIN Files : reports[f] # None =>
        LET months == MonthlyBreakdown(f)  uses == Breakdown(f) IN
        /\ reports[f].total = FoldSet(LAMBDA m, s : s + months[m], 0, DOMAIN months)
        /\ reports[f].total = FoldSet(LAMBDA u, s : s + uses[u], 0, DOMAIN uses \ {"financing"})
  BY ReportsAgree
<1>4. \A m \in 1..Months, card \in Cards \cup {None, "all"} : Wallet(m, card).next = NextCharge(card)
  BY NextAgrees
<1> QED BY <1>1, <1>2, <1>3, <1>4 DEF SameElsewhere

-----------------------------------------------------------------------------
(* What the writes of the books keep.                                         *)

(* A finite set of numbers has a highest one.                                 *)
LEMMA Highest ==
    ASSUME NEW S \in SUBSET Nat, IsFiniteSet(S), S # {}
    PROVE  Max(S) \in S /\ \A x \in S : x <= Max(S)
<1> DEFINE P == {T \in SUBSET S : T = {} \/ \E x \in T : \A y \in T : x >= y}
<1>1. ASSUME NEW T \in SUBSET S, NEW x \in S \ T, T \in P PROVE T \cup {x} \in P
  <2>1. CASE T = {}
    <3>1. T \cup {x} = {x} /\ x >= x
      BY <2>1
    <3> QED BY <3>1
  <2>2. CASE T # {}
    <3>1. PICK z \in T : \A y \in T : z >= y
      BY <1>1, <2>2
    <3>2. x \in Nat /\ z \in Nat /\ \A y \in T : y \in Nat
      OBVIOUS
    <3>3. CASE z >= x
      <4>1. \A y \in T \cup {x} : z >= y
        BY <3>1, <3>3
      <4> QED BY <4>1
    <3>4. CASE ~(z >= x)
      <4>1. \A y \in T \cup {x} : x >= y
        BY <3>1, <3>2, <3>4
      <4> QED BY <4>1
    <3> QED BY <3>3, <3>4
  <2> QED BY <2>1, <2>2
<1>2. {} \in P
  OBVIOUS
<1> HIDE DEF P
<1>3. S \in P
  BY <1>1, <1>2, OneMore
<1>4. \E x \in S : \A y \in S : x >= y
  BY <1>3 DEF P
<1>5. Max(S) \in S /\ \A y \in S : Max(S) >= y
  BY <1>4 DEF Max
<1> QED BY <1>5

(* A new row is numbered behind those of its table. *)
LEMMA NewIds ==
    ASSUME RowsTyped, NEW table
    PROVE  /\ NextId(table, DOMAIN rows) \in Nat
           /\ \A i \in DOMAIN rows : i[1] = table => i[2] < NextId(table, DOMAIN rows)
<1> DEFINE I == {i \in DOMAIN rows : i[1] = table}
           N == {i[2] : i \in I}
           S == {0} \cup N
<1>1. IsFiniteSet(S)
  <2> DEFINE f == [i \in I |-> i[2]]
  <2>1. f \in Surjection(I, N)
    BY DEF Surjection
  <2>2. IsFiniteSet(I)
    BY FS_Subset DEF RowsTyped
  <2> HIDE DEF f, I, N
  <2>3. IsFiniteSet(N)
    BY <2>1, <2>2, FS_Surjection
  <2>4. IsFiniteSet(N \cup {0}) /\ {0} \cup N = N \cup {0}
    BY <2>3, FS_AddElement
  <2> QED BY <2>4
<1>2. S \in SUBSET Nat /\ S # {}
  BY DEF RowsTyped
<1>3. NextId(table, DOMAIN rows) = 1 + Max(S)
  BY DEF NextId
<1>4. \A i \in DOMAIN rows : i[1] = table => i[2] \in S
  OBVIOUS
<1> HIDE DEF S
<1>5. Max(S) \in Nat /\ \A x \in S : x <= Max(S) /\ x \in Nat
  BY <1>1, <1>2, Highest
<1> QED BY <1>3, <1>4, <1>5

(* Empty books are in order.                                                  *)
LEMMA RowsInit == ASSUME BooksAssumption, Init PROVE BooksInv
<1>1. rows = <<>> /\ DOMAIN rows = {}
  BY DEF Init
<1>2. RowsTyped
  BY <1>1, FS_EmptySet DEF RowsTyped
<1>3. ReportsKept
  BY <1>1 DEF Init, ReportsKept, In
<1>4. MeaningsKept
  BY <1>1 DEF Init, MeaningsKept
<1> QED BY <1>2, <1>3, <1>4 DEF BooksInv

(* What is typed is a row.                                                    *)
LEMMA TypedRow ==
    ASSUME BooksAssumption, NEW e \in Entries PROVE Typed(e) \in Row
  BY DEF BooksAssumption, Typed, Row, Labels

(* What a report's rows become. *)
FromReport(r, f, card) ==
    [date |-> r.date, amount |-> r.amount, category |-> None, recurring |-> r.use = "standing_order",
     report |-> f, charge |-> r.charge, use |-> r.use, card |-> card, key |-> r.key]
Brings(f, card, fresh, id) ==
    /\ \A k \in fresh : id[k] \in Nat /\ <<"card", id[k]>> \notin DOMAIN rows
    /\ \A j, k \in fresh : id[j] = id[k] => j = k
    /\ DOMAIN rows' = DOMAIN rows \cup {<<"card", id[k]>> : k \in fresh}
    /\ \A i \in DOMAIN rows : rows'[i] = rows[i]
    /\ \A k \in fresh : rows'[<<"card", id[k]>>] = FromReport(Files[f][k], f, card)
    /\ reports[f] = None
    /\ reports' = [reports EXCEPT ![f] = [status |-> "pending",
         total |-> FoldSet(LAMBDA k, s : s + Files[f][k].amount, 0, {k \in fresh : Files[f][k].use # "financing"})]]

(* A report that is imported: rows of its own, numbered behind those there    *)
(* are.                                                                       *)
LEMMA Imported ==
    ASSUME BooksAssumption, RowsTyped, NEW f \in DOMAIN Files, NEW card \in Cards \cup {None}, CreateImport(f, card)
    PROVE  \E fresh \in SUBSET DOMAIN Files[f] : \E id : Brings(f, card, fresh, id)
<1> DEFINE fresh == Fresh(f, card)
           start == NextId("card", DOMAIN rows)
           place(k) == Cardinality({j \in fresh : j < k})
           id(k) == start + place(k)
           new == {<<"card", id(k)>> : k \in fresh}
           line(r) == FromReport(r, f, card)
           row(i) == line(Files[f][CHOOSE k \in fresh : id(k) = i[2]])
           ids == [k \in fresh |-> id(k)]
<1>1. /\ rows' = [i \in DOMAIN rows \cup new |-> IF i \in new THEN row(i) ELSE rows[i]]
      /\ reports' = [reports EXCEPT ![f] = [status |-> "pending",
           total |-> FoldSet(LAMBDA k, s : s + Files[f][k].amount, 0, {k \in fresh : Files[f][k].use # "financing"})]]
      /\ reports[f] = None
  BY DEF CreateImport, FromReport
<1>2. fresh \in SUBSET DOMAIN Files[f]
  BY DEF Fresh
<1>3. start \in Nat /\ \A i \in DOMAIN rows : i[1] = "card" => i[2] < start
  BY NewIds
<1> HIDE DEF start
<1>4. IsFiniteSet(fresh) /\ fresh \in SUBSET Nat
  BY <1>2, FS_Subset DEF BooksAssumption
<1> HIDE DEF fresh
<1>5. \A k \in fresh : IsFiniteSet({j \in fresh : j < k}) /\ place(k) \in Nat
  BY <1>4, FS_Subset, FS_CardinalityType
<1>6. ASSUME NEW j \in fresh, NEW k \in fresh, j < k PROVE place(j) < place(k)
  <2> DEFINE A == {l \in fresh : l < j}
             B == {l \in fresh : l < k}
  <2>1. A \in SUBSET B /\ j \in B /\ j \notin A
    <3>1. j \in Nat /\ k \in Nat /\ \A l \in fresh : l \in Nat
      BY <1>4
    <3>2. \A l \in fresh : l < j => l < k
      BY <1>6, <3>1
    <3>3. ~(j < j)
      BY <3>1
    <3> QED BY <1>6, <3>2, <3>3
  <2>2. IsFiniteSet(B) /\ place(j) = Cardinality(A) /\ place(k) = Cardinality(B)
    BY <1>5
  <2>3. place(j) \in Nat /\ place(k) \in Nat
    BY <1>5
  <2> HIDE DEF A, B, place
  <2>4. Cardinality(A) <= Cardinality(B) /\ (Cardinality(B) = Cardinality(A) => B = A)
    BY <2>1, <2>2, FS_Subset
  <2> QED BY <2>1, <2>2, <2>3, <2>4
<1> HIDE DEF place
<1>7. \A j, k \in fresh : id(j) = id(k) => j = k
  <2> SUFFICES ASSUME NEW j \in fresh, NEW k \in fresh, j # k PROVE id(j) # id(k)
    OBVIOUS
  <2>1. place(j) < place(k) \/ place(k) < place(j)
    BY <1>4, <1>6
  <2>2. place(j) \in Nat /\ place(k) \in Nat
    BY <1>5
  <2> QED BY <1>3, <2>1, <2>2
<1>8. \A k \in fresh : id(k) \in Nat /\ ~(id(k) < start)
  <2> SUFFICES ASSUME NEW k \in fresh PROVE id(k) \in Nat /\ ~(id(k) < start)
    OBVIOUS
  <2>1. place(k) \in Nat
    BY <1>5
  <2> QED BY <1>3, <2>1
<1> HIDE DEF id
<1>9. ASSUME NEW k \in fresh PROVE row(<<"card", id(k)>>) = line(Files[f][k])
  <2>1. (CHOOSE j \in fresh : id(j) = id(k)) = k
    BY <1>7
  <2>2. <<"card", id(k)>>[2] = id(k)
    OBVIOUS
  <2> HIDE DEF line
  <2> QED BY <2>1, <2>2
<1>10. \A k \in fresh : <<"card", id(k)>> \notin DOMAIN rows
  <2> SUFFICES ASSUME NEW k \in fresh, <<"card", id(k)>> \in DOMAIN rows PROVE FALSE
    OBVIOUS
  <2>1. <<"card", id(k)>>[1] = "card" /\ <<"card", id(k)>>[2] = id(k)
    OBVIOUS
  <2> QED BY <1>3, <1>8, <2>1
<1>11. \A k \in fresh : ids[k] = id(k)
  OBVIOUS
<1> HIDE DEF ids, line, row
<1>12. \A i \in DOMAIN rows : i \notin new
  BY <1>10
<1>13. /\ DOMAIN rows' = DOMAIN rows \cup {<<"card", ids[k]>> : k \in fresh}
       /\ \A i \in DOMAIN rows : rows'[i] = rows[i]
       /\ \A k \in fresh : rows'[<<"card", ids[k]>>] = line(Files[f][k])
  <2>1. {<<"card", ids[k]>> : k \in fresh} = new
    BY <1>11
  <2>2. \A k \in fresh : <<"card", id(k)>> \in new
    OBVIOUS
  <2>3. DOMAIN rows' = DOMAIN rows \cup new
    BY <1>1
  <2>4. \A i \in new : rows'[i] = row(i)
    BY <1>1
  <2>5. \A i \in DOMAIN rows : rows'[i] = rows[i]
    BY <1>1, <1>12
  <2> HIDE DEF new
  <2> QED BY <1>9, <1>11, <2>1, <2>2, <2>3, <2>4, <2>5
<1>14. /\ \A k \in fresh : ids[k] \in Nat /\ <<"card", ids[k]>> \notin DOMAIN rows
       /\ \A j, k \in fresh : ids[j] = ids[k] => j = k
  BY <1>7, <1>8, <1>10, <1>11
<1> QED BY <1>1, <1>2, <1>13, <1>14 DEF line, Brings

(* Every write keeps the rows typed.                                          *)
LEMMA TypedStep ==
    ASSUME BooksAssumption, RowsTyped, Write PROVE RowsTyped'
<1> USE DEF RowsTyped
<1>1. ASSUME NEW e \in Entries, Enter(e) PROVE RowsTyped'
  <2>1. PICK i : i = <<e.kind, NextId(e.kind, DOMAIN rows)>>
    OBVIOUS
  <2>2. DOMAIN rows' = DOMAIN rows \cup {i} /\ \A j \in DOMAIN rows' : rows'[j] = IF j = i THEN Typed(e) ELSE rows[j]
    BY <1>1, <2>1 DEF Enter, With
  <2>3. i \in TableNames \X Nat /\ Typed(e) \in Row
    BY <2>1, NewIds, TypedRow DEF BooksAssumption, TableNames
  <2>4. IsFiniteSet(DOMAIN rows')
    BY <2>2, FS_AddElement
  <2> QED BY <2>2, <2>3, <2>4 DEF Row, Labels, Printed
<1>2. ASSUME NEW e \in Entries, NEW i \in DOMAIN rows, Edit(i, e) PROVE RowsTyped'
  <2>1. DOMAIN rows' = DOMAIN rows /\ \A j \in DOMAIN rows : rows'[j] = IF j = i THEN Typed(e) ELSE rows[j]
    BY <1>2 DEF Edit
  <2> QED BY <2>1, TypedRow DEF Row, Labels, Printed
<1>3. ASSUME NEW i \in DOMAIN rows, Delete(i) PROVE RowsTyped'
  <2>1. DOMAIN rows' = DOMAIN rows \ {i} /\ \A j \in DOMAIN rows' : rows'[j] = rows[j]
    BY <1>3 DEF Delete
  <2>2. IsFiniteSet(DOMAIN rows')
    BY <2>1, FS_RemoveElement
  <2> QED BY <2>1, <2>2 DEF Row, Labels, Printed
<1>4. ASSUME NEW i \in DOMAIN rows, NEW c \in Categories \cup {None}, UpdateTransaction(i, c) PROVE RowsTyped'
  <2>1. DOMAIN rows' = DOMAIN rows /\ \A j \in DOMAIN rows : rows'[j] = IF j = i THEN [rows[i] EXCEPT !.category = c] ELSE rows[j]
    BY <1>4 DEF UpdateTransaction
  <2>2. [rows[i] EXCEPT !.category = c] \in Row
    BY DEF Row, Labels
  <2> QED BY <2>1, <2>2 DEF Row, Labels, Printed
<1>5. ASSUME NEW f \in DOMAIN Files, ConfirmImport(f) PROVE RowsTyped'
  BY <1>5 DEF ConfirmImport, Row, Labels, Printed
<1>6. ASSUME NEW f \in DOMAIN Files, RemoveImport(f) PROVE RowsTyped'
  <2>1. DOMAIN rows' = DOMAIN rows \ RowsOf(f) /\ \A j \in DOMAIN rows' : rows'[j] = rows[j]
    BY <1>6 DEF RemoveImport
  <2>2. IsFiniteSet(DOMAIN rows')
    BY <2>1, FS_Subset
  <2> QED BY <2>1, <2>2 DEF Row, Labels, Printed
<1>7. ASSUME NEW f \in DOMAIN Files, NEW card \in Cards \cup {None}, CreateImport(f, card) PROVE RowsTyped'
  <2>1. PICK fresh, id : fresh \in SUBSET DOMAIN Files[f] /\ Brings(f, card, fresh, id)
    BY <1>7, Imported
  <2>2. ASSUME NEW k \in fresh PROVE rows'[<<"card", id[k]>>] \in Row
    <3>1. PICK r : r = Files[f][k]
      OBVIOUS
    <3>2. r \in Printed /\ r.date \in Int /\ r.amount \in Int /\ r.charge \in Int \cup {None}
      BY <2>1, <3>1 DEF BooksAssumption, Printed
    <3>3. rows'[<<"card", id[k]>>] = FromReport(r, f, card)
      BY <2>1, <3>1 DEF Brings
    <3>4. r.use \in {x.use : x \in Printed} /\ r.key \in {x.key : x \in Printed} /\ (r.use = "standing_order") \in BOOLEAN
      BY <3>2
    <3> QED BY <3>2, <3>3, <3>4 DEF Row, Labels, FromReport
  <2>3. IsFiniteSet(DOMAIN rows')
    <3> DEFINE N == {<<"card", id[k]>> : k \in fresh}
               g == [k \in fresh |-> <<"card", id[k]>>]
    <3>1. g \in Surjection(fresh, N)
      BY DEF Surjection
    <3>2. IsFiniteSet(fresh)
      BY <2>1, FS_Subset DEF BooksAssumption
    <3> HIDE DEF g, N
    <3>3. IsFiniteSet(N)
      BY <3>1, <3>2, FS_Surjection
    <3>4. IsFiniteSet(DOMAIN rows \cup N)
      BY <3>3, FS_Union
    <3> QED BY <2>1, <3>4 DEF N, Brings
  <2>4. DOMAIN rows' \subseteq TableNames \X Nat
    <3>1. \A k \in fresh : <<"card", id[k]>> \in TableNames \X Nat
      BY <2>1 DEF TableNames, Brings
    <3>2. DOMAIN rows' = DOMAIN rows \cup {<<"card", id[k]>> : k \in fresh} /\ DOMAIN rows \subseteq TableNames \X Nat
      BY <2>1 DEF Brings
    <3> QED BY <3>1, <3>2
  <2>5. \A i \in DOMAIN rows' : rows'[i] \in Row
    <3>1. DOMAIN rows' = DOMAIN rows \cup {<<"card", id[k]>> : k \in fresh} /\ \A i \in DOMAIN rows : rows'[i] = rows[i]
      BY <2>1 DEF Brings
    <3> QED BY <2>2, <3>1
  <2> QED BY <2>3, <2>4, <2>5 DEF Row, Labels, Printed
<1>8. ASSUME NEW f \in DOMAIN Files, NEW card \in Cards \cup {None}, Assign(f, card) PROVE RowsTyped'
  <2>1. DOMAIN rows' = DOMAIN rows
        /\ \A j \in DOMAIN rows : rows'[j] = IF j \in RowsOf(f) THEN [rows[j] EXCEPT !.card = card] ELSE rows[j]
    BY <1>8 DEF Assign
  <2>2. \A j \in DOMAIN rows : [rows[j] EXCEPT !.card = card] \in Row
    BY DEF Row
  <2>3. \A j \in DOMAIN rows' : rows'[j] \in Row
    BY <2>1, <2>2
  <2> QED BY <2>1, <2>3 DEF Row, Labels, Printed
<1>9. ASSUME NEW c \in Categories, RemoveCategory(c) PROVE RowsTyped'
  <2>1. DOMAIN rows' = DOMAIN rows
        /\ \A j \in DOMAIN rows : rows'[j] = IF rows[j].category = c THEN [rows[j] EXCEPT !.category = None] ELSE rows[j]
    BY <1>9 DEF RemoveCategory
  <2>2. \A j \in DOMAIN rows : [rows[j] EXCEPT !.category = None] \in Row
    BY DEF Row, Labels
  <2> QED BY <2>1, <2>2 DEF Row, Labels, Printed
<1>10. ASSUME UNCHANGED rows PROVE RowsTyped'
  BY <1>10 DEF Row, Labels, Printed
<1> QED BY <1>1, <1>2, <1>3, <1>4, <1>5, <1>6, <1>7, <1>8, <1>9, <1>10 DEF Write, Upsert, RemoveBudget, CopyFromPrevious

(* Every write keeps what the categories mean, the removal of one too.        *)
LEMMA MeaningsStep ==
    ASSUME BooksAssumption, RowsTyped, MeaningsKept, Write PROVE MeaningsKept'
<1> DEFINE Ok(i, r, C) == i[1] # "income" => r.category \in C \cup {None}
<1>0. \A i \in DOMAIN rows : Ok(i, rows[i], categories)
  BY DEF MeaningsKept
<1>1. ASSUME UNCHANGED <<budgets, categories>>, \A i \in DOMAIN rows' : Ok(i, rows'[i], categories) PROVE MeaningsKept'
  BY <1>1 DEF MeaningsKept
<1>2. ASSUME NEW e \in Entries, Enter(e) PROVE MeaningsKept'
  <2>1. PICK i : i = <<e.kind, NextId(e.kind, DOMAIN rows)>>
    OBVIOUS
  <2>2. /\ DOMAIN rows' = DOMAIN rows \cup {i} /\ \A j \in DOMAIN rows' : rows'[j] = IF j = i THEN Typed(e) ELSE rows[j]
        /\ e.kind = "expense" => e.category \in categories \cup {None}
        /\ UNCHANGED <<budgets, categories>>
    BY <1>2, <2>1 DEF Enter, With
  <2>3. Ok(i, Typed(e), categories)
    BY <2>1, <2>2 DEF Typed, BooksAssumption
  <2> QED BY <1>0, <1>1, <2>2, <2>3
<1>3. ASSUME NEW e \in Entries, NEW i \in DOMAIN rows, Edit(i, e) PROVE MeaningsKept'
  <2>1. /\ DOMAIN rows' = DOMAIN rows /\ \A j \in DOMAIN rows : rows'[j] = IF j = i THEN Typed(e) ELSE rows[j]
        /\ i[1] = e.kind /\ (e.kind = "expense" => e.category \in categories \cup {None})
        /\ UNCHANGED <<budgets, categories>>
    BY <1>3 DEF Edit
  <2>2. Ok(i, Typed(e), categories)
    BY <2>1 DEF Typed, BooksAssumption
  <2> QED BY <1>0, <1>1, <2>1, <2>2
<1>4. ASSUME NEW i \in DOMAIN rows, Delete(i) PROVE MeaningsKept'
  <2>1. DOMAIN rows' \subseteq DOMAIN rows /\ \A j \in DOMAIN rows' : rows'[j] = rows[j]
    BY <1>4 DEF Delete
  <2>2. UNCHANGED <<budgets, categories>>
    BY <1>4 DEF Delete
  <2> QED BY <1>0, <1>1, <2>1, <2>2
<1>5. ASSUME NEW i \in DOMAIN rows, NEW c \in Categories \cup {None}, UpdateTransaction(i, c) PROVE MeaningsKept'
  <2>1. /\ DOMAIN rows' = DOMAIN rows /\ \A j \in DOMAIN rows : rows'[j] = IF j = i THEN [rows[i] EXCEPT !.category = c] ELSE rows[j]
        /\ c \in categories \cup {None} /\ UNCHANGED <<budgets, categories>>
    BY <1>5 DEF UpdateTransaction
  <2>2. [rows[i] EXCEPT !.category = c].category = c
    BY DEF RowsTyped, Row
  <2>3. Ok(i, [rows[i] EXCEPT !.category = c], categories)
    BY <2>1, <2>2
  <2> QED BY <1>0, <1>1, <2>1, <2>3
<1>6. ASSUME NEW f \in DOMAIN Files, ConfirmImport(f) PROVE MeaningsKept'
  BY <1>0, <1>1, <1>6 DEF ConfirmImport
<1>7. ASSUME NEW f \in DOMAIN Files, RemoveImport(f) PROVE MeaningsKept'
  <2>1. DOMAIN rows' \subseteq DOMAIN rows /\ (\A j \in DOMAIN rows' : rows'[j] = rows[j]) /\ UNCHANGED <<budgets, categories>>
    BY <1>7 DEF RemoveImport
  <2> QED BY <1>0, <1>1, <2>1
<1>8. ASSUME NEW f \in DOMAIN Files, NEW card \in Cards \cup {None}, CreateImport(f, card) PROVE MeaningsKept'
  <2>1. PICK fresh, id : fresh \in SUBSET DOMAIN Files[f] /\ Brings(f, card, fresh, id)
    BY ONLY <1>8, Imported, BooksAssumption, RowsTyped
  <2>2. \A k \in fresh : rows'[<<"card", id[k]>>].category = None
    <3>1. \A k \in fresh : rows'[<<"card", id[k]>>] = FromReport(Files[f][k], f, card)
      BY <2>1 DEF Brings
    <3>2. \A r : FromReport(r, f, card).category = None
      BY DEF FromReport
    <3> QED BY <3>1, <3>2
  <2>3. UNCHANGED <<budgets, categories>>
    BY <1>8 DEF CreateImport
  <2>4. DOMAIN rows' = DOMAIN rows \cup {<<"card", id[k]>> : k \in fresh} /\ \A i \in DOMAIN rows : rows'[i] = rows[i]
    BY <2>1 DEF Brings
  <2>5. \A i \in DOMAIN rows' : Ok(i, rows'[i], categories)
    BY <1>0, <2>2, <2>4
  <2> QED BY <1>1, <2>3, <2>5
<1>9. ASSUME NEW f \in DOMAIN Files, NEW card \in Cards \cup {None}, Assign(f, card) PROVE MeaningsKept'
  <2>1. DOMAIN rows' = DOMAIN rows /\ UNCHANGED <<budgets, categories>>
        /\ \A j \in DOMAIN rows : rows'[j] = IF j \in RowsOf(f) THEN [rows[j] EXCEPT !.card = card] ELSE rows[j]
    BY <1>9 DEF Assign
  <2>2. \A j \in DOMAIN rows : [rows[j] EXCEPT !.card = card].category = rows[j].category
    BY DEF RowsTyped, Row
  <2>3. \A j \in DOMAIN rows : rows'[j].category = rows[j].category
    BY <2>1, <2>2
  <2> QED BY <1>0, <1>1, <2>1, <2>3
<1>10. ASSUME NEW c \in Categories, RemoveCategory(c) PROVE MeaningsKept'
  <2>1. /\ DOMAIN rows' = DOMAIN rows
        /\ \A j \in DOMAIN rows : rows'[j] = IF rows[j].category = c THEN [rows[j] EXCEPT !.category = None] ELSE rows[j]
        /\ categories' = categories \ {c}
        /\ budgets' = [k \in {k \in DOMAIN budgets : k[2] # c} |-> budgets[k]]
    BY <1>10 DEF RemoveCategory
  <2>2. \A j \in DOMAIN rows : [rows[j] EXCEPT !.category = None].category = None
    BY DEF RowsTyped, Row
  <2>3. \A j \in DOMAIN rows : rows'[j].category = IF rows[j].category = c THEN None ELSE rows[j].category
    BY <2>1, <2>2
  <2> QED BY <2>1, <2>3 DEF MeaningsKept
<1>11. ASSUME NEW m \in 1..Months, NEW c \in Categories, NEW a \in {0, 3}, Upsert(m, c, a) PROVE MeaningsKept'
  <2>1. /\ DOMAIN budgets' = DOMAIN budgets \cup {<<m, c>>}
        /\ \A k \in DOMAIN budgets' : budgets'[k] = IF k = <<m, c>> THEN a ELSE budgets[k]
        /\ c \in categories /\ rows' = rows /\ categories' = categories
    BY <1>11 DEF Upsert
  <2> QED BY <2>1 DEF MeaningsKept
<1>12. ASSUME NEW k \in DOMAIN budgets, RemoveBudget(k) PROVE MeaningsKept'
  <2>1. /\ DOMAIN budgets' \subseteq DOMAIN budgets /\ \A j \in DOMAIN budgets' : budgets'[j] = budgets[j]
        /\ rows' = rows /\ categories' = categories
    BY <1>12 DEF RemoveBudget
  <2> QED BY <2>1 DEF MeaningsKept
<1>13. ASSUME NEW m \in 2..Months, CopyFromPrevious(m) PROVE MeaningsKept'
  <2> DEFINE copied == {<<m, c>> : c \in Budgeted(m - 1) \ Budgeted(m)}
  <2>1. /\ DOMAIN budgets' = DOMAIN budgets \cup copied
        /\ \A k \in DOMAIN budgets' : budgets'[k] = IF k \in copied THEN budgets[<<m - 1, k[2]>>] ELSE budgets[k]
        /\ rows' = rows /\ categories' = categories
    BY <1>13 DEF CopyFromPrevious
  <2>2. \A k \in copied : <<m - 1, k[2]>> \in DOMAIN budgets
    <3> SUFFICES ASSUME NEW c \in Budgeted(m - 1), NEW k, k = <<m, c>> PROVE <<m - 1, k[2]>> \in DOMAIN budgets
      OBVIOUS
    <3> QED BY DEF Budgeted
  <2> HIDE DEF copied
  <2>3. \A k \in copied : k[2] \in categories /\ budgets[<<m - 1, k[2]>>] \in Int
    <3> SUFFICES ASSUME NEW k \in copied PROVE k[2] \in categories /\ budgets[<<m - 1, k[2]>>] \in Int
      OBVIOUS
    <3>1. PICK b : b = <<m - 1, k[2]>>
      OBVIOUS
    <3>2. b \in DOMAIN budgets /\ b[2] = k[2]
      BY <2>2, <3>1
    <3>3. b[2] \in categories /\ budgets[b] \in Int
      BY <3>2 DEF MeaningsKept
    <3> QED BY <3>1, <3>2, <3>3
  <2> QED BY <2>1, <2>3 DEF MeaningsKept
<1> QED BY <1>2, <1>3, <1>4, <1>5, <1>6, <1>7, <1>8, <1>9, <1>10, <1>11, <1>12, <1>13 DEF Write

Charges(r, f) == {i \in DOMAIN r : i[1] = "card" /\ r[i].report = f /\ r[i].use # "financing"}

(* Rows with the same amounts have the same total.                            *)
LEMMA TotalsAlike ==
    ASSUME NEW r, NEW q, NEW S \in SUBSET DOMAIN r, S \in SUBSET DOMAIN q, IsFiniteSet(S),
           \A i \in S : r[i].amount = q[i].amount
    PROVE  TotalAt(r, S) = TotalAt(q, S)
<1>1. TotalAt(r, S) = SumAt(AmountsAt(r), S) /\ TotalAt(q, S) = SumAt(AmountsAt(q), S)
  BY TotalAtIs
<1>2. \A i \in S : AmountsAt(r)[i] = AmountsAt(q)[i]
  BY DEF AmountsAt
<1> QED BY <1>1, <1>2, SumAlike

KeptBy(r, t) ==
    /\ DOMAIN t = DOMAIN Files
    /\ \A i \in DOMAIN r : i[1] = "card" => r[i].report \in DOMAIN Files /\ t[r[i].report] # None
    /\ \A f \in DOMAIN Files : t[f] # None =>
        t[f] \in [status : {"pending", "confirmed"}, total : Int] /\ t[f].total = TotalAt(r, Charges(r, f))

(* ReportsKept of the books as they are,                                      *)
LEMMA KeptReads == ReportsKept <=> KeptBy(rows, reports)
<1>1. \A S : Total(S) = TotalAt(rows, S)
  BY DEF Total, TotalAt
<1>2. \A f : {i \in RowsOf(f) : rows[i].use # "financing"} = Charges(rows, f)
  BY DEF RowsOf, In, Charges
<1> QED BY <1>1, <1>2 DEF ReportsKept, KeptBy, In

(* and as they become.                                                        *)
LEMMA KeptReadsNext == ReportsKept' <=> KeptBy(rows', reports')
<1>1. (ReportsKept <=> KeptBy(rows, reports))'
  BY KeptReads, PTL
<1> QED BY <1>1

(* The rows of a report that no one touched still add up to its total. *)
LEMMA KeptAlike ==
    ASSUME NEW r, NEW q, NEW f, IsFiniteSet(DOMAIN r), Charges(r, f) = Charges(q, f),
           \A i \in Charges(r, f) : r[i].amount = q[i].amount
    PROVE  TotalAt(q, Charges(q, f)) = TotalAt(r, Charges(r, f))
<1>1. Charges(r, f) \in SUBSET DOMAIN r /\ Charges(r, f) \in SUBSET DOMAIN q
  BY DEF Charges
<1>2. IsFiniteSet(Charges(r, f))
  BY <1>1, FS_Subset
<1> QED BY <1>1, <1>2, TotalsAlike

(* A write that leaves the cards' rows alone keeps the reports in order.      *)
LEMMA KeptSame ==
    ASSUME NEW r, NEW q, NEW t, IsFiniteSet(DOMAIN r), KeptBy(r, t),
           \A i : i[1] = "card" => (i \in DOMAIN r <=> i \in DOMAIN q),
           \A i \in DOMAIN r : i[1] = "card" =>
              r[i].report = q[i].report /\ r[i].use = q[i].use /\ r[i].amount = q[i].amount
    PROVE  KeptBy(q, t)
<1>1. \A f : Charges(r, f) = Charges(q, f) /\ \A i \in Charges(r, f) : r[i].amount = q[i].amount
  BY DEF Charges
<1>2. \A f : TotalAt(q, Charges(q, f)) = TotalAt(r, Charges(r, f))
  BY <1>1, KeptAlike
<1> QED BY <1>2 DEF KeptBy

(* So does a new report, whose total is that of the rows it brings.           *)
LEMMA KeptImport ==
    ASSUME BooksAssumption, RowsTyped, ReportsKept, NEW f \in DOMAIN Files, NEW card, NEW fresh \in SUBSET DOMAIN Files[f], NEW id,
           Brings(f, card, fresh, id), IsFiniteSet(DOMAIN rows')
    PROVE  ReportsKept'
<1> DEFINE line(k) == <<"card", id[k]>>
           paid == {k \in fresh : Files[f][k].use # "financing"}
           brought == TotalAt(Files[f], paid)
<1>0. KeptBy(rows, reports)
  BY KeptReads
<1>1. /\ DOMAIN rows' = DOMAIN rows \cup {line(k) : k \in fresh}
      /\ \A i \in DOMAIN rows : rows'[i] = rows[i]
      /\ \A k \in fresh : line(k) \notin DOMAIN rows /\ rows'[line(k)] = FromReport(Files[f][k], f, card)
      /\ \A j, k \in fresh : line(j) = line(k) => j = k
      /\ reports[f] = None
  BY DEF Brings
<1>2. \A k \in fresh : /\ rows'[line(k)].report = f /\ rows'[line(k)].use = Files[f][k].use
                       /\ rows'[line(k)].amount = Files[f][k].amount /\ line(k)[1] = "card"
  <2>1. \A r : FromReport(r, f, card).report = f /\ FromReport(r, f, card).use = r.use /\ FromReport(r, f, card).amount = r.amount
    BY DEF FromReport
  <2> QED BY <1>1, <2>1
<1>3. DOMAIN reports' = DOMAIN reports /\ \A g \in DOMAIN reports : reports'[g] = IF g = f THEN [status |-> "pending", total |-> brought] ELSE reports[g]
  BY DEF Brings, TotalAt
<1>4. \A i \in DOMAIN rows : i[1] = "card" => rows[i].report # f
  BY <1>0, <1>1 DEF KeptBy
<1>5. IsFiniteSet(paid) /\ Weights(AmountsAt(Files[f]), paid) /\ paid \in SUBSET DOMAIN Files[f]
  <2>1. paid \in SUBSET DOMAIN Files[f] /\ IsFiniteSet(DOMAIN Files[f]) /\ \A k \in DOMAIN Files[f] : Files[f][k].amount \in Int
    BY DEF BooksAssumption
  <2>2. IsFiniteSet(paid)
    BY <2>1, FS_Subset
  <2> QED BY <2>1, <2>2 DEF Weights, AmountsAt
<1>6. brought = SumAt(AmountsAt(Files[f]), paid) /\ brought \in Int
  BY <1>5, TotalAtIs, SumInt
<1>7. Charges(rows', f) = {line(k) : k \in paid}
  BY <1>1, <1>2, <1>4 DEF Charges
<1> HIDE DEF line, paid, brought
<1>8. TotalAt(rows', Charges(rows', f)) = brought
  <2> DEFINE at == [k \in paid |-> line(k)]
  <2>1. Charges(rows', f) = {at[k] : k \in paid}
    BY <1>7
  <2>2. \A j, k \in paid : at[j] = at[k] => j = k
    BY <1>1 DEF paid
  <2>3. \A k \in paid : at[k] \in DOMAIN rows' /\ rows'[at[k]].amount = Files[f][k].amount
    BY <1>1, <1>2 DEF paid
  <2>4. \A k \in paid : AmountsAt(rows')[at[k]] = AmountsAt(Files[f])[k]
    BY <1>5, <2>3 DEF AmountsAt
  <2> HIDE DEF at
  <2>5. PICK v : v = AmountsAt(rows')
    OBVIOUS
  <2>6. PICK w : w = AmountsAt(Files[f])
    OBVIOUS
  <2>7. Weights(w, paid) /\ \A k \in paid : v[at[k]] = w[k]
    BY <1>5, <2>4, <2>5, <2>6
  <2>8. SumAt(v, {at[k] : k \in paid}) = SumAt(w, paid)
    BY <1>5, <2>2, <2>7, SumRenamed
  <2>9. Charges(rows', f) \in SUBSET DOMAIN rows' /\ IsFiniteSet(Charges(rows', f))
    BY FS_Subset DEF Charges
  <2>10. TotalAt(rows', Charges(rows', f)) = SumAt(v, Charges(rows', f))
    BY <2>5, <2>9, TotalAtIs
  <2> QED BY <1>6, <2>1, <2>6, <2>8, <2>10
<1>9. ASSUME NEW g \in DOMAIN Files, g # f PROVE TotalAt(rows', Charges(rows', g)) = TotalAt(rows, Charges(rows, g))
  <2>1. Charges(rows, g) = Charges(rows', g) /\ \A i \in Charges(rows, g) : rows[i].amount = rows'[i].amount
    BY <1>1, <1>2, <1>9 DEF Charges
  <2> QED BY <2>1, KeptAlike DEF RowsTyped
<1>10. [status |-> "pending", total |-> brought] # None /\ [status |-> "pending", total |-> brought] \in [status : {"pending", "confirmed"}, total : Int]
  BY <1>6 DEF BooksAssumption
<1>11. KeptBy(rows', reports')
  <2>1. DOMAIN reports' = DOMAIN Files /\ DOMAIN reports = DOMAIN Files
    BY <1>0, <1>3 DEF KeptBy
  <2>2. ASSUME NEW i \in DOMAIN rows', i[1] = "card"
        PROVE  rows'[i].report \in DOMAIN Files /\ reports'[rows'[i].report] # None
    <3>1. CASE i \in DOMAIN rows
      BY <1>0, <1>1, <1>3, <1>4, <2>1, <2>2, <3>1 DEF KeptBy
    <3>2. CASE i \notin DOMAIN rows
      <4>1. rows'[i].report = f
        BY <1>1, <1>2, <3>2
      <4> QED BY <1>3, <1>10, <2>1, <4>1
    <3> QED BY <3>1, <3>2
  <2>3. ASSUME NEW g \in DOMAIN Files, reports'[g] # None
        PROVE  reports'[g] \in [status : {"pending", "confirmed"}, total : Int] /\ reports'[g].total = TotalAt(rows', Charges(rows', g))
    <3>1. CASE g = f
      BY <1>3, <1>8, <1>10, <2>1, <3>1
    <3>2. CASE g # f
      BY <1>0, <1>3, <1>9, <2>1, <2>3, <3>2 DEF KeptBy
    <3> QED BY <3>1, <3>2
  <2> QED BY <2>1, <2>2, <2>3 DEF KeptBy
<1> QED BY <1>11, KeptReadsNext

(* Every write keeps the reports in order.                                    *)
LEMMA ReportsStep ==
    ASSUME BooksAssumption, RowsTyped, ReportsKept, RowsTyped', Write PROVE ReportsKept'
<1>0. KeptBy(rows, reports) /\ (KeptBy(rows', reports') => ReportsKept') /\ IsFiniteSet(DOMAIN rows)
  BY KeptReads, KeptReadsNext DEF RowsTyped
<1>1. ASSUME reports' = reports, \A i : i[1] = "card" => (i \in DOMAIN rows <=> i \in DOMAIN rows'),
             \A i \in DOMAIN rows : i[1] = "card" =>
                rows[i].report = rows'[i].report /\ rows[i].use = rows'[i].use /\ rows[i].amount = rows'[i].amount
      PROVE  ReportsKept'
  BY <1>0, <1>1, KeptSame
<1>2. ASSUME NEW e \in Entries, Enter(e) PROVE ReportsKept'
  <2>1. PICK i : i = <<e.kind, NextId(e.kind, DOMAIN rows)>>
    OBVIOUS
  <2>2. /\ DOMAIN rows' = DOMAIN rows \cup {i} /\ \A j \in DOMAIN rows' : rows'[j] = IF j = i THEN Typed(e) ELSE rows[j]
        /\ reports' = reports /\ i[1] # "card"
    BY <1>2, <2>1 DEF Enter, With, BooksAssumption
  <2> QED BY <1>1, <2>2
<1>3. ASSUME NEW e \in Entries, NEW i \in DOMAIN rows, Edit(i, e) PROVE ReportsKept'
  <2>1. /\ DOMAIN rows' = DOMAIN rows /\ \A j \in DOMAIN rows : rows'[j] = IF j = i THEN Typed(e) ELSE rows[j]
        /\ reports' = reports /\ i[1] # "card"
    BY <1>3 DEF Edit, BooksAssumption
  <2> QED BY <1>1, <2>1
<1>4. ASSUME NEW i \in DOMAIN rows, Delete(i) PROVE ReportsKept'
  <2>1. DOMAIN rows' = DOMAIN rows \ {i} /\ (\A j \in DOMAIN rows' : rows'[j] = rows[j]) /\ reports' = reports /\ i[1] # "card"
    BY <1>4 DEF Delete
  <2> QED BY <1>1, <2>1
<1>5. ASSUME NEW i \in DOMAIN rows, NEW c \in Categories \cup {None}, UpdateTransaction(i, c) PROVE ReportsKept'
  <2>1. /\ DOMAIN rows' = DOMAIN rows /\ \A j \in DOMAIN rows : rows'[j] = IF j = i THEN [rows[i] EXCEPT !.category = c] ELSE rows[j]
        /\ reports' = reports
    BY <1>5 DEF UpdateTransaction
  <2>2. PICK r : r = [rows[i] EXCEPT !.category = c]
    OBVIOUS
  <2>3. r.report = rows[i].report /\ r.use = rows[i].use /\ r.amount = rows[i].amount
    BY <2>2 DEF RowsTyped, Row
  <2> QED BY <1>1, <2>1, <2>2, <2>3
<1>6. ASSUME NEW f \in DOMAIN Files, ConfirmImport(f) PROVE ReportsKept'
  <2>1. PICK r : r = [reports[f] EXCEPT !.status = "confirmed"]
    OBVIOUS
  <2>2. /\ reports[f] # None /\ reports[f] \in [status : {"pending", "confirmed"}, total : Int]
        /\ DOMAIN reports' = DOMAIN reports /\ \A g \in DOMAIN reports : reports'[g] = IF g = f THEN r ELSE reports[g]
        /\ rows' = rows /\ DOMAIN reports = DOMAIN Files
    BY <1>0, <1>6, <2>1 DEF ConfirmImport, KeptBy
  <2>3. r \in [status : {"pending", "confirmed"}, total : Int] /\ r.total = reports[f].total
    BY <2>1, <2>2
  <2>4. r # None
    BY <2>3 DEF BooksAssumption
  <2>5. KeptBy(rows, reports')
    BY <1>0, <2>2, <2>3, <2>4 DEF KeptBy
  <2> QED BY <1>0, <2>2, <2>5
<1>7. ASSUME NEW f \in DOMAIN Files, RemoveImport(f) PROVE ReportsKept'
  <2>1. /\ DOMAIN rows' = DOMAIN rows \ RowsOf(f) /\ \A j \in DOMAIN rows' : rows'[j] = rows[j]
        /\ DOMAIN reports' = DOMAIN reports /\ \A g \in DOMAIN reports : reports'[g] = IF g = f THEN None ELSE reports[g]
    BY <1>7 DEF RemoveImport
  <2>2. \A i \in DOMAIN rows' : i \in DOMAIN rows /\ (i[1] = "card" => rows[i].report # f)
    BY <2>1 DEF RowsOf, In
  <2>3. ASSUME NEW g, g # f PROVE TotalAt(rows', Charges(rows', g)) = TotalAt(rows, Charges(rows, g))
    <3>1. Charges(rows, g) = Charges(rows', g) /\ \A i \in Charges(rows, g) : rows[i].amount = rows'[i].amount
      BY <2>1, <2>3 DEF Charges, RowsOf, In
    <3> QED BY <1>0, <3>1, KeptAlike
  <2>4. KeptBy(rows', reports')
    BY <1>0, <2>1, <2>2, <2>3 DEF KeptBy
  <2> QED BY <1>0, <2>4
<1>8. ASSUME NEW f \in DOMAIN Files, NEW card \in Cards \cup {None}, CreateImport(f, card) PROVE ReportsKept'
  <2>1. PICK fresh, id : fresh \in SUBSET DOMAIN Files[f] /\ Brings(f, card, fresh, id)
    BY <1>8, Imported
  <2>2. IsFiniteSet(DOMAIN rows')
    BY DEF RowsTyped
  <2> QED BY <2>1, <2>2, KeptImport
<1>9. ASSUME NEW f \in DOMAIN Files, NEW card \in Cards \cup {None}, Assign(f, card) PROVE ReportsKept'
  <2>1. DOMAIN rows' = DOMAIN rows /\ reports' = reports
        /\ \A j \in DOMAIN rows : rows'[j] = IF j \in RowsOf(f) THEN [rows[j] EXCEPT !.card = card] ELSE rows[j]
    BY <1>9 DEF Assign
  <2>2. \A j \in DOMAIN rows : LET r == [rows[j] EXCEPT !.card = card] IN
           r.report = rows[j].report /\ r.use = rows[j].use /\ r.amount = rows[j].amount
    BY DEF RowsTyped, Row
  <2>3. \A j \in DOMAIN rows : rows'[j].report = rows[j].report /\ rows'[j].use = rows[j].use /\ rows'[j].amount = rows[j].amount
    BY <2>1, <2>2
  <2> QED BY <1>1, <2>1, <2>3
<1>10. ASSUME NEW c \in Categories, RemoveCategory(c) PROVE ReportsKept'
  <2>1. DOMAIN rows' = DOMAIN rows /\ reports' = reports
        /\ \A j \in DOMAIN rows : rows'[j] = IF rows[j].category = c THEN [rows[j] EXCEPT !.category = None] ELSE rows[j]
    BY <1>10 DEF RemoveCategory
  <2>2. \A j \in DOMAIN rows : LET r == [rows[j] EXCEPT !.category = None] IN
           r.report = rows[j].report /\ r.use = rows[j].use /\ r.amount = rows[j].amount
    BY DEF RowsTyped, Row
  <2>3. \A j \in DOMAIN rows : rows'[j].report = rows[j].report /\ rows'[j].use = rows[j].use /\ rows'[j].amount = rows[j].amount
    BY <2>1, <2>2
  <2> QED BY <1>1, <2>1, <2>3
<1>11. ASSUME UNCHANGED <<rows, reports>> PROVE ReportsKept'
  BY <1>0, <1>11
<1> QED BY <1>2, <1>3, <1>4, <1>5, <1>6, <1>7, <1>8, <1>9, <1>10, <1>11 DEF Write, Upsert, RemoveBudget, CopyFromPrevious

(* Every figure the screens tell of the books agrees with every other, in     *)
(* every state the writes can lead to: for any entries, reports, categories,  *)
(* cards, months and sizes of a page.                                         *)
THEOREM ScreensAgree ==
    ASSUME BooksAssumption PROVE Spec => []FiguresAgree
<1>1. Init => BooksInv
  BY RowsInit
<1>2. BooksInv /\ [Write]_books => BooksInv'
  <2>1. ASSUME BooksInv, Write PROVE BooksInv'
    BY <2>1, TypedStep, MeaningsStep, ReportsStep DEF BooksInv
  <2>2. ASSUME BooksInv, UNCHANGED books PROVE BooksInv'
    <3>1. RowsTyped'
      BY <2>2 DEF BooksInv, RowsTyped, books, Row, Labels, Printed
    <3>2. MeaningsKept'
      BY <2>2 DEF BooksInv, MeaningsKept, books
    <3>3. ReportsKept'
      BY <2>2, KeptReads, KeptReadsNext DEF BooksInv, books
    <3> QED BY <3>1, <3>2, <3>3 DEF BooksInv
  <2> QED BY <2>1, <2>2
<1>3. BooksInv => FiguresAgree
  <2> SUFFICES ASSUME BooksInv PROVE FiguresAgree
    OBVIOUS
  <2>1. \A m \in 1..Months : SameMonth(m)
    BY MonthsAgree DEF BooksInv
  <2>2. \A m \in 1..Months : Explained(m)
    BY FiguresExplained DEF BooksInv
  <2>3. SameElsewhere
    BY AgreeElsewhere
  <2> QED BY <2>1, <2>2, <2>3 DEF FiguresAgree
<1> QED BY <1>1, <1>2, <1>3, PTL DEF Spec
-----------------------------------------------------------------------------
(* A version is a pair, and None is no pair. *)
NoneIsNoVersion == \A r, s : <<r, s>> # None

Told(answer) == answer # None /\ ~Failed(answer)

Call(S) == [key : S, answer : S]

NetInv ==
    /\ \E S : calls \in Seq(Call(S))
    /\ \A k \in DOMAIN shared : shared[k] \in DOMAIN calls /\ calls[shared[k]].key = k
    /\ waiting # 0 => open /\ waiting \in DOMAIN calls /\ calls[waiting].key = <<page, snapshot>>
    /\ ~open => walk = {} /\ ~reload
    /\ Settled /\ ~error => data \in walk
-----------------------------------------------------------------------------
(* Calls *)

(* A call that is answered keeps its key, and the others are left alone. *)
LEMMA Answering ==
    ASSUME NetInv, NEW c \in DOMAIN calls, NEW answer, Answer(c, answer)
    PROVE  /\ NetInv' /\ DOMAIN calls' = DOMAIN calls
           /\ \A d \in DOMAIN calls : calls'[d].key = calls[d].key
           /\ \A d \in DOMAIN calls : d # c => calls'[d] = calls[d]
           /\ calls'[c].answer = answer
           /\ \A k \in DOMAIN shared' : k \in DOMAIN shared /\ shared'[k] = shared[k]
<1> USE DEF NetInv, Answer
<1>1. PICK S : calls \in Seq(Call(S))
  OBVIOUS
<1>2. calls' = [calls EXCEPT ![c] = [calls[c] EXCEPT !.answer = answer]]
  OBVIOUS
<1>3. DOMAIN calls = 1..Len(calls) /\ calls[c] \in Call(S)
  BY <1>1, LenProperties, ElementOfSeq
<1> DEFINE R == S \cup {answer}
           new == [calls[c] EXCEPT !.answer = answer]
<1>4. calls \in Seq(Call(R))
  <2>1. Call(S) \subseteq Call(R)
    BY DEF Call
  <2> QED BY <1>1, <2>1, SeqMonotonic
<1>5. new \in Call(R) /\ new.answer = answer /\ new.key = calls[c].key
  BY <1>3 DEF Call
<1> HIDE DEF new, R
<1>6. /\ calls' \in Seq(Call(R)) /\ Len(calls') = Len(calls)
      /\ \A d \in 1..Len(calls) : calls'[d] = IF d = c THEN new ELSE calls[d]
  BY <1>2, <1>3, <1>4, <1>5, ExceptSeq DEF new
<1>7. /\ DOMAIN calls' = DOMAIN calls /\ calls'[c].answer = answer /\ calls'[c].key = calls[c].key
      /\ \A d \in DOMAIN calls : d # c => calls'[d] = calls[d]
  BY <1>3, <1>5, <1>6, LenProperties
<1>8. \A k \in DOMAIN shared' : k \in DOMAIN shared /\ shared'[k] = shared[k]
  OBVIOUS
<1>9. NetInv'
  <2>1. \E Q : calls' \in Seq(Call(Q))
    BY <1>6
  <2>2. \A k \in DOMAIN shared' : shared'[k] \in DOMAIN calls' /\ calls'[shared'[k]].key = k
    BY <1>7, <1>8
  <2>3. waiting' # 0 => open' /\ waiting' \in DOMAIN calls' /\ calls'[waiting'].key = <<page', snapshot'>>
    BY <1>7
  <2> QED BY <2>1, <2>2, <2>3 DEF Settled
<1> QED BY <1>7, <1>8, <1>9

(* A load finds its call among the shared ones or sends one. *)
LEMMA Loading ==
    ASSUME NetInv, NEW p, NEW version, Load(p, version, shared)
    PROVE  /\ \E S : calls' \in Seq(Call(S))
           /\ \A k \in DOMAIN shared' : shared'[k] \in DOMAIN calls' /\ calls'[shared'[k]].key = k
           /\ waiting' # 0 /\ waiting' \in DOMAIN calls' /\ calls'[waiting'].key = <<p, version>>
           /\ DOMAIN calls \subseteq DOMAIN calls' /\ \A c \in DOMAIN calls : calls'[c] = calls[c]
           /\ \A c \in DOMAIN calls' : Told(calls'[c].answer) => c \in DOMAIN calls
           /\ \A k \in DOMAIN shared' : shared'[k] \in DOMAIN calls => k \in DOMAIN shared /\ shared'[k] = shared[k]
           /\ waiting' \in DOMAIN calls => \E k \in DOMAIN shared : waiting' = shared[k]
<1> USE DEF NetInv
<1> DEFINE key == <<p, version>>
<1>1. PICK S : calls \in Seq(Call(S))
  OBVIOUS
<1>2. DOMAIN calls = 1..Len(calls) /\ Len(calls) \in Nat
  BY <1>1, LenProperties
<1>3. CASE key \in DOMAIN shared
  <2>1. shared' = shared /\ waiting' = shared[key] /\ calls' = calls
    BY <1>3 DEF Load
  <2>2. \A c \in DOMAIN calls' : Told(calls'[c].answer) => c \in DOMAIN calls
    BY <2>1
  <2>3. shared[key] \in DOMAIN calls /\ calls[shared[key]].key = key
    BY <1>3
  <2>4. waiting' # 0
    BY <1>2, <2>1, <2>3
  <2> QED BY <1>3, <2>1, <2>2, <2>3, <2>4
<1>4. CASE key \notin DOMAIN shared
  <2> DEFINE new == [key |-> key, answer |-> None]
             n == Len(calls) + 1
             R == S \cup {key, None}
  <2>1. /\ calls' = Append(calls, new) /\ waiting' = n
        /\ shared' = [k \in DOMAIN shared \cup {key} |-> IF k = key THEN n ELSE shared[k]]
    BY <1>4 DEF Load
  <2>2. new \in Call(R) /\ new.key = key /\ new.answer = None
    BY DEF Call
  <2>3. calls \in Seq(Call(R))
    <3>1. Call(S) \subseteq Call(R)
      BY DEF Call
    <3> QED BY <1>1, <3>1, SeqMonotonic
  <2> HIDE DEF new, key, R
  <2>4. /\ calls' \in Seq(Call(R)) /\ Len(calls') = Len(calls) + 1 /\ calls'[n] = new
        /\ \A c \in 1..Len(calls) : calls'[c] = calls[c]
    BY <2>1, <2>2, <2>3, AppendProperties
  <2>5. DOMAIN calls' = 1..Len(calls')
    BY <2>4, LenProperties
  <2>6. /\ DOMAIN calls' = DOMAIN calls \cup {n} /\ n \notin DOMAIN calls /\ n # 0
        /\ calls'[n] = new /\ \A c \in DOMAIN calls : calls'[c] = calls[c]
    BY <1>2, <2>4, <2>5
  <2> HIDE DEF n
  <2>7. \A k \in DOMAIN shared' : (k = key /\ shared'[k] = n) \/ (k \in DOMAIN shared /\ shared'[k] = shared[k])
    BY <2>1
  <2>8. \A c : c = n => ~Told(calls'[c].answer)
    BY <2>2, <2>6 DEF Told
  <2>9. \A k \in DOMAIN shared' : shared'[k] \in DOMAIN calls' /\ calls'[shared'[k]].key = k
    BY <2>2, <2>6, <2>7
  <2>10. \A k \in DOMAIN shared' : shared'[k] \in DOMAIN calls => k \in DOMAIN shared /\ shared'[k] = shared[k]
    BY <2>6, <2>7
  <2>11. calls'[waiting'].key = key /\ waiting' # 0 /\ waiting' \in DOMAIN calls' /\ waiting' \notin DOMAIN calls
    BY <2>1, <2>2, <2>6
  <2>12. \A c \in DOMAIN calls' : Told(calls'[c].answer) => c \in DOMAIN calls
    BY <2>6, <2>8
  <2> QED BY <2>4, <2>6, <2>9, <2>10, <2>11, <2>12 DEF key
<1> QED BY <1>3, <1>4

(* Every step keeps NetInv. *)
LEMMA InitNet == ExplanationInit => NetInv
<1> SUFFICES ASSUME ExplanationInit PROVE NetInv
  OBVIOUS
<1>1. calls \in Seq(Call({}))
  BY EmptySeq DEF ExplanationInit
<1>2. DOMAIN shared = {} /\ waiting = 0 /\ ~open /\ walk = {} /\ ~reload
  BY DEF ExplanationInit
<1> QED BY <1>1, <1>2 DEF NetInv, Settled

(* A step that turns to a page or loads it again. *)
LEMMA TurnKeeps ==
    ASSUME NetInv, NEW p, NEW version, Load(p, version, shared), page' = p, snapshot' = version,
           open', walk' = {} \/ walk' = walk
    PROVE  NetInv'
<1>1. /\ \E S : calls' \in Seq(Call(S))
      /\ \A k \in DOMAIN shared' : shared'[k] \in DOMAIN calls' /\ calls'[shared'[k]].key = k
      /\ waiting' # 0 /\ waiting' \in DOMAIN calls' /\ calls'[waiting'].key = <<p, version>>
  BY Loading
<1> QED BY <1>1 DEF NetInv, Settled

(* Every step keeps NetInv. *)
LEMMA NetStep == NetInv /\ [ExplanationNext]_all => NetInv'
<1> SUFFICES ASSUME NetInv, [ExplanationNext]_all PROVE NetInv'
  OBVIOUS
<1>1. CASE UNCHANGED all
  BY <1>1 DEF all, panel, net, NetInv, Settled
<1>2. ASSUME NEW c \in Pending, Serve(c) \/ Lose(c) PROVE NetInv'
  BY <1>2, Answering DEF Serve, Lose, Pending
<1>3. ASSUME NEW key \in DOMAIN shared, Expire(key) PROVE NetInv'
  <2>1. /\ \A k \in DOMAIN shared' : k \in DOMAIN shared /\ shared'[k] = shared[k]
        /\ UNCHANGED <<open, page, snapshot, waiting, data, error, reload, walk, calls>>
    BY <1>3 DEF Expire, net
  <2> QED BY <2>1 DEF NetInv, Settled
<1>4. ASSUME NEW v, Open(v) PROVE NetInv'
  BY <1>4, TurnKeeps DEF Open, Turn
<1>5. CASE Next \/ Previous \/ Refresh
  BY <1>5, TurnKeeps DEF Next, Previous, Refresh, Turn, Settled
<1>6. CASE Reload
  <2>1. open
    BY <1>6 DEF Reload, NetInv
  <2> QED BY <1>6, <2>1, TurnKeeps DEF Reload
<1>7. CASE Close
  BY <1>7 DEF Close, NetInv, Settled, net
<1>8. CASE Settle
  <2>1. open' /\ waiting' = 0 /\ (~error' => data' \in walk') /\ UNCHANGED <<calls, shared, page, snapshot>>
    BY <1>8 DEF Settle, NetInv, net
  <2> QED BY <2>1 DEF NetInv, Settled
<1>9. CASE OwnWrite \/ OtherWrite \/ \E w \in writing : AnswerLost(w)
  BY <1>9 DEF OwnWrite, OtherWrite, AnswerLost, panel, NetInv, Settled
<1>10. ASSUME NEW w \in writing, Changed(w) PROVE NetInv'
  <2>1. /\ DOMAIN shared' = {} /\ reload' = open
        /\ UNCHANGED <<open, page, snapshot, waiting, data, error, walk, calls>>
    BY <1>10 DEF Changed, Emptied
  <2> QED BY <2>1 DEF NetInv, Settled
<1> QED
  BY <1>1, <1>2, <1>3, <1>4, <1>5, <1>6, <1>7, <1>8, <1>9, <1>10 DEF ExplanationNext
-----------------------------------------------------------------------------
(* Own writes *)

RecentInv ==
    /\ writes \in Nat /\ told \in Nat /\ told <= writes /\ writing \subseteq 1..writes
    /\ \A c \in DOMAIN calls : Told(calls[c].answer) => calls[c].answer.at \in Nat
    /\ \A k \in DOMAIN shared : Told(calls[shared[k]].answer) => calls[shared[k]].answer.at >= told
    /\ waiting # 0 /\ ~reload /\ Told(calls[waiting].answer) => calls[waiting].answer.at >= told
    /\ Settled /\ ~error /\ ~reload => data.at >= told

(* The server answers from the books as they are. *)
LEMMA ServedNow ==
    ASSUME NEW p, NEW version, ~Failed(FinancialMetric(p, version))
    PROVE  /\ FinancialMetric(p, version).at = writes
           /\ FinancialMetric(p, version).version = DataVersion
           /\ FinancialMetric(p, version).page = p
           /\ version = None \/ version = DataVersion
<1>1. \A message : Failed([failed |-> message])
  BY DEF Failed
<1> QED BY <1>1 DEF FinancialMetric, Stale

(* An answer, when it comes, is as new as any write answered. *)
LEMMA AnswerRecent ==
    ASSUME NetInv, RecentInv, NEW c \in Pending, Serve(c) \/ Lose(c)
    PROVE  RecentInv'
<1> USE DEF NetInv, RecentInv
<1>1. PICK answer : Answer(c, answer) /\ (Failed(answer) \/ answer.at = writes)
  <2>1. Failed([failed |-> "lost"])
    BY DEF Failed
  <2> QED BY <2>1, ServedNow DEF Serve, Lose
<1>2. c \in DOMAIN calls /\ ~Told(calls[c].answer)
  BY DEF Pending, Told
<1>3. /\ DOMAIN calls' = DOMAIN calls
      /\ \A d \in DOMAIN calls : d # c => calls'[d] = calls[d]
      /\ calls'[c].answer = answer
      /\ \A k \in DOMAIN shared' : k \in DOMAIN shared /\ shared'[k] = shared[k]
  BY <1>1, <1>2, Answering
<1>4. UNCHANGED <<writes, told, writing, waiting, reload, open, data, error>>
  BY <1>1 DEF Answer
<1>5. \A d \in DOMAIN calls : Told(calls'[d].answer) =>
          \/ d # c /\ Told(calls[d].answer) /\ calls'[d].answer = calls[d].answer
          \/ d = c /\ calls'[d].answer.at = writes
  BY <1>1, <1>3 DEF Told
<1>6. \A d \in DOMAIN calls : Told(calls'[d].answer) => calls'[d].answer.at \in Nat
  BY <1>5
<1>7. \A k \in DOMAIN shared' : Told(calls'[shared'[k]].answer) => calls'[shared'[k]].answer.at >= told
  BY <1>3, <1>5
<1>8. waiting # 0 /\ ~reload /\ Told(calls'[waiting].answer) => calls'[waiting].answer.at >= told
  BY <1>5
<1> QED BY <1>3, <1>4, <1>6, <1>7, <1>8 DEF Settled, Told

(* A page that is turned to, or loaded again, is awaited from a shared call   *)
(* or a new one.                                                              *)
LEMMA TurnRecent ==
    ASSUME NetInv, RecentInv, NEW p, NEW version, Load(p, version, shared), UNCHANGED <<writes, told, writing>>
    PROVE  RecentInv'
<1> USE DEF NetInv, RecentInv
<1>1. /\ waiting' # 0 /\ waiting' \in DOMAIN calls'
      /\ DOMAIN calls \subseteq DOMAIN calls' /\ \A c \in DOMAIN calls : calls'[c] = calls[c]
      /\ \A c \in DOMAIN calls' : Told(calls'[c].answer) => c \in DOMAIN calls
      /\ \A k \in DOMAIN shared' : shared'[k] \in DOMAIN calls => k \in DOMAIN shared /\ shared'[k] = shared[k]
      /\ \A k \in DOMAIN shared' : shared'[k] \in DOMAIN calls'
      /\ waiting' \in DOMAIN calls => \E k \in DOMAIN shared : waiting' = shared[k]
  BY Loading
<1>2. \A c \in DOMAIN calls' : Told(calls'[c].answer) => c \in DOMAIN calls /\ Told(calls[c].answer) /\ calls'[c].answer = calls[c].answer
  BY <1>1 DEF Told
<1>3. \A c \in DOMAIN calls' : Told(calls'[c].answer) => calls'[c].answer.at \in Nat
  BY <1>2
<1>4. \A k \in DOMAIN shared' : Told(calls'[shared'[k]].answer) => calls'[shared'[k]].answer.at >= told
  BY <1>1, <1>2
<1>5. Told(calls'[waiting'].answer) => calls'[waiting'].answer.at >= told
  BY <1>1, <1>2
<1> QED BY <1>1, <1>3, <1>4, <1>5 DEF Settled

(* Every step keeps RecentInv. *)
LEMMA RecentStep == NetInv /\ RecentInv /\ [ExplanationNext]_all => RecentInv'
<1> SUFFICES ASSUME NetInv, RecentInv, [ExplanationNext]_all PROVE RecentInv'
  OBVIOUS
<1> USE DEF RecentInv
<1>1. CASE UNCHANGED all
  BY <1>1 DEF all, panel, net, Settled, Told
<1>2. ASSUME NEW key \in DOMAIN shared, Expire(key) PROVE RecentInv'
  <2>1. /\ \A k \in DOMAIN shared' : k \in DOMAIN shared /\ shared'[k] = shared[k]
        /\ UNCHANGED <<open, waiting, data, error, reload, net>>
    BY <1>2 DEF Expire
  <2> QED BY <2>1 DEF Settled, Told, net
<1>3. ASSUME NEW v, Open(v) PROVE RecentInv'
  BY <1>3, TurnRecent DEF Open, Turn
<1>4. CASE Next \/ Previous \/ Refresh
  BY <1>4, TurnRecent DEF Next, Previous, Refresh, Turn
<1>5. CASE Reload
  BY <1>5, TurnRecent DEF Reload
<1>6. CASE Close
  BY <1>6 DEF Close, Settled, Told, net
<1>7. CASE Settle
  <2>1. waiting # 0 /\ (~error' => Told(calls[waiting].answer) /\ data' = calls[waiting].answer)
    BY <1>7 DEF Settle, Told
  <2>2. UNCHANGED <<calls, shared, writes, told, writing, reload>> /\ waiting' = 0
    BY <1>7 DEF Settle, net
  <2>3. ~error' /\ ~reload' => data'.at >= told'
    BY <2>1, <2>2
  <2> QED BY <2>2, <2>3
<1>8. CASE OwnWrite \/ OtherWrite
  <2>1. writes' = writes + 1 /\ writing' \subseteq writing \cup {writes + 1} /\ UNCHANGED <<panel, calls, told>>
    BY <1>8 DEF OwnWrite, OtherWrite
  <2> QED BY <2>1 DEF panel, Settled, Told
<1>9. ASSUME NEW w \in writing, AnswerLost(w) PROVE RecentInv'
  BY <1>9 DEF AnswerLost, panel, Settled, Told
<1>10. ASSUME NEW w \in writing, Changed(w) PROVE RecentInv'
  <2>1. /\ DOMAIN shared' = {} /\ reload' = open /\ writing' \subseteq writing /\ told' \in {w, told}
        /\ UNCHANGED <<open, waiting, data, error, calls, writes>>
    BY <1>10 DEF Changed, Emptied
  <2>2. writing' \subseteq 1..writes /\ w \in 1..writes
    BY <2>1
  <2>3. (waiting' # 0 => reload') /\ (Settled' => reload')
    <3>1. waiting # 0 => open
      BY DEF NetInv
    <3> QED BY <2>1, <3>1 DEF Settled
  <2>4. /\ writes' \in Nat /\ told' \in Nat /\ told' <= writes' /\ writing' \subseteq 1..writes'
        /\ \A c \in DOMAIN calls' : Told(calls'[c].answer) => calls'[c].answer.at \in Nat
    BY <2>1, <2>2
  <2>5. \A k \in DOMAIN shared' : Told(calls'[shared'[k]].answer) => calls'[shared'[k]].answer.at >= told'
    BY <2>1
  <2> QED BY <2>3, <2>4, <2>5
<1> QED
  BY <1>1, <1>2, <1>3, <1>4, <1>5, <1>6, <1>7, <1>8, <1>9, <1>10, AnswerRecent DEF ExplanationNext

(* Once an own write is answered and nothing is left to load, the figure     *)
(* shown was read after it: for any books, figure, page and order of answers.*)
THEOREM WritesAreShown == ExplanationSpec => []OwnWritesShown
<1>1. ExplanationInit => RecentInv
  BY DEF ExplanationInit, RecentInv, Settled
<1>2. NetInv /\ RecentInv /\ [ExplanationNext]_all => NetInv' /\ RecentInv'
  BY NetStep, RecentStep
<1>3. RecentInv => OwnWritesShown
  BY DEF RecentInv, OwnWritesShown
<1> QED BY <1>1, <1>2, <1>3, InitNet, PTL DEF ExplanationSpec
-----------------------------------------------------------------------------
(* The figure at a version of the books: the operators of Books with the      *)
(* rows and reports for parameters.                                           *)
InAt(r, table) == {i \in DOMAIN r : i[1] = table}
DatedAt(r, ids) == {i \in ids : r[i].date \in DaysOf(Shown)}
CreditAt(r, s) == DatedAt(r, {i \in {i \in InAt(r, "card") : s[r[i].report].status = "confirmed"} : r[i].use # "financing"})
TotalsAt(r, s) ==
    LET income == TotalAt(r, DatedAt(r, InAt(r, "income")))
        expense == TotalAt(r, DatedAt(r, InAt(r, "expense"))) + TotalAt(r, CreditAt(r, s))
    IN [income |-> income, expense |-> expense, credit |-> TotalAt(r, CreditAt(r, s)), balance |-> income - expense]
SourcesAt(r, s) ==
    <<IF Name = "income" THEN {} ELSE DatedAt(r, InAt(r, "expense")), IF Name = "income" THEN {} ELSE CreditAt(r, s),
      IF Name = "expense" THEN {} ELSE DatedAt(r, InAt(r, "income"))>>
ComponentsAt(r, s, p) ==
    LET next(acc, ids) ==
            IF acc.skip >= Cardinality(ids) THEN [acc EXCEPT !.skip = @ - Cardinality(ids)]
            ELSE [skip |-> 0, taken |-> acc.taken \cup Taken(ids, acc.skip, PageSize - Cardinality(acc.taken))]
        first == [skip |-> (p - 1) * PageSize, taken |-> {}]
        ids == SourcesAt(r, s)
    IN next(next(next(first, ids[1]), ids[2]), ids[3]).taken
SignedAt(r, i) == IF Name = "surplus" /\ i[1] # "income" THEN -r[i].amount ELSE r[i].amount

ValueAt(r, s) ==
    LET t == TotalsAt(r, s) IN IF Name = "income" THEN t.income ELSE IF Name = "expense" THEN t.expense ELSE t.balance
CountAt(r, s) == LET ids == SourcesAt(r, s) IN Cardinality(ids[1]) + Cardinality(ids[2]) + Cardinality(ids[3])
PartsAt(r, s, p) == {<<i, SignedAt(r, i)>> : i \in ComponentsAt(r, s, p)}
SumOf(parts) == FoldSet(LAMBDA c, n : n + c[2], 0, parts)
AddsUp(r, s) ==
    LET parts == UNION {PartsAt(r, s, p) : p \in Pages(CountAt(r, s))}
    IN Cardinality(parts) = CountAt(r, s) /\ SumOf(parts) = ValueAt(r, s)

(* What the panel takes from the books: the figure shown is the sum of its     *)
(* rows, a number of them.                                                     *)
FigureAddsUp == Explained(Shown) /\ Metric(Name, Shown, 1).total \in Nat

LEMMA FigureIsSum == ASSUME BooksAssumption, RowsTyped PROVE FigureAddsUp
  BY FiguresExplained, AllPages DEF FigureAddsUp

(* The books the panel starts from are typed, and its steps keep them so.      *)
LEMMA EnteredTyped ==
    ASSUME BooksAssumption, NEW S \in SUBSET Entries, rows = Entered(S) PROVE RowsTyped
<1> DEFINE upTo(e) == {f \in S : f.kind = e.kind /\ f.date <= e.date}
           id(e) == <<e.kind, Cardinality(upTo(e))>>
           ids == {id(e) : e \in S}
           at == [e \in S |-> id(e)]
<1>1. IsFiniteSet(S)
  BY FS_Subset DEF BooksAssumption
<1>2. ASSUME NEW e \in S PROVE id(e) \in TableNames \X Nat
  <2>1. Cardinality(upTo(e)) \in Nat
    BY <1>1, FS_Subset, FS_CardinalityType
  <2> QED BY <2>1 DEF BooksAssumption, TableNames
<1>3. at \in Surjection(S, ids)
  BY DEF Surjection
<1>4. rows = [i \in ids |-> Typed(CHOOSE e \in S : id(e) = i)]
  BY DEF Entered
<1> HIDE DEF id, at
<1>5. IsFiniteSet(ids)
  BY <1>1, <1>3, FS_Surjection
<1>6. \A i \in ids : (CHOOSE e \in S : id(e) = i) \in Entries
  OBVIOUS
<1>7. \A i \in ids : rows[i] \in Row
  BY <1>4, <1>6, TypedRow
<1>8. DOMAIN rows = ids /\ ids \in SUBSET (TableNames \X Nat)
  BY <1>2, <1>4
<1> QED BY <1>5, <1>7, <1>8 DEF RowsTyped

LEMMA RowsStep ==
    ASSUME BooksAssumption PROVE RowsTyped /\ [ExplanationNext]_all => RowsTyped'
<1> SUFFICES ASSUME RowsTyped, [ExplanationNext]_all PROVE RowsTyped'
  OBVIOUS
<1>1. CASE Write
  BY <1>1, TypedStep
<1>2. CASE UNCHANGED books
  BY <1>2 DEF books, RowsTyped, Row, Labels, Printed
<1>3. Write \/ UNCHANGED books
  <2>1. CASE UNCHANGED all
    BY <2>1 DEF all
  <2>2. CASE ExplanationNext
    BY <2>2 DEF ExplanationNext, Serve, Lose, Answer, Expire, Open, Close, Settle, Next, Previous, Refresh,
                OwnWrite, OtherWrite, Reload, Changed, AnswerLost
  <2> QED BY <2>1, <2>2
<1> QED BY <1>1, <1>2, <1>3

(* The server's answer is a function of the version and the page. *)
LEMMA MetricOf ==
    ASSUME NEW p
    PROVE  /\ Metric(Name, Shown, p).value = ValueAt(rows, reports)
           /\ Metric(Name, Shown, p).total = CountAt(rows, reports)
           /\ Metric(Name, Shown, p).components = PartsAt(rows, reports, p)
<1> USE DEF Sources, SourcesAt, Expenses, CreditIn, Incomes, DatedAt, CreditAt, In, InAt, SpendingCredit, Confirmed
<1>1. MonthTotals(Shown) = TotalsAt(rows, reports)
  BY DEF MonthTotals, TotalsAt, Total, TotalAt
<1>2. Components(Name, Shown, p) = ComponentsAt(rows, reports, p)
  BY DEF Components, ComponentsAt
<1>3. \A i : Signed(Name, i) = SignedAt(rows, i)
  BY DEF Signed, SignedAt
<1>4. (LET ids == Sources(Name, Shown) IN Cardinality(ids[1]) + Cardinality(ids[2]) + Cardinality(ids[3])) = CountAt(rows, reports)
  BY DEF CountAt
<1> HIDE DEF Sources, SourcesAt, Expenses, CreditIn, Incomes, DatedAt, CreditAt, In, InAt, SpendingCredit, Confirmed
<1>5. Metric(Name, Shown, p).value = ValueAt(rows, reports)
  BY <1>1 DEF Metric, ValueAt
<1>6. Metric(Name, Shown, p).total = CountAt(rows, reports)
  BY <1>4 DEF Metric
<1>7. Metric(Name, Shown, p).components = PartsAt(rows, reports, p)
  BY <1>2, <1>3 DEF Metric, PartsAt
<1> QED BY <1>5, <1>6, <1>7

LEMMA AddsUpNow ==
    ASSUME Name \in Names, FigureAddsUp
    PROVE  AddsUp(rows, reports) /\ CountAt(rows, reports) \in Nat
<1> DEFINE first == Metric(Name, Shown, 1)
           parts == UNION {Metric(Name, Shown, p).components : p \in Pages(first.total)}
<1>1. first.value = SumOf(parts) /\ Cardinality(parts) = first.total /\ first.total \in Nat
  BY DEF FigureAddsUp, Explained, SumOf
<1>2. first.value = ValueAt(rows, reports) /\ first.total = CountAt(rows, reports)
  BY MetricOf
<1>3. \A p : Metric(Name, Shown, p).components = PartsAt(rows, reports, p)
  BY MetricOf
<1>4. parts = UNION {PartsAt(rows, reports, p) : p \in Pages(CountAt(rows, reports))}
  BY <1>2, <1>3
<1> HIDE DEF parts, first
<1> QED BY <1>1, <1>2, <1>4 DEF AddsUp

(* The page behind a full one is a page of the figure. *)
LEMMA PageAhead ==
    ASSUME PageSize \in Nat \ {0}, NEW n \in Nat, NEW p \in Nat, p * PageSize < n
    PROVE  p + 1 \in Pages(n)
<1> DEFINE a == n + PageSize - 1
           q == a \div PageSize
           m == a % PageSize
<1>1. a \in Nat /\ (p + 1) * PageSize <= a /\ n # 0
  OBVIOUS
<1>2. q \in Int /\ a = PageSize * q + m /\ m \in 0..(PageSize - 1)
  <2>1. \A k \in Nat, b \in Nat \ {0} : k \div b \in Int /\ k = b * (k \div b) + (k % b) /\ k % b \in 0..(b - 1)
    OBVIOUS
  <2> QED BY <1>1, <2>1
<1> HIDE DEF q, m
<1>3. ~(p + 1 >= q + 1)
  <2> SUFFICES ASSUME p + 1 >= q + 1 PROVE FALSE
    OBVIOUS
  <2>1. (p + 1) * PageSize >= (q + 1) * PageSize
    BY <1>2
  <2>2. (q + 1) * PageSize = PageSize * q + PageSize
    BY <1>2
  <2> QED BY <1>1, <1>2, <2>1, <2>2
<1>4. p + 1 <= q
  BY <1>2, <1>3
<1>5. Pages(n) = 1..q
  BY <1>1 DEF Pages, q
<1> QED BY <1>2, <1>4, <1>5

(* The page before another is a page of the figure. *)
LEMMA PageBefore ==
    ASSUME PageSize \in Nat \ {0}, NEW n \in Nat, NEW p \in Pages(n), p > 1
    PROVE  p - 1 \in Pages(n)
<1> DEFINE last == IF n = 0 THEN 1 ELSE (n + PageSize - 1) \div PageSize
<1>1. last \in Int
  <2>1. \A a \in Nat, b \in Nat \ {0} : a \div b \in Int
    OBVIOUS
  <2>2. n # 0 => n + PageSize - 1 \in Nat
    OBVIOUS
  <2> QED BY <2>1, <2>2
<1>2. Pages(n) = 1..last
  BY DEF Pages
<1> HIDE DEF last
<1> QED BY <1>1, <1>2
-----------------------------------------------------------------------------
(* Pages *)

Tells(x) ==
    /\ x.version # None /\ x.total \in Nat
    /\ x.value = ValueAt(x.version[1], x.version[2]) /\ x.total = CountAt(x.version[1], x.version[2])
    /\ x.components = PartsAt(x.version[1], x.version[2], x.page)
    /\ AddsUp(x.version[1], x.version[2])

WalkInv ==
    /\ page \in Nat \ {0} /\ (page > 1 => snapshot # None) /\ (walk = {} => page = 1)
    /\ \A c \in DOMAIN calls : Told(calls[c].answer) =>
          /\ Tells(calls[c].answer) /\ calls[c].answer.page = calls[c].key[1]
          /\ calls[c].key[2] = None \/ calls[c].answer.version = calls[c].key[2]
    /\ \A x \in walk : Tells(x) /\ x.page \in Pages(x.total)
    /\ \A x, y \in walk : x.version = y.version
    /\ snapshot # None => \A x \in walk : x.version = snapshot /\ page \in Pages(x.total)

LEMMA FirstPage == ASSUME NEW n \in Nat, PageSize \in Nat \ {0} PROVE 1 \in Pages(n)
<1>1. CASE n = 0
  BY <1>1 DEF Pages
<1>2. CASE n # 0
  BY <1>2, PageAhead, 0 * PageSize < n
<1> QED BY <1>1, <1>2

(* What the server answers tells the version it answers from. *)
LEMMA ServedTells ==
    ASSUME Name \in Names, NoneIsNoVersion, FigureAddsUp,
           NEW p, NEW version, ~Failed(FinancialMetric(p, version))
    PROVE  /\ Tells(FinancialMetric(p, version)) /\ FinancialMetric(p, version).page = p
           /\ version = None \/ FinancialMetric(p, version).version = version
<1> DEFINE x == FinancialMetric(p, version)
           m == Metric(Name, Shown, p)
<1>1. x.version = DataVersion /\ x.page = p /\ (version = None \/ version = DataVersion)
  BY ServedNow
<1>2. x.value = m.value /\ x.total = m.total /\ x.components = m.components
  <2>1. \A message : Failed([failed |-> message])
    BY DEF Failed
  <2> HIDE DEF m
  <2> QED BY <2>1 DEF FinancialMetric, m
<1>3. DataVersion # None /\ x.version[1] = rows /\ x.version[2] = reports
  BY <1>1 DEF DataVersion, NoneIsNoVersion
<1>4. m.value = ValueAt(rows, reports) /\ m.total = CountAt(rows, reports) /\ m.components = PartsAt(rows, reports, p)
  BY MetricOf
<1> HIDE DEF x, m
<1>5. Tells(x)
  BY <1>1, <1>2, <1>3, <1>4, AddsUpNow DEF Tells
<1> QED BY <1>1, <1>5 DEF x

(* An answer tells its own version: the one asked for, if one was. *)
LEMMA AnswerTells ==
    ASSUME Name \in Names, NoneIsNoVersion, FigureAddsUp, NetInv, WalkInv, NEW c \in Pending, Serve(c) \/ Lose(c)
    PROVE  WalkInv'
<1>1. PICK answer :
          /\ Answer(c, answer)
          /\ Told(answer) => /\ Tells(answer) /\ answer.page = calls[c].key[1]
                             /\ calls[c].key[2] = None \/ answer.version = calls[c].key[2]
  <2>1. Failed([failed |-> "lost"])
    BY DEF Failed
  <2>2. CASE Lose(c)
    BY <2>1, <2>2 DEF Lose, Told
  <2>3. CASE Serve(c)
    BY <2>3, ServedTells DEF Serve, Told
  <2> QED BY <2>2, <2>3
<1>2. c \in DOMAIN calls
  BY DEF Pending
<1>3. /\ DOMAIN calls' = DOMAIN calls
      /\ \A d \in DOMAIN calls : calls'[d].key = calls[d].key
      /\ \A d \in DOMAIN calls : d # c => calls'[d] = calls[d]
      /\ calls'[c].answer = answer
  BY <1>1, <1>2, Answering
<1>4. UNCHANGED <<page, snapshot, walk>>
  BY <1>1 DEF Answer
<1>5. \A d \in DOMAIN calls' : Told(calls'[d].answer) =>
          /\ Tells(calls'[d].answer) /\ calls'[d].answer.page = calls'[d].key[1]
          /\ calls'[d].key[2] = None \/ calls'[d].answer.version = calls'[d].key[2]
  <2> SUFFICES ASSUME NEW d \in DOMAIN calls, Told(calls'[d].answer)
               PROVE  /\ Tells(calls'[d].answer) /\ calls'[d].answer.page = calls'[d].key[1]
                      /\ calls'[d].key[2] = None \/ calls'[d].answer.version = calls'[d].key[2]
    BY <1>3
  <2>1. CASE d = c
    BY <1>1, <1>3, <2>1
  <2>2. CASE d # c
    BY <1>3, <2>2 DEF WalkInv
  <2> QED BY <2>1, <2>2
<1> QED BY <1>4, <1>5 DEF WalkInv

(* A page is turned to, or loaded again: the pages shown are of its version. *)
LEMMA TurnTells ==
    ASSUME NetInv, WalkInv, NEW p \in Nat \ {0}, NEW version, Load(p, version, shared),
           page' = p, snapshot' = version, walk' = {} \/ walk' = walk, p > 1 => version # None, walk' = {} => p = 1,
           version # None => \A x \in walk' : x.version = version /\ p \in Pages(x.total)
    PROVE  WalkInv'
<1>1. /\ \A c \in DOMAIN calls : calls'[c] = calls[c]
      /\ \A c \in DOMAIN calls' : Told(calls'[c].answer) => c \in DOMAIN calls
  BY Loading
<1>2. \A c \in DOMAIN calls' : Told(calls'[c].answer) =>
          /\ Tells(calls'[c].answer) /\ calls'[c].answer.page = calls'[c].key[1]
          /\ calls'[c].key[2] = None \/ calls'[c].answer.version = calls'[c].key[2]
  BY <1>1 DEF WalkInv
<1>3. /\ \A x \in walk' : Tells(x) /\ x.page \in Pages(x.total)
      /\ \A x, y \in walk' : x.version = y.version
  BY DEF WalkInv
<1> QED BY <1>2, <1>3 DEF WalkInv

(* What was awaited is shown. *)
LEMMA SettleTells ==
    ASSUME PageSize \in Nat \ {0}, NetInv, WalkInv, Settle
    PROVE  WalkInv'
<1> DEFINE answer == calls[waiting].answer
<1>1. UNCHANGED <<calls, page, snapshot>> /\ waiting \in DOMAIN calls /\ calls[waiting].key = <<page, snapshot>>
  BY DEF Settle, net, NetInv
<1>2. CASE Failed(answer)
  <2>1. walk' = walk
    BY <1>2 DEF Settle
  <2> QED BY <1>1, <2>1 DEF WalkInv
<1>3. CASE ~Failed(answer)
  <2>1. Told(answer) /\ walk' = IF snapshot = None THEN {answer} ELSE walk \cup {answer}
    BY <1>3 DEF Settle, Told
  <2>2. Tells(answer) /\ answer.page = page /\ (snapshot = None \/ answer.version = snapshot)
    BY <1>1, <2>1 DEF WalkInv
  <2>3. answer.total \in Nat /\ answer.total = CountAt(answer.version[1], answer.version[2])
    BY <2>2 DEF Tells
  <2>4. page \in Pages(answer.total)
    <3>1. CASE page = 1
      BY <2>3, <3>1, FirstPage
    <3>2. CASE page # 1
      <4>1. snapshot # None /\ walk # {}
        BY <3>2 DEF WalkInv
      <4>2. PICK x \in walk : TRUE
        BY <4>1
      <4>3. x.version = answer.version /\ page \in Pages(x.total) /\ Tells(x)
        BY <2>2, <4>1, <4>2 DEF WalkInv
      <4>4. x.total = answer.total
        BY <2>3, <4>3 DEF Tells
      <4> QED BY <4>3, <4>4
    <3> QED BY <3>1, <3>2
  <2> HIDE DEF answer
  <2>5. \A x \in walk' : Tells(x) /\ x.page \in Pages(x.total)
    BY <2>1, <2>2, <2>4 DEF WalkInv
  <2>6. \A x, y \in walk' : x.version = y.version
    BY <2>1, <2>2 DEF WalkInv
  <2>7. snapshot # None => \A x \in walk' : x.version = snapshot /\ page \in Pages(x.total)
    BY <2>1, <2>2, <2>4 DEF WalkInv
  <2> QED BY <1>1, <2>1, <2>5, <2>6, <2>7 DEF WalkInv
<1> QED BY <1>2, <1>3

(* Every step keeps WalkInv. *)
LEMMA WalkStep ==
    ASSUME Name \in Names, PageSize \in Nat \ {0}, NoneIsNoVersion
    PROVE  NetInv /\ WalkInv /\ FigureAddsUp /\ [ExplanationNext]_all => WalkInv'
<1> SUFFICES ASSUME NetInv, WalkInv, FigureAddsUp, [ExplanationNext]_all PROVE WalkInv'
  OBVIOUS
<1>1. CASE UNCHANGED <<page, snapshot, walk, calls>>
  BY <1>1 DEF WalkInv
<1>2. ASSUME NEW v, Open(v) PROVE WalkInv'
  BY <1>2, TurnTells DEF Open, Turn
<1>3. ASSUME ~error, Settled PROVE data \in walk /\ data.version # None /\ data.total \in Nat
  BY <1>3 DEF NetInv, WalkInv, Tells
<1>4. ASSUME ~error, Settled PROVE \A x \in walk : x.version = data.version /\ x.total = data.total
  BY <1>3, <1>4 DEF WalkInv, Tells
<1>5. CASE Next
  <2>1. /\ ~error /\ Settled /\ Load(page + 1, data.version, shared) /\ page * PageSize < data.total
        /\ page' = page + 1 /\ snapshot' = data.version /\ walk' = walk
    BY <1>5 DEF Next, Turn
  <2>2. page \in Nat \ {0}
    BY DEF WalkInv
  <2>3. page + 1 \in Pages(data.total)
    BY <1>3, <2>1, <2>2, PageAhead
  <2> QED BY <1>3, <1>4, <2>1, <2>2, <2>3, TurnTells
<1>6. CASE Previous
  <2>1. /\ ~error /\ Settled /\ Load(page - 1, data.version, shared) /\ page > 1
        /\ page' = page - 1 /\ snapshot' = data.version /\ walk' = walk
    BY <1>6 DEF Previous, Turn
  <2>2. page \in Nat \ {0} /\ page \in Pages(data.total)
    BY <1>3, <2>1 DEF WalkInv
  <2>3. page - 1 \in Pages(data.total)
    BY <1>3, <2>1, <2>2, PageBefore
  <2> QED BY <1>3, <1>4, <2>1, <2>2, <2>3, TurnTells
<1>7. CASE Refresh
  <2>1. Load(1, None, shared) /\ page' = 1 /\ snapshot' = None /\ walk' = walk
    BY <1>7 DEF Refresh, Turn
  <2> QED BY <2>1, TurnTells
<1>8. CASE Reload
  <2>1. Load(page, snapshot, shared) /\ UNCHANGED <<page, snapshot, walk>>
    BY <1>8 DEF Reload
  <2> QED BY <2>1, TurnTells DEF WalkInv
<1>9. CASE Close
  <2>1. page' = 1 /\ snapshot' = None /\ walk' = {} /\ calls' = calls
    BY <1>9 DEF Close, net
  <2> QED BY <2>1 DEF WalkInv
<1>10. CASE OwnWrite \/ OtherWrite \/ (\E w \in writing : AnswerLost(w) \/ Changed(w)) \/ \E key \in DOMAIN shared : Expire(key)
  <2>1. UNCHANGED <<page, snapshot, walk, calls>>
    BY <1>10 DEF OwnWrite, OtherWrite, AnswerLost, Changed, Expire, panel, net
  <2> QED BY <1>1, <2>1
<1>11. CASE UNCHANGED all
  BY <1>1, <1>11 DEF all, panel, net
<1> QED
  BY <1>2, <1>5, <1>6, <1>7, <1>8, <1>9, <1>10, <1>11, AnswerTells, SettleTells DEF ExplanationNext

(* The pages shown tell the whole figure once each of them was. *)
LEMMA WalkTells == WalkInv => PagesOfOneVersion
<1> SUFFICES ASSUME WalkInv PROVE PagesOfOneVersion
  OBVIOUS
<1>1. \A x, y \in walk : x.version = y.version /\ x.value = y.value
  BY DEF WalkInv, Tells
<1>2. ASSUME NEW x \in walk, Pages(x.total) \subseteq {y.page : y \in walk}
      PROVE  /\ Cardinality(UNION {y.components : y \in walk}) = x.total
             /\ SumOf(UNION {y.components : y \in walk}) = x.value
  <2> DEFINE r == x.version[1]
             s == x.version[2]
             beside == UNION {y.components : y \in walk}
             parts == UNION {PartsAt(r, s, p) : p \in Pages(CountAt(r, s))}
  <2>1. x.total = CountAt(r, s) /\ x.value = ValueAt(r, s) /\ AddsUp(r, s)
    BY DEF WalkInv, Tells
  <2>2. \A y \in walk : y.components = PartsAt(r, s, y.page) /\ y.page \in Pages(CountAt(r, s))
    BY DEF WalkInv, Tells
  <2> HIDE DEF r, s
  <2>3. beside \subseteq parts
    BY <2>2
  <2>4. parts \subseteq beside
    <3> SUFFICES ASSUME NEW p \in Pages(CountAt(r, s)) PROVE \E y \in walk : y.components = PartsAt(r, s, p)
      OBVIOUS
    <3>1. PICK y \in walk : y.page = p
      BY <1>2, <2>1
    <3> QED BY <2>2, <3>1
  <2>5. beside = parts
    BY <2>3, <2>4
  <2>6. Cardinality(parts) = x.total /\ SumOf(parts) = x.value
    BY <2>1 DEF AddsUp
  <2> HIDE DEF parts, beside
  <2> QED BY <2>5, <2>6 DEF beside
<1> QED BY <1>1, <1>2 DEF PagesOfOneVersion, SumOf

(* Whatever the books, the writes and the order of the answers: the pages     *)
(* shown beside each other tell one value of one version, and once all of them*)
(* were shown their rows, each of them once, add up to it.                    *)
THEOREM PagesAreOne ==
    ASSUME BooksAssumption, Name \in Names, NoneIsNoVersion
    PROVE  ExplanationSpec => []PagesOfOneVersion
<1>1. ExplanationInit => WalkInv
  <2> SUFFICES ASSUME ExplanationInit PROVE WalkInv
    OBVIOUS
  <2>1. page = 1 /\ snapshot = None /\ walk = {} /\ calls = <<>>
    BY DEF ExplanationInit
  <2> QED BY <2>1 DEF WalkInv
<1>2. ExplanationInit => RowsTyped
  BY EnteredTyped DEF ExplanationInit
<1>3. RowsTyped /\ NetInv /\ WalkInv /\ [ExplanationNext]_all => RowsTyped' /\ NetInv' /\ WalkInv'
  <2>1. PageSize \in Nat \ {0}
    BY DEF BooksAssumption
  <2> QED BY <2>1, RowsStep, FigureIsSum, NetStep, WalkStep
<1> QED BY <1>1, <1>2, <1>3, InitNet, WalkTells, PTL DEF ExplanationSpec
-----------------------------------------------------------------------------
(* The check-in.  What the comparison needs of a snapshot is that it was     *)
(* taken of some rows: it keeps recent ones, hashes all others, and says so  *)
(* when a recent one did not fit.                                            *)
Tables == UNION {[S -> Record] : S \in SUBSET Rows}
Recent(table, start) == {r \in DOMAIN table : table[r].date >= start}
TakenOf(s, table) ==
    /\ table \in Tables /\ s.start \in Int
    /\ \E K \in SUBSET Recent(table, s.start) :
          /\ s.rows = [r \in K |-> table[r]] /\ s.historical = [r \in DOMAIN table \ K |-> table[r]]
          /\ s.truncated = (K # Recent(table, s.start))

WeekInv ==
    /\ month \in Nat /\ moves \in Nat /\ entered \in Tables
    /\ previous # Nothing => TakenOf(previous, before)

LEMMA RowsOfTables ==
    ASSUME NEW table \in Tables
    PROVE  /\ DOMAIN table \subseteq Rows /\ table = [r \in DOMAIN table |-> table[r]]
           /\ \A r \in DOMAIN table : table[r] \in Record /\ table[r].date \in Nat /\ table[r] # Nothing
  <1>1. PICK S \in SUBSET Rows : table \in [S -> Record]  BY DEF Tables
  <1>2. Nothing \notin Record  BY CheckInAssumption
  <1>3. \A r \in S : table[r] \in Record  BY <1>1
  <1>4. \A x \in Record : x.date \in Nat  BY DEF Record
  <1> QED  BY <1>1, <1>2, <1>3, <1>4

LEMMA SnapshotTaken ==
    ASSUME month \in Nat, entered \in Tables
    PROVE  TakenOf(Snapshot, entered)
  <1>1. /\ Snapshot.start = WindowStart /\ Snapshot.rows = Restricted(Kept)
        /\ Snapshot.historical = Restricted(DOMAIN entered \ Kept) /\ Snapshot.truncated = (InWindow # Kept)
    BY DEF Snapshot, Truncated
  <1>2. WindowStart \in Int  BY DEF WindowStart
  <1>3. InWindow = Recent(entered, WindowStart) /\ Kept \subseteq InWindow  BY DEF InWindow, Recent, Kept
  <1> QED  BY <1>1, <1>2, <1>3 DEF TakenOf, Restricted

LEMMA ThreeParts ==
    ASSUME NEW A, NEW B, NEW C, IsFiniteSet(A), IsFiniteSet(B), IsFiniteSet(C),
           A \cap B = {}, A \cap C = {}, B \cap C = {}
    PROVE  /\ Cardinality(A \cup B \cup C) = Cardinality(A) + Cardinality(B) + Cardinality(C)
           /\ Cardinality(A) + Cardinality(B) + Cardinality(C) \in Nat
           /\ A \cup B \cup C # {} => Cardinality(A) + Cardinality(B) + Cardinality(C) > 0
  <1>1. IsFiniteSet(A \cup B) /\ Cardinality(A \cup B) = Cardinality(A) + Cardinality(B) - Cardinality(A \cap B)
    BY FS_Union
  <1>2. /\ IsFiniteSet((A \cup B) \cup C)
        /\ Cardinality((A \cup B) \cup C) = Cardinality(A \cup B) + Cardinality(C) - Cardinality((A \cup B) \cap C)
    BY <1>1, FS_Union
  <1>3. (A \cup B) \cap C = {}  OBVIOUS
  <1>4. Cardinality({}) = 0  BY FS_EmptySet
  <1>5. Cardinality(A) \in Nat /\ Cardinality(B) \in Nat /\ Cardinality(C) \in Nat  BY FS_CardinalityType
  <1>6. Cardinality(A \cup B \cup C) = Cardinality(A) + Cardinality(B) + Cardinality(C)
    <2>1. Cardinality(A \cap B) = 0 /\ Cardinality((A \cup B) \cap C) = 0  BY <1>3, <1>4
    <2> QED  BY <1>1, <1>2, <1>5, <2>1
  <1>7. A \cup B \cup C # {} => Cardinality(A \cup B \cup C) # 0  BY <1>2, FS_EmptySet
  <1> QED  BY <1>5, <1>6, <1>7

(* Two snapshots tell every difference of the rows they were taken of.       *)
LEMMA Compared ==
    ASSUME NEW old, NEW new, NEW b, NEW e, TakenOf(old, b), TakenOf(new, e), ~Comparison(old, new).limited
    PROVE  LET c == Comparison(old, new)
               since == LaterOf(old.start, new.start)
           IN /\ c.added + c.changed + c.removed = Cardinality({r \in Rows : At(e, r, since) # At(b, r, since)})
              /\ old.start = new.start /\ e # b => c.added + c.changed + c.removed > 0 \/ c.historyChanged
  <1> DEFINE since == LaterOf(old.start, new.start)
             N == From(new, since)
             O == From(old, since)
             X == {r \in N \cap O : new.rows[r] # old.rows[r]}
             c == Comparison(old, new)
             D == {r \in Rows : At(e, r, since) # At(b, r, since)}
  <1>1. /\ c.added = Cardinality(N \ O) /\ c.removed = Cardinality(O \ N) /\ c.changed = Cardinality(X)
        /\ c.historyChanged = (old.start = new.start /\ old.historical # new.historical)
        /\ ~old.truncated /\ ~new.truncated
    BY DEF Comparison
  <1> HIDE DEF c
  <1>2. b \in Tables /\ e \in Tables /\ old.start \in Int /\ new.start \in Int  BY DEF TakenOf
  <1>3. /\ new.rows = [r \in Recent(e, new.start) |-> e[r]]
        /\ new.historical = [r \in DOMAIN e \ Recent(e, new.start) |-> e[r]]
    BY <1>1 DEF TakenOf
  <1>4. /\ old.rows = [r \in Recent(b, old.start) |-> b[r]]
        /\ old.historical = [r \in DOMAIN b \ Recent(b, old.start) |-> b[r]]
    BY <1>1 DEF TakenOf
  <1>5. /\ since \in Int /\ since >= old.start /\ since >= new.start /\ (old.start = new.start => since = new.start)
    BY <1>2 DEF LaterOf
  <1> HIDE DEF since
  <1>6. N = Recent(e, since) /\ \A r \in N : new.rows[r] = e[r]
    <2>1. \A r \in DOMAIN e : e[r].date \in Nat  BY <1>2, RowsOfTables
    <2>2. \A r \in DOMAIN e : e[r].date >= since => e[r].date >= new.start  BY <1>2, <1>5, <2>1
    <2> QED  BY <1>3, <2>2 DEF From, Recent
  <1>7. O = Recent(b, since) /\ \A r \in O : old.rows[r] = b[r]
    <2>1. \A r \in DOMAIN b : b[r].date \in Nat  BY <1>2, RowsOfTables
    <2>2. \A r \in DOMAIN b : b[r].date >= since => b[r].date >= old.start  BY <1>2, <1>5, <2>1
    <2> QED  BY <1>4, <2>2 DEF From, Recent
  <1>8. N \subseteq Rows /\ O \subseteq Rows  BY <1>2, <1>6, <1>7, RowsOfTables DEF Recent
  <1>9. \A r : /\ r \in N => At(e, r, since) = e[r] /\ e[r] # Nothing
               /\ r \notin N => At(e, r, since) = Nothing
               /\ r \in O => At(b, r, since) = b[r] /\ b[r] # Nothing
               /\ r \notin O => At(b, r, since) = Nothing
    BY <1>2, <1>6, <1>7, RowsOfTables DEF At, Recent
  <1>10. X = {r \in N \cap O : e[r] # b[r]}  BY <1>6, <1>7
  <1> HIDE DEF N, O, X
  <1>11. D = (N \ O) \cup X \cup (O \ N)  BY <1>8, <1>9, <1>10
  <1>12. IsFiniteSet(N \ O) /\ IsFiniteSet(X) /\ IsFiniteSet(O \ N)
    <2>1. N \ O \subseteq Rows /\ X \subseteq Rows /\ O \ N \subseteq Rows  BY <1>8, <1>10
    <2> QED  BY <2>1, CheckInAssumption, FS_Subset
  <1>13. (N \ O) \cap X = {} /\ (N \ O) \cap (O \ N) = {} /\ X \cap (O \ N) = {}  BY <1>10
  <1> HIDE DEF D
  <1>14. /\ Cardinality(D) = c.added + c.changed + c.removed
         /\ D # {} => c.added + c.changed + c.removed > 0
    BY <1>1, <1>11, <1>12, <1>13, ThreeParts
  <1>15. ASSUME old.start = new.start, D = {}, old.historical = new.historical PROVE e = b
    <2>1. N = Recent(e, new.start) /\ O = Recent(b, old.start)  BY <1>5, <1>6, <1>7, <1>15
    <2>2. N = O /\ \A r \in N : e[r] = b[r]  BY <1>10, <1>11, <1>15
    <2>3. DOMAIN e \ N = DOMAIN b \ O /\ \A r \in DOMAIN e \ N : e[r] = b[r]
      <3>1. DOMAIN new.historical = DOMAIN e \ N /\ DOMAIN old.historical = DOMAIN b \ O  BY <1>3, <1>4, <2>1
      <3>2. /\ \A r \in DOMAIN e \ N : new.historical[r] = e[r]
            /\ \A r \in DOMAIN b \ O : old.historical[r] = b[r]
        BY <1>3, <1>4, <2>1
      <3> QED  BY <1>15, <3>1, <3>2
    <2>4. N \subseteq DOMAIN e /\ O \subseteq DOMAIN b  BY <1>6, <1>7 DEF Recent
    <2>5. DOMAIN e = DOMAIN b /\ \A r \in DOMAIN e : e[r] = b[r]  BY <2>2, <2>3, <2>4
    <2>6. e = [r \in DOMAIN e |-> e[r]] /\ b = [r \in DOMAIN b |-> b[r]]  BY <1>2, RowsOfTables
    <2> QED  BY <2>5, <2>6
  <1>16. old.start = new.start /\ e # b => c.added + c.changed + c.removed > 0 \/ c.historyChanged
    BY <1>1, <1>14, <1>15
  <1> QED  BY <1>14, <1>16 DEF c, D, since

LEMMA WeekStep == WeekInv /\ [CheckInNext]_weekVars => WeekInv'
  <1> SUFFICES ASSUME WeekInv, [CheckInNext]_weekVars PROVE WeekInv'  OBVIOUS
  <1> USE DEF WeekInv
  <1>1. CASE UNCHANGED <<month, moves, entered, previous, before>>  BY <1>1
  <1>2. CASE Start \/ Advance \/ Current  BY <1>1, <1>2 DEF Start, Advance, Current
  <1>3. CASE Complete
    <2>1. previous' = Snapshot /\ before' = entered /\ UNCHANGED <<month, moves, entered>>  BY <1>3 DEF Complete
    <2>2. TakenOf(Snapshot, entered)  BY SnapshotTaken
    <2>3. TakenOf(previous', before')  BY <2>1, <2>2
    <2> QED  BY <2>1, <2>3
  <1>4. CASE Moves /\ month' \in Nat /\ entered' \in Tables
    BY <1>4 DEF Moves
  <1>5. CASE Issue \/ NextMonth  BY <1>4, <1>5 DEF Issue, NextMonth, Moves
  <1>6. ASSUME NEW r \in Rows, DeleteRow(r) PROVE WeekInv'
    <2>1. entered' = [q \in DOMAIN entered \ {r} |-> entered[q]]  BY <1>6 DEF DeleteRow
    <2>2. entered' \in [DOMAIN entered \ {r} -> Record] /\ DOMAIN entered \ {r} \in SUBSET Rows  BY <2>1, RowsOfTables
    <2>3. entered' \in Tables  BY <2>2 DEF Tables
    <2> QED  BY <1>4, <1>6, <2>3 DEF DeleteRow
  <1>7. ASSUME NEW r \in Rows, NEW d \in 1..LastMonth, EnterRow(r, d) \/ EditRow(r, d) PROVE WeekInv'
    <2> DEFINE x == [date |-> d, version |-> moves + 1]
               S == DOMAIN entered \cup {r}
    <2>1. x \in Record  BY CheckInAssumption DEF Record
    <2>2. S \in SUBSET Rows /\ \A q \in DOMAIN entered : entered[q] \in Record  BY RowsOfTables
    <2>3. entered = [q \in DOMAIN entered |-> entered[q]]  BY RowsOfTables
    <2>4. Moves /\ UNCHANGED month /\ entered' = [q \in S |-> IF q = r THEN x ELSE entered[q]]
      BY <1>7, <2>3 DEF EnterRow, EditRow
    <2> HIDE DEF x, S
    <2>5. entered' \in [S -> Record]  BY <2>1, <2>2, <2>4 DEF S
    <2>6. entered' \in Tables  BY <2>2, <2>5 DEF Tables
    <2> QED  BY <1>4, <2>4, <2>6
  <1>8. CASE UNCHANGED weekVars  BY <1>1, <1>8 DEF weekVars
  <1> QED  BY <1>2, <1>3, <1>5, <1>6, <1>7, <1>8 DEF CheckInNext

(* Whatever is entered, edited, moved and removed between two check-ins, in  *)
(* any order and over any number of months: a comparison that does not say   *)
(* it is limited counts every difference within both windows, and while the  *)
(* window is the same a difference in older rows is told as well.            *)
THEOREM WeekIsTold == CheckInSpec => []ChangesNoticed
  <1>1. CheckInInit => WeekInv
    <2> SUFFICES ASSUME CheckInInit PROVE WeekInv  OBVIOUS
    <2>1. month = 3 /\ moves = 0 /\ previous = Nothing  BY DEF CheckInInit
    <2>2. PICK S \in SUBSET Rows : entered \in [S -> [date : 1..month, version : {0}]]  BY DEF CheckInInit
    <2>3. [date : 1..month, version : {0}] \subseteq Record  BY <2>1 DEF Record
    <2>4. entered \in [S -> Record]  BY <2>2, <2>3
    <2> QED  BY <2>1, <2>2, <2>4 DEF WeekInv, Tables
  <1>2. WeekInv => ChangesNoticed
    <2> SUFFICES ASSUME WeekInv, previous # Nothing, ~Comparison(previous, Snapshot).limited PROVE ChangesNoticed
      BY DEF ChangesNoticed
    <2>1. TakenOf(previous, before) /\ TakenOf(Snapshot, entered)  BY SnapshotTaken DEF WeekInv
    <2>2. Snapshot.start = WindowStart  BY DEF Snapshot
    <2> HIDE DEF Snapshot
    <2> QED  BY <2>1, <2>2, Compared DEF ChangesNoticed
  <1> QED  BY <1>1, <1>2, WeekStep, PTL DEF CheckInSpec

-----------------------------------------------------------------------------
(* Rounding: what a day's share leaves, spread over the days left, is at most *)
(* a cent more than the rest of the share of a later day.                     *)
LEMMA RoundedBounds ==
    ASSUME NEW n \in Int, NEW d \in Nat \ {0}
    PROVE  /\ Rounded(n, d) \in Int
           /\ (2 * d) * Rounded(n, d) <= 2 * n + d
           /\ 2 * n + d < (2 * d) * Rounded(n, d) + 2 * d
<1>1. 2 * n + d \in Int /\ 2 * d \in Nat \ {0}
  OBVIOUS
<1> DEFINE x == 2 * n + d
           e == 2 * d
<1>2. x \div e \in Int /\ e * (x \div e) <= x /\ x < e * (x \div e) + e
  <2> HIDE DEF x, e
  <2>1. x \in Int /\ e \in Nat \ {0}
    BY <1>1 DEF x, e
  <2> QED BY <2>1
<1> QED BY <1>2 DEF Rounded

LEMMA SharesMeet ==
    ASSUME NEW E \in Int, NEW M \in Nat \ {0}, NEW k \in 1..M,
           NEW s \in Int, NEW u \in Int, NEW v \in Int,
           s = Rounded(E, M + 1), u = Rounded(E * (k + 1), M + 1), v = Rounded((E - s) * k, M)
    PROVE  u - s - v >= -1
<1> DEFINE N == M + 1
<1>0. N \in Nat \ {0} /\ k \in Int /\ k >= 1 /\ k <= M /\ E * (k + 1) \in Int /\ (E - s) * k \in Int
  OBVIOUS
<1>1. (2 * N) * s <= 2 * E + N
  BY <1>0, RoundedBounds
<1>2. 2 * (E * (k + 1)) + N < (2 * N) * u + 2 * N
  BY <1>0, RoundedBounds
<1>3. (2 * M) * v <= 2 * ((E - s) * k) + M
  BY <1>0, RoundedBounds
<1> SUFFICES ASSUME v >= u - s + 2 PROVE FALSE
  OBVIOUS
<1>4. (M - k) * ((2 * N) * s) <= (M - k) * (2 * E + N)
  <2>1. M - k \in Nat /\ (2 * N) * s \in Int /\ 2 * E + N \in Int
    BY <1>0
  <2> QED BY <1>1, <2>1, Scaled
<1>5. M * (2 * (E * (k + 1)) + N + 1) <= M * ((2 * N) * u + 2 * N)
  <2>1. M \in Nat /\ 2 * (E * (k + 1)) + N + 1 \in Int /\ (2 * N) * u + 2 * N \in Int
    BY <1>0
  <2>2. 2 * (E * (k + 1)) + N + 1 <= (2 * N) * u + 2 * N
    BY <1>0, <1>2, <2>1
  <2> QED BY <2>1, <2>2, Scaled
<1>6. N * ((2 * M) * v) <= N * (2 * ((E - s) * k) + M)
  <2>1. N \in Nat /\ (2 * M) * v \in Int /\ 2 * ((E - s) * k) + M \in Int
    BY <1>0
  <2> QED BY <1>3, <2>1, Scaled
<1>7. (2 * M * N) * (u - s + 2) <= (2 * M * N) * v
  <2>1. 2 * M * N \in Nat /\ u - s + 2 \in Int
    BY <1>0
  <2> QED BY <2>1, Scaled
<1> DEFINE a == M * E * k
           b == M * E
           d == E * k
           ms == M * N * s
           mu == M * N * u
           mv == M * N * v
           ks == N * s * k
           mn == M * N
           nk == N * k
<1>8. (M - k) * ((2 * N) * s) = 2 * ms - 2 * ks /\ (M - k) * (2 * E + N) = 2 * b - 2 * d + mn - nk
  BY <1>0
<1>9. M * (2 * (E * (k + 1)) + N + 1) = 2 * a + 2 * b + mn + M /\ M * ((2 * N) * u + 2 * N) = 2 * mu + 2 * mn
  BY <1>0
<1>10. N * ((2 * M) * v) = 2 * mv /\ N * (2 * ((E - s) * k) + M) = 2 * (a + d) - 2 * ks + mn
  <2>1. N * ((2 * M) * v) = 2 * mv
    BY <1>0
  <2>2. N * (2 * ((E - s) * k) + M) = 2 * (N * (E * k)) - 2 * (N * (s * k)) + N * M
    <3> HIDE DEF N
    <3> QED BY <1>0
  <2>3. N * (E * k) = a + d
    OBVIOUS
  <2>4. N * (s * k) = ks /\ N * M = mn
    <3> HIDE DEF N
    <3> QED BY <1>0
  <2>5. N * (2 * ((E - s) * k) + M) = 2 * (a + d) - 2 * ks + mn
    <3> HIDE DEF N, a, d, ks, mn
    <3> QED BY <2>2, <2>3, <2>4
  <2> QED BY <2>1, <2>5
<1>11. (2 * M * N) * (u - s + 2) = 2 * mu - 2 * ms + 4 * mn /\ (2 * M * N) * v = 2 * mv
  BY <1>0
<1>12. mn \in Nat /\ nk \in Nat /\ a \in Int /\ b \in Int /\ d \in Int /\ ms \in Int /\ mu \in Int /\ mv \in Int /\ ks \in Int
  BY <1>0
<1>13. 2 * ms - 2 * ks <= 2 * b - 2 * d + mn - nk
  BY <1>4, <1>8
<1>14. 2 * a + 2 * b + mn + M <= 2 * mu + 2 * mn
  BY <1>5, <1>9
<1>15. 2 * mv <= 2 * (a + d) - 2 * ks + mn
  BY <1>6, <1>10
<1>16. 2 * mu - 2 * ms + 4 * mn <= 2 * mv
  BY <1>7, <1>11
<1> HIDE DEF N, a, b, d, ms, mu, mv, ks, mn, nk
<1> QED BY <1>12, <1>13, <1>14, <1>15, <1>16
-----------------------------------------------------------------------------
(* A finite set of whole numbers has a lowest one, and Lowermost is it.       *)
LEMMA LowestOf ==
    ASSUME NEW S, IsFiniteSet(S), S # {}, S \in SUBSET Int
    PROVE  Lowermost(S) \in S /\ \A y \in S : Lowermost(S) <= y
<1>1. \E x \in S : \A y \in S : x <= y
  BY LeastThere
<1> QED BY <1>1 DEF Lowermost

(* What payments come to. *)
Amounts == AmountsAt(Payments)
LEMMA SumIs ==
    ASSUME NEW S \in SUBSET DOMAIN Payments
    PROVE  IsFiniteSet(S) /\ Sum(S) = SumAt(Amounts, S) /\ Sum(S) \in Nat /\ Weights(Amounts, S)
<1>1. IsFiniteSet(S)
  BY DayAssumption, FS_Subset
<1>2. Sum(S) = TotalAt(Payments, S)
  BY DEF Sum, TotalAt
<1>3. \A x \in S : Amounts[x] \in Nat
  BY DayAssumption DEF Amounts, AmountsAt
<1>4. Sum(S) = SumAt(Amounts, S)
  BY <1>1, <1>2, TotalAtIs DEF Amounts
<1> QED BY <1>1, <1>3, <1>4, SumNat DEF Weights

LEMMA SumApart ==
    ASSUME NEW S \in SUBSET DOMAIN Payments, NEW T \in SUBSET DOMAIN Payments, S \cap T = {}
    PROVE  Sum(S \cup T) = Sum(S) + Sum(T)
<1>1. S \cup T \in SUBSET DOMAIN Payments
  OBVIOUS
<1>2. IsFiniteSet(S) /\ IsFiniteSet(T) /\ Weights(Amounts, S \cup T)
  BY <1>1, SumIs
<1>3. SumAt(Amounts, S \cup T) = SumAt(Amounts, S) + SumAt(Amounts, T)
  BY <1>2, SumBoth
<1> QED BY <1>1, <1>3, SumIs
-----------------------------------------------------------------------------
(* A state of the month, and a morning of it. *)
DayTyped ==
    /\ day \in 1..LastDay + 1 /\ cash \in [Accounts -> Int] /\ essential \in Int
    /\ dueOn \in [DOMAIN Payments -> Int] /\ known \in SUBSET DOMAIN Payments
Morning == DayTyped /\ day <= LastDay

(* The payments of an account by a day, and after the month. *)
DueSet(a, d) == {p \in PaidFrom(a) : dueOn[p] <= LastDay /\ dueOn[p] <= d}
AfterSet(a) == {p \in PaidFrom(a) : dueOn[p] > LastDay}
LEMMA DueIs ==
    DayTyped =>
      \A a, d :
        /\ DueSet(a, d) \in SUBSET DOMAIN Payments /\ AfterSet(a) \in SUBSET DOMAIN Payments
        /\ DueBy(a, d) = Sum(DueSet(a, d)) /\ After(a) = Sum(AfterSet(a))
        /\ DueBy(a, d) \in Nat /\ After(a) \in Nat
<1> SUFFICES ASSUME DayTyped, NEW a, NEW d
             PROVE  /\ DueSet(a, d) \in SUBSET DOMAIN Payments /\ AfterSet(a) \in SUBSET DOMAIN Payments
                    /\ DueBy(a, d) = Sum(DueSet(a, d)) /\ After(a) = Sum(AfterSet(a))
                    /\ DueBy(a, d) \in Nat /\ After(a) \in Nat
  OBVIOUS
<1>1. DueSet(a, d) \in SUBSET DOMAIN Payments /\ AfterSet(a) \in SUBSET DOMAIN Payments
  BY DEF DayTyped, DueSet, AfterSet, PaidFrom, Relevant
<1>2. DueBy(a, d) = Sum(DueSet(a, d)) /\ After(a) = Sum(AfterSet(a))
  BY DEF DueBy, After, DueSet, AfterSet
<1> QED BY <1>1, <1>2, SumIs

LEMMA LeftInt ==
    DayTyped => \A a \in Accounts : \A d : Left(a, d) \in Int
<1> SUFFICES ASSUME DayTyped, NEW a \in Accounts, NEW d PROVE Left(a, d) \in Int
  OBVIOUS
<1>1. cash[a] \in Int /\ DueBy(a, d) \in Nat /\ After(a) \in Nat
  BY DueIs DEF DayTyped
<1> QED BY <1>1 DEF Left

LEMMA DatesFinite == Morning => IsFiniteSet(Dates) /\ Dates \in SUBSET Int /\ day \in Dates /\ LastDay \in Dates
<1> SUFFICES ASSUME Morning PROVE IsFiniteSet(Dates) /\ Dates \in SUBSET Int /\ day \in Dates /\ LastDay \in Dates
  OBVIOUS
<1>1. day \in Int /\ LastDay \in Int /\ day <= LastDay
  BY DayAssumption DEF Morning, DayTyped
<1> QED BY <1>1, FS_Interval DEF Dates
-----------------------------------------------------------------------------
(* What another account lacks: the least that leaves it never below zero.     *)
LEMMA DeficitIs ==
    Morning => \A a \in Accounts :
      /\ Deficit(a) \in Nat
      /\ \A d \in Dates : Left(a, d) + Deficit(a) >= 0
      /\ Deficit(a) > 0 => \E d \in Dates : Left(a, d) + Deficit(a) = 0
<1> SUFFICES ASSUME Morning, NEW a \in Accounts
             PROVE  /\ Deficit(a) \in Nat
                    /\ \A d \in Dates : Left(a, d) + Deficit(a) >= 0
                    /\ Deficit(a) > 0 => \E d \in Dates : Left(a, d) + Deficit(a) = 0
  OBVIOUS
<1> DEFINE f == [d \in Dates |-> Left(a, d)]
           S == {f[d] : d \in Dates}
           m == Lowermost({Left(a, d) : d \in Dates})
<1>1. \A d \in Dates : Left(a, d) \in Int
  BY LeftInt DEF Morning
<1>2. IsFiniteSet(S) /\ day \in Dates
  BY DatesFinite, ImageFinite
<1>3. S = {Left(a, d) : d \in Dates} /\ S # {} /\ S \in SUBSET Int
  BY <1>1, <1>2
<1>4. m \in {Left(a, d) : d \in Dates} /\ \A y \in {Left(a, d) : d \in Dates} : m <= y
  <2> HIDE DEF S
  <2> QED BY <1>2, <1>3, LowestOf
<1>5. m \in Int /\ \A d \in Dates : m <= Left(a, d)
  BY <1>1, <1>4
<1>6. Deficit(a) = IF -m > 0 THEN -m ELSE 0
  BY DEF Deficit, AtLeast0
<1>7. \E d \in Dates : Left(a, d) = m
  BY <1>4
<1> HIDE DEF m, S, f
<1> QED BY <1>1, <1>5, <1>6, <1>7

(* No other number is. *)
LEMMA DeficitOf ==
    Morning => \A a \in Accounts, n \in Nat :
      (\A d \in Dates : Left(a, d) + n >= 0) /\ (n > 0 => \E d \in Dates : Left(a, d) + n = 0) => Deficit(a) = n
<1> SUFFICES ASSUME Morning, NEW a \in Accounts, NEW n \in Nat, \A d \in Dates : Left(a, d) + n >= 0,
                    n > 0 => \E d \in Dates : Left(a, d) + n = 0
             PROVE  Deficit(a) = n
  OBVIOUS
<1>1. \A d \in Dates : Left(a, d) \in Int
  BY LeftInt DEF Morning
<1>2. /\ Deficit(a) \in Nat
      /\ \A d \in Dates : Left(a, d) + Deficit(a) >= 0
      /\ Deficit(a) > 0 => \E d \in Dates : Left(a, d) + Deficit(a) = 0
  BY DeficitIs
<1>3. ~(Deficit(a) > n)
  BY <1>1, <1>2
<1>4. ~(n > Deficit(a))
  BY <1>1, <1>2
<1> QED BY <1>2, <1>3, <1>4

(* The first day it shows.                                                    *)
First(a) == Lowermost({d \in Dates : Left(a, d) < 0})
LEMMA FirstIs ==
    Morning => \A a \in Accounts : Deficit(a) > 0 =>
      /\ First(a) \in Dates /\ First(a) \in Int /\ Left(a, First(a)) < 0
      /\ \A d \in Dates : Left(a, d) < 0 => First(a) <= d
<1> SUFFICES ASSUME Morning, NEW a \in Accounts, Deficit(a) > 0
             PROVE  /\ First(a) \in Dates /\ First(a) \in Int /\ Left(a, First(a)) < 0
                    /\ \A d \in Dates : Left(a, d) < 0 => First(a) <= d
  OBVIOUS
<1> DEFINE S == {d \in Dates : Left(a, d) < 0}
<1>1. \A d \in Dates : Left(a, d) \in Int
  BY LeftInt DEF Morning
<1>2. IsFiniteSet(S) /\ S \in SUBSET Int
  BY DatesFinite, FS_Subset
<1>3. PICK d \in Dates : Left(a, d) + Deficit(a) = 0
  BY DeficitIs
<1>4. Deficit(a) \in Nat
  BY DeficitIs
<1>5. S # {}
  BY <1>1, <1>3, <1>4
<1>6. Lowermost(S) \in S /\ \A y \in S : Lowermost(S) <= y
  <2> HIDE DEF S
  <2> QED BY <1>2, <1>5, LowestOf
<1>7. First(a) = Lowermost(S)
  BY DEF First
<1>8. First(a) \in S /\ \A y \in S : First(a) <= y
  <2> HIDE DEF S
  <2> QED BY <1>6, <1>7
<1> QED BY <1>2, <1>8

LEMMA FirstOf ==
    Morning => \A a \in Accounts : \A d \in Dates :
      Left(a, d) < 0 /\ (\A e \in Dates : Left(a, e) < 0 => d <= e) => First(a) = d
<1> SUFFICES ASSUME Morning, NEW a \in Accounts, NEW d \in Dates, Left(a, d) < 0, \A e \in Dates : Left(a, e) < 0 => d <= e
             PROVE  First(a) = d
  OBVIOUS
<1>1. Left(a, d) \in Int /\ d \in Int
  BY LeftInt, DatesFinite DEF Morning
<1>2. Deficit(a) > 0
  BY <1>1, DeficitIs
<1>3. First(a) \in Dates /\ First(a) \in Int /\ Left(a, First(a)) < 0 /\ First(a) <= d
  BY <1>2, FirstIs
<1> QED BY <1>1, <1>3

(* The accounts that are sent money by a day, and what they are sent.         *)
Senders(d) == {a \in Accounts \ {Spending} : Deficit(a) > 0 /\ First(a) <= d}
Deficits == [a \in Accounts |-> Deficit(a)]
LEMMA SentIs ==
    Morning => \A d :
      /\ Sent(d) = SumAt(Deficits, Senders(d)) /\ Sent(d) \in Nat
      /\ IsFiniteSet(Senders(d)) /\ Weights(Deficits, Senders(d))
<1> SUFFICES ASSUME Morning, NEW d
             PROVE  /\ Sent(d) = SumAt(Deficits, Senders(d)) /\ Sent(d) \in Nat
                    /\ IsFiniteSet(Senders(d)) /\ Weights(Deficits, Senders(d))
  OBVIOUS
<1> DEFINE S == Senders(d)
           f == [a \in S |-> [to |-> a, amount |-> Deficit(a), date |-> First(a)]]
           X == {t \in Transfers : t.date <= d}
<1>1. S \in SUBSET Accounts /\ IsFiniteSet(S)
  BY DayAssumption, FS_Subset DEF Senders
<1>2. \A a \in S : Deficits[a] \in Nat
  BY <1>1, DeficitIs DEF Deficits
<1>3. X = {f[a] : a \in S}
  <2> DEFINE g(a) == [to |-> a, amount |-> Deficit(a), date |-> First(a)]
             A == {a \in Accounts \ {Spending} : Deficit(a) > 0}
  <2>1. Transfers = {g(a) : a \in A}
    BY DEF Transfers, First
  <2>2. S = {a \in A : First(a) <= d}
    BY DEF Senders
  <2>3. \A a : g(a).date = First(a)
    OBVIOUS
  <2> HIDE DEF S, g, A
  <2>4. \A a \in S : f[a] = g(a)
    BY DEF g
  <2> HIDE DEF f
  <2>5. X = {g(a) : a \in S}
    BY <2>1, <2>2, <2>3
  <2> QED BY <2>4, <2>5
<1>4. \A a, b \in S : f[a] = f[b] => a = b
  <2>1. \A a \in S : f[a].to = a
    OBVIOUS
  <2> QED BY <2>1
<1>5. Sent(d) = TotalOf(X)
  BY DEF Sent, TotalOf
<1>6. \A a \in S : AmountsOf(X)[f[a]] = Deficits[a]
  <2> SUFFICES ASSUME NEW a \in S PROVE AmountsOf(X)[f[a]] = Deficits[a]
    OBVIOUS
  <2>1. f[a] \in X /\ f[a].amount = Deficit(a)
    BY <1>3
  <2>2. AmountsOf(X)[f[a]] = f[a].amount
    <3> HIDE DEF X, f
    <3> QED BY <2>1 DEF AmountsOf
  <2> QED BY <1>1, <2>1, <2>2 DEF Deficits
<1> HIDE DEF X, f, S
<1>7. Weights(Deficits, S)
  BY <1>2 DEF Weights
<1>8. IsFiniteSet(X) /\ SumAt(AmountsOf(X), X) = SumAt(Deficits, S)
  BY <1>1, <1>3, <1>4, <1>6, <1>7, SumRenamed
<1>9. Sent(d) = SumAt(Deficits, S)
  BY <1>5, <1>8, TotalOfIs
<1> QED BY <1>1, <1>2, <1>7, <1>9, SumNat DEF S

(* What an account is sent by the evening: what it lacks, or nothing.         *)
Received(a) == TotalOf({t \in Transfers : t.to = a /\ t.date <= day})
LEMMA SumOne == ASSUME NEW w, NEW x, w[x] \in Int PROVE SumAt(w, {x}) = w[x]
<1>1. SumAt(w, {} \cup {x}) = SumAt(w, {}) + w[x] /\ {} \cup {x} = {x}
  BY FS_EmptySet, SumOn DEF Weights
<1> QED BY <1>1, SumNone

LEMMA ReceivedIs ==
    Morning => \A a : Received(a) = IF a \in Senders(day) THEN Deficit(a) ELSE 0
<1> SUFFICES ASSUME Morning, NEW a PROVE Received(a) = IF a \in Senders(day) THEN Deficit(a) ELSE 0
  OBVIOUS
<1> DEFINE g(b) == [to |-> b, amount |-> Deficit(b), date |-> First(b)]
           A == {b \in Accounts \ {Spending} : Deficit(b) > 0}
           X == {t \in Transfers : t.to = a /\ t.date <= day}
<1>1. Transfers = {g(b) : b \in A}
  BY DEF Transfers, First
<1>2. Senders(day) = {b \in A : First(b) <= day}
  BY DEF Senders
<1>3. \A b : g(b).to = b /\ g(b).date = First(b) /\ g(b).amount = Deficit(b)
  OBVIOUS
<1>4. Received(a) = TotalOf(X)
  BY DEF Received
<1>5. \A b \in Senders(day) : Deficit(b) \in Nat
  BY DeficitIs DEF Senders
<1> HIDE DEF g, A
<1>6. CASE a \in Senders(day)
  <2>1. X = {g(a)}
    BY <1>1, <1>2, <1>3, <1>6
  <2>2. AmountsOf({g(a)})[g(a)] = Deficit(a) /\ IsFiniteSet({g(a)})
    BY <1>3, FS_Singleton DEF AmountsOf
  <2>3. Deficit(a) \in Int
    BY <1>5, <1>6
  <2>4. TotalOf({g(a)}) = SumAt(AmountsOf({g(a)}), {g(a)})
    BY <2>2, TotalOfIs
  <2>5. SumAt(AmountsOf({g(a)}), {g(a)}) = Deficit(a)
    BY <2>2, <2>3, SumOne
  <2> QED BY <1>4, <1>6, <2>1, <2>4, <2>5
<1>7. CASE a \notin Senders(day)
  <2>1. X = {}
    BY <1>1, <1>2, <1>3, <1>7
  <2>2. TotalOf({}) = 0
    BY FS_EmptySet, TotalOfIs, SumNone
  <2> QED BY <1>4, <1>7, <2>1, <2>2
<1> QED BY <1>6, <1>7
-----------------------------------------------------------------------------
(* What is there for each day, and the figure over all of them.               *)
LEMMA AvailableInt ==
    Morning => \A d \in Dates : Share(d) \in Int /\ Available(d) \in Int
<1> SUFFICES ASSUME Morning, NEW d \in Dates PROVE Share(d) \in Int /\ Available(d) \in Int
  OBVIOUS
<1>1. day \in Int /\ LastDay - day + 1 \in Nat \ {0} /\ d \in Int
  BY DayAssumption DEF Morning, DayTyped, Dates
<1>2. essential * (d - day + 1) \in Int
  BY <1>1 DEF Morning, DayTyped
<1>3. Share(d) \in Int
  BY <1>1, <1>2, RoundedBounds DEF Share
<1>4. cash[Spending] \in Int /\ Buffer \in Int /\ After(Spending) \in Int /\ DueBy(Spending, d) \in Int /\ Sent(d) \in Int
  BY DayAssumption, DueIs, SentIs DEF Morning, DayTyped
<1> QED BY <1>3, <1>4 DEF Available

LEMMA ShortfallIs ==
    Morning => Shortfall \in Nat /\ \A d \in Dates : Available(d) + Shortfall >= 0
<1> SUFFICES ASSUME Morning PROVE Shortfall \in Nat /\ \A d \in Dates : Available(d) + Shortfall >= 0
  OBVIOUS
<1> DEFINE f == [d \in Dates |-> Available(d)]
           S == {f[d] : d \in Dates}
           m == Lowermost({Available(d) : d \in Dates})
<1>1. \A d \in Dates : Available(d) \in Int
  BY AvailableInt
<1>2. IsFiniteSet(S) /\ day \in Dates
  BY DatesFinite, ImageFinite
<1>3. S = {Available(d) : d \in Dates} /\ S # {} /\ S \in SUBSET Int
  BY <1>1, <1>2
<1>4. m \in {Available(d) : d \in Dates} /\ \A y \in {Available(d) : d \in Dates} : m <= y
  <2> HIDE DEF S
  <2> QED BY <1>2, <1>3, LowestOf
<1>5. m \in Int /\ \A d \in Dates : m <= Available(d)
  BY <1>1, <1>4
<1>6. Shortfall = IF -m > 0 THEN -m ELSE 0
  BY DEF Shortfall, AtLeast0
<1> HIDE DEF m, S, f
<1> QED BY <1>1, <1>5, <1>6

(* The shortfall is the worst of it, and no more. *)
LEMMA ShortfallAtMost ==
    Morning => \A n \in Nat : (\A d \in Dates : Available(d) + n >= 0) => Shortfall <= n
<1> SUFFICES ASSUME Morning, NEW n \in Nat, \A d \in Dates : Available(d) + n >= 0 PROVE Shortfall <= n
  OBVIOUS
<1> DEFINE f == [d \in Dates |-> Available(d)]
           S == {f[d] : d \in Dates}
           m == Lowermost({Available(d) : d \in Dates})
<1>1. \A d \in Dates : Available(d) \in Int
  BY AvailableInt
<1>2. IsFiniteSet(S) /\ day \in Dates
  BY DatesFinite, ImageFinite
<1>3. S = {Available(d) : d \in Dates} /\ S # {} /\ S \in SUBSET Int
  BY <1>1, <1>2
<1>4. m \in {Available(d) : d \in Dates}
  <2> HIDE DEF S
  <2> QED BY <1>2, <1>3, LowestOf
<1>5. m \in Int /\ m + n >= 0
  BY <1>1, <1>4
<1>6. Shortfall = IF -m > 0 THEN -m ELSE 0
  BY DEF Shortfall, AtLeast0
<1> HIDE DEF m, S, f
<1> QED BY <1>5, <1>6

(* A quotient bounds what it is of. *)
LEMMA DayQuotient ==
    ASSUME NEW x \in Int, NEW k \in Nat \ {0}
    PROVE  /\ x \div k \in Int /\ k * (x \div k) <= x
           /\ \A n \in Int : k * n <= x => n <= x \div k
<1>1. x \div k \in Int /\ k * (x \div k) <= x /\ x < k * (x \div k) + k
  OBVIOUS
<1>2. ASSUME NEW n \in Int, k * n <= x PROVE n <= x \div k
  <2> DEFINE q == x \div k
  <2>1. q \in Int /\ k \in Nat /\ x < k * q + k
    BY <1>1
  <2> HIDE DEF q
  <2> SUFFICES ASSUME q + 1 <= n PROVE FALSE
    BY <2>1 DEF q
  <2>2. k * (q + 1) <= k * n
    BY <2>1, Scaled
  <2>3. k * (q + 1) = k * q + k /\ k * q \in Int /\ k * n \in Int
    BY <2>1
  <2> QED BY <1>2, <2>1, <2>2, <2>3
<1> QED BY <1>1, <1>2

LEMMA DailyIs ==
    Morning =>
      /\ Daily \in Nat
      /\ Daily > 0 => \A d \in Dates : (d - day + 1) * Daily <= Available(d)
      /\ \A n \in Nat : (\A d \in Dates : (d - day + 1) * n <= Available(d)) => n <= Daily
<1> SUFFICES ASSUME Morning
             PROVE  /\ Daily \in Nat
                    /\ Daily > 0 => \A d \in Dates : (d - day + 1) * Daily <= Available(d)
                    /\ \A n \in Nat : (\A d \in Dates : (d - day + 1) * n <= Available(d)) => n <= Daily
  OBVIOUS
<1> DEFINE f == [d \in Dates |-> Available(d) \div (d - day + 1)]
           S == {f[d] : d \in Dates}
           m == Lowermost({Available(d) \div (d - day + 1) : d \in Dates})
<1>1. \A d \in Dates : Available(d) \in Int /\ d - day + 1 \in Nat \ {0}
  BY AvailableInt, DayAssumption DEF Morning, DayTyped, Dates
<1>2. \A d \in Dates : f[d] \in Int /\ (d - day + 1) * f[d] <= Available(d) /\ \A n \in Int : (d - day + 1) * n <= Available(d) => n <= f[d]
  <2> SUFFICES ASSUME NEW d \in Dates
               PROVE  f[d] \in Int /\ (d - day + 1) * f[d] <= Available(d) /\ \A n \in Int : (d - day + 1) * n <= Available(d) => n <= f[d]
    OBVIOUS
  <2>1. f[d] = Available(d) \div (d - day + 1)
    OBVIOUS
  <2> DEFINE k == d - day + 1
             x == Available(d)
  <2>2. x \in Int /\ k \in Nat \ {0}
    BY <1>1
  <2>3. f[d] = x \div k
    BY <2>1
  <2> HIDE DEF x, k, f
  <2>4. x \div k \in Int /\ k * (x \div k) <= x /\ \A n \in Int : k * n <= x => n <= x \div k
    BY <2>2, DayQuotient
  <2>5. f[d] \in Int /\ k * f[d] <= x /\ \A n \in Int : k * n <= x => n <= f[d]
    BY <2>3, <2>4
  <2> QED BY <2>5 DEF x, k
<1>3. IsFiniteSet(S) /\ day \in Dates
  BY DatesFinite, ImageFinite
<1>4. S = {Available(d) \div (d - day + 1) : d \in Dates} /\ S # {} /\ S \in SUBSET Int
  BY <1>2, <1>3
<1>5. m \in S /\ \A y \in S : m <= y
  <2> HIDE DEF S
  <2> QED BY <1>3, <1>4, LowestOf
<1>6. m \in Int /\ \A d \in Dates : m <= f[d]
  BY <1>2, <1>5
<1>7. Daily = IF m > 0 THEN m ELSE 0
  BY DEF Daily, AtLeast0
<1>8. PICK e \in Dates : m = f[e]
  BY <1>5
<1> HIDE DEF m, S, f
<1>9. Daily \in Nat
  BY <1>6, <1>7
<1>10. ASSUME Daily > 0, NEW d \in Dates PROVE (d - day + 1) * Daily <= Available(d)
  <2>1. Daily <= f[d] /\ d - day + 1 \in Nat /\ f[d] \in Int /\ Daily \in Int
    BY <1>1, <1>2, <1>6, <1>7, <1>10
  <2>2. (d - day + 1) * Daily <= (d - day + 1) * f[d]
    BY <2>1, Scaled
  <2>3. (d - day + 1) * Daily \in Int /\ (d - day + 1) * f[d] \in Int /\ Available(d) \in Int /\ (d - day + 1) * f[d] <= Available(d)
    BY <1>1, <1>2, <2>1
  <2> QED BY <2>2, <2>3
<1>11. ASSUME NEW n \in Nat, \A d \in Dates : (d - day + 1) * n <= Available(d) PROVE n <= Daily
  <2>1. n <= m
    BY <1>2, <1>8, <1>11
  <2> QED BY <1>6, <1>7, <2>1
<1> QED BY <1>9, <1>10, <1>11
-----------------------------------------------------------------------------
(* The invariant: the figure that was given is the one the data still gives.  *)
FigureKept ==
    plan # Unset => day <= LastDay /\ plan = [daily |-> Daily, shortfall |-> Shortfall, transfers |-> Transfers, data |-> Data]
DayInv == DayTyped /\ FigureKept

LEMMA SameFigure ==
    ASSUME Morning, UNCHANGED <<day, cash, essential, dueOn, known, payer>>
    PROVE  Daily' = Daily /\ Shortfall' = Shortfall /\ Transfers' = Transfers /\ Data' = Data
<1>1. Dates' = Dates /\ Data' = Data /\ Morning'
  BY DEF Dates, Data, Morning, DayTyped
<1>2. \A a, d : DueBy(a, d)' = DueBy(a, d) /\ After(a)' = After(a) /\ Left(a, d)' = Left(a, d)
  <2>1. \A a, d : DueBy(a, d)' = DueBy(a, d) /\ After(a)' = After(a)
    BY DEF DueBy, After, PaidFrom, Relevant
  <2> QED BY <2>1 DEF Left
<1>3. \A a : Deficit(a)' = Deficit(a)
  <2> SUFFICES ASSUME NEW a PROVE Deficit(a)' = Deficit(a)
    OBVIOUS
  <2>1. {Left(a, d)' : d \in Dates'} = {Left(a, d) : d \in Dates}
    BY <1>1, <1>2
  <2> QED BY <2>1 DEF Deficit
<1>4. Transfers' = Transfers /\ \A a : First(a)' = First(a)
  BY <1>1, <1>2, <1>3 DEF Transfers, First, Lowermost
<1>5. \A d : Sent(d)' = Sent(d)
  <2>1. (Morning => \A d :
           /\ Sent(d) = SumAt(Deficits, Senders(d)) /\ Sent(d) \in Nat
           /\ IsFiniteSet(Senders(d)) /\ Weights(Deficits, Senders(d)))'
    BY SentIs, PTL
  <2>2. Deficits' = Deficits /\ \A d : Senders(d)' = Senders(d)
    BY <1>3, <1>4 DEF Deficits, Senders
  <2>3. \A d : Sent(d)' = SumAt(Deficits', Senders(d)')
    BY <1>1, <2>1
  <2> QED BY <2>2, <2>3, SentIs
<1>6. \A d : Share(d)' = Share(d)
  BY DEF Share, Rounded
<1>7. \A d : Available(d)' = Available(d)
  BY <1>2, <1>5, <1>6 DEF Available
<1>8. Daily' = Daily /\ Shortfall' = Shortfall
  <2>1. {Available(d)' : d \in Dates'} = {Available(d) : d \in Dates}
    BY <1>1, <1>7
  <2>2. {Available(d)' \div (d - day' + 1) : d \in Dates'} = {Available(d) \div (d - day + 1) : d \in Dates}
    BY <1>1, <1>7
  <2> QED BY <2>1, <2>2 DEF Daily, Shortfall
<1> QED BY <1>1, <1>4, <1>8
-----------------------------------------------------------------------------
(* An evening of a day lived by the figure. *)
Lived(s) == Morning /\ FigureKept /\ plan # Unset /\ s \in 0..Daily /\ Evening(s)
LEMMA EveningOf ==
    ASSUME NEW s, Lived(s)
    PROVE  /\ plan.daily = Daily /\ plan.shortfall = Shortfall /\ s \in Nat /\ s <= Daily
           /\ cash' = [a \in Accounts |-> cash[a] + Received(a) - DueBy(a, day)
                          - IF a = Spending THEN Sent(day) + Share(day) + s ELSE 0]
           /\ essential' = essential - Share(day) /\ known' = known \ {p \in known : dueOn[p] <= day}
           /\ day' = day + 1 /\ plan' = Unset /\ dueOn' = dueOn /\ payer' = payer
           /\ \A a : Received(a) \in Nat
           /\ DayTyped'
<1> DEFINE charged == {p \in known : dueOn[p] <= day}
<1>1. plan = [daily |-> Daily, shortfall |-> Shortfall, transfers |-> Transfers, data |-> Data]
  BY DEF Lived, FigureKept
<1>2. Daily \in Nat /\ day \in Dates
  BY DailyIs, DatesFinite DEF Lived
<1>3. \A a : Received(a) = FoldSet(LAMBDA t, n : n + t.amount, 0, {t \in plan.transfers : t.to = a /\ t.date <= day})
  BY <1>1 DEF Received, TotalOf
<1>4. \A a : charged \cap PaidFrom(a) = DueSet(a, day)
  <2>1. \A p \in DOMAIN Payments : dueOn[p] \in Int
    BY DEF Lived, Morning, DayTyped
  <2>2. known \in SUBSET DOMAIN Payments /\ day \in Int /\ LastDay \in Int /\ day <= LastDay
    BY DayAssumption DEF Lived, Morning, DayTyped
  <2> QED BY <2>1, <2>2 DEF PaidFrom, Relevant, DueSet
<1>5. \A a : Sum(charged \cap PaidFrom(a)) = DueBy(a, day)
  BY <1>4, DueIs DEF Lived, Morning
<1>6. cash' = [a \in Accounts |-> cash[a] + Received(a) - Sum(charged \cap PaidFrom(a))
                          - IF a = Spending THEN Sent(day) + Share(day) + s ELSE 0]
  BY <1>3 DEF Lived, Evening
<1>7. cash' = [a \in Accounts |-> cash[a] + Received(a) - DueBy(a, day)
                          - IF a = Spending THEN Sent(day) + Share(day) + s ELSE 0]
  BY <1>5, <1>6
<1>8. essential' = essential - Share(day) /\ known' = known \ charged /\ day' = day + 1 /\ plan' = Unset /\ dueOn' = dueOn /\ payer' = payer
  BY DEF Lived, Evening
<1>9. \A a : Received(a) \in Nat
  BY ReceivedIs, DeficitIs DEF Lived, Senders
<1>10. DayTyped'
  <2>1. day' \in 1..LastDay + 1 /\ essential' \in Int /\ Share(day) \in Int /\ Sent(day) \in Nat
    BY <1>2, <1>8, AvailableInt, SentIs, DayAssumption DEF Lived, Morning, DayTyped
  <2>2. \A a \in Accounts : cash[a] + Received(a) - DueBy(a, day) - (IF a = Spending THEN Sent(day) + Share(day) + s ELSE 0) \in Int
    BY <1>2, <1>9, <2>1, DueIs DEF Lived, Morning, DayTyped
  <2>3. cash' \in [Accounts -> Int]
    BY <1>7, <2>2
  <2> QED BY <1>8, <2>1, <2>3 DEF Lived, Morning, DayTyped
<1>11. plan.daily = Daily /\ plan.shortfall = Shortfall /\ s \in Nat /\ s <= Daily
  BY <1>1, <1>2 DEF Lived
<1> QED BY <1>7, <1>8, <1>9, <1>10, <1>11

(* What is still due has gone down by what was charged; the bills after the   *)
(* month are as they were.                                                    *)
LEMMA DueAfter ==
    ASSUME NEW s, Lived(s)
    PROVE  /\ \A a : After(a)' = After(a)
           /\ \A a : \A t \in day..LastDay : DueBy(a, t)' = DueBy(a, t) - DueBy(a, day)
<1>1. \A p \in DOMAIN Payments : dueOn[p] \in Int
  BY DEF Lived, Morning, DayTyped
<1>2. known \in SUBSET DOMAIN Payments /\ day \in Int /\ LastDay \in Int /\ day <= LastDay
  BY DayAssumption DEF Lived, Morning, DayTyped
<1>3. known' = known \ {p \in known : dueOn[p] <= day} /\ dueOn' = dueOn /\ payer' = payer /\ DayTyped'
  BY EveningOf
<1>4. ASSUME NEW a PROVE After(a)' = After(a)
  <2>1. AfterSet(a)' = AfterSet(a)
    BY <1>1, <1>2, <1>3 DEF AfterSet, PaidFrom, Relevant
  <2>2. After(a)' = Sum(AfterSet(a)') /\ After(a) = Sum(AfterSet(a))
    BY DEF After, AfterSet
  <2> QED BY <2>1, <2>2
<1>5. ASSUME NEW a, NEW t \in day..LastDay PROVE DueBy(a, t)' = DueBy(a, t) - DueBy(a, day)
  <2>1. DueSet(a, t) = DueSet(a, t)' \cup DueSet(a, day) /\ DueSet(a, t)' \cap DueSet(a, day) = {}
    BY <1>1, <1>2, <1>3 DEF DueSet, PaidFrom, Relevant
  <2>2. DueSet(a, t) \in SUBSET DOMAIN Payments /\ DueSet(a, day) \in SUBSET DOMAIN Payments
    BY DueIs DEF Lived, Morning
  <2>3. Sum(DueSet(a, t)) = Sum(DueSet(a, t)') + Sum(DueSet(a, day)) /\ Sum(DueSet(a, t)') \in Nat /\ Sum(DueSet(a, day)) \in Nat
    <3> DEFINE later == DueSet(a, t)'
    <3>1. later \in SUBSET DOMAIN Payments /\ DueSet(a, t) = later \cup DueSet(a, day) /\ later \cap DueSet(a, day) = {}
      BY <2>1, <2>2
    <3> HIDE DEF later
    <3>2. Sum(DueSet(a, t)) = Sum(later) + Sum(DueSet(a, day)) /\ Sum(later) \in Nat /\ Sum(DueSet(a, day)) \in Nat
      BY <2>2, <3>1, SumApart, SumIs
    <3> QED BY <3>2 DEF later
  <2>4. DueBy(a, t)' = Sum(DueSet(a, t)')
    BY DEF DueBy, DueSet
  <2>5. DueBy(a, t) = Sum(DueSet(a, t)) /\ DueBy(a, day) = Sum(DueSet(a, day))
    BY DEF DueBy, DueSet
  <2> QED BY <2>3, <2>4, <2>5
<1> QED BY <1>4, <1>5

(* Of another account: what it was sent covers what it lacked, and nothing is *)
(* below zero by the evening.                                                 *)
LEMMA LeftAfter ==
    ASSUME NEW s, Lived(s), NEW a \in Accounts \ {Spending}
    PROVE  /\ Left(a, day) + Received(a) >= 0
           /\ \A t \in Dates : t > day => Left(a, t)' = Left(a, t) + Received(a)
           /\ a \in Senders(day) => \A t \in Dates : Left(a, t) + Received(a) >= 0
           /\ a \notin Senders(day) => Received(a) = 0 /\ Left(a, day) >= 0
<1>1. Morning /\ a \in Accounts /\ Deficit(a) \in Nat /\ day \in Dates /\ Dates = day..LastDay /\ day \in Int
  BY DeficitIs, DatesFinite DEF Lived, Dates
<1>2. \A t \in Dates : Left(a, t) \in Int /\ Left(a, t) + Deficit(a) >= 0
  BY <1>1, LeftInt, DeficitIs DEF Morning
<1>3. a \in Senders(day) => \A t \in Dates : Left(a, t) + Received(a) >= 0
  BY <1>1, <1>2, ReceivedIs
<1>4. ASSUME a \notin Senders(day) PROVE Received(a) = 0 /\ Left(a, day) >= 0
  <2>1. Received(a) = 0
    BY <1>1, <1>4, ReceivedIs
  <2>2. CASE Deficit(a) = 0
    BY <1>1, <1>2, <2>1, <2>2
  <2>3. CASE Deficit(a) > 0
    <3>1. ~(First(a) <= day) /\ First(a) \in Int
      BY <1>1, <1>4, <2>3, FirstIs DEF Senders
    <3>2. Left(a, day) < 0 => First(a) <= day
      BY <1>1, <2>3, FirstIs
    <3> QED BY <1>1, <1>2, <2>1, <3>1, <3>2
  <2> QED BY <1>1, <2>2, <2>3
<1>5. ASSUME NEW t \in Dates, t > day PROVE Left(a, t)' = Left(a, t) + Received(a)
  <2>0. cash[a] \in Int /\ Received(a) \in Nat /\ DueBy(a, day) \in Nat /\ DueBy(a, t) \in Nat /\ After(a) \in Nat
    BY <1>1, EveningOf, DueIs DEF Morning, DayTyped
  <2>1. cash'[a] = cash[a] + Received(a) - DueBy(a, day)
    BY <1>1, <2>0, EveningOf
  <2>2. DueBy(a, t)' = DueBy(a, t) - DueBy(a, day) /\ After(a)' = After(a)
    BY <1>1, <1>5, DueAfter
  <2>4. Left(a, t)' = cash'[a] - DueBy(a, t)' - IF t = LastDay THEN After(a)' ELSE 0
    BY DEF Left
  <2>5. Left(a, t) = cash[a] - DueBy(a, t) - IF t = LastDay THEN After(a) ELSE 0
    BY DEF Left
  <2> QED BY <2>0, <2>1, <2>2, <2>4, <2>5
<1>6. Left(a, day) + Received(a) >= 0
  BY <1>1, <1>2, <1>3, <1>4
<1> QED BY <1>3, <1>4, <1>5, <1>6

(* The next morning the same accounts lack the same, but those that were sent *)
(* what they lacked.                                                          *)
LEMMA SendersAfter ==
    ASSUME NEW s, Lived(s), day < LastDay
    PROVE  /\ Morning' /\ Dates' = (day + 1)..LastDay
           /\ \A a \in Accounts \ {Spending} : Deficit(a)' = IF a \in Senders(day) THEN 0 ELSE Deficit(a)
           /\ \A t \in Dates' : Senders(t)' = Senders(t) \ Senders(day)
<1>1. Morning /\ day \in Dates /\ Dates = day..LastDay /\ day \in Int /\ LastDay \in Int /\ day' = day + 1 /\ DayTyped'
  BY EveningOf, DatesFinite, DayAssumption DEF Lived, Dates
<1>2. Morning' /\ Dates' = (day + 1)..LastDay
  BY <1>1 DEF Morning, Dates
<1>3. \A t : t \in Dates' <=> t \in Dates /\ t # day
  BY <1>1, <1>2
<1>4. \A t \in Dates : t \in Int /\ (t # day => t > day)
  BY <1>1
<1>5. (Morning => \A a \in Accounts, n \in Nat :
         (\A d \in Dates : Left(a, d) + n >= 0) /\ (n > 0 => \E d \in Dates : Left(a, d) + n = 0) => Deficit(a) = n)'
  BY DeficitOf, PTL
<1>6. (Morning => \A a \in Accounts : \A d \in Dates :
         Left(a, d) < 0 /\ (\A e \in Dates : Left(a, e) < 0 => d <= e) => First(a) = d)'
  BY FirstOf, PTL
<1>7. ASSUME NEW a \in Accounts \ {Spending}, a \in Senders(day) PROVE Deficit(a)' = 0
  <2>1. \A t \in Dates' : Left(a, t)' + 0 >= 0
    BY <1>3, <1>4, <1>7, LeftAfter, EveningOf, LeftInt DEF Morning, Lived
  <2> QED BY <1>2, <1>5, <2>1
<1>8. ASSUME NEW a \in Accounts \ {Spending}, a \notin Senders(day)
      PROVE  Deficit(a)' = Deficit(a) /\ (Deficit(a) > 0 => First(a)' = First(a))
  <2>1. Received(a) = 0 /\ Left(a, day) >= 0 /\ Deficit(a) \in Nat /\ \A t \in Dates : Left(a, t) \in Int
    BY <1>1, <1>8, LeftAfter, LeftInt, DeficitIs DEF Morning
  <2>2. \A t \in Dates' : Left(a, t)' = Left(a, t)
    BY <1>3, <1>4, <2>1, LeftAfter
  <2>3. \A t \in Dates' : Left(a, t)' + Deficit(a) >= 0
    BY <1>1, <1>3, <2>2, DeficitIs
  <2>4. Deficit(a) > 0 => \E t \in Dates' : Left(a, t)' + Deficit(a) = 0
    <3> SUFFICES ASSUME Deficit(a) > 0 PROVE \E t \in Dates' : Left(a, t)' + Deficit(a) = 0
      OBVIOUS
    <3>1. PICK t \in Dates : Left(a, t) + Deficit(a) = 0
      BY <1>1, DeficitIs
    <3>2. t # day
      BY <2>1, <3>1
    <3> QED BY <1>3, <2>2, <3>1, <3>2
  <2>5. Deficit(a)' = Deficit(a)
    BY <1>2, <1>5, <2>1, <2>3, <2>4
  <2>6. ASSUME Deficit(a) > 0 PROVE First(a)' = First(a)
    <3>1. First(a) \in Dates /\ First(a) \in Int /\ Left(a, First(a)) < 0 /\ \A d \in Dates : Left(a, d) < 0 => First(a) <= d
      BY <1>1, <2>6, FirstIs
    <3>2. First(a) # day
      BY <1>1, <2>1, <3>1
    <3>3. PICK d \in Dates : d = First(a)
      BY <3>1
    <3>4. d \in Dates' /\ Left(a, d)' < 0 /\ \A e \in Dates' : Left(a, e)' < 0 => d <= e
      BY <1>3, <2>2, <3>1, <3>2, <3>3
    <3> QED BY <1>2, <1>6, <3>3, <3>4
  <2> QED BY <2>5, <2>6
<1>9. ASSUME NEW t \in Dates' PROVE Senders(t)' = Senders(t) \ Senders(day)
  <2>1. ASSUME NEW a \in Accounts \ {Spending} PROVE a \in Senders(t)' <=> a \in Senders(t) /\ a \notin Senders(day)
    <3>1. a \in Senders(t)' <=> Deficit(a)' > 0 /\ First(a)' <= t
      BY DEF Senders
    <3>2. a \in Senders(t) <=> Deficit(a) > 0 /\ First(a) <= t
      BY DEF Senders
    <3>3. CASE a \in Senders(day)
      BY <1>7, <3>1, <3>3
    <3>4. CASE a \notin Senders(day)
      BY <1>8, <3>1, <3>2, <3>4
    <3> QED BY <3>3, <3>4
  <2>2. Senders(t)' \in SUBSET (Accounts \ {Spending}) /\ Senders(t) \in SUBSET (Accounts \ {Spending})
    BY DEF Senders
  <2> QED BY <2>1, <2>2
<1> QED BY <1>2, <1>7, <1>8, <1>9

LEMMA SentAfter ==
    ASSUME NEW s, Lived(s), day < LastDay, NEW t \in Dates'
    PROVE  Sent(t)' = Sent(t) - Sent(day)
<1>1. Morning' /\ t \in Int /\ t > day /\ day \in Int /\ Morning
  <2>1. Dates' = (day + 1)..LastDay /\ Morning' /\ day \in Int /\ LastDay \in Int
    BY SendersAfter, DayAssumption DEF Lived, Morning, DayTyped
  <2> QED BY <2>1 DEF Lived
<1>2. Sent(t)' = SumAt(Deficits', Senders(t)')
  <2>1. (Morning => \A d :
           /\ Sent(d) = SumAt(Deficits, Senders(d)) /\ Sent(d) \in Nat
           /\ IsFiniteSet(Senders(d)) /\ Weights(Deficits, Senders(d)))'
    BY SentIs, PTL
  <2> QED BY <1>1, <2>1
<1>3. Sent(t) = SumAt(Deficits, Senders(t)) /\ Sent(day) = SumAt(Deficits, Senders(day)) /\ Sent(t) \in Nat /\ Sent(day) \in Nat
  BY <1>1, SentIs
<1>4. Senders(t)' = Senders(t) \ Senders(day) /\ Senders(day) \in SUBSET Senders(t)
  <2>1. \A a \in Senders(day) : First(a) \in Int
    BY <1>1, FirstIs DEF Senders
  <2> QED BY <1>1, <2>1, SendersAfter DEF Senders
<1> DEFINE rest == Senders(t) \ Senders(day)
<1>5. IsFiniteSet(rest) /\ IsFiniteSet(Senders(day)) /\ IsFiniteSet(Senders(t)) /\ Weights(Deficits, Senders(t))
  BY <1>1, SentIs, FS_Difference
<1>6. Senders(t) = rest \cup Senders(day) /\ rest \cap Senders(day) = {} /\ Weights(Deficits, rest \cup Senders(day))
  BY <1>4, <1>5
<1>7. SumAt(Deficits, Senders(t)) = SumAt(Deficits, rest) + SumAt(Deficits, Senders(day))
  <2> HIDE DEF rest
  <2> QED BY <1>5, <1>6, SumBoth
<1>8. \A a \in rest : Deficits'[a] = Deficits[a]
  <2>1. \A a \in rest : a \in Accounts \ {Spending} /\ a \notin Senders(day)
    BY DEF Senders
  <2>2. \A a \in Accounts \ {Spending} : a \notin Senders(day) => Deficit(a)' = Deficit(a)
    BY SendersAfter
  <2>3. \A a \in Accounts : Deficits[a] = Deficit(a) /\ Deficits'[a] = Deficit(a)'
    BY DEF Deficits
  <2> QED BY <2>1, <2>2, <2>3
<1>9. SumAt(Deficits', rest) = SumAt(Deficits, rest)
  <2> DEFINE w == Deficits'
  <2>1. \A a \in rest : w[a] = Deficits[a]
    BY <1>8
  <2> HIDE DEF w, rest
  <2>2. SumAt(w, rest) = SumAt(Deficits, rest)
    BY <1>5, <2>1, SumAlike
  <2> QED BY <2>2 DEF w
<1>10. SumAt(Deficits, rest) \in Int
  BY <1>5, <1>6, SumInt DEF Weights
<1>11. Sent(t)' = SumAt(Deficits', rest)
  BY <1>2, <1>4
<1> HIDE DEF rest
<1> QED BY <1>3, <1>7, <1>9, <1>10, <1>11

(* What there is for a later day goes down by what was spent, and a cent.     *)
LEMMA AvailableAfter ==
    ASSUME NEW s, Lived(s), day < LastDay, NEW t \in Dates'
    PROVE  Available(t)' >= Available(t) - s - 1 /\ Available(t)' \in Int /\ Available(t) \in Int
<1> DEFINE M == LastDay - day
           k == t - day
<1>1. Morning /\ Morning' /\ Dates' = (day + 1)..LastDay /\ Dates = day..LastDay /\ day \in Int /\ LastDay \in Int /\ day' = day + 1
  BY SendersAfter, EveningOf, DayAssumption DEF Lived, Morning, DayTyped, Dates
<1>2. t \in Dates /\ day \in Dates /\ t \in Int /\ M \in Nat \ {0} /\ k \in 1..M
  BY <1>1
<1>3. essential \in Int /\ essential' = essential - Share(day) /\ Share(day) \in Int /\ Share(t) \in Int /\ Available(t) \in Int
  BY <1>1, <1>2, EveningOf, AvailableInt DEF Morning, DayTyped
<1>4. Share(t)' \in Int /\ Available(t)' \in Int
  <2>1. (Morning => \A d \in Dates : Share(d) \in Int /\ Available(d) \in Int)'
    BY AvailableInt, PTL
  <2> QED BY <1>1, <2>1
<1>5. Share(day) = Rounded(essential, M + 1)
  <2>1. essential * (day - day + 1) = essential
    BY <1>1, <1>3
  <2> QED BY <2>1 DEF Share
<1>6. Share(t) = Rounded(essential * (k + 1), M + 1)
  BY DEF Share
<1>7. Share(t)' = Rounded((essential - Share(day)) * k, M)
  <2>1. t - day' + 1 = k /\ LastDay - day' + 1 = M
    BY <1>1, <1>2
  <2>2. Share(t)' = Rounded(essential' * (t - day' + 1), LastDay - day' + 1)
    BY DEF Share
  <2> QED BY <1>3, <2>1, <2>2
<1>8. Share(t) - Share(day) - Share(t)' >= -1
  <2> DEFINE u == Share(t)
             v == Share(t)'
             h == Share(day)
  <2>1. h = Rounded(essential, M + 1) /\ u = Rounded(essential * (k + 1), M + 1) /\ v = Rounded((essential - h) * k, M)
    BY <1>5, <1>6, <1>7
  <2>2. h \in Int /\ u \in Int /\ v \in Int
    BY <1>3, <1>4
  <2> HIDE DEF u, v, h, M, k
  <2>3. u - h - v >= -1
    BY <1>2, <1>3, <2>1, <2>2, SharesMeet
  <2> QED BY <2>3 DEF u, v, h
<1>9. Spending \in Accounts /\ Received(Spending) = 0
  BY <1>1, ReceivedIs, DayAssumption DEF Senders
<1>10. /\ cash[Spending] \in Int /\ DueBy(Spending, day) \in Nat /\ DueBy(Spending, t) \in Nat /\ After(Spending) \in Nat
       /\ Sent(day) \in Nat /\ Sent(t) \in Nat /\ Buffer \in Int /\ s \in Nat
  BY <1>1, <1>9, EveningOf, DueIs, SentIs, DayAssumption DEF Morning, DayTyped
<1>11. cash'[Spending] = cash[Spending] + 0 - DueBy(Spending, day) - (Sent(day) + Share(day) + s)
  BY <1>9, EveningOf
<1>12. DueBy(Spending, t)' = DueBy(Spending, t) - DueBy(Spending, day) /\ After(Spending)' = After(Spending) /\ Sent(t)' = Sent(t) - Sent(day)
  BY <1>1, <1>2, DueAfter, SentAfter
<1>13. Available(t)' = cash'[Spending] - Buffer - After(Spending)' - DueBy(Spending, t)' - Sent(t)' - Share(t)'
  BY DEF Available
<1>14. Available(t) = cash[Spending] - Buffer - After(Spending) - DueBy(Spending, t) - Sent(t) - Share(t)
  BY DEF Available
<1>15. Available(t)' = Available(t) + (Share(t) - Share(day) - Share(t)') - s
  BY <1>3, <1>4, <1>10, <1>11, <1>12, <1>13, <1>14
<1> HIDE DEF M, k
<1> QED BY <1>3, <1>4, <1>8, <1>10, <1>15

(* The day was lived by the figure, and the figure holds. *)
LEMMA DayLived ==
    ASSUME NEW s, Lived(s)
    PROVE  /\ \A a \in Accounts \ {Spending} : cash'[a] >= IF day = LastDay THEN After(a) ELSE 0
           /\ plan.shortfall = 0 =>
                 /\ cash'[Spending] >= Buffer + After(Spending)
                 /\ day < LastDay => Shortfall' <= 1 /\ Daily' >= plan.daily - 1
<1>1. Morning /\ day \in Dates /\ LastDay \in Dates /\ Dates = day..LastDay /\ day \in Int /\ LastDay \in Int /\ day' = day + 1
  BY EveningOf, DatesFinite, DayAssumption DEF Lived, Dates
<1>2. plan.daily = Daily /\ plan.shortfall = Shortfall /\ s \in Nat /\ s <= Daily /\ Daily \in Nat
  BY <1>1, EveningOf, DailyIs
<1>3. ASSUME NEW a \in Accounts \ {Spending} PROVE cash'[a] >= IF day = LastDay THEN After(a) ELSE 0
  <2>1. cash[a] \in Int /\ Received(a) \in Nat /\ DueBy(a, day) \in Nat /\ After(a) \in Nat
    BY <1>1, EveningOf, DueIs DEF Morning, DayTyped
  <2>2. cash'[a] = cash[a] + Received(a) - DueBy(a, day)
    BY <2>1, EveningOf
  <2>3. Left(a, day) = cash[a] - DueBy(a, day) - IF day = LastDay THEN After(a) ELSE 0
    BY DEF Left
  <2>4. Left(a, day) + Received(a) >= 0
    BY LeftAfter
  <2> QED BY <2>1, <2>2, <2>3, <2>4
<1>4. ASSUME Shortfall = 0 PROVE \A d \in Dates : Available(d) >= 0 /\ Available(d) \in Int
  BY <1>1, <1>4, ShortfallIs, AvailableInt
<1>5. ASSUME Shortfall = 0 PROVE cash'[Spending] >= Buffer + After(Spending)
  <2>1. Spending \in Accounts /\ Received(Spending) = 0
    BY <1>1, ReceivedIs, DayAssumption DEF Senders
  <2>2. cash[Spending] \in Int /\ DueBy(Spending, day) \in Nat /\ After(Spending) \in Nat /\ Sent(day) \in Nat /\ Buffer \in Int /\ Share(day) \in Int
    BY <1>1, <2>1, DueIs, SentIs, AvailableInt, DayAssumption DEF Morning, DayTyped
  <2>3. cash'[Spending] = cash[Spending] + 0 - DueBy(Spending, day) - (Sent(day) + Share(day) + s)
    BY <2>1, EveningOf
  <2>4. Available(day) = cash[Spending] - Buffer - After(Spending) - DueBy(Spending, day) - Sent(day) - Share(day)
    BY DEF Available
  <2>5. s <= Available(day)
    <3>1. CASE Daily > 0
      <4>1. (day - day + 1) * Daily <= Available(day)
        BY <1>1, <3>1, DailyIs
      <4>2. (day - day + 1) * Daily = Daily
        BY <1>1, <1>2
      <4> QED BY <1>1, <1>2, <1>4, <1>5, <4>1, <4>2
    <3>2. CASE Daily = 0
      BY <1>1, <1>2, <1>4, <1>5, <3>2
    <3> QED BY <1>2, <3>1, <3>2
  <2> QED BY <1>2, <2>2, <2>3, <2>4, <2>5
<1>6. ASSUME Shortfall = 0, day < LastDay PROVE Shortfall' <= 1 /\ Daily' >= plan.daily - 1
  <2>1. Morning' /\ Dates' = (day + 1)..LastDay
    BY <1>6, SendersAfter
  <2>2. \A t \in Dates' : t \in Dates /\ t \in Int /\ t - day >= 1 /\ t - day' + 1 = t - day
    BY <1>1, <2>1
  <2>3. \A t \in Dates' : Available(t)' >= Available(t) - s - 1 /\ Available(t)' \in Int /\ Available(t) \in Int
    BY <1>6, AvailableAfter
  <2>4. (Morning => \A n \in Nat : (\A d \in Dates : Available(d) + n >= 0) => Shortfall <= n)'
    BY ShortfallAtMost, PTL
  <2>5. (Morning =>
           /\ Daily \in Nat
           /\ Daily > 0 => \A d \in Dates : (d - day + 1) * Daily <= Available(d)
           /\ \A n \in Nat : (\A d \in Dates : (d - day + 1) * n <= Available(d)) => n <= Daily)'
    BY DailyIs, PTL
  <2>6. CASE Daily = 0
    <3>1. \A t \in Dates' : Available(t)' + 1 >= 0
      <4> SUFFICES ASSUME NEW t \in Dates' PROVE Available(t)' + 1 >= 0
        OBVIOUS
      <4>1. Available(t) >= 0 /\ s = 0
        BY <1>2, <1>4, <1>6, <2>2, <2>6
      <4> QED BY <2>3, <4>1
    <3>2. Shortfall' <= 1
      BY <2>1, <2>4, <3>1
    <3> QED BY <1>2, <2>1, <2>5, <2>6, <3>2
  <2>7. CASE Daily > 0
    <3>1. ASSUME NEW t \in Dates' PROVE Available(t)' + 1 >= 0 /\ (t - day' + 1) * (Daily - 1) <= Available(t)'
      <4> DEFINE k == t - day
                 D == Daily
      <4>1. (t - day + 1) * D <= Available(t) /\ Available(t)' >= Available(t) - s - 1 /\ t - day' + 1 = k
        BY <1>1, <2>2, <2>3, <2>7, <3>1, DailyIs
      <4>2. k \in Nat /\ k >= 1 /\ D \in Nat /\ D >= 1 /\ t \in Int
        BY <1>1, <1>2, <2>2, <2>7
      <4>3. (t - day + 1) * D = k * D + D
        BY <1>1, <4>2
      <4>4. k * (D - 1) = k * D - k /\ k * D \in Int /\ k * D >= 0
        BY <4>2
      <4>5. Available(t)' \in Int /\ Available(t) \in Int /\ s \in Int /\ s <= D
        BY <1>2, <2>3
      <4>6. k * D <= Available(t)' + 1
        <5> HIDE DEF k, D
        <5> DEFINE p == k * D
        <5>1. p \in Int /\ (t - day + 1) * D = p + D
          BY <4>3, <4>4
        <5> HIDE DEF p
        <5>2. p + D <= Available(t)
          BY <4>1, <5>1
        <5>3. p <= Available(t)' + 1
          BY <4>1, <4>2, <4>5, <5>1, <5>2
        <5> QED BY <5>3 DEF p
      <4> HIDE DEF k, D
      <4>7. k * (D - 1) <= Available(t)'
        BY <4>2, <4>4, <4>5, <4>6
      <4>8. Available(t)' + 1 >= 0
        BY <4>4, <4>5, <4>6
      <4> QED BY <4>1, <4>7, <4>8 DEF D
    <3>2. Shortfall' <= 1
      BY <2>1, <2>4, <3>1
    <3>3. Daily - 1 \in Nat
      BY <1>2, <2>7
    <3>4. Daily - 1 <= Daily'
      <4> DEFINE n == Daily - 1
      <4>0. PICK m \in Nat : m = Daily - 1
        BY <3>3
      <4>1. \A d \in Dates' : (d - day' + 1) * m <= Available(d)'
        BY <3>1, <4>0
      <4> QED BY <2>1, <2>5, <4>0, <4>1
    <3> QED BY <1>2, <2>1, <2>5, <3>2, <3>4
  <2> QED BY <1>2, <2>6, <2>7
<1> QED BY <1>2, <1>3, <1>5, <1>6
-----------------------------------------------------------------------------
LEMMA DayBegins == DayInit => DayInv
<1> SUFFICES ASSUME DayInit PROVE DayInv
  OBVIOUS
<1>1. LastDay \in Nat \ {0} /\ day = 1
  BY DayAssumption DEF DayInit
<1>2. day \in 1..LastDay + 1 /\ known \in SUBSET DOMAIN Payments /\ plan = Unset
  BY <1>1 DEF DayInit
<1>3. cash \in [Accounts -> Int] /\ essential \in Int
  BY DayAssumption DEF DayInit
<1>4. dueOn \in [DOMAIN Payments -> Int]
  BY <1>1 DEF DayInit
<1> QED BY <1>2, <1>3, <1>4 DEF DayInv, DayTyped, FigureKept

LEMMA DayStep ==
    ASSUME DayInv, [DayNext]_dayVars
    PROVE  /\ DayInv'
           /\ day' = day \/ \E s : Lived(s)
<1>0. DayTyped /\ FigureKept
  BY DEF DayInv
<1>1. ASSUME UNCHANGED <<day, cash, essential, dueOn, known, payer>>,
             \/ plan' = plan
             \/ day <= LastDay /\ plan' = [daily |-> Daily, shortfall |-> Shortfall, transfers |-> Transfers, data |-> Data]
      PROVE  DayInv'
  <2>1. DayTyped'
    BY <1>0, <1>1 DEF DayTyped
  <2>2. ASSUME plan' # Unset
        PROVE  day <= LastDay /\ plan' = [daily |-> Daily, shortfall |-> Shortfall, transfers |-> Transfers, data |-> Data]
    BY <1>0, <1>1, <2>2 DEF FigureKept
  <2>3. ASSUME plan' # Unset
        PROVE  Daily' = Daily /\ Shortfall' = Shortfall /\ Transfers' = Transfers /\ Data' = Data
    BY <1>0, <1>1, <2>2, <2>3, SameFigure DEF Morning
  <2>4. FigureKept'
    BY <1>1, <2>2, <2>3 DEF FigureKept
  <2> QED BY <2>1, <2>4 DEF DayInv
<1>2. CASE UNCHANGED dayVars
  <2>1. UNCHANGED <<day, cash, essential, dueOn, known, payer>> /\ plan' = plan
    BY <1>2 DEF dayVars
  <2> QED BY <1>1, <2>1
<1>3. CASE Review \/ Confirm
  <2>1. UNCHANGED <<day, cash, essential, dueOn, known, payer>> /\ plan' = plan
    BY <1>3 DEF Review, Confirm
  <2> QED BY <1>1, <2>1
<1>4. CASE Look
  <2>1. /\ UNCHANGED <<day, cash, essential, dueOn, known, payer>> /\ day <= LastDay
        /\ plan' = [daily |-> Daily, shortfall |-> Shortfall, transfers |-> Transfers, data |-> Data]
    BY <1>4 DEF Look
  <2> QED BY <1>1, <2>1
<1>5. ASSUME NEW p \in DOMAIN Payments, Learn(p) \/ \E a \in Accounts : SaveFunding(p, a)
      PROVE  DayInv' /\ day' = day
  BY <1>0, <1>5 DEF Learn, SaveFunding, NewFigure, DayInv, DayTyped, FigureKept
<1>6. ASSUME NEW s \in 0..(IF plan = Unset THEN -1 ELSE plan.daily), Evening(s)
      PROVE  DayInv' /\ Lived(s)
  <2>1. plan # Unset /\ day <= LastDay
    BY <1>6 DEF Evening
  <2>2. plan.daily = Daily
    BY <1>0, <2>1 DEF FigureKept
  <2>3. Lived(s)
    BY <1>0, <1>6, <2>1, <2>2 DEF Lived, Morning
  <2>4. DayTyped' /\ plan' = Unset
    BY <2>3, EveningOf
  <2> QED BY <2>3, <2>4 DEF DayInv, FigureKept
<1> QED BY <1>2, <1>3, <1>4, <1>5, <1>6 DEF DayNext

(* Living by the figure works, whatever the accounts, the payments and the    *)
(* length of the month.                                                       *)
THEOREM LivingByTheFigure == DaySpec => FigureHolds
<1> DEFINE Holds ==
      day' = day + 1 =>
        /\ \A a \in Accounts \ {Spending} : cash'[a] >= IF day = LastDay THEN After(a) ELSE 0
        /\ plan.shortfall = 0 =>
              /\ cash'[Spending] >= Buffer + After(Spending)
              /\ day < LastDay => Shortfall' <= 1 /\ Daily' >= plan.daily - 1
<1>1. ASSUME DayInv, [DayNext]_dayVars PROVE DayInv' /\ Holds
  <2>1. day \in Int
    BY <1>1 DEF DayInv, DayTyped
  <2>2. CASE day' = day
    BY <1>1, <2>1, <2>2, DayStep
  <2>3. ASSUME NEW s, Lived(s) PROVE Holds
    BY <2>3, DayLived
  <2> QED BY <1>1, <2>2, <2>3, DayStep
<1>2. DayInv /\ [DayNext]_dayVars => DayInv' /\ [Holds]_dayVars
  BY <1>1
<1> HIDE DEF Holds
<1>3. DaySpec => [][Holds]_dayVars
  BY <1>2, DayBegins, PTL DEF DaySpec
<1> QED BY <1>3 DEF Holds, FigureHolds

-----------------------------------------------------------------------------
(* The bank's moves: a day and an amount each.                                *)
LEMMA MovesAre ==
    /\ Len(AccountMoves) \in Nat /\ DOMAIN AccountMoves = 1..Len(AccountMoves)
    /\ \A i \in DOMAIN AccountMoves : AccountMoves[i].day \in Nat /\ AccountMoves[i].amount \in Int
    /\ \A i, j \in DOMAIN AccountMoves : i <= j => AccountMoves[i].day <= AccountMoves[j].day
<1> DEFINE R == [day : Nat, amount : Int]
<1>1. AccountMoves \in Seq(R)
  BY BalanceAssumption
<1>2. \A r \in R : r.day \in Nat /\ r.amount \in Int
  OBVIOUS
<1> HIDE DEF R
<1>3. \A i \in 1..Len(AccountMoves) : AccountMoves[i] \in R
  BY <1>1
<1>4. Len(AccountMoves) \in Nat /\ DOMAIN AccountMoves = 1..Len(AccountMoves)
  BY <1>1
<1>5. \A i, j \in DOMAIN AccountMoves : i <= j => AccountMoves[i].day <= AccountMoves[j].day
  BY BalanceAssumption
<1> QED BY <1>2, <1>3, <1>4, <1>5

(* What the bank's moves come to, and the rows of them. *)
MoveAmounts == AmountsAt(AccountMoves)
LEMMA AmountIs ==
    ASSUME NEW S \in SUBSET DOMAIN AccountMoves
    PROVE  IsFiniteSet(S) /\ Amount(S) = SumAt(MoveAmounts, S) /\ Weights(MoveAmounts, S)
<1>1. IsFiniteSet(S)
  <2>1. DOMAIN AccountMoves = 1..Len(AccountMoves) /\ Len(AccountMoves) \in Int
    BY MovesAre
  <2> QED BY <2>1, FS_Interval, FS_Subset
<1>2. Amount(S) = TotalAt(AccountMoves, S)
  BY DEF Amount, TotalAt
<1>3. \A i \in S : MoveAmounts[i] \in Int
  BY MovesAre DEF MoveAmounts, AmountsAt
<1> QED BY <1>1, <1>2, <1>3, TotalAtIs DEF MoveAmounts, Weights

LEMMA NetIs ==
    ASSUME NEW S, IsFiniteSet(S)
    PROVE  Net(S) = SumAt([r \in S |-> AccountMoves[r.move].amount], S)
<1> DEFINE w == [r \in S |-> AccountMoves[r.move].amount]
<1>1. \A g : Rec(w, S, g) <=> g = [s \in SUBSET S |-> IF s = {} THEN 0 ELSE g[s \ {Some(s)}] + AccountMoves[Some(s).move].amount]
  <2>1. \A s \in SUBSET S : s # {} => Some(s) \in S
    BY DEF Some
  <2>2. \A s \in SUBSET S : s # {} => w[Some(s)] = AccountMoves[Some(s).move].amount
    BY <2>1
  <2> HIDE DEF w
  <2> SUFFICES ASSUME NEW g PROVE
        [s \in SUBSET S |-> IF s = {} THEN 0 ELSE g[s \ {Some(s)}] + w[Some(s)]]
           = [s \in SUBSET S |-> IF s = {} THEN 0 ELSE g[s \ {Some(s)}] + AccountMoves[Some(s).move].amount]
    BY DEF Rec
  <2> QED BY <2>2
<1>2. (CHOOSE g : Rec(w, S, g)) = (CHOOSE g : g = [s \in SUBSET S |-> IF s = {} THEN 0 ELSE g[s \ {Some(s)}] + AccountMoves[Some(s).move].amount])
  BY <1>1
<1>3. Net(S) = (CHOOSE g : g = [s \in SUBSET S |-> IF s = {} THEN 0 ELSE g[s \ {Some(s)}] + AccountMoves[Some(s).move].amount])[S]
  BY DEF Net, FoldSet, MapThenFoldSet, Some
<1> QED BY <1>2, <1>3, Unfold

(* The moves up to a day are the first so many of them. *)
UpToDay(d) == {i \in DOMAIN AccountMoves : AccountMoves[i].day <= d}
LEMMA FirstMoves ==
    ASSUME NEW d \in Int PROVE EndOf(d) = Opening + SumAt(MoveAmounts, UpToDay(d))
<1> DEFINE n == Len(AccountMoves)
           S == {i \in 1..n + 1 : i = n + 1 \/ AccountMoves[i].day > d}
<1>1. n \in Nat /\ DOMAIN AccountMoves = 1..n /\ \A i \in 1..n : AccountMoves[i].day \in Nat
  BY MovesAre
<1>2. S \in SUBSET Nat /\ S # {}
  BY <1>1
<1>3. PICK m \in S : \A i \in S : m <= i
  <2> HIDE DEF S
  <2> QED BY <1>2, Lowest
<1>4. UpToDay(d) = 1..m - 1
  <2>1. ASSUME NEW i \in 1..n, AccountMoves[i].day <= d PROVE i <= m - 1
    <3>1. m \in 1..n + 1 /\ (m = n + 1 \/ AccountMoves[m].day > d)
      OBVIOUS
    <3>2. CASE m = n + 1
      BY <1>1, <3>2
    <3>3. CASE m # n + 1
      <4>1. m \in 1..n /\ AccountMoves[m].day > d /\ AccountMoves[m].day \in Nat /\ AccountMoves[i].day \in Nat
        BY <1>1, <3>1, <3>3
      <4>2. ~(m <= i)
        BY <1>1, <2>1, <4>1, MovesAre
      <4> QED BY <1>1, <4>1, <4>2
    <3> QED BY <3>2, <3>3
  <2>2. ASSUME NEW i \in 1..m - 1 PROVE i \in 1..n /\ AccountMoves[i].day <= d
    <3>1. i \in 1..n /\ ~(m <= i)
      BY <1>1, <1>2
    <3>2. i \notin S
      BY <1>3, <3>1
    <3>3. AccountMoves[i].day \in Nat
      BY <1>1, <3>1
    <3> QED BY <1>1, <3>1, <3>2, <3>3
  <2>3. m \in Nat
    BY <1>1, <1>2
  <2>4. \A i : i \in UpToDay(d) <=> i \in 1..m - 1
    <3>1. \A i : i \in UpToDay(d) <=> i \in 1..n /\ AccountMoves[i].day <= d
      BY <1>1 DEF UpToDay
    <3>2. \A i \in UpToDay(d) : i \in 1..m - 1
      BY <1>1, <2>1, <2>3, <3>1
    <3> QED BY <2>2, <3>1, <3>2
  <2> QED BY <2>4
<1>5. m - 1 \in Nat
  BY <1>1
<1>6. Cardinality(UpToDay(d)) = m - 1
  BY <1>4, <1>5, FS_Interval
<1>7. EndOf(d) = Opening + Amount(UpToDay(d))
  <2>1. EndOf(d) = HeldAfter(Cardinality(UpToDay(d)))
    BY DEF EndOf, UpToDay
  <2> QED BY <1>4, <1>6, <2>1 DEF HeldAfter
<1>8. UpToDay(d) \in SUBSET DOMAIN AccountMoves
  BY DEF UpToDay
<1> QED BY <1>7, <1>8, AmountIs
-----------------------------------------------------------------------------
(* A state of the account, and the anchor of one. *)
BalanceTyped ==
    /\ today \in Nat /\ stamp \in Nat /\ stamp <= today
    /\ booked \in SUBSET [move : DOMAIN AccountMoves, words : {"bank", "owner"}, by : 0..MaxImports]
    /\ statements \in Seq(DOMAIN StatementFiles \cup {Nil}) /\ Len(statements) <= MaxImports
    /\ stated # Nil => stated.asOf \in Int /\ stated.asOf <= today /\ stated.balance \in Int

LEMMA NewestOf ==
    ASSUME NEW S, IsFiniteSet(S), S # {}, S \in SUBSET Int, NEW f, \A n \in S : f[n] \in Int
    PROVE  \E n \in S : \A k \in S : f[k] < f[n] \/ (f[k] = f[n] /\ k <= n)
<1> DEFINE better(k, n) == f[k] < f[n] \/ (f[k] = f[n] /\ k <= n)
           P == {T \in SUBSET S : T # {} => \E n \in T : \A k \in T : better(k, n)}
<1>1. ASSUME NEW T \in SUBSET S, NEW x \in S \ T, T \in P PROVE T \cup {x} \in P
  <2>1. CASE T = {}
    <3>1. better(x, x)
      BY DEF better
    <3> QED BY <2>1, <3>1
  <2>2. CASE T # {}
    <3>1. PICK n \in T : \A k \in T : better(k, n)
      BY <1>1, <2>2
    <3>2. \A k \in T \cup {x} : k \in Int /\ f[k] \in Int
      OBVIOUS
    <3>3. CASE better(x, n)
      <4>1. \A k \in T \cup {x} : better(k, n)
        BY <3>1, <3>3
      <4> QED BY <4>1
    <3>4. CASE ~better(x, n)
      <4>1. better(n, x) /\ better(x, x)
        BY <3>2, <3>4
      <4>2. \A k \in T \cup {x} : better(k, x)
        BY <3>1, <3>2, <4>1
      <4> QED BY <4>2
    <3> QED BY <3>3, <3>4
  <2> QED BY <2>1, <2>2
<1>2. {} \in P
  OBVIOUS
<1> HIDE DEF P
<1>3. S \in P
  BY <1>1, <1>2, OneMore
<1> QED BY <1>3 DEF P

LEMMA AnchorIs ==
    BalanceTyped =>
      LET anchor == Anchor(statements, stated)
      IN anchor # Nil => anchor.asOf \in Int /\ anchor.asOf <= today
<1> SUFFICES ASSUME BalanceTyped, Anchor(statements, stated) # Nil
             PROVE  Anchor(statements, stated).asOf \in Int /\ Anchor(statements, stated).asOf <= today
  OBVIOUS
<1> DEFINE printing == Printing(statements)
           printed == FromStatement(statements)
           f == [n \in printing |-> Covers(statements[n])]
           best(n) == \A k \in printing : Covers(statements[k]) < Covers(statements[n]) \/ (Covers(statements[k]) = Covers(statements[n]) /\ k <= n)
<1>1. ASSUME printed # Nil PROVE printed.asOf \in Int /\ printed.asOf <= today
  <2>1. printing # {} /\ printed = [asOf |-> Covers(statements[CHOOSE n \in printing : best(n)]),
                               balance |-> HeldAfter(StatementFiles[statements[CHOOSE n \in printing : best(n)]].to)]
    BY <1>1 DEF FromStatement
  <2>2. printing \in SUBSET DOMAIN statements /\ \A n \in printing : statements[n] \in DOMAIN StatementFiles /\ Covers(statements[n]) <= today
    BY DEF BalanceTyped, Printing
  <2>3. \A n \in printing : Covers(statements[n]) \in Int
    BY <2>2, MovesAre, BalanceAssumption DEF Covers
  <2>4. DOMAIN statements = 1..Len(statements) /\ Len(statements) \in Nat
    BY DEF BalanceTyped
  <2>5. IsFiniteSet(printing) /\ printing \in SUBSET Int
    <3>1. IsFiniteSet(DOMAIN statements) /\ DOMAIN statements \in SUBSET Int
      BY <2>4, FS_Interval
    <3> HIDE DEF printing
    <3> QED BY <2>2, <3>1, FS_Subset
  <2>6. \A n \in printing : f[n] \in Int /\ f[n] = Covers(statements[n])
    BY <2>3
  <2>7. \E n \in printing : \A k \in printing : f[k] < f[n] \/ (f[k] = f[n] /\ k <= n)
    <3> HIDE DEF f, printing
    <3> QED BY <2>1, <2>5, <2>6, NewestOf
  <2>8. \E n \in printing : best(n)
    BY <2>6, <2>7
  <2> HIDE DEF best, printing
  <2>9. (CHOOSE n \in printing : best(n)) \in printing
    BY <2>8
  <2> QED BY <2>1, <2>2, <2>3, <2>9
<1>2. Anchor(statements, stated) = printed \/ (stated # Nil /\ Anchor(statements, stated) = stated)
  BY DEF Anchor
<1> HIDE DEF printed
<1> QED BY <1>1, <1>2 DEF BalanceTyped

LEMMA BookedFinite == BalanceTyped => IsFiniteSet(booked)
<1> SUFFICES ASSUME BalanceTyped PROVE IsFiniteSet(booked)
  OBVIOUS
<1> DEFINE P == (DOMAIN AccountMoves) \X ({"bank", "owner"} \X (0..MaxImports))
           f == [x \in P |-> [move |-> x[1], words |-> x[2][1], by |-> x[2][2]]]
<1>1. IsFiniteSet(DOMAIN AccountMoves) /\ IsFiniteSet({"bank", "owner"}) /\ IsFiniteSet(0..MaxImports)
  <2>1. IsFiniteSet({"bank", "owner"})
    <3>1. IsFiniteSet({"bank"} \cup {"owner"}) /\ {"bank", "owner"} = {"bank"} \cup {"owner"}
      BY FS_Singleton, FS_Union
    <3> QED BY <3>1
  <2>2. IsFiniteSet(DOMAIN AccountMoves)
    BY AmountIs
  <2>3. MaxImports \in Int
    BY BalanceAssumption
  <2>4. IsFiniteSet(0..MaxImports)
    BY <2>3, FS_Interval
  <2> QED BY <2>1, <2>2, <2>4
<1>2. IsFiniteSet(P)
  BY <1>1, FS_Product
<1>3. ASSUME NEW r \in booked PROVE \E x \in P : r = f[x]
  <2>1. /\ r.move \in DOMAIN AccountMoves /\ r.words \in {"bank", "owner"} /\ r.by \in 0..MaxImports
        /\ r = [move |-> r.move, words |-> r.words, by |-> r.by]
    BY DEF BalanceTyped
  <2>2. <<r.move, <<r.words, r.by>>>> \in P
    BY <2>1
  <2>3. r = f[<<r.move, <<r.words, r.by>>>>]
    BY <2>1, <2>2
  <2> QED BY <2>2, <2>3
<1> HIDE DEF f, P
<1>4. IsFiniteSet({f[x] : x \in P})
  BY <1>2, ImageFinite
<1> QED BY <1>3, <1>4, FS_Subset

(* The balance that is derived is the bank's, if each move after the anchor's *)
(* day is there once.                                                         *)
LEMMA DerivedIs ==
    BalanceTyped =>
      LET anchor == Anchor(statements, stated)
      IN anchor # Nil /\ anchor.balance = EndOf(anchor.asOf) /\ Known(Since(anchor.asOf))
            => Derived(statements, stated, booked, initial) = EndOf(today)
<1> DEFINE anchor == Anchor(statements, stated)
           d == anchor.asOf
           X == UpTo(booked, today) \ UpTo(booked, d)
           V == [r \in X |-> AccountMoves[r.move].amount]
           f == [r \in X |-> r.move]
<1> SUFFICES ASSUME BalanceTyped, anchor # Nil, anchor.balance = EndOf(d), Known(Since(d))
             PROVE  Derived(statements, stated, booked, initial) = EndOf(today)
  OBVIOUS
<1>1. d \in Int /\ d <= today /\ today \in Int
  BY AnchorIs DEF BalanceTyped
<1>2. Derived(statements, stated, booked, initial) = EndOf(d) + Net(X)
  BY DEF Derived
<1> HIDE DEF anchor, d
<1>3. \A r \in booked : r.move \in DOMAIN AccountMoves /\ AccountMoves[r.move].day \in Int /\ AccountMoves[r.move].amount \in Int
  BY MovesAre DEF BalanceTyped
<1>4. IsFiniteSet(X) /\ X \in SUBSET booked /\ IsFiniteSet(booked)
  BY BookedFinite, FS_Subset DEF UpTo
<1>5. X = {r \in booked : r.move \in Since(d)}
  BY <1>1, <1>3 DEF UpTo, Since
<1>6. \A i \in Since(d) : \E r : {q \in booked : q.move = i} = {r}
  <2> SUFFICES ASSUME NEW i \in Since(d) PROVE \E r : {q \in booked : q.move = i} = {r}
    OBVIOUS
  <2>1. Cardinality({q \in booked : q.move = i}) = 1
    BY DEF Known
  <2>2. IsFiniteSet({q \in booked : q.move = i})
    BY <1>4, FS_Subset
  <2> QED BY <2>1, <2>2, FS_Singleton
<1>7. \A r, q \in X : f[r] = f[q] => r = q
  BY <1>5, <1>6
<1>8. {f[r] : r \in X} = Since(d)
  BY <1>5, <1>6
<1>9. Weights(V, X) /\ \A r \in X : MoveAmounts[f[r]] = V[r]
  BY <1>3, <1>4 DEF Weights, MoveAmounts, AmountsAt
<1>10. Net(X) = SumAt(V, X)
  <2> HIDE DEF X
  <2> QED BY <1>4, NetIs
<1>11. Net(X) = SumAt(MoveAmounts, Since(d))
  <2> HIDE DEF X, V, f
  <2>1. SumAt(MoveAmounts, {f[r] : r \in X}) = SumAt(V, X)
    BY <1>4, <1>7, <1>9, SumRenamed
  <2> QED BY <1>8, <1>10, <2>1
<1>12. UpToDay(today) = UpToDay(d) \cup Since(d) /\ UpToDay(d) \cap Since(d) = {}
  <2>1. \A i \in DOMAIN AccountMoves : AccountMoves[i].day \in Int
    BY MovesAre
  <2> QED BY <1>1, <2>1 DEF UpToDay, Since
<1>13. /\ UpToDay(d) \in SUBSET DOMAIN AccountMoves /\ Since(d) \in SUBSET DOMAIN AccountMoves
       /\ UpToDay(d) \cup Since(d) \in SUBSET DOMAIN AccountMoves
  BY DEF UpToDay, Since
<1>14. SumAt(MoveAmounts, UpToDay(today)) = SumAt(MoveAmounts, UpToDay(d)) + SumAt(MoveAmounts, Since(d))
  BY <1>12, <1>13, AmountIs, SumBoth
<1>15. SumAt(MoveAmounts, UpToDay(d)) \in Int /\ SumAt(MoveAmounts, Since(d)) \in Int /\ Opening \in Int
  BY <1>13, AmountIs, SumInt, BalanceAssumption
<1>16. EndOf(d) = Opening + SumAt(MoveAmounts, UpToDay(d)) /\ EndOf(today) = Opening + SumAt(MoveAmounts, UpToDay(today))
  BY <1>1, FirstMoves
<1> HIDE DEF X, V, f
<1> QED BY <1>2, <1>11, <1>14, <1>15, <1>16
-----------------------------------------------------------------------------
(* The invariant: a balance that was computed today is the one that is        *)
(* derived now.                                                               *)
Stored == stamp = today => current = Derived(statements, stated, booked, initial)
BalanceInv == BalanceTyped /\ Stored

LEMMA DerivedThen ==
    ASSUME today' = today
    PROVE  (Derived(statements, stated, booked, initial))' = Derived(statements', stated', booked', initial')
<1>1. (Printing(statements))' = Printing(statements')
  BY DEF Printing
<1>2. (FromStatement(statements))' = FromStatement(statements')
  BY <1>1 DEF FromStatement
<1>3. (Anchor(statements, stated))' = Anchor(statements', stated')
  BY <1>2 DEF Anchor
<1> QED BY <1>3 DEF Derived

LEMMA BalanceBegins == BalanceInit => BalanceInv
<1> SUFFICES ASSUME BalanceInit PROVE BalanceInv
  OBVIOUS
<1>1. BalanceTyped
  BY BalanceAssumption DEF BalanceInit, BalanceTyped
<1>2. Anchor(statements, stated) = Nil
  BY DEF BalanceInit, Anchor, FromStatement, Printing
<1>3. UpTo(booked, today) = {} /\ Net({}) = 0
  <2>1. Net({}) = 0
    BY FS_EmptySet, NetIs, SumNone
  <2> QED BY <2>1 DEF BalanceInit, UpTo
<1>4. initial + 0 = initial
  BY BalanceAssumption DEF BalanceInit
<1>5. Derived(statements, stated, booked, initial) = current
  BY <1>2, <1>3, <1>4 DEF BalanceInit, Derived
<1> QED BY <1>1, <1>5 DEF BalanceInv, Stored

LEMMA BalanceStep ==
    ASSUME BalanceInv, [BalanceNext]_balanceVars PROVE BalanceInv'
<1>0. BalanceTyped
  BY DEF BalanceInv
<1>1. ASSUME Recomputed, UNCHANGED today PROVE Stored' /\ stamp' = today' /\ today' \in Nat
  <2>1. (Derived(statements, stated, booked, initial))' = Derived(statements', stated', booked', initial')
    BY <1>1, DerivedThen
  <2> QED BY <1>0, <1>1, <2>1 DEF Recomputed, Stored, BalanceTyped
<1>2. CASE UNCHANGED balanceVars
  <2>1. (Derived(statements, stated, booked, initial))' = Derived(statements', stated', booked', initial')
    BY <1>2, DerivedThen DEF balanceVars
  <2> QED BY <1>2, <2>1 DEF BalanceInv, BalanceTyped, Stored, balanceVars
<1>3. ASSUME NEW f \in DOMAIN StatementFiles, ImportStatement(f) PROVE BalanceInv'
  <2>1. PICK chosen \in SUBSET (StatementFiles[f].from..StatementFiles[f].to) :
          booked' = booked \cup [move : chosen, words : {"bank"}, by : {Len(statements) + 1}]
    BY <1>3 DEF ImportStatement
  <2>2. chosen \in SUBSET DOMAIN AccountMoves
    <3> DEFINE a == StatementFiles[f].from  b == StatementFiles[f].to  n == Len(AccountMoves)
    <3>1. n \in Nat /\ DOMAIN AccountMoves = 1..n
      BY MovesAre
    <3>2. a \in 1..n /\ b \in 1..n
      BY <3>1, BalanceAssumption
    <3>3. chosen \in SUBSET (a..b)
      OBVIOUS
    <3> HIDE DEF a, b, n
    <3> QED BY <3>1, <3>2, <3>3
  <2>3. Len(statements) + 1 \in 0..MaxImports /\ Len(statements) \in Nat
    BY <1>0, <1>3, BalanceAssumption DEF ImportStatement, BalanceTyped
  <2>4. booked' \in SUBSET [move : DOMAIN AccountMoves, words : {"bank", "owner"}, by : 0..MaxImports]
    BY <1>0, <2>1, <2>2, <2>3 DEF BalanceTyped
  <2>5. statements' \in Seq(DOMAIN StatementFiles \cup {Nil}) /\ Len(statements') = Len(statements) + 1
    <3>1. statements' = Append(statements, f) /\ statements \in Seq(DOMAIN StatementFiles \cup {Nil})
      BY <1>0, <1>3 DEF ImportStatement, BalanceTyped
    <3> QED BY <3>1
  <2>6. Stored' /\ stamp' = today' /\ today' \in Nat /\ today' = today /\ stated' = stated
    BY <1>1, <1>3 DEF ImportStatement
  <2> QED BY <1>0, <2>3, <2>4, <2>5, <2>6 DEF BalanceInv, BalanceTyped
<1>4. ASSUME NEW n \in DOMAIN statements, RollBack(n) PROVE BalanceInv'
  <2> DEFINE own == {r \in booked : r.by = n}
  <2>1. PICK kept \in SUBSET own : booked' = (booked \ own) \cup {[r EXCEPT !.by = 0] : r \in kept}
    BY <1>4 DEF RollBack
  <2>2. booked' \in SUBSET [move : DOMAIN AccountMoves, words : {"bank", "owner"}, by : 0..MaxImports]
    <3>1. \A r \in booked : r \in [move : DOMAIN AccountMoves, words : {"bank", "owner"}, by : 0..MaxImports]
      BY <1>0 DEF BalanceTyped
    <3>2. \A r \in booked : [r EXCEPT !.by = 0] \in [move : DOMAIN AccountMoves, words : {"bank", "owner"}, by : 0..MaxImports]
      <4> DEFINE W == {"bank", "owner"}
                 B == 0..MaxImports
      <4>1. 0 \in B
        BY BalanceAssumption
      <4> HIDE DEF W, B
      <4> QED BY <3>1, <4>1 DEF W, B
    <3> QED BY <2>1, <3>1, <3>2
  <2>3. statements' \in Seq(DOMAIN StatementFiles \cup {Nil}) /\ Len(statements') = Len(statements)
    <3>1. statements' = [statements EXCEPT ![n] = Nil] /\ statements \in Seq(DOMAIN StatementFiles \cup {Nil})
      BY <1>0, <1>4 DEF RollBack, BalanceTyped
    <3> QED BY <3>1
  <2>4. Stored' /\ stamp' = today' /\ today' \in Nat /\ today' = today /\ stated' = stated
    BY <1>1, <1>4 DEF RollBack
  <2> QED BY <1>0, <2>2, <2>3, <2>4 DEF BalanceInv, BalanceTyped
<1>5. ASSUME NEW i \in DOMAIN AccountMoves, NEW words \in {"bank", "owner"}, CreateTransaction(i, words) PROVE BalanceInv'
  <2>1. Stored' /\ stamp' = today' /\ today' \in Nat /\ today' = today /\ stated' = stated /\ statements' = statements
    BY <1>1, <1>5 DEF CreateTransaction
  <2>2. booked' \in SUBSET [move : DOMAIN AccountMoves, words : {"bank", "owner"}, by : 0..MaxImports]
    BY <1>0, <1>5, BalanceAssumption DEF CreateTransaction, BalanceTyped
  <2> QED BY <1>0, <2>1, <2>2 DEF BalanceInv, BalanceTyped
<1>6. ASSUME NEW r \in booked, RemoveTransaction(r) PROVE BalanceInv'
  <2>1. Stored' /\ stamp' = today' /\ today' \in Nat /\ today' = today /\ stated' = stated /\ statements' = statements
    BY <1>1, <1>6 DEF RemoveTransaction
  <2>2. booked' \in SUBSET booked
    BY <1>6 DEF RemoveTransaction
  <2> QED BY <1>0, <2>1, <2>2 DEF BalanceInv, BalanceTyped
<1>7. ASSUME NEW d \in 1..LastDate, NEW i \in 0..Len(AccountMoves), SetAnchor(d, i) PROVE BalanceInv'
  <2>1. Stored' /\ stamp' = today' /\ today' \in Nat /\ today' = today /\ booked' = booked /\ statements' = statements
    BY <1>1, <1>7 DEF SetAnchor
  <2>2. HeldAfter(i) \in Int
    <3>1. 1..i \in SUBSET DOMAIN AccountMoves
      BY MovesAre
    <3>2. Amount(1..i) \in Int
      BY <3>1, AmountIs, SumInt
    <3> QED BY <3>2, BalanceAssumption DEF HeldAfter
  <2>3. stated'.asOf = d /\ d \in Int /\ d <= today /\ stated'.balance = HeldAfter(i)
    BY <1>7 DEF SetAnchor
  <2> QED BY <1>0, <2>1, <2>2, <2>3 DEF BalanceInv, BalanceTyped
<1>8. ASSUME (\E b \in Initials : UpdateAccount(b)) \/ ListAccounts PROVE BalanceInv'
  <2>1. Stored' /\ stamp' = today' /\ today' \in Nat /\ UNCHANGED <<today, booked, statements, stated>>
    BY <1>1, <1>8 DEF UpdateAccount, ListAccounts
  <2> QED BY <1>0, <2>1 DEF BalanceInv, BalanceTyped
<1>9. CASE NextDay
  <2>1. today' \in Nat /\ stamp' \in Nat /\ stamp' < today' /\ today < today' /\ UNCHANGED <<booked, statements, stated>>
    BY <1>0, <1>9 DEF NextDay, BalanceTyped
  <2>2. BalanceTyped'
    BY <1>0, <2>1 DEF BalanceTyped
  <2> QED BY <2>1, <2>2 DEF BalanceInv, Stored
<1> QED BY <1>2, <1>3, <1>4, <1>5, <1>6, <1>7, <1>8, <1>9 DEF BalanceNext

(* The balance is the bank's wherever the anchor is one of a day that had      *)
(* ended, and the stored one is it since it was computed.                      *)
THEOREM BalanceIsTheBanks == BalanceSpec => []BalanceHolds
<1>1. BalanceInv => BalanceHolds
  BY DerivedIs DEF BalanceInv, Stored, BalanceHolds
<1> QED BY <1>1, BalanceBegins, BalanceStep, PTL DEF BalanceSpec
=============================================================================
