------------------------- MODULE ReconciliationProofs -------------------------
(***************************************************************************)
(* Theorems of Reconciliation: its types, that every record of a row on    *)
(* record is linked by that row, that one row closes one loan, that a card *)
(* bill is left out exactly when a report itemizes it, that undoing a      *)
(* statement is clean, and that a second pass of the resolver is silent.   *)
(*                                                                         *)
(* IInv adds to the properties that ids of rows and of records' rows were  *)
(* handed out, so that a new row finds no old record.  ReadInv adds that a *)
(* row of a statement has the kind of its line and that a closed loan was  *)
(* closed by a payoff that carries its number.  The silence of the second  *)
(* pass needs neither: it is that the withdrawals can choose their         *)
(* deposits in one way only, whatever the resolver made of the rows.       *)
(***************************************************************************)
EXTENDS Reconciliation, TLAPS, WellFoundedInduction, FiniteSetTheorems

OneEach(rs) == \A r, s \in rs : r.id = s.id => r = s

Money(rs, recs, n) ==
    /\ rs \subseteq Row
    /\ OneEach(rs)
    /\ recs \subseteq Nat \X Tables
    /\ Backed(recs, rs)
    /\ \A r \in rs : r.id < n
    /\ \A record \in recs : record[1] < n

IInv ==
    /\ LoansTypeOK
    /\ imports \subseteq Files
    /\ confirmed \subseteq Reports
    /\ nextId \in Nat
    /\ Money(rows, records, nextId)
    /\ PayoffOnce
-----------------------------------------------------------------------------
(* Rows and records *)

LEMMA MeaningType ==
    ASSUME NEW r \in Row, NEW transfers, NEW reports
    PROVE  Meaning(r, transfers, reports) \in Resolutions
BY DEF Meaning, Resolutions, Row, Kinds

LEMMA BackfilledType ==
    ASSUME NEW r \in Row
    PROVE  Backfilled(r) \in Row /\ Backfilled(r).id = r.id
BY LinesAssumption DEF Backfilled, Row

LEMMA AppliedType ==
    ASSUME NEW r \in Row, NEW transfers, NEW reports
    PROVE  Applied(r, transfers, reports) \in Row /\ Applied(r, transfers, reports).id = r.id
BY MeaningType DEF Applied, Row

LEMMA ResolvedType ==
    ASSUME NEW rs \in SUBSET Row, NEW reports
    PROVE  /\ Resolved(rs, reports) \subseteq Row
           /\ \A s \in Resolved(rs, reports) : \E r \in rs : r.id = s.id
           /\ OneEach(rs) => OneEach(Resolved(rs, reports))
<1>1. DEFINE known == {Backfilled(r) : r \in rs}
<1>2. /\ known \subseteq Row
      /\ \A s \in known : \E r \in rs : r.id = s.id
      /\ OneEach(rs) => OneEach(known)
  BY BackfilledType DEF OneEach
<1>3. Resolved(rs, reports) = {Applied(r, Transfers(known), reports) : r \in known}
  BY DEF Resolved
<1> HIDE DEF known
<1>4. QED
  BY <1>2, <1>3, AppliedType DEF OneEach

LEMMA LinksType ==
    ASSUME NEW rs \in SUBSET Row
    PROVE  /\ Links(rs) \subseteq Nat \X Tables
           /\ \A x \in Links(rs) : \E r \in rs : r.id = x[1]
BY DEF Links, Row

(* Records that follow their rows stay backed, when the rows that appear   *)
(* have fresh ids.                                                         *)
LEMMA FollowKeeps ==
    ASSUME NEW recs, NEW rs \in SUBSET Row, NEW after \in SUBSET Row, NEW n \in Nat, NEW m \in Nat,
           Money(rs, recs, n), n <= m, OneEach(after),
           \A s \in after : (\E r \in rs : r.id = s.id) \/ (n <= s.id /\ s.id < m)
    PROVE  Money(after, Follow(recs, rs, after), m)
<1>1. Follow(recs, rs, after) \subseteq Nat \X Tables
  BY LinksType DEF Follow, Money
<1>2. \A s \in after : s.id < m
  BY DEF Money, Row
<1>3. \A record \in Follow(recs, rs, after) : record[1] < m
  BY <1>2, LinksType DEF Follow, Money, Row
<1>4. ASSUME NEW record \in Follow(recs, rs, after), NEW s \in after, s.id = record[1], record \notin Links(after)
      PROVE  FALSE
  <2>1. record \in recs /\ record \notin Links(rs)
    BY <1>4 DEF Follow
  <2>2. record[1] < n /\ record[1] \in Nat
    BY <2>1 DEF Money
  <2>3. \E r \in rs : r.id = record[1]
    BY <1>4, <2>2
  <2>4. QED
    BY <2>1, <2>3 DEF Money, Backed
<1>5. QED
  BY <1>1, <1>2, <1>3, <1>4 DEF Money, Backed

(* The resolver keeps what it is given. *)
LEMMA ResolveKeeps ==
    ASSUME NEW rs \in SUBSET Row, NEW recs, NEW n \in Nat, Money(rs, recs, n), ResolveAll(rs, recs)
    PROVE  Money(rows', records', n)
<1>1. /\ rows' \subseteq Row /\ OneEach(rows')
      /\ \A s \in rows' : \E r \in rs : r.id = s.id
  BY ResolvedType DEF ResolveAll, Money
<1>2. records' = Follow(recs, rs, rows')
  BY DEF ResolveAll
<1>3. QED
  BY <1>1, <1>2, FollowKeeps
-----------------------------------------------------------------------------
(* Loans *)

(* A step that leaves the closing row of each loan, or forgets it, keeps   *)
(* the claims of rows on loans apart.                                      *)
Claims(ls) ==
    \A l \in LoanIds : ls[l] # None /\ ls[l].by # None =>
        /\ ls[l].status = "finished"
        /\ \A m \in LoanIds : ls[m] # None /\ ls[m].by = ls[l].by => m = l

LEMMA ClaimsApart == PayoffOnce <=> Claims(loans)
BY DEF PayoffOnce, Claims, Held

LEMMA OwedType ==
    ASSUME NEW balance \in Nat, NEW number \in LoanNumbers \cup {None}, NEW status \in {"active", "finished"}
    PROVE  /\ Owed(balance, number) \in Loan
           /\ [Owed(balance, number) EXCEPT !.status = status] \in Loan
           /\ Owed(balance, number).by = None
           /\ [Owed(balance, number) EXCEPT !.status = status].by = None
BY DEF Owed, Loan

LEMMA CreateKeeps ==
    ASSUME LoansTypeOK, PayoffOnce, NEW l \in LoanIds, NEW status \in {"active", "finished"}, NEW balance \in Nat,
           NEW number \in LoanNumbers \cup {None}, CreateLoan(l, status, balance, number)
    PROVE  LoansTypeOK' /\ PayoffOnce'
<1>1. LoansTypeOK'
  BY OwedType DEF LoansTypeOK, CreateLoan
<1>2. Claims(loans')
  BY OwedType, ClaimsApart DEF Claims, CreateLoan, LoansTypeOK
<1>3. QED
  BY <1>1, <1>2, ClaimsApart DEF PayoffOnce, Claims, Held

LEMMA UpdateKeeps ==
    ASSUME LoansTypeOK, PayoffOnce, NEW l \in LoanIds, NEW status \in {"active", "finished"}, NEW balance \in Nat,
           NEW number \in LoanNumbers \cup {None}, UpdateLoan(l, status, balance, number)
    PROVE  LoansTypeOK' /\ PayoffOnce'
<1>1. loans[l] \in Loan /\ loans[l] # None
  BY DEF UpdateLoan, Held, LoansTypeOK
<1>2. PICK by \in {None, loans[l].by} :
        /\ loans' = [loans EXCEPT ![l] = [status |-> status, balance |-> balance, number |-> number, by |-> by]]
        /\ by # None => status = "finished"
  BY <1>1, ClaimsApart DEF UpdateLoan, LoansTypeOK, Claims
<1>3. LoansTypeOK'
  BY <1>1, <1>2 DEF LoansTypeOK, Loan
<1>4. Claims(loans')
  BY <1>1, <1>2, ClaimsApart DEF Claims, LoansTypeOK
<1>5. QED
  BY <1>3, <1>4 DEF PayoffOnce, Claims, Held

LEMMA CloseKeeps ==
    ASSUME LoansTypeOK, PayoffOnce, NEW l \in LoanIds, CloseLoan(l) \/ RemoveLoan(l)
    PROVE  LoansTypeOK' /\ PayoffOnce'
<1>1. loans[l] \in Loan /\ loans[l] # None
  BY DEF CloseLoan, RemoveLoan, Held, LoansTypeOK
<1>2. PICK loan \in Loan \cup {None} : loans' = [loans EXCEPT ![l] = loan] /\ (loan # None => loan.by = None)
  <2>1. CASE CloseLoan(l)
    <3>1. [loans[l] EXCEPT !.status = "finished", !.balance = 0, !.by = None] \in Loan
      BY <1>1 DEF Loan
    <3>2. [loans[l] EXCEPT !.status = "finished", !.balance = 0, !.by = None].by = None
      BY <1>1 DEF Loan
    <3>3. loans' = [loans EXCEPT ![l] = [loans[l] EXCEPT !.status = "finished", !.balance = 0, !.by = None]]
      BY <2>1 DEF CloseLoan
    <3>4. QED
      BY <3>1, <3>2, <3>3
  <2>2. CASE RemoveLoan(l)
    BY <2>2 DEF RemoveLoan
  <2>3. QED
    BY <2>1, <2>2
<1>3. LoansTypeOK'
  BY <1>2 DEF LoansTypeOK
<1>4. Claims(loans')
  BY <1>2, ClaimsApart DEF Claims, LoansTypeOK
<1>5. QED
  BY <1>3, <1>4 DEF PayoffOnce, Claims, Held

(* A listing closes loans with rows no other loan claims. *)
LEMMA SyncKeeps ==
    ASSUME LoansTypeOK, PayoffOnce, rows \subseteq Row, SyncFromStatement(rows)
    PROVE  LoansTypeOK' /\ PayoffOnce'
<1>1. PICK choice \in [LoanIds -> {r.id : r \in rows} \cup {None}] :
        /\ Choosing(rows, choice)
        /\ loans' = [l \in LoanIds |->
               IF choice[l] = None THEN loans[l]
               ELSE [loans[l] EXCEPT !.status = "finished", !.balance = 0, !.by = choice[l]]]
  BY DEF SyncFromStatement
<1>2. ASSUME NEW l \in LoanIds, choice[l] # None
      PROVE  /\ l \in Held
             /\ choice[l] \in Nat
             /\ choice[l] \notin Claimed
             /\ \A m \in 1..(l - 1) : choice[l] # choice[m]
  <2>1. /\ l \in Held
        /\ \E r \in FirstOf(PayoffsOf(l, rows, Claimed \cup {choice[m] : m \in 1..(l - 1)})) : choice[l] = r.id
    BY <1>1, <1>2 DEF Choosing
  <2>2. \E r \in rows : choice[l] = r.id /\ r.id \notin Claimed \cup {choice[m] : m \in 1..(l - 1)}
    BY <2>1 DEF FirstOf, PayoffsOf
  <2>3. QED
    BY <2>1, <2>2 DEF Row
<1>3. ASSUME NEW l \in LoanIds
      PROVE  /\ choice[l] = None => loans'[l] = loans[l]
             /\ choice[l] # None => loans'[l] \in Loan /\ loans'[l].by = choice[l] /\ loans'[l].status = "finished"
  <2>1. choice[l] # None => loans[l] \in Loan
    BY <1>2 DEF Held, LoansTypeOK
  <2>2. QED
    BY <1>1, <1>2, <2>1 DEF Loan
<1>4. LoansTypeOK'
  BY <1>1, <1>3 DEF LoansTypeOK
<1>5. ASSUME NEW l \in LoanIds, loans[l] # None, loans[l].by # None, NEW m \in LoanIds, choice[m] # None
      PROVE  loans[l].by # choice[m]
  BY <1>2, <1>5 DEF Claimed, Held
<1>6. ASSUME NEW l \in LoanIds, NEW m \in LoanIds, choice[l] # None, choice[m] = choice[l]
      PROVE  m = l
  BY <1>2, <1>6, LoansAssumption DEF LoanIds
<1>7. Claims(loans')
  BY <1>3, <1>5, <1>6, ClaimsApart DEF Claims
<1>8. QED
  BY <1>4, <1>7 DEF PayoffOnce, Claims, Held

(* A loan that opens again or goes leaves the others their rows. *)
LEMMA ReopenKeeps ==
    ASSUME LoansTypeOK, PayoffOnce, NEW doomed \in SUBSET Row, loans' = Reopened(doomed)
    PROVE  LoansTypeOK' /\ PayoffOnce'
<1>1. DEFINE payoffs == {r \in doomed : r.kind \in PayoffKinds /\ Ref(r) # None}
             amount(l) == AmountOf[(CHOOSE r \in payoffs : r.id = loans[l].by).line]
             opens(l) == l \in Closed /\ \E r \in payoffs :
                             loans[l].by = r.id /\ \E s \in payoffs : Ref(s) = loans[l].number
<1>2. loans' = [l \in LoanIds |-> IF opens(l) THEN Owed(amount(l), loans[l].number) ELSE loans[l]]
  BY DEF Reopened
<1>3. ASSUME NEW l \in LoanIds, opens(l)
      PROVE  Owed(amount(l), loans[l].number) \in Loan /\ Owed(amount(l), loans[l].number).by = None
  <2>1. amount(l) \in Nat
    BY <1>3, LinesAssumption DEF Row
  <2>2. loans[l].number \in LoanNumbers \cup {None}
    BY <1>3 DEF Closed, Held, LoansTypeOK, Loan
  <2>3. QED
    BY <2>1, <2>2, OwedType
<1> HIDE DEF payoffs, amount, opens
<1>4. LoansTypeOK'
  BY <1>2, <1>3 DEF LoansTypeOK
<1>5. Claims(loans')
  BY <1>2, <1>3, ClaimsApart DEF Claims
<1>6. QED
  BY <1>4, <1>5 DEF PayoffOnce, Claims, Held

LEMMA DropKeeps ==
    ASSUME LoansTypeOK, PayoffOnce, NEW gone, loans' = [l \in LoanIds |-> IF l \in gone THEN None ELSE loans[l]]
    PROVE  LoansTypeOK' /\ PayoffOnce'
<1>1. LoansTypeOK'
  BY DEF LoansTypeOK
<1>2. Claims(loans')
  BY ClaimsApart DEF Claims
<1>3. QED
  BY <1>1, <1>2 DEF PayoffOnce, Claims, Held
-----------------------------------------------------------------------------
(* The steps *)

LEMMA InitIInv == Init => IInv
BY DEF Init, IInv, Money, OneEach, Backed, PayoffOnce, LoansInit, LoansTypeOK, Held

(* The rows an import adds are typed, and numbered from the counter on. *)
LEMMA ImportRows ==
    ASSUME IInv, NEW file \in Files, NEW chosen \in SUBSET (1..Len(FileOf[file])), ImportStatement(file, chosen)
    PROVE  /\ nextId' \in Nat /\ nextId <= nextId'
           /\ chosen # {} =>
                 \E rs \in SUBSET Row :
                     /\ ResolveAll(rs, records) /\ Money(rs, records, nextId')
                     /\ rows \subseteq rs
                     /\ \A s \in rs \ rows : nextId <= s.id /\ s.kind = KindOf[s.line]
<1>1. DEFINE new(i) == NewRow(nextId + i - 1, FileOf[file][i], KindOf[FileOf[file][i]], file)
             fresh == {new(i) : i \in chosen}
<1>2. FileOf[file] \in Seq(Lines) /\ Len(FileOf[file]) \in Nat /\ nextId \in Nat
  BY FilesAssumption DEF IInv
<1>3. nextId' \in Nat /\ nextId <= nextId'
  BY <1>2 DEF ImportStatement
<1>4. ASSUME NEW i \in chosen
      PROVE  /\ new(i) \in Row /\ new(i).id = nextId + i - 1 /\ new(i).kind = KindOf[new(i).line]
             /\ nextId <= new(i).id /\ new(i).id < nextId'
  <2>1. i \in 1..Len(FileOf[file]) /\ FileOf[file][i] \in Lines
    BY <1>2
  <2>2. nextId + i - 1 \in Nat /\ nextId <= nextId + i - 1 /\ nextId + i - 1 < nextId'
    BY <1>2, <2>1 DEF ImportStatement
  <2>3. KindOf[FileOf[file][i]] \in Kinds
    BY <2>1, LinesAssumption
  <2>4. QED
    BY <2>1, <2>2, <2>3 DEF NewRow, Row
<1> HIDE DEF new
<1>5. OneEach(fresh)
  <2>1. \A i, j \in chosen : new(i).id = new(j).id => i = j
    BY <1>2, <1>4
  <2>2. QED
    BY <2>1 DEF OneEach
<1>6. fresh \in SUBSET Row /\ \A s \in fresh : nextId <= s.id /\ s.id < nextId' /\ s.kind = KindOf[s.line]
  BY <1>4
<1>7. chosen # {} => ResolveAll(rows \cup fresh, records)
  BY DEF ImportStatement, new
<1> HIDE DEF fresh
<1>8. Money(rows \cup fresh, records, nextId')
  <2>1. OneEach(rows \cup fresh)
    BY <1>2, <1>5, <1>6 DEF OneEach, IInv, Money, Row
  <2>2. QED
    BY <1>2, <1>3, <1>6, <2>1 DEF IInv, Money, Backed, Row, Links
<1>9. rows \cup fresh \in SUBSET Row /\ rows \subseteq rows \cup fresh
  BY <1>8 DEF Money
<1>10. QED
  BY <1>3, <1>6, <1>7, <1>8, <1>9

LEMMA ImportKeeps ==
    ASSUME IInv, NEW file \in Files, NEW chosen \in SUBSET (1..Len(FileOf[file])), ImportStatement(file, chosen)
    PROVE  IInv'
<1>1. nextId \in Nat /\ nextId' \in Nat /\ nextId <= nextId'
  BY ImportRows DEF IInv
<1>2. Money(rows', records', nextId')
  <2>1. CASE chosen = {}
    BY <1>1, <2>1 DEF ImportStatement, IInv, Money, Backed, Row, Links
  <2>2. CASE chosen # {}
    BY <1>1, <2>2, ImportRows, ResolveKeeps
  <2>3. QED
    BY <2>1, <2>2
<1>3. QED
  BY <1>1, <1>2 DEF ImportStatement, IInv, LoansTypeOK, PayoffOnce, Held

(* A row replaced by one of the same id, and the records that follow it. *)
LEMMA ChangeKeeps ==
    ASSUME NEW r \in rows, NEW s \in Row, s.id = r.id, nextId \in Nat, Money(rows, records, nextId)
    PROVE  /\ Change(r, s) \in SUBSET Row
           /\ Money(Change(r, s), Follow(records, rows, Change(r, s)), nextId)
<1>1. rows \in SUBSET Row /\ Change(r, s) \in SUBSET Row
  BY DEF Change, Money
<1>2. OneEach(Change(r, s)) /\ \A t \in Change(r, s) : \E q \in rows : q.id = t.id
  BY DEF Change, OneEach, Money
<1>3. QED
  BY <1>1, <1>2, FollowKeeps

LEMMA RowStepKeeps ==
    ASSUME IInv, NEW r \in rows, LinkIncome(r) \/ LinkExpense(r) \/ Exclude(r)
    PROVE  IInv'
<1>1. r \in Row
  BY DEF IInv, Money
<1>2. PICK s \in Row : /\ s.id = r.id
                       /\ rows' = Change(r, s)
                       /\ records' = Follow(records, rows, Change(r, s))
  <2>1. /\ [r EXCEPT !.resolution = "income", !.links = @ \cup {"income"}] \in Row
        /\ [r EXCEPT !.resolution = "expense", !.links = @ \cup {"expense"}] \in Row
        /\ [r EXCEPT !.resolution = "manual_excluded", !.links = {}, !.loan = None] \in Row
    BY <1>1 DEF Row, Resolutions, Tables
  <2>2. QED
    BY <1>1, <2>1 DEF LinkIncome, LinkExpense, Exclude, Row
<1>3. Money(rows', records', nextId)
  BY <1>2, ChangeKeeps DEF IInv
<1>4. QED
  BY <1>3 DEF IInv, LinkIncome, LinkExpense, Exclude, LoansTypeOK, PayoffOnce, Held

(* A row that is reset is as new, and the resolver runs. *)
LEMMA ResetRows ==
    ASSUME IInv, NEW r \in rows, Reset(r)
    PROVE  \E rs \in SUBSET Row, blank \in Row :
               /\ ResolveAll(rs, Follow(records, rows, rs)) /\ Money(rs, Follow(records, rows, rs), nextId)
               /\ rs = Change(r, blank)
               /\ blank.id = r.id /\ blank.kind = r.kind /\ blank.line = r.line
<1>1. DEFINE blank == [r EXCEPT !.resolution = None, !.links = {}, !.loan = None]
             after == Change(r, blank)
<1>2. /\ r \in Row
      /\ blank \in Row /\ blank.id = r.id /\ blank.kind = r.kind /\ blank.line = r.line
  BY DEF IInv, Money, Row
<1>3. after \in SUBSET Row /\ Money(after, Follow(records, rows, after), nextId)
  BY <1>2, ChangeKeeps DEF IInv
<1>4. ResolveAll(after, Follow(records, rows, after))
  BY DEF Reset
<1>5. after = Change(r, blank)
  OBVIOUS
<1> HIDE DEF after, blank
<1>6. QED
  BY <1>2, <1>3, <1>4, <1>5

LEMMA ResetKeeps ==
    ASSUME IInv, NEW r \in rows, Reset(r)
    PROVE  IInv'
<1>1. Money(rows', records', nextId)
  BY ResetRows, ResolveKeeps DEF IInv
<1>2. LoansTypeOK' /\ PayoffOnce'
  <2>1. PICK gone : loans' = [l \in LoanIds |-> IF l \in gone THEN None ELSE loans[l]]
    <3>1. loans' = [l \in LoanIds |-> IF l \in {m \in LoanIds : m = r.loan /\ \A s \in rows : s.loan = r.loan => s = r}
                                        THEN None ELSE loans[l]]
      BY DEF Reset
    <3>2. QED
      BY <3>1
  <2>2. QED
    BY <2>1, DropKeeps DEF IInv
<1>3. QED
  BY <1>1, <1>2 DEF IInv, Reset

(* Rows that go, rows that stay detached. *)
Doomed(file) == {r \in rows : r.file = file /\ ~ByHand(r)}
Same(r, s) == r.id = s.id /\ r.links = s.links /\ r.kind = s.kind /\ r.line = s.line /\ r.resolution = s.resolution

LEMMA RollbackRows ==
    ASSUME IInv, NEW file \in Files, Rollback(file)
    PROVE  /\ loans' = Reopened(Doomed(file)) /\ Doomed(file) \in SUBSET Row
           /\ \E rs \in SUBSET Row :
                 /\ ResolveAll(rs, records \ Links(Doomed(file)))
                 /\ Money(rs, records \ Links(Doomed(file)), nextId)
                 /\ \A s \in rs : \E r \in rows \ Doomed(file) : Same(r, s)
                 /\ \A r \in rows \ Doomed(file) : \E s \in rs : Same(r, s)
<1>1. DEFINE ofFile == {r \in rows : r.file = file}
             detached(r) == [r EXCEPT !.file = None]
             kept == {detached(r) : r \in {s \in ofFile : ByHand(s)}}
             doomed == {r \in ofFile : ~ByHand(r)}
             left == (rows \ ofFile) \cup kept
<1>2. rows \in SUBSET Row /\ doomed \in SUBSET Row /\ Doomed(file) = doomed
  BY DEF IInv, Money, Doomed
<1>3. ResolveAll(left, records \ Links(doomed)) /\ loans' = Reopened(doomed)
  BY DEF Rollback
<1>4. \A r \in rows : detached(r) \in Row /\ Same(r, detached(r))
  BY <1>2 DEF Row, Same
<1> HIDE DEF detached
<1>5. /\ left \in SUBSET Row /\ OneEach(left)
      /\ \A s \in left : \E r \in rows \ doomed : Same(r, s)
      /\ \A r \in rows \ doomed : \E s \in left : Same(r, s)
  <2>1. left \in SUBSET Row /\ \A s \in left : \E r \in rows \ doomed : Same(r, s)
    BY <1>2, <1>4 DEF Same
  <2>2. \A r \in rows \ doomed : \E s \in left : Same(r, s)
    BY <1>4 DEF Same
  <2>3. OneEach(left)
    BY <1>4 DEF OneEach, IInv, Money, Same
  <2>4. QED
    BY <2>1, <2>2, <2>3
<1> HIDE DEF left, doomed
<1>6. Links(rows) \ Links(doomed) \subseteq Links(left)
  BY <1>5 DEF Links, Same
<1>7. Money(left, records \ Links(doomed), nextId)
  <2>1. Backed(records \ Links(doomed), left)
    BY <1>5, <1>6 DEF IInv, Money, Backed, Same
  <2>2. QED
    BY <1>5, <2>1 DEF IInv, Money, Same
<1>8. QED
  BY <1>2, <1>3, <1>5, <1>7

LEMMA RollbackKeeps ==
    ASSUME IInv, NEW file \in Files, Rollback(file)
    PROVE  IInv'
<1>1. /\ imports' = imports \ {file}
      /\ UNCHANGED <<confirmed, nextId>>
  BY DEF Rollback
<1>2. Money(rows', records', nextId)
  BY RollbackRows, ResolveKeeps DEF IInv
<1>3. LoansTypeOK' /\ PayoffOnce'
  BY RollbackRows, ReopenKeeps DEF IInv
<1>4. QED
  BY <1>1, <1>2, <1>3 DEF IInv

LEMMA RowsGoKeeps ==
    ASSUME IInv, RemoveAccount \/ \E r \in rows : RemoveTransaction(r)
    PROVE  IInv'
<1>1. rows' \subseteq rows /\ OneEach(rows) /\ UNCHANGED <<loans, records, confirmed, nextId>> /\ imports' \subseteq Files
  BY DEF RemoveAccount, RemoveTransaction, IInv, Money
<1>2. Backed(records, rows')
  <2>1. ASSUME NEW record \in records, NEW r \in rows', r.id = record[1], record \notin Links(rows')
        PROVE  FALSE
    <3>1. record \in Links(rows)
      BY <1>1, <2>1 DEF IInv, Money, Backed
    <3>2. PICK s \in rows : s.id = record[1] /\ record \in {s.id} \X s.links
      BY <3>1 DEF Links
    <3>3. s = r
      BY <1>1, <2>1, <3>2 DEF OneEach
    <3>4. QED
      BY <2>1, <3>2, <3>3 DEF Links
  <2>2. QED
    BY <2>1 DEF Backed
<1>3. QED
  BY <1>1, <1>2 DEF IInv, Money, OneEach, LoansTypeOK, PayoffOnce, Held

LEMMA TypeInKeeps ==
    ASSUME IInv, NEW line \in Lines, TypeIn(line)
    PROVE  IInv'
<1>1. NewRow(nextId, line, "standard", None) \in Row /\ NewRow(nextId, line, "standard", None).id = nextId
  BY DEF NewRow, Row, Kinds, IInv
<1>2. PICK new \in Row : new.id = nextId /\ rows' = rows \cup {new}
  BY <1>1 DEF TypeIn
<1>3. nextId' = nextId + 1 /\ UNCHANGED <<loans, records, imports, confirmed>>
  BY DEF TypeIn
<1>4. OneEach(rows') /\ \A r \in rows' : r.id < nextId'
  BY <1>2, <1>3 DEF OneEach, IInv, Money, Row
<1>5. Backed(records', rows')
  <2>1. Links(rows) \subseteq Links(rows')
    BY <1>2 DEF Links
  <2>2. \A record \in records : record[1] \in Nat /\ record[1] < nextId
    BY DEF IInv, Money
  <2>3. ASSUME NEW record \in records, NEW r \in rows', r.id = record[1]
        PROVE  record \in Links(rows')
    <3>1. r \in rows
      BY <1>2, <2>2, <2>3 DEF IInv
    <3>2. QED
      BY <2>1, <2>3, <3>1 DEF IInv, Money, Backed
  <2>4. QED
    BY <1>3, <2>3 DEF Backed
<1>6. \A record \in records' : record[1] < nextId'
  BY <1>3 DEF IInv, Money
<1>7. QED
  BY <1>2, <1>3, <1>4, <1>5, <1>6 DEF IInv, Money, LoansTypeOK, PayoffOnce, Held

LEMMA LinkLoanKeeps ==
    ASSUME IInv, NEW l \in LoanIds, NEW chosen \in SUBSET rows, NEW balance \in Openings(chosen),
           LinkLoan(l, chosen, balance)
    PROVE  IInv'
<1>1. DEFINE linked(r) == [r EXCEPT !.loan = l]
<1>2. rows' = (rows \ chosen) \cup {linked(r) : r \in chosen}
  BY DEF LinkLoan
<1>3. \A r \in rows : linked(r) \in Row /\ linked(r).id = r.id /\ linked(r).links = r.links
  BY DEF IInv, Money, Row
<1> HIDE DEF linked
<1>4. rows' \subseteq Row /\ OneEach(rows')
  BY <1>2, <1>3 DEF OneEach, IInv, Money
<1>5. /\ \A s \in rows' : \E r \in rows : r.id = s.id /\ r.links = s.links
      /\ \A r \in rows : \E s \in rows' : r.id = s.id /\ r.links = s.links
  BY <1>2, <1>3
<1>6. Links(rows') = Links(rows)
  BY <1>5 DEF Links
<1>7. UNCHANGED <<records, imports, confirmed, nextId>>
  BY DEF LinkLoan
<1>8. Money(rows', records', nextId')
  BY <1>4, <1>5, <1>6, <1>7 DEF IInv, Money, Backed
<1>9. LoansTypeOK' /\ PayoffOnce'
  <2>1. balance \in Nat
    <3>1. \A r \in chosen : AmountOf[r.line] \in Nat
      BY LinesAssumption DEF IInv, Money, Row
    <3>2. QED
      BY <3>1, LoansAssumption DEF Openings
  <2>2. CASE UNCHANGED loans
    BY <2>2 DEF IInv, LoansTypeOK, PayoffOnce, Held
  <2>3. CASE CreateLoan(l, "active", balance, None)
    BY <2>1, <2>3, CreateKeeps DEF IInv
  <2>4. QED
    BY <2>2, <2>3 DEF LinkLoan
<1>10. QED
  BY <1>7, <1>8, <1>9 DEF IInv

LEMMA LoanRequestKeeps ==
    ASSUME IInv, NEW l \in LoanIds, LoanRequest(l)
    PROVE  IInv'
<1>1. UNCHANGED <<rows, records, imports, confirmed, nextId>>
  BY DEF LoanRequest
<1>2. LoansTypeOK' /\ PayoffOnce'
  <2>1. CASE \E status \in {"active", "finished"}, number \in LoanNumbers \cup {None}, balance \in Balances :
                 CreateLoan(l, status, balance, number)
    BY <2>1, CreateKeeps, LoansAssumption DEF IInv
  <2>2. CASE \E status \in {"active", "finished"}, number \in LoanNumbers \cup {None} :
                 l \in Held /\ \E balance \in Balances \cup {loans[l].balance} : UpdateLoan(l, status, balance, number)
    <3>1. l \in Held /\ loans[l].balance \in Nat
      BY <2>2 DEF Held, IInv, LoansTypeOK, Loan
    <3>2. QED
      BY <2>2, <3>1, UpdateKeeps, LoansAssumption DEF IInv
  <2>3. CASE CloseLoan(l) \/ RemoveLoan(l)
    BY <2>3, CloseKeeps DEF IInv
  <2>4. QED
    BY <2>1, <2>2, <2>3 DEF LoanRequest
<1>3. QED
  BY <1>1, <1>2 DEF IInv

(* What resolves the rows on record and leaves the loans alone. *)
LEMMA PassKeeps ==
    ASSUME IInv, Reconcile \/ \E report \in Reports : ConfirmReport(report) \/ RemoveReport(report)
    PROVE  IInv'
<1>1. /\ ResolveAll(rows, records)
      /\ UNCHANGED <<loans, imports, nextId>>
      /\ confirmed' \subseteq Reports
  BY DEF Reconcile, ConfirmReport, RemoveReport, IInv
<1>2. Money(rows', records', nextId)
  BY <1>1, ResolveKeeps DEF IInv, Money
<1>3. QED
  BY <1>1, <1>2 DEF IInv, LoansTypeOK, PayoffOnce, Held

LEMMA OtherKeeps ==
    ASSUME IInv, ListLoans \/ (\E record \in records : RemoveRecord(record)) \/ UNCHANGED vars
    PROVE  IInv'
<1>1. CASE ListLoans
  <2>1. UNCHANGED <<rows, records, imports, confirmed, nextId>> /\ LoansTypeOK' /\ PayoffOnce'
    BY <1>1, SyncKeeps DEF ListLoans, IInv, Money
  <2>2. QED
    BY <2>1 DEF IInv
<1>2. CASE \E record \in records : RemoveRecord(record)
  <2>1. records' \subseteq records /\ UNCHANGED <<loans, rows, imports, confirmed, nextId>>
    BY <1>2 DEF RemoveRecord
  <2>2. QED
    BY <2>1 DEF IInv, Money, Backed, LoansTypeOK, PayoffOnce, Held
<1>3. CASE UNCHANGED vars
  BY <1>3 DEF vars, IInv, LoansTypeOK, PayoffOnce, Held
<1>4. QED
  BY <1>1, <1>2, <1>3

LEMMA StepKeeps == IInv /\ [Next]_vars => IInv'
<1> SUFFICES ASSUME IInv, [Next]_vars PROVE IInv'
  OBVIOUS
<1>1. CASE \E file \in Files : \E chosen \in SUBSET (1..Len(FileOf[file])) : ImportStatement(file, chosen)
  BY <1>1, ImportKeeps
<1>2. CASE \E file \in Files : Rollback(file)
  BY <1>2, RollbackKeeps
<1>3. CASE \E line \in Typed : TypeIn(line)
  BY <1>3, TypeInKeeps, FilesAssumption
<1>4. CASE \E r \in rows : LinkIncome(r) \/ LinkExpense(r) \/ Exclude(r)
  BY <1>4, RowStepKeeps
<1>5. CASE \E r \in rows : Reset(r)
  BY <1>5, ResetKeeps
<1>6. CASE RemoveAccount \/ \E r \in rows : RemoveTransaction(r)
  BY <1>6, RowsGoKeeps
<1>7. CASE \E chosen \in SUBSET rows, l \in LoanIds : \E balance \in Openings(chosen) : LinkLoan(l, chosen, balance)
  BY <1>7, LinkLoanKeeps
<1>8. CASE Reconcile \/ \E report \in Reports : ConfirmReport(report) \/ RemoveReport(report)
  BY <1>8, PassKeeps
<1>9. CASE \E l \in LoanIds : LoanRequest(l)
  BY <1>9, LoanRequestKeeps
<1>10. CASE ListLoans \/ (\E record \in records : RemoveRecord(record)) \/ UNCHANGED vars
  BY <1>10, OtherKeeps
<1>11. QED
  BY <1>1, <1>2, <1>3, <1>4, <1>5, <1>6, <1>7, <1>8, <1>9, <1>10 DEF Next

LEMMA Inductive == Spec => []IInv
<1>1. QED
  BY InitIInv, StepKeeps, PTL DEF Spec
-----------------------------------------------------------------------------
(* Results *)

(* The variables keep their types. *)
THEOREM TypeCorrect == Spec => []TypeOK
<1>1. IInv => TypeOK
  BY DEF IInv, TypeOK, Money
<1>2. QED
  BY <1>1, Inductive, PTL

(* An income or an expense made from a row on record is the one that row   *)
(* links: however the resolver, the owner and rollbacks take turns, no     *)
(* money of a row is left in a total the row no longer points at.          *)
THEOREM RecordsBacked == Spec => []NoStrayRecord
<1>1. IInv => NoStrayRecord
  BY DEF IInv, NoStrayRecord, Money
<1>2. QED
  BY <1>1, Inductive, PTL

(* One row pays off one loan, whatever the number of loans, rows and       *)
(* listings, and only a finished loan names a row.                         *)
THEOREM OnePayoff == Spec => []PayoffOnce
<1>1. IInv => PayoffOnce
  BY DEF IInv
<1>2. QED
  BY <1>1, Inductive, PTL
-----------------------------------------------------------------------------
(* Card bills                                                              *)

(* classifyBankLine calls only a withdrawal a card bill (bankParser.service). *)
BillsAreDebits == \A line \in DepositLines : KindOf[line] # "credit_card_payment"

(* A row has the kind of its line, unless it was typed in by hand. *)
KindsRead == \A r \in rows : r.kind \in {"standard", KindOf[r.line]}

(* The resolver leaves no card bill in two places. *)
LEMMA ResolvedBills ==
    ASSUME NEW rs \in SUBSET Row, NEW recs, NEW n \in Nat, Money(rs, recs, n), ResolveAll(rs, recs)
    PROVE  CardMoneyOnce'
<1> DEFINE known == {Backfilled(r) : r \in rs}
<1>1. /\ rows' = {Applied(r, Transfers(known), confirmed') : r \in known}
      /\ records' = Follow(recs, rs, rows')
  BY DEF ResolveAll, Resolved
<1>2. /\ rows' \subseteq Row /\ OneEach(rows')
      /\ \A s \in rows' : \E r \in rs : r.id = s.id
  BY ResolvedType DEF ResolveAll, Money
<1>3. known \subseteq Row
  BY BackfilledType
<1> HIDE DEF known
<1>4. SUFFICES ASSUME NEW s \in rows', s.kind = "credit_card_payment",
                      s.resolution \notin {None, "manual_excluded"}
               PROVE  /\ s.resolution = "credit_card_settled" <=> Covered(s.line, confirmed')
                      /\ Covered(s.line, confirmed') => <<s.id, "expense">> \notin records'
  BY DEF CardMoneyOnce, Covered
<1>5. PICK r \in known : s = Applied(r, Transfers(known), confirmed')
  BY <1>1
<1>6. /\ s.resolution = IF Covered(s.line, confirmed') THEN "credit_card_settled" ELSE "credit_card_unitemized"
      /\ Covered(s.line, confirmed') => s.links = {}
  <2>1. r \in Row
    BY <1>3
  <2>2. ~Excluded(r)
    BY <1>4, <1>5 DEF Applied, Excluded
  <2>3. s = [r EXCEPT !.resolution = Meaning(r, Transfers(known), confirmed'),
                      !.links = Tables \cap {RecordOf(Meaning(r, Transfers(known), confirmed'))}]
    BY <1>5, <2>2 DEF Applied
  <2>4. /\ s.kind = r.kind /\ s.line = r.line
        /\ s.resolution = Meaning(r, Transfers(known), confirmed')
        /\ s.links = Tables \cap {RecordOf(Meaning(r, Transfers(known), confirmed'))}
    BY <2>1, <2>3 DEF Row
  <2>5. Meaning(r, Transfers(known), confirmed')
          = IF Covered(s.line, confirmed') THEN "credit_card_settled" ELSE "credit_card_unitemized"
    BY <1>4, <2>4 DEF Meaning
  <2>6. Tables \cap {RecordOf("credit_card_settled")} = {}
    BY DEF Tables, RecordOf
  <2> QED BY <2>4, <2>5, <2>6
<1>7. ASSUME Covered(s.line, confirmed'), <<s.id, "expense">> \in records' PROVE FALSE
  <2>1. <<s.id, "expense">> \notin Links(rows')
    BY <1>2, <1>6, <1>7 DEF Links, OneEach
  <2>2. <<s.id, "expense">> \in recs /\ <<s.id, "expense">> \notin Links(rs)
    BY <1>1, <1>7, <2>1 DEF Follow
  <2>3. \E q \in rs : q.id = s.id
    BY <1>2
  <2> QED BY <2>2, <2>3 DEF Money, Backed
<1> QED BY <1>6, <1>7

(* A step that changes no bill and adds no record to one. *)
LEMMA BillsKept ==
    ASSUME CardMoneyOnce, UNCHANGED confirmed,
           \A s \in rows' : s.kind = "credit_card_payment" /\ s.resolution \notin {None, "manual_excluded"} =>
               /\ \E r \in rows : r.id = s.id /\ r.kind = s.kind /\ r.line = s.line /\ r.resolution = s.resolution
               /\ <<s.id, "expense">> \in records' => <<s.id, "expense">> \in records
    PROVE  CardMoneyOnce'
BY DEF CardMoneyOnce, Covered

(* Every step keeps the bills in one place each. *)
LEMMA BillsStep ==
    ASSUME BillsAreDebits, IInv, KindsRead, CardMoneyOnce, [Next]_vars
    PROVE  CardMoneyOnce'
<1>m. Money(rows, records, nextId) /\ nextId \in Nat /\ rows \in SUBSET Row
  BY DEF IInv, Money
<1>1. ASSUME UNCHANGED confirmed, rows' \subseteq rows, records' \subseteq records PROVE CardMoneyOnce'
  BY <1>1, BillsKept
<1>2. CASE \/ UNCHANGED vars \/ RemoveAccount \/ (\E r \in rows : RemoveTransaction(r))
           \/ (\E record \in records : RemoveRecord(record)) \/ (\E l \in LoanIds : LoanRequest(l)) \/ ListLoans
  <2>1. UNCHANGED confirmed /\ rows' \subseteq rows /\ records' \subseteq records
    BY <1>2 DEF vars, RemoveAccount, RemoveTransaction, RemoveRecord, LoanRequest, ListLoans
  <2> QED BY <1>1, <2>1
<1>3. CASE Reconcile \/ \E report \in Reports : ConfirmReport(report) \/ RemoveReport(report)
  <2>1. ResolveAll(rows, records)
    BY <1>3 DEF Reconcile, ConfirmReport, RemoveReport
  <2> QED BY <1>m, <2>1, ResolvedBills
<1>4. ASSUME NEW file \in Files, NEW chosen \in SUBSET (1..Len(FileOf[file])), ImportStatement(file, chosen)
      PROVE  CardMoneyOnce'
  <2>1. CASE chosen = {}
    BY <1>1, <1>4, <2>1 DEF ImportStatement
  <2>2. CASE chosen # {}
    BY <1>4, <2>2, ImportRows, ResolvedBills
  <2> QED BY <2>1, <2>2
<1>5. ASSUME NEW file \in Files, Rollback(file) PROVE CardMoneyOnce'
  BY <1>5, <1>m, RollbackRows, ResolvedBills
<1>6. ASSUME NEW line \in Typed, TypeIn(line) PROVE CardMoneyOnce'
  <2>1. /\ rows' = rows \cup {NewRow(nextId, line, "standard", None)}
        /\ UNCHANGED <<records, confirmed>>
    BY <1>6 DEF TypeIn
  <2>2. NewRow(nextId, line, "standard", None).kind # "credit_card_payment"
    BY DEF NewRow
  <2> QED BY <2>1, <2>2, BillsKept
<1>7. ASSUME NEW r \in rows, LinkIncome(r) \/ LinkExpense(r) \/ Exclude(r) PROVE CardMoneyOnce'
  <2>1. r \in Row
    BY <1>m
  <2>2. PICK s \in Row :
           /\ s.id = r.id /\ s.kind = r.kind /\ s.line = r.line
           /\ rows' = (rows \ {r}) \cup {s} /\ records' = Follow(records, rows, rows')
           /\ UNCHANGED confirmed
           /\ s.resolution = "manual_excluded" \/ r.kind # "credit_card_payment"
    <3>1. /\ [r EXCEPT !.resolution = "income", !.links = @ \cup {"income"}] \in Row
          /\ [r EXCEPT !.resolution = "expense", !.links = @ \cup {"expense"}] \in Row
          /\ [r EXCEPT !.resolution = "manual_excluded", !.links = {}, !.loan = None] \in Row
      BY <2>1 DEF Row, Resolutions, Tables
    <3>2. CASE LinkIncome(r)
      <4>1. r.kind # "credit_card_payment"
        BY <2>1, <3>2 DEF LinkIncome, Deposit, BillsAreDebits, KindsRead
      <4> QED BY <2>1, <3>1, <3>2, <4>1 DEF LinkIncome, Change, Row
    <3>3. CASE LinkExpense(r)
      BY <2>1, <3>1, <3>3 DEF LinkExpense, Change, Row
    <3>4. CASE Exclude(r)
      BY <2>1, <3>1, <3>4 DEF Exclude, Change, Row
    <3> QED BY <1>7, <3>2, <3>3, <3>4
  <2>3. ASSUME NEW q \in rows', q.kind = "credit_card_payment",
               q.resolution \notin {None, "manual_excluded"}
        PROVE  q \in rows /\ (<<q.id, "expense">> \in records' => <<q.id, "expense">> \in records)
    <3>1. q \in rows /\ q # s
      BY <2>2, <2>3
    <3>2. q # r
      BY <2>2, <2>3, <3>1
    <3>3. ASSUME <<q.id, "expense">> \in Links(rows'), <<q.id, "expense">> \notin Links(rows) PROVE FALSE
      <4>1. PICK p \in rows' : p.id = q.id /\ "expense" \in p.links
        BY <3>3 DEF Links
      <4>2. p = q
        BY <2>2, <3>1, <3>2, <4>1, <1>m DEF Money, OneEach
      <4> QED BY <3>1, <3>3, <4>1, <4>2 DEF Links
    <3> QED BY <2>2, <3>1, <3>3 DEF Follow
  <2> QED BY <2>2, <2>3, BillsKept
<1>8. ASSUME NEW r \in rows, Reset(r) PROVE CardMoneyOnce'
  BY <1>8, <1>m, ResetRows, ResolvedBills
<1>9. ASSUME NEW chosen \in SUBSET rows, NEW l \in LoanIds, NEW balance \in Openings(chosen),
             LinkLoan(l, chosen, balance)
      PROVE  CardMoneyOnce'
  <2> DEFINE linked(r) == [r EXCEPT !.loan = l]
  <2>1. /\ rows' = (rows \ chosen) \cup {linked(r) : r \in chosen}
        /\ UNCHANGED <<records, confirmed>>
    BY <1>9 DEF LinkLoan
  <2>2. \A r \in chosen : /\ linked(r).id = r.id /\ linked(r).kind = r.kind
                          /\ linked(r).line = r.line /\ linked(r).resolution = r.resolution
    BY <1>m DEF Row
  <2> HIDE DEF linked
  <2>3. \A s \in rows' : \E r \in rows : r.id = s.id /\ r.kind = s.kind /\ r.line = s.line
                                        /\ r.resolution = s.resolution
    BY <2>1, <2>2
  <2> QED BY <2>1, <2>3, BillsKept
<1> QED
  BY <1>2, <1>3, <1>4, <1>5, <1>6, <1>7, <1>8, <1>9 DEF Next

-----------------------------------------------------------------------------
(* Pairing the legs of transfers                                           *)

(* A set of naturals that is not empty has a least element. *)
LEMMA Least ==
    ASSUME NEW T \in SUBSET Nat, T # {}
    PROVE  \E x \in T : \A y \in T : x <= y
<1> DEFINE less == {p \in Nat \X Nat : p[1] < p[2]}
<1>1. OpToRel(<, Nat) = less
  BY DEF OpToRel
<1>2. IsWellFoundedOn(less, Nat)
  BY <1>1, NatLessThanWellFounded
<1> HIDE DEF less
<1>3. PICK x \in T : \A y \in T : ~(<<y, x>> \in less)
  BY <1>2, WFMin
<1>4. ASSUME NEW y \in T PROVE x <= y
  <2>1. x \in Nat /\ y \in Nat
    OBVIOUS
  <2>2. ~(y < x)
    BY <1>3, <2>1 DEF less
  <2> QED BY <2>1, <2>2
<1> QED BY <1>4

(* Before orders the rows of an account. *)
LEMMA BeforeOrders ==
    ASSUME NEW r \in Row, NEW s \in Row
    PROVE  /\ DayOf[r.line] \in Nat /\ r.id \in Nat
           /\ ~(Before(r, s) /\ Before(s, r)) /\ ~Before(r, r)
           /\ r.id # s.id => Before(r, s) \/ Before(s, r)
<1>1. DayOf[r.line] \in Nat /\ DayOf[s.line] \in Nat /\ r.id \in Nat /\ s.id \in Nat
  BY LinesAssumption DEF Row
<1> QED BY <1>1 DEF Before

(* Of some rows, one comes before all others. *)
LEMMA FirstRow ==
    ASSUME NEW D \in SUBSET Row, D # {}
    PROVE  \E w \in D : \A u \in D : ~Before(u, w)
<1> DEFINE days == {DayOf[r.line] : r \in D}
<1>1. \A r \in D : DayOf[r.line] \in Nat /\ r.id \in Nat
  BY BeforeOrders
<1>2. PICK d \in days : \A e \in days : d <= e
  <2>1. days \in SUBSET Nat /\ days # {}
    BY <1>1
  <2> HIDE DEF days
  <2> QED BY <2>1, Least
<1> DEFINE ids == {r.id : r \in {q \in D : DayOf[q.line] = d}}
<1>3. PICK i \in ids : \A j \in ids : i <= j
  <2>1. ids \in SUBSET Nat /\ ids # {}
    BY <1>1
  <2> HIDE DEF ids
  <2> QED BY <2>1, Least
<1>4. PICK w \in D : DayOf[w.line] = d /\ w.id = i
  OBVIOUS
<1>5. ASSUME NEW u \in D, Before(u, w) PROVE FALSE
  <2>1. DayOf[u.line] \in Nat /\ DayOf[w.line] \in Nat /\ u.id \in Nat /\ w.id \in Nat
    BY <1>1
  <2>2. DayOf[w.line] <= DayOf[u.line]
    BY <1>2, <1>4
  <2>3. DayOf[u.line] = DayOf[w.line] /\ u.id < w.id
    BY <1>5, <2>1, <2>2 DEF Before
  <2>4. w.id <= u.id
    BY <1>3, <1>4, <2>3
  <2> QED BY <2>1, <2>3, <2>4
<1> QED BY <1>5

Outs(L) == {r \in L : ~Deposit(r)}
InIds(L) == {d.id : d \in L \ Outs(L)}
Earlier(L, w) == {u \in Outs(L) : Before(u, w)}
Choice(L, w, taken, c) ==
    LET near == Nearest(w, L, taken) IN
    IF near = {} THEN c = None ELSE \E d \in near : c = d.id

(* The withdrawals of D have chosen, and so have all that come before them. *)
PairedOn(L, D, m) ==
    /\ \A w \in D : Earlier(L, w) \subseteq D
    /\ m \in [D -> InIds(L) \cup {None}]
    /\ \A w \in D : Choice(L, w, {m[v] : v \in Earlier(L, w)}, m[w])

(* A way to choose that is the only one is the pairing. *)
LEMMA PairingIs ==
    ASSUME NEW L, \E m : PairedOn(L, Outs(L), m)
    PROVE  PairedOn(L, Outs(L), Pairing(L))
<1> DEFINE P(m) == \A w \in Outs(L) : Choice(L, w, {m[v] : v \in Earlier(L, w)}, m[w])
           S == [Outs(L) -> InIds(L) \cup {None}]
<1>1. Pairing(L) = CHOOSE m \in S : P(m)
  BY DEF Pairing, Outs, InIds, Earlier, Choice
<1>2. \E m \in S : P(m)
  BY DEF PairedOn
<1> HIDE DEF P, S
<1>3. Pairing(L) \in S /\ P(Pairing(L))
  BY <1>1, <1>2
<1>4. \A w \in Outs(L) : Earlier(L, w) \subseteq Outs(L)
  BY DEF Earlier
<1> QED BY <1>3, <1>4 DEF PairedOn, P, S

(* One deposit at most is the nearest. *)
LEMMA NearestIsOne ==
    ASSUME NEW L \in SUBSET Row, NEW w \in Row, NEW taken,
           NEW d \in Nearest(w, L, taken), NEW e \in Nearest(w, L, taken)
    PROVE  d = e
<1>1. d \in Row /\ e \in Row /\ d \in Returns(w, L, taken) /\ e \in Returns(w, L, taken)
  BY DEF Nearest, Returns
<1>2. Gap(d, w) \in Nat /\ Gap(e, w) \in Nat
  <2>1. DayOf[d.line] \in Nat /\ DayOf[e.line] \in Nat /\ DayOf[w.line] \in Nat
    BY <1>1, BeforeOrders
  <2> QED BY <2>1 DEF Gap
<1>3. /\ Gap(d, w) < Gap(e, w) \/ (Gap(d, w) = Gap(e, w) /\ (d = e \/ Before(d, e)))
      /\ Gap(e, w) < Gap(d, w) \/ (Gap(e, w) = Gap(d, w) /\ (e = d \/ Before(e, d)))
  BY <1>1 DEF Nearest
<1> QED BY <1>1, <1>2, <1>3, BeforeOrders

(* A withdrawal has one choice. *)
LEMMA ChoiceIsOne ==
    ASSUME NEW L \in SUBSET Row, NEW w \in Row, NEW taken, NEW c, NEW e,
           Choice(L, w, taken, c), Choice(L, w, taken, e)
    PROVE  c = e
BY NearestIsOne DEF Choice

(* The withdrawals can choose in one way only. *)
LEMMA PairingIsOne ==
    ASSUME NEW L \in SUBSET Row, NEW m, NEW n, PairedOn(L, Outs(L), m), PairedOn(L, Outs(L), n)
    PROVE  m = n
<1> DEFINE D == {w \in Outs(L) : m[w] # n[w]}
<1>1. ASSUME D # {} PROVE FALSE
  <2>1. D \in SUBSET Row
    BY DEF Outs
  <2>2. PICK w \in D : \A u \in D : ~Before(u, w)
    BY <1>1, <2>1, FirstRow
  <2>3. \A u \in Earlier(L, w) : m[u] = n[u]
    BY <2>2 DEF Earlier
  <2>4. {m[v] : v \in Earlier(L, w)} = {n[v] : v \in Earlier(L, w)}
    BY <2>3
  <2>5. Choice(L, w, {m[v] : v \in Earlier(L, w)}, m[w]) /\ Choice(L, w, {n[v] : v \in Earlier(L, w)}, n[w])
    BY DEF PairedOn
  <2> QED BY <2>1, <2>2, <2>4, <2>5, ChoiceIsOne
<1>2. m \in [Outs(L) -> InIds(L) \cup {None}] /\ n \in [Outs(L) -> InIds(L) \cup {None}]
  BY DEF PairedOn
<1> QED BY <1>1, <1>2

(* And they can choose: one after the other, in the order of the account. *)
LEMMA PairingExists ==
    ASSUME NEW L \in SUBSET Row, OneEach(L), IsFiniteSet(L)
    PROVE  PairedOn(L, Outs(L), Pairing(L))
<1> DEFINE left(D) == Cardinality(Outs(L) \ D)
           T == {n \in Nat : \E D \in SUBSET Outs(L) : left(D) = n /\ \E m : PairedOn(L, D, m)}
<1>1. \A D \in SUBSET Outs(L) : IsFiniteSet(Outs(L) \ D) /\ left(D) \in Nat
  <2>1. ASSUME NEW D \in SUBSET Outs(L) PROVE IsFiniteSet(Outs(L) \ D) /\ left(D) \in Nat
    <3>1. Outs(L) \ D \in SUBSET L
      BY DEF Outs
    <3>2. IsFiniteSet(Outs(L) \ D)
      BY <3>1, FS_Subset
    <3> QED BY <3>2, FS_CardinalityType
  <2> QED BY <2>1
<1>2. T # {}
  <2>1. PairedOn(L, {}, [w \in {} |-> None])
    BY DEF PairedOn
  <2>2. left({}) \in T
    BY <1>1, <2>1
  <2> QED BY <2>2
<1>3. PICK n \in T : \A k \in T : n <= k
  <2>1. T \in SUBSET Nat
    OBVIOUS
  <2> HIDE DEF T
  <2> QED BY <1>2, <2>1, Least
<1>4. PICK D \in SUBSET Outs(L) : \E m : left(D) = n /\ PairedOn(L, D, m)
  OBVIOUS
<1>5. PICK m : left(D) = n /\ PairedOn(L, D, m)
  BY <1>4
<1>6. ASSUME D # Outs(L) PROVE FALSE
  <2>1. (Outs(L) \ D) \in SUBSET Row /\ Outs(L) \ D # {}
    BY <1>6 DEF Outs
  <2>2. PICK w \in Outs(L) \ D : \A u \in Outs(L) \ D : ~Before(u, w)
    BY <2>1, FirstRow
  <2>3. Earlier(L, w) \subseteq D /\ w \in Row /\ w \notin D
    BY <2>1, <2>2 DEF Earlier
  <2> DEFINE taken == {m[v] : v \in Earlier(L, w)}
             near == Nearest(w, L, taken)
             c == IF near = {} THEN None ELSE (CHOOSE d \in near : TRUE).id
             more == [u \in D \cup {w} |-> IF u = w THEN c ELSE m[u]]
  <2>4. c \in InIds(L) \cup {None} /\ Choice(L, w, taken, c)
    <3>1. \A d \in near : d \in L /\ Deposit(d)
      BY DEF Nearest, Returns
    <3>2. near # {} => (CHOOSE d \in near : TRUE) \in near
      OBVIOUS
    <3> HIDE DEF near
    <3>3. c \in InIds(L) \cup {None}
      BY <3>1, <3>2 DEF InIds, Outs
    <3> QED BY <3>2, <3>3 DEF Choice, near
  <2> HIDE DEF c
  <2>5. \A u \in D : more[u] = m[u]
    BY <2>3
  <2>6. more[w] = c /\ more \in [D \cup {w} -> InIds(L) \cup {None}]
    BY <1>5, <2>3, <2>4 DEF PairedOn
  <2>7. \A u \in D : Earlier(L, u) \subseteq D
    BY <1>5 DEF PairedOn
  <2> HIDE DEF more
  <2>8. \A u \in D : {more[v] : v \in Earlier(L, u)} = {m[v] : v \in Earlier(L, u)}
    BY <2>5, <2>7
  <2>9. {more[v] : v \in Earlier(L, w)} = taken
    BY <2>3, <2>5
  <2>10. PairedOn(L, D \cup {w}, more)
    <3>1. \A u \in D \cup {w} : Earlier(L, u) \subseteq D \cup {w}
      BY <2>3, <2>7
    <3>2. \A u \in D : Choice(L, u, {more[v] : v \in Earlier(L, u)}, more[u])
      BY <1>5, <2>5, <2>8 DEF PairedOn
    <3>3. Choice(L, w, {more[v] : v \in Earlier(L, w)}, more[w])
      BY <2>4, <2>6, <2>9
    <3> QED BY <2>6, <3>1, <3>2, <3>3 DEF PairedOn
  <2>11. left(D \cup {w}) < n /\ D \cup {w} \in SUBSET Outs(L)
    <3>1. D \cup {w} \in SUBSET Outs(L) /\ Outs(L) \ (D \cup {w}) = (Outs(L) \ D) \ {w}
      OBVIOUS
    <3>2. Cardinality((Outs(L) \ D) \ {w}) = Cardinality(Outs(L) \ D) - 1
      BY <1>1, FS_RemoveElement
    <3>3. left(D) = n /\ left(D) \in Nat
      BY <1>1, <1>5
    <3>4. left(D \cup {w}) = left(D) - 1
      BY <3>1, <3>2
    <3> HIDE DEF left
    <3> QED BY <3>1, <3>3, <3>4
  <2>12. left(D \cup {w}) \in T
    BY <1>1, <2>10, <2>11
  <2>13. left(D \cup {w}) \in Nat /\ n \in Nat /\ n <= left(D \cup {w})
    BY <1>1, <1>3, <2>11, <2>12
  <2> HIDE DEF left, T
  <2> QED BY <2>11, <2>13
<1> QED BY <1>5, <1>6, PairingIs

(* Rows that differ in what the resolver decided only are paired alike. *)
Twin(r, s) == r.id = s.id /\ r.line = s.line

(* Twins are as far apart, and in the same order, as their twins. *)
LEMMA TwinsAgree ==
    ASSUME NEW r, NEW s, NEW p, NEW q, Twin(r, s), Twin(p, q)
    PROVE  /\ Before(r, p) <=> Before(s, q)
           /\ Gap(r, p) = Gap(s, q)
           /\ Deposit(r) <=> Deposit(s)
BY DEF Twin, Before, Gap, Deposit

(* A withdrawal chooses among the twins what its twin chose. *)
LEMMA TwinsChoose ==
    ASSUME NEW L \in SUBSET Row, NEW K \in SUBSET Row,
           \A r \in L : \E s \in K : Twin(r, s), \A s \in K : \E r \in L : Twin(r, s),
           OneEach(L), OneEach(K),
           NEW v \in Row, NEW w \in Row, Twin(v, w), NEW taken, NEW c, Choice(L, v, taken, c)
    PROVE  Choice(K, w, taken, c)
<1>1. ASSUME NEW r \in L, NEW s \in K, Twin(r, s)
      PROVE  r \in Returns(v, L, taken) <=> s \in Returns(w, K, taken)
  <2>1. (Deposit(r) <=> Deposit(s)) /\ Gap(r, v) = Gap(s, w)
    BY <1>1, TwinsAgree
  <2>2. r.id = s.id /\ r.line = s.line /\ v.line = w.line
    BY <1>1 DEF Twin
  <2>3. r \in Returns(v, L, taken) <=>
           Deposit(r) /\ r.id \notin taken /\ AmountOf[r.line] = AmountOf[v.line] /\ Gap(r, v) <= PairDays
    BY <1>1 DEF Returns
  <2>4. s \in Returns(w, K, taken) <=>
           Deposit(s) /\ s.id \notin taken /\ AmountOf[s.line] = AmountOf[w.line] /\ Gap(s, w) <= PairDays
    BY <1>1 DEF Returns
  <2> QED BY <2>1, <2>2, <2>3, <2>4
<1>2. ASSUME NEW r \in L, NEW s \in K, Twin(r, s)
      PROVE  r \in Nearest(v, L, taken) <=> s \in Nearest(w, K, taken)
  <2>1. ASSUME NEW p \in L, NEW q \in K, Twin(p, q)
        PROVE  /\ Gap(r, v) = Gap(s, w) /\ Gap(p, v) = Gap(q, w)
               /\ Before(r, p) <=> Before(s, q)
               /\ r = p <=> s = q
    <3>1. r = p <=> s = q
      BY <1>2, <2>1 DEF Twin, OneEach
    <3> QED BY <1>2, <2>1, <3>1, TwinsAgree
  <2>2. \A p \in Returns(v, L, taken) : p \in L
    BY DEF Returns
  <2>3. \A q \in Returns(w, K, taken) : q \in K
    BY DEF Returns
  <2>4. ASSUME r \in Nearest(v, L, taken) PROVE s \in Nearest(w, K, taken)
    <3>1. s \in Returns(w, K, taken)
      BY <1>1, <1>2, <2>4 DEF Nearest
    <3>2. ASSUME NEW q \in Returns(w, K, taken)
          PROVE  Gap(s, w) < Gap(q, w) \/ (Gap(s, w) = Gap(q, w) /\ (s = q \/ Before(s, q)))
      <4>1. PICK p \in L : Twin(p, q)
        BY <2>3
      <4>2. p \in Returns(v, L, taken)
        BY <1>1, <2>3, <4>1
      <4>3. Gap(r, v) < Gap(p, v) \/ (Gap(r, v) = Gap(p, v) /\ (r = p \/ Before(r, p)))
        BY <2>4, <4>2 DEF Nearest
      <4>4. /\ Gap(r, v) = Gap(s, w) /\ Gap(p, v) = Gap(q, w)
            /\ Before(r, p) <=> Before(s, q)
            /\ r = p <=> s = q
        BY <2>1, <2>3, <4>1
      <4> QED BY <4>3, <4>4
    <3> QED BY <3>1, <3>2 DEF Nearest
  <2>5. ASSUME s \in Nearest(w, K, taken) PROVE r \in Nearest(v, L, taken)
    <3>1. r \in Returns(v, L, taken)
      BY <1>1, <1>2, <2>5 DEF Nearest
    <3>2. ASSUME NEW p \in Returns(v, L, taken)
          PROVE  Gap(r, v) < Gap(p, v) \/ (Gap(r, v) = Gap(p, v) /\ (r = p \/ Before(r, p)))
      <4>1. PICK q \in K : Twin(p, q)
        BY <2>2
      <4>2. q \in Returns(w, K, taken)
        BY <1>1, <2>2, <4>1
      <4>3. Gap(s, w) < Gap(q, w) \/ (Gap(s, w) = Gap(q, w) /\ (s = q \/ Before(s, q)))
        BY <2>5, <4>2 DEF Nearest
      <4>4. /\ Gap(r, v) = Gap(s, w) /\ Gap(p, v) = Gap(q, w)
            /\ Before(r, p) <=> Before(s, q)
            /\ r = p <=> s = q
        BY <2>1, <2>2, <4>1
      <4> QED BY <4>3, <4>4
    <3> QED BY <3>1, <3>2 DEF Nearest
  <2> QED BY <2>4, <2>5
<1>3. \A r \in Nearest(v, L, taken) : r \in L
  BY DEF Nearest, Returns
<1>4. \A s \in Nearest(w, K, taken) : s \in K
  BY DEF Nearest, Returns
<1>5. Nearest(v, L, taken) = {} <=> Nearest(w, K, taken) = {}
  BY <1>2, <1>3, <1>4
<1>6. ASSUME NEW r \in Nearest(v, L, taken) PROVE \E s \in Nearest(w, K, taken) : s.id = r.id
  BY <1>2, <1>3 DEF Twin
<1> QED BY <1>5, <1>6 DEF Choice

(* So twins of all the legs are paired alike. *)
LEMMA TwinsPair ==
    ASSUME NEW L \in SUBSET Row, NEW K \in SUBSET Row,
           \A r \in L : \E s \in K : Twin(r, s), \A s \in K : \E r \in L : Twin(r, s),
           OneEach(L), OneEach(K), IsFiniteSet(L)
    PROVE  \A w \in Outs(K) : \E v \in Outs(L) : Twin(v, w) /\ Pairing(K)[w] = Pairing(L)[v]
<1> DEFINE m == Pairing(L)
           back(w) == CHOOSE v \in L : Twin(v, w)
           n == [w \in Outs(K) |-> m[back(w)]]
<1>1. PairedOn(L, Outs(L), m)
  BY PairingExists
<1>2. ASSUME NEW w \in Outs(K) PROVE back(w) \in Outs(L) /\ Twin(back(w), w)
  <2>1. back(w) \in L /\ Twin(back(w), w)
    BY DEF Outs
  <2> HIDE DEF back
  <2> QED BY <2>1, TwinsAgree DEF Outs
<1>3. ASSUME NEW v \in Outs(L) PROVE \E w \in Outs(K) : back(w) = v
  <2>1. PICK w \in K : Twin(v, w)
    BY DEF Outs
  <2>2. w \in Outs(K)
    BY <2>1, TwinsAgree DEF Outs
  <2>3. back(w).id = v.id /\ back(w) \in L /\ v \in L
    BY <1>2, <2>1, <2>2 DEF Twin, Outs
  <2> HIDE DEF back
  <2>4. back(w) = v
    BY <2>3 DEF OneEach
  <2> QED BY <2>2, <2>4
<1> HIDE DEF back, m
<1>4. InIds(L) = InIds(K)
  <2>1. \A r \in L \ Outs(L) : \E s \in K \ Outs(K) : r.id = s.id
    BY TwinsAgree DEF Outs, Twin
  <2>2. \A s \in K \ Outs(K) : \E r \in L \ Outs(L) : r.id = s.id
    BY TwinsAgree DEF Outs, Twin
  <2> QED BY <2>1, <2>2 DEF InIds
<1>5. n \in [Outs(K) -> InIds(K) \cup {None}] /\ \A w \in Outs(K) : n[w] = m[back(w)]
  BY <1>1, <1>2, <1>4 DEF PairedOn
<1> HIDE DEF n
<1>6. ASSUME NEW w \in Outs(K)
      PROVE  {n[u] : u \in Earlier(K, w)} = {m[v] : v \in Earlier(L, back(w))}
  <2>1. ASSUME NEW u \in Earlier(K, w) PROVE back(u) \in Earlier(L, back(w)) /\ n[u] = m[back(u)]
    <3>1. u \in Outs(K) /\ Before(u, w)
      BY DEF Earlier
    <3> QED BY <1>2, <1>5, <3>1, TwinsAgree DEF Earlier
  <2>2. ASSUME NEW v \in Earlier(L, back(w)) PROVE \E u \in Earlier(K, w) : n[u] = m[v]
    <3>1. v \in Outs(L) /\ Before(v, back(w))
      BY DEF Earlier
    <3>2. PICK u \in Outs(K) : back(u) = v
      BY <1>3, <3>1
    <3>3. u \in Earlier(K, w)
      BY <1>2, <3>1, <3>2, TwinsAgree DEF Earlier
    <3> QED BY <1>5, <3>2, <3>3
  <2> QED BY <2>1, <2>2
<1>7. PairedOn(K, Outs(K), n)
  <2>1. ASSUME NEW w \in Outs(K) PROVE Choice(K, w, {n[u] : u \in Earlier(K, w)}, n[w])
    <3>1. Choice(L, back(w), {m[v] : v \in Earlier(L, back(w))}, m[back(w)])
      BY <1>1, <1>2 DEF PairedOn
    <3>2. back(w) \in Row /\ w \in Row /\ Twin(back(w), w)
      BY <1>2 DEF Outs
    <3>3. Choice(K, w, {m[v] : v \in Earlier(L, back(w))}, m[back(w)])
      BY <3>1, <3>2, TwinsChoose
    <3> QED BY <1>5, <1>6, <3>3
  <2>2. \A w \in Outs(K) : Earlier(K, w) \subseteq Outs(K)
    BY DEF Earlier
  <2> QED BY <1>5, <2>1, <2>2 DEF PairedOn
<1>8. Pairing(K) = n
  BY <1>7, PairingIs, PairingIsOne
<1> QED BY <1>2, <1>5, <1>8 DEF m

(* And the same rows are legs of a transfer. *)
LEMMA TwinsTransfer ==
    ASSUME NEW rs \in SUBSET Row, NEW after \in SUBSET Row, OneEach(rs), OneEach(after), IsFiniteSet(rs),
           IsFiniteSet(after),
           \A r \in rs : \E s \in after : Twin(r, s) /\ r.kind = s.kind,
           \A s \in after : \E r \in rs : Twin(r, s) /\ r.kind = s.kind
    PROVE  Transfers(after) = Transfers(rs)
<1> DEFINE L == Legs(rs)
           K == Legs(after)
<1>1. L \in SUBSET rs /\ K \in SUBSET after
  BY DEF Legs
<1>2. L \in SUBSET Row /\ K \in SUBSET Row /\ OneEach(L) /\ OneEach(K)
  BY <1>1 DEF OneEach
<1>3. IsFiniteSet(L) /\ IsFiniteSet(K)
  BY <1>1, FS_Subset
<1>4. (\A r \in L : \E s \in K : Twin(r, s)) /\ (\A s \in K : \E r \in L : Twin(r, s))
  BY DEF Legs, Twin
<1> HIDE DEF L, K
<1>5. \A w \in Outs(K) : \E v \in Outs(L) : Twin(v, w) /\ Pairing(K)[w] = Pairing(L)[v]
  BY <1>2, <1>3, <1>4, TwinsPair
<1>6. \A v \in Outs(L) : \E w \in Outs(K) : Twin(w, v) /\ Pairing(L)[v] = Pairing(K)[w]
  <2>1. (\A r \in K : \E s \in L : Twin(r, s)) /\ (\A s \in L : \E r \in K : Twin(r, s))
    BY <1>4 DEF Twin
  <2> QED BY <1>2, <1>3, <2>1, TwinsPair
<1>7. DOMAIN Pairing(L) = Outs(L) /\ DOMAIN Pairing(K) = Outs(K)
  BY <1>2, <1>3, PairingExists DEF PairedOn
<1>8. Transfers(rs) = {r.id : r \in {w \in Outs(L) : Pairing(L)[w] # None}} \cup {Pairing(L)[w] : w \in Outs(L)}
  BY <1>7 DEF Transfers, L
<1>9. Transfers(after) = {r.id : r \in {w \in Outs(K) : Pairing(K)[w] # None}} \cup {Pairing(K)[w] : w \in Outs(K)}
  BY <1>7 DEF Transfers, K
<1> QED BY <1>5, <1>6, <1>8, <1>9 DEF Twin
-----------------------------------------------------------------------------
(* A second pass of the resolver *)

(* Rows with ids of their own are finitely many when their ids are. *)
LEMMA FewIds ==
    ASSUME NEW S, NEW I, IsFiniteSet(I), \A r \in S : r.id \in I, \A r, s \in S : r.id = s.id => r = s
    PROVE  IsFiniteSet(S)
<1> DEFINE f == [r \in S |-> r.id]
<1>1. f \in [S -> I] /\ \A r, s \in S : f[r] = f[s] => r = s
  OBVIOUS
<1> HIDE DEF f
<1>2. f \in Injection(S, I)
  BY <1>1 DEF Injection, IsInjective
<1> QED BY <1>2, FS_Injection

(* So the rows on record are finitely many. *)
LEMMA FewRows ==
    ASSUME NEW S, NEW T, IsFiniteSet(T), \A s \in S : \E r \in T : r.id = s.id,
           \A r, s \in S : r.id = s.id => r = s
    PROVE  IsFiniteSet(S)
<1> DEFINE f == [s \in S |-> CHOOSE r \in T : r.id = s.id]
<1>1. \A s \in S : f[s] \in T /\ f[s].id = s.id
  OBVIOUS
<1>2. f \in [S -> T]
  BY <1>1
<1> HIDE DEF f
<1>3. \A r, s \in S : f[r] = f[s] => r = s
  BY <1>1
<1>4. f \in Injection(S, T)
  BY <1>2, <1>3 DEF Injection, IsInjective
<1> QED BY <1>4, FS_Injection

(* What the resolver makes of a row it leaves as it is, the transfers being the same. *)
LEMMA AppliedTwice ==
    ASSUME NEW r \in Row, NEW transfers, NEW reports
    PROVE  LET s == Applied(r, transfers, reports) IN
           /\ s \in Row /\ Twin(r, s) /\ s.kind = r.kind
           /\ Applied(s, transfers, reports) = s
<1> DEFINE m == Meaning(r, transfers, reports)
           s == [r EXCEPT !.resolution = m, !.links = Tables \cap {RecordOf(m)}]
<1>1. CASE Excluded(r)
  BY <1>1 DEF Applied, Twin
<1>2. CASE ~Excluded(r)
  <2>1. Applied(r, transfers, reports) = s
    BY <1>2 DEF Applied
  <2>2. /\ s.id = r.id /\ s.line = r.line /\ s.kind = r.kind /\ s.resolution = m
        /\ s.links = Tables \cap {RecordOf(m)}
    BY DEF Row
  <2>3. m # "manual_excluded"
    BY DEF Meaning
  <2>4. s \in Row
    BY <2>1, AppliedType
  <2> HIDE DEF s
  <2>5. Meaning(s, transfers, reports) = m
    BY <2>2 DEF Meaning, Deposit, Covered
  <2> HIDE DEF m
  <2>6. Applied(s, transfers, reports) = [s EXCEPT !.resolution = m, !.links = Tables \cap {RecordOf(m)}]
    BY <2>2, <2>3, <2>5 DEF Applied, Excluded
  <2>7. [s EXCEPT !.resolution = m, !.links = Tables \cap {RecordOf(m)}] = s
    BY <2>2, <2>4 DEF Row
  <2> QED BY <2>1, <2>2, <2>4, <2>6, <2>7 DEF Twin
<1> QED BY <1>1, <1>2

(* A pass over the rows of a pass changes none of them. *)
LEMMA SecondPass ==
    ASSUME NEW rs \in SUBSET Row, OneEach(rs), IsFiniteSet(rs), NEW reports,
           \A r \in rs : r.kind = KindOf[r.line]
    PROVE  Resolved(Resolved(rs, reports), reports) = Resolved(rs, reports)
<1> DEFINE once == Resolved(rs, reports)
<1>1. \A r \in rs : Backfilled(r) = r
  BY DEF Backfilled, Row
<1>2. {Backfilled(r) : r \in rs} = rs
  BY <1>1
<1>3. once = {Applied(r, Transfers(rs), reports) : r \in rs}
  BY <1>2 DEF Resolved
<1>4. \A r \in rs : LET s == Applied(r, Transfers(rs), reports) IN
                    s \in Row /\ Twin(r, s) /\ s.kind = r.kind /\ Applied(s, Transfers(rs), reports) = s
  BY AppliedTwice
<1>5. once \in SUBSET Row /\ OneEach(once)
  BY ResolvedType
<1> HIDE DEF once
<1>6. /\ \A r \in rs : \E s \in once : Twin(r, s) /\ r.kind = s.kind
      /\ \A s \in once : \E r \in rs : Twin(r, s) /\ r.kind = s.kind
      /\ \A s \in once : Applied(s, Transfers(rs), reports) = s
  BY <1>3, <1>4
<1>7. \A s \in once : s.kind = KindOf[s.line]
  BY <1>6 DEF Twin
<1>8. \A s \in once : Backfilled(s) = s
  BY <1>5, <1>7 DEF Backfilled, Row
<1>9. {Backfilled(s) : s \in once} = once
  BY <1>8
<1>10. IsFiniteSet(once)
  BY <1>5, <1>6, FewRows DEF Twin, OneEach
<1>11. Transfers(once) = Transfers(rs)
  BY <1>5, <1>6, <1>10, TwinsTransfer
<1>12. Resolved(once, reports) = {Applied(s, Transfers(rs), reports) : s \in once}
  BY <1>9, <1>11 DEF Resolved
<1>13. {Applied(s, Transfers(rs), reports) : s \in once} = once
  BY <1>6
<1> QED BY <1>12, <1>13 DEF once

(* A second pass of the resolver changes nothing: transfer legs stay       *)
(* paired and no meaning flips back, for any rows, days and amounts.       *)
THEOREM PassesSettle == Spec => []SecondPassSilent
<1>1. IInv => SecondPassSilent
  <2> SUFFICES ASSUME IInv, \A r \in rows : r.kind = KindOf[r.line]
               PROVE  Resolved(Resolved(rows, confirmed), confirmed) = Resolved(rows, confirmed)
    BY DEF SecondPassSilent
  <2>1. rows \in SUBSET Row /\ OneEach(rows) /\ nextId \in Nat /\ \A r \in rows : r.id \in Nat /\ r.id < nextId
    BY DEF IInv, Money, Row
  <2>2. IsFiniteSet(rows)
    <3>1. IsFiniteSet(0..nextId)
      BY <2>1, FS_Interval
    <3>2. \A r \in rows : r.id \in 0..nextId
      BY <2>1
    <3> QED BY <2>1, <3>1, <3>2, FewIds DEF OneEach
  <2> QED BY <2>1, <2>2, SecondPass
<1> QED BY <1>1, Inductive, PTL

-----------------------------------------------------------------------------
(* What rows keep of their lines, and loans of the rows that closed them.  *)

(* The row that closed a loan is a payoff with a loan number, for good. *)
ProofsRead ==
    /\ \A l \in Held : loans[l].by # None => loans[l].by < nextId
    /\ \A l \in Held, r \in rows : loans[l].by = r.id => r.kind \in PayoffKinds /\ RefOf[r.line] # None

ReadInv == KindsRead /\ ProofsRead

(* A step that keeps the kinds of rows, or reads them anew, and closes no loan. *)
LEMMA ReadKept ==
    ASSUME None \notin Nat, IInv, ReadInv, nextId' \in Nat, nextId <= nextId', rows' \subseteq Row,
           \A s \in rows' :
               \/ \E r \in rows : r.id = s.id /\ r.line = s.line /\ s.kind \in {r.kind, KindOf[r.line]}
               \/ nextId <= s.id /\ s.kind \in {"standard", KindOf[s.line]},
           \A l \in LoanIds : loans'[l] # None /\ loans'[l].by # None =>
               loans[l] # None /\ loans'[l].by = loans[l].by
    PROVE  ReadInv'
<1>1. nextId \in Nat /\ \A l \in Held : loans[l].by \in Nat \cup {None}
  BY DEF IInv, Held, LoansTypeOK, Loan
<1>2. \A r \in rows : r.id \in Nat
  BY DEF IInv, Money, Row
<1>3. \A s \in rows' : s.id \in Nat
  BY DEF Row
<1>4. KindsRead'
  BY DEF ReadInv, KindsRead
<1>5. ASSUME NEW l \in Held', loans'[l].by # None
      PROVE  l \in Held /\ loans[l].by = loans'[l].by /\ loans'[l].by \in Nat /\ loans'[l].by < nextId
  BY <1>1, <1>5 DEF Held, ReadInv, ProofsRead
<1>6. \A l \in Held' : loans'[l].by # None => loans'[l].by < nextId'
  BY <1>1, <1>5
<1>7. ASSUME NEW l \in Held', NEW s \in rows', loans'[l].by = s.id
      PROVE  s.kind \in PayoffKinds /\ RefOf[s.line] # None
  <2>1. loans'[l].by # None /\ s.id < nextId
    BY <1>3, <1>5, <1>7
  <2>2. PICK r \in rows : r.id = s.id /\ r.line = s.line /\ s.kind \in {r.kind, KindOf[r.line]}
    BY <1>1, <1>3, <2>1
  <2>3. r.kind \in PayoffKinds /\ RefOf[r.line] # None
    BY <1>5, <1>7, <2>1, <2>2 DEF ReadInv, ProofsRead
  <2>4. r.kind = KindOf[r.line]
    BY <2>3 DEF ReadInv, KindsRead, PayoffKinds
  <2> QED BY <2>2, <2>3, <2>4
<1> QED BY <1>4, <1>6, <1>7 DEF ReadInv, ProofsRead

(* What the resolver makes of a row, and what it leaves as it was. *)
LEMMA ResolvedReads ==
    ASSUME NEW rs \in SUBSET Row, NEW reports
    PROVE  /\ \A s \in Resolved(rs, reports) :
                  \E r \in rs : r.id = s.id /\ r.line = s.line /\ s.kind \in {r.kind, KindOf[r.line]}
           /\ \A r \in rs : \E s \in Resolved(rs, reports) : s.id = r.id
           /\ \A r \in rs : Excluded(r) => r \in Resolved(rs, reports)
<1> DEFINE known == {Backfilled(r) : r \in rs}
           read(r) == Applied(Backfilled(r), Transfers(known), reports)
<1>1. Resolved(rs, reports) = {read(r) : r \in rs}
  BY DEF Resolved
<1>2. ASSUME NEW r \in rs
      PROVE  /\ read(r).id = r.id /\ read(r).line = r.line /\ read(r).kind \in {r.kind, KindOf[r.line]}
             /\ Excluded(r) => read(r) = r
  <2> DEFINE b == Backfilled(r)
  <2>1. b \in Row /\ b.id = r.id
    BY BackfilledType
  <2>2. /\ b.line = r.line /\ b.kind \in {r.kind, KindOf[r.line]}
        /\ b.resolution = r.resolution /\ (Excluded(r) => b = r)
    BY DEF Backfilled, Row, Excluded
  <2> HIDE DEF b
  <2>3. /\ Applied(b, Transfers(known), reports).id = b.id
        /\ Applied(b, Transfers(known), reports).line = b.line
        /\ Applied(b, Transfers(known), reports).kind = b.kind
        /\ Excluded(b) => Applied(b, Transfers(known), reports) = b
    BY <2>1 DEF Applied, Row
  <2> QED BY <2>1, <2>2, <2>3 DEF b, Excluded
<1> HIDE DEF read
<1> QED BY <1>1, <1>2

(* Only listing the loans has a row close one. *)
LEMMA ClosersKept ==
    ASSUME IInv, [Next]_vars, ~ListLoans, NEW l \in LoanIds, loans'[l] # None, loans'[l].by # None
    PROVE  loans[l] # None /\ loans'[l].by = loans[l].by
<1> USE DEF Held, Closed
<1>t. /\ loans \in [LoanIds -> Loan \cup {None}] /\ (loans[l] # None => loans[l] \in Loan)
  BY DEF IInv, LoansTypeOK
<1>1. CASE UNCHANGED loans
  BY <1>1
<1>2. ASSUME NEW k \in LoanIds, NEW status \in {"active", "finished"}, NEW number \in LoanNumbers \cup {None},
             NEW balance, CreateLoan(k, status, balance, number)
      PROVE  loans[l] # None /\ loans'[l].by = loans[l].by
  <2>1. [Owed(balance, number) EXCEPT !.status = status].by = None
    BY DEF Owed
  <2> QED BY <1>2, <1>t, <2>1 DEF CreateLoan
<1>3. ASSUME NEW k \in LoanIds, LoanRequest(k)
      PROVE  loans[l] # None /\ loans'[l].by = loans[l].by
  <2>1. ASSUME NEW status \in {"active", "finished"}, NEW number \in LoanNumbers \cup {None}, NEW balance,
               UpdateLoan(k, status, balance, number)
        PROVE  loans[l] # None /\ loans'[l].by = loans[l].by
    BY <1>t, <2>1 DEF UpdateLoan
  <2>2. CASE CloseLoan(k)
    <3>1. [loans[k] EXCEPT !.status = "finished", !.balance = 0, !.by = None].by = None
      BY <1>t, <2>2 DEF CloseLoan, Loan
    <3> QED BY <1>t, <2>2, <3>1 DEF CloseLoan
  <2>3. CASE RemoveLoan(k)
    BY <1>t, <2>3 DEF RemoveLoan
  <2> QED BY <1>2, <1>3, <2>1, <2>2, <2>3 DEF LoanRequest
<1>4. ASSUME NEW file \in Files, Rollback(file)
      PROVE  loans[l] # None /\ loans'[l].by = loans[l].by
  <2>1. loans' = Reopened(Doomed(file))
    BY <1>4, RollbackRows
  <2> DEFINE payoffs == {r \in Doomed(file) : r.kind \in PayoffKinds /\ Ref(r) # None}
             again == Owed(AmountOf[(CHOOSE r \in payoffs : r.id = loans[l].by).line], loans[l].number)
  <2>2. loans'[l] \in {loans[l], again}
    BY <2>1 DEF Reopened
  <2>3. again.by = None
    BY DEF Owed
  <2> HIDE DEF again
  <2> QED BY <2>2, <2>3
<1>5. ASSUME NEW r \in rows, Reset(r)
      PROVE  loans[l] # None /\ loans'[l].by = loans[l].by
  BY <1>5 DEF Reset
<1>6. ASSUME NEW chosen \in SUBSET rows, NEW k \in LoanIds, NEW balance, LinkLoan(k, chosen, balance)
      PROVE  loans[l] # None /\ loans'[l].by = loans[l].by
  <2>1. UNCHANGED loans \/ CreateLoan(k, "active", balance, None)
    BY <1>6 DEF LinkLoan
  <2> QED BY <1>1, <1>2, <2>1
<1>7. CASE \/ UNCHANGED vars \/ RemoveAccount \/ Reconcile
           \/ (\E file \in Files : \E chosen \in SUBSET (1..Len(FileOf[file])) : ImportStatement(file, chosen))
           \/ (\E line \in Typed : TypeIn(line))
           \/ (\E r \in rows : RemoveTransaction(r) \/ LinkIncome(r) \/ LinkExpense(r) \/ Exclude(r))
           \/ (\E record \in records : RemoveRecord(record))
           \/ \E report \in Reports : ConfirmReport(report) \/ RemoveReport(report)
  BY <1>1, <1>7 DEF vars, RemoveAccount, Reconcile, ImportStatement, TypeIn, RemoveTransaction, LinkIncome,
                    LinkExpense, Exclude, RemoveRecord, ConfirmReport, RemoveReport
<1> QED
  BY <1>3, <1>4, <1>5, <1>6, <1>7 DEF Next

(* Rows come from rows, or are new. *)
LEMMA RowsRead ==
    ASSUME IInv, ReadInv, [Next]_vars
    PROVE  /\ nextId' \in Nat /\ nextId <= nextId' /\ rows' \subseteq Row
           /\ \A s \in rows' :
                  \/ \E r \in rows : r.id = s.id /\ r.line = s.line /\ s.kind \in {r.kind, KindOf[r.line]}
                  \/ nextId <= s.id /\ s.kind \in {"standard", KindOf[s.line]}
<1>m. Money(rows, records, nextId) /\ nextId \in Nat /\ rows \in SUBSET Row
  BY DEF IInv, Money
<1>t. rows' \subseteq Row /\ nextId' \in Nat
  BY StepKeeps DEF IInv, Money
<1> DEFINE Read(s) ==
        \/ \E r \in rows : r.id = s.id /\ r.line = s.line /\ s.kind \in {r.kind, KindOf[r.line]}
        \/ nextId <= s.id /\ s.kind \in {"standard", KindOf[s.line]}
<1>r. ASSUME NEW rs \in SUBSET Row, NEW recs, ResolveAll(rs, recs),
             \A s \in rs : \/ \E r \in rows : r.id = s.id /\ r.line = s.line /\ r.kind = s.kind
                           \/ nextId <= s.id /\ s.kind \in {"standard", KindOf[s.line]}
      PROVE  \A s \in rows' : Read(s)
  <2>1. rows' = Resolved(rs, confirmed')
    BY <1>r DEF ResolveAll
  <2> QED BY <1>r, <2>1, ResolvedReads
<1>1. CASE \/ UNCHANGED vars \/ RemoveAccount \/ (\E r \in rows : RemoveTransaction(r))
           \/ (\E record \in records : RemoveRecord(record)) \/ (\E l \in LoanIds : LoanRequest(l)) \/ ListLoans
  <2>1. nextId' = nextId /\ rows' \subseteq rows
    BY <1>1 DEF vars, RemoveAccount, RemoveTransaction, RemoveRecord, LoanRequest, ListLoans
  <2> QED BY <1>m, <1>t, <2>1
<1>2. CASE Reconcile \/ \E report \in Reports : ConfirmReport(report) \/ RemoveReport(report)
  <2>1. ResolveAll(rows, records) /\ nextId' = nextId
    BY <1>2 DEF Reconcile, ConfirmReport, RemoveReport
  <2> QED BY <1>m, <1>t, <1>r, <2>1
<1>3. ASSUME NEW file \in Files, NEW chosen \in SUBSET (1..Len(FileOf[file])), ImportStatement(file, chosen)
      PROVE  nextId <= nextId' /\ \A s \in rows' : Read(s)
  <2>1. nextId <= nextId'
    BY <1>3, ImportRows
  <2>2. CASE chosen = {}
    BY <1>3, <2>1, <2>2 DEF ImportStatement
  <2>3. CASE chosen # {}
    BY <1>3, <1>r, <2>1, <2>3, ImportRows
  <2> QED BY <2>1, <2>2, <2>3
<1>4. ASSUME NEW file \in Files, Rollback(file) PROVE nextId' = nextId /\ \A s \in rows' : Read(s)
  <2>1. nextId' = nextId
    BY <1>4 DEF Rollback
  <2>2. PICK rs \in SUBSET Row :
           /\ ResolveAll(rs, records \ Links(Doomed(file)))
           /\ \A s \in rs : \E r \in rows \ Doomed(file) : Same(r, s)
    BY <1>4, RollbackRows
  <2> QED BY <1>r, <2>1, <2>2 DEF Same
<1>5. ASSUME NEW line \in Typed, TypeIn(line) PROVE nextId <= nextId' /\ \A s \in rows' : Read(s)
  <2>1. rows' = rows \cup {NewRow(nextId, line, "standard", None)} /\ nextId' = nextId + 1
    BY <1>5 DEF TypeIn
  <2>2. NewRow(nextId, line, "standard", None).id = nextId /\ NewRow(nextId, line, "standard", None).kind = "standard"
    BY DEF NewRow
  <2> QED BY <1>m, <2>1, <2>2
<1>6. ASSUME NEW r \in rows, LinkIncome(r) \/ LinkExpense(r) \/ Exclude(r)
      PROVE  nextId' = nextId /\ \A s \in rows' : Read(s)
  <2>1. /\ [r EXCEPT !.resolution = "income", !.links = @ \cup {"income"}].id = r.id
        /\ [r EXCEPT !.resolution = "income", !.links = @ \cup {"income"}].line = r.line
        /\ [r EXCEPT !.resolution = "income", !.links = @ \cup {"income"}].kind = r.kind
        /\ [r EXCEPT !.resolution = "expense", !.links = @ \cup {"expense"}].id = r.id
        /\ [r EXCEPT !.resolution = "expense", !.links = @ \cup {"expense"}].line = r.line
        /\ [r EXCEPT !.resolution = "expense", !.links = @ \cup {"expense"}].kind = r.kind
        /\ [r EXCEPT !.resolution = "manual_excluded", !.links = {}, !.loan = None].id = r.id
        /\ [r EXCEPT !.resolution = "manual_excluded", !.links = {}, !.loan = None].line = r.line
        /\ [r EXCEPT !.resolution = "manual_excluded", !.links = {}, !.loan = None].kind = r.kind
    BY <1>m DEF Row
  <2> QED BY <1>6, <2>1 DEF LinkIncome, LinkExpense, Exclude, Change
<1>7. ASSUME NEW r \in rows, Reset(r) PROVE nextId' = nextId /\ \A s \in rows' : Read(s)
  <2>1. nextId' = nextId
    BY <1>7 DEF Reset
  <2>2. PICK rs \in SUBSET Row, blank \in Row :
           /\ ResolveAll(rs, Follow(records, rows, rs)) /\ rs = Change(r, blank)
           /\ blank.id = r.id /\ blank.kind = r.kind /\ blank.line = r.line
    BY <1>7, ResetRows
  <2> QED BY <1>r, <2>1, <2>2 DEF Change
<1>8. ASSUME NEW chosen \in SUBSET rows, NEW l \in LoanIds, NEW balance \in Openings(chosen),
             LinkLoan(l, chosen, balance)
      PROVE  nextId' = nextId /\ \A s \in rows' : Read(s)
  <2> DEFINE linked(r) == [r EXCEPT !.loan = l]
  <2>1. rows' = (rows \ chosen) \cup {linked(r) : r \in chosen} /\ nextId' = nextId
    BY <1>8 DEF LinkLoan
  <2>2. \A r \in chosen : linked(r).id = r.id /\ linked(r).kind = r.kind /\ linked(r).line = r.line
    BY <1>m DEF Row
  <2> HIDE DEF linked
  <2> QED BY <2>1, <2>2
<1> QED
  BY <1>m, <1>t, <1>1, <1>2, <1>3, <1>4, <1>5, <1>6, <1>7, <1>8 DEF Next

(* A listing closes a loan with a payoff that carries the loan's number. *)
LEMMA ListReads ==
    ASSUME None \notin Nat, IInv, ReadInv, ListLoans
    PROVE  ReadInv'
<1>1. UNCHANGED <<rows, records, imports, confirmed, nextId>> /\ SyncFromStatement(rows)
  BY DEF ListLoans
<1>2. PICK choice \in [LoanIds -> {r.id : r \in rows} \cup {None}] :
        /\ Choosing(rows, choice)
        /\ loans' = [l \in LoanIds |->
               IF choice[l] = None THEN loans[l]
               ELSE [loans[l] EXCEPT !.status = "finished", !.balance = 0, !.by = choice[l]]]
  BY <1>1 DEF SyncFromStatement
<1>3. ASSUME NEW l \in LoanIds, choice[l] # None
      PROVE  /\ loans'[l].by = choice[l]
             /\ \E r \in rows : r.id = choice[l] /\ r.kind \in PayoffKinds /\ RefOf[r.line] # None
  <2>1. l \in Held /\ \E r \in FirstOf(PayoffsOf(l, rows, Claimed \cup {choice[m] : m \in 1..(l - 1)})) : choice[l] = r.id
    BY <1>2, <1>3 DEF Choosing
  <2>2. loans[l] \in Loan
    BY <2>1 DEF Held, IInv, LoansTypeOK
  <2>3. loans'[l].by = choice[l]
    BY <1>2, <1>3, <2>2 DEF Loan
  <2> QED BY <2>1, <2>3 DEF FirstOf, PayoffsOf, PayoffKinds, Ref
<1>4. \A r \in rows : r.id \in Nat /\ r.id < nextId
  BY DEF IInv, Money, Row
<1>5. \A r, s \in rows : r.id = s.id => r = s
  BY DEF IInv, Money, OneEach
<1>6. \A l \in LoanIds : choice[l] = None => loans'[l] = loans[l]
  BY <1>2
<1>7. KindsRead'
  BY <1>1 DEF ReadInv, KindsRead
<1>8. ASSUME NEW l \in Held' PROVE loans'[l].by # None => loans'[l].by < nextId'
  <2>1. CASE choice[l] = None
    BY <1>1, <1>6, <2>1 DEF Held, ReadInv, ProofsRead
  <2>2. CASE choice[l] # None
    BY <1>1, <1>3, <1>4, <2>2 DEF Held
  <2> QED BY <2>1, <2>2
<1>9. ASSUME NEW l \in Held', NEW r \in rows', loans'[l].by = r.id
      PROVE  r.kind \in PayoffKinds /\ RefOf[r.line] # None
  <2>1. CASE choice[l] = None
    BY <1>1, <1>6, <1>9, <2>1 DEF Held, ReadInv, ProofsRead
  <2>2. CASE choice[l] # None
    BY <1>1, <1>3, <1>5, <1>9, <2>2 DEF Held
  <2> QED BY <2>1, <2>2
<1> QED BY <1>7, <1>8, <1>9 DEF ReadInv, ProofsRead

(* Every step keeps the closers payoffs and the kinds as read. *)
LEMMA ReadStep == None \notin Nat /\ IInv /\ ReadInv /\ [Next]_vars => ReadInv'
<1> SUFFICES ASSUME None \notin Nat, IInv, ReadInv, [Next]_vars PROVE ReadInv'
  OBVIOUS
<1>1. CASE ListLoans
  BY <1>1, ListReads
<1>2. CASE ~ListLoans
  <2>1. \A l \in LoanIds : loans'[l] # None /\ loans'[l].by # None => loans[l] # None /\ loans'[l].by = loans[l].by
    BY <1>2, ClosersKept
  <2> QED BY <2>1, RowsRead, ReadKept
<1> QED BY <1>1, <1>2

-----------------------------------------------------------------------------
(* Undoing a statement *)

(* A row on record stays unless it is deleted by hand or by a rollback. *)
LEMMA RowsStay ==
    ASSUME IInv, [Next]_vars, NEW r \in rows
    PROVE  \/ \E s \in rows' : s.id = r.id /\ (Excluded(r) => Excluded(s))
           \/ RemoveAccount \/ RemoveTransaction(r)
           \/ LinkIncome(r) /\ \E s \in rows' : s.id = r.id
           \/ LinkExpense(r) /\ \E s \in rows' : s.id = r.id
           \/ Reset(r) /\ \E s \in rows' : s.id = r.id
           \/ \E file \in Files : Rollback(file) /\ r \in Doomed(file)
<1>m. Money(rows, records, nextId) /\ nextId \in Nat /\ rows \in SUBSET Row
  BY DEF IInv, Money
<1> DEFINE Stays == \E s \in rows' : s.id = r.id /\ (Excluded(r) => Excluded(s))
<1>r. ASSUME NEW rs \in SUBSET Row, NEW recs, ResolveAll(rs, recs), NEW q \in rs, q.id = r.id,
             q.resolution = r.resolution
      PROVE  Stays
  <2>1. rows' = Resolved(rs, confirmed')
    BY <1>r DEF ResolveAll
  <2>2. \E s \in rows' : s.id = q.id
    BY <2>1, ResolvedReads
  <2>3. Excluded(q) => q \in rows'
    BY <2>1, ResolvedReads
  <2> QED BY <1>r, <2>2, <2>3 DEF Excluded
<1>1. CASE r \in rows'
  BY <1>1
<1>2. CASE \/ UNCHANGED vars \/ (\E record \in records : RemoveRecord(record))
           \/ (\E l \in LoanIds : LoanRequest(l)) \/ ListLoans \/ (\E line \in Typed : TypeIn(line))
  BY <1>1, <1>2 DEF vars, RemoveRecord, LoanRequest, ListLoans, TypeIn
<1>3. CASE Reconcile \/ \E report \in Reports : ConfirmReport(report) \/ RemoveReport(report)
  <2>1. ResolveAll(rows, records)
    BY <1>3 DEF Reconcile, ConfirmReport, RemoveReport
  <2> QED BY <1>m, <1>r, <2>1
<1>4. ASSUME NEW file \in Files, NEW chosen \in SUBSET (1..Len(FileOf[file])), ImportStatement(file, chosen)
      PROVE  Stays
  <2>1. CASE chosen = {}
    BY <1>1, <1>4, <2>1 DEF ImportStatement
  <2>2. CASE chosen # {}
    <3>1. PICK rs \in SUBSET Row : ResolveAll(rs, records) /\ rows \subseteq rs
      BY <1>4, <2>2, ImportRows
    <3> QED BY <1>r, <3>1
  <2> QED BY <2>1, <2>2
<1>5. ASSUME NEW file \in Files, Rollback(file) PROVE Stays \/ r \in Doomed(file)
  <2>1. PICK rs \in SUBSET Row :
           /\ ResolveAll(rs, records \ Links(Doomed(file)))
           /\ \A q \in rows \ Doomed(file) : \E s \in rs : Same(q, s)
    BY <1>5, RollbackRows
  <2> QED BY <1>r, <2>1 DEF Same
<1>6. ASSUME NEW q \in rows, RemoveTransaction(q) PROVE r \in rows' \/ q = r
  BY <1>6 DEF RemoveTransaction
<1>7. ASSUME NEW q \in rows, LinkIncome(q) \/ LinkExpense(q) \/ Exclude(q)
      PROVE  r \in rows' \/ Stays \/ (q = r /\ (LinkIncome(q) \/ LinkExpense(q)) /\ \E s \in rows' : s.id = r.id)
  <2> DEFINE earned == [q EXCEPT !.resolution = "income", !.links = @ \cup {"income"}]
             spent == [q EXCEPT !.resolution = "expense", !.links = @ \cup {"expense"}]
             aside == [q EXCEPT !.resolution = "manual_excluded", !.links = {}, !.loan = None]
  <2>1. earned.id = q.id /\ spent.id = q.id /\ aside.id = q.id /\ Excluded(aside)
    BY <1>m DEF Row, Excluded
  <2>2. /\ LinkIncome(q) => rows' = Change(q, earned)
        /\ LinkExpense(q) => rows' = Change(q, spent)
        /\ Exclude(q) => rows' = Change(q, aside)
    BY DEF LinkIncome, LinkExpense, Exclude
  <2> HIDE DEF earned, spent, aside
  <2> QED BY <1>7, <2>1, <2>2 DEF Change
<1>8. ASSUME NEW q \in rows, Reset(q)
      PROVE  Stays \/ (q = r /\ \E s \in rows' : s.id = r.id)
  <2>1. PICK rs \in SUBSET Row, blank \in Row :
           /\ ResolveAll(rs, Follow(records, rows, rs)) /\ rs = Change(q, blank) /\ blank.id = q.id
    BY <1>8, ResetRows
  <2>2. CASE q = r
    <3>1. rows' = Resolved(rs, confirmed') /\ blank \in rs
      BY <2>1 DEF ResolveAll, Change
    <3> QED BY <2>1, <2>2, <3>1, ResolvedReads
  <2>3. CASE q # r
    BY <1>r, <2>1, <2>3 DEF Change
  <2> QED BY <2>2, <2>3
<1>9. ASSUME NEW chosen \in SUBSET rows, NEW l \in LoanIds, NEW balance \in Openings(chosen),
             LinkLoan(l, chosen, balance)
      PROVE  Stays
  <2> DEFINE linked(q) == [q EXCEPT !.loan = l]
  <2>1. rows' = (rows \ chosen) \cup {linked(q) : q \in chosen}
    BY <1>9 DEF LinkLoan
  <2>2. \A q \in chosen : linked(q).id = q.id /\ linked(q).resolution = q.resolution
    BY <1>m DEF Row
  <2> HIDE DEF linked
  <2> QED BY <2>1, <2>2 DEF Excluded
<1> HIDE DEF Stays
<1>10. CASE RemoveAccount
  BY <1>10
<1> QED
  BY <1>1, <1>2, <1>3, <1>4, <1>5, <1>6, <1>7, <1>8, <1>9, <1>10 DEF Next, Stays

(* A deleted row takes its records along, and no other. *)
LEMMA MoneyLeaves ==
    ASSUME IInv, [Next]_vars, NEW record \in records \cap Links(rows)
    PROVE  \/ record \notin records'
           \/ \E r \in rows' : r.id = record[1]
           \/ RemoveAccount
           \/ \E r \in rows : r.id = record[1] /\ RemoveTransaction(r)
<1>1. PICK r \in rows : r.id = record[1] /\ record \in {r.id} \X r.links
  BY DEF Links
<1>2. ASSUME NEW file \in Files, Rollback(file), r \in Doomed(file), record \in records'
      PROVE  \E s \in rows' : s.id = record[1]
  <2>1. record \in Links(Doomed(file))
    BY <1>1, <1>2 DEF Links
  <2>2. PICK rs \in SUBSET Row : ResolveAll(rs, records \ Links(Doomed(file)))
    BY <1>2, RollbackRows
  <2>3. records' = Follow(records \ Links(Doomed(file)), rs, rows')
    BY <2>2 DEF ResolveAll
  <2>4. record \in Links(rows')
    BY <1>2, <2>1, <2>3 DEF Follow
  <2>5. rows' \in SUBSET Row
    BY StepKeeps DEF IInv, Money
  <2> QED BY <2>4, <2>5, LinksType
<1> QED BY <1>1, <1>2, RowsStay

(* A debt whose proof of payment leaves is owed again. *)
LEMMA ProofReopens ==
    ASSUME None \notin Nat, IInv, ReadInv, [Next]_vars, NEW r \in rows, NEW l \in Closed,
           loans[l].by = r.id, loans[l].number = Ref(r), ~\E s \in rows' : s.id = r.id,
           ~RemoveTransaction(r), ~RemoveAccount
    PROVE  loans'[l] = Owed(AmountOf[r.line], loans[l].number)
<1>1. PICK file \in Files : Rollback(file) /\ r \in Doomed(file)
  BY RowsStay
<1>2. loans' = Reopened(Doomed(file))
  BY <1>1, RollbackRows
<1> DEFINE payoffs == {q \in Doomed(file) : q.kind \in PayoffKinds /\ Ref(q) # None}
<1>3. l \in Held /\ l \in LoanIds
  BY DEF Closed, Held
<1>4. r.kind \in PayoffKinds /\ Ref(r) # None
  BY <1>3 DEF ReadInv, ProofsRead, Ref, PayoffKinds
<1>5. r \in payoffs
  BY <1>1, <1>4
<1>6. \A q \in payoffs : q.id = loans[l].by => q = r
  BY DEF Doomed, IInv, Money, OneEach
<1>7. (CHOOSE q \in payoffs : q.id = loans[l].by) = r
  BY <1>5, <1>6
<1>8. loans'[l] = Owed(AmountOf[(CHOOSE q \in payoffs : q.id = loans[l].by).line], loans[l].number)
  BY <1>2, <1>3, <1>5 DEF Reopened
<1> QED BY <1>7, <1>8

(* At first there are no rows. *)
LEMMA InitReadInv == Init => ReadInv /\ CardMoneyOnce
BY DEF Init, ReadInv, KindsRead, ProofsRead, CardMoneyOnce, LoansInit, Held

(* The strengthening holds throughout. *)
LEMMA ReadInductive == None \notin Nat => (Spec => []ReadInv)
<1> SUFFICES ASSUME None \notin Nat PROVE Spec => []ReadInv
  OBVIOUS
<1>1. IInv /\ ReadInv /\ [Next]_vars => ReadInv'
  BY ReadStep
<1> QED BY <1>1, InitReadInv, Inductive, PTL DEF Spec

(* A card bill the resolver dealt with is left out exactly when a report   *)
(* itemizes it, and then no expense of it remains: for any bills, reports  *)
(* and order of confirming and removing them.                              *)
THEOREM BillsOnce ==
    ASSUME BillsAreDebits, None \notin Nat
    PROVE  Spec => []CardMoneyOnce
<1>1. IInv /\ ReadInv /\ CardMoneyOnce /\ [Next]_vars => CardMoneyOnce'
  BY BillsStep DEF ReadInv
<1> QED BY <1>1, InitReadInv, Inductive, ReadInductive, PTL DEF Spec

(* What a statement brought leaves with it, and nothing else: its rows     *)
(* take their records along, what was set aside by hand stays aside, and a *)
(* debt whose proof of payment is deleted is owed again.                   *)
THEOREM UndoingIsClean ==
    ASSUME None \notin Nat
    PROVE  Spec => UndoneCleanly
<1> DEFINE Leaves == \A record \in records \cap Links(rows) :
                         \/ record \notin records'
                         \/ \E r \in rows' : r.id = record[1]
                         \/ RemoveAccount
                         \/ \E r \in rows : r.id = record[1] /\ RemoveTransaction(r)
           Kept == \A r \in rows : Excluded(r) =>
                       \/ \E s \in rows' : s.id = r.id /\ Excluded(s)
                       \/ RemoveTransaction(r) \/ RemoveAccount \/ LinkIncome(r) \/ LinkExpense(r) \/ Reset(r)
           Reopens == \A r \in rows, l \in Closed :
                          /\ loans[l].by = r.id /\ loans[l].number = Ref(r)
                          /\ ~\E s \in rows' : s.id = r.id
                          /\ ~RemoveTransaction(r) /\ ~RemoveAccount
                          => loans'[l] = Owed(AmountOf[r.line], loans[l].number)
<1>1. IInv /\ [Next]_vars => Leaves
  BY MoneyLeaves
<1>2. IInv /\ [Next]_vars => Kept
  <2> SUFFICES ASSUME IInv, [Next]_vars, NEW r \in rows, Excluded(r)
               PROVE  \/ \E s \in rows' : s.id = r.id /\ Excluded(s)
                      \/ RemoveTransaction(r) \/ RemoveAccount \/ LinkIncome(r) \/ LinkExpense(r) \/ Reset(r)
    OBVIOUS
  <2>1. \A file \in Files : r \notin Doomed(file)
    BY DEF Doomed, ByHand
  <2> QED BY <2>1, RowsStay
<1>3. IInv /\ ReadInv /\ [Next]_vars => Reopens
  BY ProofReopens
<1> HIDE DEF Leaves, Kept, Reopens
<1>4. Spec => [][Leaves]_vars
  BY <1>1, Inductive, PTL DEF Spec
<1>5. Spec => [][Kept]_vars
  BY <1>2, Inductive, PTL DEF Spec
<1>6. Spec => [][Reopens]_vars
  BY <1>3, Inductive, ReadInductive, PTL DEF Spec
<1>7. Spec => MoneyLeavesWithItsRow
  BY <1>4, PTL DEF Leaves, MoneyLeavesWithItsRow
<1>8. Spec => HandExclusionKept
  BY <1>5, PTL DEF Kept, HandExclusionKept
<1>9. Spec => UndoneProofReopens
  BY <1>6, PTL DEF Reopens, UndoneProofReopens
<1> QED BY <1>7, <1>8, <1>9 DEF UndoneCleanly
=============================================================================
