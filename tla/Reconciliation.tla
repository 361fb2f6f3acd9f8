---------------------------- MODULE Reconciliation ----------------------------
(***************************************************************************)
(* The bank rows of one account, the incomes and expenses made from them,  *)
(* and the owner's loans: modules/bank (bank.service, reconciliation),     *)
(* modules/documents (rollback of a statement), modules/credit (confirmed  *)
(* reports) and modules/loans.  Every action runs under the owner's        *)
(* financial lock in one transaction (FinancialTransaction), so each one   *)
(* is a step.  Amounts of records, categories, balances of accounts and    *)
(* the status column of rows are left out.                                 *)
(***************************************************************************)
EXTENDS LoanLifecycle, Sequences

CONSTANTS Files,    \* statement files
          FileOf,   \* the lines of a file, in its order
          Typed,    \* lines the owner also types in by hand
          MaxRowId  \* bound: row ids handed out

ASSUME FilesAssumption == FileOf \in [Files -> Seq(Lines)] /\ Typed \subseteq Lines /\ MaxRowId \in Nat

VARIABLES rows,      \* bank_transactions
          records,   \* live incomes and expenses made from rows: <<row id, table>>
          imports,   \* files whose bank_statement_imports row is on record
          confirmed, \* confirmed card reports
          nextId     \* AUTO_INCREMENT of bank_transactions

vars == <<loans, rows, records, imports, confirmed, nextId>>

Tables == {"income", "expense"}
Row == [id : Nat, line : Lines, kind : Kinds, resolution : Resolutions \cup {None},
        links : SUBSET Tables,           \* linkedIncomeId, linkedExpenseId
        loan : LoanIds \cup {None},      \* linkedLoanId
        file : Files \cup {None}]        \* statementImportId

TypeOK ==
    /\ LoansTypeOK
    /\ rows \subseteq Row
    /\ records \subseteq Nat \X Tables
    /\ imports \subseteq Files
    /\ confirmed \subseteq Reports
    /\ nextId \in Nat

Init ==
    /\ LoansInit
    /\ rows = {} /\ records = {} /\ imports = {} /\ confirmed = {}
    /\ nextId = 1

Excluded(r) == r.resolution = "manual_excluded"
Links(rs) == UNION {{r.id} \X r.links : r \in rs}
Change(r, s) == (rows \ {r}) \cup {s}

(* The records after rows rs became rows after: a link that went takes its *)
(* record with it, and a new link comes with a new record.                 *)
Follow(recs, rs, after) == (recs \ (Links(rs) \ Links(after))) \cup (Links(after) \ Links(rs))
-----------------------------------------------------------------------------
(* The resolver *)

(* backfillClassification.  The query asks for resolution <> 'manual_excluded', *)
(* which a row without a resolution does not satisfy in SQL.                    *)
Backfilled(r) ==
    IF r.resolution \in {None, "manual_excluded"} THEN r ELSE [r EXCEPT !.kind = KindOf[r.line]]

(* Mutant: rows set aside by hand are resolved as well. *)
AppliedToAll(r, transfers, reports) ==
    LET meaning == Meaning(r, transfers, reports) IN
    [r EXCEPT !.resolution = meaning, !.links = Tables \cap {RecordOf(meaning)}]

(* applyTarget: the row ends with the one link its meaning calls for. *)
Applied(r, transfers, reports) ==
    LET meaning == Meaning(r, transfers, reports) IN
    IF Excluded(r) THEN r
    ELSE [r EXCEPT !.resolution = meaning, !.links = Tables \cap {RecordOf(meaning)}]

(* resolveAll, over rows rs. *)
Resolved(rs, reports) ==
    LET known == {Backfilled(r) : r \in rs}
        transfers == Transfers(known)
    IN {Applied(r, transfers, reports) : r \in known}

ResolveAll(rs, recs) ==
    /\ rows' = Resolved(rs, confirmed')
    /\ records' = Follow(recs, rs, rows')
-----------------------------------------------------------------------------
(* Rows come and go *)

NewRow(id, line, kind, file) ==
    [id |-> id, line |-> line, kind |-> kind, resolution |-> None, links |-> {}, loan |-> None, file |-> file]

(* importStatement, for the rows the import session chose: lines the       *)
(* account does not hold yet.  Only an import that adds rows resolves.     *)
ImportStatement(file, chosen) ==
    /\ file \notin imports /\ nextId + Len(FileOf[file]) <= MaxRowId
    /\ \A i \in chosen : \A r \in rows : r.line # FileOf[file][i]
    /\ imports' = imports \cup {file}
    /\ nextId' = nextId + Len(FileOf[file])
    /\ UNCHANGED <<loans, confirmed>>
    /\ LET fresh == {NewRow(nextId + i - 1, FileOf[file][i], KindOf[FileOf[file][i]], file) : i \in chosen} IN
       IF chosen = {} THEN UNCHANGED <<rows, records>> ELSE ResolveAll(rows \cup fresh, records)

(* createTransaction: typed in by hand, neither classified nor resolved. *)
TypeIn(line) ==
    /\ nextId < MaxRowId
    /\ rows' = rows \cup {NewRow(nextId, line, "standard", None)}
    /\ nextId' = nextId + 1
    /\ UNCHANGED <<loans, records, imports, confirmed>>

(* removeTransaction, removeAccount: the records made from the rows stay. *)
RemoveTransaction(r) ==
    /\ rows' = rows \ {r}
    /\ UNCHANGED <<loans, records, imports, confirmed, nextId>>

RemoveAccount ==
    /\ rows' = {} /\ imports' = {}
    /\ UNCHANGED <<loans, records, confirmed, nextId>>

(* The owner deletes an income or an expense; the row keeps its link. *)
RemoveRecord(record) ==
    /\ records' = records \ {record}
    /\ UNCHANGED <<loans, rows, imports, confirmed, nextId>>

(* Worked on by hand in a way the file cannot tell again. *)
ByHand(r) == Excluded(r) \/ r.loan # None

(* Mutant: the rollback deletes the rows and forgets their records. *)
RollbackKeepsRecords(file) ==
    LET ofFile == {r \in rows : r.file = file}
        kept == {[r EXCEPT !.file = None] : r \in {s \in ofFile : ByHand(s)}}
        doomed == {r \in ofFile : ~ByHand(r)}
    IN /\ file \in imports
       /\ imports' = imports \ {file}
       /\ loans' = Reopened(doomed)
       /\ UNCHANGED <<confirmed, nextId>>
       /\ ResolveAll((rows \ ofFile) \cup kept, records)

(* rollbackBankStatement *)
Rollback(file) ==
    LET ofFile == {r \in rows : r.file = file}
        kept == {[r EXCEPT !.file = None] : r \in {s \in ofFile : ByHand(s)}}
        doomed == {r \in ofFile : ~ByHand(r)}
    IN /\ file \in imports
       /\ imports' = imports \ {file}
       /\ loans' = Reopened(doomed)
       /\ UNCHANGED <<confirmed, nextId>>
       /\ ResolveAll((rows \ ofFile) \cup kept, records \ Links(doomed))
-----------------------------------------------------------------------------
(* Work on single rows *)

LinkIncome(r) ==
    LET after == Change(r, [r EXCEPT !.resolution = "income", !.links = @ \cup {"income"}]) IN
    /\ Deposit(r) /\ "income" \notin r.links
    /\ rows' = after /\ records' = Follow(records, rows, after)
    /\ UNCHANGED <<loans, imports, confirmed, nextId>>

LinkExpense(r) ==
    LET after == Change(r, [r EXCEPT !.resolution = "expense", !.links = @ \cup {"expense"}]) IN
    /\ ~Deposit(r) /\ r.kind = "standard" /\ "expense" \notin r.links
    /\ rows' = after /\ records' = Follow(records, rows, after)
    /\ UNCHANGED <<loans, imports, confirmed, nextId>>

(* linkLoan, to a loan on record or to a new one that has no number yet. A *)
(* drawdown among the rows may state its balance.                          *)
LinkLoan(l, chosen, balance) ==
    /\ chosen # {}
    /\ rows' = (rows \ chosen) \cup {[r EXCEPT !.loan = l] : r \in chosen}
    /\ \/ l \in Held /\ UNCHANGED loans
       \/ CreateLoan(l, "active", balance, None)
    /\ UNCHANGED <<records, imports, confirmed, nextId>>

Openings(chosen) == {0} \cup Balances \cup {AmountOf[r.line] : r \in {s \in chosen : s.kind = "loan_drawdown"}}

(* Mutant: the expense of the row is forgotten. *)
ExcludeKeepsExpense(r) ==
    LET after == Change(r, [r EXCEPT !.resolution = "manual_excluded", !.links = {}, !.loan = None]) IN
    /\ rows' = after /\ records' = records \ {<<r.id, "income">>}
    /\ UNCHANGED <<loans, imports, confirmed, nextId>>

Exclude(r) ==
    LET after == Change(r, [r EXCEPT !.resolution = "manual_excluded", !.links = {}, !.loan = None]) IN
    /\ rows' = after /\ records' = Follow(records, rows, after)
    /\ UNCHANGED <<loans, imports, confirmed, nextId>>

(* reset: the row is as new, its last link to a loan takes the loan along, *)
(* and the resolver runs.                                                  *)
Reset(r) ==
    LET after == Change(r, [r EXCEPT !.resolution = None, !.links = {}, !.loan = None])
        last == \A s \in rows : s.loan = r.loan => s = r
    IN /\ loans' = [l \in LoanIds |-> IF l = r.loan /\ last THEN None ELSE loans[l]]
       /\ UNCHANGED <<imports, confirmed, nextId>>
       /\ ResolveAll(after, Follow(records, rows, after))
-----------------------------------------------------------------------------
(* Card reports and loans *)

ConfirmReport(report) ==
    /\ report \notin confirmed
    /\ confirmed' = confirmed \cup {report}
    /\ UNCHANGED <<loans, imports, nextId>>
    /\ ResolveAll(rows, records)

(* Mutant: the bills the report itemized are not looked at again. *)
RemoveReportOnly(report) ==
    /\ report \in confirmed
    /\ confirmed' = confirmed \ {report}
    /\ UNCHANGED <<loans, rows, records, imports, nextId>>

(* removeImport, and the rollback of a card report. *)
RemoveReport(report) ==
    /\ report \in confirmed
    /\ confirmed' = confirmed \ {report}
    /\ UNCHANGED <<loans, imports, nextId>>
    /\ ResolveAll(rows, records)

(* POST /bank/reconciliation/auto *)
Reconcile ==
    /\ UNCHANGED <<loans, imports, confirmed, nextId>>
    /\ ResolveAll(rows, records)

LoanRequest(l) ==
    /\ \/ \E status \in {"active", "finished"}, number \in LoanNumbers \cup {None} :
              \/ \E balance \in Balances : CreateLoan(l, status, balance, number)
              \/ /\ l \in Held
                 /\ \E balance \in Balances \cup {loans[l].balance} : UpdateLoan(l, status, balance, number)
       \/ CloseLoan(l)
       \/ RemoveLoan(l)
    /\ UNCHANGED <<rows, records, imports, confirmed, nextId>>

(* GET /loans *)
ListLoans ==
    /\ SyncFromStatement(rows)
    /\ UNCHANGED <<rows, records, imports, confirmed, nextId>>

Next ==
    \/ \E file \in Files :
           \/ \E chosen \in SUBSET (1..Len(FileOf[file])) : ImportStatement(file, chosen)
           \/ Rollback(file)
    \/ \E line \in Typed : TypeIn(line)
    \/ \E r \in rows : RemoveTransaction(r) \/ LinkIncome(r) \/ LinkExpense(r) \/ Exclude(r) \/ Reset(r)
    \/ \E chosen \in SUBSET rows, l \in LoanIds : \E balance \in Openings(chosen) : LinkLoan(l, chosen, balance)
    \/ RemoveAccount
    \/ \E record \in records : RemoveRecord(record)
    \/ \E report \in Reports : ConfirmReport(report) \/ RemoveReport(report)
    \/ Reconcile
    \/ \E l \in LoanIds : LoanRequest(l)
    \/ ListLoans

Spec == Init /\ [][Next]_vars
-----------------------------------------------------------------------------
(* Properties *)

(* Money is counted where its row says: an income or an expense made from  *)
(* a row on record is the one that row links, so setting the row aside,    *)
(* resetting it or reading it anew takes the record along (exclude, reset, *)
(* applyTarget).                                                           *)
Backed(recs, rs) == \A record \in recs : (\E r \in rs : r.id = record[1]) => record \in Links(rs)
NoStrayRecord == Backed(records, rows)

(* Undoing a statement takes the incomes and expenses of the rows it       *)
(* deletes: a record outlives its row only when the owner deleted that row *)
(* or the account by hand.                                                 *)
MoneyLeavesWithItsRow ==
    [][\A record \in records \cap Links(rows) :
           \/ record \notin records'
           \/ \E r \in rows' : r.id = record[1]
           \/ RemoveAccount
           \/ \E r \in rows : r.id = record[1] /\ RemoveTransaction(r)]_vars

(* A card bill the resolver dealt with is left out exactly when a          *)
(* confirmed report itemizes it, whatever reports came and went since, and *)
(* then no expense of it remains.                                          *)
CardMoneyOnce ==
    \A r \in rows : r.kind = "credit_card_payment" /\ r.resolution \notin {None, "manual_excluded"} =>
        /\ r.resolution = "credit_card_settled" <=> Covered(r.line, confirmed)
        /\ Covered(r.line, confirmed) => <<r.id, "expense">> \notin records

(* resolveAll is idempotent once every row was classified: a second pass   *)
(* changes no row, so transfer legs stay paired and no meaning flips back. *)
SecondPassSilent ==
    (\A r \in rows : r.kind = KindOf[r.line]) =>
        LET once == Resolved(rows, confirmed) IN Resolved(once, confirmed) = once

(* What the owner set aside stays aside: neither the resolver nor a        *)
(* rollback brings the row back into a total or deletes it.                *)
HandExclusionKept ==
    [][\A r \in rows : Excluded(r) =>
           \/ \E s \in rows' : s.id = r.id /\ Excluded(s)
           \/ RemoveTransaction(r) \/ RemoveAccount \/ LinkIncome(r) \/ LinkExpense(r) \/ Reset(r)]_vars

(* One row pays off one loan, over any number of listings, and only a      *)
(* closed loan names the row that closed it.                               *)
PayoffOnce ==
    \A l \in Held : loans[l].by # None =>
        /\ loans[l].status = "finished"
        /\ \A m \in Held : loans[m].by = loans[l].by => m = l

(* A debt whose proof of payment is undone is owed again: when a rollback  *)
(* deletes the row that closed a loan which still has that row's number,   *)
(* the loan is open with the amount of the row.                            *)
UndoneProofReopens ==
    [][\A r \in rows, l \in Closed :
           /\ loans[l].by = r.id /\ loans[l].number = Ref(r)
           /\ ~\E s \in rows' : s.id = r.id
           /\ ~RemoveTransaction(r) /\ ~RemoveAccount
           => loans'[l] = Owed(AmountOf[r.line], loans[l].number)]_vars

(* What an import brought leaves with it, and nothing else: the three above. *)
UndoneCleanly == MoneyLeavesWithItsRow /\ HandExclusionKept /\ UndoneProofReopens

(* loans.service.ts and schema.prisma: a finished loan is the record of an *)
(* achievement and is never deleted.                                       *)
ClosedLoanKept == [][\A l \in Closed : loans'[l] # None]_vars
=============================================================================
