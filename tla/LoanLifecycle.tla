----------------------------- MODULE LoanLifecycle -----------------------------
(***************************************************************************)
(* The owner's loans and what the bank rows prove about them:              *)
(* modules/loans (loanLifecycle, loans.service).  A payoff row on the      *)
(* statement closes the loan it names, and undoing the statement opens it  *)
(* again.  Instalment counts, fees and the interest saved are left out;    *)
(* "overdue" is as owed as "active".                                       *)
(***************************************************************************)
EXTENDS BankLines

CONSTANTS MaxLoans,     \* bound: loans
          LoanNumbers,  \* loan numbers the owner or the bank gives
          Balances,     \* balances the owner types in
          Tolerance     \* PAYOFF_TOLERANCE, in shekels

VARIABLE loans          \* the loans table

LoanIds == 1..MaxLoans
Loan == [status : {"active", "finished"}, balance : Nat,
         number : LoanNumbers \cup {None}, by : Nat \cup {None}]

ASSUME LoansAssumption == MaxLoans \in Nat /\ Tolerance \in Nat /\ Balances \subseteq Nat

LoansTypeOK == loans \in [LoanIds -> Loan \cup {None}]
LoansInit == loans = [l \in LoanIds |-> None]

Held == {l \in LoanIds : loans[l] # None}
Closed == {l \in Held : loans[l].status = "finished"}
Owed(balance, number) == [status |-> "active", balance |-> balance, number |-> number, by |-> None]
-----------------------------------------------------------------------------
(* Closing by the statement *)

PayoffKinds == {"loan_principal", "loan_mixed"}
Near(a, b) == a <= b + Tolerance /\ b <= a + Tolerance

(* The rows that would pay loan l off. *)
PayoffsOf(l, rows, claimed) ==
    {r \in rows :
        /\ loans[l].status # "finished" /\ loans[l].balance > 0 /\ loans[l].number # None
        /\ r.kind \in PayoffKinds /\ ~Deposit(r)
        /\ Ref(r) = loans[l].number
        /\ r.id \notin claimed
        /\ Near(AmountOf[r.line], loans[l].balance)}
FirstOf(rows) == {r \in rows : \A s \in rows : s = r \/ Before(r, s)}

(* Mutant: rows that closed a loan in an earlier pass may close another. *)
ClaimedInThisPass == {}

(* Rows that have closed a loan already. *)
Claimed == {loans[l].by : l \in Held} \ {None}

(* One row pays off one loan: loans choose in the order of their ids.      *)
Choosing(rows, choice) ==
    \A l \in LoanIds :
        LET first == IF l \in Held
                       THEN FirstOf(PayoffsOf(l, rows, Claimed \cup {choice[m] : m \in 1..(l - 1)}))
                       ELSE {}
        IN IF first = {} THEN choice[l] = None ELSE \E r \in first : choice[l] = r.id

(* syncFromStatement, run whenever the loans are listed. *)
SyncFromStatement(rows) ==
    \E choice \in [LoanIds -> {r.id : r \in rows} \cup {None}] :
        /\ Choosing(rows, choice)
        /\ loans' = [l \in LoanIds |->
               IF choice[l] = None THEN loans[l]
               ELSE [loans[l] EXCEPT !.status = "finished", !.balance = 0, !.by = choice[l]]]
-----------------------------------------------------------------------------
(* Undoing a statement *)

(* Mutant: a closed loan stays closed when its payoff row is deleted. *)
ReopenedNever(doomed) == [l \in LoanIds |-> loans[l]]

(* findClosedBy and reopen: the loans that rows about to be deleted closed *)
(* are owed again.  A loan is looked up by the numbers those rows carry.   *)
Reopened(doomed) ==
    LET payoffs == {r \in doomed : r.kind \in PayoffKinds /\ Ref(r) # None} IN
    [l \in LoanIds |->
        IF l \in Closed /\ \E r \in payoffs : loans[l].by = r.id /\ \E s \in payoffs : Ref(s) = loans[l].number
          THEN Owed(AmountOf[(CHOOSE r \in payoffs : r.id = loans[l].by).line], loans[l].number)
          ELSE loans[l]]
-----------------------------------------------------------------------------
(* Requests of the owner *)

CreateLoan(l, status, balance, number) ==
    /\ loans[l] = None
    /\ loans' = [loans EXCEPT ![l] = [Owed(balance, number) EXCEPT !.status = status]]

(* update: taking a loan out of finished drops what its closure recorded.  *)
UpdateLoan(l, status, balance, number) ==
    /\ l \in Held
    /\ loans' = [loans EXCEPT ![l] =
           [status |-> status, balance |-> balance, number |-> number,
            by |-> IF @.status = "finished" /\ status # "finished" THEN None ELSE @.by]]

CloseLoan(l) ==
    /\ l \in Held \ Closed
    /\ loans' = [loans EXCEPT ![l] = [@ EXCEPT !.status = "finished", !.balance = 0, !.by = None]]

(* remove: a closed loan is refused. *)
RemoveLoan(l) ==
    /\ l \in Held \ Closed
    /\ loans' = [loans EXCEPT ![l] = None]
=============================================================================
