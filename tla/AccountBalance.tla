----------------------------- MODULE AccountBalance -----------------------------
(***************************************************************************)
(* The balance of a bank account (modules/bank: accountBalance, bank):     *)
(* never accumulated but derived, from the newest balance that a statement *)
(* printed or the owner stated, and the rows dated after it.  The account  *)
(* itself is a sequence of moves; a statement prints some of them in a row *)
(* and what was left after the last.  Some moves are announced for a day   *)
(* to come.  Amounts are whole cents.                                      *)
(***************************************************************************)
EXTENDS Integers, Sequences, FiniteSets, FiniteSetsExt

CONSTANTS AccountMoves,   \* a sequence of [day, amount], amounts signed, days never falling
          Opening,        \* what the account held before the first
          StatementFiles, \* file -> [from, to, prints]: the moves it lists, and whether it prints balances
          Initials,       \* opening balances the owner may enter
          LastDate, Nil,
          MaxImports, MaxEdits

VARIABLES today, booked,    \* [move, words, by]: in the bank's words or the owner's, by a statement or by none (0)
          statements,       \* one after the other: a file, Nil once undone
          stated,           \* [asOf, balance] the owner stated, or Nil
          initial, current, \* the account's columns
          stamp,            \* the day current was last computed
          edits

balanceVars == <<today, booked, statements, stated, initial, current, stamp, edits>>
ASSUME BalanceAssumption ==
    /\ AccountMoves \in Seq([day : Nat, amount : Int]) /\ Opening \in Int
    /\ Initials \subseteq Int /\ MaxImports \in Nat
    /\ \A i, j \in DOMAIN AccountMoves : i <= j => AccountMoves[i].day <= AccountMoves[j].day
    /\ \A f \in DOMAIN StatementFiles :
          StatementFiles[f].from \in DOMAIN AccountMoves /\ StatementFiles[f].to \in DOMAIN AccountMoves
BalanceInit ==
    /\ today = 1 /\ booked = {} /\ statements = <<>> /\ stated = Nil
    /\ initial \in Initials /\ current = initial /\ stamp = 1 /\ edits = 0
-----------------------------------------------------------------------------
Amount(ms) == FoldSet(LAMBDA m, s : s + AccountMoves[m].amount, 0, ms)
HeldAfter(i) == Opening + Amount(1..i)
Net(rs) == FoldSet(LAMBDA r, s : s + AccountMoves[r.move].amount, 0, rs)
Covers(f) == AccountMoves[StatementFiles[f].to].day

(* The newest anchor that is not ahead of today; of one day, the later       *)
(* import, and the owner's word before any.                                  *)
AnyPrinting(sts) == {n \in DOMAIN sts : sts[n] # Nil /\ StatementFiles[sts[n]].prints}   \* mutant: a day to come anchors too
Printing(sts) == {n \in DOMAIN sts : sts[n] # Nil /\ StatementFiles[sts[n]].prints /\ Covers(sts[n]) <= today}
FromStatement(sts) ==
    LET printing == Printing(sts)
        n == CHOOSE n \in printing : \A k \in printing :
                Covers(sts[k]) < Covers(sts[n]) \/ (Covers(sts[k]) = Covers(sts[n]) /\ k <= n)
    IN IF printing = {} THEN Nil ELSE [asOf |-> Covers(sts[n]), balance |-> HeldAfter(StatementFiles[sts[n]].to)]
Anchor(sts, own) ==
    LET printed == FromStatement(sts)
    IN IF own = Nil \/ (printed # Nil /\ printed.asOf > own.asOf) THEN printed ELSE own

UpTo(rs, d) == {r \in rs : AccountMoves[r.move].day <= d}
Derived(sts, own, rs, start) ==
    LET anchor == Anchor(sts, own)
    IN IF anchor = Nil THEN start + Net(UpTo(rs, today))
       ELSE anchor.balance + Net(UpTo(rs, today) \ UpTo(rs, anchor.asOf))
Recomputed == current' = Derived(statements', stated', booked', initial') /\ stamp' = today
-----------------------------------------------------------------------------
Edited == edits < MaxEdits /\ edits' = edits + 1

(* A statement comes in with the rows its session approved, none of which      *)
(* is there in its words already (ImportSession).                            *)
ImportStatement(f) ==
    /\ Len(statements) < MaxImports
    /\ statements' = Append(statements, f)
    /\ \E chosen \in SUBSET ((StatementFiles[f].from..StatementFiles[f].to) \ {r.move : r \in {r \in booked : r.words = "bank"}}) :
          booked' = booked \cup [move : chosen, words : {"bank"}, by : {Len(statements) + 1}]
    /\ UNCHANGED <<today, stated, initial, edits>> /\ Recomputed

(* It is undone: its rows go with it, but those that were settled by hand.   *)
RollBack(n) ==
    /\ statements[n] # Nil
    /\ statements' = [statements EXCEPT ![n] = Nil]
    /\ LET own == {r \in booked : r.by = n}
       IN \E kept \in SUBSET own : booked' = (booked \ own) \cup {[r EXCEPT !.by = 0] : r \in kept}
    /\ Edited /\ UNCHANGED <<today, stated, initial>> /\ Recomputed

CreateTransaction(i, words) ==
    /\ \A r \in booked : r.move = i => r.words # words   \* bound: typed once in the same words
    /\ booked' = booked \cup {[move |-> i, words |-> words, by |-> 0]}
    /\ Edited /\ UNCHANGED <<today, statements, stated, initial>> /\ Recomputed

RemovedOnly(r) ==   \* mutant: the balance is left as it was
    /\ booked' = booked \ {r}
    /\ Edited /\ UNCHANGED <<today, statements, stated, initial, current, stamp>>
RemoveTransaction(r) ==
    /\ booked' = booked \ {r}
    /\ Edited /\ UNCHANGED <<today, statements, stated, initial>> /\ Recomputed

(* The owner states what the bank shows at some hour of a day.               *)
SetAnchor(d, i) ==
    /\ d <= today
    /\ i > 0 => AccountMoves[i].day <= d
    /\ i < Len(AccountMoves) => AccountMoves[i + 1].day >= d
    /\ stated' = [asOf |-> d, balance |-> HeldAfter(i)]
    /\ Edited /\ UNCHANGED <<today, booked, statements, initial>> /\ Recomputed

UpdateAccount(b) ==
    /\ initial' = b
    /\ Edited /\ UNCHANGED <<today, booked, statements, stated>> /\ Recomputed

(* Every list of the accounts computes the balances anew.                    *)
ListAccounts == stamp # today /\ UNCHANGED <<today, booked, statements, stated, initial, edits>> /\ Recomputed
NextDay ==
    today < LastDate /\ today' = today + 1 /\ UNCHANGED <<booked, statements, stated, initial, current, stamp, edits>>

BalanceNext ==
    \/ \E f \in DOMAIN StatementFiles : ImportStatement(f)
    \/ \E n \in DOMAIN statements : RollBack(n)
    \/ \E i \in DOMAIN AccountMoves, words \in {"bank", "owner"} : CreateTransaction(i, words)
    \/ \E r \in booked : RemoveTransaction(r)
    \/ \E d \in 1..LastDate, i \in 0..Len(AccountMoves) : SetAnchor(d, i)
    \/ \E b \in Initials : UpdateAccount(b)
    \/ ListAccounts
    \/ NextDay
BalanceSpec == BalanceInit /\ [][BalanceNext]_balanceVars
-----------------------------------------------------------------------------
(* Whatever was missed, typed twice, removed or undone before the anchor     *)
(* does not matter: if each move after its day is there once, the balance    *)
(* is the bank's.  The anchor must be one of a day that had ended: what was  *)
(* booked later on its own day is in no row that counts.  The stored balance *)
(* is that balance since the day it was computed                             *)
(* (accountBalance.service.ts findAnchor, derive, recompute).                *)
Known(ms) == \A i \in ms : Cardinality({r \in booked : r.move = i}) = 1
Since(d) == {i \in DOMAIN AccountMoves : d < AccountMoves[i].day /\ AccountMoves[i].day <= today}
EndOf(d) == HeldAfter(Cardinality({i \in DOMAIN AccountMoves : AccountMoves[i].day <= d}))
BalanceHolds ==
    LET anchor == Anchor(statements, stated)  balance == Derived(statements, stated, booked, initial)
    IN /\ anchor # Nil /\ anchor.balance = EndOf(anchor.asOf) /\ Known(Since(anchor.asOf)) => balance = EndOf(today)
       /\ stamp = today => current = balance
=============================================================================
