--------------------------- MODULE MCReconciliation ---------------------------
(* One small account.  Money: a card bill and the two legs of a transfer, in *)
(* two statement files that overlap.  Loans: the row that pays a loan off,   *)
(* in two files that overlap.                                                *)
EXTENDS Reconciliation, TLC

CONSTANTS payoff, bill, out, back, f1, f2, l1, l2, report, number

LoanLines == {payoff}
LoanFiles == l1 :> <<payoff>> @@ l2 :> <<payoff>>
AllLines == LoanLines \cup {bill, out, back}
AllFiles == LoanFiles @@ f1 :> <<out, bill>> @@ f2 :> <<out, back>>

MCDeposits == Lines \cap {back}
MCKinds == [line \in Lines |-> CASE line = payoff -> "loan_principal"
                                 [] line = bill -> "credit_card_payment" [] OTHER -> "standard"]
MCAmounts == [line \in Lines |-> IF line = payoff THEN 2 ELSE 1]
MCRefs == [line \in Lines |-> IF line = payoff THEN number ELSE None]
MCDays == [line \in Lines |-> IF line = back THEN 2 ELSE 1]
MCWorded == Lines \cap {out, back}
MCItemizes == [r \in Reports |-> {bill}]

(* An account has rows of the one family or of the other: only payoffs close *)
(* loans, and no row becomes both money and a payoff.                        *)
OneFamily ==
    \/ nextId <= 3 /\ confirmed = {} /\ (\A r \in rows : r.line \in LoanLines) /\ imports \subseteq {l1, l2}
    \/ Held = {} /\ (\A r \in rows : r.line \notin LoanLines) /\ imports \subseteq {f1, f2}

OneFamilySpec == Init /\ [][Next /\ OneFamily']_vars
=============================================================================
