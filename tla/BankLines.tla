------------------------------- MODULE BankLines -------------------------------
(***************************************************************************)
(* What a bank line means: the policy of modules/bank (decideTarget,       *)
(* findInternalTransferIds, creditCoverage) over rows of the owner's       *)
(* accounts.  A line is what the bank printed; a row is its record in      *)
(* bank_transactions.  Categories, notes and the review marks are left     *)
(* out: no total depends on them.                                          *)
(***************************************************************************)
EXTENDS Integers, FiniteSets

CONSTANTS Lines,        \* printed lines, told apart by date, amount, direction, description
          KindOf,       \* the kind classifyBankLine reads in the description
          DepositLines, \* lines of the credit column
          AmountOf,     \* in shekels
          RefOf,        \* loan number the description names
          DayOf,        \* transaction date
          Worded,       \* lines whose wording says that money moved between accounts
          Reports,      \* uploaded card reports
          Itemizes,     \* the card bills a confirmed report itemizes
          PairDays,     \* ROUND_TRIP_MAX_DAYS
          None          \* no loan number, no resolution, no link

Kinds == {"standard", "loan_principal", "loan_interest", "overdraft_interest", "loan_mixed",
          "loan_drawdown", "loan_fee", "interest_credit", "credit_card_payment"}
Resolutions == {"income", "expense", "financing_charge", "financing_credit", "debt_reduction",
                "loan_repayment_unsplit", "loan_drawdown", "credit_card_settled",
                "credit_card_unitemized", "internal_transfer", "manual_excluded"}

ASSUME LinesAssumption ==
    /\ KindOf \in [Lines -> Kinds]
    /\ AmountOf \in [Lines -> Nat]
    /\ DayOf \in [Lines -> Nat]
    /\ DepositLines \subseteq Lines /\ Worded \subseteq Lines
    /\ Itemizes \in [Reports -> SUBSET Lines]
    /\ None \notin Resolutions

Deposit(r) == r.line \in DepositLines
Before(r, s) == DayOf[r.line] < DayOf[s.line] \/ (DayOf[r.line] = DayOf[s.line] /\ r.id < s.id)

(* The loan number a row carries: classifyBankLine stores it with the kind, *)
(* and a row typed in by hand has neither.                                 *)
Ref(r) == IF r.kind = "standard" THEN None ELSE RefOf[r.line]
-----------------------------------------------------------------------------
(* Internal transfers *)

Gap(r, s) == IF DayOf[r.line] < DayOf[s.line] THEN DayOf[s.line] - DayOf[r.line]
                                              ELSE DayOf[r.line] - DayOf[s.line]

(* Rows of any resolution: a pair stays recognisable after one leg was     *)
(* dealt with.                                                             *)
Legs(rows) == {r \in rows : r.kind = "standard" /\ r.line \in Worded}

(* The deposits a withdrawal may have come back as, and the nearest one.   *)
Returns(w, legs, taken) ==
    {d \in legs : Deposit(d) /\ d.id \notin taken
                  /\ AmountOf[d.line] = AmountOf[w.line] /\ Gap(d, w) <= PairDays}
Nearest(w, legs, taken) ==
    LET returns == Returns(w, legs, taken) IN
    {d \in returns : \A e \in returns :
        Gap(d, w) < Gap(e, w) \/ (Gap(d, w) = Gap(e, w) /\ (d = e \/ Before(d, e)))}

(* findInternalTransferIds: the withdrawals choose one after the other, in *)
(* the order of the account, and a chosen deposit is taken.                *)
Pairing(legs) ==
    LET outs == {r \in legs : ~Deposit(r)} IN
    CHOOSE match \in [outs -> {d.id : d \in legs \ outs} \cup {None}] :
        \A w \in outs :
            LET near == Nearest(w, legs, {match[v] : v \in {u \in outs : Before(u, w)}}) IN
            IF near = {} THEN match[w] = None ELSE \E d \in near : match[w] = d.id

(* Mutant: a row that was dealt with is no longer matched. *)
TransfersOfPending(rows) ==
    LET legs == {r \in Legs(rows) : r.resolution = None}
        match == Pairing(legs)
    IN {r.id : r \in {w \in DOMAIN match : match[w] # None}} \cup {match[w] : w \in DOMAIN match}

Transfers(rows) ==
    LET match == Pairing(Legs(rows)) IN
    {r.id : r \in {w \in DOMAIN match : match[w] # None}} \cup {match[w] : w \in DOMAIN match}
-----------------------------------------------------------------------------
(* Meaning *)

(* verdictFor: a card bill is itemized by a confirmed report of that card. *)
Covered(line, confirmed) == \E report \in confirmed : line \in Itemizes[report]

(* decideTarget *)
Meaning(r, transfers, confirmed) ==
    CASE r.kind \in {"loan_interest", "overdraft_interest"} ->
             IF Deposit(r) THEN "financing_credit" ELSE "financing_charge"
      [] r.kind = "interest_credit" -> "financing_credit"
      [] r.kind = "loan_fee" -> "financing_charge"
      [] r.kind = "loan_principal" -> "debt_reduction"
      [] r.kind = "loan_mixed" -> "loan_repayment_unsplit"
      [] r.kind = "loan_drawdown" -> "loan_drawdown"
      [] r.kind = "credit_card_payment" ->
             IF Covered(r.line, confirmed) THEN "credit_card_settled" ELSE "credit_card_unitemized"
      [] OTHER -> IF r.id \in transfers THEN "internal_transfer"
                  ELSE IF Deposit(r) THEN "income" ELSE "expense"

(* The record a meaning needs in another table. *)
RecordOf(resolution) ==
    IF resolution = "income" THEN "income"
    ELSE IF resolution \in {"expense", "financing_charge", "financing_credit",
                            "credit_card_unitemized"} THEN "expense"
    ELSE "none"
=============================================================================
