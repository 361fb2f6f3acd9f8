--------------------------- MODULE MCImportSession ---------------------------
(* Instances of ImportSession: two bank statements of one account that       *)
(* overlap; a card report the connection sync made, whose bytes may be       *)
(* missing, with an expense sheet of the same purchase twice.                *)
EXTENDS ImportSession, TLC

CONSTANTS monthly, quarterly, report, sheet, salary, bought, account

AllFiles == {monthly, quarterly, report, sheet}
AllRows == monthly :> <<salary>> @@ quarterly :> <<salary, salary>> @@ report :> <<bought>> @@ sheet :> <<bought, bought>>
AllKinds == monthly :> "bank" @@ quarterly :> "bank" @@ report :> "credit" @@ sheet :> "expense_sheet"

OneRows == report :> <<bought>>
OneCard == report :> "credit"

(* Bound: one behaviour has bank statements only, or none of them.           *)
Of(files, keys, kinds) ==
    /\ {fileOf[s] : s \in Sids} \subseteq files \cup {None}
    /\ \A m \in money : m.key \in keys /\ m.kind \in kinds
    /\ \A s \in Sids : \A i \in DOMAIN staged[s] : staged[s][i].key \in keys
OneFamily ==
    \/ Of({monthly, quarterly}, {salary}, {"bank"}) /\ \A s \in Sids : version[s] <= 2
    \/ Of({report, sheet}, {bought}, {"credit", "expense"}) /\ accounts = Accounts /\ account \notin {target[s] : s \in Sids}
=============================================================================
