------------------------- MODULE ImportSessionProofs -------------------------
(***************************************************************************)
(* What holds of import sessions for every set of files, rows, accounts    *)
(* and every bound: the types, one live session per file, nothing left of  *)
(* an undone import, nothing counted twice and nothing of an approved file *)
(* missing, and, without the connection sync, the lifecycle of             *)
(* SessionLifecycle.                                                       *)
(*                                                                         *)
(* Two inductive invariants carry the safety results.  BookInv says what   *)
(* sessions, imports and rows of the books know of each other; RowInv says *)
(* what the rows staged for a session still owe to the file and to the     *)
(* books they were compared with, and that ids are never given twice.      *)
(***************************************************************************)
EXTENDS ImportSession, TLAPS, FiniteSetTheorems

(* Staging turns the rows of a file into staged rows, one for each. *)
LEMMA StagedType ==
    ASSUME TypeOK, NEW kind, NEW f \in Files, NEW found \in SUBSET Money
    PROVE  Staged(kind, RowsOf[f], found) \in Seq(Row)
<1> DEFINE rows == RowsOf[f]
<1>1. rows \in Seq(Keys)
  BY FilesAssumption
<1>2. ASSUME NEW i \in 1..Len(rows)
      PROVE  Staged(kind, rows, found)[i] \in Row
  <2> DEFINE claim == Claim(rows, i, found)
  <2>1. rows[i] \in Keys
    BY <1>1
  <2>2. claim \subseteq Money
    BY DEF Claim, Matching
  <2>3. claim # {} => (CHOOSE t \in claim : TRUE) \in Money
    BY <2>2
  <2>4. claim # {} => (CHOOSE t \in claim : TRUE).id \in Nat
    BY <2>3 DEF Money
  <2>5. Staged(kind, rows, found)[i] =
          [key |-> rows[i],
           resolution |-> IF claim = {} THEN "include" ELSE IF kind = "bank" THEN "duplicate" ELSE "review",
           ref |-> IF claim # {} /\ kind = "bank" THEN (CHOOSE t \in claim : TRUE).id ELSE 0,
           forced |-> FALSE]
    BY <1>1 DEF Staged
  <2> HIDE DEF claim
  <2> QED BY <2>1, <2>4, <2>5 DEF Row
<1>3. /\ Len(rows) \in Nat
      /\ Staged(kind, rows, found) = [i \in 1..Len(rows) |-> Staged(kind, rows, found)[i]]
  BY <1>1 DEF Staged
<1> HIDE DEF rows
<1>4. Staged(kind, rows, found) \in [1..Len(rows) -> Row]
  BY <1>2, <1>3
<1> QED BY <1>3, <1>4 DEF rows

(* What a commit adds are rows of the books, and finitely many. *)
LEMMA AddedType ==
    ASSUME TypeOK, NEW s \in Sids, fileOf[s] \in Files
    PROVE  /\ Added(s) \subseteq Money
           /\ Cardinality(Included(s)) \in Nat
<1>1. staged[s] \in Seq(Row) /\ DOMAIN staged[s] = 1..Len(staged[s]) /\ Len(staged[s]) \in Nat
  BY DEF TypeOK
<1>2. IsFiniteSet(1..Len(staged[s]))
  BY <1>1, FS_Interval
<1>3. ASSUME NEW S \in SUBSET (DOMAIN staged[s]) PROVE Cardinality(S) \in Nat
  <2>1. S \subseteq 1..Len(staged[s])
    BY <1>1
  <2>2. IsFiniteSet(S)
    BY <1>2, <2>1, FS_Subset
  <2> QED BY <2>2, FS_CardinalityType
<1>4. Cardinality(Included(s)) \in Nat
  BY <1>3 DEF Included
<1>5. Kind(s) \in Kinds
  BY FilesAssumption DEF Kind
<1>6. RowKind[Kind(s)] \in {"bank", "credit", "expense"}
  BY <1>5 DEF Kinds, RowKind
<1>7. ASSUME NEW i \in Included(s)
      PROVE  /\ nextId + Cardinality({j \in Included(s) : j < i}) \in Nat
             /\ staged[s][i] \in Row
  <2>1. {j \in Included(s) : j < i} \in SUBSET (DOMAIN staged[s])
    BY DEF Included
  <2>2. Cardinality({j \in Included(s) : j < i}) \in Nat
    BY <2>1, <1>3
  <2>3. nextId \in Nat
    BY DEF TypeOK
  <2> HIDE DEF Included
  <2>4. nextId + Cardinality({j \in Included(s) : j < i}) \in Nat
    BY <2>2, <2>3
  <2>5. i \in DOMAIN staged[s]
    BY DEF Included
  <2> QED BY <2>4, <2>5, <1>1
<1>8. target[s] \in Destinations /\ s \in Sids
  BY DEF TypeOK
<1>9. ASSUME NEW i \in Included(s)
      PROVE  [id |-> nextId + Cardinality({j \in Included(s) : j < i}),
              kind |-> RowKind[Kind(s)],
              key |-> staged[s][i].key,
              target |-> target[s],
              import |-> IF Kind(s) = "expense_sheet" THEN None ELSE s,
              held |-> FALSE,
              sure |-> ~staged[s][i].forced] \in Money
  BY <1>6, <1>7, <1>8 DEF Money, Row
<1> QED BY <1>4, <1>9 DEF Added

(* What is left after an import was undone are rows of the books. *)
LEMMA WithoutRowsOfType ==
    ASSUME TypeOK, NEW i PROVE WithoutRowsOf(i) \subseteq Money
<1>1. ASSUME NEW t \in money PROVE t \in Money /\ [t EXCEPT !.import = None] \in Money
  <2>1. t \in Money
    BY DEF TypeOK
  <2> QED BY <2>1 DEF Money
<1> QED BY <1>1 DEF WithoutRowsOf

(* The initial state is well typed. *)
LEMMA InitTypeOK == Init => TypeOK
BY TargetsAssumption DEF Init, TypeOK, Open, Booked, Gone, Destinations, Tx

(* Every step keeps the types. *)
LEMMA NextTypeOK == TypeOK /\ [Next]_vars => TypeOK'
<1> SUFFICES ASSUME TypeOK, [Next]_vars PROVE TypeOK'
  OBVIOUS
<1> USE DEF sessionVars, bookVars, Open, Booked, Gone, Free
<1>1. CASE UNCHANGED vars
  BY <1>1 DEF TypeOK, vars
<1>2. ASSUME NEW f \in Files, Upload(f) PROVE TypeOK'
  <2> DEFINE earlier == {s \in Sids : fileOf[s] = f /\ status[s] \notin Gone \cup {"absent"}}
  <2>1. CASE earlier # {}
    <3>1. UNCHANGED <<status, fileOf>> /\ uploading' \subseteq Sids
      BY <1>2, <2>1 DEF Upload, TypeOK
    <3> QED BY <1>2, <3>1 DEF Upload, TypeOK
  <2>2. CASE earlier = {}
    <3>1. PICK s \in Sids : /\ status' = [status EXCEPT ![s] = "uploaded"]
                            /\ fileOf' = [fileOf EXCEPT ![s] = f]
                            /\ uploading' = uploading \cup {s}
      BY <1>2, <2>2 DEF Upload
    <3> QED BY <1>2, <3>1 DEF Upload, TypeOK
  <2> QED BY <2>1, <2>2
<1>3. ASSUME NEW s \in Sids, status[s] # "absent", SessionStep(s) PROVE TypeOK'
  <2> USE <1>3
  <2>1. fileOf[s] \in Files /\ staged[s] \in Seq(Row)
    BY DEF TypeOK
  <2>2. ASSUME NEW a \in Answers(s), ProcessUpload(s, a) \/ Answer(s, a) PROVE TypeOK'
    <3>1. a \in Destinations
      BY <2>2 DEF Answers, TypeOK, Destinations
    <3>2. [op |-> "process", s |-> s, answer |-> a] \in Tx
      BY <3>1 DEF Tx
    <3> QED BY <2>2, <3>2 DEF ProcessUpload, Answer, TypeOK
  <2>3. ASSUME NEW i \in DOMAIN staged[s], NEW k \in Keys, NEW dup \in BOOLEAN, Decide(s, i, k, dup)
        PROVE  TypeOK'
    <3>1. PICK ref \in {0} \cup {t.id : t \in Matching(k, basis[s])} :
             staged' = [staged EXCEPT ![s][i] =
                [key |-> k, resolution |-> IF dup THEN "duplicate" ELSE "include",
                 ref |-> IF dup THEN ref ELSE @.ref,
                 forced |-> ~dup /\ (@.forced \/ @.resolution # "include" \/ @.key # k)]]
      BY <2>3 DEF Decide
    <3>2. ref \in Nat
      BY <3>1 DEF TypeOK, Matching, Money
    <3>3. staged[s][i] \in Row
      BY <2>1
    <3> DEFINE new == [key |-> k, resolution |-> IF dup THEN "duplicate" ELSE "include",
                       ref |-> IF dup THEN ref ELSE staged[s][i].ref,
                       forced |-> ~dup /\ (staged[s][i].forced \/ staged[s][i].resolution # "include"
                                                               \/ staged[s][i].key # k)]
    <3>4. new \in Row
      BY <3>2, <3>3 DEF Row
    <3>5. staged' = [staged EXCEPT ![s] = [staged[s] EXCEPT ![i] = new]]
      BY <3>1 DEF TypeOK
    <3> HIDE DEF new
    <3>6. [staged[s] EXCEPT ![i] = new] \in Seq(Row)
      BY <2>1, <3>4
    <3>7. staged' \in [Sids -> Seq(Row)]
      BY <3>5, <3>6 DEF TypeOK
    <3> QED BY <2>3, <3>7 DEF Decide, TypeOK
  <2>4. CASE View(s)
    BY <2>4 DEF View, TypeOK
  <2>5. CASE BeginCommit(s)
    BY <2>5 DEF BeginCommit, TypeOK, Tx
  <2>6. CASE Finish(s)
    BY <2>6 DEF Finish, TypeOK
  <2>7. CASE Cancel(s) \/ CancelBySync(s)
    <3>1. CancelSession(s)
      BY <2>7 DEF Cancel, CancelBySync
    <3> QED BY <3>1 DEF CancelSession, TypeOK
  <2>8. CASE Rollback(s)
    <3>1. WithoutRowsOf(link[s]) \subseteq Money
      BY WithoutRowsOfType
    <3> QED BY <2>8, <3>1 DEF Rollback, Invalidate, TypeOK
  <2>9. CASE ConfirmReport(s)
    BY <2>9 DEF ConfirmReport, TypeOK
  <2>10. CASE RemoveReport(s)
    BY <2>10 DEF RemoveReport, Invalidate, TypeOK
  <2> QED BY <2>2, <2>3, <2>4, <2>5, <2>6, <2>7, <2>8, <2>9, <2>10 DEF SessionStep
<1>4. CASE ProcessSession
  <2>1. tx.s \in Sids /\ tx.answer \in Destinations /\ status[tx.s] # "absent"
    BY <1>4 DEF ProcessSession, TypeOK, Tx, NoTx
  <2>2. Candidates(Kind(tx.s), tx.answer) \in SUBSET Money
    BY DEF Candidates, TypeOK
  <2>3. fileOf[tx.s] \in Files
    BY <2>1 DEF TypeOK
  <2>4. Staged(Kind(tx.s), RowsOf[fileOf[tx.s]], Candidates(Kind(tx.s), tx.answer)) \in Seq(Row)
    BY <2>2, <2>3, StagedType
  <2> QED BY <1>4, <2>1, <2>2, <2>3, <2>4 DEF ProcessSession, TypeOK, Tx
<1>5. CASE ProcessFails
  <2>1. tx.s \in Sids /\ tx.answer \in Destinations /\ status[tx.s] # "absent"
    BY <1>5 DEF ProcessFails, TypeOK, Tx, NoTx
  <2> QED BY <1>5, <2>1 DEF ProcessFails, TypeOK, Tx
<1>6. ASSUME tx.op = "commit", AddRows(tx.s), Book(tx.s), imports' \subseteq Sids,
             link' \in [Sids -> Sids \cup {None}]
      PROVE  TypeOK'
  <2>1. tx.s \in Sids /\ fileOf[tx.s] \in Files
    BY <1>6 DEF TypeOK, Tx, NoTx
  <2>2. Added(tx.s) \subseteq Money /\ Cardinality(Included(tx.s)) \in Nat
    BY <2>1, AddedType
  <2>3. money' \subseteq Money /\ nextId' \in Nat
    BY <1>6, <2>2 DEF AddRows, TypeOK
  <2> QED BY <1>6, <2>1, <2>3 DEF Book, AddRows, TypeOK, Tx
<1>7. CASE CommitStatement
  <2>1. tx.s \in Sids
    BY <1>7 DEF CommitStatement, TypeOK, Tx, NoTx
  <2>2. imports' \subseteq Sids /\ link' \in [Sids -> Sids \cup {None}]
    BY <1>7, <2>1 DEF CommitStatement, TypeOK
  <2>3. tx.op = "commit" /\ AddRows(tx.s) /\ Book(tx.s)
    BY <1>7 DEF CommitStatement
  <2> QED BY <1>6, <2>2, <2>3
<1>8. CASE CommitReport
  <2>1. tx.s \in Sids
    BY <1>8 DEF CommitReport, TypeOK, Tx, NoTx
  <2>2. imports' \subseteq Sids /\ link' \in [Sids -> Sids \cup {None}]
    BY <1>8, <2>1 DEF CommitReport, TypeOK
  <2>3. tx.op = "commit" /\ AddRows(tx.s) /\ Book(tx.s)
    BY <1>8 DEF CommitReport
  <2> QED BY <1>6, <2>2, <2>3
<1>9. CASE CommitSheet
  BY <1>6, <1>9 DEF CommitSheet, TypeOK
<1>10. CASE Abort
  BY <1>10 DEF Abort, TypeOK, Tx
<1>11. CASE Crash
  BY <1>11 DEF Crash, TypeOK, Tx
<1>12. ASSUME NEW a \in Removable, RemoveAccount(a) PROVE TypeOK'
  BY <1>12 DEF RemoveAccount, TypeOK
<1>13. ASSUME NEW kind \in ManualKinds, NEW k \in Keys, NEW a \in Accounts \cup {None}, TypeIn(kind, k, a)
       PROVE  TypeOK'
  <2>1. [id |-> nextId, kind |-> kind, key |-> k, target |-> a,
         import |-> None, held |-> FALSE, sure |-> FALSE] \in Money
    BY ManualAssumption DEF Money, TypeOK, Destinations
  <2>2. money' \subseteq Money
    BY <1>13, <2>1 DEF TypeIn, TypeOK
  <2>3. /\ UNCHANGED <<sessionVars, screen, imports, confirmed, docs, accounts, uploading, tx>>
        /\ nextId' = nextId + 1 /\ byHand' = byHand + 1
    BY <1>13 DEF TypeIn, WorkByHand
  <2> QED BY <2>2, <2>3 DEF TypeOK
<1>14. ASSUME NEW t \in money, Delete(t) \/ Hold(t) PROVE TypeOK'
  <2>1. t \in Money
    BY DEF TypeOK
  <2>2. [t EXCEPT !.held = TRUE] \in Money
    BY <2>1 DEF Money
  <2>3. money' \subseteq Money
    BY <1>14, <2>2 DEF Delete, Hold, TypeOK
  <2>4. /\ UNCHANGED <<sessionVars, screen, nextId, imports, confirmed, docs, accounts, uploading, tx>>
        /\ byHand' = byHand + 1
    BY <1>14 DEF Delete, Hold, WorkByHand
  <2> QED BY <2>3, <2>4 DEF TypeOK
<1> QED
  BY <1>1, <1>2, <1>3, <1>4, <1>5, <1>7, <1>8, <1>9, <1>10, <1>11, <1>12, <1>13, <1>14 DEF Next

(* Every reachable state is well typed. *)
THEOREM TypeCorrect == Spec => []TypeOK
BY InitTypeOK, NextTypeOK, PTL DEF Spec
-----------------------------------------------------------------------------
(* The inductive invariant behind NothingLeftBehind and OneSessionPerFile. *)

Live(s) == status[s] \notin Gone \cup {"absent"}

(* A session names its own import or none. *)
LinksOwn == \A s \in Sids : link[s] \in {None, s}

(* A row names an import that is there, made for the row's account. *)
RowsNameImports ==
    \A t \in money : t.import # None => t.import \in imports /\ t.target = target[t.import]

(* An import belongs to a session in the books that names it. *)
ImportsBooked == \A i \in imports : link[i] = i /\ status[i] \in Booked

(* A card report in the books is there, and is no account's. *)
ReportsKept ==
    \A s \in Sids : status[s] \in Booked /\ Kind(s) = "credit" =>
        target[s] = Card /\ (link[s] # None => link[s] \in imports)

OneLive == \A r, s \in Sids : r # s /\ Live(r) /\ Live(s) => fileOf[r] # fileOf[s]

(* The session of the open transaction was cancelled at worst, and nobody  *)
(* could make another one of its file meanwhile.                           *)
TxAlone ==
    tx # NoTx =>
        /\ status[tx.s] \in Open \cup {"cancelled"}
        /\ SyncFiles = {} => status[tx.s] \in Open
        /\ \A r \in Sids : r # tx.s /\ Live(r) => fileOf[r] # fileOf[tx.s]

BookInv ==
    LinksOwn /\ RowsNameImports /\ ImportsBooked /\ ReportsKept /\ OneLive /\ TxAlone

LEMMA BookInvStrong == TypeOK /\ BookInv => NothingLeftBehind /\ OneSessionPerFile
<1> SUFFICES ASSUME TypeOK, BookInv PROVE NothingLeftBehind /\ OneSessionPerFile
  OBVIOUS
<1>1. NothingLeftBehind
  BY DEF BookInv, RowsNameImports, ImportsBooked, ReportsKept, NothingLeftBehind, TypeOK
<1>2. OneSessionPerFile
  BY DEF BookInv, OneLive, Live, OneSessionPerFile
<1> QED BY <1>1, <1>2

LEMMA InitBookInv == Init => BookInv
BY DEF Init, BookInv, LinksOwn, RowsNameImports, ImportsBooked, ReportsKept, OneLive, TxAlone,
       Live, Booked, Gone

(* Steps that leave the books alone and move one session among the open    *)
(* and cancelled ones while no transaction is open.                        *)
LEMMA NextBookInv == TypeOK /\ BookInv /\ [Next]_vars => BookInv'
<1> SUFFICES ASSUME TypeOK, BookInv, [Next]_vars PROVE BookInv'
  OBVIOUS
<1> USE DEF sessionVars, bookVars, Open, Booked, Gone, Free, Live, Kind, Tx, NoTx,
            LinksOwn, RowsNameImports, ImportsBooked, ReportsKept, OneLive, TxAlone
<1>1. CASE UNCHANGED vars
  BY <1>1 DEF BookInv, vars
<1>2. ASSUME NEW f \in Files, Upload(f) PROVE BookInv'
  <2> DEFINE earlier == {s \in Sids : fileOf[s] = f /\ status[s] \notin Gone \cup {"absent"}}
  <2>1. CASE earlier # {}
    <3>1. UNCHANGED <<status, fileOf, target, link, money, imports, tx>>
      BY <1>2, <2>1 DEF Upload
    <3> QED BY <3>1 DEF BookInv
  <2>2. CASE earlier = {}
    <3>1. PICK s \in Sids : /\ status[s] = "absent"
                            /\ status' = [status EXCEPT ![s] = "uploaded"]
                            /\ fileOf' = [fileOf EXCEPT ![s] = f]
      BY <1>2, <2>2 DEF Upload
    <3>2. UNCHANGED <<target, link, money, imports, tx>> /\ tx = NoTx
      BY <1>2 DEF Upload
    <3>3. \A r \in Sids : status[r] \notin {"cancelled", "rolled_back", "absent"} => fileOf[r] # f
      BY <2>2
    <3>4. /\ \A r \in Sids \ {s} : status'[r] = status[r] /\ fileOf'[r] = fileOf[r]
          /\ status'[s] = "uploaded" /\ fileOf'[s] = f
      BY <3>1 DEF TypeOK
    <3> HIDE DEF earlier
    <3>5. ImportsBooked' /\ ReportsKept' /\ RowsNameImports' /\ LinksOwn' /\ TxAlone'
      BY <3>1, <3>2, <3>4 DEF BookInv, TypeOK
    <3>6. OneLive'
      BY <3>3, <3>4 DEF BookInv
    <3> QED BY <3>5, <3>6 DEF BookInv
  <2> QED BY <2>1, <2>2
<1>3. ASSUME NEW s \in Sids, status[s] # "absent", SessionStep(s) PROVE BookInv'
  <2> USE <1>3
  <2>1. ASSUME NEW a \in Answers(s), ProcessUpload(s, a) PROVE BookInv'
    <3>1. /\ UNCHANGED <<status, fileOf, target, link, money, imports>>
          /\ tx' = tx \/ (status[s] = "uploaded" /\ tx'.s = s)
      BY <2>1 DEF ProcessUpload
    <3>2. CASE tx' = tx
      BY <3>1, <3>2 DEF BookInv
    <3>3. CASE status[s] = "uploaded" /\ tx'.s = s
      <4>1. TxAlone'
        BY <3>1, <3>3 DEF BookInv
      <4> QED BY <3>1, <4>1 DEF BookInv
    <3> QED BY <3>1, <3>2, <3>3
  <2>2. ASSUME NEW a \in Answers(s), Answer(s, a) PROVE BookInv'
    BY <2>2 DEF Answer, BookInv, TypeOK
  <2>3. ASSUME NEW i \in DOMAIN staged[s], NEW k \in Keys, NEW dup \in BOOLEAN, Decide(s, i, k, dup)
        PROVE  BookInv'
    BY <2>3 DEF Decide, BookInv
  <2>4. CASE View(s)
    BY <2>4 DEF View, BookInv
  <2>5. CASE BeginCommit(s)
    <3>1. /\ UNCHANGED <<status, fileOf, target, link, money, imports>>
          /\ status[s] = "ready_for_review" /\ tx'.s = s
      BY <2>5 DEF BeginCommit
    <3>2. TxAlone'
      BY <3>1 DEF BookInv
    <3> QED BY <3>1, <3>2 DEF BookInv
  <2>6. CASE Finish(s)
    <3>1. UNCHANGED <<fileOf, target, link, money, imports, tx>> /\ tx = NoTx /\ status[s] = "review"
      BY <2>6 DEF Finish
    <3>2. \A r \in Sids : status'[r] = status[r] \/ (r = s /\ status'[r] = "completed")
      BY <2>6 DEF Finish, TypeOK
    <3>3. LinksOwn' /\ RowsNameImports' /\ TxAlone'
      BY <3>1 DEF BookInv
    <3>4. ImportsBooked' /\ ReportsKept'
      BY <3>1, <3>2 DEF BookInv, TypeOK
    <3>5. OneLive'
      BY <3>1, <3>2 DEF BookInv
    <3> QED BY <3>3, <3>4, <3>5 DEF BookInv
  <2>7. CASE Cancel(s) \/ CancelBySync(s)
    <3>1. /\ UNCHANGED <<fileOf, target, link, money, imports, tx>>
          /\ status[s] \in Open
          /\ \A r \in Sids : status'[r] = IF r = s THEN "cancelled" ELSE status[r]
          /\ tx = NoTx \/ SyncFiles # {}
      BY <2>7 DEF Cancel, CancelBySync, CancelSession, TypeOK
    <3>2. LinksOwn' /\ RowsNameImports' /\ OneLive'
      BY <3>1 DEF BookInv
    <3>3. ImportsBooked' /\ ReportsKept'
      BY <3>1 DEF BookInv, TypeOK
    <3>4. TxAlone'
      BY <3>1 DEF BookInv, TypeOK
    <3> QED BY <3>2, <3>3, <3>4 DEF BookInv
  <2>8. ASSUME Rollback(s) \/ RemoveReport(s) PROVE BookInv'
    <3> DEFINE i == IF Rollback(s) THEN link[s] ELSE s
    <3>1. /\ UNCHANGED <<fileOf, target, link, tx>> /\ tx = NoTx
          /\ imports' = imports \ {i}
          /\ Invalidate(i)
      BY <2>8 DEF Rollback, RemoveReport
    <3>2. i = s
      BY <2>8 DEF Rollback, CanRollback, BookInv
    <3>3. \A t \in money' : t.import # None => t \in money /\ t.import # i
      BY <2>8 DEF Rollback, RemoveReport, WithoutRowsOf, TypeOK, Money
    <3>4. \A r \in Sids : status'[r] = IF status[r] \in Booked /\ link[r] = i
                                         THEN "rolled_back" ELSE status[r]
      BY <3>1 DEF Invalidate
    <3> HIDE DEF i
    <3>5. LinksOwn' /\ RowsNameImports' /\ TxAlone'
      BY <3>1, <3>3 DEF BookInv
    <3>6. ImportsBooked' /\ ReportsKept'
      BY <3>1, <3>2, <3>4 DEF BookInv, TypeOK
    <3>7. OneLive'
      BY <3>1, <3>4 DEF BookInv
    <3> QED BY <3>5, <3>6, <3>7 DEF BookInv
  <2>9. CASE ConfirmReport(s)
    BY <2>9 DEF ConfirmReport, BookInv
  <2> QED BY <2>1, <2>2, <2>3, <2>4, <2>5, <2>6, <2>7, <2>8, <2>9 DEF SessionStep
<1>4. CASE ProcessSession \/ ProcessFails
  <2>1. tx.s \in Sids /\ tx # NoTx
    BY <1>4 DEF ProcessSession, ProcessFails, TypeOK
  <2>2. /\ UNCHANGED <<fileOf, link, money, imports>> /\ tx' = NoTx
        /\ status'[tx.s] \in Open
        /\ \A r \in Sids \ {tx.s} : status'[r] = status[r] /\ target'[r] = target[r]
    BY <1>4, <2>1 DEF ProcessSession, ProcessFails, TypeOK
  <2>3. tx.s \notin imports /\ status[tx.s] \notin Booked
    BY <2>1 DEF BookInv, TypeOK
  <2>4. LinksOwn' /\ TxAlone'
    BY <2>2 DEF BookInv
  <2>5. RowsNameImports' /\ ImportsBooked' /\ ReportsKept'
    <3>1. \A i \in imports : i \in Sids \ {tx.s}
      BY <2>3 DEF TypeOK
    <3>2. RowsNameImports' /\ ImportsBooked'
      BY <2>2, <3>1 DEF BookInv
    <3>3. ReportsKept'
      BY <2>2 DEF BookInv
    <3> QED BY <3>2, <3>3
  <2>6. OneLive'
    BY <2>1, <2>2 DEF BookInv
  <2> QED BY <2>4, <2>5, <2>6 DEF BookInv
<1>5. CASE CommitStatement \/ CommitReport \/ CommitSheet
  <2>1. tx.s \in Sids /\ tx # NoTx /\ Valid(tx.s) /\ AddRows(tx.s) /\ Book(tx.s)
    BY <1>5 DEF CommitStatement, CommitReport, CommitSheet, TypeOK
  <2>2. tx.s \notin imports /\ status[tx.s] \notin Booked
    BY <2>1 DEF BookInv, TypeOK
  <2>3. /\ UNCHANGED <<fileOf, target>> /\ tx' = NoTx
        /\ status'[tx.s] = "review"
        /\ \A r \in Sids \ {tx.s} : status'[r] = status[r] /\ link'[r] = link[r]
    BY <1>5, <2>1 DEF Book, CommitStatement, CommitReport, CommitSheet, TypeOK
  <2>4. Kind(tx.s) = "credit" => target[tx.s] = Card
    BY <2>1 DEF Valid, NeedsAnswer
  <2>5. \A t \in Added(tx.s) : /\ t.target = target[tx.s]
                               /\ t.import \in {None, tx.s}
                               /\ Included(tx.s) # {}
                               /\ Kind(tx.s) = "expense_sheet" => t.import = None
    <3> HIDE DEF Kind
    <3> SUFFICES ASSUME NEW t \in Added(tx.s)
                 PROVE  /\ t.target = target[tx.s]
                        /\ t.import \in {None, tx.s}
                        /\ Included(tx.s) # {}
                        /\ Kind(tx.s) = "expense_sheet" => t.import = None
      OBVIOUS
    <3>1. PICK i \in Included(tx.s) :
             t = [id |-> nextId + Cardinality({j \in Included(tx.s) : j < i}),
                  kind |-> RowKind[Kind(tx.s)],
                  key |-> staged[tx.s][i].key,
                  target |-> target[tx.s],
                  import |-> IF Kind(tx.s) = "expense_sheet" THEN None ELSE tx.s,
                  held |-> FALSE,
                  sure |-> ~staged[tx.s][i].forced]
      BY Zenon DEF Added
    <3>2. t.target = target[tx.s] /\ t.import = IF Kind(tx.s) = "expense_sheet" THEN None ELSE tx.s
      BY <3>1
    <3> QED BY <3>2
  <2>6. /\ imports \subseteq imports' /\ imports' \subseteq imports \cup {tx.s}
        /\ tx.s \in imports' => link'[tx.s] = tx.s
        /\ link'[tx.s] \in {None, tx.s}
        /\ Kind(tx.s) = "credit" /\ link'[tx.s] # None => tx.s \in imports'
        /\ \A t \in Added(tx.s) : t.import # None => tx.s \in imports'
    <3>1. CASE CommitStatement
      BY <2>1, <2>2, <3>1 DEF CommitStatement, TypeOK
    <3>2. CASE CommitReport
      BY <2>1, <2>2, <2>5, <3>2 DEF CommitReport, TypeOK
    <3>3. CASE CommitSheet
      BY <2>1, <2>2, <2>5, <3>3 DEF CommitSheet, TypeOK, BookInv
    <3> QED BY <1>5, <3>1, <3>2, <3>3
  <2>7. money' = money \cup Added(tx.s)
    BY <2>1 DEF AddRows
  <2>8. LinksOwn' /\ TxAlone'
    BY <2>3, <2>6 DEF BookInv
  <2>9. RowsNameImports'
    <3>1. \A t \in money : t.import # None => t.import \in imports' /\ t.target = target'[t.import]
      BY <2>3, <2>6 DEF BookInv
    <3>2. \A t \in Added(tx.s) : t.import # None => t.import \in imports' /\ t.target = target'[t.import]
      BY <2>3, <2>5, <2>6
    <3> QED BY <2>7, <3>1, <3>2
  <2>10. ImportsBooked' /\ ReportsKept'
    <3>1. \A i \in imports : i \in Sids \ {tx.s} /\ link[i] = i /\ status[i] \in Booked
      BY <2>2 DEF BookInv, TypeOK
    <3>2. ImportsBooked'
      BY <2>3, <2>6, <3>1
    <3>3. ReportsKept'
      BY <2>3, <2>4, <2>6 DEF BookInv
    <3> QED BY <3>2, <3>3
  <2>11. OneLive'
    BY <2>1, <2>3 DEF BookInv
  <2> QED BY <2>8, <2>9, <2>10, <2>11 DEF BookInv
<1>6. CASE Abort
  BY <1>6 DEF Abort, BookInv
<1>7. CASE Crash
  BY <1>7 DEF Crash, BookInv
<1>8. ASSUME NEW a \in Removable, RemoveAccount(a) PROVE BookInv'
  <2>1. a # Card
    BY TargetsAssumption
  <2> QED BY <1>8, <2>1 DEF RemoveAccount, BookInv, TypeOK
<1>9. ASSUME NEW kind \in ManualKinds, NEW k \in Keys, NEW a \in Accounts \cup {None}, TypeIn(kind, k, a)
      PROVE  BookInv'
  <2>1. /\ UNCHANGED <<status, fileOf, target, link, imports, tx>>
        /\ \A t \in money' : t \in money \/ t.import = None
    BY <1>9 DEF TypeIn
  <2> QED BY <2>1 DEF BookInv
<1>10. ASSUME NEW t \in money, Delete(t) \/ Hold(t) PROVE BookInv'
  <2>1. /\ UNCHANGED <<status, fileOf, target, link, imports, tx>>
        /\ \A u \in money' : \E v \in money : u.import = v.import /\ u.target = v.target
    BY <1>10 DEF Delete, Hold, TypeOK, Money
  <2> QED BY <2>1 DEF BookInv
<1> QED
  BY <1>1, <1>2, <1>3, <1>4, <1>5, <1>6, <1>7, <1>8, <1>9, <1>10 DEF Next

LEMMA Invariance == Spec => [](TypeOK /\ BookInv)
<1>1. TypeOK /\ BookInv /\ [Next]_vars => (TypeOK /\ BookInv)'
  BY NextTypeOK, NextBookInv
<1> QED BY InitTypeOK, InitBookInv, <1>1, PTL DEF Spec

(* Undoing an import, from the document or from the card reports, leaves   *)
(* neither its rows nor a session that claims them, for any set of files   *)
(* and any number of sessions.                                             *)
THEOREM NothingLeft == Spec => []NothingLeftBehind
BY Invariance, BookInvStrong, PTL

(* Two uploads of one file never have two live sessions, even with the     *)
(* connection sync cancelling between the steps of a transaction.          *)
THEOREM OneSession == Spec => []OneSessionPerFile
BY Invariance, BookInvStrong, PTL
-----------------------------------------------------------------------------
(* Refinement of SessionLifecycle, when no file is the connection sync's.  *)

AllLife == [s \in Sids |-> LifeOf(s)]
AllEntries == [s \in Sids |-> EntriesOf(s)]
AbstractStep == [Lifecycle!AbstractNext]_<<AllLife, AllEntries>>

LEMMA InitIsAbstract == Init => Lifecycle!AbstractInit
BY DEF Init, Lifecycle!AbstractInit, LifeOf, EntriesOf, Open, Booked, Gone

(* A session moves alone from one stage to the next. *)
LEMMA StageStep ==
    ASSUME NEW s \in Sids, \A r \in Sids \ {s} : LifeOf(r)' = LifeOf(r)
    PROVE  AllLife' = [AllLife EXCEPT ![s] = LifeOf(s)']
BY DEF AllLife

(* A step that keeps every stage and adds no entry is a correction. *)
LEMMA CorrectionStep ==
    ASSUME \A r \in Sids : LifeOf(r)' = LifeOf(r),
           \A r \in Sids : EntriesOf(r)' \subseteq EntriesOf(r)
    PROVE  AbstractStep
<1>1. AllLife' = AllLife
  BY DEF AllLife
<1>2. Lifecycle!Correct
  BY <1>1 DEF Lifecycle!Correct, AllLife
<1> QED BY <1>2 DEF AbstractStep, Lifecycle!AbstractNext

(* A step that leaves the books alone keeps their entries. *)
LEMMA SameEntries ==
    ASSUME UNCHANGED money
    PROVE  /\ \A r \in Sids : EntriesOf(r)' = EntriesOf(r)
           /\ AllEntries' = AllEntries
BY DEF AllEntries, EntriesOf

LEMMA StepIsAbstract ==
    ASSUME SyncFiles = {}
    PROVE  TypeOK /\ BookInv /\ [Next]_vars => AbstractStep
<1> SUFFICES ASSUME TypeOK, BookInv, [Next]_vars PROVE AbstractStep
  OBVIOUS
<1> USE DEF sessionVars, bookVars, Free
<1> DEFINE Quiet == UNCHANGED <<status, money>>
<1>1. ASSUME Quiet PROVE AbstractStep
  <2>1. AllLife' = AllLife
    BY <1>1 DEF AllLife, LifeOf
  <2>2. AllEntries' = AllEntries
    BY <1>1, SameEntries
  <2> QED BY <2>1, <2>2 DEF AbstractStep
<1>2. ASSUME NEW s \in Sids, \A r \in Sids \ {s} : status'[r] = status[r], UNCHANGED money,
             \/ LifeOf(s)' = LifeOf(s)
             \/ LifeOf(s) = "absent" /\ LifeOf(s)' = "offered"
             \/ LifeOf(s) = "offered" /\ LifeOf(s)' = "withdrawn"
      PROVE  AbstractStep
  <2>1. \A r \in Sids \ {s} : LifeOf(r)' = LifeOf(r)
    BY <1>2 DEF LifeOf
  <2>2. AllEntries' = AllEntries /\ \A r \in Sids : EntriesOf(r)' = EntriesOf(r)
    BY <1>2, SameEntries
  <2>3. CASE LifeOf(s)' = LifeOf(s)
    BY <2>1, <2>2, <2>3, CorrectionStep
  <2>4. AllLife' = [AllLife EXCEPT ![s] = LifeOf(s)'] /\ AllLife[s] = LifeOf(s)
    BY <2>1, StageStep DEF AllLife
  <2>5. CASE LifeOf(s) = "absent" /\ LifeOf(s)' = "offered"
    <3>1. Lifecycle!Offer(s)
      BY <2>2, <2>4, <2>5 DEF Lifecycle!Offer, Lifecycle!Becomes, AllLife, AllEntries
    <3> QED BY <3>1 DEF AbstractStep, Lifecycle!AbstractNext
  <2>6. CASE LifeOf(s) = "offered" /\ LifeOf(s)' = "withdrawn"
    <3>1. Lifecycle!Withdraw(s)
      BY <2>2, <2>4, <2>6 DEF Lifecycle!Withdraw, Lifecycle!Becomes, AllLife, AllEntries
    <3> QED BY <3>1 DEF AbstractStep, Lifecycle!AbstractNext
  <2> QED BY <1>2, <2>3, <2>5, <2>6
<1> HIDE DEF Quiet
<1>3. CASE UNCHANGED vars
  BY <1>1, <1>3 DEF vars, Quiet
<1>4. ASSUME NEW f \in Files, Upload(f) PROVE AbstractStep
  <2>1. CASE UNCHANGED status
    BY <1>1, <1>4, <2>1 DEF Upload, Quiet
  <2>2. CASE \E s \in Sids : status[s] = "absent" /\ status' = [status EXCEPT ![s] = "uploaded"]
    <3>1. PICK s \in Sids : status[s] = "absent" /\ status' = [status EXCEPT ![s] = "uploaded"]
      BY <2>2
    <3>2. /\ LifeOf(s) = "absent" /\ LifeOf(s)' = "offered"
          /\ \A r \in Sids \ {s} : status'[r] = status[r]
      BY <3>1 DEF LifeOf, TypeOK, Open, Booked, Gone
    <3>3. UNCHANGED money
      BY <1>4 DEF Upload
    <3> QED BY <1>2, <3>2, <3>3
  <2> QED BY <1>4, <2>1, <2>2 DEF Upload
<1>5. ASSUME NEW s \in Sids, status[s] # "absent", SessionStep(s) PROVE AbstractStep
  <2>1. CASE \/ \E a \in Answers(s) : ProcessUpload(s, a) \/ Answer(s, a)
             \/ \E i \in DOMAIN staged[s], k \in Keys, dup \in BOOLEAN : Decide(s, i, k, dup)
             \/ View(s) \/ BeginCommit(s) \/ ConfirmReport(s)
    <3>1. Quiet
      BY <2>1 DEF ProcessUpload, Answer, Decide, View, BeginCommit, ConfirmReport, Quiet
    <3> QED BY <1>1, <3>1
  <2>2. CASE Finish(s)
    <3>1. /\ LifeOf(s)' = LifeOf(s)
          /\ \A r \in Sids \ {s} : status'[r] = status[r]
          /\ UNCHANGED money
      BY <2>2 DEF Finish, LifeOf, TypeOK, Open, Booked
    <3> QED BY <1>2, <3>1
  <2>3. CASE Cancel(s) \/ CancelBySync(s)
    <3>1. CancelSession(s)
      BY <2>3 DEF Cancel, CancelBySync
    <3>2. /\ LifeOf(s) = "offered" /\ LifeOf(s)' = "withdrawn"
          /\ \A r \in Sids \ {s} : status'[r] = status[r]
          /\ UNCHANGED money
      BY <3>1 DEF CancelSession, LifeOf, TypeOK, Open, Booked
    <3> QED BY <1>2, <3>2
  <2>4. CASE Rollback(s) \/ RemoveReport(s)
    <3> DEFINE i == IF Rollback(s) THEN link[s] ELSE s
    <3>1. i = s /\ Invalidate(i)
      BY <2>4 DEF Rollback, RemoveReport, CanRollback, BookInv, LinksOwn
    <3>2. \A r \in Sids : status'[r] = IF status[r] \in Booked /\ link[r] = s
                                         THEN "rolled_back" ELSE status[r]
      BY <3>1 DEF Invalidate
    <3>3. \A r \in Sids \ {s} : status'[r] = status[r]
      BY <3>2, NoneAssumption DEF BookInv, LinksOwn
    <3>4. \A t \in money' : t.import # None => t \in money /\ t.import # i
      BY <2>4 DEF Rollback, RemoveReport, WithoutRowsOf, TypeOK, Money
    <3>5. \A t \in money : t.import # i => t \in money'
      BY <2>4 DEF Rollback, RemoveReport, WithoutRowsOf
    <3> HIDE DEF i
    <3>6. EntriesOf(s)' = {}
      BY <3>1, <3>4, NoneAssumption DEF EntriesOf
    <3>7. ASSUME NEW r \in Sids \ {s} PROVE EntriesOf(r)' = EntriesOf(r)
      BY <3>1, <3>4, <3>5, <3>7, NoneAssumption DEF EntriesOf
    <3>8. CASE status[s] \in Booked /\ link[s] = s
      <4>1. LifeOf(s) = "booked" /\ LifeOf(s)' = "undone"
        BY <3>2, <3>8 DEF LifeOf, Open, Booked
      <4>2. \A r \in Sids \ {s} : LifeOf(r)' = LifeOf(r)
        BY <3>3 DEF LifeOf
      <4>3. AllLife' = [AllLife EXCEPT ![s] = LifeOf(s)'] /\ AllLife[s] = LifeOf(s)
        BY <4>2, StageStep DEF AllLife
      <4>4. AllEntries' = [AllEntries EXCEPT ![s] = {}]
        BY <3>6, <3>7 DEF AllEntries
      <4>5. Lifecycle!Undo(s)
        BY <4>1, <4>3, <4>4 DEF Lifecycle!Undo, Lifecycle!Becomes, AllLife, AllEntries
      <4> QED BY <4>5 DEF AbstractStep, Lifecycle!AbstractNext
    <3>9. CASE ~(status[s] \in Booked /\ link[s] = s)
      <4>1. \A r \in Sids : LifeOf(r)' = LifeOf(r)
        BY <3>2, <3>3, <3>9 DEF LifeOf
      <4> QED BY <3>6, <3>7, <4>1, CorrectionStep
    <3> QED BY <3>8, <3>9
  <2> QED BY <1>5, <2>1, <2>2, <2>3, <2>4 DEF SessionStep
<1>6. CASE ProcessSession \/ ProcessFails
  <2>1. tx.s \in Sids /\ tx # NoTx
    BY <1>6 DEF ProcessSession, ProcessFails, TypeOK, Tx, NoTx
  <2>2. PICK s \in Sids : s = tx.s
    BY <2>1
  <2>3. status[s] \in Open
    BY <2>1, <2>2 DEF BookInv, TxAlone
  <2>4. /\ status'[s] \in Open
        /\ \A r \in Sids \ {s} : status'[r] = status[r]
        /\ UNCHANGED money
    BY <1>6, <2>2 DEF ProcessSession, ProcessFails, TypeOK, Open
  <2>5. LifeOf(s)' = LifeOf(s)
    BY <2>3, <2>4 DEF LifeOf
  <2> QED BY <1>2, <2>4, <2>5
<1>7. CASE CommitStatement \/ CommitReport \/ CommitSheet
  <2>1. tx.s \in Sids /\ tx # NoTx /\ AddRows(tx.s) /\ Book(tx.s)
    BY <1>7 DEF CommitStatement, CommitReport, CommitSheet, TypeOK, Tx, NoTx
  <2>s. PICK s \in Sids : s = tx.s
    BY <2>1
  <2>2. status[s] \in Open
    BY <2>1, <2>s DEF BookInv, TxAlone
  <2>3. status' = [status EXCEPT ![s] = "review"] /\ money' = money \cup Added(s)
    BY <2>1, <2>s DEF Book, AddRows
  <2>4. \A t \in Added(s) : t.import \in {None, s}
    <3> SUFFICES ASSUME NEW t \in Added(s) PROVE t.import \in {None, s}
      OBVIOUS
    <3>1. PICK i \in Included(s) :
             t = [id |-> nextId + Cardinality({j \in Included(s) : j < i}),
                  kind |-> RowKind[Kind(s)],
                  key |-> staged[s][i].key,
                  target |-> target[s],
                  import |-> IF Kind(s) = "expense_sheet" THEN None ELSE s,
                  held |-> FALSE,
                  sure |-> ~staged[s][i].forced]
      BY Zenon DEF Added
    <3> QED BY <3>1
  <2>5. LifeOf(s) = "offered" /\ LifeOf(s)' = "booked"
    BY <2>1, <2>2, <2>3 DEF LifeOf, TypeOK, Open, Booked
  <2>6. \A r \in Sids \ {s} : LifeOf(r)' = LifeOf(r)
    BY <2>1, <2>3 DEF LifeOf, TypeOK
  <2>7. ASSUME NEW r \in Sids \ {s} PROVE EntriesOf(r)' = EntriesOf(r)
    BY <2>3, <2>4, <2>7, NoneAssumption DEF EntriesOf
  <2>8. AllLife' = [AllLife EXCEPT ![s] = LifeOf(s)'] /\ AllLife[s] = LifeOf(s)
    BY <2>1, <2>6, StageStep DEF AllLife
  <2>9. Lifecycle!Book(s)
    BY <2>5, <2>7, <2>8 DEF Lifecycle!Book, Lifecycle!Becomes, AllLife, AllEntries
  <2> QED BY <2>1, <2>9 DEF AbstractStep, Lifecycle!AbstractNext
<1>8. CASE Abort \/ Crash
  BY <1>1, <1>8 DEF Abort, Crash, Quiet
<1>9. ASSUME UNCHANGED status, \A u \in money' : \A r \in Sids : u.import = r =>
                 \E v \in money : u.import = v.import /\ u.id = v.id
      PROVE  AbstractStep
  <2>1. \A r \in Sids : LifeOf(r)' = LifeOf(r)
    BY <1>9 DEF LifeOf
  <2>2. \A r \in Sids : EntriesOf(r)' \subseteq EntriesOf(r)
    BY <1>9 DEF EntriesOf
  <2> QED BY <2>1, <2>2, CorrectionStep
<1>10. ASSUME NEW a \in Removable, RemoveAccount(a) PROVE AbstractStep
  <2>1. UNCHANGED status /\ money' \subseteq money
    BY <1>10 DEF RemoveAccount
  <2> QED BY <1>9, <2>1
<1>11. ASSUME NEW kind \in ManualKinds, NEW k \in Keys, NEW a \in Accounts \cup {None}, TypeIn(kind, k, a)
       PROVE  AbstractStep
  <2>1. UNCHANGED status /\ \A t \in money' : t \in money \/ t.import = None
    BY <1>11 DEF TypeIn
  <2> QED BY <1>9, <2>1, NoneAssumption
<1>12. ASSUME NEW t \in money, Delete(t) \/ Hold(t) PROVE AbstractStep
  <2>1. UNCHANGED status /\ \A u \in money' : \E v \in money : u.import = v.import /\ u.id = v.id
    BY <1>12 DEF Delete, Hold, TypeOK, Money
  <2> QED BY <1>9, <2>1
<1> QED
  BY <1>3, <1>4, <1>5, <1>6, <1>7, <1>8, <1>10, <1>11, <1>12 DEF Next

(* Without the connection sync, imports follow SessionLifecycle: what is   *)
(* in the books was offered first and booked as a whole, a withdrawn       *)
(* session never adds anything, and undoing takes everything out for good. *)
THEOREM ImplementsLifecycle ==
    ASSUME SyncFiles = {}
    PROVE  Spec => FollowsLifecycle
<1>1. TypeOK /\ BookInv /\ [Next]_vars => AbstractStep
  BY StepIsAbstract
<1> QED
  BY <1>1, InitIsAbstract, Invariance, PTL
     DEF Spec, FollowsLifecycle, Lifecycle!AbstractSpec, AbstractStep, AllLife, AllEntries
-----------------------------------------------------------------------------
(* Counting: what the ranks of staging and the pairing of rows rest on.    *)

(* How many elements of S come before x, in the order of their numbers.    *)
RankIn(S, h, x) == Cardinality({y \in S : h[y] < h[x]})

(* The ranks of the elements of a finite set are 0, 1, ... without a gap.  *)
LEMMA RanksFill ==
    ASSUME NEW S, IsFiniteSet(S), NEW h \in [S -> Nat],
           \A x, y \in S : h[x] = h[y] => x = y
    PROVE  [x \in S |-> RankIn(S, h, x)] \in Bijection(S, 0..(Cardinality(S) - 1))
<1> DEFINE below(x) == {y \in S : h[y] < h[x]}
           rank == [x \in S |-> RankIn(S, h, x)]
           m == Cardinality(S)
<1>1. m \in Nat
  BY FS_CardinalityType
<1>2. ASSUME NEW x \in S
      PROVE  IsFiniteSet(below(x)) /\ Cardinality(below(x)) \in 0..(m - 1)
  <2>1. below(x) \in SUBSET S /\ x \notin below(x)
    OBVIOUS
  <2>2. IsFiniteSet(below(x)) /\ Cardinality(below(x)) <= m /\ (m = Cardinality(below(x)) => S = below(x))
    BY <2>1, FS_Subset
  <2>3. Cardinality(below(x)) # m
    BY <2>1, <2>2
  <2>4. Cardinality(below(x)) \in Nat
    BY <2>2, FS_CardinalityType
  <2> QED BY <1>1, <2>2, <2>3, <2>4
<1>3. ASSUME NEW x \in S, NEW y \in S, h[x] < h[y]
      PROVE  Cardinality(below(x)) < Cardinality(below(y))
  <2>1. h[x] \in Nat /\ h[y] \in Nat /\ \A z \in S : h[z] \in Nat
    OBVIOUS
  <2>2. below(x) \in SUBSET below(y) /\ x \in below(y) /\ x \notin below(x)
    BY <1>3, <2>1
  <2>3. IsFiniteSet(below(y)) /\ Cardinality(below(y)) \in 0..(m - 1)
    BY <1>2
  <2>4. Cardinality(below(x)) <= Cardinality(below(y))
        /\ (Cardinality(below(y)) = Cardinality(below(x)) => below(y) = below(x))
    BY <2>2, <2>3, FS_Subset
  <2>5. Cardinality(below(x)) \in 0..(m - 1)
    BY <1>2
  <2> HIDE DEF below, m
  <2> QED BY <1>1, <2>2, <2>3, <2>4, <2>5
<1>4. rank \in [S -> 0..(m - 1)] /\ \A x \in S : rank[x] = Cardinality(below(x))
  BY <1>2 DEF RankIn
<1>5. \A x, y \in S : rank[x] = rank[y] => x = y
  <2> SUFFICES ASSUME NEW x \in S, NEW y \in S, rank[x] = rank[y] PROVE x = y
    OBVIOUS
  <2>1. h[x] \in Nat /\ h[y] \in Nat
    OBVIOUS
  <2>2. /\ Cardinality(below(x)) = Cardinality(below(y))
        /\ Cardinality(below(x)) \in 0..(m - 1)
    BY <1>2, <1>4
  <2> HIDE DEF below, rank
  <2>3. ~(h[x] < h[y]) /\ ~(h[y] < h[x])
    BY <1>1, <1>3, <2>2
  <2> QED BY <2>1, <2>3
<1> HIDE DEF rank
<1>6. rank \in Injection(S, 0..(m - 1))
  BY <1>4, <1>5 DEF Injection, IsInjective
<1>7. IsFiniteSet(0..(m - 1)) /\ Cardinality(0..(m - 1)) = m
  BY <1>1, FS_Interval
<1>8. rank \in Surjection(S, 0..(m - 1))
  <2> HIDE DEF m
  <2> QED BY <1>6, <1>7, FS_Injection DEF m
<1> QED BY <1>6, <1>8 DEF Bijection, rank

(* As many elements have a rank of at least r as there are ranks from r on. *)
LEMMA HighRanks ==
    ASSUME NEW S, IsFiniteSet(S), NEW h \in [S -> Nat],
           \A x, y \in S : h[x] = h[y] => x = y, NEW r \in Nat
    PROVE  LET high == {x \in S : RankIn(S, h, x) >= r} IN
           /\ IsFiniteSet(high)
           /\ high # {} => Cardinality(high) + r <= Cardinality(S)
<1> DEFINE high == {x \in S : RankIn(S, h, x) >= r}
           m == Cardinality(S)
           rank == [x \in S |-> RankIn(S, h, x)]
           pick == [x \in high |-> rank[x]]
<1>1. m \in Nat
  BY FS_CardinalityType
<1>2. rank \in Bijection(S, 0..(m - 1))
  BY RanksFill
<1>3. rank \in [S -> 0..(m - 1)] /\ \A x, y \in S : rank[x] = rank[y] => x = y
  BY <1>2 DEF Bijection, Injection, IsInjective
<1>4. \A x \in high : x \in S /\ rank[x] >= r
  OBVIOUS
<1> HIDE DEF rank, m
<1>5. pick \in [high -> r..(m - 1)] /\ \A x, y \in high : pick[x] = pick[y] => x = y
  BY <1>1, <1>3, <1>4
<1> HIDE DEF pick
<1>6. pick \in Injection(high, r..(m - 1))
  BY <1>5 DEF Injection, IsInjective
<1>7. IsFiniteSet(r..(m - 1)) /\ Cardinality(r..(m - 1)) = IF r > m - 1 THEN 0 ELSE m - r
  BY <1>1, FS_Interval
<1> HIDE DEF high
<1>8. IsFiniteSet(high) /\ Cardinality(high) <= Cardinality(r..(m - 1))
  BY <1>6, <1>7, FS_Injection
<1>9. high # {} => r <= m - 1
  BY <1>1, <1>5
<1>10. Cardinality(high) \in Nat
  BY <1>8, FS_CardinalityType
<1> QED BY <1>1, <1>7, <1>8, <1>9, <1>10 DEF high, m

(* A set that injects into a finite one is no larger. *)
LEMMA Injects ==
    ASSUME NEW S, NEW T, IsFiniteSet(T), NEW f \in [S -> T],
           \A x, y \in S : f[x] = f[y] => x = y
    PROVE  /\ IsFiniteSet(S)
           /\ Cardinality(S) <= Cardinality(T)
           /\ Cardinality(S) \in Nat /\ Cardinality(T) \in Nat
<1>1. f \in Injection(S, T)
  BY DEF Injection, IsInjective
<1> QED BY <1>1, FS_Injection, FS_CardinalityType

(* Rows that have ids of their own, each the id of a row of a finite set,  *)
(* are no more than that set's.                                            *)
LEMMA FewerNames ==
    ASSUME NEW S, NEW T, IsFiniteSet(T), \A u \in S : \E v \in T : v.id = u.id,
           \A u, w \in S : u.id = w.id => u = w
    PROVE  /\ IsFiniteSet(S)
           /\ Cardinality(S) <= Cardinality(T)
           /\ Cardinality(S) \in Nat /\ Cardinality(T) \in Nat
<1> DEFINE was == [u \in S |-> CHOOSE v \in T : v.id = u.id]
<1>1. \A u \in S : was[u] \in T /\ was[u].id = u.id
  OBVIOUS
<1> HIDE DEF was
<1>2. was \in [S -> T]
  BY <1>1 DEF was
<1>3. \A u, w \in S : was[u] = was[w] => u = w
  BY <1>1
<1> QED BY <1>2, <1>3, Injects

-----------------------------------------------------------------------------
(* What is kept of the rows of a session and of the books.                 *)

(* Rows of the books are told apart by their id, and the next id is free.  *)
IdsFresh ==
    /\ IsFiniteSet(money)
    /\ \A t \in money : t.id < nextId
    /\ \A t, u \in money : t.id = u.id => t = u

(* A row that is included as it was read has its key from the file, and no *)
(* row of the books was left for it to claim when it was staged.           *)
AsRead(r) == r.resolution = "include" /\ ~r.forced
StagedFromFile ==
    \A s \in Sids : \A i \in DOMAIN staged[s] :
        /\ i \in DOMAIN RowsOf[fileOf[s]]
        /\ AsRead(staged[s][i]) => /\ staged[s][i].key = RowsOf[fileOf[s]][i]
                                   /\ Claim(RowsOf[fileOf[s]], i, basis[s]) = {}

(* No two rows of a session are linked to the same row of the books. *)
OneClaimEach ==
    \A s \in Sids : \A i, j \in DOMAIN staged[s] :
        /\ staged[s][i].resolution = "duplicate" /\ staged[s][j].resolution = "duplicate"
        /\ staged[s][i].ref = staged[s][j].ref
        => i = j

NothingStagedYet == \A s \in Sids : status[s] = "absent" => staged[s] = << >>

(* Only bank rows are held by hand, and a row is of its import's kind.     *)
KindsKept ==
    \A t \in money : /\ t.held => t.kind = "bank"
                     /\ t.import # None => t.kind = RowKind[Kind(t.import)]

(* The screen shows a version the session has or had, with its rows.       *)
ScreenBehind ==
    screen # Blank => /\ screen.version <= version[screen.s]
                      /\ screen.version = version[screen.s] => screen.rows = staged[screen.s]

-----------------------------------------------------------------------------
(* Staging pairs the rows of a file with the rows of the books.            *)

Copies(rows, k) == {i \in DOMAIN rows : rows[i] = k}
Earlier(rows, i) == {j \in 1..(i - 1) : rows[j] = rows[i]}

(* How many equal rows stand before row i is its rank among them. *)
LEMMA EarlierIsRank ==
    ASSUME NEW rows \in Seq(Keys), NEW k, NEW i \in Copies(rows, k)
    PROVE  /\ IsFiniteSet(Copies(rows, k))
           /\ [j \in Copies(rows, k) |-> j] \in [Copies(rows, k) -> Nat]
           /\ Cardinality(Earlier(rows, i)) = RankIn(Copies(rows, k), [j \in Copies(rows, k) |-> j], i)
           /\ Cardinality(Earlier(rows, i)) \in Nat
<1> DEFINE E == Copies(rows, k)
           g == [j \in E |-> j]
<1>1. DOMAIN rows = 1..Len(rows) /\ Len(rows) \in Nat
  OBVIOUS
<1>2. E \in SUBSET (1..Len(rows)) /\ i \in 1..Len(rows) /\ rows[i] = k
  BY <1>1 DEF Copies
<1>3. IsFiniteSet(1..Len(rows))
  BY <1>1, FS_Interval
<1>4. IsFiniteSet(E)
  BY <1>2, <1>3, FS_Subset
<1>5. Earlier(rows, i) = {j \in E : g[j] < g[i]}
  BY <1>1, <1>2 DEF Copies, Earlier
<1>6. Cardinality(Earlier(rows, i)) = RankIn(E, g, i)
  BY <1>5 DEF RankIn
<1>7. g \in [E -> Nat]
  BY <1>2
<1>8. Earlier(rows, i) \in SUBSET E
  BY <1>5
<1>9. Cardinality(Earlier(rows, i)) \in Nat
  BY <1>4, <1>8, FS_Subset, FS_CardinalityType
<1> QED BY <1>4, <1>6, <1>7, <1>9

(* The candidates of a row, in the order of their ids. *)
LEMMA ClaimIsRank ==
    ASSUME NEW rows \in Seq(Keys), NEW i \in DOMAIN rows,
           NEW found \in SUBSET Money, IsFiniteSet(found),
           \A t, u \in found : t.id = u.id => t = u
    PROVE  LET M == Matching(rows[i], found)
               h == [t \in M |-> t.id] IN
           /\ IsFiniteSet(M)
           /\ h \in [M -> Nat] /\ \A t, u \in M : h[t] = h[u] => t = u
           /\ Claim(rows, i, found) = {t \in M : RankIn(M, h, t) = Cardinality(Earlier(rows, i))}
<1> DEFINE M == Matching(rows[i], found)
           h == [t \in M |-> t.id]
<1>1. M \in SUBSET found
  BY DEF Matching
<1>2. IsFiniteSet(M)
  BY <1>1, FS_Subset
<1>3. \A t \in M : t.id \in Nat /\ h[t] = t.id
  BY <1>1 DEF Money
<1>4. \A t \in M : {u \in M : u.id < t.id} = {u \in M : h[u] < h[t]}
  BY <1>3
<1>5. Claim(rows, i, found) = {t \in M : RankIn(M, h, t) = Cardinality(Earlier(rows, i))}
  <2> HIDE DEF M, h
  <2>1. Claim(rows, i, found)
          = {t \in M : Cardinality({u \in M : u.id < t.id}) = Cardinality(Earlier(rows, i))}
    BY DEF Claim, Earlier, M
  <2> QED BY <1>4, <2>1 DEF RankIn
<1> QED BY <1>1, <1>2, <1>3, <1>5

(* A row with nothing left to claim has as many equal rows before it as    *)
(* there are rows to claim.                                                *)
LEMMA NothingToClaim ==
    ASSUME NEW rows \in Seq(Keys), NEW i \in DOMAIN rows,
           NEW found \in SUBSET Money, IsFiniteSet(found),
           \A t, u \in found : t.id = u.id => t = u,
           Claim(rows, i, found) = {}
    PROVE  /\ Cardinality(Matching(rows[i], found)) \in Nat
           /\ Cardinality(Earlier(rows, i)) >= Cardinality(Matching(rows[i], found))
<1> DEFINE M == Matching(rows[i], found)
           h == [t \in M |-> t.id]
           rank == [t \in M |-> RankIn(M, h, t)]
           m == Cardinality(M)
           r == Cardinality(Earlier(rows, i))
<1>1. /\ IsFiniteSet(M)
      /\ h \in [M -> Nat] /\ \A t, u \in M : h[t] = h[u] => t = u
      /\ Claim(rows, i, found) = {t \in M : RankIn(M, h, t) = r}
  BY ClaimIsRank
<1>2. i \in Copies(rows, rows[i])
  BY DEF Copies
<1>3. r \in Nat
  BY <1>2, EarlierIsRank
<1> HIDE DEF M, h, r
<1>4. m \in Nat
  BY <1>1, FS_CardinalityType
<1>5. rank \in Bijection(M, 0..(m - 1))
  BY <1>1, RanksFill
<1>6. \A n \in 0..(m - 1) : \E t \in M : rank[t] = n
  BY <1>5 DEF Bijection, Surjection
<1>7. ASSUME r < m PROVE FALSE
  <2>1. r \in 0..(m - 1)
    BY <1>3, <1>4, <1>7
  <2>2. PICK t \in M : rank[t] = r
    BY <1>6, <2>1
  <2> QED BY <1>1, <2>2
<1> QED BY <1>3, <1>4, <1>7 DEF M, r

(* Two rows of a file never claim the same row. *)
LEMMA ClaimsApart ==
    ASSUME NEW rows \in Seq(Keys), NEW i \in DOMAIN rows, NEW j \in DOMAIN rows,
           NEW found \in SUBSET Money, IsFiniteSet(found),
           \A t, u \in found : t.id = u.id => t = u,
           NEW t \in Claim(rows, i, found), NEW u \in Claim(rows, j, found), t.id = u.id
    PROVE  i = j
<1>1. t \in found /\ u \in found /\ t.key = rows[i] /\ u.key = rows[j]
  BY DEF Claim, Matching
<1>2. t = u /\ rows[i] = rows[j]
  BY <1>1
<1> DEFINE E == Copies(rows, rows[i])
           g == [l \in E |-> l]
           rank == [l \in E |-> RankIn(E, g, l)]
<1>3. i \in E /\ j \in E
  BY <1>2 DEF Copies
<1>4. Cardinality(Earlier(rows, i)) = Cardinality(Earlier(rows, j))
  <2>1. /\ Cardinality({v \in Matching(rows[i], found) : v.id < t.id}) = Cardinality(Earlier(rows, i))
        /\ Cardinality({v \in Matching(rows[j], found) : v.id < u.id}) = Cardinality(Earlier(rows, j))
    BY DEF Claim, Earlier
  <2> QED BY <1>2, <2>1
<1>5. /\ IsFiniteSet(E) /\ g \in [E -> Nat]
      /\ RankIn(E, g, i) = Cardinality(Earlier(rows, i))
      /\ RankIn(E, g, j) = Cardinality(Earlier(rows, j))
  BY <1>3, EarlierIsRank
<1>6. \A x, y \in E : g[x] = g[y] => x = y
  OBVIOUS
<1> HIDE DEF E, g
<1>7. rank \in Bijection(E, 0..(Cardinality(E) - 1))
  BY <1>5, <1>6, RanksFill
<1>8. \A x, y \in E : rank[x] = rank[y] => x = y
  BY <1>7 DEF Bijection, Injection, IsInjective
<1> QED BY <1>3, <1>4, <1>5, <1>8


(* What the rows of the sessions and of the books keep in every step. *)
RowInv ==
    IdsFresh /\ StagedFromFile /\ OneClaimEach /\ NothingStagedYet /\ KindsKept /\ ScreenBehind

(* What staging makes of the rows of a file. *)
LEMMA StagedRows ==
    ASSUME NEW kind \in Kinds, NEW f \in Files, NEW found \in SUBSET Money, IsFiniteSet(found),
           \A t, u \in found : t.id = u.id => t = u
    PROVE  LET rows == RowsOf[f]  st == Staged(kind, rows, found) IN
           /\ DOMAIN st = DOMAIN rows
           /\ \A i \in DOMAIN rows : AsRead(st[i]) => st[i].key = rows[i] /\ Claim(rows, i, found) = {}
           /\ \A i, j \in DOMAIN rows :
                 /\ st[i].resolution = "duplicate" /\ st[j].resolution = "duplicate"
                 /\ st[i].ref = st[j].ref
                 => i = j
<1> DEFINE rows == RowsOf[f]
           st == Staged(kind, rows, found)
           some(i) == CHOOSE t \in Claim(rows, i, found) : TRUE
<1>1. rows \in Seq(Keys)
  BY FilesAssumption
<1>2. DOMAIN st = DOMAIN rows
  BY DEF Staged
<1>3. ASSUME NEW i \in DOMAIN rows
      PROVE  /\ st[i].key = rows[i]
             /\ st[i].resolution = "include" => Claim(rows, i, found) = {}
             /\ st[i].resolution = "duplicate" =>
                   some(i) \in Claim(rows, i, found) /\ st[i].ref = some(i).id
  <2> DEFINE c == Claim(rows, i, found)
  <2>1. st[i] = [key |-> rows[i],
                 resolution |-> IF c = {} THEN "include" ELSE IF kind = "bank" THEN "duplicate" ELSE "review",
                 ref |-> IF c # {} /\ kind = "bank" THEN some(i).id ELSE 0,
                 forced |-> FALSE]
    BY DEF Staged
  <2>2. c # {} => some(i) \in c
    OBVIOUS
  <2> HIDE DEF c, st, some
  <2> QED BY <2>1, <2>2 DEF c
<1> HIDE DEF rows, st, some
<1>4. ASSUME NEW i \in DOMAIN rows, NEW j \in DOMAIN rows,
             st[i].resolution = "duplicate", st[j].resolution = "duplicate", st[i].ref = st[j].ref
      PROVE  i = j
  <2>1. some(i) \in Claim(rows, i, found) /\ some(j) \in Claim(rows, j, found) /\ some(i).id = some(j).id
    BY <1>3, <1>4
  <2> QED BY <1>1, <2>1, ClaimsApart
<1>5. \A i \in DOMAIN rows : AsRead(st[i]) => st[i].key = rows[i] /\ Claim(rows, i, found) = {}
  BY <1>3 DEF AsRead
<1> QED BY <1>2, <1>4, <1>5 DEF rows, st

(* Rows that keep the ids of rows that were there are as few and as fresh. *)
LEMMA SameIds ==
    ASSUME TypeOK, IdsFresh, NEW S, \A u \in S : \E v \in money : v.id = u.id,
           \A u, w \in S : u.id = w.id => u = w
    PROVE  IsFiniteSet(S) /\ \A t \in S : t.id < nextId
<1>1. IsFiniteSet(S)
  BY FewerNames DEF IdsFresh
<1>2. \A t \in S : t.id < nextId
  BY DEF IdsFresh
<1> QED BY <1>1, <1>2

(* The row a commit adds for the staged row i. *)
NewRow(s, i) ==
    [id |-> nextId + Cardinality({j \in Included(s) : j < i}),
     kind |-> RowKind[Kind(s)],
     key |-> staged[s][i].key,
     target |-> target[s],
     import |-> IF Kind(s) = "expense_sheet" THEN None ELSE s,
     held |-> FALSE,
     sure |-> ~staged[s][i].forced]

(* A commit gives its rows ids of their own, the next ones. *)
LEMMA NewRows ==
    ASSUME TypeOK, NEW s \in Sids, fileOf[s] \in Files
    PROVE  /\ Added(s) = {NewRow(s, i) : i \in Included(s)}
           /\ IsFiniteSet(Included(s)) /\ IsFiniteSet(Added(s))
           /\ Cardinality(Included(s)) \in Nat
           /\ \A i \in Included(s) : NewRow(s, i).id \in nextId..(nextId + Cardinality(Included(s)) - 1)
           /\ \A i, j \in Included(s) : NewRow(s, i).id = NewRow(s, j).id => i = j
<1> DEFINE I == Included(s)
           g == [i \in I |-> i]
           rank == [i \in I |-> RankIn(I, g, i)]
<1>1. staged[s] \in Seq(Row) /\ DOMAIN staged[s] = 1..Len(staged[s]) /\ Len(staged[s]) \in Nat
  BY DEF TypeOK
<1>2. I \in SUBSET (1..Len(staged[s]))
  BY <1>1 DEF Included
<1>3. IsFiniteSet(I)
  <2>1. IsFiniteSet(1..Len(staged[s]))
    BY <1>1, FS_Interval
  <2> QED BY <1>2, <2>1, FS_Subset
<1>4. Cardinality(I) \in Nat
  BY <1>3, FS_CardinalityType
<1>5. g \in [I -> Nat] /\ \A i, j \in I : g[i] = g[j] => i = j
  BY <1>2
<1>6. \A i \in I : {j \in I : j < i} = {j \in I : g[j] < g[i]}
  OBVIOUS
<1> HIDE DEF I, g
<1>7. rank \in Bijection(I, 0..(Cardinality(I) - 1))
  BY <1>3, <1>5, RanksFill
<1>8. rank \in [I -> 0..(Cardinality(I) - 1)] /\ \A i, j \in I : rank[i] = rank[j] => i = j
  BY <1>7 DEF Bijection, Injection, IsInjective
<1>9. \A i \in I : NewRow(s, i).id = nextId + rank[i]
  BY <1>6 DEF NewRow, RankIn, I
<1>10. nextId \in Nat
  BY DEF TypeOK
<1> HIDE DEF rank
<1>11. \A i \in I : NewRow(s, i).id \in nextId..(nextId + Cardinality(I) - 1)
  BY <1>4, <1>8, <1>9, <1>10
<1>12. \A i, j \in I : NewRow(s, i).id = NewRow(s, j).id => i = j
  BY <1>4, <1>8, <1>9, <1>10
<1>13. Added(s) = {NewRow(s, i) : i \in I}
  BY Zenon DEF Added, NewRow, I
<1>14. IsFiniteSet(Added(s))
  <2> DEFINE from == [t \in Added(s) |-> CHOOSE i \in I : t = NewRow(s, i)]
  <2>1. \A t \in Added(s) : from[t] \in I /\ t = NewRow(s, from[t])
    BY <1>13
  <2> HIDE DEF from
  <2>2. \A t, u \in Added(s) : from[t] = from[u] => t = u
    BY <2>1
  <2>3. from \in [Added(s) -> I]
    BY <2>1 DEF from
  <2> QED BY <1>3, <2>2, <2>3, Injects
<1> QED BY <1>3, <1>4, <1>11, <1>12, <1>13, <1>14 DEF I

(* A screen stays behind while versions only grow, and grow with the rows. *)
LEMMA VersionsGrow ==
    ASSUME TypeOK, ScreenBehind, UNCHANGED screen,
           \A s \in Sids : /\ version'[s] \in Nat
                           /\ version'[s] >= version[s]
                           /\ staged'[s] # staged[s] => version'[s] > version[s]
    PROVE  ScreenBehind'
<1>1. screen # Blank => screen.s \in Sids /\ screen.version \in Nat /\ version[screen.s] \in Nat
  BY DEF TypeOK
<1> QED BY <1>1 DEF ScreenBehind

(* The rows left when an import is undone keep their ids and what they are; *)
(* those of the import were held by hand.                                   *)
LEMMA KeptRows ==
    ASSUME TypeOK, NEW i \in Sids, NEW u \in WithoutRowsOf(i)
    PROVE  \E v \in money : /\ u.id = v.id /\ u.kind = v.kind /\ u.key = v.key /\ u.target = v.target
                            /\ u.held = v.held /\ u.sure = v.sure
                            /\ u.import = IF v.import = i THEN None ELSE v.import
                            /\ u = IF v.import = i THEN [v EXCEPT !.import = None] ELSE v
                            /\ v.import = i => v.held
<1>1. CASE u \in money /\ u.import # i
  BY <1>1
<1>2. CASE \E v \in {w \in money : w.import = i /\ w.held} : u = [v EXCEPT !.import = None]
  <2>1. PICK v \in money : v.import = i /\ v.held /\ u = [v EXCEPT !.import = None]
    BY <1>2
  <2>2. v \in Money
    BY DEF TypeOK
  <2>3. /\ u.id = v.id /\ u.kind = v.kind /\ u.key = v.key /\ u.target = v.target
        /\ u.held = v.held /\ u.sure = v.sure /\ u.import = None
    BY <2>1, <2>2 DEF Money
  <2> QED BY <2>1, <2>3
<1> QED BY <1>1, <1>2 DEF WithoutRowsOf

LEMMA InitRowInv == Init => RowInv
BY FS_EmptySet DEF Init, RowInv, IdsFresh, StagedFromFile, OneClaimEach, NothingStagedYet, KindsKept,
       ScreenBehind, Blank

(* Every step keeps the rows, their ids and the screen in order. *)
LEMMA NextRowInv == TypeOK /\ BookInv /\ RowInv /\ [Next]_vars => RowInv'
<1> SUFFICES ASSUME TypeOK, BookInv, RowInv, [Next]_vars PROVE RowInv'
  OBVIOUS
<1> USE DEF sessionVars, bookVars, Free
<1>t. TypeOK'
  BY NextTypeOK
<1>a. ASSUME UNCHANGED <<money, fileOf>> PROVE KindsKept'
  BY <1>a DEF RowInv, KindsKept, Kind
<1>b. ASSUME UNCHANGED <<money, nextId>> PROVE IdsFresh'
  BY <1>b DEF RowInv, IdsFresh
<1>c. ASSUME UNCHANGED <<staged, fileOf, basis>> PROVE StagedFromFile' /\ OneClaimEach'
  BY <1>c DEF RowInv, StagedFromFile, OneClaimEach, AsRead, Claim, Matching
<1>d. ASSUME UNCHANGED <<staged>>, \A s \in Sids : status[s] # "absent" => status'[s] # "absent"
      PROVE  NothingStagedYet'
  BY <1>d DEF RowInv, NothingStagedYet
<1>e. ASSUME UNCHANGED <<screen, staged>>, \A s \in Sids : version'[s] \in {version[s], version[s] + 1}
      PROVE  ScreenBehind'
  <2>1. \A s \in Sids : version[s] \in Nat
    BY DEF TypeOK
  <2>2. \A s \in Sids : /\ version'[s] \in Nat /\ version'[s] >= version[s]
                        /\ staged'[s] # staged[s] => version'[s] > version[s]
    BY <1>e, <2>1
  <2> QED BY <1>e, <2>2, VersionsGrow DEF RowInv
<1>1. CASE UNCHANGED vars
  BY <1>1, <1>a, <1>b, <1>c, <1>d, <1>e DEF vars, RowInv
<1>2. ASSUME NEW f \in Files, Upload(f) PROVE RowInv'
  <2>1. UNCHANGED <<money, nextId, staged, basis, screen, version>>
    BY <1>2 DEF Upload
  <2>2. \/ UNCHANGED <<status, fileOf>>
        \/ \E s \in Sids : /\ status[s] = "absent"
                           /\ status' = [status EXCEPT ![s] = "uploaded"]
                           /\ fileOf' = [fileOf EXCEPT ![s] = f]
    BY <1>2 DEF Upload
  <2>3. IdsFresh' /\ ScreenBehind' /\ NothingStagedYet'
    BY <1>b, <1>d, <1>e, <2>1, <2>2 DEF TypeOK
  <2>4. CASE UNCHANGED <<status, fileOf>>
    BY <1>a, <1>c, <2>1, <2>3, <2>4 DEF RowInv
  <2>5. ASSUME NEW s \in Sids, status[s] = "absent", fileOf' = [fileOf EXCEPT ![s] = f]
        PROVE  RowInv'
    <3>1. staged[s] = << >> /\ \A r \in Sids \ {s} : fileOf'[r] = fileOf[r]
      BY <2>5 DEF RowInv, NothingStagedYet, TypeOK
    <3>2. OneClaimEach'
      BY <2>1 DEF RowInv, OneClaimEach
    <3>3. StagedFromFile'
      BY <2>1, <3>1 DEF RowInv, StagedFromFile, AsRead, Claim, Matching
    <3>4. \A t \in money : t.import # None => t.import \in Sids \ {s}
      BY <2>5 DEF BookInv, RowsNameImports, ImportsBooked, Booked, TypeOK
    <3>5. KindsKept'
      BY <2>1, <3>1, <3>4 DEF RowInv, KindsKept, Kind
    <3> QED BY <2>3, <3>2, <3>3, <3>5 DEF RowInv
  <2> QED BY <2>2, <2>4, <2>5
<1>3. ASSUME NEW s \in Sids, status[s] # "absent", SessionStep(s) PROVE RowInv'
  <2> USE <1>3
  <2>1. CASE \/ \E a \in Answers(s) : ProcessUpload(s, a) \/ Answer(s, a)
             \/ BeginCommit(s) \/ ConfirmReport(s)
    <3>1. UNCHANGED <<money, nextId, staged, basis, screen, version, status, fileOf>>
      BY <2>1 DEF ProcessUpload, Answer, BeginCommit, ConfirmReport
    <3> QED BY <1>a, <1>b, <1>c, <1>d, <1>e, <3>1 DEF RowInv
  <2>2. ASSUME NEW i \in DOMAIN staged[s], NEW k \in Keys, NEW dup \in BOOLEAN, Decide(s, i, k, dup)
        PROVE  RowInv'
    <3>1. UNCHANGED <<money, nextId, basis, screen, status, fileOf>>
      BY <2>2 DEF Decide
    <3>2. PICK ref \in {0} \cup {t.id : t \in Matching(k, basis[s])} :
             /\ dup => ~OtherClaims(s, i, ref)
             /\ staged' = [staged EXCEPT ![s][i] =
                   [key |-> k, resolution |-> IF dup THEN "duplicate" ELSE "include",
                    ref |-> IF dup THEN ref ELSE @.ref,
                    forced |-> ~dup /\ (@.forced \/ @.resolution # "include" \/ @.key # k)]]
      BY <2>2 DEF Decide
    <3> DEFINE new == [key |-> k, resolution |-> IF dup THEN "duplicate" ELSE "include",
                       ref |-> IF dup THEN ref ELSE staged[s][i].ref,
                       forced |-> ~dup /\ (staged[s][i].forced \/ staged[s][i].resolution # "include"
                                                               \/ staged[s][i].key # k)]
    <3>3. staged' = [staged EXCEPT ![s] = [staged[s] EXCEPT ![i] = new]]
      BY <3>2 DEF TypeOK
    <3>4. /\ \A r \in Sids \ {s} : staged'[r] = staged[r]
          /\ DOMAIN staged'[s] = DOMAIN staged[s]
          /\ staged'[s][i] = new
          /\ \A j \in DOMAIN staged[s] : j # i => staged'[s][j] = staged[s][j]
      BY <3>3 DEF TypeOK
    <3>5. AsRead(new) => AsRead(staged[s][i]) /\ staged[s][i].key = new.key
      BY DEF AsRead
    <3>6. /\ new.resolution = "duplicate" => ~OtherClaims(s, i, new.ref)
          /\ new.resolution = "duplicate" \/ new.resolution = "include"
      BY <3>2
    <3> HIDE DEF new
    <3>7. StagedFromFile'
      BY <3>1, <3>4, <3>5 DEF RowInv, StagedFromFile, Claim, Matching, AsRead
    <3>8. OneClaimEach'
      BY <3>4, <3>6 DEF RowInv, OneClaimEach, OtherClaims
    <3>9. NothingStagedYet'
      BY <3>1, <3>4 DEF RowInv, NothingStagedYet
    <3>10. \A r \in Sids : /\ version'[r] \in Nat /\ version'[r] >= version[r]
                           /\ staged'[r] # staged[r] => version'[r] > version[r]
      BY <2>2, <3>4 DEF Decide, TypeOK
    <3>11. ScreenBehind'
      BY <3>1, <3>10, VersionsGrow DEF RowInv
    <3> QED BY <1>a, <1>b, <3>1, <3>7, <3>8, <3>9, <3>11 DEF RowInv
  <2>3. CASE View(s)
    <3>1. /\ UNCHANGED <<money, nextId, staged, basis, version, status, fileOf>>
          /\ screen' = [s |-> s, version |-> version[s], rows |-> staged[s]]
      BY <2>3 DEF View
    <3>2. ScreenBehind'
      BY <3>1 DEF ScreenBehind, TypeOK
    <3> QED BY <1>a, <1>b, <1>c, <1>d, <3>1, <3>2 DEF RowInv
  <2>4. CASE Finish(s) \/ Cancel(s) \/ CancelBySync(s)
    <3>1. /\ UNCHANGED <<money, nextId, staged, basis, screen, fileOf>>
          /\ version' = [version EXCEPT ![s] = @ + 1]
          /\ \A r \in Sids : status[r] # "absent" => status'[r] # "absent"
      BY <2>4 DEF Finish, Cancel, CancelBySync, CancelSession, TypeOK
    <3>2. ScreenBehind'
      BY <1>e, <3>1 DEF TypeOK
    <3> QED BY <1>a, <1>b, <1>c, <1>d, <3>1, <3>2 DEF RowInv
  <2>5. CASE Rollback(s) \/ RemoveReport(s)
    <3> DEFINE i == IF Rollback(s) THEN link[s] ELSE s
    <3>1. UNCHANGED <<nextId, staged, basis, screen, fileOf>> /\ Invalidate(i)
      BY <2>5 DEF Rollback, RemoveReport
    <3>2. money' = WithoutRowsOf(i) \/ money' \subseteq money
      BY <2>5 DEF Rollback, RemoveReport
    <3>i. i \in Sids
      BY <2>5 DEF Rollback, CanRollback, TypeOK
    <3> HIDE DEF i
    <3>3. \A u \in money' : \E v \in money : /\ u.id = v.id /\ u.kind = v.kind /\ u.held = v.held
                                             /\ u.import \in {v.import, None}
      BY <3>2, <3>i, KeptRows
    <3>4. \A u, w \in money' : u.id = w.id => u = w
      <4>1. CASE money' \subseteq money
        BY <4>1 DEF RowInv, IdsFresh
      <4>2. CASE money' = WithoutRowsOf(i)
        <5>1. ASSUME NEW u \in WithoutRowsOf(i), NEW w \in WithoutRowsOf(i), u.id = w.id PROVE u = w
          <6>1. PICK v \in money : v.id = u.id /\ u = IF v.import = i THEN [v EXCEPT !.import = None] ELSE v
            BY <3>i, KeptRows
          <6>2. PICK x \in money : x.id = w.id /\ w = IF x.import = i THEN [x EXCEPT !.import = None] ELSE x
            BY <3>i, KeptRows
          <6>3. v = x
            BY <5>1, <6>1, <6>2 DEF RowInv, IdsFresh
          <6> QED BY <6>1, <6>2, <6>3
        <5> QED BY <4>2, <5>1
      <4> QED BY <3>2, <4>1, <4>2
    <3>5. IdsFresh'
      <4>1. \A u \in money' : \E v \in money : v.id = u.id
        BY <3>3
      <4>2. IsFiniteSet(money') /\ \A t \in money' : t.id < nextId
        BY <3>4, <4>1, SameIds DEF RowInv
      <4> QED BY <3>1, <3>4, <4>2 DEF IdsFresh
    <3>6. KindsKept'
      BY <3>1, <3>3 DEF RowInv, KindsKept, Kind
    <3>7. ScreenBehind' /\ NothingStagedYet'
      BY <1>d, <1>e, <3>1 DEF Invalidate
    <3> QED BY <1>c, <3>1, <3>5, <3>6, <3>7 DEF RowInv
  <2> QED BY <2>1, <2>2, <2>3, <2>4, <2>5 DEF SessionStep
<1>4. CASE ProcessSession
  <2>0. tx.s \in Sids /\ status[tx.s] # "absent"
    BY <1>4 DEF ProcessSession, TypeOK, NoTx, Tx
  <2>1. PICK s \in Sids : s = tx.s /\ status[s] # "absent"
    BY <2>0
  <2> DEFINE found == Candidates(Kind(s), tx.answer)
             st == Staged(Kind(s), RowsOf[fileOf[s]], found)
  <2>2. /\ UNCHANGED <<money, nextId, screen, fileOf>>
        /\ staged' = [staged EXCEPT ![s] = st]
        /\ basis' = [basis EXCEPT ![s] = found]
        /\ version' = [version EXCEPT ![s] = @ + 1]
        /\ \A r \in Sids \ {s} : status'[r] = status[r]
        /\ status'[s] # "absent"
    BY <1>4, <2>1 DEF ProcessSession, TypeOK
  <2>3. fileOf[s] \in Files /\ Kind(s) \in Kinds
    BY <2>1, FilesAssumption DEF TypeOK, Kind
  <2>4. found \in SUBSET money /\ found \in SUBSET Money
    BY DEF Candidates, TypeOK
  <2>5. IsFiniteSet(found) /\ \A t, u \in found : t.id = u.id => t = u
    BY <2>4, FS_Subset DEF RowInv, IdsFresh
  <2> HIDE DEF found
  <2>6. /\ DOMAIN st = DOMAIN RowsOf[fileOf[s]]
        /\ \A i \in DOMAIN st : AsRead(st[i]) => /\ st[i].key = RowsOf[fileOf[s]][i]
                                                 /\ Claim(RowsOf[fileOf[s]], i, found) = {}
        /\ \A i, j \in DOMAIN st : /\ st[i].resolution = "duplicate" /\ st[j].resolution = "duplicate"
                                   /\ st[i].ref = st[j].ref
                                   => i = j
    BY <2>3, <2>4, <2>5, StagedRows
  <2> HIDE DEF st
  <2>7. /\ \A r \in Sids \ {s} : staged'[r] = staged[r] /\ basis'[r] = basis[r]
        /\ staged'[s] = st /\ basis'[s] = found
    BY <2>2 DEF TypeOK
  <2>8. StagedFromFile'
    BY <2>2, <2>6, <2>7 DEF RowInv, StagedFromFile, Claim, Matching, AsRead
  <2>9. OneClaimEach'
    BY <2>6, <2>7 DEF RowInv, OneClaimEach
  <2>10. NothingStagedYet'
    BY <2>2, <2>7 DEF RowInv, NothingStagedYet
  <2>11. \A r \in Sids : /\ version'[r] \in Nat /\ version'[r] >= version[r]
                         /\ staged'[r] # staged[r] => version'[r] > version[r]
    BY <2>2, <2>7 DEF TypeOK
  <2>12. ScreenBehind'
    BY <2>2, <2>11, VersionsGrow DEF RowInv
  <2> QED BY <1>a, <1>b, <2>2, <2>8, <2>9, <2>10, <2>12 DEF RowInv
<1>5. CASE ProcessFails
  <2>1. /\ UNCHANGED <<money, nextId, staged, basis, screen, fileOf>>
        /\ version' = [version EXCEPT ![tx.s] = @ + 1]
        /\ \A r \in Sids : status[r] # "absent" => status'[r] # "absent"
    BY <1>5 DEF ProcessFails, TypeOK
  <2>2. ScreenBehind'
    BY <1>e, <2>1 DEF TypeOK
  <2> QED BY <1>a, <1>b, <1>c, <1>d, <2>1, <2>2 DEF RowInv
<1>6. CASE CommitStatement \/ CommitReport \/ CommitSheet
  <2>0. tx.s \in Sids /\ fileOf[tx.s] \in Files /\ AddRows(tx.s) /\ Book(tx.s)
    BY <1>6 DEF CommitStatement, CommitReport, CommitSheet, TypeOK, NoTx, Tx
  <2>1. PICK s \in Sids : s = tx.s /\ fileOf[s] \in Files /\ AddRows(s) /\ Book(s)
    BY <2>0
  <2> DEFINE n == Cardinality(Included(s))
  <2>2. /\ UNCHANGED <<staged, basis, screen, fileOf>>
        /\ version' = [version EXCEPT ![s] = @ + 1]
        /\ \A r \in Sids : status[r] # "absent" => status'[r] # "absent"
        /\ money' = money \cup Added(s) /\ nextId' = nextId + n
    BY <2>1 DEF Book, AddRows, TypeOK
  <2>3. /\ Added(s) = {NewRow(s, i) : i \in Included(s)}
        /\ IsFiniteSet(Added(s)) /\ n \in Nat
        /\ \A i \in Included(s) : NewRow(s, i).id \in nextId..(nextId + n - 1)
        /\ \A i, j \in Included(s) : NewRow(s, i).id = NewRow(s, j).id => i = j
    BY <2>1, NewRows
  <2> HIDE DEF n
  <2>4. nextId \in Nat /\ \A t \in money : t.id \in Nat
    BY DEF TypeOK, Money
  <2>5. IdsFresh'
    <3>1. IsFiniteSet(money')
      BY <2>2, <2>3, FS_Union DEF RowInv, IdsFresh
    <3>2. \A t \in Added(s) : t.id \in nextId..(nextId + n - 1)
      BY <2>3
    <3>3. \A t \in money' : t.id < nextId'
      BY <2>2, <2>3, <2>4, <3>2 DEF RowInv, IdsFresh
    <3>4. \A t, u \in Added(s) : t.id = u.id => t = u
      BY <2>3
    <3>5. \A t \in money, u \in Added(s) : t.id # u.id
      BY <2>3, <2>4, <3>2 DEF RowInv, IdsFresh
    <3>6. \A t, u \in money' : t.id = u.id => t = u
      BY <2>2, <3>4, <3>5 DEF RowInv, IdsFresh
    <3> QED BY <3>1, <3>3, <3>6 DEF IdsFresh
  <2>6. KindsKept'
    <3>1. \A i \in Included(s) : /\ NewRow(s, i).held = FALSE /\ NewRow(s, i).kind = RowKind[Kind(s)]
                                 /\ NewRow(s, i).import \in {None, s}
      BY DEF NewRow
    <3>2. \A t \in Added(s) : t.held = FALSE /\ t.kind = RowKind[Kind(s)] /\ t.import \in {None, s}
      BY <2>3, <3>1
    <3> QED BY <2>2, <3>2 DEF RowInv, KindsKept, Kind
  <2>7. ScreenBehind'
    BY <1>e, <2>2 DEF TypeOK
  <2> QED BY <1>c, <1>d, <2>2, <2>5, <2>6, <2>7 DEF RowInv
<1>7. CASE Abort \/ Crash
  <2>1. UNCHANGED <<money, nextId, staged, basis, screen, version, status, fileOf>>
    BY <1>7 DEF Abort, Crash
  <2> QED BY <1>a, <1>b, <1>c, <1>d, <1>e, <2>1 DEF RowInv
<1>8. ASSUME UNCHANGED <<staged, basis, screen, version, status, fileOf, nextId>>,
             \A u \in money' : \E v \in money : /\ u.id = v.id /\ u.kind = v.kind /\ u.import = v.import
                                                /\ u.held => v.held \/ v.kind = "bank",
             \A u, w \in money' : u.id = w.id => u = w
      PROVE  RowInv'
  <2>1. IsFiniteSet(money') /\ \A t \in money' : t.id < nextId
    BY <1>8, SameIds DEF RowInv
  <2>2. IdsFresh'
    BY <1>8, <2>1 DEF IdsFresh
  <2>3. KindsKept'
    BY <1>8 DEF RowInv, KindsKept, Kind
  <2> QED BY <1>8, <1>c, <1>d, <1>e, <2>2, <2>3 DEF RowInv
<1>9. ASSUME NEW a \in Removable, RemoveAccount(a) PROVE RowInv'
  <2>1. /\ UNCHANGED <<staged, basis, screen, version, status, fileOf, nextId>>
        /\ money' \subseteq money
    BY <1>9 DEF RemoveAccount
  <2>2. \A u, w \in money' : u.id = w.id => u = w
    BY <2>1 DEF RowInv, IdsFresh
  <2> QED BY <1>8, <2>1, <2>2
<1>10. ASSUME NEW kind \in ManualKinds, NEW k \in Keys, NEW a \in Accounts \cup {None}, TypeIn(kind, k, a)
       PROVE  RowInv'
  <2> DEFINE t == [id |-> nextId, kind |-> kind, key |-> k, target |-> a,
                   import |-> None, held |-> FALSE, sure |-> FALSE]
  <2>1. /\ UNCHANGED <<staged, basis, screen, version, status, fileOf>>
        /\ money' = money \cup {t} /\ nextId' = nextId + 1
    BY <1>10 DEF TypeIn
  <2>2. nextId \in Nat /\ \A u \in money : u.id \in Nat
    BY DEF TypeOK, Money
  <2>3. t.id = nextId /\ t.held = FALSE /\ t.import = None
    OBVIOUS
  <2> HIDE DEF t
  <2>4. IsFiniteSet(money')
    BY <2>1, FS_AddElement DEF RowInv, IdsFresh
  <2>5. IdsFresh'
    BY <2>1, <2>2, <2>3, <2>4 DEF RowInv, IdsFresh
  <2>6. KindsKept'
    BY <2>1, <2>3 DEF RowInv, KindsKept, Kind
  <2> QED BY <1>c, <1>d, <1>e, <2>1, <2>5, <2>6 DEF RowInv
<1>11. ASSUME NEW t \in money, Delete(t) PROVE RowInv'
  <2>1. /\ UNCHANGED <<staged, basis, screen, version, status, fileOf, nextId>>
        /\ money' \subseteq money
    BY <1>11 DEF Delete
  <2>2. \A u, w \in money' : u.id = w.id => u = w
    BY <2>1 DEF RowInv, IdsFresh
  <2> QED BY <1>8, <2>1, <2>2
<1>12. ASSUME NEW t \in money, Hold(t) PROVE RowInv'
  <2> DEFINE held == [t EXCEPT !.held = TRUE]
  <2>1. /\ UNCHANGED <<staged, basis, screen, version, status, fileOf, nextId>>
        /\ money' = (money \ {t}) \cup {held} /\ t.kind = "bank"
    BY <1>12 DEF Hold
  <2>2. held.id = t.id /\ held.kind = t.kind /\ held.import = t.import
    BY DEF TypeOK, Money
  <2> HIDE DEF held
  <2>3. \A u, w \in money' : u.id = w.id => u = w
    BY <2>1, <2>2 DEF RowInv, IdsFresh
  <2>4. \A u \in money' : \E v \in money : /\ u.id = v.id /\ u.kind = v.kind /\ u.import = v.import
                                           /\ u.held => v.held \/ v.kind = "bank"
    BY <2>1, <2>2
  <2> QED BY <1>8, <2>1, <2>3, <2>4
<1> QED
  BY <1>1, <1>2, <1>3, <1>4, <1>5, <1>6, <1>7, <1>9, <1>10, <1>11, <1>12 DEF Next

(* Types, books and rows are in order in every reachable state. *)
LEMMA RowsInvariance == Spec => [](TypeOK /\ BookInv /\ RowInv)
<1>1. TypeOK /\ BookInv /\ RowInv /\ [Next]_vars => RowInv'
  BY NextRowInv
<1> QED BY InitRowInv, <1>1, Invariance, PTL DEF Spec

-----------------------------------------------------------------------------
(* What the owner approves, and what outlives an undone import.            *)

(* When the version her screen sends is still the session's, the rows she  *)
(* saw are the session's rows, for any number of tabs, edits and syncs.    *)
THEOREM SameVersion == Spec => []SameVersionSameRows
<1>1. TypeOK /\ RowInv => SameVersionSameRows
  BY NoneAssumption DEF RowInv, ScreenBehind, SameVersionSameRows, Shown, Blank
<1> QED BY <1>1, RowsInvariance, PTL

(* Only the two ways of undoing an import take a session out of the books. *)
LEMMA OnlyUndoing ==
    ASSUME TypeOK, BookInv, [Next]_vars, NEW r \in Sids, status[r] \in Booked, status'[r] = "rolled_back"
    PROVE  \E s \in Sids : Rollback(s) \/ RemoveReport(s)
<1> SUFFICES ASSUME \A s \in Sids : ~Rollback(s) /\ ~RemoveReport(s)
             PROVE  status'[r] # "rolled_back"
  OBVIOUS
<1> USE DEF sessionVars, bookVars, Open, Booked
<1>0. status[r] # "rolled_back"
  OBVIOUS
<1>1. CASE UNCHANGED status
  BY <1>0, <1>1
<1>2. ASSUME NEW f \in Files, Upload(f) PROVE status'[r] # "rolled_back"
  BY <1>0, <1>2 DEF Upload, TypeOK
<1>3. ASSUME NEW s \in Sids, SessionStep(s) PROVE status'[r] # "rolled_back"
  <2>1. CASE Finish(s) \/ Cancel(s) \/ CancelBySync(s)
    BY <1>0, <2>1 DEF Finish, Cancel, CancelBySync, CancelSession, TypeOK
  <2>2. CASE ~(Finish(s) \/ Cancel(s) \/ CancelBySync(s))
    <3>1. UNCHANGED status
      BY <1>3, <2>2 DEF SessionStep, ProcessUpload, Answer, Decide, View, BeginCommit, ConfirmReport
    <3> QED BY <1>1, <3>1
  <2> QED BY <2>1, <2>2
<1>4. CASE ProcessSession \/ ProcessFails \/ CommitStatement \/ CommitReport \/ CommitSheet
  BY <1>0, <1>4 DEF ProcessSession, ProcessFails, CommitStatement, CommitReport, CommitSheet, Book, TypeOK
<1>5. CASE \/ UNCHANGED vars \/ Abort \/ Crash
           \/ \E a \in Removable : RemoveAccount(a)
           \/ \E kind \in ManualKinds, k \in Keys, a \in Accounts \cup {None} : TypeIn(kind, k, a)
           \/ \E t \in money : Delete(t) \/ Hold(t)
  BY <1>1, <1>5 DEF vars, Abort, Crash, RemoveAccount, TypeIn, Delete, Hold
<1> QED BY <1>2, <1>3, <1>4, <1>5 DEF Next

(* A row the owner excluded or linked to a loan outlives the import it     *)
(* came from: a statement's is detached, and a card report has none.       *)
THEOREM HandWorkSurvives == Spec => HandWorkSurvivesRollback
<1> DEFINE Kept == (\E s \in Sids : status[s] \in Booked /\ status'[s] = "rolled_back") =>
                       \A t \in money : t.held => \E u \in money' : u.id = t.id /\ u.held
<1>1. TypeOK /\ BookInv /\ RowInv /\ [Next]_vars => Kept
  <2> SUFFICES ASSUME TypeOK, BookInv, RowInv, [Next]_vars,
                      \E s \in Sids : status[s] \in Booked /\ status'[s] = "rolled_back",
                      NEW t \in money, t.held
               PROVE  \E u \in money' : u.id = t.id /\ u.held
    OBVIOUS
  <2>1. PICK s \in Sids : Rollback(s) \/ RemoveReport(s)
    BY OnlyUndoing
  <2>2. t \in Money
    BY DEF TypeOK
  <2>3. CASE Rollback(s)
    <3>1. money' = WithoutRowsOf(link[s])
      BY <2>3 DEF Rollback
    <3>2. CASE t.import = link[s]
      <4>1. [t EXCEPT !.import = None] \in money'
        BY <3>1, <3>2 DEF WithoutRowsOf
      <4>2. [t EXCEPT !.import = None].id = t.id /\ [t EXCEPT !.import = None].held = t.held
        BY <2>2 DEF Money
      <4> QED BY <4>1, <4>2
    <3>3. CASE t.import # link[s]
      BY <3>1, <3>3 DEF WithoutRowsOf
    <3> QED BY <3>2, <3>3
  <2>4. CASE RemoveReport(s)
    <3>1. money' = {u \in money : u.import # s} /\ Kind(s) = "credit"
      BY <2>4 DEF RemoveReport
    <3>2. t.kind = "bank"
      BY DEF RowInv, KindsKept
    <3>3. t.import # s
      BY <3>1, <3>2, NoneAssumption DEF RowInv, KindsKept, RowKind
    <3> QED BY <3>1, <3>3
  <2> QED BY <2>1, <2>3, <2>4
<1> HIDE DEF Kept
<1>2. Spec => [][Kept]_vars
  BY <1>1, RowsInvariance, PTL DEF Spec
<1> QED BY <1>2 DEF HandWorkSurvivesRollback, Kept

(* What a commit approved is what it finds in the books: every row linked  *)
(* as a duplicate names one that is there, and every other is added.       *)
LEMMA CommitStep ==
    ASSUME TypeOK, BookInv, RowInv, CommitStatement \/ CommitReport \/ CommitSheet
    PROVE  \E s \in Sids :
           /\ s = tx.s /\ fileOf[s] \in Files /\ tx # NoTx /\ Valid(s)
           /\ UNCHANGED <<staged, target, fileOf>>
           /\ money' = money \cup Added(s)
           /\ status' = [status EXCEPT ![s] = "review"]
           /\ basis[s] = Candidates(Kind(s), target[s])
           /\ IsFiniteSet(money) /\ IsFiniteSet(money')
           /\ \A t \in Added(s) : /\ t.kind = RowKind[Kind(s)] /\ t.target = target[s]
                                  /\ t \in Candidates(Kind(s), target[s])'
<1> USE DEF sessionVars, bookVars
<1>1. tx.s \in Sids /\ fileOf[tx.s] \in Files /\ tx # NoTx /\ Valid(tx.s) /\ AddRows(tx.s) /\ Book(tx.s)
  BY DEF CommitStatement, CommitReport, CommitSheet, TypeOK, NoTx, Tx
<1>2. PICK s \in Sids : s = tx.s
  BY <1>1
<1>3. UNCHANGED <<staged, target, fileOf>> /\ money' = money \cup Added(s)
      /\ status' = [status EXCEPT ![s] = "review"]
  BY <1>1, <1>2 DEF Book, AddRows
<1>4. Added(s) = {NewRow(s, i) : i \in Included(s)} /\ IsFiniteSet(Added(s))
  BY <1>1, <1>2, NewRows
<1>5. IsFiniteSet(money) /\ IsFiniteSet(money')
  BY <1>3, <1>4, FS_Union DEF RowInv, IdsFresh
<1>6. \A i \in Included(s) : NewRow(s, i).kind = RowKind[Kind(s)] /\ NewRow(s, i).target = target[s]
  BY DEF NewRow
<1>7. \A t \in Added(s) : t.kind = RowKind[Kind(s)] /\ t.target = target[s]
  BY <1>4, <1>6
<1>8. Kind(s) \in Kinds /\ Kind(s)' = Kind(s)
  BY <1>1, <1>2, <1>3, FilesAssumption DEF Kind
<1>9. \A t \in Added(s) : t \in Candidates(Kind(s), target[s])'
  BY <1>3, <1>7, <1>8 DEF Candidates, Kinds, RowKind
<1>10. basis[s] = Candidates(Kind(s), target[s])
  BY <1>1, <1>2 DEF Valid
<1> QED BY <1>1, <1>2, <1>3, <1>5, <1>7, <1>9, <1>10

(* Nothing of an approved file is missing from the books: its rows of a    *)
(* key are no more than the rows there, which they are paired with one to  *)
(* one, for any file and any books.                                        *)
LEMMA CommitCovers ==
    ASSUME TypeOK, BookInv, RowInv, NEW s \in Sids, fileOf[s] \in Files, Valid(s),
           UNCHANGED <<staged, target, fileOf>>, money' = money \cup Added(s), IsFiniteSet(money'),
           \A t \in Added(s) : t \in Candidates(Kind(s), target[s])',
           NEW k \in Keys
    PROVE  Cardinality({i \in DOMAIN staged[s] : staged[s][i].key = k})
               <= Cardinality({t \in Candidates(Kind(s), target[s])' : t.key = k})
<1> DEFINE of == {i \in DOMAIN staged[s] : staged[s][i].key = k}
           there == {t \in Candidates(Kind(s), target[s])' : t.key = k}
           found == Candidates(Kind(s), target[s])
           pair(i) == IF staged[s][i].resolution = "duplicate"
                        THEN CHOOSE t \in Matching(k, found) : t.id = staged[s][i].ref
                        ELSE NewRow(s, i)
           f == [i \in of |-> pair(i)]
<1>2. /\ Added(s) = {NewRow(s, i) : i \in Included(s)}
      /\ \A i \in Included(s) : NewRow(s, i).id \in nextId..(nextId + Cardinality(Included(s)) - 1)
      /\ \A i, j \in Included(s) : NewRow(s, i).id = NewRow(s, j).id => i = j
  BY NewRows
<1>3. found \subseteq money /\ found \subseteq Candidates(Kind(s), target[s])'
  BY DEF Candidates, Kind
<1>4. ASSUME NEW i \in of, staged[s][i].resolution = "duplicate"
      PROVE  pair(i) \in found /\ pair(i).key = k /\ pair(i).id = staged[s][i].ref
  <2>1. \E t \in Matching(staged[s][i].key, found) : t.id = staged[s][i].ref
    BY <1>4 DEF Valid
  <2>2. pair(i) \in Matching(k, found) /\ pair(i).id = staged[s][i].ref
    BY <1>4, <2>1
  <2> HIDE DEF pair, found
  <2> QED BY <2>2 DEF Matching
<1>5. ASSUME NEW i \in of, staged[s][i].resolution # "duplicate"
      PROVE  pair(i) \in Added(s) /\ pair(i).key = k /\ i \in Included(s) /\ pair(i) = NewRow(s, i)
  <2>1. staged[s][i] \in Row /\ staged[s][i].resolution # "review" /\ staged[s][i].key = k
    BY DEF Valid, TypeOK
  <2>2. i \in Included(s)
    BY <1>5, <2>1 DEF Included, Row
  <2>3. pair(i) = NewRow(s, i)
    BY <1>5
  <2>4. NewRow(s, i).key = k
    BY <2>1 DEF NewRow
  <2> QED BY <1>2, <2>2, <2>3, <2>4
<1> HIDE DEF pair
<1>6. f \in [of -> there]
  <2>1. \A i \in of : pair(i) \in there
    BY <1>3, <1>4, <1>5
  <2> QED BY <2>1
<1>7. ASSUME NEW i \in of, NEW j \in of, pair(i) = pair(j) PROVE i = j
  <2>1. \A t \in money : t.id < nextId /\ t.id \in Nat
    BY DEF RowInv, IdsFresh, TypeOK, Money
  <2>2. nextId \in Nat
    BY DEF TypeOK
  <2>3. \A t \in found : t.id < nextId /\ t.id \in Nat
    BY <1>3, <2>1
  <2>4. \A t \in Added(s) : t.id >= nextId
    BY <1>2, <2>2
  <2>5. CASE staged[s][i].resolution = "duplicate" /\ staged[s][j].resolution = "duplicate"
    BY <1>4, <1>7, <2>5 DEF RowInv, OneClaimEach
  <2>6. CASE staged[s][i].resolution # "duplicate" /\ staged[s][j].resolution # "duplicate"
    BY <1>2, <1>5, <1>7, <2>6
  <2>7. CASE staged[s][i].resolution = "duplicate" /\ staged[s][j].resolution # "duplicate"
    <3>1. pair(i).id < nextId /\ pair(i).id \in Nat /\ pair(j).id >= nextId
      BY <1>4, <1>5, <2>3, <2>4, <2>7
    <3> QED BY <1>7, <2>2, <3>1
  <2>8. CASE staged[s][i].resolution # "duplicate" /\ staged[s][j].resolution = "duplicate"
    <3>1. pair(j).id < nextId /\ pair(j).id \in Nat /\ pair(i).id >= nextId
      BY <1>4, <1>5, <2>3, <2>4, <2>8
    <3> QED BY <1>7, <2>2, <3>1
  <2> QED BY <2>5, <2>6, <2>7, <2>8
<1>8. IsFiniteSet(there)
  <2>1. there \in SUBSET money'
    BY DEF Candidates
  <2> QED BY <2>1, FS_Subset
<1>9. \A i, j \in of : f[i] = f[j] => i = j
  BY <1>7
<1> HIDE DEF of, there, f
<1>10. Cardinality(of) <= Cardinality(there)
  BY <1>6, <1>8, <1>9, Injects
<1> QED BY <1>10 DEF of, there

(* Only a commit puts a session into the books for review. *)
LEMMA OnlyCommits ==
    ASSUME TypeOK, [Next]_vars, NEW s \in Sids, status[s] # "review", status'[s] = "review"
    PROVE  CommitStatement \/ CommitReport \/ CommitSheet
<1> SUFFICES ASSUME ~(CommitStatement \/ CommitReport \/ CommitSheet) PROVE status'[s] # "review"
  OBVIOUS
<1> USE DEF sessionVars, bookVars
<1>1. CASE UNCHANGED status
  BY <1>1
<1>2. ASSUME NEW f \in Files, Upload(f) PROVE status'[s] # "review"
  BY <1>2 DEF Upload, TypeOK
<1>3. ASSUME NEW r \in Sids, SessionStep(r) PROVE status'[s] # "review"
  <2>1. CASE Finish(r) \/ Cancel(r) \/ CancelBySync(r)
    BY <2>1 DEF Finish, Cancel, CancelBySync, CancelSession, TypeOK
  <2>2. CASE Rollback(r) \/ RemoveReport(r)
    BY <2>2 DEF Rollback, RemoveReport, Invalidate
  <2>3. CASE ~(Finish(r) \/ Cancel(r) \/ CancelBySync(r) \/ Rollback(r) \/ RemoveReport(r))
    <3>1. UNCHANGED status
      BY <1>3, <2>3 DEF SessionStep, ProcessUpload, Answer, Decide, View, BeginCommit, ConfirmReport
    <3> QED BY <1>1, <3>1
  <2> QED BY <2>1, <2>2, <2>3
<1>4. CASE ProcessSession \/ ProcessFails
  BY <1>4 DEF ProcessSession, ProcessFails, TypeOK
<1>5. CASE \/ UNCHANGED vars \/ Abort \/ Crash
           \/ \E a \in Removable : RemoveAccount(a)
           \/ \E kind \in ManualKinds, k \in Keys, a \in Accounts \cup {None} : TypeIn(kind, k, a)
           \/ \E t \in money : Delete(t) \/ Hold(t)
  BY <1>1, <1>5 DEF vars, Abort, Crash, RemoveAccount, TypeIn, Delete, Hold
<1> QED BY <1>2, <1>3, <1>4, <1>5 DEF Next

(* A commit leaves in the books a row of its own for every row the owner   *)
(* approved, however files and books overlap.                              *)
THEOREM CommitsCover == Spec => CommitCoversFile
<1> DEFINE Covered ==
        \A s \in Sids : status[s] # "review" /\ status'[s] = "review" =>
            \A k \in Keys :
                Cardinality({i \in DOMAIN staged[s] : staged[s][i].key = k})
                    <= Cardinality({t \in Candidates(Kind(s), target[s])' : t.key = k})
<1>1. TypeOK /\ BookInv /\ RowInv /\ [Next]_vars => Covered
  <2> SUFFICES ASSUME TypeOK, BookInv, RowInv, [Next]_vars, NEW s \in Sids,
                      status[s] # "review", status'[s] = "review", NEW k \in Keys
               PROVE  Cardinality({i \in DOMAIN staged[s] : staged[s][i].key = k})
                          <= Cardinality({t \in Candidates(Kind(s), target[s])' : t.key = k})
    OBVIOUS
  <2>1. CommitStatement \/ CommitReport \/ CommitSheet
    BY OnlyCommits
  <2>2. PICK r \in Sids :
           /\ fileOf[r] \in Files /\ Valid(r)
           /\ UNCHANGED <<staged, target, fileOf>> /\ money' = money \cup Added(r) /\ IsFiniteSet(money')
           /\ status' = [status EXCEPT ![r] = "review"]
           /\ \A t \in Added(r) : t \in Candidates(Kind(r), target[r])'
    BY <2>1, CommitStep
  <2>3. r = s
    BY <2>2 DEF TypeOK
  <2> QED BY <2>2, <2>3, CommitCovers
<1> HIDE DEF Covered
<1>2. Spec => [][Covered]_vars
  BY <1>1, RowsInvariance, PTL DEF Spec
<1> QED BY <1>2, PTL DEF CommitCoversFile, Covered

-----------------------------------------------------------------------------
(* No row is counted twice.                                                *)

Sides == {{"bank"}, {"credit", "expense"}}

(* The imported rows of a key, of an account or of the card's side. *)
Counted(k, side, a) ==
    {t \in money : t.sure /\ t.key = k /\ t.kind \in side /\ (t.kind = "bank" => t.target = a)}

Reported(k, side, n) == \E f \in Files : RowKind[KindOf[f]] \in side /\ Occurrences(f, k) >= n

LEMMA NoDoubleImportIs ==
    NoDoubleImport
      <=> \A k \in Keys : \A side \in Sides : \A a \in Accounts \cup {None} : \A n \in 1..MaxMoney :
              Cardinality(Counted(k, side, a)) >= n => Reported(k, side, n)
BY Zenon DEF NoDoubleImport, Sides, Counted, Reported

(* Counted rows are few, and no more when each of them was counted before. *)
LEMMA NoMoreCounted ==
    ASSUME TypeOK, RowInv, RowInv', NoDoubleImport,
           NEW k \in Keys, NEW side \in Sides, NEW a \in Accounts \cup {None}, NEW n \in 1..MaxMoney,
           \A u \in Counted(k, side, a)' : \E v \in Counted(k, side, a) : v.id = u.id,
           Cardinality(Counted(k, side, a)') >= n
    PROVE  Reported(k, side, n)
<1> DEFINE old == Counted(k, side, a)
           new == Counted(k, side, a)'
<1>1. IsFiniteSet(old)
  <2>1. old \in SUBSET money
    BY DEF Counted
  <2> QED BY <2>1, FS_Subset DEF RowInv, IdsFresh
<1>2. \A u, w \in new : u.id = w.id => u = w
  BY DEF RowInv, IdsFresh, Counted
<1>3. Cardinality(new) <= Cardinality(old) /\ Cardinality(old) \in Nat /\ Cardinality(new) \in Nat
  BY <1>1, <1>2, FewerNames
<1>4. n \in Nat /\ Cardinality(old) >= n
  BY <1>3, BoundsAssumption
<1> QED BY <1>4, NoDoubleImportIs

(* Only a commit adds rows that are counted. *)
LEMMA NothingElseCounts ==
    ASSUME TypeOK, BookInv, RowInv, [Next]_vars, ~(CommitStatement \/ CommitReport \/ CommitSheet),
           NEW u \in money', u.sure
    PROVE  \E v \in money : /\ v.id = u.id /\ v.key = u.key /\ v.kind = u.kind
                            /\ v.target = u.target /\ v.sure
<1> USE DEF sessionVars, bookVars
<1>1. CASE money' \subseteq money
  BY <1>1
<1>2. ASSUME NEW s \in Sids, SessionStep(s)
      PROVE  money' \subseteq money \/ \E i \in Sids : money' = WithoutRowsOf(i)
  <2>1. CASE Rollback(s)
    BY <2>1 DEF Rollback, CanRollback, TypeOK
  <2>2. CASE ~Rollback(s)
    BY <1>2, <2>2 DEF SessionStep, ProcessUpload, Answer, Decide, View, BeginCommit, Finish, Cancel,
                      CancelBySync, CancelSession, ConfirmReport, RemoveReport
  <2> QED BY <2>1, <2>2
<1>3. ASSUME NEW i \in Sids, money' = WithoutRowsOf(i)
      PROVE  \E v \in money : /\ v.id = u.id /\ v.key = u.key /\ v.kind = u.kind
                              /\ v.target = u.target /\ v.sure
  BY <1>3, KeptRows
<1>4. CASE \/ UNCHANGED vars \/ (\E f \in Files : Upload(f)) \/ ProcessSession \/ ProcessFails
           \/ Abort \/ Crash \/ (\E a \in Removable : RemoveAccount(a))
           \/ \E t \in money : Delete(t)
  <2>1. money' \subseteq money
    BY <1>4 DEF vars, Upload, ProcessSession, ProcessFails, Abort, Crash, RemoveAccount, Delete
  <2> QED BY <1>1, <2>1
<1>5. ASSUME NEW kind \in ManualKinds, NEW k \in Keys, NEW a \in Accounts \cup {None}, TypeIn(kind, k, a)
      PROVE  u \in money
  BY <1>5 DEF TypeIn
<1>6. ASSUME NEW t \in money, Hold(t)
      PROVE  \E v \in money : /\ v.id = u.id /\ v.key = u.key /\ v.kind = u.kind
                              /\ v.target = u.target /\ v.sure
  <2> DEFINE held == [t EXCEPT !.held = TRUE]
  <2>1. money' = (money \ {t}) \cup {held}
    BY <1>6 DEF Hold
  <2>2. /\ held.id = t.id /\ held.key = t.key /\ held.kind = t.kind
        /\ held.target = t.target /\ held.sure = t.sure
    BY DEF TypeOK, Money
  <2> HIDE DEF held
  <2> QED BY <2>1, <2>2
<1> QED BY <1>1, <1>2, <1>3, <1>4, <1>5, <1>6 DEF Next

(* A commit adds a row as it was read only when the file has more of its   *)
(* key than the books: the rows there and the new ones are no more than    *)
(* the file's.                                                             *)
LEMMA CommitCounts ==
    ASSUME TypeOK, BookInv, RowInv, NEW s \in Sids, fileOf[s] \in Files,
           basis[s] = Candidates(Kind(s), target[s]), money' = money \cup Added(s),
           NEW k \in Keys, NEW side \in Sides, NEW a \in Accounts \cup {None},
           RowKind[Kind(s)] \in side, Kind(s) = "bank" => target[s] = a,
           NEW u \in Included(s), ~staged[s][u].forced, staged[s][u].key = k
    PROVE  /\ Cardinality(Counted(k, side, a)') <= Occurrences(fileOf[s], k)
           /\ Cardinality(Counted(k, side, a)') \in Nat
           /\ Occurrences(fileOf[s], k) \in Nat
<1> DEFINE rows == RowsOf[fileOf[s]]
           M == Matching(k, basis[s])
           m == Cardinality(M)
           C == Copies(rows, k)
           g == [j \in C |-> j]
           U == {i \in Included(s) : ~staged[s][i].forced /\ staged[s][i].key = k}
           high == {x \in C : RankIn(C, g, x) >= m}
           new == {NewRow(s, i) : i \in U}
<1>1. rows \in Seq(Keys) /\ Kind(s) \in Kinds
  BY FilesAssumption DEF Kind
<1>2. /\ basis[s] \in SUBSET Money /\ IsFiniteSet(basis[s])
      /\ \A t, v \in basis[s] : t.id = v.id => t = v
  <2>1. basis[s] \in SUBSET money
    BY DEF Candidates
  <2>2. IsFiniteSet(basis[s])
    BY <2>1, FS_Subset DEF RowInv, IdsFresh
  <2> QED BY <2>1, <2>2 DEF TypeOK, RowInv, IdsFresh
<1>3. IsFiniteSet(M) /\ m \in Nat
  <2>1. M \in SUBSET basis[s]
    BY DEF Matching
  <2>2. IsFiniteSet(M)
    BY <1>2, <2>1, FS_Subset
  <2> QED BY <2>2, FS_CardinalityType
<1>4. u \in C /\ IsFiniteSet(C) /\ g \in [C -> Nat] /\ \A x, y \in C : g[x] = g[y] => x = y
  <2>1. u \in C
    BY DEF Included, RowInv, StagedFromFile, AsRead, Copies
  <2>2. IsFiniteSet(C) /\ g \in [C -> Nat]
    BY <1>1, <2>1, EarlierIsRank
  <2> QED BY <2>1, <2>2
<1>5. ASSUME NEW i \in U PROVE i \in high
  <2>1. i \in DOMAIN rows /\ rows[i] = k /\ Claim(rows, i, basis[s]) = {}
    BY DEF Included, RowInv, StagedFromFile, AsRead
  <2>2. i \in C
    BY <2>1 DEF Copies
  <2>3. Cardinality(Earlier(rows, i)) >= m
    BY <1>1, <1>2, <2>1, NothingToClaim
  <2>4. Cardinality(Earlier(rows, i)) = RankIn(C, g, i)
    BY <1>1, <2>2, EarlierIsRank
  <2> QED BY <2>2, <2>3, <2>4
<1>6. IsFiniteSet(high) /\ Cardinality(high) + m <= Cardinality(C)
  <2>1. u \in high
    BY <1>5
  <2> HIDE DEF C, g, m
  <2> QED BY <1>3, <1>4, <2>1, HighRanks
<1>7. /\ \A i, j \in Included(s) : NewRow(s, i).id = NewRow(s, j).id => i = j
      /\ Added(s) = {NewRow(s, i) : i \in Included(s)}
  BY NewRows
<1>8. IsFiniteSet(new) /\ Cardinality(new) <= Cardinality(high)
      /\ Cardinality(new) \in Nat /\ Cardinality(high) \in Nat
  <2> DEFINE from == [t \in new |-> CHOOSE i \in U : t = NewRow(s, i)]
  <2>1. \A t \in new : from[t] \in U /\ t = NewRow(s, from[t])
    OBVIOUS
  <2> HIDE DEF from, U, new
  <2>2. from \in [new -> high]
    <3>1. \A t \in new : from[t] \in high
      BY <1>5, <2>1
    <3> QED BY <3>1 DEF from
  <2>3. \A t, v \in new : from[t] = from[v] => t = v
    BY <2>1
  <2> HIDE DEF high
  <2> QED BY <1>6, <2>2, <2>3, Injects
<1>9. Counted(k, side, a)' \subseteq M \cup new
  <2> SUFFICES ASSUME NEW t \in Counted(k, side, a)' PROVE t \in M \cup new
    OBVIOUS
  <2>1. /\ t \in money' /\ t.sure /\ t.key = k /\ t.kind \in side
        /\ t.kind = "bank" => t.target = a
    BY DEF Counted
  <2>2. CASE t \in money
    <3>1. t.kind = "bank" <=> Kind(s) = "bank"
      BY <1>1, <2>1 DEF Sides, Kinds, RowKind
    <3>2. t \in Candidates(Kind(s), target[s])
      BY <2>1, <2>2, <3>1 DEF Candidates
    <3> QED BY <2>1, <3>2 DEF Matching
  <2>3. CASE t \in Added(s)
    <3>1. PICK i \in Included(s) : t = NewRow(s, i)
      BY <1>7, <2>3
    <3>2. NewRow(s, i).key = staged[s][i].key /\ NewRow(s, i).sure = ~staged[s][i].forced
      BY DEF NewRow
    <3>3. i \in U
      BY <2>1, <3>1, <3>2
    <3> QED BY <3>1, <3>3
  <2> QED BY <2>1, <2>2, <2>3
<1>10. Occurrences(fileOf[s], k) = Cardinality(C) /\ Cardinality(C) \in Nat
  BY <1>4, FS_CardinalityType DEF Occurrences, Copies
<1> HIDE DEF M, m, C, new, high
<1>11. IsFiniteSet(M \cup new) /\ Cardinality(M \cup new) <= m + Cardinality(new)
  <2>1. /\ IsFiniteSet(M \cup new) /\ IsFiniteSet(M \cap new)
        /\ Cardinality(M \cup new) = Cardinality(M) + Cardinality(new) - Cardinality(M \cap new)
    BY <1>3, <1>8, FS_Union, FS_Intersection
  <2>2. Cardinality(M \cap new) \in Nat
    BY <2>1, FS_CardinalityType
  <2> QED BY <1>3, <1>8, <2>1, <2>2 DEF m
<1>12. /\ IsFiniteSet(Counted(k, side, a)')
       /\ Cardinality(Counted(k, side, a)') <= Cardinality(M \cup new)
  BY <1>9, <1>11, FS_Subset
<1>13. Cardinality(Counted(k, side, a)') \in Nat /\ Cardinality(M \cup new) \in Nat
  BY <1>11, <1>12, FS_CardinalityType
<1> QED BY <1>3, <1>6, <1>8, <1>10, <1>11, <1>12, <1>13

(* However files overlap, are uploaded again, undone or approved from      *)
(* several open sessions, the books hold no more imported rows of a key    *)
(* than some single file reports: for any files, accounts and bounds.      *)
THEOREM NothingTwice == Spec => []NoDoubleImport
<1>1. Init => NoDoubleImport
  <2> SUFFICES ASSUME Init, NEW k \in Keys, NEW side \in Sides, NEW a \in Accounts \cup {None},
                      NEW n \in 1..MaxMoney
               PROVE  ~(Cardinality(Counted(k, side, a)) >= n)
    BY NoDoubleImportIs
  <2>1. Counted(k, side, a) = {}
    BY DEF Init, Counted
  <2> QED BY <2>1, FS_EmptySet, BoundsAssumption
<1>2. TypeOK /\ BookInv /\ RowInv /\ RowInv' /\ NoDoubleImport /\ [Next]_vars => NoDoubleImport'
  <2> SUFFICES ASSUME TypeOK, BookInv, RowInv, RowInv', NoDoubleImport, [Next]_vars,
                      NEW k \in Keys, NEW side \in Sides, NEW a \in Accounts \cup {None},
                      NEW n \in 1..MaxMoney, Cardinality(Counted(k, side, a)') >= n
               PROVE  Reported(k, side, n)
    BY Zenon, NoDoubleImportIs DEF NoDoubleImport, Sides, Counted, Reported
  <2>1. CASE ~(CommitStatement \/ CommitReport \/ CommitSheet)
    <3>1. \A u \in Counted(k, side, a)' : \E v \in Counted(k, side, a) : v.id = u.id
      BY <2>1, NothingElseCounts DEF Counted
    <3> QED BY <3>1, NoMoreCounted
  <2>2. CASE CommitStatement \/ CommitReport \/ CommitSheet
    <3>1. PICK s \in Sids : /\ fileOf[s] \in Files /\ money' = money \cup Added(s)
                            /\ basis[s] = Candidates(Kind(s), target[s])
      BY <2>2, CommitStep
    <3> DEFINE Ours(u) == /\ RowKind[Kind(s)] \in side /\ (Kind(s) = "bank" => target[s] = a)
                          /\ ~staged[s][u].forced /\ staged[s][u].key = k
    <3>2. CASE \E u \in Included(s) : Ours(u)
      <4>1. /\ Cardinality(Counted(k, side, a)') <= Occurrences(fileOf[s], k)
            /\ Cardinality(Counted(k, side, a)') \in Nat
            /\ Occurrences(fileOf[s], k) \in Nat
        BY <3>1, <3>2, CommitCounts
      <4>2. Occurrences(fileOf[s], k) >= n
        BY <4>1, BoundsAssumption
      <4> QED BY <3>1, <3>2, <4>2 DEF Reported, Kind
    <3>3. CASE ~\E u \in Included(s) : Ours(u)
      <4>1. ASSUME NEW t \in Counted(k, side, a)' PROVE t \in Counted(k, side, a)
        <5>1. CASE t \in Added(s)
          <6>1. PICK i \in Included(s) : t = NewRow(s, i)
            BY <3>1, <5>1, NewRows
          <6>2. /\ t.key = staged[s][i].key /\ t.sure = ~staged[s][i].forced
                /\ t.kind = RowKind[Kind(s)] /\ t.target = target[s]
            BY <6>1 DEF NewRow
          <6>3. Kind(s) = "bank" => RowKind[Kind(s)] = "bank"
            BY DEF RowKind
          <6>4. Ours(i)
            BY <6>2, <6>3 DEF Counted
          <6> QED BY <3>3, <6>4
        <5>2. CASE t \in money
          BY <5>2 DEF Counted
        <5> QED BY <3>1, <5>1, <5>2 DEF Counted
      <4> QED BY <4>1, NoMoreCounted
    <3> QED BY <3>2, <3>3
  <2> QED BY <2>1, <2>2
<1>3. TypeOK /\ BookInv /\ RowInv /\ [Next]_vars => RowInv'
  BY NextRowInv
<1>4. Spec => [](TypeOK /\ BookInv /\ RowInv)
  BY RowsInvariance
<1> QED BY <1>1, <1>2, <1>3, <1>4, PTL DEF Spec
=============================================================================
