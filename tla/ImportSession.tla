---------------------------- MODULE ImportSession ----------------------------
(***************************************************************************)
(* An uploaded file on its way into the books of one owner:                *)
(* modules/imports (importSession, importRows, importLifecycle) and the    *)
(* writes it makes through bank.importStatement, credit.createImport,      *)
(* imports.importExpenses and documents.record / rollback.                 *)
(*                                                                         *)
(* Every request runs in a transaction that holds the owner's lock         *)
(* (FinancialTransaction), so most operations are one step.  Processing    *)
(* and committing are two: they read the session first and write it only   *)
(* after the file was parsed, and the connection sync cancels a session    *)
(* with a statement of its own that does not ask for the owner's lock.     *)
(***************************************************************************)
EXTENDS Naturals, FiniteSets, Sequences

CONSTANTS Files,       \* uploaded files, told apart by their SHA-256
          Keys,        \* what identifies a row: date, name, signed amount
          RowsOf,      \* the rows a parser reads in a file
          KindOf,      \* "bank", "credit" or "expense_sheet"
          Blocked,     \* files the parser reports blocking issues for
          Faulty,      \* files whose bytes may be missing or break the parser
          SyncFiles,   \* files the connection sync made and may cancel
          Accounts,    \* the owner's bank accounts
          Removable,   \* the accounts the owner may remove
          Card,        \* the owner's credit card
          None,        \* no answer, no import
          ManualKinds, \* kinds of row the owner types in by hand
          MaxSessions, \* bound: sessions
          MaxMoney,    \* bound: rows ever written to the books
          MaxVersion,  \* bound: version up to which a session is edited or answered
          MaxByHand    \* bound: rows typed in, deleted or held by hand

Sids == 1..MaxSessions
Kinds == {"bank", "credit", "expense_sheet"}
RowKind == [bank |-> "bank", credit |-> "credit", expense_sheet |-> "expense"]
Destinations == Accounts \cup {Card, None}

ASSUME FilesAssumption ==
    /\ RowsOf \in [Files -> Seq(Keys)]
    /\ KindOf \in [Files -> Kinds]
    /\ Blocked \subseteq Files /\ Faulty \subseteq Files /\ SyncFiles \subseteq Files
ASSUME TargetsAssumption ==
    Removable \subseteq Accounts /\ Card \notin Accounts /\ None \notin Accounts /\ Card # None
ASSUME ManualAssumption == ManualKinds \subseteq {"bank", "expense"}
ASSUME NoneAssumption == None \notin Sids \cup Files
ASSUME BoundsAssumption == {MaxSessions, MaxMoney, MaxVersion, MaxByHand} \subseteq Nat

VARIABLES status,    \* ImportSession.status; "absent" before the session exists
          version,   \* ImportSession.version
          screen,    \* the session, version and rows the owner's screen shows
          fileOf,    \* ImportSession.fileHash
          target,    \* ImportSession.answers: the account or the card
          staged,    \* the session's ImportRows, by row number
          basis,     \* preview.sourceVersion: the candidates staging compared with
          link,      \* result.statementImportId or result.creditImportId
          money,     \* bank, credit and expense rows of the owner
          nextId,    \* next autoincrement id of such a row
          imports,   \* BankStatementImports and CreditImports, by the session that made them
          confirmed, \* confirmed CreditImports
          docs,      \* status of the Document a commit recorded
          accounts,  \* bank accounts that exist
          uploading, \* sessions whose upload request has yet to process them
          byHand,    \* rows typed in, deleted or held so far
          tx         \* the two-step transaction that holds the owner's lock

vars == <<status, version, screen, fileOf, target, staged, basis, link,
          money, nextId, imports, confirmed, docs, accounts, byHand, uploading, tx>>
sessionVars == <<status, version, fileOf, target, staged, basis, link>>
bookVars == <<money, nextId, imports, confirmed, docs, accounts, byHand>>

Open == {"uploaded", "failed", "needs_input", "ready_for_review"}
Booked == {"review", "completed"}
Gone == {"cancelled", "rolled_back"}

Row == [key : Keys, resolution : {"include", "duplicate", "review"}, ref : Nat, forced : BOOLEAN]
Money == [id : Nat, kind : {"bank", "credit", "expense"}, key : Keys, target : Destinations,
          import : Sids \cup {None}, held : BOOLEAN, sure : BOOLEAN]
Blank == [s |-> None]
NoTx == [op |-> "none"]
Tx == {NoTx} \cup [op : {"process"}, s : Sids, answer : Destinations] \cup [op : {"commit"}, s : Sids]

TypeOK ==
    /\ status \in [Sids -> Open \cup Booked \cup Gone \cup {"absent"}]
    /\ version \in [Sids -> Nat]
    /\ screen \in {Blank} \cup [s : Sids, version : Nat, rows : Seq(Row)]
    /\ fileOf \in [Sids -> Files \cup {None}]
    /\ \A s \in Sids : status[s] # "absent" => fileOf[s] \in Files
    /\ target \in [Sids -> Destinations]
    /\ staged \in [Sids -> Seq(Row)]
    /\ basis \in [Sids -> SUBSET Money]
    /\ link \in [Sids -> Sids \cup {None}]
    /\ money \subseteq Money
    /\ nextId \in Nat
    /\ imports \subseteq Sids
    /\ confirmed \subseteq Sids
    /\ docs \in [Sids -> {"none", "imported", "rolled_back"}]
    /\ accounts \subseteq Accounts
    /\ byHand \in Nat
    /\ uploading \subseteq Sids
    /\ tx \in Tx
    /\ tx # NoTx => status[tx.s] # "absent"

Init ==
    /\ status = [s \in Sids |-> "absent"]
    /\ version = [s \in Sids |-> 0]
    /\ screen = Blank
    /\ fileOf = [s \in Sids |-> None]
    /\ target = [s \in Sids |-> None]
    /\ staged = [s \in Sids |-> << >>]
    /\ basis = [s \in Sids |-> {}]
    /\ link = [s \in Sids |-> None]
    /\ money = {}
    /\ nextId = 1
    /\ imports = {}
    /\ confirmed = {}
    /\ docs = [s \in Sids |-> "none"]
    /\ accounts = Accounts
    /\ byHand = 0
    /\ uploading = {}
    /\ tx = NoTx

Free == tx = NoTx       \* nobody holds the owner's lock across steps
Kind(s) == KindOf[fileOf[s]]
Shown(s) == screen.s = s /\ screen.version = version[s]
-----------------------------------------------------------------------------
(* Staging *)

(* candidatesFor: a bank file is compared with its account, a card report  *)
(* and an expense sheet with each other's rows as well as their own.       *)
Candidates(kind, a) ==
    {t \in money : IF kind = "bank" THEN t.kind = "bank" /\ t.target = a
                                    ELSE t.kind # "bank"}

Matching(key, found) == {t \in found : t.key = key}

(* Mutant: every equal source row claims the first candidate. *)
ClaimFirst(rows, i, found) ==
    {t \in Matching(rows[i], found) : \A u \in Matching(rows[i], found) : t.id <= u.id}

(* The candidate row i claims: the first one no earlier row has consumed.  *)
(* Equal source rows consume equal candidates in the order of their ids.   *)
Claim(rows, i, found) ==
    {t \in Matching(rows[i], found) :
        Cardinality({u \in Matching(rows[i], found) : u.id < t.id})
            = Cardinality({j \in 1..(i - 1) : rows[j] = rows[i]})}

(* replace: a bank row with an equal row in the account is the same        *)
(* transaction; a card or sheet row only suggests it, so the owner is asked. *)
Staged(kind, rows, found) ==
    [i \in DOMAIN rows |->
        LET claim == Claim(rows, i, found) IN
        [key |-> rows[i],
         resolution |-> IF claim = {} THEN "include" ELSE IF kind = "bank" THEN "duplicate" ELSE "review",
         ref |-> IF claim # {} /\ kind = "bank" THEN (CHOOSE t \in claim : TRUE).id ELSE 0,
         forced |-> FALSE]]
-----------------------------------------------------------------------------
(* Uploading and processing *)

(* Mutant: an upload does not look for an earlier session of the file. *)
UploadAlways(f) ==
    /\ Free
    /\ \E s \in Sids :
           /\ status[s] = "absent" /\ \A r \in Sids : r < s => status[r] # "absent"
           /\ status' = [status EXCEPT ![s] = "uploaded"]
           /\ fileOf' = [fileOf EXCEPT ![s] = f]
           /\ uploading' = uploading \cup {s}
    /\ UNCHANGED <<version, screen, target, staged, basis, link, bookVars, tx>>

(* create, first transaction: a file already on its way, or already in the *)
(* books, gives its earlier session back.                                  *)
Upload(f) ==
    /\ Free
    /\ LET earlier == {s \in Sids : fileOf[s] = f /\ status[s] \notin Gone \cup {"absent"}} IN
       IF earlier # {}
         THEN /\ uploading' = uploading \cup {s \in earlier : status[s] = "uploaded"}
              /\ UNCHANGED <<status, fileOf>>
         ELSE \E s \in Sids :
              /\ status[s] = "absent"
              /\ \A r \in Sids : r < s => status[r] # "absent"
              /\ status' = [status EXCEPT ![s] = "uploaded"]
              /\ fileOf' = [fileOf EXCEPT ![s] = f]
              /\ uploading' = uploading \cup {s}
    /\ UNCHANGED <<version, screen, target, staged, basis, link, bookVars, tx>>

(* create, second transaction: by now the session may have been processed  *)
(* or cancelled by somebody else, and is left alone.                       *)
ProcessUpload(s, a) ==
    /\ Free
    /\ s \in uploading
    /\ uploading' = uploading \ {s}
    /\ tx' = IF status[s] = "uploaded" THEN [op |-> "process", s |-> s, answer |-> a] ELSE tx
    /\ UNCHANGED <<sessionVars, screen, bookVars>>

(* answer: refused when the owner's screen showed another version.         *)
Answer(s, a) ==
    /\ Free
    /\ status[s] \in Open
    /\ Shown(s)
    /\ version[s] < MaxVersion
    /\ tx' = [op |-> "process", s |-> s, answer |-> a]
    /\ UNCHANGED <<sessionVars, screen, bookVars, uploading>>

NeedsAnswer(kind, a) == (kind = "bank" /\ a \notin accounts) \/ (kind = "credit" /\ a # Card)

(* Mutant: the session keeps its version when it is processed again. *)
ProcessSessionSameVersion ==
    /\ tx.op = "process"
    /\ LET s == tx.s  found == Candidates(Kind(s), tx.answer) IN
       /\ target' = [target EXCEPT ![s] = tx.answer]
       /\ staged' = [staged EXCEPT ![s] = Staged(Kind(s), RowsOf[fileOf[s]], found)]
       /\ basis' = [basis EXCEPT ![s] = found]
       /\ status' = [status EXCEPT ![s] = IF fileOf[s] \in Blocked THEN "failed"
                                     ELSE IF NeedsAnswer(Kind(s), tx.answer) THEN "needs_input"
                                     ELSE "ready_for_review"]
       /\ UNCHANGED version
    /\ tx' = NoTx
    /\ UNCHANGED <<screen, fileOf, link, bookVars, uploading>>

(* processSession from its first write on: the rows are staged anew, and   *)
(* the session gets its new status whatever happened to it since it was    *)
(* read (the update names the id only).                                    *)
ProcessSession ==
    /\ tx.op = "process"
    /\ LET s == tx.s  found == Candidates(Kind(s), tx.answer) IN
       /\ target' = [target EXCEPT ![s] = tx.answer]
       /\ staged' = [staged EXCEPT ![s] = Staged(Kind(s), RowsOf[fileOf[s]], found)]
       /\ basis' = [basis EXCEPT ![s] = found]
       /\ status' = [status EXCEPT ![s] = IF fileOf[s] \in Blocked THEN "failed"
                                     ELSE IF NeedsAnswer(Kind(s), tx.answer) THEN "needs_input"
                                     ELSE "ready_for_review"]
       /\ version' = [version EXCEPT ![s] = @ + 1]
    /\ tx' = NoTx
    /\ UNCHANGED <<screen, fileOf, link, bookVars, uploading>>

(* Its catch branch: the file is missing or the parser throws; the rows    *)
(* staged before stay.                                                     *)
ProcessFails ==
    /\ tx.op = "process"
    /\ fileOf[tx.s] \in Faulty
    /\ target' = [target EXCEPT ![tx.s] = tx.answer]
    /\ status' = [status EXCEPT ![tx.s] = "failed"]
    /\ version' = [version EXCEPT ![tx.s] = @ + 1]
    /\ tx' = NoTx
    /\ UNCHANGED <<screen, fileOf, staged, basis, link, bookVars, uploading>>

(* GET of a session and its rows by the owner's screen. *)
View(s) ==
    /\ Free
    /\ status[s] \in Open
    /\ screen' = [s |-> s, version |-> version[s], rows |-> staged[s]]
    /\ UNCHANGED <<sessionVars, bookVars, uploading, tx>>
-----------------------------------------------------------------------------
(* Deciding about a row *)

OtherClaims(s, i, id) ==
    \E j \in DOMAIN staged[s] :
        j # i /\ staged[s][j].resolution = "duplicate" /\ staged[s][j].ref = id

(* edit: the owner links row i to an existing row or includes it, and may  *)
(* correct a row that is not a bank's.  Refused when the books changed     *)
(* since staging or another row is linked to the same existing row.  An    *)
(* included row keeps the reference it had.                                *)
Decide(s, i, k, dup) ==
    /\ Free
    /\ status[s] \in {"needs_input", "ready_for_review"}
    /\ Shown(s)
    /\ version[s] < MaxVersion
    /\ i \in DOMAIN staged[s]
    /\ k = staged[s][i].key \/ Kind(s) # "bank"
    /\ basis[s] = Candidates(Kind(s), target[s])
    /\ \E ref \in {0} \cup {t.id : t \in Matching(k, basis[s])} :
          /\ dup = (ref # 0)
          /\ dup => ~OtherClaims(s, i, ref)
          /\ staged' = [staged EXCEPT ![s][i] =
                [key |-> k, resolution |-> IF dup THEN "duplicate" ELSE "include",
                 ref |-> IF dup THEN ref ELSE @.ref,
                 forced |-> ~dup /\ (@.forced \/ @.resolution # "include" \/ @.key # k)]]
    /\ version' = [version EXCEPT ![s] = @ + 1]
    /\ UNCHANGED <<status, screen, fileOf, target, basis, link, bookVars, uploading, tx>>
-----------------------------------------------------------------------------
(* Committing *)

(* commit up to its first write.  A session already in the books is given  *)
(* back as it is.                                                          *)
BeginCommit(s) ==
    /\ Free
    /\ status[s] = "ready_for_review"
    /\ Shown(s)
    /\ tx' = [op |-> "commit", s |-> s]
    /\ UNCHANGED <<sessionVars, screen, bookVars, uploading>>

(* Mutant: the candidates are not compared with the staged ones. *)
ValidStaleBasis(s) ==
    /\ fileOf[s] \notin Blocked /\ ~NeedsAnswer(Kind(s), target[s])
    /\ \A i \in DOMAIN staged[s] :
          staged[s][i].resolution = "duplicate" =>
              \E t \in Candidates(Kind(s), target[s]) : t.id = staged[s][i].ref
    /\ \A i \in DOMAIN staged[s] : staged[s][i].resolution # "review"

(* prepare reports nothing, and validate: every row is decided, the        *)
(* candidates are those the rows were staged against, and every duplicate  *)
(* still matches the row it names.                                         *)
Valid(s) ==
    LET found == Candidates(Kind(s), target[s]) IN
    /\ fileOf[s] \notin Blocked
    /\ ~NeedsAnswer(Kind(s), target[s])
    /\ \A i \in DOMAIN staged[s] : staged[s][i].resolution # "review"
    /\ basis[s] = found
    /\ \A i \in DOMAIN staged[s] :
          staged[s][i].resolution = "duplicate" =>
              \E t \in Matching(staged[s][i].key, found) : t.id = staged[s][i].ref

Included(s) == {i \in DOMAIN staged[s] : staged[s][i].resolution = "include"}

(* The rows a commit adds, with the ids the database gives them in order.  *)
Added(s) ==
    {[id |-> nextId + Cardinality({j \in Included(s) : j < i}),
      kind |-> RowKind[Kind(s)],
      key |-> staged[s][i].key,
      target |-> target[s],
      import |-> IF Kind(s) = "expense_sheet" THEN None ELSE s,
      held |-> FALSE,
      sure |-> ~staged[s][i].forced] : i \in Included(s)}

Book(s) ==
    /\ docs' = [docs EXCEPT ![s] = "imported"]
    /\ status' = [status EXCEPT ![s] = "review"]
    /\ version' = [version EXCEPT ![s] = @ + 1]
    /\ tx' = NoTx
    /\ UNCHANGED <<screen, fileOf, target, staged, basis, confirmed, accounts, byHand, uploading>>

(* commit from its first write on, kind by kind.                           *)
AddRows(s) ==
    /\ nextId + Cardinality(Included(s)) <= MaxMoney + 1
    /\ money' = money \cup Added(s)
    /\ nextId' = nextId + Cardinality(Included(s))

(* importStatement: recorded even when all its rows were there.            *)
CommitStatement ==
    /\ tx.op = "commit"
    /\ Kind(tx.s) = "bank"
    /\ Valid(tx.s)
    /\ AddRows(tx.s)
    /\ imports' = imports \cup {tx.s}
    /\ link' = [link EXCEPT ![tx.s] = tx.s]
    /\ Book(tx.s)

(* createImport: a report is recorded only with rows.  Its early return    *)
(* for a report with the same bytes is never taken: such a report has a    *)
(* session in the books, and the file no second one (OneSessionPerFile).   *)
CommitReport ==
    /\ tx.op = "commit"
    /\ Kind(tx.s) = "credit"
    /\ Valid(tx.s)
    /\ AddRows(tx.s)
    /\ imports' = IF Included(tx.s) = {} THEN imports ELSE imports \cup {tx.s}
    /\ link' = [link EXCEPT ![tx.s] = IF Included(tx.s) = {} THEN None ELSE tx.s]
    /\ Book(tx.s)

(* importExpenses: the expenses name their staged rows, not an import.     *)
CommitSheet ==
    /\ tx.op = "commit"
    /\ Kind(tx.s) = "expense_sheet"
    /\ Valid(tx.s)
    /\ AddRows(tx.s)
    /\ UNCHANGED <<imports, link>>
    /\ Book(tx.s)

(* A refusal, an error or a timeout rolls everything back. *)
Abort ==
    /\ tx # NoTx
    /\ tx' = NoTx
    /\ UNCHANGED <<sessionVars, screen, bookVars, uploading>>
-----------------------------------------------------------------------------
(* After the commit *)

(* finish: the document and the import are still there and a card report   *)
(* is confirmed.  (That no bank row lacks a meaning is left to chance.)    *)
Finish(s) ==
    /\ Free
    /\ status[s] = "review"
    /\ docs[s] = "imported"
    /\ link[s] # None => link[s] \in imports
    /\ (Kind(s) = "credit" /\ link[s] # None) => link[s] \in confirmed
    /\ status' = [status EXCEPT ![s] = "completed"]
    /\ version' = [version EXCEPT ![s] = @ + 1]
    /\ UNCHANGED <<screen, fileOf, target, staged, basis, link, bookVars, uploading, tx>>

(* Mutant: a session in the books may be cancelled as well. *)
CancelAnySession(s) ==
    /\ status[s] \notin Gone
    /\ status' = [status EXCEPT ![s] = "cancelled"]
    /\ version' = [version EXCEPT ![s] = @ + 1]
    /\ UNCHANGED <<screen, fileOf, target, staged, basis, link, bookVars, uploading, tx>>

CancelSession(s) ==
    /\ status[s] \in Open
    /\ status' = [status EXCEPT ![s] = "cancelled"]
    /\ version' = [version EXCEPT ![s] = @ + 1]
    /\ UNCHANGED <<screen, fileOf, target, staged, basis, link, bookVars, uploading, tx>>

(* cancel from a request, and cancel from the connection sync, whose       *)
(* statement asks for no owner's lock.                                     *)
Cancel(s) == Free /\ CancelSession(s)
CancelBySync(s) == fileOf[s] \in SyncFiles /\ CancelSession(s)

(* invalidateImportSessions: every session in the books with this import.  *)
Invalidate(i) ==
    LET hit == {s \in Sids : status[s] \in Booked /\ link[s] = i} IN
    /\ status' = [s \in Sids |-> IF s \in hit THEN "rolled_back" ELSE status[s]]
    /\ version' = [s \in Sids |-> IF s \in hit THEN version[s] + 1 ELSE version[s]]

(* Mutant: rows worked on by hand are deleted with the others. *)
WithoutRowsOfAll(i) == {t \in money : t.import # i}

(* Mutant: rows worked on by hand keep naming the file they came from. *)
WithoutRowsOfFree(i) == {t \in money : t.import # i \/ t.held}

(* The rows left when an import is undone: a bank row excluded or linked   *)
(* to a loan by hand is detached from its file and kept.                   *)
WithoutRowsOf(i) ==
    {t \in money : t.import # i}
        \cup {[t EXCEPT !.import = None] : t \in {u \in money : u.import = i /\ u.held}}

CanRollback(s) ==
    /\ docs[s] = "imported"
    /\ Kind(s) # "expense_sheet"
    /\ link[s] # None
    /\ Kind(s) = "bank" => link[s] \in imports

(* Mutant: the sessions of the import are not invalidated. *)
RollbackForgetsSessions(s) ==
    /\ Free /\ CanRollback(s)
    /\ money' = WithoutRowsOf(link[s])
    /\ imports' = imports \ {link[s]}
    /\ confirmed' = confirmed \ {link[s]}
    /\ docs' = [docs EXCEPT ![s] = "rolled_back"]
    /\ UNCHANGED <<sessionVars, screen, nextId, accounts, byHand, uploading, tx>>

(* documents.rollback.  A card report that is gone already is marked.      *)
Rollback(s) ==
    /\ Free
    /\ CanRollback(s)
    /\ money' = WithoutRowsOf(link[s])
    /\ imports' = imports \ {link[s]}
    /\ confirmed' = confirmed \ {link[s]}
    /\ docs' = [docs EXCEPT ![s] = "rolled_back"]
    /\ Invalidate(link[s])
    /\ UNCHANGED <<screen, fileOf, target, staged, basis, link, nextId, accounts, byHand, uploading, tx>>

ConfirmReport(i) ==
    /\ Free
    /\ i \in imports \ confirmed
    /\ Kind(i) = "credit"
    /\ confirmed' = confirmed \cup {i}
    /\ UNCHANGED <<sessionVars, screen, money, nextId, imports, docs, accounts, byHand, uploading, tx>>

(* credit.removeImport: the document keeps its status.                     *)
RemoveReport(i) ==
    /\ Free
    /\ i \in imports
    /\ Kind(i) = "credit"
    /\ money' = {t \in money : t.import # i}
    /\ imports' = imports \ {i}
    /\ confirmed' = confirmed \ {i}
    /\ Invalidate(i)
    /\ UNCHANGED <<screen, fileOf, target, staged, basis, link, nextId, docs, accounts, byHand, uploading, tx>>

(* bank.removeAccount: its rows and statements go with it (on delete       *)
(* cascade); the sessions are not touched.                                 *)
RemoveAccount(a) ==
    /\ Free
    /\ a \in accounts
    /\ accounts' = accounts \ {a}
    /\ money' = {t \in money : t.target # a}
    /\ imports' = {i \in imports : target[i] # a}
    /\ UNCHANGED <<sessionVars, screen, nextId, confirmed, docs, byHand, uploading, tx>>
-----------------------------------------------------------------------------
(* Other requests on the same rows *)

WorkByHand == byHand < MaxByHand /\ byHand' = byHand + 1

(* A bank row or an expense typed in by hand. *)
TypeIn(kind, k, a) ==
    /\ Free
    /\ kind = "bank" => a \in accounts
    /\ kind # "bank" => a = None
    /\ nextId <= MaxMoney
    /\ WorkByHand
    /\ money' = money \cup {[id |-> nextId, kind |-> kind, key |-> k, target |-> a,
                             import |-> None, held |-> FALSE, sure |-> FALSE]}
    /\ nextId' = nextId + 1
    /\ UNCHANGED <<sessionVars, screen, imports, confirmed, docs, accounts, uploading, tx>>

(* bank.removeTransaction and the removal of an expense. *)
Delete(t) ==
    /\ Free
    /\ WorkByHand
    /\ t.kind # "credit"
    /\ money' = money \ {t}
    /\ UNCHANGED <<sessionVars, screen, nextId, imports, confirmed, docs, accounts, uploading, tx>>

(* A bank row is excluded, or linked to a loan, by hand. *)
Hold(t) ==
    /\ Free
    /\ WorkByHand
    /\ t.kind = "bank"
    /\ ~t.held
    /\ money' = (money \ {t}) \cup {[t EXCEPT !.held = TRUE]}
    /\ UNCHANGED <<sessionVars, screen, nextId, imports, confirmed, docs, accounts, uploading, tx>>

(* The process dies: open transactions are rolled back, and an upload that *)
(* was between its two transactions never processes its session.           *)
Crash ==
    /\ tx # NoTx \/ uploading # {}
    /\ tx' = NoTx
    /\ uploading' = {}
    /\ UNCHANGED <<sessionVars, screen, bookVars>>

Answers(s) == CASE Kind(s) = "bank" -> accounts \cup {None}
                [] Kind(s) = "credit" -> {Card, None}
                [] OTHER -> {None}

SessionStep(s) ==
    \/ \E a \in Answers(s) : ProcessUpload(s, a) \/ Answer(s, a)
    \/ \E i \in DOMAIN staged[s], k \in Keys, dup \in BOOLEAN : Decide(s, i, k, dup)
    \/ View(s) \/ BeginCommit(s) \/ Finish(s) \/ Cancel(s) \/ CancelBySync(s)
    \/ Rollback(s) \/ ConfirmReport(s) \/ RemoveReport(s)

Next ==
    \/ \E f \in Files : Upload(f)
    \/ \E s \in {r \in Sids : status[r] # "absent"} : SessionStep(s)
    \/ ProcessSession \/ ProcessFails
    \/ CommitStatement \/ CommitReport \/ CommitSheet
    \/ Abort \/ Crash
    \/ \E a \in Removable : RemoveAccount(a)
    \/ \E kind \in ManualKinds, k \in Keys, a \in Accounts \cup {None} : TypeIn(kind, k, a)
    \/ \E t \in money : Delete(t) \/ Hold(t)

Spec == Init /\ [][Next]_vars
-----------------------------------------------------------------------------
(* Properties *)

(* How often a file holds a row. *)
Occurrences(f, k) == Cardinality({i \in DOMAIN RowsOf[f] : RowsOf[f][i] = k})

(* However files overlap, are uploaded again, rolled back or approved from *)
(* several open sessions, the books never hold more imported rows of a key *)
(* than some single file reports, unless the owner chose to include a row  *)
(* that looked like a duplicate: "re-uploading is safe" (bank.service.ts), *)
(* and a card report and an expense sheet do not count a purchase twice.   *)
NoDoubleImport ==
    \A k \in Keys : \A side \in {{"bank"}, {"credit", "expense"}} : \A a \in Accounts \cup {None} :
        \A n \in 1..MaxMoney :
            Cardinality({t \in money : t.sure /\ t.key = k /\ t.kind \in side
                                       /\ (t.kind = "bank" => t.target = a)}) >= n
                => \E f \in Files : RowKind[KindOf[f]] \in side /\ Occurrences(f, k) >= n

(* A commit leaves in the books a row of its own for every row the owner   *)
(* approved: what was linked as a duplicate is linked one to one, and      *)
(* what was included was added, so nothing of the file is missing.         *)
CommitCoversFile ==
    [][\A s \in Sids : status[s] # "review" /\ status'[s] = "review" =>
          \A k \in Keys :
              Cardinality({i \in DOMAIN staged[s] : staged[s][i].key = k})
                  <= Cardinality({t \in Candidates(Kind(s), target[s])' : t.key = k})]_vars

(* The owner approves what the screen showed: when her version is still    *)
(* the session's, so are the rows, whoever edited or processed it since.   *)
SameVersionSameRows ==
    \A s \in Sids : status[s] \in Open /\ Shown(s) => screen.rows = staged[s]

(* An undone import leaves none of its rows in the books and no session    *)
(* that says its rows were added: the two ways of undoing it, from the     *)
(* document and from the card reports, agree.                              *)
NothingLeftBehind ==
    /\ \A t \in money : t.import # None => t.import \in imports
    /\ \A i \in imports : \E s \in Sids : link[s] = i /\ status[s] \in Booked
    /\ \A s \in Sids : status[s] \in Booked /\ Kind(s) = "credit" /\ link[s] # None
                           => link[s] \in imports

(* What was decided by hand outlives the file it came from: undoing an     *)
(* import never removes a row the owner excluded or linked to a loan.      *)
HandWorkSurvivesRollback ==
    [][(\E s \in Sids : status[s] \in Booked /\ status'[s] = "rolled_back") =>
          \A t \in money : t.held => \E u \in money' : u.id = t.id /\ u.held]_vars

(* One file has at most one session on its way or in the books, although   *)
(* the sync cancels without the owner's lock and a session it cancelled    *)
(* may come back to life.                                                  *)
OneSessionPerFile ==
    \A r, s \in Sids :
        /\ r # s
        /\ {status[r], status[s]} \cap (Gone \cup {"absent"}) = {}
        => fileOf[r] # fileOf[s]

(* Where a session stands for the owner, and the rows it put in the books. *)
LifeOf(s) == IF status[s] \in Open THEN "offered"
             ELSE IF status[s] \in Booked THEN "booked"
             ELSE IF status[s] = "cancelled" THEN "withdrawn"
             ELSE IF status[s] = "rolled_back" THEN "undone"
             ELSE "absent"
EntriesOf(s) == {t.id : t \in {u \in money : u.import = s}}

(* Each session is offered, then booked as a whole or withdrawn, and what  *)
(* was booked may be undone once: SessionLifecycle.                        *)
Lifecycle == INSTANCE SessionLifecycle WITH
    Sessions <- Sids,
    life <- [s \in Sids |-> LifeOf(s)],
    entries <- [s \in Sids |-> EntriesOf(s)]

FollowsLifecycle == Lifecycle!AbstractSpec

(* A cancelled session stays cancelled: "Serialize financial imports per   *)
(* owner, including workflow state and outputs" (config/database.ts).      *)
CancelledStaysCancelled ==
    [][\A s \in Sids : status[s] = "cancelled" => status'[s] = "cancelled"]_vars

(* An import that has added rows can be cancelled from the documents       *)
(* screen (the refusal of importSession.service.ts, cancel).               *)
BookedCanBeUndone == \A s \in Sids : status[s] \in Booked => CanRollback(s)
=============================================================================
