--------------------------- MODULE DuplicateReview ---------------------------
(***************************************************************************)
(* The review of likely duplicates (modules/householdAssistant: duplicates,*)
(* duplicateScan.service, duplicateReview.service; the screen that sends   *)
(* the decisions, components/assistant/DuplicateReview.tsx).  The screen   *)
(* reads a group of records that coincide and later sends a decision under *)
(* a request id, again if the answer was lost; a removal can be undone from*)
(* the history.  Each request is one financial transaction, so it is one   *)
(* step; what happens between a read and its request is every step here.   *)
(* The records all carry one name, date and amount and so coincide, as     *)
(* spending or as income, until an edit sets one apart.  The 90 days and   *)
(* 2000 rows of a scan are taken to hold all of them.                      *)
(***************************************************************************)
EXTENDS Naturals, FiniteSets

CONSTANTS Keys,          \* manual expenses and incomes, card rows
          Households,    \* the kinds of the records a household may have
          Scope,         \* payment method, income type or card of a record
          Eligible,      \* expenses paid by card or by no known method
          BankRows,      \* bank rows of that date and amount, resolved as income
          Requests,      \* request ids of the screen
          None,
          MaxVersion,    \* bound: versions of a record
          MaxChanges     \* bound: changes made to records by hand

(* What is assumed of the constants.                                         *)
ReviewAssumption ==
    /\ Households \subseteq [Keys -> {"expense", "income", "credit"}]
    /\ Eligible \subseteq Keys /\ None \notin Keys
    /\ {MaxVersion, MaxChanges} \subseteq Nat

VARIABLES kind,       \* of each record: expense, income or credit
          version,    \* updatedAt of each record, 0 when there is none
          stamp,      \* the last version a record had
          apart,      \* records edited so that they coincide with no other
          linked,     \* records a bank row is linked to
          orphans,    \* bank rows resolved as income whose link was lost
          category,   \* the category of the manual expenses still exists
          discarded,  \* records deleted by hand or with their bank row
          changes,    \* changes made by hand
          reviews,    \* the decision stored under each request id
          asked,      \* the decision the screen sent under it
          undoing     \* the version of the decision the history showed when undone

records == <<kind, version, stamp, apart, linked, orphans, discarded, changes>>
reviewVars == <<kind, version, stamp, apart, linked, orphans, category, discarded, changes, reviews,
                asked, undoing>>

ReviewInit ==
    /\ kind \in Households /\ changes = 0
    /\ stamp \in {[k \in Keys |-> IF k \in new THEN 0 ELSE 1] : new \in {{k} : k \in Keys} \cup {{}}}
    /\ version = stamp
    /\ apart = {} /\ discarded = {} /\ category = TRUE
    /\ linked \in {{}} \cup {{k} : k \in {i \in Keys : kind[i] = "income" /\ stamp[i] > 0}}
    /\ orphans \in SUBSET BankRows
    /\ reviews = [r \in Requests |-> None]
    /\ asked = [r \in Requests |-> None]
    /\ undoing = [r \in Requests |-> None]
-----------------------------------------------------------------------------
Here(k) == version[k] > 0

(* The records a scan reads, and the groups of them that coincide.           *)
Scanned == {k \in Keys : Here(k) /\ k \notin apart /\ (kind[k] = "credit" \/ k \notin linked)}
Money(k) == kind[k] = "income"
SameEntry(k) == {j \in Scanned : /\ Money(j) = Money(k)
                                 /\ kind[j] = kind[k] /\ Scope[j] = Scope[k]}
ByCard(k) == kind[k] = "expense" /\ k \in Eligible
ManualAndCard(k) == {j \in Scanned : Money(j) = Money(k) /\ (kind[j] = "credit" \/ ByCard(j))}

Candidates ==
    {[reason |-> "same_entry", keys |-> g] :
        g \in {s \in {SameEntry(k) : k \in Scanned} : Cardinality(s) > 1}}
    \cup {[reason |-> "manual_and_card", keys |-> g] :
        g \in {s \in {ManualAndCard(k) : k \in Scanned} :
                 /\ \E j \in s : ByCard(j)
                 /\ \E j \in s : kind[j] = "credit"}}

(* currentEvidence: what a record is now; a link to a bank row changes it.   *)
Evidence(k) == <<version[k], Here(k) /\ k \in linked>>
ScanVersion(c) == [k \in c.keys |-> version[k]]
Unchanged(k, ver) == Evidence(k) = <<ver, FALSE>>

Active(r) == reviews[r] # None /\ ~reviews[r].undone
Removal(r) == Active(r) /\ reviews[r].decision = "remove_manual"
ResolvedNow(c, ver) == \E r \in Requests : Active(r) /\ reviews[r].cand = c /\ reviews[r].seen = ver
Pending == {c \in Candidates : ~ResolvedNow(c, ScanVersion(c))}
-----------------------------------------------------------------------------
(* The screen shows a pending group and its owner decides; the request is    *)
(* sent under a new id and may arrive at any later moment, and again.        *)
Ask(r) ==
    /\ asked[r] = None
    /\ \E c \in Pending, d \in {"separate", "remove_manual", "source_charge"},
          gone \in Keys \cup {None}, kept \in Keys \cup {None} :
        /\ IF d = "remove_manual"
           THEN {gone, kept} \subseteq c.keys /\ gone # kept /\ kind[gone] # "credit"
           ELSE gone = None /\ kept = None
        /\ d = "source_charge" => \A k \in c.keys : kind[k] = "credit"
        /\ asked' = [asked EXCEPT ![r] = [cand |-> c, seen |-> ScanVersion(c), decision |-> d,
                                          removed |-> gone, kept |-> kept]]
    /\ UNCHANGED <<records, category, reviews, undoing>>

(* An income the bank shows is no second entry of it.                        *)
RequireUnbanked(k) ==
    kind[k] = "income" => orphans = {}

(* The body of decideDuplicate for a request id it has no decision under.    *)
AcceptAgain(a) ==   \* mutant: a group somebody else decided about is decided about again
    /\ a.cand \in Candidates /\ a.seen = ScanVersion(a.cand)
    /\ \A k \in a.cand.keys : Unchanged(k, a.seen[k])
    /\ a.removed # None => RequireUnbanked(a.removed)

AcceptStale(a) ==   \* mutant: a decision is taken for whatever the group is now
    /\ a.removed # None => Here(a.removed) /\ RequireUnbanked(a.removed)
    /\ ~ResolvedNow(a.cand, a.seen)

Accept(a) ==
    /\ a.cand \in Candidates /\ a.seen = ScanVersion(a.cand)
    /\ ~ResolvedNow(a.cand, a.seen)
    /\ \A k \in a.cand.keys : Unchanged(k, a.seen[k])
    /\ a.removed # None => RequireUnbanked(a.removed)

Unanswered(r) == asked[r] # None /\ reviews[r] = None

Decide(r) ==
    /\ Unanswered(r)
    /\ Accept(asked[r])
    /\ reviews' = [reviews EXCEPT ![r] = [cand |-> asked[r].cand, seen |-> asked[r].seen,
                       decision |-> asked[r].decision, removed |-> asked[r].removed,
                       category |-> category, undone |-> FALSE]]
    /\ version' = [k \in Keys |-> IF k = asked[r].removed THEN 0 ELSE version[k]]
    /\ UNCHANGED <<kind, stamp, apart, linked, orphans, category, discarded, changes, asked, undoing>>

(* restoreBlocker: a removal is undone only where everything else is as it   *)
(* was; the version of a decision the history shows.                         *)
CanUndo(r) ==
    /\ Active(r)
    /\ Removal(r) =>
        LET d == reviews[r] IN
        /\ ~Here(d.removed)
        /\ \A k \in d.cand.keys \ {d.removed} : Unchanged(k, d.seen[k])
        /\ kind[d.removed] = "expense" /\ d.category => category

ReviewVersion(r) ==
    [undone |-> reviews[r].undone,
     now |-> [k \in reviews[r].cand.keys |-> IF Here(k) THEN Evidence(k) ELSE <<0, FALSE>>]]

AskUndo(r) ==
    /\ CanUndo(r)
    /\ undoing[r] # ReviewVersion(r)
    /\ undoing' = [undoing EXCEPT ![r] = ReviewVersion(r)]
    /\ UNCHANGED <<records, category, reviews, asked>>

Undone(r) == [reviews EXCEPT ![r].undone = TRUE]

Undo(r) ==
    /\ undoing[r] # None /\ Active(r)
    /\ undoing[r] = ReviewVersion(r)
    /\ CanUndo(r)
    /\ IF Removal(r)
       THEN LET k == reviews[r].removed IN
            /\ stamp[k] < MaxVersion
            /\ stamp' = [stamp EXCEPT ![k] = @ + 1]
            /\ version' = [version EXCEPT ![k] = stamp[k] + 1]
       ELSE UNCHANGED <<stamp, version>>
    /\ reviews' = Undone(r)
    /\ UNCHANGED <<kind, apart, linked, orphans, category, discarded, changes, asked, undoing>>
-----------------------------------------------------------------------------
(* What else happens to the records.                                         *)
ByHand == changes < MaxChanges /\ changes' = changes + 1

Touch(k, moved) ==
    /\ ByHand /\ stamp[k] < MaxVersion
    /\ stamp' = [stamp EXCEPT ![k] = @ + 1]
    /\ version' = [version EXCEPT ![k] = stamp[k] + 1]
    /\ apart' = apart \cup moved
    /\ UNCHANGED <<kind, linked, orphans, category, discarded, reviews, asked, undoing>>

Add(k) == stamp[k] = 0 /\ Touch(k, {})
Edit(k) == Here(k) /\ \E moved \in {{}, {k} \ apart} : Touch(k, moved)

Discard(k) ==   \* by hand; a linked one also by resolving its bank row otherwise
    /\ ByHand /\ Here(k)
    /\ version' = [version EXCEPT ![k] = 0]
    /\ discarded' = discarded \cup {k}
    /\ linked' \in {linked, linked \ {k}}
    /\ UNCHANGED <<kind, stamp, apart, orphans, category, reviews, asked, undoing>>

(* A reconciliation pass gives an unlinked bank row an income of its own.    *)
Relink(b) ==
    /\ b \in orphans
    /\ orphans' = orphans \ {b}
    /\ UNCHANGED <<kind, version, stamp, apart, linked, category, discarded, changes, reviews, asked, undoing>>

(* Deleting a category takes it off the expenses that had it.                *)
DropCategory ==
    /\ ByHand /\ category
    /\ category' = FALSE
    /\ \A k \in Keys : kind[k] = "expense" /\ Here(k) => stamp[k] < MaxVersion
    /\ stamp' = [k \in Keys |-> IF kind[k] = "expense" /\ Here(k) THEN stamp[k] + 1 ELSE stamp[k]]
    /\ version' = [k \in Keys |-> IF Here(k) THEN stamp'[k] ELSE 0]
    /\ UNCHANGED <<kind, apart, linked, orphans, discarded, reviews, asked, undoing>>

ReviewNext ==
    \/ \E r \in Requests : Ask(r) \/ Decide(r) \/ AskUndo(r) \/ Undo(r)
    \/ \E k \in Keys : Add(k) \/ Edit(k) \/ Discard(k)
    \/ \E b \in BankRows : Relink(b)
    \/ DropCategory

ReviewSpec == ReviewInit /\ [][ReviewNext]_reviewVars
-----------------------------------------------------------------------------
(* A record that is missing was deleted by hand or is the subject of exactly *)
(* one removal that can still be undone, and no such removal names a record  *)
(* that is there: however requests are lost, repeated or delayed, a decision *)
(* takes a record once and an undo gives it back once                        *)
(* (duplicateReview.service.ts:133-139, 192, 205).                           *)
RemovalsAccounted ==
    \A k \in Keys :
        LET by == {r \in Requests : Removal(r) /\ reviews[r].removed = k} IN
        IF stamp[k] > 0 /\ ~Here(k) /\ k \notin discarded THEN Cardinality(by) = 1 ELSE by = {}

(* One version of a group has at most one decision in force                  *)
(* (duplicateReview.service.ts:142).                                         *)
OneDecisionInForce ==
    \A r, q \in Requests :
        Active(r) /\ Active(q) /\ reviews[r].cand = reviews[q].cand /\ reviews[r].seen = reviews[q].seen
        => r = q

(* However requests are lost, repeated or delayed, a decision takes a record *)
(* once, an undo gives it back once, and each version of a group has one     *)
(* decision in force: the two invariants above together.                     *)
DecisionsAccounted == RemovalsAccounted /\ OneDecisionInForce

(* A decision never takes the last record of the money it names: the one its *)
(* owner chose to keep is there, as it was when the group was read           *)
(* (duplicateReview.service.ts:141, 146, 152); nor an income a bank row      *)
(* shows and no other record accounts for (lines 118-129).                   *)
KeepsTheOther(r) ==
    /\ version'[asked[r].kept] = asked[r].seen[asked[r].kept]
    /\ asked[r].kept \notin apart' /\ Money(asked[r].kept) = Money(asked[r].removed)
KeepsBankIncome(r) ==
    /\ asked[r].removed \notin linked
    /\ kind[asked[r].removed] = "income" => orphans = {}
RemovesOnlyDoubles ==
    [][\A r \in Requests : reviews[r] = None /\ Removal(r)' => KeepsTheOther(r) /\ KeepsBankIncome(r)]_reviewVars

(* Both promises of the review.                                              *)
DuplicatesSettled == []DecisionsAccounted /\ RemovesOnlyDoubles
=============================================================================
