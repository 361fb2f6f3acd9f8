--------------------------- MODULE HouseholdProofs ---------------------------
(***************************************************************************)
(* Three parts of the household's desk keep what they promise, for any     *)
(* number of their things: the review of likely duplicates, for any        *)
(* records, households, scopes, bank rows and requests; the log of         *)
(* documents, for any files, names, sessions and documents; and the list   *)
(* of payments ahead, for any calendar, plans, cards, debits and decisions.*)
(***************************************************************************)
EXTENDS DuplicateReview, DocumentStore, Obligations, Sums

(* The review of duplicates.  The strengthening ties each record that went   *)
(* missing without being deleted by hand to the removal that took it: a      *)
(* removal in force names a missing record, no two name the same one, and    *)
(* what the screen asked for is about a group of its own.                    *)
Groups == [reason : {"same_entry", "manual_and_card"}, keys : SUBSET Keys]
Versions == UNION {[S -> Nat] : S \in SUBSET Keys}
Verdicts == {"separate", "remove_manual", "source_charge"}
Decisions == [cand : Groups, seen : Versions, decision : Verdicts, removed : Keys \cup {None},
              category : BOOLEAN, undone : BOOLEAN]
Asks == [cand : Groups, seen : Versions, decision : Verdicts, removed : Keys \cup {None},
         kept : Keys \cup {None}]

(* No decision and no request is the absence of one.                         *)
NoneIsNoDecision == None \notin Decisions /\ None \notin Asks

ReviewTypeOK ==
    /\ kind \in [Keys -> {"expense", "income", "credit"}]
    /\ version \in [Keys -> Nat] /\ stamp \in [Keys -> Nat] /\ category \in BOOLEAN
    /\ reviews \in [Requests -> Decisions \cup {None}]
    /\ asked \in [Requests -> Asks \cup {None}]

(* A record that is there had a version and was not deleted.                 *)
Stamped ==
    /\ \A k \in Keys : Here(k) => stamp[k] > 0
    /\ discarded \subseteq {k \in Keys : stamp[k] > 0 /\ ~Here(k)}

(* A removal the screen asked for takes one record of a group, of no card,   *)
(* and keeps another; no other request takes any.                            *)
WellAsked(a) ==
    IF a.decision = "remove_manual"
    THEN {a.removed, a.kept} \subseteq a.cand.keys /\ a.removed # a.kept /\ kind[a.removed] # "credit"
    ELSE a.removed = None
AskedWell == \A r \in Requests : asked[r] # None => WellAsked(asked[r])

Gone == {k \in Keys : stamp[k] > 0 /\ ~Here(k) /\ k \notin discarded}
Takes(r, k) == Removal(r) /\ reviews[r].removed = k
TakenOnce ==
    /\ \A r \in Requests : Removal(r) => reviews[r].removed \in Gone
    /\ \A k \in Gone : \E r \in Requests : Takes(r, k)
    /\ \A r, q \in Requests : Removal(r) /\ Removal(q) /\ reviews[r].removed = reviews[q].removed => r = q

RInv == ReviewTypeOK /\ Stamped /\ AskedWell /\ TakenOnce /\ OneDecisionInForce
-----------------------------------------------------------------------------
(* What a group is: records the scan read, all of them of one money.         *)
LEMMA GroupsAreScanned ==
    ASSUME NEW c \in Candidates
    PROVE  /\ c \in Groups /\ c.keys \subseteq Scanned
           /\ \A j, k \in c.keys : Money(j) = Money(k)
  <1>1. Scanned \subseteq Keys  BY DEF Scanned
  <1>2. CASE \E k \in Scanned : c = [reason |-> "same_entry", keys |-> SameEntry(k)]
    <2>1. PICK k \in Scanned : c = [reason |-> "same_entry", keys |-> SameEntry(k)]  BY <1>2
    <2>2. SameEntry(k) \subseteq Scanned /\ \A j \in SameEntry(k) : Money(j) = Money(k)  BY DEF SameEntry
    <2> QED  BY <1>1, <2>1, <2>2 DEF Groups
  <1>3. CASE \E k \in Scanned : c = [reason |-> "manual_and_card", keys |-> ManualAndCard(k)]
    <2>1. PICK k \in Scanned : c = [reason |-> "manual_and_card", keys |-> ManualAndCard(k)]  BY <1>3
    <2>2. ManualAndCard(k) \subseteq Scanned /\ \A j \in ManualAndCard(k) : Money(j) = Money(k)  BY DEF ManualAndCard
    <2> QED  BY <1>1, <2>1, <2>2 DEF Groups
  <1> QED  BY <1>2, <1>3 DEF Candidates

(* The version a group is shown at is a version of its records.              *)
LEMMA ScansAreVersions ==
    ASSUME version \in [Keys -> Nat], NEW c \in Groups
    PROVE  ScanVersion(c) \in Versions
  <1>1. c.keys \in SUBSET Keys  BY DEF Groups
  <1>2. ScanVersion(c) \in [c.keys -> Nat]  BY <1>1 DEF ScanVersion
  <1> QED  BY <1>1, <1>2 DEF Versions

(* A household begins with no decision and no request.                       *)
LEMMA ReviewStarts ==
    ASSUME ReviewAssumption, NoneIsNoDecision, ReviewInit
    PROVE  RInv
  <1>1. ReviewTypeOK
    <2>1. kind \in [Keys -> {"expense", "income", "credit"}]  BY DEF ReviewAssumption, ReviewInit
    <2>2. PICK new \in {{k} : k \in Keys} \cup {{}} : stamp = [k \in Keys |-> IF k \in new THEN 0 ELSE 1]
      BY DEF ReviewInit
    <2>3. stamp \in [Keys -> Nat]  BY <2>2
    <2> QED  BY <2>1, <2>3 DEF ReviewTypeOK, ReviewInit
  <1>2. Stamped  BY <1>1 DEF Stamped, ReviewTypeOK, ReviewInit, Here
  <1>3. AskedWell  BY DEF AskedWell, ReviewInit
  <1>4. TakenOnce  BY <1>1 DEF TakenOnce, Gone, Here, Takes, Removal, Active, ReviewInit, ReviewTypeOK
  <1>5. OneDecisionInForce  BY DEF OneDecisionInForce, Active, ReviewInit
  <1> QED  BY <1>1, <1>2, <1>3, <1>4, <1>5 DEF RInv
-----------------------------------------------------------------------------
(* A request takes nothing and decides nothing by being asked.               *)
LEMMA AskingIsSafe ==
    ASSUME ReviewAssumption, NoneIsNoDecision, RInv, NEW r \in Requests, Ask(r)
    PROVE  RInv'
  <1>1. PICK c \in Pending, d \in {"separate", "remove_manual", "source_charge"},
             gone \in Keys \cup {None}, kept \in Keys \cup {None} :
          /\ IF d = "remove_manual"
             THEN {gone, kept} \subseteq c.keys /\ gone # kept /\ kind[gone] # "credit"
             ELSE gone = None /\ kept = None
          /\ d = "source_charge" => \A k \in c.keys : kind[k] = "credit"
          /\ asked' = [asked EXCEPT ![r] = [cand |-> c, seen |-> ScanVersion(c), decision |-> d,
                                            removed |-> gone, kept |-> kept]]
    BY DEF Ask
  <1>2. c \in Groups  BY GroupsAreScanned DEF Pending
  <1>3. ScanVersion(c) \in Versions  BY <1>2, ScansAreVersions DEF RInv, ReviewTypeOK
  <1> DEFINE a == [cand |-> c, seen |-> ScanVersion(c), decision |-> d, removed |-> gone, kept |-> kept]
  <1>4. a \in Asks /\ WellAsked(a)  BY <1>1, <1>2, <1>3 DEF Asks, WellAsked, Verdicts
  <1>5. UNCHANGED <<records, category, reviews>>  BY DEF Ask
  <1> HIDE DEF a
  <1>6. asked' = [asked EXCEPT ![r] = a]  BY <1>1 DEF a
  <1>7. ReviewTypeOK'  BY <1>4, <1>5, <1>6 DEF RInv, ReviewTypeOK, records
  <1>8. AskedWell'
    <2> SUFFICES ASSUME NEW q \in Requests, asked'[q] # None
                 PROVE  WellAsked(asked[q])'
      BY DEF AskedWell
    <2>1. kind' = kind  BY <1>5 DEF records
    <2>2. CASE q = r  BY <1>4, <1>6, <2>1, <2>2 DEF WellAsked, RInv, ReviewTypeOK
    <2>3. CASE q # r
      <3>1. asked'[q] = asked[q]  BY <1>6, <2>3 DEF RInv, ReviewTypeOK
      <3> QED  BY <3>1, <2>1 DEF WellAsked, RInv, AskedWell
    <2> QED  BY <2>2, <2>3
  <1>9. Stamped' /\ TakenOnce' /\ OneDecisionInForce'
    BY <1>5 DEF RInv, Stamped, TakenOnce, OneDecisionInForce, records, Here, Gone, Takes, Removal, Active
  <1> QED  BY <1>7, <1>8, <1>9 DEF RInv

(* What a request that is accepted brings about.                             *)
LEMMA DecisionsTakeOne ==
    ASSUME ReviewAssumption, NoneIsNoDecision, RInv, NEW r \in Requests, Decide(r)
    PROVE  /\ reviews[r] = None /\ asked[r] \in Asks /\ asked[r] # None /\ WellAsked(asked[r])
           /\ asked[r].cand \in Candidates /\ asked[r].seen = ScanVersion(asked[r].cand)
           /\ reviews'[r] \in Decisions /\ reviews'[r] # None
           /\ ~reviews'[r].undone /\ reviews'[r].decision = asked[r].decision
           /\ reviews'[r].removed = asked[r].removed
           /\ reviews'[r].cand = asked[r].cand /\ reviews'[r].seen = asked[r].seen
           /\ reviews' \in [Requests -> Decisions \cup {None}]
           /\ \A q \in Requests \ {r} : reviews'[q] = reviews[q]
  <1>1. reviews[r] = None /\ asked[r] # None /\ Accept(asked[r])  BY DEF Decide, Unanswered
  <1>2. asked[r] \in Asks /\ WellAsked(asked[r])  BY <1>1 DEF RInv, ReviewTypeOK, AskedWell
  <1>3. asked[r].cand \in Candidates /\ asked[r].seen = ScanVersion(asked[r].cand)  BY <1>1 DEF Accept
  <1> DEFINE d == [cand |-> asked[r].cand, seen |-> asked[r].seen, decision |-> asked[r].decision,
                   removed |-> asked[r].removed, category |-> category, undone |-> FALSE]
  <1>4. d \in Decisions  BY <1>2 DEF Decisions, Asks, RInv, ReviewTypeOK
  <1>5. reviews' = [reviews EXCEPT ![r] = d]  BY DEF Decide
  <1>6. /\ d.undone = FALSE /\ d.decision = asked[r].decision /\ d.removed = asked[r].removed
        /\ d.cand = asked[r].cand /\ d.seen = asked[r].seen
    OBVIOUS
  <1> HIDE DEF d
  <1>7. reviews'[r] = d /\ reviews' \in [Requests -> Decisions \cup {None}]
        /\ \A q \in Requests \ {r} : reviews'[q] = reviews[q]
    BY <1>4, <1>5 DEF RInv, ReviewTypeOK
  <1> QED  BY <1>1, <1>2, <1>3, <1>4, <1>6, <1>7 DEF NoneIsNoDecision

(* A decision takes a record that is there and no removal names.             *)
LEMMA DecidingIsSafe ==
    ASSUME ReviewAssumption, NoneIsNoDecision, RInv, NEW r \in Requests, Decide(r)
    PROVE  RInv'
  <1> DEFINE gone == asked[r].removed
  <1>1. UNCHANGED <<kind, stamp, category, discarded, asked>>  BY DEF Decide
  <1>2. version' = [k \in Keys |-> IF k = gone THEN 0 ELSE version[k]]  BY DEF Decide
  <1>3. /\ reviews[r] = None /\ WellAsked(asked[r]) /\ reviews'[r] # None /\ ~reviews'[r].undone
        /\ reviews'[r].decision = asked[r].decision /\ reviews'[r].removed = gone
        /\ reviews'[r].cand = asked[r].cand /\ reviews'[r].seen = asked[r].seen
        /\ reviews' \in [Requests -> Decisions \cup {None}]
        /\ \A q \in Requests \ {r} : reviews'[q] = reviews[q]
        /\ asked[r].cand.keys \subseteq Scanned
    BY DecisionsTakeOne, GroupsAreScanned
  <1>4. ReviewTypeOK'  BY <1>1, <1>2, <1>3 DEF RInv, ReviewTypeOK
  <1>5. \A k \in Keys : k # gone => version'[k] = version[k]  BY <1>2
  <1>6. ASSUME asked[r].decision = "remove_manual"
        PROVE  Stamped' /\ TakenOnce'
    <2>1. gone \in Keys /\ Here(gone)  BY <1>3, <1>6 DEF WellAsked, Scanned
    <2>2. stamp[gone] > 0 /\ gone \notin discarded /\ gone \notin Gone  BY <2>1 DEF RInv, Stamped, Gone
    <2>3. version'[gone] = 0  BY <1>2, <2>1
    <2>4. Removal(r)' /\ ~Removal(r)  BY <1>3, <1>6 DEF Removal, Active
    <2>5. gone \in Gone'  BY <1>1, <2>1, <2>2, <2>3 DEF Gone, Here
    <2>6. \A k \in Keys : k # gone => (k \in Gone' <=> k \in Gone) /\ (Here(k)' <=> Here(k))
      BY <1>1, <1>5 DEF Gone, Here
    <2>7. \A q \in Requests : q # r => (Removal(q)' <=> Removal(q)) /\ reviews'[q] = reviews[q]
      BY <1>3 DEF Removal, Active
    <2>8. \A q \in Requests : Removal(q) => reviews[q].removed # gone  BY <2>2 DEF RInv, TakenOnce
    <2> HIDE DEF gone
    <2>9. Stamped'
      BY <1>1, <2>1, <2>2, <2>3, <2>6 DEF RInv, Stamped, Here
    <2>10. Gone' \subseteq Keys /\ Gone \subseteq Keys  BY DEF Gone
    <2>11. \A q \in Requests : Removal(q)' => reviews'[q].removed \in Gone'
      <3> SUFFICES ASSUME NEW q \in Requests, Removal(q)'
                   PROVE  reviews'[q].removed \in Gone'
        OBVIOUS
      <3>1. CASE q = r  BY <1>3, <2>1, <2>5, <3>1
      <3>2. CASE q # r  BY <2>6, <2>7, <2>8, <2>10, <3>2 DEF RInv, TakenOnce
      <3> QED  BY <3>1, <3>2
    <2>12. \A k \in Gone' : \E q \in Requests : Takes(q, k)'
      <3> SUFFICES ASSUME NEW k \in Gone'
                   PROVE  \E q \in Requests : Takes(q, k)'
        OBVIOUS
      <3>1. CASE k = gone  BY <1>3, <2>4, <3>1 DEF Takes
      <3>2. CASE k # gone
        <4>1. PICK q \in Requests : Takes(q, k)  BY <2>6, <2>10, <3>2 DEF RInv, TakenOnce
        <4>2. q # r  BY <2>4, <4>1 DEF Takes
        <4> QED  BY <2>7, <4>1, <4>2 DEF Takes
      <3> QED  BY <3>1, <3>2
    <2>13. \A p, q \in Requests : Removal(p)' /\ Removal(q)' /\ reviews'[p].removed = reviews'[q].removed => p = q
      BY <1>3, <2>7, <2>8 DEF RInv, TakenOnce
    <2> QED  BY <2>9, <2>11, <2>12, <2>13 DEF TakenOnce
  <1>7. ASSUME asked[r].decision # "remove_manual"
        PROVE  Stamped' /\ TakenOnce'
    <2>1. gone = None  BY <1>3, <1>7 DEF WellAsked
    <2>2. \A k \in Keys : version'[k] = version[k]  BY <1>5, <2>1 DEF ReviewAssumption
    <2>3. Gone' = Gone /\ \A k \in Keys : Here(k)' <=> Here(k)
      BY <1>1, <2>2 DEF Gone, Here
    <2>4. ~Removal(r)' /\ ~Removal(r)  BY <1>3, <1>7 DEF Removal, Active
    <2>5. \A q \in Requests : q # r => (Removal(q)' <=> Removal(q)) /\ reviews'[q] = reviews[q]
      BY <1>3 DEF Removal, Active
    <2> HIDE DEF gone
    <2>6. Stamped'  BY <1>1, <2>3 DEF RInv, Stamped
    <2>7. \A q \in Requests : Removal(q)' => Removal(q) /\ reviews'[q] = reviews[q]  BY <2>4, <2>5
    <2>8. \A q \in Requests : Removal(q) => Removal(q)' /\ reviews'[q] = reviews[q]  BY <2>4, <2>5
    <2>9. \A q \in Requests : Removal(q)' => reviews'[q].removed \in Gone'
      BY <2>3, <2>7 DEF RInv, TakenOnce
    <2>10. \A k \in Gone' : \E q \in Requests : Takes(q, k)'
      BY <2>3, <2>8 DEF RInv, TakenOnce, Takes
    <2>11. \A p, q \in Requests : Removal(p)' /\ Removal(q)' /\ reviews'[p].removed = reviews'[q].removed => p = q
      BY <2>7 DEF RInv, TakenOnce
    <2> QED  BY <2>6, <2>9, <2>10, <2>11 DEF TakenOnce
  <1>8. AskedWell'  BY <1>1 DEF RInv, AskedWell, WellAsked
  <1>9. OneDecisionInForce'
    <2>1. ~ResolvedNow(asked[r].cand, asked[r].seen)  BY DEF Decide, Accept
    <2>2. \A q \in Requests : q # r => (Active(q)' <=> Active(q)) /\ reviews'[q] = reviews[q]
      BY <1>3 DEF Active
    <2>3. \A q \in Requests : q # r /\ Active(q)' => ~(reviews'[q].cand = reviews'[r].cand /\ reviews'[q].seen = reviews'[r].seen)
      BY <1>3, <2>1, <2>2 DEF ResolvedNow
    <2> SUFFICES ASSUME NEW p \in Requests, NEW q \in Requests, Active(p)', Active(q)', reviews'[p].cand = reviews'[q].cand,
                        reviews'[p].seen = reviews'[q].seen
                 PROVE  p = q
      BY DEF OneDecisionInForce
    <2>4. CASE p = r \/ q = r  BY <2>3, <2>4
    <2>5. CASE p # r /\ q # r  BY <2>2, <2>5 DEF RInv, OneDecisionInForce
    <2> QED  BY <2>4, <2>5
  <1>10. Stamped' /\ TakenOnce'  BY <1>6, <1>7
  <1> QED  BY <1>4, <1>8, <1>9, <1>10 DEF RInv

(* Asking for an undo changes nothing.                                       *)
LEMMA AskingUndoIsSafe ==
    ASSUME RInv, NEW r \in Requests, AskUndo(r)
    PROVE  RInv'
  <1>1. UNCHANGED <<records, category, reviews, asked>>  BY DEF AskUndo
  <1>2. UNCHANGED <<kind, version, stamp, discarded, category, reviews, asked>>  BY <1>1 DEF records
  <1> QED  BY <1>2 DEF RInv, ReviewTypeOK, Stamped, AskedWell, WellAsked, TakenOnce, Takes, Gone, Here, Removal,
                       Active, OneDecisionInForce

(* An undo gives back the one record its removal took, or nothing.           *)
LEMMA UndoingIsSafe ==
    ASSUME RInv, NEW r \in Requests, Undo(r)
    PROVE  RInv'
  <1>1. UNCHANGED <<kind, category, discarded, asked>>  BY DEF Undo
  <1>2. Active(r) /\ reviews[r] \in Decisions
    <2>1. Active(r)  BY DEF Undo
    <2> QED  BY <2>1 DEF Active, RInv, ReviewTypeOK
  <1>3. /\ reviews' \in [Requests -> Decisions \cup {None}] /\ reviews'[r].undone
        /\ \A q \in Requests \ {r} : reviews'[q] = reviews[q]
    <2> DEFINE d == [reviews[r] EXCEPT !.undone = TRUE]
    <2>1. d \in Decisions /\ d.undone  BY <1>2 DEF Decisions
    <2>2. reviews' = [reviews EXCEPT ![r] = d]  BY DEF Undo, Undone
    <2> HIDE DEF d
    <2> QED  BY <2>1, <2>2 DEF RInv, ReviewTypeOK
  <1>4. ~Active(r)' /\ ~Removal(r)'  BY <1>3 DEF Active, Removal
  <1>5. \A q \in Requests : q # r => (Removal(q)' <=> Removal(q)) /\ (Active(q)' <=> Active(q)) /\ reviews'[q] = reviews[q]
    BY <1>3 DEF Removal, Active
  <1>6. OneDecisionInForce'
    <2>1. \A q \in Requests : Active(q)' => Active(q) /\ reviews'[q] = reviews[q]  BY <1>4, <1>5
    <2> QED  BY <2>1 DEF RInv, OneDecisionInForce
  <1>7. AskedWell'  BY <1>1 DEF RInv, AskedWell, WellAsked
  <1>8. CASE Removal(r)
    <2>1. PICK back : back = reviews[r].removed  OBVIOUS
    <2>2. back \in Keys /\ back \in Gone  BY <1>8, <2>1 DEF RInv, TakenOnce, Gone
    <2>3. stamp' = [stamp EXCEPT ![back] = @ + 1] /\ version' = [version EXCEPT ![back] = stamp[back] + 1]
      BY <1>8, <2>1 DEF Undo
    <2>4. stamp[back] \in Nat /\ stamp' \in [Keys -> Nat] /\ version' \in [Keys -> Nat]
          /\ version'[back] = stamp[back] + 1 /\ stamp'[back] = stamp[back] + 1
          /\ \A k \in Keys \ {back} : version'[k] = version[k] /\ stamp'[k] = stamp[k]
      BY <2>2, <2>3 DEF RInv, ReviewTypeOK
    <2>5. version'[back] > 0 /\ stamp'[back] > 0  BY <2>4
    <2>6. Here(back)' /\ stamp'[back] > 0 /\ back \notin Gone'  BY <2>5 DEF Here, Gone
    <2>7. Gone \subseteq Keys /\ Gone' \subseteq Keys  BY DEF Gone
    <2>8. \A k \in Keys : k # back => (k \in Gone' <=> k \in Gone) /\ (Here(k)' <=> Here(k)) /\ stamp'[k] = stamp[k]
      BY <1>1, <2>4 DEF Gone, Here
    <2>9. \A q \in Requests : q # r /\ Removal(q) => reviews[q].removed # back
      BY <1>8, <2>1 DEF RInv, TakenOnce
    <2>10. ReviewTypeOK'  BY <1>1, <1>3, <2>4 DEF RInv, ReviewTypeOK
    <2>11. Stamped'  BY <1>1, <2>2, <2>6, <2>8 DEF RInv, Stamped, Gone
    <2>12. \A q \in Requests : Removal(q)' => q # r /\ Removal(q) /\ reviews'[q] = reviews[q]  BY <1>4, <1>5
    <2>13. \A q \in Requests : Removal(q)' => reviews'[q].removed \in Gone'
      BY <2>8, <2>9, <2>12, <2>7 DEF RInv, TakenOnce
    <2>14. \A k \in Gone' : \E q \in Requests : Takes(q, k)'
      <3> SUFFICES ASSUME NEW k \in Gone'
                   PROVE  \E q \in Requests : Takes(q, k)'
        OBVIOUS
      <3>1. k # back  BY <2>6
      <3>2. PICK q \in Requests : Takes(q, k)  BY <2>8, <2>7, <3>1 DEF RInv, TakenOnce
      <3>3. q # r  BY <2>1, <3>1, <3>2 DEF Takes
      <3> QED  BY <1>5, <3>2, <3>3 DEF Takes
    <2>15. \A p, q \in Requests : Removal(p)' /\ Removal(q)' /\ reviews'[p].removed = reviews'[q].removed => p = q
      BY <2>12 DEF RInv, TakenOnce
    <2> QED  BY <1>6, <1>7, <2>10, <2>11, <2>13, <2>14, <2>15 DEF RInv, TakenOnce
  <1>9. CASE ~Removal(r)
    <2>1. UNCHANGED <<stamp, version>>  BY <1>9 DEF Undo
    <2>2. ReviewTypeOK'  BY <1>1, <1>3, <2>1 DEF RInv, ReviewTypeOK
    <2>3. Stamped'  BY <1>1, <2>1 DEF RInv, Stamped, Here
    <2>4. Gone' = Gone  BY <1>1, <2>1 DEF Gone, Here
    <2>5. \A q \in Requests : Removal(q)' => Removal(q) /\ reviews'[q] = reviews[q]  BY <1>4, <1>5
    <2>6. \A q \in Requests : Removal(q) => Removal(q)' /\ reviews'[q] = reviews[q]  BY <1>5, <1>9
    <2>7. \A q \in Requests : Removal(q)' => reviews'[q].removed \in Gone'
      BY <2>4, <2>5 DEF RInv, TakenOnce
    <2>8. \A k \in Gone' : \E q \in Requests : Takes(q, k)'
      BY <2>4, <2>6 DEF RInv, TakenOnce, Takes
    <2>9. \A p, q \in Requests : Removal(p)' /\ Removal(q)' /\ reviews'[p].removed = reviews'[q].removed => p = q
      BY <2>5 DEF RInv, TakenOnce
    <2> QED  BY <1>6, <1>7, <2>2, <2>3, <2>7, <2>8, <2>9 DEF RInv, TakenOnce
  <1> QED  BY <1>8, <1>9
-----------------------------------------------------------------------------
(* A step of the records by hand that no removal is about: what is missing   *)
(* stays missing, and nothing else becomes so.                               *)
Aside ==
    /\ UNCHANGED <<kind, reviews, asked>>
    /\ ReviewTypeOK' /\ Stamped'
    /\ Gone' = Gone
LEMMA AsideIsSafe ==
    ASSUME RInv, Aside
    PROVE  RInv'
  <1>1. UNCHANGED <<kind, reviews, asked>>  BY DEF Aside
  <1>2. \A q \in Requests : (Removal(q)' <=> Removal(q)) /\ (Active(q)' <=> Active(q))  BY <1>1 DEF Removal, Active
  <1>3. AskedWell'  BY <1>1 DEF RInv, AskedWell, WellAsked
  <1>4. OneDecisionInForce'  BY <1>1, <1>2 DEF RInv, OneDecisionInForce
  <1>5. TakenOnce'
    <2>1. \A q \in Requests : Removal(q)' => reviews'[q].removed \in Gone'
      BY <1>1, <1>2 DEF Aside, RInv, TakenOnce
    <2>2. \A k \in Gone' : \E q \in Requests : Takes(q, k)'
      BY <1>1, <1>2 DEF Aside, RInv, TakenOnce, Takes
    <2>3. \A p, q \in Requests : Removal(p)' /\ Removal(q)' /\ reviews'[p].removed = reviews'[q].removed => p = q
      BY <1>1, <1>2 DEF RInv, TakenOnce
    <2> QED  BY <2>1, <2>2, <2>3 DEF TakenOnce
  <1> QED  BY <1>3, <1>4, <1>5 DEF Aside, RInv

(* A record is added or edited.                                              *)
LEMMA TouchingIsSafe ==
    ASSUME RInv, NEW k \in Keys, Add(k) \/ Edit(k)
    PROVE  RInv'
  <1>1. (stamp[k] = 0 \/ Here(k)) /\ \E moved : Touch(k, moved)  BY DEF Add, Edit
  <1>2. /\ UNCHANGED <<kind, category, discarded, reviews, asked>>
        /\ stamp' = [stamp EXCEPT ![k] = @ + 1] /\ version' = [version EXCEPT ![k] = stamp[k] + 1]
    BY <1>1 DEF Touch
  <1>3. /\ stamp[k] \in Nat /\ stamp' \in [Keys -> Nat] /\ version' \in [Keys -> Nat]
        /\ version'[k] = stamp[k] + 1 /\ stamp'[k] = stamp[k] + 1
        /\ \A j \in Keys \ {k} : version'[j] = version[j] /\ stamp'[j] = stamp[j]
    BY <1>2 DEF RInv, ReviewTypeOK
  <1>4. k \notin discarded /\ k \notin Gone  BY <1>1, <1>3 DEF RInv, Stamped, Gone
  <1>5. Here(k)' /\ stamp'[k] > 0 /\ k \notin Gone'  BY <1>3 DEF Here, Gone
  <1>6. \A j \in Keys : j # k => (j \in Gone' <=> j \in Gone) /\ (Here(j)' <=> Here(j)) /\ stamp'[j] = stamp[j]
    BY <1>2, <1>3 DEF Gone, Here
  <1>7. ReviewTypeOK'  BY <1>2, <1>3 DEF RInv, ReviewTypeOK
  <1>8. Stamped'  BY <1>2, <1>4, <1>5, <1>6 DEF RInv, Stamped
  <1>9. Gone' = Gone  BY <1>4, <1>5, <1>6 DEF Gone
  <1>10. Aside  BY <1>2, <1>7, <1>8, <1>9 DEF Aside
  <1> QED  BY <1>10, AsideIsSafe

(* A record is deleted by hand.                                              *)
LEMMA DiscardingIsSafe ==
    ASSUME RInv, NEW k \in Keys, Discard(k)
    PROVE  RInv'
  <1>1. /\ Here(k) /\ UNCHANGED <<kind, stamp, category, reviews, asked>> /\ discarded' = discarded \cup {k}
        /\ version' = [version EXCEPT ![k] = 0]
    BY DEF Discard
  <1>2. /\ version' \in [Keys -> Nat] /\ version'[k] = 0
        /\ \A j \in Keys \ {k} : version'[j] = version[j]
    BY <1>1 DEF RInv, ReviewTypeOK
  <1>3. stamp[k] > 0  BY <1>1 DEF RInv, Stamped
  <1>4. ~Here(k)' /\ k \notin Gone' /\ k \notin Gone  BY <1>1, <1>2 DEF Here, Gone
  <1>5. \A j \in Keys : j # k => (j \in Gone' <=> j \in Gone) /\ (Here(j)' <=> Here(j))
    BY <1>1, <1>2 DEF Gone, Here
  <1>6. ReviewTypeOK'  BY <1>1, <1>2 DEF RInv, ReviewTypeOK
  <1>7. Stamped'  BY <1>1, <1>3, <1>4, <1>5 DEF RInv, Stamped
  <1>8. Gone' = Gone  BY <1>4, <1>5 DEF Gone
  <1>9. Aside  BY <1>1, <1>6, <1>7, <1>8 DEF Aside
  <1> QED  BY <1>9, AsideIsSafe

(* A category is deleted: the expenses that are there get a new version.     *)
LEMMA DroppingCategoriesIsSafe ==
    ASSUME RInv, DropCategory
    PROVE  RInv'
  <1>1. /\ UNCHANGED <<kind, discarded, reviews, asked>> /\ category' = FALSE
        /\ stamp' = [k \in Keys |-> IF kind[k] = "expense" /\ Here(k) THEN stamp[k] + 1 ELSE stamp[k]]
        /\ version' = [k \in Keys |-> IF Here(k) THEN stamp'[k] ELSE 0]
    BY DEF DropCategory
  <1>2. stamp' \in [Keys -> Nat] /\ \A k \in Keys : stamp[k] \in Nat /\ stamp'[k] \in {stamp[k], stamp[k] + 1}
                                                  /\ (~Here(k) => stamp'[k] = stamp[k])
    BY <1>1 DEF RInv, ReviewTypeOK
  <1>3. version' \in [Keys -> Nat]  BY <1>1, <1>2
  <1>4. \A k \in Keys : Here(k) => stamp[k] > 0  BY DEF RInv, Stamped
  <1>5. \A k \in Keys : Here(k)' <=> Here(k)
    <2> SUFFICES ASSUME NEW k \in Keys
                 PROVE  Here(k)' <=> Here(k)
      OBVIOUS
    <2>1. CASE Here(k)
      <3>1. version'[k] = stamp'[k] /\ stamp'[k] > 0  BY <1>1, <1>2, <1>4, <2>1
      <3> QED  BY <2>1, <3>1 DEF Here
    <2>2. CASE ~Here(k)
      <3>1. version'[k] = 0  BY <1>1, <2>2
      <3> QED  BY <2>2, <3>1 DEF Here
    <2> QED  BY <2>1, <2>2
  <1>6. \A k \in Keys : stamp'[k] > 0 <=> stamp[k] > 0  BY <1>2, <1>4
  <1>7. Gone' = Gone  BY <1>1, <1>5, <1>6 DEF Gone
  <1>8. ReviewTypeOK'  BY <1>1, <1>2, <1>3 DEF RInv, ReviewTypeOK
  <1>9. Stamped'  BY <1>1, <1>5, <1>6 DEF RInv, Stamped
  <1>10. Aside  BY <1>1, <1>7, <1>8, <1>9 DEF Aside
  <1> QED  BY <1>10, AsideIsSafe
-----------------------------------------------------------------------------
(* A step that decides nothing leaves what each request decided.             *)
LEMMA OnlyDecisionsTake ==
    ASSUME RInv, ReviewNext, NEW q \in Requests, reviews[q] = None, Removal(q)'
    PROVE  Decide(q)
  <1>1. CASE \E r \in Requests : Decide(r)
    <2>1. PICK r \in Requests : Decide(r)  BY <1>1
    <2>2. CASE q # r
      <3>1. reviews'[q] = reviews[q]  BY <2>1, <2>2 DEF Decide, RInv, ReviewTypeOK
      <3> QED  BY <3>1 DEF Removal, Active
    <2> QED  BY <2>1, <2>2
  <1>2. CASE \E r \in Requests : Undo(r)
    <2>1. PICK r \in Requests : Undo(r)  BY <1>2
    <2>2. q # r  BY <2>1 DEF Undo, Active
    <2>3. reviews'[q] = reviews[q]  BY <2>1, <2>2 DEF Undo, Undone, RInv, ReviewTypeOK
    <2> QED  BY <2>3 DEF Removal, Active
  <1>3. CASE reviews' = reviews  BY <1>3 DEF Removal, Active
  <1> QED  BY <1>1, <1>2, <1>3 DEF ReviewNext, Ask, AskUndo, Add, Edit, Touch, Discard, Relink, DropCategory

(* Each step keeps the strengthening, and takes a double only.               *)
LEMMA ReviewStep ==
    ASSUME ReviewAssumption, NoneIsNoDecision, RInv, ReviewNext
    PROVE  RInv'
  <1>1. CASE \E b \in BankRows : Relink(b)
    <2>1. UNCHANGED <<kind, version, stamp, discarded, category, reviews, asked>>  BY <1>1 DEF Relink
    <2>2. Aside  BY <2>1 DEF Aside, RInv, ReviewTypeOK, Stamped, Gone, Here
    <2> QED  BY <2>2, AsideIsSafe
  <1> QED  BY <1>1, AskingIsSafe, DecidingIsSafe, AskingUndoIsSafe, UndoingIsSafe, TouchingIsSafe, DiscardingIsSafe,
              DroppingCategoriesIsSafe DEF ReviewNext

LEMMA DecisionsTakeDoubles ==
    ASSUME ReviewAssumption, NoneIsNoDecision, RInv, NEW r \in Requests, Decide(r), Removal(r)'
    PROVE  KeepsTheOther(r) /\ KeepsBankIncome(r)
  <1> DEFINE a == asked[r]
  <1>1. /\ WellAsked(a) /\ a.cand \in Candidates /\ a.seen = ScanVersion(a.cand) /\ a.decision = "remove_manual"
    BY DecisionsTakeOne DEF Removal
  <1>2. /\ {a.removed, a.kept} \subseteq a.cand.keys /\ a.removed # a.kept /\ kind[a.removed] # "credit"
    BY <1>1 DEF WellAsked
  <1>3. a.cand.keys \subseteq Scanned /\ Money(a.kept) = Money(a.removed)  BY <1>1, <1>2, GroupsAreScanned
  <1>4. a.kept \in Keys /\ a.kept \notin apart /\ a.removed \in Keys /\ a.removed \notin linked
    BY <1>2, <1>3 DEF Scanned
  <1>5. a.seen[a.kept] = version[a.kept]  BY <1>1, <1>2 DEF ScanVersion
  <1>6. version' = [k \in Keys |-> IF k = a.removed THEN 0 ELSE version[k]] /\ apart' = apart  BY DEF Decide
  <1>7. version'[a.kept] = version[a.kept]  BY <1>2, <1>4, <1>6
  <1>8. kind[a.removed] = "income" => orphans = {}
    <2>1. a.removed # None  BY <1>4 DEF ReviewAssumption
    <2> QED  BY <2>1 DEF Decide, Accept, RequireUnbanked
  <1> QED  BY <1>3, <1>4, <1>5, <1>6, <1>7, <1>8 DEF KeepsTheOther, KeepsBankIncome

(* What the strengthening says of each record is what was promised.          *)
LEMMA TakenOnceIsAccounted ==
    ASSUME RInv
    PROVE  RemovalsAccounted
  <1> SUFFICES ASSUME NEW k \in Keys
               PROVE  LET by == {r \in Requests : Removal(r) /\ reviews[r].removed = k}
                      IN IF stamp[k] > 0 /\ ~Here(k) /\ k \notin discarded THEN Cardinality(by) = 1 ELSE by = {}
    BY DEF RemovalsAccounted
  <1> DEFINE by == {r \in Requests : Removal(r) /\ reviews[r].removed = k}
  <1>1. CASE k \in Gone
    <2>1. PICK r \in Requests : Takes(r, k)  BY <1>1 DEF RInv, TakenOnce
    <2>2. by = {r}  BY <2>1 DEF RInv, TakenOnce, Takes
    <2>3. Cardinality({r}) = 1  BY FS_Singleton
    <2> QED  BY <1>1, <2>2, <2>3 DEF Gone
  <1>2. CASE k \notin Gone
    <2>1. by = {}  BY <1>2 DEF RInv, TakenOnce
    <2> QED  BY <1>2, <2>1 DEF Gone
  <1> QED  BY <1>1, <1>2
-----------------------------------------------------------------------------
(* However requests are lost, repeated or delayed: a missing record was      *)
(* deleted by hand or is the subject of one removal that can still be undone,*)
(* each version of a group has one decision in force, and a decision leaves  *)
(* the record it named to keep, and every income a bank row shows            *)
(* (duplicateReview.service.ts:118-152, 192, 205).                           *)
THEOREM DuplicatesAreSettled ==
    ASSUME ReviewAssumption, NoneIsNoDecision
    PROVE  ReviewSpec => DuplicatesSettled
  <1> DEFINE Double == \A r \in Requests : reviews[r] = None /\ Removal(r)' => KeepsTheOther(r) /\ KeepsBankIncome(r)
  <1>1. ReviewInit => RInv  BY ReviewStarts
  <1>2. RInv /\ [ReviewNext]_reviewVars => RInv' /\ [Double]_reviewVars
    <2>1. CASE ReviewNext
      <3>1. RInv => RInv'  BY <2>1, ReviewStep
      <3>2. RInv => Double  BY <2>1, OnlyDecisionsTake, DecisionsTakeDoubles
      <3> QED  BY <3>1, <3>2
    <2>2. CASE UNCHANGED reviewVars
      BY <2>2 DEF reviewVars, RInv, ReviewTypeOK, Stamped, AskedWell, WellAsked, TakenOnce, Takes, Gone, Here, Removal,
                  Active, OneDecisionInForce
    <2> QED  BY <2>1, <2>2
  <1>3. RInv => DecisionsAccounted  BY TakenOnceIsAccounted DEF RInv, DecisionsAccounted
  <1> HIDE DEF Double
  <1>4. ReviewSpec => []RInv /\ [][Double]_reviewVars  BY <1>1, <1>2, PTL DEF ReviewSpec
  <1>5. ReviewSpec => []DecisionsAccounted  BY <1>3, <1>4, PTL
  <1> QED  BY <1>4, <1>5 DEF DuplicatesSettled, RemovesOnlyDoubles, Double
-----------------------------------------------------------------------------
(* The log of documents.  The strengthening adds that a file has one live    *)
(* session at most: an upload goes on with the one it finds, so nothing      *)
(* writes where a standing import has its bytes, and the rows of a standing  *)
(* import are the newest of its file.                                        *)
Sizes == MaxSessions \in Nat /\ Legacy \in Seq([hash : Hashes, path : Paths \cup {NoPath}])

StoreTypeOK ==
    /\ disk \in [Paths -> {"none", "torn", "whole"}]
    /\ session \in [SessionIds -> {"none", Open} \cup Standing \cup Over]
    /\ file \in [SessionIds -> Paths \cup {NoPath}]
    /\ doc \in [DocIds -> {"none", "imported", "rolled_back", "removed"}]
    /\ stored \in [DocIds -> [hash : Hashes \cup {NoPath}, path : Paths \cup {NoPath}]]
    /\ source \in [DocIds -> SessionIds \cup {0}]
    /\ unlinking \subseteq Paths

(* A session has its file, and its bytes; a document has the file of the    *)
(* session that made it.                                                    *)
Filed ==
    /\ \A s \in SessionIds : session[s] # "none" => file[s] \in Paths /\ disk[file[s]] # "none"
    /\ \A d \in Documents : stored[d].path \in Paths => disk[stored[d].path] # "none"
    /\ \A d \in DocIds : source[d] # 0 => session[source[d]] # "none" /\ HashOf(source[d]) = stored[d].hash

(* A file has one live session at most. *)
OneLive ==
    \A s, q \in SessionIds :
        session[s] \notin Over \cup {"none"} /\ session[q] \notin Over \cup {"none"} /\ HashOf(s) = HashOf(q) => s = q

DInv == StoreTypeOK /\ Filed /\ OneLive /\ StandingFileWhole

(* It is what the log relies on. *)
LEMMA Readable == Assumption /\ Sizes /\ DInv => DocumentsReadable
<1> SUFFICES ASSUME Assumption, Sizes, DInv PROVE DocumentsReadable
  OBVIOUS
<1> USE DEF DInv
<1>1. BytesKept
  BY DEF BytesKept, Filed, StoreTypeOK, HasFile, Served, Documents, Open, Standing
<1>2. RowsAreItsOwn
  <2> SUFFICES ASSUME NEW d \in Documents, source[d] # 0, session[source[d]] \in Standing
               PROVE  RowsFrom(d) = {source[d]}
    BY DEF RowsAreItsOwn
  <2> DEFINE s == source[d]
  <2>1. d \in DocIds /\ s \in SessionIds /\ s \in Nat /\ HashOf(s) = stored[d].hash
    BY DEF StoreTypeOK, Documents, Filed, SessionIds
  <2>2. session[s] \notin Over \cup {"none"}
    BY DEF Standing, Over
  <2> HIDE DEF s
  <2>3. Live(stored[d].hash) = {s}
    BY <2>1, <2>2 DEF Live, Sessions, OneLive, Over
  <2> QED BY <2>1, <2>3 DEF RowsFrom, s
<1> QED BY <1>1, <1>2 DEF DocumentsReadable

(* At first there are documents of before the sessions only. *)
LEMMA InitDInv == Assumption /\ Sizes /\ Init => DInv
<1> SUFFICES ASSUME Assumption, Sizes, Init PROVE DInv
  OBVIOUS
<1> USE DEF Init
<1>1. PICK old \in 0..2 : /\ old <= Len(Legacy)
                          /\ doc = [d \in DocIds |-> IF d <= old THEN "imported" ELSE "none"]
                          /\ stored = [d \in DocIds |-> IF d <= old THEN Legacy[d] ELSE NotMade]
  OBVIOUS
<1>2. \A d \in DocIds : d <= old => Legacy[d] \in [hash : Hashes, path : Paths \cup {NoPath}]
  <2>1. \A d \in DocIds : d <= old => d \in 1..Len(Legacy)
    BY <1>1 DEF DocIds, Sizes, Assumption
  <2> DEFINE Old == [hash : Hashes, path : Paths \cup {NoPath}]
  <2>2. Legacy \in Seq(Old)
    BY DEF Sizes
  <2> HIDE DEF Old
  <2>3. \A i \in 1..Len(Legacy) : Legacy[i] \in Old
    BY <2>2
  <2> QED BY <2>1, <2>3 DEF Old
<1>3. \A d \in DocIds : stored[d] \in [hash : Hashes \cup {NoPath}, path : Paths \cup {NoPath}]
  <2>1. NotMade \in [hash : Hashes \cup {NoPath}, path : Paths \cup {NoPath}]
    BY DEF NotMade
  <2> QED BY <1>1, <1>2, <2>1
<1>4. StoreTypeOK
  <2>1. stored \in [DocIds -> [hash : Hashes \cup {NoPath}, path : Paths \cup {NoPath}]]
    BY <1>1, <1>3
  <2> HIDE DEF Init
  <2>2. doc \in [DocIds -> {"none", "imported", "rolled_back", "removed"}]
    BY <1>1
  <2> QED BY <2>1, <2>2 DEF StoreTypeOK, Init
<1>5. Filed
  BY <1>3 DEF Filed, Documents
<1>6. OneLive /\ StandingFileWhole
  BY DEF OneLive, StandingFileWhole, Standing
<1> QED BY <1>4, <1>5, <1>6 DEF DInv

(* Bytes written, whole or cut short, where no standing import has its own. *)
LEMMA WriteKeeps ==
    ASSUME Assumption, DInv, NEW p \in Paths, NEW bytes \in {"torn", "whole"},
           disk' = [disk EXCEPT ![p] = bytes], unlinking' \in {unlinking, {}},
           UNCHANGED <<session, file, doc, stored, source>>,
           bytes = "torn" => \A s \in SessionIds : session[s] \in Standing => file[s] # p
    PROVE  DInv'
<1> USE DEF DInv
<1>1. StoreTypeOK'
  BY DEF StoreTypeOK
<1>2. \A q \in Paths : disk'[q] = IF q = p THEN bytes ELSE disk[q]
  BY DEF StoreTypeOK
<1>3. Filed'
  BY <1>2 DEF Filed, HashOf, Documents
<1>4. OneLive'
  BY DEF OneLive, HashOf
<1>5. StandingFileWhole'
  BY <1>2 DEF StandingFileWhole, Filed, Standing
<1> QED BY <1>1, <1>3, <1>4, <1>5

(* An upload: a session of a file that has none alive. *)
LEMMA CreateKeeps == ASSUME Assumption, DInv, NEW p \in Paths, Create(p) PROVE DInv'
<1> USE DEF DInv
<1>1. \A s \in SessionIds : session[s] \notin Over \cup {"none"} => HashOf(s) # p[1]
  BY DEF Create, NoneLive, Live, Sessions
<1>2. CASE CutShort(p)
  <2>1. \A s \in SessionIds : session[s] \in Standing => file[s] # p
    BY <1>1 DEF HashOf, Standing, Over
  <2> QED BY <1>2, <2>1, WriteKeeps DEF CutShort
<1>3. CASE ~CutShort(p)
  <2>1. PICK s \in SessionIds : /\ session[s] = "none" /\ disk' = [disk EXCEPT ![p] = "whole"]
                                /\ session' = [session EXCEPT ![s] = Open]
                                /\ file' = [file EXCEPT ![s] = p]
                                /\ UNCHANGED <<doc, stored, source, unlinking>>
    BY <1>3 DEF Create, NextOf, Written
  <2>2. StoreTypeOK'
    BY <2>1 DEF StoreTypeOK
  <2>3. \A q \in SessionIds : /\ session'[q] = IF q = s THEN Open ELSE session[q]
                              /\ file'[q] = IF q = s THEN p ELSE file[q]
    BY <2>1 DEF StoreTypeOK
  <2>4. \A q \in Paths : disk'[q] = IF q = p THEN "whole" ELSE disk[q]
    BY <2>1 DEF StoreTypeOK
  <2>5. Filed'
    <3>1. \A q \in SessionIds : session'[q] # "none" => file'[q] \in Paths /\ disk'[file'[q]] # "none"
      BY <2>3, <2>4 DEF Filed
    <3>2. \A d \in Documents' : stored'[d].path \in Paths => disk'[stored'[d].path] # "none"
      BY <2>1, <2>4 DEF Filed, Documents
    <3>3. \A d \in DocIds : source'[d] # 0 => /\ session'[source'[d]] # "none"
                                               /\ file'[source'[d]][1] = stored'[d].hash
      <4>1. \A d \in DocIds : source[d] # 0 => source[d] \in SessionIds /\ source[d] # s
        BY <2>1 DEF Filed, StoreTypeOK
      <4> QED BY <2>1, <2>3, <4>1 DEF Filed, HashOf
    <3> QED BY <3>1, <3>2, <3>3 DEF Filed, HashOf
  <2>6. OneLive'
    BY <1>1, <2>1, <2>3 DEF OneLive, HashOf, Open, Over
  <2>7. StandingFileWhole'
    BY <2>3, <2>4 DEF StandingFileWhole, Standing, Open, Filed
  <2> QED BY <2>2, <2>5, <2>6, <2>7
<1> QED BY <1>2, <1>3

(* A commit: the document of the only session of the file. *)
LEMMA CommitKeeps == ASSUME Assumption, DInv, NEW s \in SessionIds, Commit(s) PROVE DInv'
<1> USE DEF DInv
<1>1. session[s] = Open /\ file[s] \in Paths /\ session[s] \notin Over \cup {"none"} \cup Standing
  BY DEF Commit, Filed, Open, Over, Standing
<1>2. \A q \in SessionIds : session[q] \in Standing => file[q] # file[s]
  BY <1>1 DEF OneLive, HashOf, Standing, Over
<1>3. CASE CutShort(file[s])
  BY <1>1, <1>2, <1>3, WriteKeeps DEF CutShort
<1>4. CASE ~CutShort(file[s])
  <2>1. PICK d \in DocIds : /\ disk' = [disk EXCEPT ![file[s]] = "whole"]
                            /\ session' = [session EXCEPT ![s] = "review"]
                            /\ doc' = [doc EXCEPT ![d] = "imported"]
                            /\ stored' = [stored EXCEPT ![d] = [hash |-> HashOf(s), path |-> file[s]]]
                            /\ source' = [source EXCEPT ![d] = s]
                            /\ UNCHANGED <<file, unlinking>>
    BY <1>4 DEF Commit, NextOf, Written
  <2>2. HashOf(s) \in Hashes
    BY <1>1 DEF HashOf, Paths
  <2>3. StoreTypeOK'
    BY <1>1, <2>1, <2>2 DEF StoreTypeOK, Standing
  <2>4. \A q \in SessionIds : session'[q] = IF q = s THEN "review" ELSE session[q]
    BY <2>1 DEF StoreTypeOK
  <2>5. \A q \in Paths : disk'[q] = IF q = file[s] THEN "whole" ELSE disk[q]
    BY <2>1 DEF StoreTypeOK
  <2>6. \A e \in DocIds : /\ source'[e] = IF e = d THEN s ELSE source[e]
                          /\ stored'[e] = IF e = d THEN [hash |-> HashOf(s), path |-> file[s]] ELSE stored[e]
                          /\ doc'[e] = IF e = d THEN "imported" ELSE doc[e]
    BY <2>1 DEF StoreTypeOK
  <2>7. Filed'
    <3>1. \A q \in SessionIds : session'[q] # "none" => file'[q] \in Paths /\ disk'[file'[q]] # "none"
      BY <1>1, <2>1, <2>4, <2>5 DEF Filed
    <3>2. \A e \in Documents' : stored'[e].path \in Paths => disk'[stored'[e].path] # "none"
      BY <2>5, <2>6 DEF Filed, Documents
    <3>3. \A e \in DocIds : source'[e] # 0 => /\ session'[source'[e]] # "none"
                                               /\ file'[source'[e]][1] = stored'[e].hash
      <4>1. \A e \in DocIds : source[e] # 0 => source[e] \in SessionIds
        BY DEF StoreTypeOK
      <4>2. \A e \in DocIds : source[e] # 0 => session'[source[e]] # "none" /\ file[source[e]][1] = stored[e].hash
        BY <2>4, <4>1 DEF Filed, HashOf
      <4> QED BY <2>1, <2>4, <2>6, <4>2 DEF HashOf
    <3> QED BY <3>1, <3>2, <3>3 DEF Filed, HashOf
  <2>8. OneLive'
    BY <1>1, <2>1, <2>4 DEF OneLive, HashOf
  <2>9. StandingFileWhole'
    <3>1. \A q \in SessionIds : session'[q] \in Standing => file[q] \in Paths
      BY <1>1, <2>4 DEF Filed, Standing
    <3> QED BY <2>1, <2>4, <2>5, <3>1 DEF StandingFileWhole
  <2> QED BY <2>3, <2>7, <2>8, <2>9
<1> QED BY <1>3, <1>4

(* A session that goes on to another status, alive only if it was, standing *)
(* only if it was, and documents that go.                                   *)
LEMMA StatusKeeps ==
    ASSUME Assumption, DInv, StoreTypeOK', UNCHANGED <<disk, file, stored, source>>,
           \A q \in SessionIds :
               \/ session'[q] = session[q]
               \/ session[q] # "none" /\ session'[q] \in Over
               \/ session[q] \in Standing /\ session'[q] \in Standing,
           Documents' \subseteq Documents
    PROVE  DInv'
<1> USE DEF DInv
<1>1. \A q \in SessionIds : /\ session'[q] = "none" <=> session[q] = "none"
                            /\ session'[q] \notin Over \cup {"none"} => session[q] \notin Over \cup {"none"}
                            /\ session'[q] \in Standing => session[q] \in Standing
  BY DEF Over, Standing
<1>2. Filed'
  <2>1. \A d \in DocIds : source[d] # 0 => source[d] \in SessionIds
    BY DEF StoreTypeOK
  <2> QED BY <1>1, <2>1 DEF Filed, HashOf
<1>3. OneLive'
  BY <1>1 DEF OneLive, HashOf
<1>4. StandingFileWhole'
  BY <1>1 DEF StandingFileWhole
<1> QED BY <1>2, <1>3, <1>4

(* Bytes nothing has on record are deleted. *)
LEMMA UnlinkKeeps == ASSUME Assumption, DInv, NEW p \in Paths, Unlink(p) PROVE DInv'
<1> USE DEF DInv
<1>1. StoreTypeOK' /\ UNCHANGED <<session, file, doc, stored, source>>
  BY DEF Unlink, StoreTypeOK
<1>2. \A q \in Paths : disk'[q] # disk[q] => q = p /\ Users(p) = {}
  BY DEF Unlink, StoreTypeOK
<1>3. \A s \in SessionIds : session[s] # "none" => disk'[file[s]] = disk[file[s]]
  BY <1>2 DEF Users, Filed
<1>4. \A d \in Documents : stored[d].path \in Paths => disk'[stored[d].path] = disk[stored[d].path]
  BY <1>2 DEF Users
<1>5. Filed'
  BY <1>1, <1>3, <1>4 DEF Filed, HashOf, Documents
<1>6. OneLive' /\ StandingFileWhole'
  BY <1>1, <1>3 DEF OneLive, HashOf, StandingFileWhole, Standing
<1> QED BY <1>1, <1>5, <1>6

(* Every step keeps the invariant. *)
LEMMA StepKeeps == Assumption /\ DInv /\ [Next]_vars => DInv'
<1> SUFFICES ASSUME Assumption, DInv, [Next]_vars PROVE DInv'
  OBVIOUS
<1>1. CASE UNCHANGED vars
  BY <1>1 DEF vars, DInv, StoreTypeOK, Filed, OneLive, StandingFileWhole, HashOf, Documents
<1>2. ASSUME NEW s \in SessionIds, Cancel(s) \/ Finish(s) PROVE DInv'
  <2>1. StoreTypeOK'
    BY <1>2 DEF DInv, StoreTypeOK, Cancel, Finish, ToStatus, Over, Standing
  <2> QED BY <1>2, <2>1, StatusKeeps DEF Cancel, Finish, ToStatus, DInv, StoreTypeOK, Open, Standing, Over, Documents
<1>3. ASSUME NEW d \in DocIds, Rollback(d) PROVE DInv'
  <2>1. StoreTypeOK'
    BY <1>3 DEF DInv, StoreTypeOK, Rollback, Over
  <2>2. Documents' \subseteq Documents
    BY <1>3 DEF Documents, Rollback, DInv, StoreTypeOK
  <2> QED BY <1>3, <2>1, <2>2, StatusKeeps DEF Rollback, Standing, Over
<1>4. ASSUME NEW d \in DocIds, RemoveDocument(d) PROVE DInv'
  <2>1. StoreTypeOK'
    BY <1>4 DEF DInv, StoreTypeOK, RemoveDocument, Documents
  <2>2. Documents' \subseteq Documents
    BY <1>4 DEF Documents, RemoveDocument, DInv, StoreTypeOK
  <2> QED BY <1>4, <2>1, <2>2, StatusKeeps DEF RemoveDocument
<1>5. CASE Crash
  <2>1. StoreTypeOK'
    BY <1>5 DEF DInv, StoreTypeOK, Crash
  <2> QED BY <1>5, <2>1, StatusKeeps DEF Crash, Documents
<1> QED BY <1>1, <1>2, <1>3, <1>4, <1>5, CreateKeeps, CommitKeeps, UnlinkKeeps DEF Next

(* A file the log offers is on disk, the file of an import that stands is   *)
(* whole, and a document whose import stands shows the rows of that import: *)
(* for any files, names and number of uploads, whatever is cut short.       *)
THEOREM LogIsReadable == ASSUME Assumption, Sizes PROVE Spec => []DocumentsReadable
<1>1. DInv /\ [Next]_vars => DInv'
  BY StepKeeps
<1>2. Init => DInv
  BY InitDInv
<1>3. DInv => DocumentsReadable
  BY Readable
<1> QED BY <1>1, <1>2, <1>3, PTL DEF Spec
-----------------------------------------------------------------------------
(* Payments ahead.  The strengthening: plans keep their form and no name of   *)
(* a card, and a row that was acknowledged as a debt has a day of the calendar,*)
(* or of its schedule or card, in its key: only then has it a tomorrow.       *)
LEMMA DaysAreNumbers == Days \subseteq Int
<1>1. IsFiniteSet(1..Len(MonthLengths)) /\ Len(MonthLengths) \in Nat /\ 1..Len(MonthLengths) = DOMAIN MonthLengths
  BY FS_Interval, OwedAssumption
<1>2. \A k \in 1..Len(MonthLengths) : MonthLengths[k] \in Nat
  BY OwedAssumption
<1>3. Start(Len(MonthLengths) + 1) = SumAt(MonthLengths, 1..(Len(MonthLengths) + 1) - 1)
  BY DEF Start, SumAt
<1>4. (Len(MonthLengths) + 1) - 1 = Len(MonthLengths)
  BY <1>1
<1>5. Start(Len(MonthLengths) + 1) \in Nat
  BY <1>1, <1>2, <1>3, <1>4, SumNat
<1> QED BY <1>5 DEF Days

(* Rows have names of their own: a plan's are its name and a day, a bill's its *)
(* card and due day, and what is acknowledged is listed where neither is.      *)
PlansKnown == \A p \in DOMAIN plans : p \notin DOMAIN Cards /\ plans[p] \in Planned
UnpaidDated == \A k \in DOMAIN decisions : decisions[k].what = "unpaid" => k[2] \in Int
DecisionFields == {"what", "print", "debit", "of", "saved", "unchanged"}
Whole == \A k \in DOMAIN decisions : DOMAIN decisions[k] = DecisionFields
OwedInv == today \in Int /\ decided \in Nat /\ PlansKnown /\ UnpaidDated /\ Whole

LEMMA NamesApart ==
    ASSUME PlansKnown, NEW r \in Rows, NEW q \in Rows, r.key = q.key
    PROVE  r = q
<1> DEFINE Scheduled == Upcoming \cup Billed
<1>1. ASSUME NEW x \in Scheduled, NEW y \in Scheduled, x.key = y.key PROVE x = y
  <2>1. CASE x \in Upcoming /\ y \in Upcoming
    BY <1>1, <2>1 DEF Upcoming
  <2>2. CASE x \in Billed /\ y \in Billed
    BY <1>1, <2>2 DEF Billed
  <2>3. \A u \in Upcoming, b \in Billed : u.key # b.key
    BY DEF Upcoming, Billed, PlansKnown
  <2> QED BY <1>1, <2>1, <2>2, <2>3
<1>2. \A x, y \in Acknowledged : x.key = y.key => x = y
  BY DEF Acknowledged
<1>3. Rows = Scheduled \cup {x \in Acknowledged : x.key \notin {s.key : s \in Scheduled}}
  BY DEF Rows
<1> HIDE DEF Scheduled
<1> QED BY <1>1, <1>2, <1>3

LEMMA RowsDated == OwedInv => \A r \in Rows : r.key[2] \in Int
<1> SUFFICES ASSUME OwedInv, NEW r \in Rows PROVE r.key[2] \in Int
  OBVIOUS
<1>1. \A p \in DOMAIN plans : Dates(plans[p]) \subseteq Int
  <2> SUFFICES ASSUME NEW p \in DOMAIN plans PROVE Dates(plans[p]) \subseteq Int
    OBVIOUS
  <2>1. plans[p] \in Planned
    BY DEF OwedInv, PlansKnown
  <2> DEFINE k == plans[p].kind
             e == plans[p].every
  <2>2. k \in {"repeating", "scheduled"} /\ e \in {"week", "month", "year", Nil} /\ plans[p].entries \subseteq Int
         /\ (k = "scheduled" \/ e # Nil)
    BY <2>1 DEF Planned
  <2>3. \A a, f, t : Weekly(a, f, t) \subseteq Days /\ Monthly(a, f, t) \subseteq Days /\ Yearly(a, f, t) \subseteq Days
    BY DEF Weekly, Monthly, Yearly
  <2>4. CASE k = "scheduled"
    BY <2>2, <2>4 DEF Dates
  <2>5. CASE k # "scheduled" /\ e = "week"
    BY <2>3, <2>5, DaysAreNumbers DEF Dates
  <2>6. CASE k # "scheduled" /\ e = "month"
    BY <2>3, <2>6, DaysAreNumbers DEF Dates
  <2>7. CASE k # "scheduled" /\ e = "year"
    BY <2>3, <2>7, DaysAreNumbers DEF Dates
  <2> QED BY <2>2, <2>4, <2>5, <2>6, <2>7
<1>2. CASE r \in Upcoming
  BY <1>1, <1>2 DEF Upcoming
<1>3. CASE r \in Billed
  BY <1>3, OwedAssumption DEF Billed
<1>4. CASE r \in Acknowledged
  BY <1>4 DEF Acknowledged, OwedInv, UnpaidDated
<1> QED BY <1>2, <1>3, <1>4 DEF Rows

LEMMA OwedInvInit == OwedInit => OwedInv
BY OwedAssumption DEF OwedInit, OwedInv, PlansKnown, UnpaidDated, Whole

(* What is recorded from the bank is a whole decision and never a debt.       *)
LEMMA RecordedDated ==
    ASSUME NEW claims, UnpaidDated, Whole, decisions' = Recorded(claims)
    PROVE  UnpaidDated' /\ Whole'
<1>1. \A c : Record(c).what = "paid" /\ DOMAIN Record(c) = DecisionFields
  BY DEF Record, DecisionFields
<1> QED BY <1>1 DEF UnpaidDated, Whole, Recorded

LEMMA OwedInvNext == OwedInv /\ [OwedNext]_owedVars => OwedInv'
<1> SUFFICES ASSUME OwedInv, [OwedNext]_owedVars PROVE OwedInv'
  OBVIOUS
<1> USE DEF OwedInv
<1>1. CASE Read
  BY <1>1, RecordedDated DEF Read, PlansKnown
<1>2. CASE AskAssistant
  BY <1>2 DEF AskAssistant, PlansKnown, UnpaidDated, Whole
<1>3. ASSUME NEW c \in reading, RecordOne(c) PROVE OwedInv'
  BY <1>3, RecordedDated DEF RecordOne, PlansKnown
<1>4. CASE DecideOn
  <2>1. PICK r \in Rows : \E what, debit, of : Choose(r, what, debit, of)
    BY <1>4 DEF DecideOn
  <2>2. r.key[2] \in Int
    BY RowsDated
  <2>3. PICK what, debit, of : Choose(r, what, debit, of)
    BY <2>1
  <2>4. UnpaidDated' /\ Whole'
    BY <2>2, <2>3 DEF Choose, UnpaidDated, Whole, DecisionFields
  <2> QED BY <2>3, <2>4 DEF Choose, PlansKnown
<1>5. ASSUME NEW p \in DOMAIN plans, Drop(p) PROVE OwedInv'
  BY <1>5 DEF Drop, TurnOfEvents, PlansKnown, UnpaidDated, Whole
<1>6. ASSUME NEW p \in DOMAIN plans, NEW d \in Days, Reschedule(p, d) PROVE OwedInv'
  <2> DEFINE es == IF plans[p].kind = "scheduled" THEN {d} ELSE {}
  <2>1. d \in Int /\ es \subseteq Int /\ plans[p] \in Planned
    BY DaysAreNumbers DEF PlansKnown
  <2>2. plans' = [plans EXCEPT ![p] = [plans[p] EXCEPT !.anchor = d, !.entries = es]]
    BY <1>6 DEF Reschedule
  <2>3. [plans[p] EXCEPT !.anchor = d, !.entries = es] \in Planned
    BY <2>1 DEF Planned
  <2>4. PlansKnown'
    BY <2>2, <2>3 DEF PlansKnown
  <2> QED BY <2>4, <1>6 DEF Reschedule, TurnOfEvents, UnpaidDated, Whole
<1>7. ASSUME NEW c \in DOMAIN Cards, NEW a \in Amounts \cup {Nil}, Itemize(c, a) PROVE OwedInv'
  BY <1>7 DEF Itemize, TurnOfEvents, PlansKnown, UnpaidDated, Whole
<1>8. ASSUME NEW p \in DOMAIN debits, NEW to, Turn(p, to) PROVE OwedInv'
  <2>1. UnpaidDated' /\ Whole'
    BY <1>8 DEF Turn, UnpaidDated, Whole, DecisionFields
  <2> QED BY <2>1, <1>8 DEF Turn, TurnOfEvents, PlansKnown
<1>9. CASE Tomorrow
  BY <1>9 DEF Tomorrow, PlansKnown, UnpaidDated, Whole
<1>10. CASE UNCHANGED owedVars
  BY <1>10 DEF owedVars, PlansKnown, UnpaidDated, Whole
<1>11. \A p : Arrive(p) \/ Reclassify(p) \/ UndoDebit(p) => \E to : Turn(p, to)
  BY DEF Arrive, Reclassify, UndoDebit
<1> QED
  BY <1>1, <1>2, <1>3, <1>4, <1>5, <1>6, <1>7, <1>8, <1>9, <1>10, <1>11 DEF OwedNext

(* What a row counts as is its decision or open; the two reasons to leave it   *)
(* out, a debit and a row it is part of, are checked each time.               *)
LEMMA CountingKeepsOrOpens ==
    ASSUME NEW rows, NEW r
    PROVE  /\ CountsAs(rows, r) \in {"open", Decided(r)}
           /\ CountsAs(rows, r) # "open" => CountsAs(rows, r) = Paid(rows, r) /\ Paid(rows, r) = Decided(r)
           /\ CountsAs(rows, r) = "paid" /\ PaidBy(r) # Nil => Proves(rows, r)
BY DEF CountsAs, Paid

LEMMA SettledForAReason == OwedInv => LeftOutOnce
<1> SUFFICES ASSUME OwedInv PROVE LeftOutOnce
  OBVIOUS
<1> DEFINE rows == Rows
<1> DEFINE proved == {r \in rows : CountsAs(rows, r) = "paid" /\ PaidBy(r) # Nil}
<1>1. \A r, q \in rows : r.key = q.key => r = q
  BY NamesApart DEF OwedInv
<1> HIDE DEF rows
<1>2. \A r \in proved : Proves(rows, r)
  BY CountingKeepsOrOpens
<1>3. \A r, q \in proved : r # q => PaidBy(r) # PaidBy(q)
  BY <1>2 DEF Proves, UsedOnce
<1>4. \A r \in proved : PaidBy(r) \in There /\ Debits[PaidBy(r)].amount = r.amount
  BY <1>2 DEF Proves
<1>5. ASSUME NEW t \in rows,
             NEW parts, parts = {r \in rows : CountsAs(rows, r) = "duplicate" /\ decisions[r.key].of = t.key},
             parts # {}
      PROVE  CountsAs(rows, t) = "unpaid" /\ Total(parts) <= t.amount
  <2>1. ASSUME NEW r \in parts
        PROVE  t \in PartOf(rows, r) /\ Total(Parts(rows, t)) <= t.amount /\ r \in Parts(rows, t)
    <3>1. r \in rows /\ Paid(rows, r) = "duplicate" /\ decisions[r.key].of = t.key
      BY <1>5, CountingKeepsOrOpens
    <3>2. PICK u \in PartOf(rows, r) : Total(Parts(rows, u)) <= u.amount
      BY <1>5, <3>1 DEF CountsAs
    <3>3. u = t
      BY <1>1, <3>1, <3>2 DEF PartOf
    <3> QED BY <3>1, <3>2, <3>3 DEF Parts
  <2>2. PICK r \in parts : TRUE
    BY <1>5
  <2>3. Paid(rows, t) = "unpaid" /\ Total(Parts(rows, t)) <= t.amount
    BY <2>1, <2>2 DEF PartOf
  <2>4. CountsAs(rows, t) = "unpaid"
    BY <2>3 DEF CountsAs
  <2>5. \A q \in Parts(rows, t) : q \in rows /\ CountsAs(rows, q) = "duplicate" /\ decisions[q.key].of = t.key
    BY <2>3 DEF Parts, PartOf, CountsAs
  <2>6. parts = Parts(rows, t)
    BY <1>5, <2>1, <2>5
  <2> QED BY <2>3, <2>4, <2>6
<1> QED BY <1>3, <1>4, <1>5 DEF LeftOutOnce, rows

(* Days only pass, and an undecided-about debt is listed on its day or after. *)
LEMMA OwedStaysOwed == OwedInv /\ [OwedNext]_owedVars => [decisions' = decisions => Owed \subseteq {r.key : r \in Rows'}]_owedVars
<1> SUFFICES ASSUME OwedInv, [OwedNext]_owedVars, decisions' = decisions, NEW r \in Rows,
                    r.key[2] < today, CountsAs(Rows, r) = "unpaid"
             PROVE  r.key \in {q.key : q \in Rows'}
  BY DEF Owed
<1>1. Decided(r) = "unpaid"
  BY CountingKeepsOrOpens
<1>2. r.key \in DOMAIN decisions /\ decisions[r.key].what = "unpaid"
  BY <1>1 DEF Decided
<1>3. today \in Int /\ r.key[2] \in Int
  BY RowsDated DEF OwedInv
<1>4. today' = today \/ today' = today + 1
  BY DEF OwedNext, owedVars, Read, AskAssistant, RecordOne, DecideOn, Choose, Drop, Reschedule, Itemize, TurnOfEvents,
         Arrive, Reclassify, UndoDebit, Turn, Tomorrow
<1>5. r.key[2] < today'
  BY <1>3, <1>4
<1> DEFINE a == [key |-> r.key, amount |-> decisions[r.key].saved]
<1>6. a \in Acknowledged' /\ a.key = r.key
  BY <1>2, <1>5 DEF Acknowledged
<1> HIDE DEF a
<1>7. Rows' = (Upcoming' \cup Billed') \cup {x \in Acknowledged' : x.key \notin {s.key : s \in Upcoming' \cup Billed'}}
  BY DEF Rows
<1> QED BY <1>6, <1>7

(* Nobody but the owner changes what was decided.                             *)
LEMMA DecidedStays ==
    OwedInv /\ [OwedNext]_owedVars => [decided' = decided => \A k \in DOMAIN decisions : Same(k)]_owedVars
<1> SUFFICES ASSUME OwedInv, [OwedNext]_owedVars, decided' = decided, NEW k \in DOMAIN decisions PROVE Same(k)
  OBVIOUS
<1>1. CASE UNCHANGED decisions
  BY <1>1 DEF Same
<1>2. ASSUME NEW claims, decisions' = Recorded(claims) PROVE Same(k)
  BY <1>2 DEF Recorded, Same
<1>3. ASSUME NEW p, NEW to, Turn(p, to) PROVE Same(k)
  BY <1>3 DEF Turn, Same, OwedInv, Whole, DecisionFields
<1>4. CASE DecideOn
  <2>1. decided' = decided + 1 /\ decided \in Nat
    BY <1>4 DEF DecideOn, Choose, OwedInv
  <2> QED BY <2>1
<1>5. \A p : Arrive(p) \/ Reclassify(p) \/ UndoDebit(p) => \E to : Turn(p, to)
  BY DEF Arrive, Reclassify, UndoDebit
<1>6. CASE OwedNext
  <2>1. CASE Read \/ \E c \in reading : RecordOne(c)
    BY <1>2, <2>1 DEF Read, RecordOne
  <2>2. CASE AskAssistant \/ Tomorrow
    BY <1>1, <2>2 DEF AskAssistant, Tomorrow
  <2>3. CASE \E p \in DOMAIN plans : Drop(p) \/ \E d \in Days : Reschedule(p, d)
    BY <1>1, <2>3 DEF Drop, Reschedule
  <2>4. CASE \E c \in DOMAIN Cards, a \in Amounts \cup {Nil} : Itemize(c, a)
    BY <1>1, <2>4 DEF Itemize
  <2>5. CASE \E p \in DOMAIN debits : Arrive(p) \/ Reclassify(p) \/ UndoDebit(p)
    BY <1>3, <1>5, <2>5
  <2> QED BY <1>4, <1>6, <2>1, <2>2, <2>3, <2>4, <2>5 DEF OwedNext
<1> QED BY <1>1, <1>6 DEF owedVars

(* What is left out of the plan is left out for a reason that still stands,   *)
(* a debt that was acknowledged stays on the list until it is decided about,  *)
(* and a decision until the owner decides again, whatever the assistant       *)
(* records late from what it read (commitments.service.ts:45-50, 71-121).     *)
THEOREM DebtsAreSettled == OwedSpec => DebtsSettled
<1>1. OwedSpec => []OwedInv
  BY OwedInvInit, OwedInvNext, PTL DEF OwedSpec
<1>2. OwedSpec => []LeftOutOnce
  BY <1>1, SettledForAReason, PTL
<1>3. OwedSpec => DebtStays
  BY <1>1, OwedStaysOwed, PTL DEF OwedSpec, DebtStays
<1>4. OwedSpec => DecisionStays
  BY <1>1, DecidedStays, PTL DEF OwedSpec, DecisionStays
<1> QED BY <1>2, <1>3, <1>4 DEF DebtsSettled
=============================================================================
