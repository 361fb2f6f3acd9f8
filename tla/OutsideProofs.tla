---------------------------- MODULE OutsideProofs ----------------------------
(***************************************************************************)
(* Theorems of what comes from outside and of the door it is kept behind.  *)
(*                                                                         *)
(* SyncOffers.  As long as no run fails, the syncs of a connection keep at *)
(* most one open session for each target: the outcomes name every open     *)
(* one, so the next sync cancels it before it makes its own (IInv).        *)
(* Whatever fails, no sync offers what a file had stored when it read its  *)
(* marks, and a row once seen pending is on record again with the next     *)
(* sync that succeeds (CInv: from the window a run opens, over the         *)
(* website's answer, to what it lists).                                    *)
(*                                                                         *)
(* Access.  Four strengthenings (AInv), one for each promise: while updates*)
(* do not overlap, the account that acts is an active administrator until  *)
(* it has written; while logins of a browser do not, its cookie is the     *)
(* session they came with; a use is never further from being noted than    *)
(* the time allowed; and what a walk through the log has shown is all from *)
(* its cursor on.                                                          *)
(*                                                                         *)
(* Throttle.  What a bucket counts is what its window let through, and the *)
(* callers in a full table asked within a window and a cleaning: LimitInv. *)
(*                                                                         *)
(* The site.  A load waited for asks for the filters chosen, and what it   *)
(* has read is not from before the last change the user was told of unless *)
(* a reload is due; what is sent or asked about was offered for the row it *)
(* is about; an import has one step under way (ScreenInv).                 *)
(*                                                                         *)
(* Plans.  Inductive on their own are the numbers of the payments, the     *)
(* expense that a payment has of a month, and what the last run or the     *)
(* last text left behind (PlansInv).                                       *)
(***************************************************************************)
EXTENDS SyncOffers, Access, Throttle, Plans, Site, Sums, SequenceTheorems, NaturalsInduction

Statuses == {"none", "open", "approved", "cancelled"}

(* The types the argument needs (not those of the days, which rest on the  *)
(* existence of a last day).                                               *)
Shape ==
    /\ made \in 0..MaxSyncs
    /\ status \in [Syncs -> {"none", "running", "succeeded", "failed"}]
    /\ link \in [Offers -> 0..MaxSyncs]
    /\ session \in [Offers -> Statuses]
    /\ got \in [Targets -> Result]
    /\ phase \in {"idle", "started", "scraped"}
    /\ target \in Targets \cup {NoTarget}

(* Every sync but the running one succeeded. *)
AllSucceeded ==
    /\ phase # "idle" => made > 0
    /\ \A s \in Syncs : (s < made \/ (s = made /\ phase = "idle")) => status[s] = "succeeded"

(* The running sync has not come to this target yet. *)
ToCome(t) == phase = "started" \/ (phase = "scraped" /\ got[t].here)

(* The outcomes, with the one being built, name the open sessions. *)
OpenIsNamed ==
    /\ \A t \in Targets : ToCome(t) => link[<<made, t>>] = 0 /\ session[<<made, t>>] = "none"
    /\ \A s \in Syncs, t \in Targets : s > made => link[<<s, t>>] = 0 /\ session[<<s, t>>] = "none"
    /\ \A s \in Syncs, t \in Targets :
          session[<<s, t>>] = "open" => \E u \in Syncs : u <= made /\ link[<<u, t>>] = s

(* At most one is open, and none between a target's cancel and its create. *)
AtMostOneOpen ==
    /\ \A t \in Targets, s1, s2 \in Syncs : session[<<s1, t>>] = "open" /\ session[<<s2, t>>] = "open" => s1 = s2
    /\ target # NoTarget => phase = "scraped" /\ got[target].here
    /\ target # NoTarget => \A s \in Syncs : session[<<s, target>>] # "open"

IInv == Shape /\ AllSucceeded /\ OpenIsNamed /\ AtMostOneOpen

(* An offer is a sync and a target, and there is a bound on the syncs. *)
LEMMA Pairs == MaxSyncs \in Nat /\ \A s \in Syncs, t \in Targets : <<s, t>> \in Offers
  BY BoundsAssumption DEF Offers

(* Init establishes the invariant. *)
LEMMA InitIInv == Init => IInv
<1> SUFFICES ASSUME Init PROVE IInv
  OBVIOUS
<1> USE Pairs DEF Init
<1>1. Shape
  BY DEF Shape, Statuses, Result, Nothing, Syncs
<1>2. AllSucceeded
  BY DEF AllSucceeded, Syncs
<1>3. OpenIsNamed
  BY DEF OpenIsNamed, ToCome
<1>4. AtMostOneOpen
  BY DEF AtMostOneOpen
<1> QED
  BY <1>1, <1>2, <1>3, <1>4 DEF IInv

(* A step that touches no sync, outcome or run, and only approves sessions. *)
LEMMA OtherSteps ==
  ASSUME IInv, UNCHANGED <<made, status, link, got, phase, target>>, session' \in [Offers -> Statuses],
         \A o \in Offers : session'[o] = session[o] \/ (session[o] # "none" /\ session'[o] = "approved")
  PROVE  IInv'
<1> USE Pairs DEF IInv
<1>1. \A s \in Syncs, t \in Targets : session'[<<s, t>>] = session[<<s, t>>]
                                      \/ (session[<<s, t>>] # "none" /\ session'[<<s, t>>] = "approved")
  OBVIOUS
<1>2. Shape' /\ AllSucceeded'
  BY DEF Shape, AllSucceeded
<1>3. \A t \in Targets : ToCome(t)' <=> ToCome(t)
  BY DEF ToCome
<1>4. \A t \in Targets : ToCome(t) => made \in Syncs
  BY DEF ToCome, AllSucceeded, Shape, Syncs
<1>5. OpenIsNamed'
  <2>1. \A t \in Targets : ToCome(t)' => link'[<<made', t>>] = 0 /\ session'[<<made', t>>] = "none"
    BY <1>1, <1>3, <1>4 DEF OpenIsNamed
  <2>2. \A s \in Syncs, t \in Targets : s > made' => link'[<<s, t>>] = 0 /\ session'[<<s, t>>] = "none"
    BY <1>1 DEF OpenIsNamed
  <2>3. \A s \in Syncs, t \in Targets : session'[<<s, t>>] = "open" => \E u \in Syncs : u <= made' /\ link'[<<u, t>>] = s
    BY <1>1 DEF OpenIsNamed
  <2> QED
    BY <2>1, <2>2, <2>3 DEF OpenIsNamed
<1>6. AtMostOneOpen'
  BY <1>1 DEF AtMostOneOpen, Shape
<1> QED
  BY <1>2, <1>5, <1>6

(* The first write of a sync. *)
LEMMA StartStep == IInv /\ Start => IInv'
<1> SUFFICES ASSUME IInv, Start PROVE IInv'
  OBVIOUS
<1> USE Pairs DEF IInv, Shape, Start, Syncs, outcome, sessions
<1>1. made' = made + 1 /\ made + 1 \in Syncs /\ phase' = "started"
  OBVIOUS
<1>2. Shape'
  BY <1>1
<1>3. AllSucceeded'
  BY <1>1 DEF AllSucceeded
<1>4. OpenIsNamed'
  BY <1>1 DEF OpenIsNamed, ToCome
<1>5. AtMostOneOpen'
  BY <1>1 DEF AtMostOneOpen
<1> QED
  BY <1>2, <1>3, <1>4, <1>5

(* The website's answer. *)
LEMMA ScrapeStep == ASSUME IInv, NEW here \in SUBSET Targets, Scrape(here) PROVE IInv'
<1> USE Pairs DEF IInv, Scrape, outcome, sessions, syncs
<1>4. got' \in [Targets -> Result]
  BY DEF OfTarget, Result
<1>1. Shape' /\ AllSucceeded'
  BY <1>4 DEF Shape, AllSucceeded
<1>2. OpenIsNamed'
  BY DEF OpenIsNamed, ToCome
<1>3. AtMostOneOpen'
  BY DEF AtMostOneOpen
<1> QED
  BY <1>1, <1>2, <1>3

(* Every open session of the target is named by a succeeded sync. *)
LEMMA CancelStep == ASSUME IInv, NEW t \in Targets, CancelUnapproved(t) PROVE IInv'
<1> USE Pairs, NoTargetAssumption DEF IInv, outcome, sessions, syncs
<1> DEFINE Cancelled(o) == o[2] = t /\ o[1] \in Named(t) /\ session[o] = "open"
<1>1. /\ session' = [o \in Offers |-> IF Cancelled(o) THEN "cancelled" ELSE session[o]]
      /\ target' = t /\ phase = "scraped" /\ got[t].here /\ target = NoTarget
      /\ UNCHANGED <<made, status, link, got, phase>>
  BY DEF CancelUnapproved, Named
<1>2. \A s \in Syncs : session[<<s, t>>] = "open" => s \in Named(t)
  <2> SUFFICES ASSUME NEW s \in Syncs, session[<<s, t>>] = "open" PROVE s \in Named(t)
    OBVIOUS
  <2>1. PICK u \in Syncs : u <= made /\ link[<<u, t>>] = s
    BY DEF OpenIsNamed
  <2>2. link[<<made, t>>] = 0
    BY <1>1 DEF OpenIsNamed, ToCome
  <2>5. s # 0 /\ made \in Nat /\ u \in Nat
    BY DEF Shape, Syncs
  <2>6. u # made
    BY <2>1, <2>2, <2>5
  <2>3. u < made
    BY <2>1, <2>5, <2>6
  <2>4. status[u] = "succeeded"
    BY <2>3 DEF AllSucceeded
  <2> QED
    BY <2>1, <2>4, <2>5, Zenon DEF Named, Succeeded
<1> HIDE DEF Cancelled
<1>3. \A s \in Syncs, v \in Targets : session'[<<s, v>>] = session[<<s, v>>] \/ (session[<<s, v>>] = "open" /\ session'[<<s, v>>] = "cancelled")
  BY <1>1 DEF Cancelled
<1>4. \A s \in Syncs : session'[<<s, t>>] # "open"
  BY <1>1, <1>2 DEF Cancelled
<1>5. session' \in [Offers -> Statuses]
  BY <1>1 DEF Shape, Statuses
<1>6. Shape' /\ AllSucceeded'
  BY <1>1, <1>5 DEF Shape, AllSucceeded
<1>7. made \in Syncs
  BY <1>1 DEF Shape, AllSucceeded, Syncs
<1>8. OpenIsNamed'
  BY <1>1, <1>3, <1>7 DEF OpenIsNamed, ToCome
<1>9. AtMostOneOpen'
  BY <1>1, <1>3, <1>4 DEF AtMostOneOpen
<1> QED
  BY <1>6, <1>8, <1>9

(* The new session is the target's only open one, and the outcome names it. *)
LEMMA OfferStep == ASSUME IInv, NEW t \in Targets, Offer(t) PROVE IInv'
<1> USE Pairs, NoTargetAssumption DEF IInv, outcome, sessions, syncs
<1> DEFINE me == <<made, t>>
<1>1. target = t /\ target' = NoTarget /\ UNCHANGED <<made, status, phase>> /\ phase = "scraped" /\ got[t].here
  BY DEF Offer, AtMostOneOpen
<1>2. made \in Syncs /\ me \in Offers
  BY <1>1 DEF Shape, AllSucceeded, Syncs
<1>3. \A s \in Syncs : session[<<s, t>>] # "open"
  BY <1>1 DEF AtMostOneOpen
<1>4. \/ /\ session' = session /\ link' = [link EXCEPT ![me] = 0]
      \/ /\ session' = [session EXCEPT ![me] = "open"] /\ link' = [link EXCEPT ![me] = made]
  <2>1. \A s \in SameFile(t) : session[<<s, t>>] # "open"
    BY <1>3 DEF SameFile
  <2> QED
    BY <2>1 DEF Offer
<1>5. \A v \in Targets : got'[v].here => got[v].here /\ v # t
  <2>1. got' = [got EXCEPT ![t] = Nothing]
    BY DEF Offer
  <2> QED
    BY <2>1 DEF Nothing, Shape
<1>11. got' \in [Targets -> Result]
  BY DEF Offer, Shape, Result, Nothing
<1> HIDE DEF me
<1>6. \A s \in Syncs, v \in Targets : (s # made \/ v # t) => session'[<<s, v>>] = session[<<s, v>>] /\ link'[<<s, v>>] = link[<<s, v>>]
  BY <1>2, <1>4 DEF me, Shape
<1>7. Shape' /\ AllSucceeded'
  BY <1>1, <1>2, <1>4, <1>11 DEF Shape, AllSucceeded, Statuses
<1>8. session'[<<made, t>>] = "open" => link'[<<made, t>>] = made
  BY <1>2, <1>3, <1>4 DEF me, Shape
<1>9. OpenIsNamed'
  <2>1. \A v \in Targets : ToCome(v)' => ToCome(v) /\ v # t
    BY <1>1, <1>5 DEF ToCome
  <2>2. \A v \in Targets : ToCome(v)' => link'[<<made', v>>] = 0 /\ session'[<<made', v>>] = "none"
    BY <2>1, <1>1, <1>2, <1>6 DEF OpenIsNamed
  <2>3. \A s \in Syncs, v \in Targets : s > made' => link'[<<s, v>>] = 0 /\ session'[<<s, v>>] = "none"
    BY <1>1, <1>2, <1>6 DEF OpenIsNamed, Shape, Syncs
  <2>4. ASSUME NEW s \in Syncs, NEW v \in Targets, session'[<<s, v>>] = "open"
        PROVE  \E u \in Syncs : u <= made' /\ link'[<<u, v>>] = s
    <3>1. CASE s = made /\ v = t
      <4>1. made \in Syncs /\ made <= made'
        BY <1>1, <1>2 DEF Shape
      <4>2. link'[<<made, v>>] = s
        BY <3>1, <2>4, <1>8
      <4> QED
        BY <4>1, <4>2
    <3>2. CASE v = t /\ s # made
      BY <3>2, <2>4, <1>3, <1>6
    <3>3. CASE v # t
      <4>1. session[<<s, v>>] = "open"
        BY <3>3, <2>4, <1>6
      <4>2. PICK u \in Syncs : u <= made /\ link[<<u, v>>] = s
        BY <4>1 DEF OpenIsNamed
      <4> QED
        BY <3>3, <4>2, <1>1, <1>6
    <3> QED
      BY <3>1, <3>2, <3>3
  <2> QED
    BY <2>2, <2>3, <2>4 DEF OpenIsNamed
<1>10. AtMostOneOpen'
  BY <1>1, <1>3, <1>6 DEF AtMostOneOpen
<1> QED
  BY <1>7, <1>9, <1>10

(* The end of a sync. *)
LEMMA SucceedStep == IInv /\ Succeed => IInv'
<1> SUFFICES ASSUME IInv, Succeed PROVE IInv'
  OBVIOUS
<1> USE Pairs DEF IInv, Succeed, Reset, outcome, sessions
<1>1. Shape'
  BY DEF Shape, Result, Nothing
<1>2. AllSucceeded'
  BY DEF Shape, AllSucceeded, Syncs
<1>3. OpenIsNamed'
  BY DEF OpenIsNamed, ToCome
<1>4. AtMostOneOpen'
  BY DEF AtMostOneOpen
<1> QED
  BY <1>1, <1>2, <1>3, <1>4

(* A sync that has not started has no status, and the one that runs has not *)
(* failed: a failure, once there, stays.                                    *)
FailuresStay ==
    /\ made \in 0..MaxSyncs
    /\ status \in [Syncs -> {"none", "running", "succeeded", "failed"}]
    /\ \A s \in Syncs : s > made => status[s] = "none"
    /\ phase # "idle" => made > 0 /\ status[made] = "running"

(* Every step keeps that, and keeps the failures. *)
LEMMA FailureStep ==
  ASSUME FailuresStay, [Next]_vars
  PROVE  FailuresStay' /\ (NoFailure' => NoFailure)
<1> USE Pairs DEF FailuresStay, NoFailure, Syncs, outcome, sessions, syncs, read, world
<1>1. CASE Start
  BY <1>1 DEF Start
<1>2. CASE Succeed \/ Fail
  BY <1>2 DEF Succeed, Fail, Reset
<1>3. ASSUME NEW here \in SUBSET Targets, Scrape(here) PROVE FailuresStay' /\ (NoFailure' => NoFailure)
  BY <1>3 DEF Scrape
<1>4. CASE /\ ~Start /\ ~Succeed /\ ~Fail /\ \A here \in SUBSET Targets : ~Scrape(here)
  <2>1. UNCHANGED <<made, status, phase>>
    BY <1>4 DEF Next, vars, Appear, Settle, ImportFile, Approve, CancelUnapproved, Offer
  <2> QED
    BY <2>1
<1> QED
  BY <1>1, <1>2, <1>3, <1>4

Inv == FailuresStay /\ (NoFailure => IInv)

(* As long as no run failed, no row is on offer twice, for any website, owner *)
(* and targets.                                                              *)
THEOREM OneOffer == Spec => []OneOpenOffer
<1>1. Init => Inv
  BY InitIInv, Pairs DEF Inv, FailuresStay, Init, Syncs
<1>2. Inv /\ [Next]_vars => Inv'
  <2> SUFFICES ASSUME Inv, [Next]_vars, NoFailure' PROVE IInv'
    BY FailureStep DEF Inv
  <2>0. IInv
    BY FailureStep DEF Inv
  <2>1. CASE UNCHANGED vars
    BY <2>0, <2>1, OtherSteps DEF vars, IInv, Shape
  <2> USE DEF outcome, sessions, syncs, read, world
  <2>2. ASSUME NEW r \in Rows, NEW as, Appear(r, as) \/ Settle(r, as) PROVE IInv'
    BY <2>0, <2>2, OtherSteps DEF Appear, Settle, IInv, Shape
  <2>3. ASSUME NEW t \in Targets, NEW day, ImportFile(t, day) PROVE IInv'
    BY <2>0, <2>3, OtherSteps DEF ImportFile, IInv, Shape
  <2>4. ASSUME NEW o \in Offers, Approve(o) PROVE IInv'
    BY <2>0, <2>4, OtherSteps DEF Approve, IInv, Shape, Statuses
  <2>5. ~Fail
    <3>1. SUFFICES ASSUME Fail PROVE FALSE
      OBVIOUS
    <3>2. made \in Syncs /\ status' = [status EXCEPT ![made] = "failed"]
      BY <3>1, Pairs DEF Fail, Inv, FailuresStay, Syncs
    <3> QED
      BY <3>2 DEF NoFailure, Inv, FailuresStay
  <2> QED
    BY <2>0, <2>1, <2>2, <2>3, <2>4, <2>5, StartStep, ScrapeStep, CancelStep, OfferStep, SucceedStep DEF Next
<1>3. Inv => OneOpenOffer
  BY DEF Inv, IInv, AtMostOneOpen, OneOpenOffer
<1> QED
  BY <1>1, <1>2, <1>3, PTL DEF Spec
-----------------------------------------------------------------------------
(* Days *)

(* A set of naturals that is not empty has a least element. *)
LEMMA Least ==
    ASSUME NEW T \in SUBSET Nat, T # {}
    PROVE  \E x \in T : \A y \in T : x <= y
<1> DEFINE less == {p \in Nat \X Nat : p[1] < p[2]}
<1>1. OpToRel(<, Nat) = less
  BY DEF OpToRel
<1>2. IsWellFoundedOn(less, Nat)
  BY <1>1, NatLessThanWellFounded
<1> HIDE DEF less
<1>3. PICK x \in T : \A y \in T : ~(<<y, x>> \in less)
  BY <1>2, WFMin
<1>4. ASSUME NEW y \in T PROVE x <= y
  <2>1. x \in Nat /\ y \in Nat
    OBVIOUS
  <2>2. ~(y < x)
    BY <1>3, <2>1 DEF less
  <2> QED BY <2>1, <2>2
<1> QED BY <1>4

(* Finitely many rows have a last one. *)
LEMMA LastRow ==
    ASSUME NEW rs \in SUBSET Rows, IsFiniteSet(rs), rs # {}
    PROVE  \E r \in rs : \A q \in rs : DayOf[q] <= DayOf[r]
<1> DEFINE HasLast(A) == \E r \in A : \A q \in A : DayOf[q] <= DayOf[r]
           T == {n \in Nat : \E A \in SUBSET rs : A # {} /\ Cardinality(A) = n /\ ~HasLast(A)}
<1> USE DayOfAssumption
<1>1. \A A \in SUBSET rs : IsFiniteSet(A) /\ Cardinality(A) \in Nat
  BY FS_Subset, FS_CardinalityType
<1>2. ASSUME T # {} PROVE FALSE
  <2>1. PICK n \in T : \A k \in T : n <= k
    <3>1. T \in SUBSET Nat
      OBVIOUS
    <3> HIDE DEF T
    <3> QED BY <1>2, <3>1, Least
  <2>2. PICK A \in SUBSET rs : A # {} /\ Cardinality(A) = n /\ ~HasLast(A)
    OBVIOUS
  <2>3. PICK a \in A : TRUE
    BY <2>2
  <2> DEFINE B == A \ {a}
  <2>4. B \in SUBSET rs /\ Cardinality(B) = Cardinality(A) - 1
    BY <1>1, FS_RemoveElement
  <2>5. B # {}
    <3>1. B = {} => A = {a}
      OBVIOUS
    <3> QED BY <2>2, <3>1
  <2>6. HasLast(B)
    <3>1. ~HasLast(B) => Cardinality(B) \in T
      BY <1>1, <2>4, <2>5
    <3>2. n \in Nat /\ Cardinality(A) \in Nat /\ Cardinality(B) \in Nat
      BY <1>1, <2>4
    <3> HIDE DEF T, B, HasLast
    <3> QED BY <2>1, <2>2, <2>4, <3>1, <3>2
  <2>7. PICK b \in B : \A q \in B : DayOf[q] <= DayOf[b]
    BY <2>6
  <2>8. DayOf[a] \in Nat /\ DayOf[b] \in Nat /\ \A q \in A : DayOf[q] \in Nat /\ (q = a \/ q \in B)
    OBVIOUS
  <2>9. HasLast(A)
    <3>1. CASE DayOf[a] <= DayOf[b]
      BY <2>7, <2>8, <3>1
    <3>2. CASE DayOf[b] <= DayOf[a]
      BY <2>7, <2>8, <3>2
    <3> QED BY <2>8, <3>1, <3>2
  <2> QED BY <2>2, <2>9
<1>3. rs \in SUBSET rs /\ Cardinality(rs) \in Nat
  BY <1>1
<1> QED BY <1>2, <1>3

(* LastDay is the day of none of the rows or later. *)
LEMMA LastDayIs ==
    ASSUME NEW rs \in SUBSET Rows, IsFiniteSet(Rows)
    PROVE  LastDay(rs) \in Nat /\ \A r \in rs : DayOf[r] <= LastDay(rs)
<1>1. CASE rs = {}
  BY <1>1 DEF LastDay
<1>2. CASE rs # {}
  <2> DEFINE days == {DayOf[r] : r \in rs}
  <2>1. PICK r \in rs : \A q \in rs : DayOf[q] <= DayOf[r]
    BY <1>2, LastRow, FS_Subset
  <2>2. days \in SUBSET Nat /\ DayOf[r] \in days /\ \A d \in days : DayOf[r] >= d
    BY <2>1, DayOfAssumption
  <2>3. Max(days) \in days /\ \A d \in days : Max(days) >= d
    <3> HIDE DEF days
    <3> QED BY <2>2 DEF Max
  <2>4. LastDay(rs) = Max(days)
    BY <1>2 DEF LastDay
  <2>5. \A q \in rs : DayOf[q] \in days
    OBVIOUS
  <2> HIDE DEF days
  <2> QED BY <2>2, <2>3, <2>4, <2>5
<1> QED BY <1>1, <1>2

(* FirstDay is the day of none of the rows or earlier. *)
LEMMA FirstDayIs ==
    ASSUME NEW rs \in SUBSET Rows, rs # {}
    PROVE  FirstDay(rs) - 1 \in Nat /\ \A r \in rs : FirstDay(rs) - 1 < DayOf[r]
<1> DEFINE days == {DayOf[r] : r \in rs}
<1>1. days \in SUBSET (Nat \ {0}) /\ days \in SUBSET Nat /\ days # {} /\ \A q \in rs : DayOf[q] \in days
  BY DayOfAssumption
<1>2. FirstDay(rs) = Min(days)
  BY DEF FirstDay
<1> HIDE DEF days
<1>3. \E x \in days : \A y \in days : x =< y
  BY <1>1, Least
<1>4. Min(days) \in days /\ \A d \in days : Min(days) <= d
  BY <1>3 DEF Min
<1>5. FirstDay(rs) \in Nat \ {0} /\ \A r \in rs : FirstDay(rs) <= DayOf[r] /\ DayOf[r] \in Nat
  BY <1>1, <1>2, <1>4
<1> QED BY <1>5

(* The website is asked for no later day than a target needs. *)
LEMMA ScrapesEnough ==
    ASSUME NEW t \in Targets, after \in [Targets -> Nat]
    PROVE  ScrapeFrom \in Nat /\ ScrapeFrom <= after[t]
<1> DEFINE days == {after[v] : v \in Targets}
<1>1. days \in SUBSET Nat /\ after[t] \in days /\ days # {} /\ ScrapeFrom = Min(days)
  BY DEF ScrapeFrom
<1> HIDE DEF days
<1>2. \E x \in days : \A y \in days : x =< y
  BY <1>1, Least
<1>3. Min(days) \in days /\ \A d \in days : Min(days) <= d
  BY <1>2 DEF Min
<1> QED BY <1>1, <1>3

(* A last sync that succeeded is one of the syncs that did. *)
LEMMA LastSucceeded == Succeeded # {} => Max(Succeeded) \in Succeeded
<1> SUFFICES ASSUME Succeeded # {} PROVE Max(Succeeded) \in Succeeded
  OBVIOUS
<1> DEFINE left == {MaxSyncs - s : s \in Succeeded}
<1>1. Succeeded \in SUBSET (1..MaxSyncs) /\ MaxSyncs \in Nat
  BY BoundsAssumption DEF Succeeded, Syncs
<1>6. \A s \in Succeeded : s \in Nat /\ MaxSyncs - s \in Nat
  BY <1>1
<1>2. left \in SUBSET Nat /\ left # {} /\ \A s \in Succeeded : MaxSyncs - s \in left
  BY <1>6
<1>3. PICK x \in left : \A y \in left : x <= y
  <2> HIDE DEF left
  <2> QED BY <1>2, Least
<1>4. PICK s \in Succeeded : x = MaxSyncs - s
  OBVIOUS
<1> HIDE DEF left
<1>5. \A q \in Succeeded : s >= q
  <2> SUFFICES ASSUME NEW q \in Succeeded PROVE s >= q
    OBVIOUS
  <2>1. MaxSyncs - s <= MaxSyncs - q /\ s \in Nat /\ q \in Nat
    BY <1>1, <1>2, <1>3, <1>4
  <2> QED BY <1>1, <2>1
<1> QED BY <1>5 DEF Max
-----------------------------------------------------------------------------
(* What a run carries on from the last one that succeeded *)

(* A run has read marks no earlier than its files, and holds rows of the   *)
(* target they came for; a row seen pending was seen.                      *)
Marked ==
    /\ \A t \in Targets : fileMark[t] <= after[t]
    /\ \A t \in Targets : got[t].settled \subseteq OfTarget(t) /\ got[t].pending \subseteq OfTarget(t)
    /\ \A s \in Syncs, t \in Targets : pending[<<s, t>>] \subseteq OfTarget(t)
    /\ \A s \in Syncs, t \in Targets : \A r \in pending[<<s, t>>] : site[r] # "unseen"
    /\ \A t \in Targets : \A r \in got[t].pending : site[r] # "unseen"

(* A target is listed once the run is through with it. *)
ListedIsDone ==
    /\ \A s \in Syncs : s > made => listed[s] = {}
    /\ phase = "started" => listed[made] = {}
    /\ phase = "scraped" => \A t \in listed[made] : ~got[t].here
    /\ target # NoTarget => phase = "scraped" /\ got[target].here

(* A run makes its session of a target when it comes to it. *)
Unmade ==
    \A s \in Syncs, t \in Targets : s > made \/ (s = made /\ ToCome(t)) => session[<<s, t>>] = "none"

(* Rows carried to this run: its window reaches them, the website's answer *)
(* shows them, and they are on record again once their target is listed.   *)
Reaches ==
    phase # "idle" =>
        \A t \in Targets : \A r \in Carried(t) : DayOf[r] <= fileMark[t] \/ DayOf[r] > after[t]
Answered(t) ==
    \A r \in Carried(t) :
        \/ DayOf[r] <= fileMark[t] \/ site[r] = "gone"
        \/ DayOf[r] > after[t] /\ r \in got[t].settled \cup got[t].pending
CarriesOn(t) ==
    \A r \in Carried(t) :
        \/ DayOf[r] <= fileMark[t] \/ site[r] = "gone"
        \/ r \in pending[<<made, t>>] \cup OnOffer(t) \cup Taken(t)
Shows == phase = "scraped" => \A t \in Targets : got[t].here => Answered(t)
Carries == phase # "idle" => \A t \in listed[made] : CarriesOn(t)

CInv == TypeOK /\ FailuresStay /\ Marked /\ ListedIsDone /\ Unmade /\ Reaches /\ Shows /\ Carries

(* The rows carried are those of a run that is over. *)
LEMMA SameCarried ==
    ASSUME FailuresStay, phase # "idle", NEW t \in Targets, status' = status,
           \A s \in Syncs : s # made => pending'[<<s, t>>] = pending[<<s, t>>]
    PROVE  Carried(t)' = Carried(t)
<1>1. Succeeded' = Succeeded
  BY DEF Succeeded
<1>2. CASE Succeeded = {}
  BY <1>1, <1>2 DEF Carried
<1>3. CASE Succeeded # {}
  <2>1. Max(Succeeded) \in Syncs /\ status[Max(Succeeded)] = "succeeded"
    BY <1>3, LastSucceeded DEF Succeeded
  <2>2. Max(Succeeded) # made
    BY <2>1 DEF FailuresStay
  <2>3. pending'[<<Max(Succeeded), t>>] = pending[<<Max(Succeeded), t>>]
    BY <2>1, <2>2
  <2> QED BY <1>1, <1>3, <2>3 DEF Carried
<1> QED BY <1>2, <1>3

(* A carried row is a row of the target, and was seen. *)
LEMMA CarriedRows ==
    ASSUME TypeOK, Marked, NEW t \in Targets
    PROVE  /\ Carried(t) \subseteq OfTarget(t)
           /\ \A r \in Carried(t) : r \in Rows /\ site[r] # "unseen"
<1>1. CASE Succeeded = {}
  BY <1>1 DEF Carried
<1>2. CASE Succeeded # {}
  <2>1. Max(Succeeded) \in Syncs
    BY <1>2, LastSucceeded DEF Succeeded
  <2>2. Carried(t) = pending[<<Max(Succeeded), t>>]
    BY <1>2 DEF Carried
  <2> QED BY <2>1, <2>2 DEF Marked, OfTarget
<1> QED BY <1>1, <1>2

(* Offers and stored rows of a target, when no session of it is given up. *)
LEMMA StillThere ==
    ASSUME NEW t \in Targets, filed \subseteq filed',
           \A s \in Syncs : session[<<s, t>>] \in {"open", "approved"} =>
               session'[<<s, t>>] \in {"open", "approved"} /\ rowsOf'[<<s, t>>] = rowsOf[<<s, t>>]
    PROVE  OnOffer(t) \cup Taken(t) \subseteq OnOffer(t)' \cup Taken(t)'
<1> SUFFICES ASSUME NEW r, r \in OnOffer(t) \cup Taken(t) PROVE r \in OnOffer(t)' \cup Taken(t)'
  OBVIOUS
<1>1. CASE r \in filed
  BY <1>1 DEF Taken
<1>2. ASSUME NEW s \in Syncs, session[<<s, t>>] \in {"open", "approved"}, r \in rowsOf[<<s, t>>]
      PROVE  r \in OnOffer(t)' \cup Taken(t)'
  <2>1. r \in rowsOf'[<<s, t>>] /\ session'[<<s, t>>] \in {"open", "approved"}
    BY <1>2
  <2>2. CASE session'[<<s, t>>] = "open"
    BY <2>1, <2>2 DEF OnOffer
  <2>3. CASE session'[<<s, t>>] = "approved"
    BY <2>1, <2>3 DEF Taken, Synced
  <2> QED BY <2>1, <2>2, <2>3
<1> QED BY <1>1, <1>2 DEF OnOffer, Taken, Synced

(* The window of a run: the files are behind it, the rows carried ahead. *)
LEMMA WindowIs ==
    ASSUME TypeOK, Marked, IsFiniteSet(Rows), NEW t \in Targets
    PROVE  /\ FilesThrough(t) \in Nat /\ Window(t) \in Nat /\ FilesThrough(t) <= Window(t)
           /\ \A r \in Carried(t) : DayOf[r] <= FilesThrough(t) \/ DayOf[r] > Window(t)
<1>1. FilesThrough(t) \in Nat
  BY LastDayIs DEF FilesThrough, OfTarget
<1>2. StoredThrough(t) \in Nat
  <2>1. Synced(t) \in SUBSET Rows
    <3>1. \A s \in Syncs : rowsOf[<<s, t>>] \subseteq Rows
      BY Pairs DEF TypeOK
    <3> QED BY <3>1 DEF Synced
  <2>2. LastDay(Synced(t)) \in Nat /\ Overlap[t] \in Nat
    BY <2>1, LastDayIs, OverlapAssumption
  <2> QED BY <1>1, <2>2 DEF StoredThrough, Later, Back
<1> HIDE DEF FilesThrough, StoredThrough
<1>3. CASE Carried(t) = {}
  BY <1>1, <1>2, <1>3 DEF Window, Later, Earlier
<1>4. CASE Carried(t) # {}
  <2> DEFINE first == FirstDay(Carried(t)) - 1
  <2>1. first \in Nat /\ \A r \in Carried(t) : first < DayOf[r] /\ DayOf[r] \in Nat
    BY <1>4, CarriedRows, FirstDayIs, DayOfAssumption
  <2>2. Window(t) = Later(Earlier(first, StoredThrough(t)), FilesThrough(t))
    BY <1>4 DEF Window
  <2> HIDE DEF first
  <2>3. Window(t) \in Nat /\ FilesThrough(t) <= Window(t)
    BY <1>1, <1>2, <2>1, <2>2 DEF Later, Earlier
  <2>4. Window(t) <= FilesThrough(t) \/ Window(t) <= first
    BY <1>1, <1>2, <2>1, <2>2 DEF Later, Earlier
  <2> QED BY <1>1, <2>1, <2>3, <2>4
<1> QED BY <1>3, <1>4

(* Init establishes the invariant. *)
LEMMA InitCInv == Init => CInv
<1> SUFFICES ASSUME Init PROVE CInv
  OBVIOUS
<1> USE Pairs DEF Init
<1>1. TypeOK
  BY ImportedAssumption, BoundsAssumption DEF TypeOK, Shown, Result, Nothing, Offers, Syncs
<1>2. FailuresStay
  BY DEF FailuresStay, Syncs
<1>3. Marked /\ ListedIsDone /\ Unmade
  BY DEF Marked, ListedIsDone, Nothing, Unmade
<1> QED
  BY <1>1, <1>2, <1>3 DEF CInv, Reaches, Shows, Carries

(* A step of the website or the owner: rows stay seen, settled ones stay, and *)
(* what was stored or on offer is so still.                                   *)
LEMMA WorldKeeps ==
    ASSUME CInv, TypeOK', UNCHANGED <<made, status, listed, pending, after, fileMark, got, phase, target>>,
           \A r \in Rows : site'[r] = site[r] \/ (site[r] \notin {"settled", "gone"} /\ site'[r] # "unseen"),
           \A o \in Offers : session[o] = "none" => session'[o] = "none",
           \A t \in Targets : OnOffer(t) \cup Taken(t) \subseteq OnOffer(t)' \cup Taken(t)'
    PROVE  CInv'
<1> USE Pairs DEF CInv
<1>1. \A t \in Targets : Carried(t)' = Carried(t)
  BY DEF Carried, Succeeded
<1>2. \A t \in Targets : \A r \in Carried(t) : r \in Rows /\ (site[r] = "gone" => site'[r] = "gone")
  BY CarriedRows
<1>3. FailuresStay' /\ ListedIsDone' /\ Reaches'
  BY <1>1 DEF FailuresStay, ListedIsDone, Reaches
<1>4. Marked'
  <2>1. \A r \in Rows : site[r] # "unseen" => site'[r] # "unseen"
    OBVIOUS
  <2>2. \A t \in Targets : OfTarget(t) \subseteq Rows /\ OfTarget(t)' = OfTarget(t)
    BY DEF OfTarget
  <2> QED BY <2>1, <2>2 DEF Marked
<1>5. Shows'
  BY <1>1, <1>2 DEF Shows, Answered
<1>6. Carries'
  <2>1. ASSUME NEW t \in Targets, CarriesOn(t) PROVE CarriesOn(t)'
    <3>1. OnOffer(t) \cup Taken(t) \subseteq OnOffer(t)' \cup Taken(t)'
      OBVIOUS
    <3> QED BY <1>1, <1>2, <2>1, <3>1 DEF CarriesOn
  <2>2. phase # "idle" => listed[made] \subseteq Targets
    BY DEF TypeOK, FailuresStay, Syncs
  <2> QED BY <2>1, <2>2 DEF Carries
<1>7. Unmade'
  BY DEF Unmade, ToCome
<1> QED BY <1>3, <1>4, <1>5, <1>6, <1>7

(* What of the website's rows and of the sessions a step leaves alone. *)
LEMMA SiteKeeps ==
    ASSUME CInv, NEW r \in Rows, NEW as \in Shown \ {"unseen"}, Appear(r, as) \/ Settle(r, as)
    PROVE  CInv'
<1> USE DEF Appear, Settle, syncs, outcome, sessions, read
<1>1. TypeOK'
  BY DEF CInv, TypeOK
<1>2. \A q \in Rows : site'[q] = site[q] \/ (site[q] \notin {"settled", "gone"} /\ site'[q] # "unseen")
  BY DEF CInv, TypeOK
<1>3. \A t \in Targets : OnOffer(t) \cup Taken(t) \subseteq OnOffer(t)' \cup Taken(t)'
  BY StillThere
<1> QED BY <1>1, <1>2, <1>3, WorldKeeps

(* The owner imports a file or approves a session. *)
LEMMA OwnerKeeps ==
    ASSUME CInv, \/ \E t \in Targets, r \in Rows : ImportFile(t, DayOf[r])
                 \/ \E o \in Offers : Approve(o)
    PROVE  CInv'
<1> USE DEF ImportFile, Approve, syncs, outcome, sessions, read, world
<1>1. CASE \E t \in Targets, r \in Rows : ImportFile(t, DayOf[r])
  <2>1. TypeOK'
    BY <1>1, BoundsAssumption DEF CInv, TypeOK, OfTarget
  <2>2. \A t \in Targets : OnOffer(t) \cup Taken(t) \subseteq OnOffer(t)' \cup Taken(t)'
    BY <1>1, StillThere
  <2> QED BY <1>1, <2>1, <2>2, WorldKeeps
<1>2. ASSUME NEW o \in Offers, Approve(o) PROVE CInv'
  <2>1. TypeOK'
    BY <1>2 DEF CInv, TypeOK
  <2>2. \A t \in Targets, s \in Syncs : session[<<s, t>>] \in {"open", "approved"} =>
            session'[<<s, t>>] \in {"open", "approved"} /\ rowsOf'[<<s, t>>] = rowsOf[<<s, t>>]
    BY <1>2, Pairs DEF CInv, TypeOK
  <2>3. \A t \in Targets : OnOffer(t) \cup Taken(t) \subseteq OnOffer(t)' \cup Taken(t)'
    BY <1>2, <2>2, StillThere
  <2>4. \A q \in Offers : session[q] = "none" => session'[q] = "none"
    BY <1>2 DEF CInv, TypeOK
  <2> QED BY <1>2, <2>1, <2>3, <2>4, WorldKeeps
<1> QED BY <1>1, <1>2

(* The first write of a run fixes its window. *)
LEMMA StartKeeps == IsFiniteSet(Rows) /\ CInv /\ Start => CInv'
<1> SUFFICES ASSUME IsFiniteSet(Rows), CInv, Start PROVE CInv'
  OBVIOUS
<1> USE Pairs DEF CInv, Start, outcome, sessions, world
<1>1. made + 1 \in Syncs /\ made \in Nat
  BY BoundsAssumption DEF TypeOK, Syncs
<1>2. \A t \in Targets : /\ FilesThrough(t) \in Nat /\ Window(t) \in Nat /\ FilesThrough(t) <= Window(t)
                         /\ \A r \in Carried(t) : DayOf[r] <= FilesThrough(t) \/ DayOf[r] > Window(t)
  BY WindowIs
<1>3. \A t \in Targets : after'[t] = Window(t) /\ fileMark'[t] = FilesThrough(t)
  OBVIOUS
<1>4. TypeOK'
  BY <1>1, <1>2 DEF TypeOK, Syncs
<1>5. FailuresStay'
  BY FailureStep DEF Next
<1>6. Marked'
  BY <1>2, <1>3 DEF Marked, OfTarget
<1>7. ListedIsDone'
  BY <1>1 DEF ListedIsDone, Syncs
<1>8. \A t \in Targets : Carried(t)' = Carried(t)
  <2>1. status[made + 1] = "none"
    BY <1>1 DEF FailuresStay
  <2>2. Succeeded' = Succeeded
    BY <1>1, <2>1 DEF Succeeded, TypeOK
  <2> QED BY <2>2 DEF Carried
<1>9. Reaches'
  BY <1>2, <1>3, <1>8 DEF Reaches
<1>10. listed'[made'] = {} /\ phase' = "started"
  BY <1>1 DEF ListedIsDone
<1>11. Unmade'
  BY <1>1 DEF Unmade, Syncs
<1> QED BY <1>4, <1>5, <1>6, <1>7, <1>9, <1>10, <1>11 DEF Shows, Carries

(* The website's answer shows what was carried, unless it went. *)
LEMMA ScrapeKeeps == ASSUME CInv, NEW here \in SUBSET Targets, Scrape(here) PROVE CInv'
<1> USE Pairs DEF CInv, Scrape, outcome, sessions, world, syncs, read
<1>1. TypeOK'
  <2>1. got' \in [Targets -> Result]
    BY DEF OfTarget, Result
  <2> QED BY <2>1 DEF TypeOK
<1>2. FailuresStay'
  BY FailureStep DEF Next
<1>3. Marked'
  BY DEF Marked, OfTarget
<1>4. ListedIsDone'
  BY NoTargetAssumption DEF ListedIsDone
<1>5. \A t \in Targets : Carried(t)' = Carried(t)
  BY DEF Carried, Succeeded
<1>6. Reaches'
  BY <1>5 DEF Reaches
<1>7. Shows'
  <2> SUFFICES ASSUME NEW t \in Targets, got'[t].here, NEW r \in Carried(t),
                      DayOf[r] > fileMark[t], site[r] # "gone"
               PROVE  DayOf[r] > after[t] /\ r \in got'[t].settled \cup got'[t].pending
    <3>1. \A t \in Targets : \A r \in Carried(t) : DayOf[r] \in Nat /\ fileMark[t] \in Nat
      BY CarriedRows, DayOfAssumption DEF TypeOK
    <3>2. \A t \in Targets : \A r \in Carried(t) : DayOf[r] <= fileMark[t] \/ DayOf[r] > fileMark[t]
      BY <3>1
    <3>3. \A t \in Targets : got'[t].here => Answered(t)'
      BY <1>5, <3>2 DEF Answered
    <3> QED BY <3>3 DEF Shows
  <2>1. r \in OfTarget(t) /\ r \in Rows /\ site[r] \in {"pending", "settled"}
    BY CarriedRows DEF TypeOK, Shown
  <2>2. DayOf[r] > after[t]
    BY <2>1, DayOfAssumption DEF Reaches, TypeOK
  <2>3. DayOf[r] >= ScrapeFrom
    BY <2>1, <2>2, ScrapesEnough, DayOfAssumption DEF TypeOK
  <2>4. t \in here
    OBVIOUS
  <2> QED BY <2>1, <2>2, <2>3, <2>4
<1>8. Carries'
  BY DEF Carries, ListedIsDone
<1>9. Unmade'
  BY DEF Unmade, ToCome
<1> QED BY <1>1, <1>2, <1>3, <1>4, <1>6, <1>7, <1>8, <1>9

(* A target's sessions are given up before it is listed. *)
LEMMA CancelKeeps == ASSUME CInv, NEW t \in Targets, CancelUnapproved(t) PROVE CInv'
<1> USE Pairs DEF CInv, outcome, world, syncs, read
<1> DEFINE Cancelled(o) == o[2] = t /\ o[1] \in Named(t) /\ session[o] = "open"
<1>1. /\ session' = [o \in Offers |-> IF Cancelled(o) THEN "cancelled" ELSE session[o]]
      /\ target' = t /\ phase = "scraped" /\ got[t].here
      /\ UNCHANGED <<site, filed, files, made, status, listed, pending, link, rowsOf, after, fileMark, got, phase>>
  BY DEF CancelUnapproved
<1>2. \A s \in Syncs, v \in Targets : v # t => session'[<<s, v>>] = session[<<s, v>>]
  BY <1>1
<1>3. TypeOK'
  BY <1>1 DEF TypeOK
<1>4. FailuresStay' /\ Marked'
  BY <1>1 DEF FailuresStay, Marked, OfTarget
<1>5. ListedIsDone'
  BY <1>1 DEF ListedIsDone
<1>6. \A v \in Targets : Carried(v)' = Carried(v)
  BY <1>1 DEF Carried, Succeeded
<1>7. Reaches' /\ Shows'
  BY <1>1, <1>6 DEF Reaches, Shows, Answered
<1>8. Carries'
  <2>1. ASSUME NEW v \in Targets, v # t, CarriesOn(v) PROVE CarriesOn(v)'
    <3>1. OnOffer(v) \cup Taken(v) \subseteq OnOffer(v)' \cup Taken(v)'
      BY <1>1, <1>2, <2>1, StillThere
    <3> QED BY <1>1, <1>6, <2>1, <3>1 DEF CarriesOn
  <2>2. listed[made] \subseteq Targets /\ t \notin listed[made]
    BY <1>1 DEF TypeOK, FailuresStay, ListedIsDone, Syncs
  <2> QED BY <1>1, <2>1, <2>2 DEF Carries
<1>9. Unmade'
  <2>1. \A s \in Syncs, v \in Targets : session[<<s, v>>] = "none" => session'[<<s, v>>] = "none"
    BY <1>1
  <2> QED BY <1>1, <2>1 DEF Unmade, ToCome
<1> QED BY <1>3, <1>4, <1>5, <1>7, <1>8, <1>9

(* What Offer writes. *)
LEMMA Offered ==
    ASSUME CInv, NEW t \in Targets, Offer(t)
    PROVE  /\ made \in Syncs /\ <<made, t>> \in Offers /\ got[t].here /\ phase = "scraped"
           /\ pending' = [pending EXCEPT ![<<made, t>>] = got[t].pending]
           /\ listed' = [listed EXCEPT ![made] = @ \cup {t}]
           /\ got' = [got EXCEPT ![t] = Nothing] /\ target' = NoTarget
           /\ UNCHANGED <<site, filed, files, made, status, after, fileMark, phase>>
           /\ link' \in [Offers -> 0..MaxSyncs]
           /\ \/ UNCHANGED <<session, rowsOf>> /\ (Fresh(t) = {} \/ SameFile(t) # {})
              \/ /\ session' = [session EXCEPT ![<<made, t>>] = "open"]
                 /\ rowsOf' = [rowsOf EXCEPT ![<<made, t>>] = Fresh(t)]
                 /\ Fresh(t) # {} /\ SameFile(t) = {}
<1> USE Pairs, NoTargetAssumption DEF CInv
<1>1. target = t
  BY DEF Offer
<1>2. phase = "scraped" /\ got[t].here /\ made \in Syncs
  BY <1>1 DEF ListedIsDone, FailuresStay, Syncs
<1>3. SameFile(t) \subseteq Syncs /\ 0 \in 0..MaxSyncs /\ made \in 0..MaxSyncs /\ Syncs \subseteq 0..MaxSyncs
  BY <1>2 DEF SameFile, Syncs
<1>4. link' \in [Offers -> 0..MaxSyncs]
  BY <1>2, <1>3 DEF Offer, TypeOK
<1> QED BY <1>2, <1>4 DEF Offer, sessions, world, syncs, read

(* A target is listed with its rows on record: pending, on offer or stored. *)
LEMMA OfferKeeps == ASSUME CInv, NEW t \in Targets, Offer(t) PROVE CInv'
<1> USE Pairs DEF CInv
<1> DEFINE me == <<made, t>>
<1>1. /\ made \in Syncs /\ me \in Offers /\ got[t].here /\ phase = "scraped"
      /\ pending' = [pending EXCEPT ![me] = got[t].pending]
      /\ listed' = [listed EXCEPT ![made] = @ \cup {t}]
      /\ got' = [got EXCEPT ![t] = Nothing] /\ target' = NoTarget
      /\ UNCHANGED <<site, filed, files, made, status, after, fileMark, phase>>
      /\ link' \in [Offers -> 0..MaxSyncs]
  BY Offered
<1>2. \/ UNCHANGED <<session, rowsOf>> /\ (Fresh(t) = {} \/ SameFile(t) # {})
      \/ /\ session' = [session EXCEPT ![me] = "open"] /\ rowsOf' = [rowsOf EXCEPT ![me] = Fresh(t)]
         /\ Fresh(t) # {} /\ SameFile(t) = {}
  BY Offered
<1>3. \A s \in Syncs, v \in Targets : s # made \/ v # t =>
          /\ pending'[<<s, v>>] = pending[<<s, v>>]
          /\ session'[<<s, v>>] = session[<<s, v>>] /\ rowsOf'[<<s, v>>] = rowsOf[<<s, v>>]
  BY <1>1, <1>2 DEF TypeOK
<1>4. pending'[me] = got[t].pending
  BY <1>1 DEF TypeOK
<1>5. /\ \A v \in Targets : v # t => got'[v] = got[v]
      /\ got'[t] = Nothing
  BY <1>1 DEF TypeOK
<1>6. TypeOK'
  <2>1. got[t].pending \subseteq Rows /\ Fresh(t) \subseteq Rows /\ Nothing \in Result
    BY DEF TypeOK, Result, Fresh, Nothing
  <2>2. session' \in [Offers -> {"none", "open", "approved", "cancelled"}] /\ rowsOf' \in [Offers -> SUBSET Rows]
    BY <1>2, <2>1 DEF TypeOK
  <2>3. pending' \in [Offers -> SUBSET Rows] /\ got' \in [Targets -> Result] /\ listed' \in [Syncs -> SUBSET Targets]
    BY <1>1, <2>1 DEF TypeOK
  <2> QED BY <1>1, <2>2, <2>3 DEF TypeOK
<1>7. FailuresStay'
  BY <1>1 DEF FailuresStay
<1>8. Marked'
  <2>1. \A v \in Targets : OfTarget(v)' = OfTarget(v)
    BY DEF OfTarget
  <2>2. \A s \in Syncs, v \in Targets : pending'[<<s, v>>] \in {pending[<<s, v>>], got[v].pending}
    BY <1>3, <1>4
  <2>3. \A v \in Targets : got'[v].settled \subseteq got[v].settled /\ got'[v].pending \subseteq got[v].pending
    BY <1>5 DEF Nothing
  <2> HIDE DEF me
  <2>4. \A s \in Syncs, v \in Targets : pending'[<<s, v>>] \subseteq OfTarget(v)
    BY <2>2 DEF Marked
  <2>5. \A s \in Syncs, v \in Targets : \A r \in pending'[<<s, v>>] : site[r] # "unseen"
    BY <2>2 DEF Marked
  <2> QED BY <1>1, <2>1, <2>3, <2>4, <2>5 DEF Marked
<1>9. ListedIsDone'
  <2>1. \A v \in Targets : got'[v].here => got[v].here /\ v # t
    BY <1>5 DEF Nothing
  <2>2. listed'[made] = listed[made] \cup {t} /\ \A s \in Syncs : s # made => listed'[s] = listed[s]
    BY <1>1 DEF TypeOK
  <2>3. \A s \in Syncs : s > made => s # made
    BY <1>1 DEF Syncs
  <2>4. listed[made] \subseteq Targets
    BY <1>1 DEF TypeOK
  <2> QED BY <1>1, <2>1, <2>2, <2>3, <2>4 DEF ListedIsDone
<1>10. \A v \in Targets : Carried(v)' = Carried(v)
  BY <1>1, <1>3, SameCarried
<1>11. Reaches' /\ Shows'
  <2>1. \A v \in Targets : got'[v].here => got[v].here /\ got'[v] = got[v]
    BY <1>5 DEF Nothing
  <2> QED BY <1>1, <1>10, <2>1 DEF Reaches, Shows, Answered
<1>12. Unmade'
  <2>1. \A v \in Targets : ToCome(v)' => ToCome(v) /\ v # t
    BY <1>1, <1>5 DEF ToCome, Nothing
  <2>2. \A s \in Syncs : s > made => s # made
    BY <1>1 DEF Syncs
  <2> QED BY <1>1, <1>3, <2>1, <2>2 DEF Unmade
<1>13. \A v \in Targets : OnOffer(v) \cup Taken(v) \subseteq OnOffer(v)' \cup Taken(v)'
  <2>1. session[me] = "none"
    BY <1>1 DEF Unmade, ToCome
  <2> HIDE DEF me
  <2>2. \A s \in Syncs, v \in Targets : session[<<s, v>>] \in {"open", "approved"} =>
            session'[<<s, v>>] \in {"open", "approved"} /\ rowsOf'[<<s, v>>] = rowsOf[<<s, v>>]
    BY <1>3, <2>1 DEF me
  <2> QED BY <1>1, <2>2, StillThere
<1>14. CarriesOn(t)'
  <2> SUFFICES ASSUME NEW r \in Carried(t), ~(DayOf[r] <= fileMark[t]), site[r] # "gone"
               PROVE  r \in pending'[me] \/ r \in OnOffer(t)' \cup Taken(t)'
    BY <1>1, <1>10 DEF CarriesOn
  <2>1. DayOf[r] > after[t] /\ r \in got[t].settled \cup got[t].pending
    BY <1>1 DEF Shows, Answered
  <2>2. CASE r \in got[t].pending
    BY <1>4, <2>2
  <2>3. CASE r \in Fresh(t)
    <3>1. ASSUME NEW s \in SameFile(t), UNCHANGED <<session, rowsOf>> PROVE r \in OnOffer(t) \cup Taken(t)
      <4>1. s \in Syncs /\ session[<<s, t>>] \in {"open", "approved"} /\ r \in rowsOf[<<s, t>>]
        BY <2>3, <3>1 DEF SameFile
      <4> QED BY <4>1 DEF OnOffer, Taken, Synced
    <3>2. ASSUME session' = [session EXCEPT ![me] = "open"], rowsOf' = [rowsOf EXCEPT ![me] = Fresh(t)]
          PROVE  r \in OnOffer(t)'
      <4>1. session'[<<made, t>>] = "open" /\ rowsOf'[<<made, t>>] = Fresh(t)
        BY <1>1, <3>2 DEF TypeOK
      <4> QED BY <1>1, <2>3, <4>1 DEF OnOffer
    <3> QED BY <1>2, <1>13, <2>3, <3>1, <3>2
  <2>4. r \in got[t].settled => r \in Fresh(t)
    BY <2>1 DEF Fresh
  <2> QED BY <2>1, <2>2, <2>3, <2>4
<1>15. Carries'
  <2>1. ASSUME NEW v \in Targets, v # t, CarriesOn(v) PROVE CarriesOn(v)'
    <3>1. pending'[<<made', v>>] = pending[<<made, v>>]
      BY <1>1, <1>3, <2>1
    <3>2. OnOffer(v) \cup Taken(v) \subseteq OnOffer(v)' \cup Taken(v)'
      BY <1>13
    <3> QED BY <1>1, <1>10, <2>1, <3>1, <3>2 DEF CarriesOn
  <2>2. listed'[made'] = listed[made] \cup {t} /\ listed[made] \subseteq Targets
    BY <1>1 DEF TypeOK
  <2> QED BY <1>1, <1>14, <2>1, <2>2 DEF Carries
<1> QED BY <1>6, <1>7, <1>8, <1>9, <1>11, <1>12, <1>15

(* A run that ends leaves nothing to carry on but its outcome. *)
LEMMA SucceedKeeps == CInv /\ Succeed => CInv'
<1> SUFFICES ASSUME CInv, Succeed PROVE CInv'
  OBVIOUS
<1> USE Pairs DEF CInv, Succeed, Reset, outcome, sessions, world
<1>1. TypeOK'
  BY DEF TypeOK, Result, Nothing
<1>2. FailuresStay'
  BY FailureStep DEF Next
<1>3. Marked'
  BY DEF Marked, OfTarget, Nothing
<1>4. ListedIsDone' /\ Unmade'
  BY DEF ListedIsDone, Unmade, ToCome
<1> QED BY <1>1, <1>2, <1>3, <1>4 DEF Reaches, Shows, Carries

(* A run that fails records nothing. *)
LEMMA FailKeeps == CInv /\ Fail => CInv'
<1> SUFFICES ASSUME CInv, Fail PROVE CInv'
  OBVIOUS
<1> USE Pairs DEF CInv, Fail, Reset, sessions, world
<1>1. TypeOK'
  <2>1. 0 \in 0..MaxSyncs
    OBVIOUS
  <2> QED BY <2>1 DEF TypeOK, Result, Nothing
<1>2. FailuresStay'
  BY FailureStep DEF Next
<1>3. Marked'
  <2>1. \A s \in Syncs, t \in Targets : pending'[<<s, t>>] \subseteq pending[<<s, t>>]
    OBVIOUS
  <2> QED BY <2>1 DEF Marked, OfTarget, Nothing
<1>4. ListedIsDone' /\ Unmade'
  BY DEF ListedIsDone, Unmade, ToCome, FailuresStay, TypeOK, Syncs
<1> QED BY <1>1, <1>2, <1>3, <1>4 DEF Reaches, Shows, Carries

(* Every step keeps it. *)
LEMMA CarryStep == IsFiniteSet(Rows) /\ CInv /\ [Next]_vars => CInv'
<1> SUFFICES ASSUME IsFiniteSet(Rows), CInv, [Next]_vars PROVE CInv'
  OBVIOUS
<1>1. CASE UNCHANGED vars
  <2>1. TypeOK'
    BY <1>1 DEF vars, CInv, TypeOK
  <2>2. \A t \in Targets : OnOffer(t) \cup Taken(t) \subseteq OnOffer(t)' \cup Taken(t)'
    BY <1>1, StillThere DEF vars
  <2> QED BY <1>1, <2>1, <2>2, WorldKeeps DEF vars
<1>2. ASSUME NEW r \in Rows, NEW as \in {"pending", "settled"}, Appear(r, as) PROVE CInv'
  BY <1>2, SiteKeeps DEF Shown
<1>3. ASSUME NEW r \in Rows, NEW as \in {"settled", "gone"}, Settle(r, as) PROVE CInv'
  BY <1>3, SiteKeeps DEF Shown
<1> QED
  BY <1>1, <1>2, <1>3, OwnerKeeps, StartKeeps, ScrapeKeeps, CancelKeeps, OfferKeeps, SucceedKeeps, FailKeeps DEF Next

(* What the syncs keep between them, for any website, owner and targets. *)
THEOREM TypeCorrect == ASSUME IsFiniteSet(Rows) PROVE Spec => []TypeOK
<1>1. CInv /\ [Next]_vars => CInv'
  BY CarryStep
<1>2. CInv => TypeOK
  BY DEF CInv
<1> QED BY <1>1, <1>2, InitCInv, PTL DEF Spec

(* No session is made with a row that a file had stored when the sync read   *)
(* its marks: its window begins after the last day of the files.             *)
THEOREM FilesAreBehind == ASSUME IsFiniteSet(Rows) PROVE Spec => NoFileRowOffered
<1> DEFINE Unfiled == \A o \in Offers :
         session[o] = "none" /\ session'[o] = "open" /\ FilesThrough(o[2]) = fileMark[o[2]]
            => rowsOf'[o] \cap filed = {}
<1>1. CInv /\ [Next]_vars => CInv' /\ Unfiled
  <2> SUFFICES ASSUME CInv, [Next]_vars PROVE Unfiled
    BY CarryStep
  <2> SUFFICES ASSUME NEW o \in Offers, session[o] = "none", session'[o] = "open",
                      FilesThrough(o[2]) = fileMark[o[2]]
               PROVE  rowsOf'[o] \cap filed = {}
    OBVIOUS
  <2>1. PICK t \in Targets : Offer(t)
    BY DEF Next, vars, Appear, Settle, ImportFile, Approve, Start, Scrape, CancelUnapproved, Succeed, Fail,
           sessions, CInv, TypeOK
  <2>2. o = <<made, t>> /\ rowsOf'[o] = Fresh(t) /\ o[2] = t
    <3>1. /\ session' = [session EXCEPT ![<<made, t>>] = "open"]
          /\ rowsOf' = [rowsOf EXCEPT ![<<made, t>>] = Fresh(t)]
      BY <2>1, Offered
    <3>2. o = <<made, t>>
      BY <3>1 DEF CInv, TypeOK
    <3>3. rowsOf'[o] = Fresh(t)
      BY <3>1, <3>2 DEF CInv, TypeOK
    <3> QED BY <3>2, <3>3
  <2>3. \A r \in Fresh(t) : r \in OfTarget(t) /\ DayOf[r] > after[t] /\ DayOf[r] \in Nat
    BY DayOfAssumption DEF Fresh, CInv, Marked, OfTarget
  <2>4. \A r \in filed \cap OfTarget(t) : DayOf[r] <= FilesThrough(t)
    BY LastDayIs DEF FilesThrough, OfTarget
  <2>5. FilesThrough(t) <= after[t] /\ FilesThrough(t) \in Nat /\ after[t] \in Nat
    BY <2>2 DEF CInv, Marked, TypeOK
  <2> QED BY <2>2, <2>3, <2>4, <2>5
<1> HIDE DEF Unfiled
<1>2. Spec => [][Unfiled]_vars
  BY <1>1, InitCInv, PTL DEF Spec
<1> QED BY <1>2 DEF NoFileRowOffered, Unfiled

(* A row seen pending is not forgotten: the next run that succeeds has it on  *)
(* record again, whatever failed in between.                                 *)
THEOREM PendingIsCarried == ASSUME IsFiniteSet(Rows) PROVE Spec => CarriedUntilOffered
<1> DEFINE Onward == \A s \in Syncs :
         status[s] = "running" /\ status'[s] = "succeeded" /\ Succeeded # {} =>
           \A t \in listed[s] : \A r \in pending[<<Max(Succeeded), t>>] :
              \/ DayOf[r] <= fileMark[t]
              \/ site[r] = "gone"
              \/ r \in pending[<<s, t>>] \cup OnOffer(t) \cup Taken(t)
<1>1. CInv /\ [Next]_vars => CInv' /\ Onward
  <2> SUFFICES ASSUME CInv, [Next]_vars PROVE Onward
    BY CarryStep
  <2> SUFFICES ASSUME NEW s \in Syncs, status[s] = "running", status'[s] = "succeeded", Succeeded # {},
                      NEW t \in listed[s], NEW r \in pending[<<Max(Succeeded), t>>]
               PROVE  \/ DayOf[r] <= fileMark[t]
                      \/ site[r] = "gone"
                      \/ r \in pending[<<s, t>>] \cup OnOffer(t) \cup Taken(t)
    OBVIOUS
  <2>1. Succeed
    BY Pairs DEF Next, vars, Appear, Settle, ImportFile, Approve, Start, Scrape, CancelUnapproved, Offer, Fail,
           syncs, CInv, TypeOK
  <2>2. s = made /\ phase = "scraped"
    BY <2>1 DEF Succeed, CInv, TypeOK
  <2>3. r \in Carried(t) /\ CarriesOn(t)
    BY <2>2 DEF Carried, CInv, Carries
  <2> QED BY <2>2, <2>3 DEF CarriesOn
<1> HIDE DEF Onward
<1>2. Spec => [][Onward]_vars
  BY <1>1, InitCInv, PTL DEF Spec
<1> QED BY <1>2 DEF CarriedUntilOffered, Onward
-----------------------------------------------------------------------------
(* The door, its sessions and the log of changes.                          *)

(* What is assumed of the constants: some account administers the others at  *)
(* first; a use is noted at least from some time on; None is none of the     *)
(* values it stands beside.                                                  *)
AccessAssumption ==
    /\ Admins \cap Accounts # {}
    /\ {Lifetime, Idle, MaxLogins, MaxChanges, MaxTime} \subseteq Nat /\ {Touch, PageSize} \subseteq Nat \ {0}
    /\ None \notin Accounts /\ None \notin Nat

Tokens == 1..MaxLogins
Hashes == [version : Nat, legacy : BOOLEAN]
Users == [role : {"USER", "ADMIN"}, status : {"active", "inactive"}, hash : Hashes]
Logins == [token : Tokens, account : Accounts, expires : Nat, seen : Nat]
Requests ==
    [at : {"free"}] \cup [at : {"checked", "known"}, account : Accounts, hash : Hashes, old : Tokens \cup {None}]
    \cup [at : {"opened"}, old : Tokens \cup {None}, token : Tokens]
    \cup [at : {"updating"}, acting : Accounts, account : Accounts, body : Bodies]
    \cup [at : {"answered"}, acting : Accounts]
Walks == [owner : Accounts, items : Seq(SUBSET Nat), next : Nat \cup {None}, there : SUBSET Nat]

AccessTypeOK ==
    /\ user \in [Accounts -> Users] /\ logins \subseteq Logins /\ cookie \in [Browsers -> Tokens \cup {None}]
    /\ request \in [Tabs -> Requests] /\ log \in Seq(Accounts) /\ now \in Nat /\ minted \in Nat /\ minted <= MaxLogins
    /\ used \in [Tokens -> Nat] /\ (walk # None => walk \in Walks)

(* Each session has a token of its own.                                      *)
TokensApart ==
    /\ \A s \in logins : s.token <= minted
    /\ \A s, q \in logins : s.token = q.token => s = q

Rules(a) == user[a].role = "ADMIN" /\ user[a].status = "active"
UpdatesKnown ==
    \/ "update" \in overlap
    \/ /\ AdministratorStays
       /\ \A t, u \in Under({"updating"}) : t = u
       /\ \A t \in Under({"updating"}) :
            /\ Rules(request[t].acting) /\ Allowed(request[t].account, request[t].acting, request[t].body)

Covered(s) ==
    \/ \E b \in Browsers : cookie[b] = s.token
    \/ \E t \in Under({"opened"}) : request[t].token = s.token
LoginsKnown ==
    \/ "login" \in overlap
    \/ /\ \A t, u \in Under(LoggingIn) : Browser[t] = Browser[u] => t = u
       /\ \A t \in Under(LoggingIn) : cookie[Browser[t]] \in {request[t].old, None}
       /\ \A s \in logins : Covered(s)

UsesNoted == \A s \in logins : used[s.token] < s.seen + Touch

Collected(w) == UNION {w.items[i] : i \in DOMAIN w.items}
WalkKnown ==
    walk # None =>
        /\ \E n \in 0..Len(log) : walk.there = {i \in 1..n : log[i] = walk.owner}
        /\ \A i, j \in DOMAIN walk.items : i # j => walk.items[i] \cap walk.items[j] = {}
        /\ IF walk.next = None THEN Collected(walk) = walk.there
           ELSE walk.next \in walk.there /\ Collected(walk) = {i \in walk.there : i >= walk.next}

AInv == AccessTypeOK /\ TokensApart /\ UpdatesKnown /\ LoginsKnown /\ UsesNoted /\ WalkKnown
-----------------------------------------------------------------------------
(* Of numbers below a bound there is a last one.                              *)
LEMMA Highest ==
    ASSUME NEW T \in SUBSET Nat, T # {}, NEW n \in Nat, \A x \in T : x <= n
    PROVE  \E x \in T : \A y \in T : y <= x
  <1> DEFINE D == {n - x : x \in T}
  <1>1. \A x \in T : n - x \in Nat
    <2> SUFFICES ASSUME NEW x \in T PROVE n - x \in Nat  OBVIOUS
    <2>1. x \in Nat /\ x <= n  OBVIOUS
    <2> QED  BY <2>1
  <1>2. D \in SUBSET Nat /\ D # {}  BY <1>1
  <1> HIDE DEF D
  <1>3. PICK d \in D : \A e \in D : d <= e  BY <1>2, Lowest
  <1>4. PICK x \in T : d = n - x  BY DEF D
  <1>5. ASSUME NEW y \in T PROVE y <= x
    <2>1. n - y \in D  BY DEF D
    <2>2. d <= n - y  BY <1>3, <2>1
    <2>3. x \in Nat /\ y \in Nat  OBVIOUS
    <2> QED  BY <1>4, <2>2, <2>3
  <1> QED  BY <1>5

(* A set of naturals up to n, the part of it above an element, and how many  *)
(* there are.                                                                *)
Above(S, i) == {j \in S : j > i}
LEMMA AboveIsFinite ==
    ASSUME NEW S \in SUBSET Nat, NEW n \in Nat, \A x \in S : x <= n, NEW i
    PROVE  IsFiniteSet(S) /\ IsFiniteSet(Above(S, i)) /\ Cardinality(S) \in Nat /\ Cardinality(Above(S, i)) \in Nat
  <1>1. IsFiniteSet(S)  BY FS_BoundedSetOfNaturals
  <1>2. Above(S, i) \in SUBSET S  BY DEF Above
  <1>3. IsFiniteSet(Above(S, i))  BY <1>1, <1>2, FS_Subset
  <1> QED  BY <1>1, <1>3, FS_CardinalityType

(* The newest n + 1 entries and the newest n of them are the same only where *)
(* there are no more than n; else the cursor, the least of the n, parts what *)
(* has been shown from what is to come.                                      *)
LEMMA PagesFollow ==
    ASSUME AccessAssumption, NEW S \in SUBSET Nat, NEW n \in Nat, \A x \in S : x <= n, S # {}
    PROVE  LET rows == Newest(S, PageSize + 1)
               page == Newest(rows, PageSize)
           IN /\ page \subseteq S
              /\ rows = page => page = S
              /\ rows # page => Last(page) \in page /\ page = {i \in S : i >= Last(page)}
  <1> DEFINE rows == Newest(S, PageSize + 1)
             page == Newest(rows, PageSize)
  <1>1. PageSize \in Nat /\ PageSize > 0  BY DEF AccessAssumption
  <1>2. rows \subseteq S /\ page \subseteq rows  BY DEF Newest
  <1>3. \A i \in S : i \in rows <=> Cardinality(Above(S, i)) < PageSize + 1  BY DEF Newest, Above
  <1>4. \A i \in rows : i \in page <=> Cardinality(Above(rows, i)) < PageSize  BY DEF Newest, Above
  <1> HIDE DEF rows, page
  <1>5. rows \in SUBSET Nat /\ \A x \in rows : x <= n  BY <1>2
  <1>6. \A i : /\ IsFiniteSet(Above(S, i)) /\ Cardinality(Above(S, i)) \in Nat
               /\ IsFiniteSet(Above(rows, i)) /\ Cardinality(Above(rows, i)) \in Nat
    BY <1>5, AboveIsFinite
  <1>7. IsFiniteSet(rows) /\ Cardinality(rows) \in Nat  BY <1>5, AboveIsFinite
  (* the newest of all is on the page *)
  <1>8. PICK top \in S : \A y \in S : y <= top  BY Highest
  <1>9. top \in rows /\ top \in page
    <2>1. Above(S, top) = {} /\ Above(rows, top) = {}
      <3>1. \A y \in S : y \in Nat /\ top \in Nat /\ ~(y > top)  BY <1>8
      <3> QED  BY <1>2, <3>1 DEF Above
    <2>2. Cardinality({}) = 0  BY FS_EmptySet
    <2>3. top \in rows  BY <1>1, <1>3, <2>1, <2>2
    <2> QED  BY <1>1, <1>4, <2>1, <2>2, <2>3
  <1>10. ASSUME rows = page PROVE page = S
    <2>1. ASSUME S \ rows # {} PROVE FALSE
      <3>1. PICK x \in S \ rows : \A y \in S \ rows : y <= x
        <4>1. (S \ rows) \in SUBSET Nat /\ \A y \in S \ rows : y <= n  OBVIOUS
        <4> QED  BY <2>1, <4>1, Highest
      <3>2. Above(S, x) \subseteq rows
        <4>1. \A y \in S \ rows : y \in Nat /\ x \in Nat /\ ~(y > x)  BY <3>1
        <4> QED  BY <4>1 DEF Above
      <3>3. Cardinality(Above(S, x)) >= PageSize + 1  BY <1>1, <1>3, <1>6, <3>1
      <3>4. Cardinality(rows) >= PageSize + 1  BY <1>1, <1>6, <1>7, <3>2, <3>3, FS_Subset
      <3>5. PICK m \in rows : \A y \in rows : m <= y  BY <1>5, <1>9, Lowest
      <3>6. Above(rows, m) = rows \ {m}
        <4>1. \A y \in rows : y \in Nat /\ m \in Nat /\ (y > m <=> y # m)  BY <1>5, <3>5
        <4> QED  BY <4>1 DEF Above
      <3>7. Cardinality(rows \ {m}) = Cardinality(rows) - 1  BY <1>7, FS_RemoveElement
      <3>8. Cardinality(Above(rows, m)) < PageSize  BY <1>4, <1>10
      <3> QED  BY <1>1, <1>7, <3>4, <3>6, <3>7, <3>8
    <2> QED  BY <1>2, <1>10, <2>1
  <1>11. Last(page) \in page /\ \A y \in page : Last(page) <= y
    <2>1. page \in SUBSET Nat /\ page # {}  BY <1>2, <1>5, <1>9
    <2>2. \E x \in page : \A y \in page : x <= y  BY <2>1, Lowest
    <2> QED  BY <2>2 DEF Last
  <1>12. ASSUME NEW i \in S, i >= Last(page) PROVE i \in page
    <2> DEFINE m == Last(page)
    <2>1. m \in rows /\ m \in S /\ m \in Nat /\ i \in Nat  BY <1>2, <1>11
    <2>2. Cardinality(Above(S, m)) < PageSize + 1 /\ Cardinality(Above(rows, m)) < PageSize
      BY <1>3, <1>4, <1>11, <2>1
    <2> HIDE DEF m
    <2>3. i >= m  BY <1>12 DEF m
    <2>4. Above(S, i) \subseteq Above(S, m) /\ Above(rows, i) \subseteq Above(rows, m)
      <3>1. \A j \in S : j \in Nat /\ (j > i => j > m)  BY <2>1, <2>3
      <3> QED  BY <1>2, <3>1 DEF Above
    <2>5. Cardinality(Above(S, i)) <= Cardinality(Above(S, m)) /\ Cardinality(Above(rows, i)) <= Cardinality(Above(rows, m))
      BY <1>6, <2>4, FS_Subset
    <2>6. i \in rows  BY <1>1, <1>3, <1>6, <2>2, <2>5
    <2> QED  BY <1>1, <1>4, <1>6, <2>2, <2>5, <2>6
  <1>13. page \subseteq {i \in S : i >= Last(page)}
    <2>1. \A y \in page : y \in S /\ y \in Nat /\ Last(page) \in Nat  BY <1>2, <1>5, <1>11
    <2> QED  BY <1>11, <2>1
  <1>14. page = {i \in S : i >= Last(page)}  BY <1>12, <1>13
  <1> QED  BY <1>2, <1>10, <1>11, <1>14 DEF rows, page
-----------------------------------------------------------------------------
(* What a tab under way carries.                                             *)
LEMMA RequestCarries ==
    ASSUME AccessTypeOK, NEW t \in Tabs
    PROVE  /\ request[t].at \in {"free", "checked", "known", "opened", "updating", "answered"}
           /\ request[t].at \in {"checked", "known"} =>
                /\ request[t] \in [at : {"checked", "known"}, account : Accounts, hash : Hashes, old : Tokens \cup {None}]
                /\ request[t].account \in Accounts
           /\ request[t].at \in LoggingIn => request[t].old \in Tokens \cup {None}
           /\ request[t].at = "opened" => request[t].token \in Tokens
           /\ request[t].at = "updating" =>
                request[t].acting \in Accounts /\ request[t].account \in Accounts /\ request[t].body \in Bodies
           /\ request[t].at = "answered" => request[t].acting \in Accounts
  <1>1. request[t] \in Requests  BY DEF AccessTypeOK
  <1>2. CASE request[t] \in [at : {"free"}]  BY <1>2 DEF LoggingIn
  <1>3. CASE request[t] \in [at : {"checked", "known"}, account : Accounts, hash : Hashes, old : Tokens \cup {None}]
    BY <1>3 DEF LoggingIn
  <1>4. CASE request[t] \in [at : {"opened"}, old : Tokens \cup {None}, token : Tokens]  BY <1>4 DEF LoggingIn
  <1>5. CASE request[t] \in [at : {"updating"}, acting : Accounts, account : Accounts, body : Bodies]
    BY <1>5 DEF LoggingIn
  <1>6. CASE request[t] \in [at : {"answered"}, acting : Accounts]  BY <1>6 DEF LoggingIn
  <1> QED  BY <1>1, <1>2, <1>3, <1>4, <1>5, <1>6 DEF Requests

LEMMA Becomes ==
    ASSUME AccessTypeOK, NEW t \in Tabs, NEW r, Become(t, r)
    PROVE  /\ request'[t] = r /\ \A u \in Tabs : u # t => request'[u] = request[u]
           /\ r \in Requests => request' \in [Tabs -> Requests]
  BY DEF Become, AccessTypeOK

(* A new hash changes neither what an account may do nor whether it may.     *)
LEMMA RehashKeeps ==
    ASSUME AccessTypeOK, NEW t \in Tabs, request[t].at = "checked"
    PROVE  /\ Rehashed(t) \in [Accounts -> Users]
           /\ \A a \in Accounts : Rehashed(t)[a].role = user[a].role /\ Rehashed(t)[a].status = user[a].status
  <1> DEFINE b == request[t].account
             h == [user[b].hash EXCEPT !.legacy = FALSE]
             u == [user[b] EXCEPT !.hash = h]
  <1>1. b \in Accounts  BY RequestCarries
  <1>2. user[b] \in Users /\ user \in [Accounts -> Users]  BY <1>1 DEF AccessTypeOK
  <1>3. user[b].hash \in Hashes  BY <1>2 DEF Users
  <1>4. h \in Hashes  BY <1>3 DEF Hashes
  <1> HIDE DEF h
  <1>5. u \in Users /\ u.role = user[b].role /\ u.status = user[b].status  BY <1>2, <1>4 DEF Users
  <1>6. [user EXCEPT ![b].hash.legacy = FALSE] = [user EXCEPT ![b] = u]  BY DEF h
  <1>7. Rehashed(t) \in {user, [user EXCEPT ![b] = u]}  BY <1>6 DEF Rehashed
  <1> HIDE DEF u, b
  <1>8. [user EXCEPT ![b] = u] \in [Accounts -> Users]  BY <1>1, <1>2, <1>5
  <1>9. \A a \in Accounts : [user EXCEPT ![b] = u][a].role = user[a].role /\ [user EXCEPT ![b] = u][a].status = user[a].status
    BY <1>1, <1>2, <1>5
  <1> QED  BY <1>2, <1>7, <1>8, <1>9

(* Whom a session lets in, and what using it changes.                        *)
LEMMA Resolved ==
    ASSUME AccessAssumption, AccessTypeOK, TokensApart, NEW token, ResolveSession(token) # None
    PROVE  /\ token \in Tokens /\ token # None
           /\ \E s \in Open(token) : s \in logins /\ s.token = token /\ s.account = ResolveSession(token)
           /\ ResolveSession(token) \in Accounts /\ user[ResolveSession(token)].status = "active"
  <1>1. Open(token) # {}  BY DEF ResolveSession
  <1> DEFINE s == CHOOSE q \in Open(token) : TRUE
  <1>2. s \in Open(token) /\ ResolveSession(token) = s.account  BY <1>1 DEF ResolveSession
  <1> HIDE DEF s
  <1>3. s \in logins /\ s.token = token /\ user[s.account].status = "active"  BY <1>2 DEF Open, Sessions
  <1>4. s \in Logins  BY <1>3 DEF AccessTypeOK
  <1>5. s.token \in Tokens /\ s.account \in Accounts  BY <1>4 DEF Logins
  <1>6. None \notin Tokens  BY DEF AccessAssumption, Tokens
  <1> QED  BY <1>2, <1>3, <1>5, <1>6

LEMMA UsingKeeps ==
    ASSUME AccessAssumption, AccessTypeOK, TokensApart, UsesNoted, NEW token, Use(token)
    PROVE  /\ logins' \subseteq Logins /\ used' \in [Tokens -> Nat]
           /\ \A s \in logins' : \E q \in logins : q.token = s.token
           /\ \A s, q \in logins' : s.token = q.token => s = q
           /\ \A s \in logins' : used'[s.token] < s.seen + Touch
  <1>1. CASE ResolveSession(token) = None
    BY <1>1 DEF Use, AccessTypeOK, TokensApart, UsesNoted
  <1>2. CASE ResolveSession(token) # None
    <2> DEFINE noted(s) == IF s \in Open(token) /\ now - s.seen >= Touch THEN [s EXCEPT !.seen = now] ELSE s
    <2>1. PICK o \in Open(token) : o \in logins /\ o.token = token  BY <1>2, Resolved
    <2>2. token \in Tokens  BY <1>2, Resolved
    <2>3. logins' = {noted(s) : s \in logins} /\ used' = [used EXCEPT ![token] = now]
      BY <1>2 DEF Use, Touched
    <2>4. ASSUME NEW s \in logins
          PROVE  /\ noted(s) \in Logins /\ noted(s).token = s.token
                 /\ IF s.token = token THEN now < noted(s).seen + Touch ELSE noted(s) = s
      <3>1. s \in Logins /\ now \in Nat /\ Touch \in Nat \ {0}  BY DEF AccessTypeOK, AccessAssumption
      <3>2. s.token = token => s \in Open(token)  BY <2>1 DEF TokensApart
      <3>3. s \in Open(token) => s.token = token  BY DEF Open, Sessions
      <3>4. CASE s \in Open(token) /\ now - s.seen >= Touch
        <4>1. [s EXCEPT !.seen = now] \in Logins /\ [s EXCEPT !.seen = now].token = s.token /\ [s EXCEPT !.seen = now].seen = now
          BY <3>1 DEF Logins
        <4> QED  BY <3>1, <3>3, <3>4, <4>1
      <3>5. CASE ~(s \in Open(token) /\ now - s.seen >= Touch)
        <4>1. s.seen \in Nat  BY <3>1 DEF Logins
        <4>2. s.token = token => now < s.seen + Touch  BY <3>1, <3>2, <3>5, <4>1
        <4> QED  BY <3>1, <3>5, <4>2
      <3> QED  BY <3>4, <3>5
    <2> HIDE DEF noted
    <2>5. used \in [Tokens -> Nat] /\ now \in Nat  BY DEF AccessTypeOK
    <2>6. \A s \in logins : s.token \in Tokens  BY DEF AccessTypeOK, Logins
    <2>7. used' \in [Tokens -> Nat] /\ used'[token] = now /\ \A k \in Tokens : k # token => used'[k] = used[k]
      BY <2>2, <2>3, <2>5
    <2>8. \A s \in logins : used'[s.token] < noted(s).seen + Touch
      <3> SUFFICES ASSUME NEW s \in logins PROVE used'[s.token] < noted(s).seen + Touch  OBVIOUS
      <3>1. CASE s.token = token  BY <2>4, <2>7, <3>1
      <3>2. CASE s.token # token  BY <2>4, <2>6, <2>7, <3>2 DEF UsesNoted
      <3> QED  BY <3>1, <3>2
    <2>9. \A s \in logins' : \E q \in logins : s = noted(q)  BY <2>3
    <2>10. \A s \in logins' : used'[s.token] < s.seen + Touch
      <3> SUFFICES ASSUME NEW s \in logins' PROVE used'[s.token] < s.seen + Touch  OBVIOUS
      <3>1. PICK q \in logins : s = noted(q)  BY <2>9
      <3>2. s.token = q.token  BY <2>4, <3>1
      <3> QED  BY <2>8, <3>1, <3>2
    <2>11. \A s, q \in logins' : s.token = q.token => s = q
      <3> SUFFICES ASSUME NEW s \in logins', NEW q \in logins', s.token = q.token PROVE s = q  OBVIOUS
      <3>1. PICK x \in logins : s = noted(x)  BY <2>9
      <3>2. PICK y \in logins : q = noted(y)  BY <2>9
      <3>3. x.token = y.token  BY <2>4, <3>1, <3>2
      <3>4. x = y  BY <3>3 DEF TokensApart
      <3> QED  BY <3>1, <3>2, <3>4
    <2>12. \A s \in logins' : s \in Logins /\ \E q \in logins : q.token = s.token  BY <2>4, <2>9
    <2> QED  BY <2>7, <2>10, <2>11, <2>12
  <1> QED  BY <1>1, <1>2

(* What an update makes of an account; one that acts on itself still rules.  *)
LEMMA Bettered ==
    ASSUME AccessAssumption, NEW u \in Users, NEW body \in Bodies
    PROVE  /\ Updated(u, body) \in Users
           /\ u.role = "ADMIN" /\ u.status = "active" /\ body.role \in {None, "ADMIN"} /\ body.status \in {None, "active"}
                => Updated(u, body).role = "ADMIN" /\ Updated(u, body).status = "active"
  <1>1. u.role \in {"USER", "ADMIN"} /\ u.status \in {"active", "inactive"} /\ u.hash \in Hashes  BY DEF Users
  <1>2. [version |-> u.hash.version + 1, legacy |-> FALSE] \in Hashes  BY <1>1 DEF Hashes
  <1>3. body.role \in {None, "USER"} /\ body.status \in {None, "active", "inactive"}  BY DEF Bodies, Body
  <1> QED  BY <1>1, <1>2, <1>3 DEF Updated, Users

(* The first page of the log, and each page after it.                        *)
LEMMA FirstPage ==
    ASSUME AccessAssumption, AccessTypeOK, NEW a \in Accounts, OpenLog(a)
    PROVE  walk' \in Walks /\ WalkKnown'
  <1> DEFINE n == Len(log)
             S == Events(a, n + 1)
             rows == Newest(S, PageSize + 1)
             page == Newest(rows, PageSize)
  <1>1. log \in Seq(Accounts) /\ n \in Nat /\ DOMAIN log = 1..n  BY DEF AccessTypeOK
  <1>2. S = {i \in 1..n : log[i] = a} /\ S # {}  BY <1>1 DEF OpenLog, Events
  <1>3. S \in SUBSET Nat /\ \A x \in S : x <= n  BY <1>1, <1>2
  <1>4. walk' = [owner |-> a, items |-> <<page>>, next |-> NextCursor(page, rows), there |-> S]
    BY DEF OpenLog, ListActivity
  <1>5. log' = log  BY DEF OpenLog
  <1> HIDE DEF S, n
  <1>6. /\ page \subseteq S /\ (rows = page => page = S)
        /\ rows # page => Last(page) \in page /\ page = {i \in S : i >= Last(page)}
    BY <1>1, <1>2, <1>3, PagesFollow
  <1> HIDE DEF rows, page
  <1>7. NextCursor(page, rows) \in Nat \cup {None}  BY <1>3, <1>6 DEF NextCursor
  <1>8. <<page>> \in Seq(SUBSET Nat) /\ DOMAIN <<page>> = {1} /\ <<page>>[1] = page  BY <1>3, <1>6
  <1>9. walk' \in Walks  BY <1>3, <1>4, <1>7, <1>8 DEF Walks
  <1>10. walk'.owner = a /\ walk'.items = <<page>> /\ walk'.there = S /\ walk'.next = NextCursor(page, rows)
    BY <1>4
  <1>11. Collected(walk') = page  BY <1>8, <1>10 DEF Collected
  <1>12. \E m \in 0..Len(log') : walk'.there = {i \in 1..m : log'[i] = walk'.owner}
    BY <1>1, <1>2, <1>5, <1>10 DEF n
  <1>13. \A i, j \in DOMAIN walk'.items : i # j => walk'.items[i] \cap walk'.items[j] = {}  BY <1>8, <1>10
  <1>14. IF walk'.next = None THEN Collected(walk') = walk'.there
         ELSE walk'.next \in walk'.there /\ Collected(walk') = {i \in walk'.there : i >= walk'.next}
    <2>1. None \notin Nat  BY DEF AccessAssumption
    <2> QED  BY <1>3, <1>6, <1>10, <1>11, <2>1 DEF NextCursor
  <1> QED  BY <1>9, <1>12, <1>13, <1>14 DEF WalkKnown, Collected

LEMMA NextPage ==
    ASSUME AccessAssumption, AccessTypeOK, WalkKnown, MoreLog
    PROVE  walk' \in Walks /\ WalkKnown'
  <1> DEFINE k == walk.next
             S == Events(walk.owner, k)
             rows == Newest(S, PageSize + 1)
             page == Newest(rows, PageSize)
  <1>1. walk \in Walks /\ walk # None /\ k # None  BY DEF MoreLog, AccessTypeOK
  <1>2. k \in Nat /\ walk.owner \in Accounts /\ walk.there \in SUBSET Nat /\ walk.items \in Seq(SUBSET Nat)  BY <1>1 DEF Walks
  <1>3. k \in walk.there /\ Collected(walk) = {i \in walk.there : i >= k}  BY <1>1 DEF WalkKnown
  <1>4. PICK n \in 0..Len(log) : walk.there = {i \in 1..n : log[i] = walk.owner}  BY <1>1 DEF WalkKnown
  <1>5. log \in Seq(Accounts) /\ Len(log) \in Nat /\ DOMAIN log = 1..Len(log)  BY DEF AccessTypeOK
  <1>6. S = {i \in walk.there : i < k}  BY <1>2, <1>3, <1>4, <1>5 DEF Events
  <1>7. walk' = [walk EXCEPT !.items = Append(walk.items, page), !.next = NextCursor(page, rows)]  BY DEF MoreLog, ListActivity
  <1>8. log' = log  BY DEF MoreLog
  <1>9. S \in SUBSET Nat /\ \A x \in S : x <= k  BY <1>2, <1>6
  <1> HIDE DEF S, k
  <1>10. Newest({}, PageSize + 1) = {} /\ Newest({}, PageSize) = {}  BY DEF Newest
  <1>11. /\ page \subseteq S /\ (rows = page => page = S)
         /\ rows # page => Last(page) \in page /\ page = {i \in S : i >= Last(page)}
    <2>1. CASE S = {}  BY <1>10, <2>1
    <2>2. CASE S # {}  BY <1>2, <1>9, <2>2, PagesFollow
    <2> QED  BY <2>1, <2>2
  <1> HIDE DEF rows, page
  <1>12. NextCursor(page, rows) \in Nat \cup {None}  BY <1>9, <1>11 DEF NextCursor
  <1> DEFINE items == Append(walk.items, page)
             m == Len(walk.items)
  <1>13. /\ items \in Seq(SUBSET Nat) /\ m \in Nat /\ DOMAIN walk.items = 1..m /\ DOMAIN items = 1..(m + 1)
         /\ items[m + 1] = page /\ \A i \in 1..m : items[i] = walk.items[i]
    BY <1>2, <1>9, <1>11
  <1> HIDE DEF items, m
  <1>14. walk' \in Walks  BY <1>1, <1>7, <1>12, <1>13 DEF Walks, items
  <1>15. walk'.owner = walk.owner /\ walk'.items = items /\ walk'.there = walk.there /\ walk'.next = NextCursor(page, rows)
    BY <1>1, <1>7 DEF Walks, items
  <1>16. Collected(walk') = Collected(walk) \cup page
    <2>1. 1..(m + 1) = (1..m) \cup {m + 1}  BY <1>13
    <2> QED  BY <1>13, <1>15, <2>1 DEF Collected
  <1>17. \A i \in 1..m : items[i] \cap page = {}
    <2>1. \A i \in 1..m : items[i] \subseteq Collected(walk)  BY <1>13 DEF Collected
    <2>2. \A x \in S : x \in Nat /\ x < k  BY <1>6, <1>9 DEF k
    <2>3. \A x \in Collected(walk) : ~(x < k)  BY <1>2, <1>3 DEF k
    <2> QED  BY <1>11, <2>1, <2>2, <2>3
  <1>18. \A i, j \in DOMAIN items : i # j => items[i] \cap items[j] = {}
    <2>1. \A i, j \in 1..m : i # j => items[i] \cap items[j] = {}  BY <1>1, <1>13 DEF WalkKnown
    <2>2. \A i \in 1..(m + 1) : i \in 1..m \/ i = m + 1  BY <1>13
    <2> QED  BY <1>13, <1>17, <2>1, <2>2
  <1>19. walk.there = Collected(walk) \cup S
    <2>1. \A x \in walk.there : x \in Nat /\ k \in Nat /\ (x >= k \/ x < k)  BY <1>2 DEF k
    <2> QED  BY <1>3, <1>6, <2>1 DEF k
  <1>20. IF walk'.next = None THEN Collected(walk') = walk'.there
         ELSE walk'.next \in walk'.there /\ Collected(walk') = {i \in walk'.there : i >= walk'.next}
    <2>1. CASE rows = page
      <3>1. walk'.next = None  BY <1>15, <2>1 DEF NextCursor
      <3> QED  BY <1>11, <1>15, <1>16, <1>19, <2>1, <3>1
    <2>2. CASE rows # page
      <3> DEFINE c == Last(page)
      <3>1. walk'.next = c /\ c \in page /\ page = {i \in S : i >= c}  BY <1>11, <1>15, <2>2 DEF NextCursor
      <3> HIDE DEF c
      <3>2. c \in Nat /\ c < k /\ c \in S /\ c # None /\ k \in Nat
        BY <1>2, <1>6, <1>9, <1>11, <3>1 DEF k, AccessAssumption
      <3>3. \A i \in walk.there : i \in Nat /\ (i >= c <=> i >= k \/ (i < k /\ i >= c))  BY <1>2, <3>2
      <3>4. Collected(walk') = {i \in walk.there : i >= c}
        BY <1>3, <1>6, <1>16, <3>1, <3>3 DEF k
      <3> QED  BY <1>15, <1>19, <3>1, <3>2, <3>4
    <2> QED  BY <2>1, <2>2
  <1>21. \E n2 \in 0..Len(log') : walk'.there = {i \in 1..n2 : log'[i] = walk'.owner}  BY <1>4, <1>8, <1>15
  <1>22. \A i, j \in DOMAIN walk'.items : i # j => walk'.items[i] \cap walk'.items[j] = {}  BY <1>15, <1>18
  <1> QED  BY <1>14, <1>20, <1>21, <1>22 DEF WalkKnown, Collected
-----------------------------------------------------------------------------
(* Every step leaves every variable what it is said to be.                   *)
LEMMA TypesKept ==
    ASSUME AccessAssumption, AInv, [AccessNext]_accessVars
    PROVE  AccessTypeOK'
  <1> USE DEF AInv
  <1>1. CASE UNCHANGED accessVars  BY <1>1 DEF accessVars, AccessTypeOK
  <1>2. ASSUME NEW t \in Tabs, Rehash(t) PROVE AccessTypeOK'
    <2>1. Rehashed(t) \in [Accounts -> Users] /\ request[t].at = "checked"  BY <1>2, RehashKeeps DEF Rehash
    <2>2. PICK r : /\ Become(t, r)
                   /\ r = IF request[t].hash.legacy /\ user[request[t].account].hash # request[t].hash
                          THEN Free ELSE [request[t] EXCEPT !.at = "known"]
      BY <1>2 DEF Rehash
    <2>3. request[t] \in [at : {"checked", "known"}, account : Accounts, hash : Hashes, old : Tokens \cup {None}]
      BY <2>1, RequestCarries
    <2>4. [request[t] EXCEPT !.at = "known"] \in [at : {"checked", "known"}, account : Accounts, hash : Hashes, old : Tokens \cup {None}]
      BY <2>3
    <2>5. r \in Requests  BY <2>2, <2>4 DEF Requests, Free
    <2>6. request' \in [Tabs -> Requests]  BY <2>2, <2>5, Becomes
    <2> QED  BY <1>2, <2>1, <2>6 DEF Rehash, AccessTypeOK
  <1>3. ASSUME NEW t \in Tabs, CreateSession(t) PROVE AccessTypeOK'
    <2>1. request[t] \in [at : {"checked", "known"}, account : Accounts, hash : Hashes, old : Tokens \cup {None}]
      BY <1>3, RequestCarries DEF CreateSession
    <2>2. request[t].account \in Accounts /\ request[t].old \in Tokens \cup {None}  BY <2>1
    <2>3. minted' \in Tokens /\ minted' \in Nat /\ minted' <= MaxLogins
      BY <1>3 DEF CreateSession, AccessTypeOK, Tokens, AccessAssumption
    <2>4. now \in Nat /\ now + Lifetime \in Nat  BY DEF AccessTypeOK, AccessAssumption
    <2>5. [token |-> minted', account |-> request[t].account, expires |-> now + Lifetime, seen |-> now] \in Logins
      BY <2>2, <2>3, <2>4 DEF Logins
    <2>6. logins' \subseteq Logins  BY <1>3, <2>5 DEF CreateSession, DeleteExpired, AccessTypeOK
    <2>7. [at |-> "opened", old |-> request[t].old, token |-> minted'] \in Requests  BY <2>2, <2>3 DEF Requests
    <2>8. request' \in [Tabs -> Requests]  BY <1>3, <2>7, Becomes DEF CreateSession
    <2>9. used' \in [Tokens -> Nat]  BY <1>3, <2>3, <2>4 DEF CreateSession, AccessTypeOK
    <2> QED  BY <1>3, <2>3, <2>6, <2>8, <2>9 DEF CreateSession, AccessTypeOK
  <1>4. ASSUME NEW t \in Tabs, Login(t) PROVE AccessTypeOK'
    <2>1. request[t].token \in Tokens  BY <1>4, RequestCarries DEF Login
    <2>2. request' \in [Tabs -> Requests]  BY <1>4, Becomes DEF Login, Free, Requests
    <2>3. logins' \subseteq Logins  BY <1>4 DEF Login, DeleteByToken, WithoutToken, AccessTypeOK
    <2>4. cookie' \in [Browsers -> Tokens \cup {None}]  BY <1>4, <2>1 DEF Login, AccessTypeOK
    <2> QED  BY <1>4, <2>2, <2>3, <2>4 DEF Login, AccessTypeOK
  <1>5. ASSUME NEW t \in Tabs, GateAuth(t) PROVE AccessTypeOK'
    <2>1. logins' \subseteq Logins /\ used' \in [Tokens -> Nat]  BY <1>5, UsingKeeps DEF GateAuth
    <2> QED  BY <1>5, <2>1 DEF GateAuth, AccessTypeOK
  <1>6. ASSUME NEW t \in Tabs, Logout(t) PROVE AccessTypeOK'
    <2>1. logins' \subseteq Logins  BY <1>6 DEF Logout, DeleteByToken, WithoutToken, AccessTypeOK
    <2>2. cookie' \in [Browsers -> Tokens \cup {None}]  BY <1>6 DEF Logout, AccessTypeOK
    <2> QED  BY <1>6, <2>1, <2>2 DEF Logout, AccessTypeOK
  <1>7. ASSUME NEW t \in Tabs, UpdateCustomer(t) PROVE AccessTypeOK'
    <2> DEFINE a == request[t].account
               b == request[t].body
               v == Updated(user[a], b)
    <2>1. a \in Accounts /\ b \in Bodies /\ request[t].acting \in Accounts  BY <1>7, RequestCarries DEF UpdateCustomer
    <2>2. user[a] \in Users  BY <2>1 DEF AccessTypeOK
    <2>3. v \in Users  BY <2>1, <2>2, Bettered
    <2> HIDE DEF v
    <2>4. user' \in [Accounts -> Users]  BY <1>7, <2>3 DEF UpdateCustomer, AccessTypeOK, v
    <2>5. [at |-> "answered", acting |-> request[t].acting] \in Requests  BY <2>1 DEF Requests
    <2>6. request' \in [Tabs -> Requests]  BY <1>7, <2>5, Becomes DEF UpdateCustomer
    <2> QED  BY <1>7, <2>4, <2>6 DEF UpdateCustomer, AccessTypeOK
  <1>8. ASSUME NEW t \in Tabs, RecordActivity(t) PROVE AccessTypeOK'
    <2>1. request[t].acting \in Accounts  BY <1>8, RequestCarries DEF RecordActivity
    <2>2. log \in Seq(Accounts)  BY DEF AccessTypeOK
    <2>3. log' \in Seq(Accounts)  BY <1>8, <2>1, <2>2, AppendProperties DEF RecordActivity
    <2>4. request' \in [Tabs -> Requests]  BY <1>8, Becomes DEF RecordActivity, Free, Requests
    <2> QED  BY <1>8, <2>3, <2>4 DEF RecordActivity, AccessTypeOK
  <1>9. ASSUME NEW t \in Tabs, NEW a \in Accounts, VerifyCredentials(t, a) PROVE AccessTypeOK'
    <2>1. user[a].hash \in Hashes  BY DEF AccessTypeOK, Users
    <2>2. cookie[Browser[t]] \in Tokens \cup {None}  BY DEF AccessTypeOK, Browsers
    <2>3. [at |-> "checked", account |-> a, hash |-> user[a].hash, old |-> cookie[Browser[t]]] \in Requests
      BY <2>1, <2>2 DEF Requests
    <2>4. request' \in [Tabs -> Requests]  BY <1>9, <2>3, Becomes DEF VerifyCredentials
    <2> QED  BY <1>9, <2>4 DEF VerifyCredentials, AccessTypeOK
  <1>10. ASSUME NEW t \in Tabs, NEW a \in Accounts, NEW body \in Bodies, BeginUpdate(t, a, body) PROVE AccessTypeOK'
    <2> DEFINE acting == ResolveSession(cookie[Browser[t]])
    <2>1. acting \in Accounts  BY <1>10, Resolved DEF BeginUpdate, RequireRole
    <2>2. logins' \subseteq Logins /\ used' \in [Tokens -> Nat]  BY <1>10, UsingKeeps DEF BeginUpdate
    <2>3. [at |-> "updating", acting |-> acting, account |-> a, body |-> body] \in Requests  BY <2>1 DEF Requests
    <2>4. request' \in [Tabs -> Requests]  BY <1>10, <2>3, Becomes DEF BeginUpdate
    <2> QED  BY <1>10, <2>2, <2>4 DEF BeginUpdate, AccessTypeOK
  <1>11. ASSUME NEW a \in Accounts, OpenLog(a) PROVE AccessTypeOK'
    <2>1. walk' \in Walks  BY <1>11, FirstPage
    <2> QED  BY <1>11, <2>1 DEF OpenLog, AccessTypeOK
  <1>12. CASE MoreLog
    <2>1. walk' \in Walks  BY <1>12, NextPage
    <2> QED  BY <1>12, <2>1 DEF MoreLog, AccessTypeOK
  <1>13. CASE Tick
    <2>1. now' \in Nat  BY <1>13 DEF Tick, AccessTypeOK
    <2> QED  BY <1>13, <2>1 DEF Tick, AccessTypeOK
  <1> QED  BY <1>1, <1>2, <1>3, <1>4, <1>5, <1>6, <1>7, <1>8, <1>9, <1>10, <1>11, <1>12, <1>13 DEF AccessNext

(* ... the tokens of the sessions apart, and each use within what is noted.  *)
LEMMA SessionsKept ==
    ASSUME AccessAssumption, AInv, [AccessNext]_accessVars
    PROVE  TokensApart' /\ UsesNoted'
  <1> USE DEF AInv
  <1>1. CASE UNCHANGED <<logins, minted, used>>  BY <1>1 DEF TokensApart, UsesNoted
  <1>2. ASSUME NEW token, Use(token), UNCHANGED minted PROVE TokensApart' /\ UsesNoted'
    <2>1. /\ \A s \in logins' : \E q \in logins : q.token = s.token
          /\ \A s, q \in logins' : s.token = q.token => s = q
          /\ \A s \in logins' : used'[s.token] < s.seen + Touch
      BY <1>2, UsingKeeps
    <2> QED  BY <1>2, <2>1 DEF TokensApart, UsesNoted
  <1>3. ASSUME NEW token, logins' = DeleteByToken(token), UNCHANGED <<minted, used>> PROVE TokensApart' /\ UsesNoted'
    <2>1. logins' \subseteq logins  BY <1>3 DEF DeleteByToken, WithoutToken
    <2> QED  BY <1>3, <2>1 DEF TokensApart, UsesNoted
  <1>4. ASSUME NEW t \in Tabs, CreateSession(t) PROVE TokensApart' /\ UsesNoted'
    <2> DEFINE new == [token |-> minted', account |-> request[t].account, expires |-> now + Lifetime, seen |-> now]
    <2>1. logins' = DeleteExpired \cup {new} /\ minted' = minted + 1 /\ used' = [used EXCEPT ![minted'] = now]
      BY <1>4 DEF CreateSession
    <2>2. minted \in Nat /\ minted' \in Tokens /\ used \in [Tokens -> Nat] /\ now \in Nat /\ Touch \in Nat \ {0}
      BY <1>4 DEF CreateSession, AccessTypeOK, Tokens, AccessAssumption
    <2>3. new.token = minted' /\ new.seen = now  OBVIOUS
    <2> HIDE DEF new
    <2>4. ASSUME NEW s \in DeleteExpired
          PROVE s \in logins /\ s.token \in Tokens /\ s.token <= minted /\ s.token # minted' /\ s.seen \in Nat
      <3>1. s \in logins  BY DEF DeleteExpired
      <3>2. s \in Logins /\ s.token <= minted  BY <3>1 DEF AccessTypeOK, TokensApart
      <3>3. s.token \in Tokens /\ s.seen \in Nat  BY <3>2 DEF Logins
      <3> QED  BY <2>1, <2>2, <3>1, <3>2, <3>3 DEF Tokens
    <2>5. TokensApart'
      <3>1. \A s \in logins' : s.token <= minted'
        <4>1. ASSUME NEW s \in DeleteExpired PROVE s.token <= minted'
          BY <2>1, <2>2, <2>4 DEF Tokens
        <4>2. new.token <= minted'  BY <2>1, <2>2, <2>3
        <4> QED  BY <2>1, <4>1, <4>2
      <3>2. \A s, q \in logins' : s.token = q.token => s = q
        <4>1. \A s, q \in DeleteExpired : s.token = q.token => s = q  BY <2>4 DEF TokensApart
        <4> QED  BY <2>1, <2>3, <2>4, <4>1
      <3> QED  BY <3>1, <3>2 DEF TokensApart
    <2>6. UsesNoted'
      <3>1. used'[minted'] = now /\ now < now + Touch  BY <2>1, <2>2
      <3>2. ASSUME NEW s \in DeleteExpired PROVE used'[s.token] < s.seen + Touch
        BY <2>1, <2>2, <2>4 DEF UsesNoted
      <3> QED  BY <2>1, <2>3, <3>1, <3>2 DEF UsesNoted
    <2> QED  BY <2>5, <2>6
  <1>5. ASSUME NEW t \in Tabs, Rehash(t) \/ UpdateCustomer(t) \/ RecordActivity(t) PROVE TokensApart' /\ UsesNoted'
    BY <1>1, <1>5 DEF Rehash, UpdateCustomer, RecordActivity
  <1>6. ASSUME NEW t \in Tabs, Login(t) \/ Logout(t) PROVE TokensApart' /\ UsesNoted'
    BY <1>3, <1>6 DEF Login, Logout
  <1>7. ASSUME NEW t \in Tabs, GateAuth(t) PROVE TokensApart' /\ UsesNoted'
    BY <1>2, <1>7 DEF GateAuth
  <1>8. ASSUME NEW t \in Tabs, NEW a \in Accounts, VerifyCredentials(t, a) PROVE TokensApart' /\ UsesNoted'
    BY <1>1, <1>8 DEF VerifyCredentials
  <1>9. ASSUME NEW t \in Tabs, NEW a \in Accounts, NEW body \in Bodies, BeginUpdate(t, a, body) PROVE TokensApart' /\ UsesNoted'
    BY <1>2, <1>9 DEF BeginUpdate
  <1>10. CASE UNCHANGED accessVars  BY <1>1, <1>10 DEF accessVars
  <1>11. CASE MoreLog \/ Tick \/ \E a \in Accounts : OpenLog(a)  BY <1>1, <1>11 DEF MoreLog, Tick, OpenLog
  <1> QED  BY <1>4, <1>5, <1>6, <1>7, <1>8, <1>9, <1>10, <1>11 DEF AccessNext

(* ... the account that acts, an active administrator while it acts alone.   *)
LEMMA UpdatesKept ==
    ASSUME AccessAssumption, AInv, [AccessNext]_accessVars
    PROVE  UpdatesKnown'
  <1> USE DEF AInv
  <1> DEFINE U == Under({"updating"})
  <1>1. \A t : t \in U <=> t \in Tabs /\ request[t].at = "updating"  BY DEF Under
  <1>2. \A t : t \in U' <=> t \in Tabs /\ request'[t].at = "updating"  BY DEF Under
  <1> HIDE DEF U
  <1>3. (* nobody begins, and what accounts may do stays *)
        ASSUME \A a \in Accounts : user'[a].role = user[a].role /\ user'[a].status = user[a].status,
               \A t \in Tabs : request'[t].at = "updating" => request'[t] = request[t],
               overlap \subseteq overlap'
        PROVE UpdatesKnown'
    <2>1. \A t \in U' : t \in U /\ request'[t] = request[t]  BY <1>1, <1>2, <1>3
    <2>2. AdministratorStays => "update" \in overlap' \/ \E a \in Accounts : user'[a].role = "ADMIN" /\ user'[a].status = "active"
      BY <1>3 DEF AdministratorStays
    <2>3. \A t \in U : request[t].acting \in Accounts  BY <1>1, RequestCarries
    <2>4. \A t \in U : Rules(request[t].acting) => user'[request[t].acting].role = "ADMIN" /\ user'[request[t].acting].status = "active"
      BY <1>3, <2>3 DEF Rules
    <2> QED  BY <1>3, <2>1, <2>2, <2>4 DEF UpdatesKnown, AdministratorStays, Rules, Allowed, U
  <1>4. ASSUME NEW t \in Tabs, NEW r, Become(t, r), r.at # "updating" PROVE \A u \in Tabs : request'[u].at = "updating" => request'[u] = request[u]
    BY <1>4, Becomes
  <1>5. ASSUME NEW t \in Tabs, Rehash(t) PROVE UpdatesKnown'
    <2>1. request[t].at = "checked" /\ user' = Rehashed(t) /\ UNCHANGED overlap  BY <1>5 DEF Rehash
    <2>2. \A a \in Accounts : user'[a].role = user[a].role /\ user'[a].status = user[a].status  BY <2>1, RehashKeeps
    <2>3. PICK r : /\ Become(t, r)
                   /\ r = IF request[t].hash.legacy /\ user[request[t].account].hash # request[t].hash
                          THEN Free ELSE [request[t] EXCEPT !.at = "known"]
      BY <1>5 DEF Rehash
    <2>4. request[t] \in [at : {"checked", "known"}, account : Accounts, hash : Hashes, old : Tokens \cup {None}]
      BY <2>1, RequestCarries
    <2>5. r.at # "updating"  BY <2>3, <2>4 DEF Free
    <2> QED  BY <1>3, <1>4, <2>1, <2>2, <2>3, <2>5
  <1>6. ASSUME NEW t \in Tabs, CreateSession(t) \/ Login(t) \/ RecordActivity(t) PROVE UpdatesKnown'
    <2>1. PICK r : Become(t, r) /\ r.at # "updating"  BY <1>6 DEF CreateSession, Login, RecordActivity, Free
    <2>2. UNCHANGED <<user, overlap>>  BY <1>6 DEF CreateSession, Login, RecordActivity
    <2> QED  BY <1>3, <1>4, <2>1, <2>2
  <1>7. ASSUME NEW t \in Tabs, GateAuth(t) \/ Logout(t) PROVE UpdatesKnown'
    BY <1>3, <1>7 DEF GateAuth, Logout
  <1>8. ASSUME NEW t \in Tabs, NEW a \in Accounts, VerifyCredentials(t, a) PROVE UpdatesKnown'
    <2>1. PICK r : Become(t, r) /\ r.at # "updating"  BY <1>8 DEF VerifyCredentials
    <2>2. UNCHANGED user /\ overlap \subseteq overlap'  BY <1>8 DEF VerifyCredentials
    <2> QED  BY <1>3, <1>4, <2>1, <2>2
  <1>9. ASSUME NEW t \in Tabs, UpdateCustomer(t) PROVE UpdatesKnown'
    <2> DEFINE a == request[t].account
               b == request[t].body
               r == [at |-> "answered", acting |-> request[t].acting]
    <2>1. /\ request[t].at = "updating" /\ user' = [user EXCEPT ![a] = Updated(user[a], b)]
          /\ Become(t, r) /\ UNCHANGED overlap
      BY <1>9 DEF UpdateCustomer
    <2>2. a \in Accounts /\ b \in Bodies /\ request[t].acting \in Accounts  BY <2>1, RequestCarries
    <2>3. t \in U  BY <1>1, <2>1
    <2>4. \A u \in U' : u \in U /\ u # t  BY <1>1, <1>2, <2>1, Becomes
    <2>5. CASE "update" \in overlap  BY <2>1, <2>5 DEF UpdatesKnown
    <2>6. CASE "update" \notin overlap
      <3>1. (\A u, w \in U : u = w) /\ Rules(request[t].acting) /\ Allowed(a, request[t].acting, b)
        BY <2>3, <2>6 DEF UpdatesKnown, U
      <3>2. U' = {}  BY <2>3, <2>4, <3>1
      <3>3. PICK c \in Accounts : c = request[t].acting  BY <2>2
      <3>4. user'[c].role = "ADMIN" /\ user'[c].status = "active"
        <4>1. user \in [Accounts -> Users] /\ user[c] \in Users  BY DEF AccessTypeOK
        <4>2. CASE a = c
          <5>1. user'[c] = Updated(user[c], b)  BY <2>1, <2>2, <4>1, <4>2
          <5>2. b.role \in {None, "ADMIN"} /\ b.status \in {None, "active"}  BY <3>1, <3>3, <4>2 DEF Allowed
          <5>3. user[c].role = "ADMIN" /\ user[c].status = "active"  BY <3>1, <3>3 DEF Rules
          <5> QED  BY <2>2, <4>1, <5>1, <5>2, <5>3, Bettered
        <4>3. CASE a # c
          <5>1. user'[c] = user[c]  BY <2>1, <4>1, <4>3
          <5> QED  BY <3>1, <3>3, <5>1 DEF Rules
        <4> QED  BY <4>2, <4>3
      <3> QED  BY <3>2, <3>4 DEF UpdatesKnown, AdministratorStays, U
    <2> QED  BY <2>5, <2>6
  <1>10. ASSUME NEW t \in Tabs, NEW a \in Accounts, NEW body \in Bodies, BeginUpdate(t, a, body) PROVE UpdatesKnown'
    <2> DEFINE acting == ResolveSession(cookie[Browser[t]])
               r == [at |-> "updating", acting |-> acting, account |-> a, body |-> body]
    <2>1. /\ acting # None /\ user[acting].role = "ADMIN" /\ Allowed(a, acting, body) /\ Become(t, r) /\ UNCHANGED user
          /\ overlap' = IF Overlaps(t, {"updating"}) THEN overlap \cup {"update"} ELSE overlap
      BY <1>10 DEF BeginUpdate, RequireRole
    <2>2. acting \in Accounts /\ user[acting].status = "active"  BY <2>1, Resolved
    <2>3. CASE "update" \in overlap'  BY <2>3 DEF UpdatesKnown
    <2>4. CASE "update" \notin overlap'
      <3>1. "update" \notin overlap /\ ~Overlaps(t, {"updating"})  BY <2>1, <2>4
      <3>2. {"updating"} # LoggingIn
        <4>1. "checked" \in LoggingIn /\ "checked" \notin {"updating"}  BY DEF LoggingIn
        <4> QED  BY <4>1
      <3>3. U \ {t} = {}  BY <3>1, <3>2 DEF Overlaps, U
      <3>4. request'[t] = r /\ \A u \in Tabs : u # t => request'[u] = request[u]  BY <2>1, Becomes
      <3>5. \A u \in U' : u = t  BY <1>1, <1>2, <3>3, <3>4
      <3>6. user'[acting].role = "ADMIN" /\ user'[acting].status = "active"  BY <2>1, <2>2
      <3>7. \A u \in U' : /\ user'[request'[u].acting].role = "ADMIN" /\ user'[request'[u].acting].status = "active"
                          /\ Allowed(request'[u].account, request'[u].acting, request'[u].body)
        <4>1. request'[t].acting = acting /\ request'[t].account = a /\ request'[t].body = body  BY <3>4
        <4> QED  BY <2>1, <3>5, <3>6, <4>1
      <3> QED  BY <2>2, <3>5, <3>6, <3>7 DEF UpdatesKnown, AdministratorStays, Rules, Allowed, U
    <2> QED  BY <2>3, <2>4
  <1>11. CASE UNCHANGED accessVars  BY <1>3, <1>11 DEF accessVars
  <1>12. CASE MoreLog \/ Tick \/ \E a \in Accounts : OpenLog(a)  BY <1>3, <1>12 DEF MoreLog, Tick, OpenLog
  <1> QED  BY <1>5, <1>6, <1>7, <1>8, <1>9, <1>10, <1>11, <1>12 DEF AccessNext

(* ... and each session the one of a cookie, or of a login about to set it.  *)
LEMMA LoginsKept ==
    ASSUME AccessAssumption, AInv, [AccessNext]_accessVars
    PROVE  LoginsKnown'
  <1> USE DEF AInv
  <1> DEFINE L == Under(LoggingIn)
             O == Under({"opened"})
  <1>1. /\ \A t : t \in L <=> t \in Tabs /\ request[t].at \in LoggingIn
        /\ \A t : t \in O <=> t \in Tabs /\ request[t].at = "opened"
    BY DEF Under
  <1>2. /\ \A t : t \in L' <=> t \in Tabs /\ request'[t].at \in LoggingIn
        /\ \A t : t \in O' <=> t \in Tabs /\ request'[t].at = "opened"
    BY DEF Under, LoggingIn
  <1> HIDE DEF L, O
  <1>3. (* what it says of the state after, spelt out *)
        ASSUME \A t, u \in L' : Browser[t] = Browser[u] => t = u,
               \A t \in L' : cookie'[Browser[t]] \in {request'[t].old, None},
               \A s \in logins' : \/ \E b \in Browsers : cookie'[b] = s.token
                                  \/ \E t \in O' : request'[t].token = s.token
        PROVE LoginsKnown'
    BY <1>3 DEF LoginsKnown, Covered, L, O
  <1>4. (* and of the state before *)
        ASSUME "login" \notin overlap
        PROVE /\ \A t, u \in L : Browser[t] = Browser[u] => t = u
              /\ \A t \in L : cookie[Browser[t]] \in {request[t].old, None}
              /\ \A s \in logins : \/ \E b \in Browsers : cookie[b] = s.token
                                   \/ \E t \in O : request[t].token = s.token
    BY <1>4 DEF LoginsKnown, Covered, L, O
  <1>5. CASE "login" \in overlap'  BY <1>5 DEF LoginsKnown
  <1>6. ASSUME UNCHANGED cookie, overlap \subseteq overlap',
               \A t \in L' : t \in L /\ request'[t].old = request[t].old,
               \A t \in O : t \in O' /\ request'[t].token = request[t].token,
               \A s \in logins' : \E q \in logins : q.token = s.token
        PROVE LoginsKnown'
    <2>1. CASE "login" \notin overlap
      <3>1. \A t, u \in L' : Browser[t] = Browser[u] => t = u  BY <1>4, <1>6, <2>1
      <3>2. \A t \in L' : cookie'[Browser[t]] \in {request'[t].old, None}  BY <1>4, <1>6, <2>1
      <3>3. \A s \in logins' : \/ \E b \in Browsers : cookie'[b] = s.token
                               \/ \E t \in O' : request'[t].token = s.token
        <4> SUFFICES ASSUME NEW s \in logins'
                     PROVE \/ \E b \in Browsers : cookie'[b] = s.token
                           \/ \E t \in O' : request'[t].token = s.token
          OBVIOUS
        <4>1. PICK q \in logins : q.token = s.token  BY <1>6
        <4> QED  BY <1>4, <1>6, <2>1, <4>1
      <3> QED  BY <1>3, <3>1, <3>2, <3>3
    <2> QED  BY <1>5, <1>6, <2>1
  <1>7. ASSUME NEW t \in Tabs, NEW r, Become(t, r), request[t].at \notin LoggingIn, r.at \notin LoggingIn
        PROVE /\ \A u \in L' : u \in L /\ request'[u].old = request[u].old
              /\ \A u \in O : u \in O' /\ request'[u].token = request[u].token
    <2>1. "opened" \in LoggingIn  BY DEF LoggingIn
    <2> QED  BY <1>1, <1>2, <1>7, <2>1, Becomes
  <1>8. ASSUME NEW t \in Tabs, Rehash(t) PROVE LoginsKnown'
    <2>1. request[t].at = "checked" /\ UNCHANGED <<logins, cookie, overlap>>  BY <1>8 DEF Rehash
    <2>2. PICK r : /\ Become(t, r)
                   /\ r = IF request[t].hash.legacy /\ user[request[t].account].hash # request[t].hash
                          THEN Free ELSE [request[t] EXCEPT !.at = "known"]
      BY <1>8 DEF Rehash
    <2>3. request[t] \in [at : {"checked", "known"}, account : Accounts, hash : Hashes, old : Tokens \cup {None}]
      BY <2>1, RequestCarries
    <2>4. r.at = "free" \/ (r.at = "known" /\ r.old = request[t].old)  BY <2>2, <2>3 DEF Free
    <2>5. "checked" \in LoggingIn /\ "free" \notin LoggingIn  BY DEF LoggingIn
    <2>6. request'[t] = r /\ \A u \in Tabs : u # t => request'[u] = request[u]  BY <2>2, Becomes
    <2>7. \A u \in L' : u \in L /\ request'[u].old = request[u].old  BY <1>1, <1>2, <2>1, <2>4, <2>5, <2>6
    <2>8. \A u \in O : u \in O' /\ request'[u].token = request[u].token  BY <1>1, <1>2, <2>1, <2>6
    <2> QED  BY <1>6, <2>1, <2>7, <2>8
  <1>9. ASSUME NEW t \in Tabs, CreateSession(t) PROVE LoginsKnown'
    <2> DEFINE new == [token |-> minted', account |-> request[t].account, expires |-> now + Lifetime, seen |-> now]
               r == [at |-> "opened", old |-> request[t].old, token |-> minted']
    <2>1. request[t].at = "known" /\ logins' \subseteq logins \cup {new} /\ Become(t, r) /\ UNCHANGED <<cookie, overlap>>
      BY <1>9 DEF CreateSession, DeleteExpired
    <2>2. request'[t] = r /\ r.at = "opened" /\ r.old = request[t].old /\ r.token = minted' /\ new.token = minted'
      BY <2>1, Becomes
    <2>3. \A u \in Tabs : u # t => request'[u] = request[u]  BY <2>1, Becomes
    <2> HIDE DEF new, r
    <2>4. "known" \in LoggingIn  BY DEF LoggingIn
    <2>5. \A u \in L' : u \in L /\ request'[u].old = request[u].old  BY <1>1, <1>2, <2>1, <2>2, <2>3, <2>4
    <2>6. t \in O' /\ \A u \in O : u \in O' /\ request'[u].token = request[u].token  BY <1>1, <1>2, <2>1, <2>2, <2>3
    <2>7. CASE "login" \notin overlap
      <3>1. \A u, v \in L' : Browser[u] = Browser[v] => u = v  BY <1>4, <2>5, <2>7
      <3>2. \A u \in L' : cookie'[Browser[u]] \in {request'[u].old, None}  BY <1>4, <2>1, <2>5, <2>7
      <3>3. \A s \in logins' : \/ \E b \in Browsers : cookie'[b] = s.token
                               \/ \E u \in O' : request'[u].token = s.token
        <4> SUFFICES ASSUME NEW s \in logins'
                     PROVE \/ \E b \in Browsers : cookie'[b] = s.token
                           \/ \E u \in O' : request'[u].token = s.token
          OBVIOUS
        <4>1. CASE s = new  BY <2>2, <2>6, <4>1
        <4>2. CASE s # new  BY <1>4, <2>1, <2>6, <2>7, <4>2
        <4> QED  BY <4>1, <4>2
      <3> QED  BY <1>3, <3>1, <3>2, <3>3
    <2> QED  BY <1>5, <2>1, <2>7
  <1>10. ASSUME NEW t \in Tabs, Login(t) PROVE LoginsKnown'
    <2> DEFINE w == Browser[t]
               old == request[t].old
    <2>1. /\ request[t].at = "opened" /\ logins' = DeleteByToken(old)
          /\ cookie' = [cookie EXCEPT ![w] = request[t].token] /\ Become(t, Free) /\ UNCHANGED overlap
      BY <1>10 DEF Login
    <2>2. logins' \subseteq logins /\ \A s \in logins' : old # None => s.token # old
      BY <2>1 DEF DeleteByToken, WithoutToken
    <2>3. w \in Browsers /\ cookie'[w] = request[t].token /\ \A b \in Browsers : b # w => cookie'[b] = cookie[b]
      BY <2>1 DEF Browsers, AccessTypeOK
    <2>4. t \in L /\ t \in O /\ "free" \notin LoggingIn  BY <1>1, <2>1 DEF LoggingIn
    <2>5. \A u \in L' : u \in L /\ u # t /\ request'[u] = request[u]  BY <1>1, <1>2, <2>1, <2>4, Becomes DEF Free
    <2>6. \A u \in O : u = t \/ (u \in O' /\ request'[u] = request[u])  BY <1>1, <1>2, <2>1, Becomes
    <2>7. CASE "login" \notin overlap
      <3>1. \A u, v \in L' : Browser[u] = Browser[v] => u = v  BY <1>4, <2>5, <2>7
      <3>2. \A u \in L' : Browser[u] \in Browsers /\ Browser[u] # w  BY <1>2, <1>4, <2>4, <2>5, <2>7 DEF Browsers
      <3>3. \A u \in L' : cookie'[Browser[u]] \in {request'[u].old, None}  BY <1>4, <2>3, <2>5, <2>7, <3>2
      <3>4. \A s \in logins' : \/ \E b \in Browsers : cookie'[b] = s.token
                               \/ \E u \in O' : request'[u].token = s.token
        <4> SUFFICES ASSUME NEW s \in logins'
                     PROVE \/ \E b \in Browsers : cookie'[b] = s.token
                           \/ \E u \in O' : request'[u].token = s.token
          OBVIOUS
        <4>1. s \in logins /\ s.token \in Tokens /\ s.token # None
          BY <2>2 DEF AccessTypeOK, Logins, Tokens, AccessAssumption
        <4>2. cookie[w] \in {old, None}  BY <1>4, <2>4, <2>7
        <4>3. s.token # cookie[w]  BY <2>2, <4>1, <4>2
        <4>4. CASE \E b \in Browsers : cookie[b] = s.token  BY <2>3, <4>3, <4>4
        <4>5. CASE \E u \in O : request[u].token = s.token  BY <2>3, <2>6, <4>5
        <4> QED  BY <1>4, <2>7, <4>1, <4>4, <4>5
      <3> QED  BY <1>3, <3>1, <3>3, <3>4
    <2> QED  BY <1>5, <2>1, <2>7
  <1>11. ASSUME NEW t \in Tabs, Logout(t) PROVE LoginsKnown'
    <2> DEFINE w == Browser[t]
    <2>1. /\ ResolveSession(cookie[w]) # None /\ logins' = DeleteByToken(cookie[w])
          /\ cookie' = [cookie EXCEPT ![w] = None] /\ UNCHANGED <<request, overlap>>
      BY <1>11 DEF Logout
    <2>2. cookie[w] # None  BY <2>1, Resolved
    <2>3. logins' \subseteq logins /\ \A s \in logins' : s.token # cookie[w]  BY <2>1, <2>2 DEF DeleteByToken, WithoutToken
    <2>4. w \in Browsers /\ cookie'[w] = None /\ \A b \in Browsers : b # w => cookie'[b] = cookie[b]
      BY <2>1 DEF Browsers, AccessTypeOK
    <2>5. L' = L /\ O' = O  BY <2>1 DEF L, O, Under, LoggingIn
    <2>6. CASE "login" \notin overlap
      <3>1. \A u \in L' : cookie'[Browser[u]] \in {request'[u].old, None}
        <4>1. \A u \in L : Browser[u] \in Browsers  BY <1>1 DEF Browsers
        <4> QED  BY <1>4, <2>1, <2>4, <2>5, <2>6, <4>1
      <3>2. \A s \in logins' : \/ \E b \in Browsers : cookie'[b] = s.token
                               \/ \E u \in O' : request'[u].token = s.token
        BY <1>4, <2>1, <2>3, <2>4, <2>5, <2>6
      <3> QED  BY <1>3, <1>4, <2>5, <2>6, <3>1, <3>2
    <2> QED  BY <1>5, <2>1, <2>6
  <1>12. ASSUME NEW t \in Tabs, NEW a \in Accounts, VerifyCredentials(t, a) PROVE LoginsKnown'
    <2> DEFINE r == [at |-> "checked", account |-> a, hash |-> user[a].hash, old |-> cookie[Browser[t]]]
    <2>1. /\ request[t].at = "free" /\ Become(t, r) /\ UNCHANGED <<logins, cookie>>
          /\ overlap' = IF Overlaps(t, LoggingIn) THEN overlap \cup {"login"} ELSE overlap
      BY <1>12 DEF VerifyCredentials, Idling
    <2>2. request'[t] = r /\ r.at = "checked" /\ r.old = cookie[Browser[t]] /\ \A u \in Tabs : u # t => request'[u] = request[u]
      BY <2>1, Becomes
    <2> HIDE DEF r
    <2>3. CASE "login" \notin overlap'
      <3>1. "login" \notin overlap /\ \A u \in L : u # t => Browser[u] # Browser[t]
        BY <2>1, <2>3 DEF Overlaps, L
      <3>2. \A u \in L' : u = t \/ (u \in L /\ request'[u] = request[u])  BY <1>1, <1>2, <2>2
      <3>3. \A u \in O : u \in O' /\ request'[u] = request[u]  BY <1>1, <1>2, <2>1, <2>2
      <3>4. \A u, v \in L' : Browser[u] = Browser[v] => u = v
        <4> SUFFICES ASSUME NEW u \in L', NEW v \in L', Browser[u] = Browser[v] PROVE u = v  OBVIOUS
        <4>1. CASE u = t \/ v = t  BY <3>1, <3>2, <4>1
        <4>2. CASE u # t /\ v # t  BY <1>4, <3>1, <3>2, <4>2
        <4> QED  BY <4>1, <4>2
      <3>5. \A u \in L' : cookie'[Browser[u]] \in {request'[u].old, None}
        <4> SUFFICES ASSUME NEW u \in L' PROVE cookie'[Browser[u]] \in {request'[u].old, None}  OBVIOUS
        <4>1. CASE u = t  BY <2>1, <2>2, <4>1
        <4>2. CASE u # t  BY <1>4, <2>1, <3>1, <3>2, <4>2
        <4> QED  BY <4>1, <4>2
      <3>6. \A s \in logins' : \/ \E b \in Browsers : cookie'[b] = s.token
                               \/ \E u \in O' : request'[u].token = s.token
        BY <1>4, <2>1, <3>1, <3>3
      <3> QED  BY <1>3, <3>4, <3>5, <3>6
    <2> QED  BY <1>5, <2>3
  <1>13. ASSUME NEW t \in Tabs, GateAuth(t) PROVE LoginsKnown'
    <2>1. UNCHANGED request /\ UNCHANGED cookie /\ UNCHANGED overlap  BY <1>13 DEF GateAuth
    <2>2. \A s \in logins' : \E q \in logins : q.token = s.token  BY <1>13, UsingKeeps DEF GateAuth
    <2> QED  BY <1>1, <1>2, <1>6, <2>1, <2>2
  <1>14. ASSUME NEW t \in Tabs, NEW a \in Accounts, NEW body \in Bodies, BeginUpdate(t, a, body) PROVE LoginsKnown'
    <2>1. PICK r : Become(t, r) /\ r.at = "updating"  BY <1>14 DEF BeginUpdate
    <2>2. request[t].at = "free" /\ UNCHANGED cookie /\ overlap \subseteq overlap'  BY <1>14 DEF BeginUpdate, Idling
    <2>3. \A s \in logins' : \E q \in logins : q.token = s.token  BY <1>14, UsingKeeps DEF BeginUpdate
    <2>4. "free" \notin LoggingIn /\ "updating" \notin LoggingIn  BY DEF LoggingIn
    <2> QED  BY <1>6, <1>7, <2>1, <2>2, <2>3, <2>4
  <1>15. ASSUME NEW t \in Tabs, UpdateCustomer(t) \/ RecordActivity(t) PROVE LoginsKnown'
    <2>1. PICK r : Become(t, r) /\ r.at \in {"answered", "free"}  BY <1>15 DEF UpdateCustomer, RecordActivity, Free
    <2>2. request[t].at \in {"updating", "answered"} /\ UNCHANGED <<logins, cookie, overlap>>
      BY <1>15 DEF UpdateCustomer, RecordActivity
    <2>3. LoggingIn \cap {"free", "updating", "answered"} = {}  BY DEF LoggingIn
    <2>4. request[t].at \notin LoggingIn /\ r.at \notin LoggingIn  BY <2>1, <2>2, <2>3
    <2> QED  BY <1>6, <1>7, <2>1, <2>2, <2>4
  <1>16. CASE UNCHANGED <<request, logins, cookie, overlap>>  BY <1>1, <1>2, <1>6, <1>16
  <1>17. CASE UNCHANGED accessVars  BY <1>16, <1>17 DEF accessVars
  <1>18. CASE MoreLog \/ Tick \/ \E a \in Accounts : OpenLog(a)  BY <1>16, <1>18 DEF MoreLog, Tick, OpenLog
  <1> QED  BY <1>8, <1>9, <1>10, <1>11, <1>12, <1>13, <1>14, <1>15, <1>17, <1>18 DEF AccessNext

(* What a walk has shown stays what it is while the log grows.               *)
LEMMA WalkKept ==
    ASSUME AccessAssumption, AInv, [AccessNext]_accessVars
    PROVE  WalkKnown'
  <1> USE DEF AInv
  <1>1. CASE UNCHANGED <<walk, log>>
    <2>1. walk' = walk /\ log' = log  BY <1>1
    <2> QED  BY <2>1 DEF WalkKnown, Collected
  <1>2. ASSUME NEW a \in Accounts, OpenLog(a) PROVE WalkKnown'  BY <1>2, FirstPage
  <1>3. CASE MoreLog  BY <1>3, NextPage
  <1>4. ASSUME NEW t \in Tabs, RecordActivity(t) PROVE WalkKnown'
    <2>1. walk' = walk /\ log' = Append(log, request[t].acting)  BY <1>4 DEF RecordActivity
    <2>2. log \in Seq(Accounts) /\ Len(log) \in Nat /\ request[t].acting \in Accounts  BY <1>4, RequestCarries DEF AccessTypeOK, RecordActivity
    <2>3. Len(log') = Len(log) + 1 /\ \A i \in 1..Len(log) : log'[i] = log[i]  BY <2>1, <2>2
    <2>4. ASSUME walk # None PROVE \E n \in 0..Len(log') : walk'.there = {i \in 1..n : log'[i] = walk'.owner}
      <3>1. PICK n \in 0..Len(log) : walk.there = {i \in 1..n : log[i] = walk.owner}  BY <2>4 DEF WalkKnown
      <3>2. n \in 0..Len(log') /\ \A i \in 1..n : log'[i] = log[i]  BY <2>2, <2>3
      <3>3. walk'.there = {i \in 1..n : log'[i] = walk'.owner}  BY <2>1, <3>1, <3>2
      <3> QED  BY <3>2, <3>3
    <2> QED  BY <2>1, <2>4 DEF WalkKnown, Collected
  <1>5. ASSUME NEW t \in Tabs, Rehash(t) \/ CreateSession(t) \/ Login(t) \/ GateAuth(t) \/ Logout(t) \/ UpdateCustomer(t)
        PROVE WalkKnown'
    BY <1>1, <1>5 DEF Rehash, CreateSession, Login, GateAuth, Logout, UpdateCustomer
  <1>6. ASSUME NEW t \in Tabs, NEW a \in Accounts, VerifyCredentials(t, a) PROVE WalkKnown'
    BY <1>1, <1>6 DEF VerifyCredentials
  <1>7. ASSUME NEW t \in Tabs, NEW a \in Accounts, NEW body \in Bodies, BeginUpdate(t, a, body) PROVE WalkKnown'
    BY <1>1, <1>7 DEF BeginUpdate
  <1>8. CASE Tick \/ UNCHANGED accessVars  BY <1>1, <1>8 DEF Tick, accessVars
  <1> QED  BY <1>2, <1>3, <1>4, <1>5, <1>6, <1>7, <1>8 DEF AccessNext
-----------------------------------------------------------------------------
LEMMA AtFirst ==
    ASSUME AccessAssumption, AccessInit
    PROVE  AInv
  <1> USE DEF AccessInit
  <1>1. AccessTypeOK
    <2>1. \A a \in Accounts : user[a] = [role |-> IF a \in Admins THEN "ADMIN" ELSE "USER", status |-> "active",
                                         hash |-> [version |-> 1, legacy |-> a \notin Admins]]
      OBVIOUS
    <2>2. \A a \in Accounts : [version |-> 1, legacy |-> a \notin Admins] \in Hashes  BY DEF Hashes
    <2>3. \A a \in Accounts : user[a] \in Users  BY <2>1, <2>2 DEF Users
    <2>4. user \in [Accounts -> Users]  BY <2>3
    <2>5. Free \in Requests  BY DEF Free, Requests
    <2>6. request \in [Tabs -> Requests]  BY <2>5
    <2>7. log \in Seq(Accounts)  OBVIOUS
    <2>8. used \in [Tokens -> Nat]  BY DEF Tokens
    <2> QED  BY <2>4, <2>6, <2>7, <2>8 DEF AccessTypeOK, AccessAssumption
  <1>2. \A kind : "free" \notin kind => Under(kind) = {}  BY DEF Under, Free
  <1>3. Under({"updating"}) = {} /\ Under(LoggingIn) = {}  BY <1>2 DEF LoggingIn
  <1>4. AdministratorStays
    <2>1. PICK a \in Admins \cap Accounts : TRUE  BY DEF AccessAssumption
    <2>2. user[a].role = "ADMIN" /\ user[a].status = "active"  BY <2>1
    <2> QED  BY <2>1, <2>2 DEF AdministratorStays
  <1>5. UpdatesKnown /\ LoginsKnown  BY <1>3, <1>4 DEF UpdatesKnown, LoginsKnown
  <1> QED  BY <1>1, <1>5 DEF AInv, TokensApart, UsesNoted, WalkKnown

LEMMA DoorInductive == AccessAssumption /\ AccessSpec => []AInv
  <1> SUFFICES ASSUME AccessAssumption PROVE AccessSpec => []AInv  OBVIOUS
  <1>1. AccessInit => AInv  BY AtFirst
  <1>2. AInv /\ [AccessNext]_accessVars => AInv'
    <2> SUFFICES ASSUME AInv, [AccessNext]_accessVars PROVE AInv'  OBVIOUS
    <2>1. AccessTypeOK' /\ TokensApart' /\ UsesNoted'  BY TypesKept, SessionsKept
    <2>2. UpdatesKnown' /\ LoginsKnown' /\ WalkKnown'  BY UpdatesKept, LoginsKept, WalkKept
    <2> QED  BY <2>1, <2>2 DEF AInv
  <1> QED  BY <1>1, <1>2, PTL DEF AccessSpec

(* For any accounts, tabs, browsers, lifetimes and page size: an active      *)
(* administrator is left unless two updates overlapped, logging in again     *)
(* leaves no session open behind unless two logins did, a session in use is  *)
(* not closed for being idle, and a walk through the log shows everything    *)
(* there was, once (crm.service.ts, auth.service.ts, activity.service.ts).   *)
THEOREM DoorHolds == AccessAssumption /\ AccessSpec => []AccessHolds
  <1> SUFFICES ASSUME AccessAssumption PROVE AccessSpec => []AccessHolds  OBVIOUS
  <1>1. AInv => AccessHolds
    <2> SUFFICES ASSUME AInv PROVE AccessHolds  OBVIOUS
    <2>1. AdministratorStays  BY DEF AInv, UpdatesKnown, AdministratorStays
    <2>2. NothingLeftOpen
      <3>1. Under({"opened"}) \subseteq Under(LoggingIn)  BY DEF Under, LoggingIn
      <3> QED  BY <3>1 DEF AInv, LoginsKnown, Covered, NothingLeftOpen
    <2>3. UsedStaysOpen
      <3> SUFFICES ASSUME NEW s \in logins, now < s.expires, now - used[s.token] < Idle - Touch + 1
                   PROVE Valid(s)
        BY DEF UsedStaysOpen
      <3>1. s \in Logins /\ used \in [Tokens -> Nat] /\ now \in Nat  BY DEF AInv, AccessTypeOK
      <3>2. s.token \in Tokens /\ s.seen \in Nat /\ s.expires \in Nat  BY <3>1 DEF Logins
      <3>3. used[s.token] \in Nat /\ used[s.token] < s.seen + Touch  BY <3>1, <3>2 DEF AInv, UsesNoted
      <3>4. Idle \in Nat /\ Touch \in Nat  BY DEF AccessAssumption
      <3> QED  BY <3>1, <3>2, <3>3, <3>4 DEF Valid
    <2>4. LogWalked  BY DEF AInv, WalkKnown, LogWalked, Collected
    <2> QED  BY <2>1, <2>2, <2>3, <2>4 DEF AccessHolds
  <1> QED  BY <1>1, DoorInductive, PTL

-----------------------------------------------------------------------------

(* The requests of a caller that were let through, since a time and between   *)
(* two.                                                                       *)
Let(k, lo, hi) == {r \in requests : r.key = k /\ r.passed /\ r.at >= lo /\ r.at < hi}
From(k, lo) == {r \in requests : r.key = k /\ r.passed /\ r.at >= lo}
Lesser(a, b) == IF a <= b THEN a ELSE b

Bucket == [count : Nat \ {0}, resetAt : Int]
LimitTyped ==
    /\ clock \in Nat /\ nextCleanup \in Int /\ nextCleanup - Cleanup <= clock
    /\ buckets \in [Keys -> Bucket \cup {NoBucket}]
    /\ IsFiniteSet(requests)
    /\ \A r \in requests : r.n \in 1..Cardinality(requests) /\ r.at \in Int /\ r.at <= clock /\ r.key \in Keys

(* The window of a caller: of its requests as many as it counts or may were   *)
(* let through, and no more than may in a window's length before it; without  *)
(* one, no more than may in the last window's length, and none just now.      *)
Windows(k) ==
    LET start == buckets[k].resetAt - WindowMs
    IN IF Alive(buckets[k])
       THEN /\ start <= clock /\ Cardinality(From(k, start)) = Lesser(buckets[k].count, Maximum)
            /\ Cardinality(Let(k, start - WindowMs + 1, start)) <= Maximum
       ELSE /\ Cardinality(From(k, clock - WindowMs + 1)) <= Maximum
            /\ From(k, clock) = {}
(* The table: what it holds was asked for since the last cleaning or then.    *)
Table ==
    /\ Size(buckets) <= Capacity
    /\ \A k \in Keys : buckets[k] # NoBucket =>
          /\ buckets[k].resetAt > nextCleanup - Cleanup
          /\ \E q \in requests : q.key = k /\ q.at = buckets[k].resetAt - WindowMs
Stretches == \A k \in Keys, from \in Int : Cardinality(Let(k, from, from + WindowMs)) <= 2 * Maximum
Others(r) == {q.key : q \in {q \in Before(r) : q.at > r.at - WindowMs - Cleanup}} \ {r.key}
Early(r) == Passed(Within(r.key, r.at - WindowMs + 1, r.at + 1) \cap Before(r))
Refusals ==
    \A r \in {r \in requests : ~r.passed} :
       IF r.full THEN Cardinality(Others(r)) >= Capacity ELSE Cardinality(Early(r)) >= Maximum
LimitInv == LimitTyped /\ (\A k \in Keys : Windows(k)) /\ Table /\ Stretches /\ Refusals

LEMMA Sorts ==
    /\ WindowMs \in Nat \ {0} /\ Cleanup \in Nat /\ Maximum \in Nat /\ Capacity \in Nat
    /\ NoBucket \notin Bucket
<1>1. Bucket \in SUBSET [count : Nat, resetAt : Int]
  BY DEF Bucket
<1> QED BY <1>1, LimitAssumption

LEMMA SetsFinite ==
    LimitTyped => \A k, lo, hi :
      /\ IsFiniteSet(Let(k, lo, hi)) /\ IsFiniteSet(From(k, lo))
      /\ Cardinality(Let(k, lo, hi)) \in Nat /\ Cardinality(From(k, lo)) \in Nat
<1> SUFFICES ASSUME LimitTyped, NEW k, NEW lo, NEW hi
             PROVE  /\ IsFiniteSet(Let(k, lo, hi)) /\ IsFiniteSet(From(k, lo))
                    /\ Cardinality(Let(k, lo, hi)) \in Nat /\ Cardinality(From(k, lo)) \in Nat
  OBVIOUS
<1>1. Let(k, lo, hi) \in SUBSET requests /\ From(k, lo) \in SUBSET requests
  BY DEF Let, From
<1>2. IsFiniteSet(Let(k, lo, hi)) /\ IsFiniteSet(From(k, lo))
  BY <1>1, FS_Subset DEF LimitTyped
<1> QED BY <1>2, FS_CardinalityType

(* No late stretch of a window's length holds more than two windows may.      *)
LateStretches ==
    \A k \in Keys, from \in Int :
      Windows(k) /\ from > clock - WindowMs => Cardinality(Let(k, from, from + WindowMs)) <= 2 * Maximum
LEMMA LateStretch == LimitTyped => LateStretches
<1> SUFFICES ASSUME LimitTyped, NEW k \in Keys, NEW from \in Int, Windows(k), from > clock - WindowMs
             PROVE  Cardinality(Let(k, from, from + WindowMs)) <= 2 * Maximum
  BY DEF LateStretches
<1> DEFINE A == Let(k, from, from + WindowMs)
           s == buckets[k].resetAt - WindowMs
<1>0. IsFiniteSet(A) /\ Cardinality(A) \in Nat /\ Maximum \in Nat /\ WindowMs \in Nat /\ clock \in Nat
  BY SetsFinite, Sorts DEF LimitTyped
<1>1. \A r \in requests : r.at \in Int
  BY DEF LimitTyped
<1>2. CASE Alive(buckets[k])
  <2> DEFINE B == Let(k, s - WindowMs + 1, s)
             C == From(k, s)
  <2>1. buckets[k] \in Bucket
    BY <1>2 DEF Alive, LimitTyped
  <2>2. s \in Int /\ buckets[k].count \in Nat
    BY <2>1, <1>0 DEF Bucket
  <2>3. s <= clock /\ Cardinality(C) = Lesser(buckets[k].count, Maximum) /\ Cardinality(B) <= Maximum
    BY <1>2 DEF Windows
  <2>4. IsFiniteSet(B) /\ IsFiniteSet(C) /\ Cardinality(B) \in Nat /\ Cardinality(C) \in Nat
    BY SetsFinite
  <2>5. Cardinality(C) <= Maximum
    BY <1>0, <2>2, <2>3 DEF Lesser
  <2>6. A \in SUBSET (B \cup C)
    <3> HIDE DEF s
    <3> QED BY <1>0, <1>1, <2>2, <2>3 DEF Let, From
  <2> HIDE DEF A, B, C, s
  <2>7. IsFiniteSet(B \cup C) /\ Cardinality(B \cup C) = Cardinality(B) + Cardinality(C) - Cardinality(B \cap C)
    BY <2>4, FS_Union
  <2>8. Cardinality(B \cap C) \in Nat
    BY <2>4, FS_Intersection, FS_CardinalityType
  <2>9. Cardinality(A) <= Cardinality(B \cup C)
    BY <2>6, <2>7, FS_Subset
  <2> QED BY <1>0, <2>3, <2>4, <2>5, <2>7, <2>8, <2>9 DEF A
<1>3. CASE ~Alive(buckets[k])
  <2> DEFINE C == From(k, clock - WindowMs + 1)
  <2>1. A \in SUBSET C
    BY <1>0, <1>1 DEF Let, From
  <2>2. IsFiniteSet(C) /\ Cardinality(C) \in Nat /\ Cardinality(C) <= Maximum
    BY <1>3, SetsFinite DEF Windows
  <2> HIDE DEF A, C
  <2>3. Cardinality(A) <= Cardinality(C)
    BY <2>1, <2>2, FS_Subset
  <2> QED BY <1>0, <2>2, <2>3 DEF A
<1> QED BY <1>2, <1>3
-----------------------------------------------------------------------------
(* A request. *)
Asking(k) == LimitInv /\ k \in Keys /\ RateLimit(k)
Asked(k) == [n |-> Cardinality(requests) + 1, key |-> k, at |-> clock, passed |-> Passes(Cleaned, k), full |-> Full(Cleaned, k)]
LEMMA AskedOf ==
    ASSUME NEW k, Asking(k)
    PROVE  /\ LimitTyped /\ k \in Keys /\ clock' = clock
           /\ requests' = requests \cup {Asked(k)} /\ Asked(k) \notin requests
           /\ IsFiniteSet(requests') /\ Cardinality(requests') = Cardinality(requests) + 1 /\ Cardinality(requests) \in Nat
           /\ \A j, lo, hi :
                /\ j # k \/ ~Passes(Cleaned, k) \/ ~(clock >= lo) => From(j, lo)' = From(j, lo)
                /\ j # k \/ ~Passes(Cleaned, k) \/ ~(clock >= lo /\ clock < hi) => Let(j, lo, hi)' = Let(j, lo, hi)
           /\ \A lo : Passes(Cleaned, k) /\ clock >= lo => Cardinality(From(k, lo)') = Cardinality(From(k, lo)) + 1
<1>1. LimitTyped /\ k \in Keys /\ clock' = clock /\ requests' = requests \cup {Asked(k)}
  BY DEF Asking, LimitInv, RateLimit, Asked
<1>2. Cardinality(requests) \in Nat /\ IsFiniteSet(requests)
  BY <1>1, FS_CardinalityType DEF LimitTyped
<1>3. Asked(k) \notin requests
  <2>1. Asked(k).n = Cardinality(requests) + 1
    BY DEF Asked
  <2>2. \A r \in requests : r.n <= Cardinality(requests)
    BY <1>1, <1>2 DEF LimitTyped
  <2> QED BY <1>2, <2>1, <2>2
<1>4. IsFiniteSet(requests') /\ Cardinality(requests') = Cardinality(requests) + 1
  BY <1>1, <1>2, <1>3, FS_AddElement
<1>5. Asked(k).key = k /\ Asked(k).at = clock /\ (Asked(k).passed <=> Passes(Cleaned, k))
  BY DEF Asked
<1>6. ASSUME NEW j, NEW lo, NEW hi
      PROVE  /\ j # k \/ ~Passes(Cleaned, k) \/ ~(clock >= lo) => From(j, lo)' = From(j, lo)
             /\ j # k \/ ~Passes(Cleaned, k) \/ ~(clock >= lo /\ clock < hi) => Let(j, lo, hi)' = Let(j, lo, hi)
  BY <1>1, <1>5 DEF From, Let
<1>7. ASSUME NEW lo, Passes(Cleaned, k), clock >= lo PROVE Cardinality(From(k, lo)') = Cardinality(From(k, lo)) + 1
  <2>1. From(k, lo)' = From(k, lo) \cup {Asked(k)}
    BY <1>1, <1>5, <1>7 DEF From
  <2>2. Asked(k) \notin From(k, lo) /\ IsFiniteSet(From(k, lo))
    BY <1>1, <1>3, SetsFinite DEF From
  <2> QED BY <2>1, <2>2, FS_AddElement
<1> QED BY <1>1, <1>2, <1>3, <1>4, <1>6, <1>7

(* The table after a cleaning that is due, and after the request.             *)
LEMMA CleanedIs ==
    LimitTyped =>
      /\ Cleaned \in [Keys -> Bucket \cup {NoBucket}]
      /\ \A j \in Keys : Cleaned[j] = buckets[j] \/ (Cleaned[j] = NoBucket /\ ~Alive(buckets[j]))
      /\ \A j \in Keys : clock >= nextCleanup /\ Cleaned[j] # NoBucket => Alive(Cleaned[j])
      /\ clock < nextCleanup => Cleaned = buckets
<1> SUFFICES ASSUME LimitTyped
             PROVE  /\ Cleaned \in [Keys -> Bucket \cup {NoBucket}]
                    /\ \A j \in Keys : Cleaned[j] = buckets[j] \/ (Cleaned[j] = NoBucket /\ ~Alive(buckets[j]))
                    /\ \A j \in Keys : clock >= nextCleanup /\ Cleaned[j] # NoBucket => Alive(Cleaned[j])
                    /\ clock < nextCleanup => Cleaned = buckets
  OBVIOUS
<1>1. CASE clock >= nextCleanup
  <2>1. Cleaned = [j \in Keys |-> IF Alive(buckets[j]) THEN buckets[j] ELSE NoBucket]
    BY <1>1 DEF Cleaned
  <2>2. clock \in Int /\ nextCleanup \in Int /\ ~(clock < nextCleanup)
    BY <1>1 DEF LimitTyped
  <2> QED BY <2>1, <2>2 DEF LimitTyped
<1>2. CASE ~(clock >= nextCleanup)
  BY <1>2 DEF Cleaned, LimitTyped
<1> QED BY <1>1, <1>2

LEMMA Alone ==
    LimitTyped => \A j \in Keys : (Alive(Cleaned[j]) <=> Alive(buckets[j])) /\ (Alive(buckets[j]) => Cleaned[j] = buckets[j])
  BY CleanedIs DEF Alive

LEMMA TableAfter ==
    ASSUME NEW k, Asking(k)
    PROVE  /\ \A j \in Keys \ {k} : buckets'[j] = Cleaned[j]
           /\ Alive(Cleaned[k]) =>
                /\ buckets'[k] = [count |-> buckets[k].count + 1, resetAt |-> buckets[k].resetAt]
                /\ buckets[k] \in Bucket /\ (Passes(Cleaned, k) <=> buckets[k].count + 1 <= Maximum)
                /\ ~Full(Cleaned, k)
           /\ Full(Cleaned, k) => buckets'[k] = NoBucket /\ ~Passes(Cleaned, k) /\ Cleaned[k] = NoBucket
           /\ ~Alive(Cleaned[k]) /\ ~Full(Cleaned, k) =>
                buckets'[k] = Opened /\ (Passes(Cleaned, k) <=> 1 <= Maximum)
           /\ buckets' \in [Keys -> Bucket \cup {NoBucket}]
<1>1. LimitTyped /\ k \in Keys /\ buckets' = After(Cleaned, k)
  BY AskedOf DEF Asking, RateLimit
<1>2. Cleaned \in [Keys -> Bucket \cup {NoBucket}]
  BY <1>1, CleanedIs
<1>3. CASE Alive(Cleaned[k])
  <2>1. ~Full(Cleaned, k) /\ buckets' = [Cleaned EXCEPT ![k] = Hit(@)]
    BY <1>1, <1>3 DEF Full, After
  <2>2. Cleaned[k] = buckets[k] /\ Cleaned[k] \in Bucket
    BY <1>1, <1>2, <1>3, Alone DEF Alive
  <2>3. Hit(Cleaned[k]) = [count |-> buckets[k].count + 1, resetAt |-> buckets[k].resetAt]
    BY <2>2 DEF Hit, Counted, Bucket
  <2>4. [count |-> buckets[k].count + 1, resetAt |-> buckets[k].resetAt] \in Bucket
    BY <2>2 DEF Bucket
  <2>5. Passes(Cleaned, k) <=> buckets[k].count + 1 <= Maximum
    BY <1>1, <1>2, <1>3, <2>1, <2>3 DEF Passes, After
  <2> QED BY <1>1, <1>2, <1>3, <2>1, <2>2, <2>3, <2>4, <2>5
<1>4. CASE Full(Cleaned, k)
  BY <1>1, <1>2, <1>4 DEF Full, After, Passes
<1>5. CASE ~Alive(Cleaned[k]) /\ ~Full(Cleaned, k)
  <2>1. buckets' = [Cleaned EXCEPT ![k] = Opened] /\ After(Cleaned, k) = [Cleaned EXCEPT ![k] = Opened]
    BY <1>1, <1>5 DEF After
  <2>2. Opened \in Bucket /\ Opened.count = 1
    BY <1>1, Sorts DEF Opened, Bucket, LimitTyped
  <2>3. Passes(Cleaned, k) <=> 1 <= Maximum
    BY <1>1, <1>2, <1>5, <2>1, <2>2 DEF Passes
  <2> QED BY <1>1, <1>2, <1>5, <2>1, <2>2, <2>3
<1> QED BY <1>3, <1>4, <1>5

LEMMA TypedAfter == ASSUME NEW k, Asking(k) PROVE LimitTyped'
<1>1. LimitTyped /\ clock' = clock /\ buckets' \in [Keys -> Bucket \cup {NoBucket}]
  BY AskedOf, TableAfter
<1>2. nextCleanup' \in Int /\ nextCleanup' - Cleanup <= clock
  BY <1>1, Sorts DEF Asking, RateLimit, LimitTyped
<1>3. IsFiniteSet(requests') /\ \A r \in requests' : r.n \in 1..Cardinality(requests') /\ r.at \in Int /\ r.at <= clock /\ r.key \in Keys
  <2>1. /\ k \in Keys /\ requests' = requests \cup {Asked(k)} /\ IsFiniteSet(requests')
        /\ Cardinality(requests') = Cardinality(requests) + 1 /\ Cardinality(requests) \in Nat
    BY AskedOf
  <2>2. Asked(k).n = Cardinality(requests) + 1 /\ Asked(k).at = clock /\ Asked(k).key = k
    BY DEF Asked
  <2>3. \A r \in requests : r.n \in 1..Cardinality(requests) /\ r.at \in Int /\ r.at <= clock /\ r.key \in Keys
    BY <1>1 DEF LimitTyped
  <2>4. clock \in Int /\ clock <= clock
    BY <1>1 DEF LimitTyped
  <2> QED BY <2>1, <2>2, <2>3, <2>4
<1> QED BY <1>1, <1>2, <1>3 DEF LimitTyped

LEMMA WindowsAfter == ASSUME NEW k, Asking(k), NEW j \in Keys PROVE Windows(j)'
<1>1. LimitTyped /\ Windows(j) /\ clock' = clock /\ clock \in Nat /\ k \in Keys
  BY AskedOf DEF Asking, LimitInv, LimitTyped
<1>2. WindowMs \in Nat \ {0} /\ Maximum \in Nat /\ NoBucket \notin Bucket
  BY Sorts
<1> DEFINE s == buckets[j].resetAt - WindowMs
<1>3. CASE j # k
  <2>1. buckets'[j] = Cleaned[j] /\ \A lo, hi : From(j, lo)' = From(j, lo) /\ Let(j, lo, hi)' = Let(j, lo, hi)
    <3>1. buckets'[j] = Cleaned[j]
      BY <1>3, TableAfter
    <3>2. \A lo, hi : From(j, lo)' = From(j, lo) /\ Let(j, lo, hi)' = Let(j, lo, hi)
      BY <1>3, AskedOf
    <3> QED BY <3>1, <3>2
  <2>2. CASE Alive(buckets[j])
    <3>1. buckets'[j] = buckets[j] /\ Alive(buckets[j])'
      BY <1>1, <2>1, <2>2, Alone DEF Alive
    <3> QED BY <1>1, <2>1, <2>2, <3>1 DEF Windows
  <2>3. CASE ~Alive(buckets[j])
    <3>1. ~Alive(buckets[j])'
      BY <1>1, <2>1, <2>3, CleanedIs DEF Alive
    <3> QED BY <1>1, <2>1, <2>3, <3>1 DEF Windows
  <2> QED BY <2>2, <2>3
<1>4. CASE j = k /\ Alive(Cleaned[k])
  <2>1. Alive(buckets[k]) /\ buckets[k] \in Bucket
    BY <1>1, <1>4, Alone, TableAfter
  <2>2. buckets'[k] = [count |-> buckets[k].count + 1, resetAt |-> buckets[k].resetAt] /\ (Passes(Cleaned, k) <=> buckets[k].count + 1 <= Maximum)
    BY <1>4, TableAfter
  <2>3. buckets[k].count \in Nat /\ buckets[k].resetAt \in Int /\ s \in Int
    BY <1>2, <1>4, <2>1 DEF Bucket
  <2>4. Alive(buckets[k])'
    <3>1. buckets'[k] \in Bucket
      BY <2>2, <2>3 DEF Bucket
    <3> QED BY <1>1, <1>2, <2>1, <2>2, <3>1 DEF Alive
  <2>5. s <= clock /\ Cardinality(From(k, s)) = Lesser(buckets[k].count, Maximum) /\ Cardinality(Let(k, s - WindowMs + 1, s)) <= Maximum
    BY <1>1, <1>4, <2>1 DEF Windows
  <2>6. buckets'[k].resetAt - WindowMs = s /\ buckets'[k].count = buckets[k].count + 1
    BY <1>4, <2>2
  <2>7. PICK start \in Int : start = s
    BY <2>3
  <2>8. Let(k, start - WindowMs + 1, start)' = Let(k, start - WindowMs + 1, start)
    <3>1. ~(clock < start)
      BY <1>1, <2>5, <2>7
    <3> QED BY <3>1, AskedOf
  <2>9. Cardinality(From(k, start)') = Lesser(buckets[k].count + 1, Maximum)
    <3>1. CASE Passes(Cleaned, k)
      <4>1. Cardinality(From(k, start)') = Cardinality(From(k, start)) + 1
        BY <1>1, <2>5, <2>7, <3>1, AskedOf
      <4> QED BY <1>2, <2>2, <2>3, <2>5, <2>7, <3>1, <4>1 DEF Lesser
    <3>2. CASE ~Passes(Cleaned, k)
      <4>1. From(k, start)' = From(k, start)
        BY <3>2, AskedOf
      <4> QED BY <1>2, <2>2, <2>3, <2>5, <2>7, <3>2, <4>1 DEF Lesser
    <3> QED BY <3>1, <3>2
  <2>10. /\ start <= clock /\ Cardinality(From(k, start)') = Lesser(buckets'[k].count, Maximum)
         /\ Cardinality(Let(k, start - WindowMs + 1, start)') <= Maximum /\ start = buckets'[k].resetAt - WindowMs
    BY <2>5, <2>6, <2>7, <2>8, <2>9
  <2> QED BY <1>1, <1>4, <2>4, <2>10 DEF Windows
<1>5. CASE j = k /\ Full(Cleaned, k)
  <2>1. buckets'[k] = NoBucket /\ ~Passes(Cleaned, k) /\ Cleaned[k] = NoBucket
    BY <1>5, TableAfter
  <2>2. ~Alive(buckets[k]) /\ ~Alive(buckets[k])'
    BY <1>1, <2>1, Alone DEF Alive
  <2>3. \A lo, hi : From(k, lo)' = From(k, lo)
    BY <2>1, AskedOf
  <2> QED BY <1>1, <1>5, <2>2, <2>3 DEF Windows
<1>6. CASE j = k /\ ~Alive(Cleaned[k]) /\ ~Full(Cleaned, k)
  <2>1. ~Alive(buckets[k])
    BY <1>1, <1>6, Alone
  <2>2. buckets'[k] = Opened /\ (Passes(Cleaned, k) <=> 1 <= Maximum)
    BY <1>6, TableAfter
  <2>3. Opened = [count |-> 1, resetAt |-> clock + WindowMs] /\ Opened \in Bucket
    BY <1>1, <1>2 DEF Opened, Bucket
  <2>4. Alive(buckets[k])'
    BY <1>1, <1>2, <2>2, <2>3 DEF Alive
  <2>5. Cardinality(From(k, clock - WindowMs + 1)) <= Maximum /\ From(k, clock) = {}
    BY <1>1, <1>6, <2>1 DEF Windows
  <2>6. PICK start \in Nat : start = clock
    BY <1>1
  <2>7. buckets'[k].resetAt - WindowMs = start /\ buckets'[k].count = 1
    BY <1>1, <1>2, <2>2, <2>3, <2>6
  <2>8. Cardinality(From(k, start)') = Lesser(1, Maximum)
    <3>1. CASE Passes(Cleaned, k)
      <4>1. Cardinality(From(k, start)') = Cardinality(From(k, start)) + 1
        BY <1>1, <2>6, <3>1, AskedOf
      <4> QED BY <2>2, <2>5, <2>6, <3>1, <4>1, FS_EmptySet DEF Lesser
    <3>2. CASE ~Passes(Cleaned, k)
      <4>1. From(k, start)' = From(k, start)
        BY <3>2, AskedOf
      <4> QED BY <1>2, <2>2, <2>5, <2>6, <3>2, <4>1, FS_EmptySet DEF Lesser
    <3> QED BY <3>1, <3>2
  <2>9. Cardinality(Let(k, start - WindowMs + 1, start)') <= Maximum
    <3>1. Let(k, start - WindowMs + 1, start)' = Let(k, start - WindowMs + 1, start)
      <4>1. ~(clock < start)
        BY <1>1, <2>6
      <4> QED BY <4>1, AskedOf
    <3>2. Let(k, start - WindowMs + 1, start) \in SUBSET From(k, start - WindowMs + 1)
      BY DEF Let, From
    <3>3. Cardinality(Let(k, start - WindowMs + 1, start)) <= Cardinality(From(k, start - WindowMs + 1))
      BY <1>1, <3>2, SetsFinite, FS_Subset
    <3>4. Cardinality(Let(k, start - WindowMs + 1, start)) \in Nat /\ Cardinality(From(k, start - WindowMs + 1)) \in Nat
      BY <1>1, SetsFinite
    <3> QED BY <1>2, <2>5, <2>6, <3>1, <3>3, <3>4
  <2> QED BY <1>1, <1>6, <2>4, <2>6, <2>7, <2>8, <2>9 DEF Windows
<1> QED BY <1>3, <1>4, <1>5, <1>6

LEMMA TableKept == ASSUME NEW k, Asking(k) PROVE Table'
<1>1. LimitTyped /\ Table /\ clock' = clock /\ clock \in Nat /\ k \in Keys /\ nextCleanup \in Int /\ nextCleanup - Cleanup <= clock
  BY AskedOf DEF Asking, LimitInv, LimitTyped
<1>2. WindowMs \in Nat \ {0} /\ Capacity \in Nat /\ Cleanup \in Nat
  BY Sorts
<1> DEFINE held(t) == {j \in Keys : t[j] # NoBucket}
<1>3. \A t : IsFiniteSet(held(t)) /\ Cardinality(held(t)) \in Nat
  BY LimitAssumption, FS_Subset, FS_CardinalityType
<1>4. Size(Cleaned) <= Capacity
  <2>1. held(Cleaned) \in SUBSET held(buckets)
    BY <1>1, CleanedIs
  <2>2. Cardinality(held(Cleaned)) <= Cardinality(held(buckets))
    BY <1>3, <2>1, FS_Subset
  <2>3. Cardinality(held(buckets)) <= Capacity
    BY <1>1 DEF Table, Size
  <2>4. Cardinality(held(Cleaned)) <= Capacity
    <3> DEFINE a == Cardinality(held(Cleaned))
               b == Cardinality(held(buckets))
    <3>1. a \in Nat /\ b \in Nat /\ a <= b /\ b <= Capacity
      BY <1>3, <2>2, <2>3
    <3> HIDE DEF a, b
    <3>2. a <= Capacity
      BY <1>2, <3>1
    <3> QED BY <3>2 DEF a
  <2> QED BY <2>4 DEF Size
<1>5. Size(buckets') <= Capacity
  <2>1. \A j \in Keys \ {k} : buckets'[j] = Cleaned[j]
    BY TableAfter
  <2>2. CASE Alive(Cleaned[k]) \/ Full(Cleaned, k) \/ Cleaned[k] # NoBucket
    <3>1. Cleaned[k] # NoBucket \/ buckets'[k] = NoBucket
      BY <2>2, TableAfter DEF Alive
    <3>2. held(buckets') \in SUBSET held(Cleaned)
      BY <2>1, <3>1
    <3>3. Cardinality(held(buckets')) <= Cardinality(held(Cleaned))
      BY <1>3, <3>2, FS_Subset
    <3> DEFINE a == Cardinality(held(buckets'))
               b == Cardinality(held(Cleaned))
    <3>4. a \in Nat /\ b \in Nat /\ a <= b /\ b <= Capacity
      BY <1>3, <1>4, <3>3 DEF Size
    <3> HIDE DEF a, b
    <3>5. a <= Capacity
      BY <1>2, <3>4
    <3> QED BY <3>5 DEF a, Size
  <2>3. CASE ~Full(Cleaned, k) /\ Cleaned[k] = NoBucket
    <3>1. ~(Size(Cleaned) >= Capacity)
      BY <2>3 DEF Full, Alive
    <3>2. held(buckets') \in SUBSET (held(Cleaned) \cup {k}) /\ k \notin held(Cleaned)
      BY <2>1, <2>3
    <3>3. IsFiniteSet(held(Cleaned) \cup {k}) /\ Cardinality(held(Cleaned) \cup {k}) = Cardinality(held(Cleaned)) + 1
      <4> DEFINE h == held(Cleaned)
      <4>1. IsFiniteSet(h) /\ k \notin h
        BY <1>3, <3>2
      <4> HIDE DEF h
      <4>2. IsFiniteSet(h \cup {k}) /\ Cardinality(h \cup {k}) = Cardinality(h) + 1
        BY <4>1, FS_AddElement
      <4> QED BY <4>2 DEF h
    <3>4. Cardinality(held(buckets')) <= Cardinality(held(Cleaned) \cup {k})
      BY <3>2, <3>3, FS_Subset
    <3> DEFINE a == Cardinality(held(buckets'))
               b == Cardinality(held(Cleaned))
    <3>5. a \in Nat /\ b \in Nat /\ a <= b + 1 /\ ~(b >= Capacity)
      BY <1>3, <3>1, <3>3, <3>4 DEF Size
    <3> HIDE DEF a, b
    <3>6. a <= Capacity
      BY <1>2, <3>5
    <3> QED BY <3>6 DEF a, Size
  <2> QED BY <2>2, <2>3
<1>6. ASSUME NEW j \in Keys, buckets'[j] # NoBucket
      PROVE  /\ buckets'[j].resetAt > nextCleanup' - Cleanup
             /\ \E q \in requests' : q.key = j /\ q.at = buckets'[j].resetAt - WindowMs
  <2>1. requests' = requests \cup {Asked(k)}
    BY AskedOf
  <2>2. nextCleanup' = IF clock >= nextCleanup THEN clock + Cleanup ELSE nextCleanup
    BY DEF Asking, RateLimit
  <2>3. CASE Cleaned[j] # NoBucket /\ buckets'[j].resetAt = Cleaned[j].resetAt
    <3>1. Cleaned[j] = buckets[j] /\ buckets[j] # NoBucket /\ buckets[j] \in Bucket
      BY <1>1, <2>3, CleanedIs DEF LimitTyped
    <3>2. buckets[j].resetAt > nextCleanup - Cleanup /\ \E q \in requests : q.key = j /\ q.at = buckets[j].resetAt - WindowMs
      BY <1>1, <3>1 DEF Table
    <3>3. clock >= nextCleanup => buckets[j].resetAt > clock
      BY <1>1, <2>3, <3>1, CleanedIs DEF Alive
    <3>4. buckets[j].resetAt \in Int
      BY <3>1 DEF Bucket
    <3> QED BY <1>1, <1>2, <2>1, <2>2, <2>3, <3>1, <3>2, <3>3, <3>4
  <2>4. CASE j = k /\ buckets'[k] = Opened
    <3>1. Opened.resetAt = clock + WindowMs
      BY DEF Opened
    <3>2. Asked(k).key = k /\ Asked(k).at = clock
      BY DEF Asked
    <3> QED BY <1>1, <1>2, <2>1, <2>2, <2>4, <3>1, <3>2
  <2>5. CASE j # k
    <3>1. buckets'[j] = Cleaned[j]
      BY <2>5, TableAfter
    <3> QED BY <1>6, <2>3, <3>1
  <2>6. CASE j = k
    <3>1. CASE Alive(Cleaned[k])
      <4>0. buckets'[k] = [count |-> buckets[k].count + 1, resetAt |-> buckets[k].resetAt]
        BY <3>1, TableAfter
      <4>1. buckets'[k].resetAt = buckets[k].resetAt
        BY <4>0
      <4>2. Cleaned[k] = buckets[k] /\ Cleaned[k] # NoBucket
        BY <1>1, <3>1, Alone DEF Alive
      <4> QED BY <2>3, <2>6, <4>1, <4>2
    <3>2. ~Full(Cleaned, k)
      BY <1>6, <2>6, TableAfter
    <3>3. CASE ~Alive(Cleaned[k])
      BY <2>4, <2>6, <3>2, <3>3, TableAfter
    <3> QED BY <3>1, <3>3
  <2> QED BY <2>5, <2>6
<1> QED BY <1>5, <1>6 DEF Table

LEMMA StretchesKept == ASSUME NEW k, Asking(k) PROVE Stretches'
<1> SUFFICES ASSUME NEW j \in Keys, NEW from \in Int PROVE Cardinality(Let(j, from, from + WindowMs)') <= 2 * Maximum
  BY DEF Stretches
<1>1. LimitTyped /\ Stretches /\ clock' = clock /\ clock \in Nat /\ WindowMs \in Nat
  BY AskedOf, Sorts DEF Asking, LimitInv, LimitTyped
<1>2. CASE from > clock - WindowMs
  <2>1. LimitTyped' => LateStretches'
    BY LateStretch, PTL
  <2>2. LimitTyped' /\ Windows(j)'
    BY TypedAfter, WindowsAfter
  <2> QED BY <1>1, <1>2, <2>1, <2>2 DEF LateStretches
<1>3. CASE ~(from > clock - WindowMs)
  <2>1. ~(clock < from + WindowMs)
    BY <1>1, <1>3
  <2>2. Let(j, from, from + WindowMs)' = Let(j, from, from + WindowMs)
    BY <2>1, AskedOf
  <2> QED BY <1>1, <2>2 DEF Stretches
<1> QED BY <1>2, <1>3

LEMMA RefusalsKept == ASSUME NEW k, Asking(k) PROVE Refusals'
<1>1. /\ LimitTyped /\ Refusals /\ Table /\ Windows(k) /\ k \in Keys /\ clock \in Nat
      /\ requests' = requests \cup {Asked(k)} /\ Cardinality(requests) \in Nat /\ Asked(k) \notin requests
  BY AskedOf DEF Asking, LimitInv, LimitTyped
<1>2. WindowMs \in Nat \ {0} /\ Capacity \in Nat /\ Cleanup \in Nat /\ Maximum \in Nat
  BY Sorts
<1>3. /\ Asked(k).n = Cardinality(requests) + 1 /\ Asked(k).key = k /\ Asked(k).at = clock
      /\ (Asked(k).passed <=> Passes(Cleaned, k)) /\ (Asked(k).full <=> Full(Cleaned, k))
  BY DEF Asked
<1>4. \A r \in requests : r.n \in Nat /\ r.n <= Cardinality(requests) /\ r.at \in Int /\ r.at <= clock
  BY <1>1 DEF LimitTyped
<1>5. ASSUME NEW r \in requests PROVE Before(r)' = Before(r)
  <2>1. ~(Asked(k).n < r.n)
    BY <1>1, <1>3, <1>4
  <2> QED BY <1>1, <2>1 DEF Before
<1>6. ASSUME NEW r \in requests PROVE Others(r)' = Others(r) /\ Early(r)' = Early(r)
  <2>1. Others(r)' = Others(r)
    BY <1>5 DEF Others
  <2>2. Early(r) = {q \in Before(r) : q.key = r.key /\ q.at >= r.at - WindowMs + 1 /\ q.at < r.at + 1 /\ q.passed}
    BY DEF Early, Passed, Within, Before
  <2>3. Early(r)' = {q \in Before(r)' : q.key = r.key /\ q.at >= r.at - WindowMs + 1 /\ q.at < r.at + 1 /\ q.passed}
    BY DEF Early, Passed, Within, Before
  <2> QED BY <1>5, <2>1, <2>2, <2>3
<1>7. PICK a : a = Asked(k)
  OBVIOUS
<1>8. /\ a \in requests' /\ a.key = k /\ a.at = clock /\ (a.passed <=> Passes(Cleaned, k)) /\ (a.full <=> Full(Cleaned, k))
      /\ Before(a)' = requests
  <2>1. \A q \in requests : q.n < a.n
    BY <1>1, <1>3, <1>4, <1>7
  <2>2. ~(a.n < a.n)
    BY <1>1, <1>3, <1>7
  <2>3. Before(a)' = requests
    BY <1>1, <1>7, <2>1, <2>2 DEF Before
  <2> QED BY <1>1, <1>3, <1>7, <2>3
<1>9. ASSUME a.full PROVE Cardinality(Others(a)') >= Capacity
  <2> DEFINE held == {j \in Keys : Cleaned[j] # NoBucket}
             others == {q.key : q \in {q \in requests : q.at > clock - WindowMs - Cleanup}} \ {k}
  <2>1. Others(a)' = others
    <3>1. Others(a)' = {q.key : q \in {q \in Before(a)' : q.at > a.at - WindowMs - Cleanup}} \ {a.key}
      BY DEF Others
    <3> QED BY <1>8, <3>1
  <2>2. Cleaned[k] = NoBucket /\ Size(Cleaned) >= Capacity
    BY <1>8, <1>9 DEF Full
  <2>3. ASSUME NEW j \in held PROVE j \in others
    <3>1. Cleaned[j] = buckets[j] /\ buckets[j] # NoBucket /\ buckets[j] \in Bucket
      BY <1>1, CleanedIs DEF LimitTyped
    <3>2. buckets[j].resetAt \in Int /\ nextCleanup \in Int
      BY <1>1, <3>1 DEF Bucket, LimitTyped
    <3>3. PICK q \in requests : q.key = j /\ q.at = buckets[j].resetAt - WindowMs
      BY <1>1, <3>1 DEF Table
    <3>4. buckets[j].resetAt > clock - Cleanup
      <4>1. CASE clock >= nextCleanup
        BY <1>1, <1>2, <3>1, <3>2, <4>1, CleanedIs DEF Alive
      <4>2. CASE ~(clock >= nextCleanup)
        <5>1. buckets[j].resetAt > nextCleanup - Cleanup
          BY <1>1, <3>1 DEF Table
        <5> QED BY <1>1, <1>2, <3>2, <4>2, <5>1
      <4> QED BY <4>1, <4>2
    <3>5. q.at > clock - WindowMs - Cleanup
      BY <1>1, <1>2, <3>2, <3>3, <3>4
    <3>6. j # k
      BY <2>2
    <3> QED BY <3>3, <3>5, <3>6
  <2>4. others \in SUBSET Keys
    BY <1>1 DEF LimitTyped
  <2>5. IsFiniteSet(others) /\ Cardinality(others) \in Nat
    <3> HIDE DEF others
    <3> QED BY <2>4, LimitAssumption, FS_Subset, FS_CardinalityType
  <2>6. IsFiniteSet(held) /\ Cardinality(held) \in Nat
    BY LimitAssumption, FS_Subset, FS_CardinalityType
  <2>7. Cardinality(held) <= Cardinality(others) /\ Cardinality(held) >= Capacity
    <3>1. held \in SUBSET others
      BY <2>3
    <3>2. Cardinality(held) >= Capacity
      BY <2>2 DEF Size
    <3> HIDE DEF held, others
    <3> QED BY <2>5, <3>1, <3>2, FS_Subset
  <2> HIDE DEF held, others
  <2> QED BY <1>2, <2>1, <2>5, <2>6, <2>7
<1>10. ASSUME ~a.full, ~a.passed PROVE Cardinality(Early(a)') >= Maximum
  <2>1. Early(a)' = {q \in requests : q.key = k /\ q.at >= clock - WindowMs + 1 /\ q.at < clock + 1 /\ q.passed}
    <3>1. Early(a)' = {q \in Before(a)' : q.key = a.key /\ q.at >= a.at - WindowMs + 1 /\ q.at < a.at + 1 /\ q.passed}
      BY DEF Early, Passed, Within, Before
    <3> QED BY <1>8, <3>1
  <2> DEFINE early == Early(a)'
             s == buckets[k].resetAt - WindowMs
  <2>2. IsFiniteSet(early) /\ Cardinality(early) \in Nat
    <3>1. early \in SUBSET requests /\ IsFiniteSet(requests)
      BY <1>1, <2>1 DEF LimitTyped
    <3> HIDE DEF early
    <3> QED BY <3>1, FS_Subset, FS_CardinalityType
  <2>3. CASE Alive(Cleaned[k])
    <3>1. Alive(buckets[k]) /\ buckets[k] \in Bucket /\ ~(buckets[k].count + 1 <= Maximum)
      BY <1>1, <1>8, <1>10, <2>3, Alone, TableAfter
    <3>2. buckets[k].count \in Nat /\ buckets[k].resetAt \in Int /\ buckets[k].resetAt > clock
      BY <1>2, <3>1 DEF Bucket, Alive
    <3>3. Cardinality(From(k, s)) = Lesser(buckets[k].count, Maximum)
      BY <1>1, <3>1 DEF Windows
    <3>4. Cardinality(From(k, s)) = Maximum
      BY <1>2, <3>1, <3>2, <3>3 DEF Lesser
    <3>5. From(k, s) \in SUBSET early
      <4>1. s \in Int /\ s >= clock - WindowMs + 1
        BY <1>1, <1>2, <3>2
      <4> HIDE DEF s, early
      <4>2. \A q \in From(k, s) : q \in requests /\ q.key = k /\ q.passed /\ q.at >= s /\ q.at \in Int /\ q.at <= clock
        BY <1>4 DEF From
      <4>3. \A q \in From(k, s) : q.at >= clock - WindowMs + 1 /\ q.at < clock + 1
        BY <1>1, <1>2, <4>1, <4>2
      <4> QED BY <2>1, <4>2, <4>3 DEF early
    <3> HIDE DEF s, early
    <3>6. Cardinality(From(k, s)) <= Cardinality(early)
      BY <2>2, <3>5, FS_Subset
    <3> QED BY <3>4, <3>6, <2>2, <1>2 DEF early
  <2>4. CASE ~Alive(Cleaned[k])
    <3>1. ~(1 <= Maximum)
      BY <1>8, <1>10, <2>4, TableAfter
    <3> HIDE DEF early
    <3> QED BY <1>2, <2>2, <3>1 DEF early
  <2> QED BY <2>3, <2>4
<1>11. ASSUME NEW r \in requests', ~r.passed
       PROVE  IF r.full THEN Cardinality(Others(r)') >= Capacity ELSE Cardinality(Early(r)') >= Maximum
  <2>1. CASE r \in requests
    <3>1. IF r.full THEN Cardinality(Others(r)) >= Capacity ELSE Cardinality(Early(r)) >= Maximum
      BY <1>1, <1>11, <2>1 DEF Refusals
    <3> QED BY <1>6, <2>1, <3>1
  <2>2. CASE r = a
    BY <1>9, <1>10, <1>11, <2>2
  <2> QED BY <1>1, <1>7, <2>1, <2>2
<1> QED BY <1>11 DEF Refusals
-----------------------------------------------------------------------------
LEMMA LimitBegins == LimitInit => LimitInv
<1> SUFFICES ASSUME LimitInit PROVE LimitInv
  OBVIOUS
<1>1. WindowMs \in Nat \ {0} /\ Capacity \in Nat /\ Cleanup \in Nat /\ Maximum \in Nat
  BY Sorts
<1>2. LimitTyped
  BY <1>1, FS_EmptySet DEF LimitInit, LimitTyped
<1>3. \A k, lo, hi : From(k, lo) = {} /\ Let(k, lo, hi) = {}
  BY DEF LimitInit, From, Let
<1>4. Cardinality({}) = 0
  BY FS_EmptySet
<1>5. \A k \in Keys : Windows(k)
  BY <1>1, <1>3, <1>4 DEF Windows, Alive, LimitInit
<1>6. Table
  <2>1. \A j \in Keys : buckets[j] = NoBucket
    BY DEF LimitInit
  <2>2. {j \in Keys : buckets[j] # NoBucket} = {}
    BY <2>1
  <2>3. Size(buckets) = 0
    BY <1>4, <2>2 DEF Size
  <2>4. Size(buckets) <= Capacity
    BY <1>1, <2>3
  <2> QED BY <2>1, <2>4 DEF Table
<1>7. Stretches
  <2>1. 0 <= 2 * Maximum
    BY <1>1
  <2> QED BY <1>3, <1>4, <2>1 DEF Stretches
<1>8. Refusals
  BY DEF Refusals, LimitInit
<1> QED BY <1>2, <1>5, <1>6, <1>7, <1>8 DEF LimitInv

LEMMA LimitStep == LimitInv /\ [LimitNext]_limitVars => LimitInv'
<1> SUFFICES ASSUME LimitInv, [LimitNext]_limitVars PROVE LimitInv'
  OBVIOUS
<1>1. ASSUME NEW k \in Keys, RateLimit(k) PROVE LimitInv'
  <2>1. Asking(k)
    BY <1>1 DEF Asking
  <2> QED BY <2>1, TypedAfter, WindowsAfter, TableKept, StretchesKept, RefusalsKept DEF LimitInv
<1>2. ASSUME UNCHANGED <<buckets, nextCleanup, requests>>, clock' = clock \/ clock' = clock + 1 PROVE LimitInv'
  <2>0. LimitTyped /\ Table /\ Stretches /\ Refusals /\ WindowMs \in Nat \ {0} /\ Maximum \in Nat
    BY Sorts DEF LimitInv
  <2>1. LimitTyped'
    BY <1>2, <2>0, Sorts DEF LimitTyped
  <2>2. Table'
    BY <1>2, <2>0 DEF Table, Size
  <2>3. Stretches'
    BY <1>2, <2>0 DEF Stretches, Let
  <2>4. Refusals'
    <3>1. \A r : Others(r)' = Others(r) /\ Early(r)' = Early(r)
      BY <1>2 DEF Others, Early, Before, Within, Passed
    <3> QED BY <1>2, <2>0, <3>1 DEF Refusals
  <2>5. ASSUME NEW k \in Keys PROVE Windows(k)'
    <3>1. Windows(k) /\ buckets'[k] = buckets[k] /\ clock \in Nat /\ \A lo, hi : From(k, lo)' = From(k, lo) /\ Let(k, lo, hi)' = Let(k, lo, hi)
      BY <1>2 DEF LimitInv, LimitTyped, From, Let
    <3>2. \A r \in requests : r.at \in Int /\ r.at <= clock
      BY <2>0 DEF LimitTyped
    <3>3. CASE Alive(buckets[k])
      <4> DEFINE s == buckets[k].resetAt - WindowMs
      <4>1. buckets[k] \in Bucket
        BY <2>0, <3>3 DEF Alive, LimitTyped
      <4>2. buckets[k].resetAt \in Int /\ buckets[k].count \in Nat /\ buckets[k].resetAt > clock
        BY <3>3, <4>1 DEF Bucket, Alive
      <4>3. s <= clock /\ Cardinality(From(k, s)) = Lesser(buckets[k].count, Maximum) /\ Cardinality(Let(k, s - WindowMs + 1, s)) <= Maximum
        BY <3>1, <3>3 DEF Windows
      <4>4. CASE Alive(buckets[k])'
        BY <1>2, <2>0, <3>1, <4>2, <4>3, <4>4 DEF Windows
      <4>5. CASE ~Alive(buckets[k])'
        <5>1. ~(buckets[k].resetAt > clock') /\ clock' = clock + 1
          BY <1>2, <3>1, <3>3, <4>5 DEF Alive
        <5>2. From(k, clock' - WindowMs + 1) \in SUBSET From(k, s)
          <6>1. clock' - WindowMs + 1 >= s
            BY <2>0, <3>1, <4>2, <5>1
          <6>2. clock' - WindowMs + 1 \in Int /\ s \in Int
            BY <2>0, <3>1, <4>2, <5>1
          <6> HIDE DEF s
          <6> QED BY <3>2, <6>1, <6>2 DEF From
        <5>3. From(k, clock') = {}
          BY <3>1, <3>2, <5>1 DEF From
        <5>4. Cardinality(From(k, clock' - WindowMs + 1)) <= Cardinality(From(k, s))
          BY <2>0, <5>2, SetsFinite, FS_Subset
        <5>5. Cardinality(From(k, s)) <= Maximum /\ Cardinality(From(k, s)) \in Nat /\ Cardinality(From(k, clock' - WindowMs + 1)) \in Nat
          BY <2>0, <4>2, <4>3, SetsFinite DEF Lesser
        <5>6. Cardinality(From(k, clock' - WindowMs + 1)) <= Maximum
          BY <2>0, <5>4, <5>5
        <5>7. Cardinality(From(k, clock - WindowMs + 1)') <= Maximum /\ From(k, clock)' = {}
          BY <1>2, <5>3, <5>6 DEF From
        <5> QED BY <4>5, <5>7 DEF Windows
      <4> QED BY <4>4, <4>5
    <3>4. CASE ~Alive(buckets[k])
      <4>1. Cardinality(From(k, clock - WindowMs + 1)) <= Maximum /\ From(k, clock) = {}
        BY <3>1, <3>4 DEF Windows
      <4>2. ~Alive(buckets[k])'
        <5>1. CASE buckets[k] = NoBucket
          BY <3>1, <5>1 DEF Alive
        <5>2. CASE buckets[k] # NoBucket
          <6>1. buckets[k].resetAt \in Int
            BY <2>0, <5>2 DEF LimitTyped, Bucket
          <6> QED BY <1>2, <3>1, <3>4, <5>2, <6>1 DEF Alive
        <5> QED BY <5>1, <5>2
      <4>3. From(k, clock' - WindowMs + 1) \in SUBSET From(k, clock - WindowMs + 1) /\ From(k, clock') \in SUBSET From(k, clock)
        BY <1>2, <2>0, <3>1, <3>2 DEF From
      <4>4. Cardinality(From(k, clock' - WindowMs + 1)) <= Cardinality(From(k, clock - WindowMs + 1))
        BY <2>0, <4>3, SetsFinite, FS_Subset
      <4>5. Cardinality(From(k, clock' - WindowMs + 1)) \in Nat /\ Cardinality(From(k, clock - WindowMs + 1)) \in Nat
        BY <2>0, SetsFinite
      <4>6. Cardinality(From(k, clock' - WindowMs + 1)) <= Maximum /\ From(k, clock') = {}
        BY <2>0, <4>1, <4>3, <4>4, <4>5
      <4>7. Cardinality(From(k, clock - WindowMs + 1)') <= Maximum /\ From(k, clock)' = {}
        BY <1>2, <4>6 DEF From
      <4> QED BY <4>2, <4>7 DEF Windows
    <3> QED BY <3>3, <3>4
  <2> QED BY <2>1, <2>2, <2>3, <2>4, <2>5 DEF LimitInv
<1>3. LimitTyped
  BY DEF LimitInv
<1> QED BY <1>1, <1>2 DEF LimitNext, ClockTick, limitVars

(* The limiter keeps its word, whatever the callers, the window and the size  *)
(* of the table.                                                              *)
THEOREM LimiterHolds == LimitSpec => []ThrottleHolds
<1>1. LimitInv => ThrottleHolds
  <2> SUFFICES ASSUME LimitInv PROVE ThrottleHolds
    OBVIOUS
  <2>1. Size(buckets) <= Capacity
    BY DEF LimitInv, Table
  <2>2. \A q \in requests : Cardinality(Passed(Within(q.key, q.at, q.at + WindowMs))) <= 2 * Maximum
    <3> SUFFICES ASSUME NEW q \in requests
                 PROVE  Cardinality(Passed(Within(q.key, q.at, q.at + WindowMs))) <= 2 * Maximum
      OBVIOUS
    <3>1. Passed(Within(q.key, q.at, q.at + WindowMs)) = Let(q.key, q.at, q.at + WindowMs)
      BY DEF Passed, Within, Let
    <3>2. q.key \in Keys /\ q.at \in Int
      BY DEF LimitInv, LimitTyped
    <3> QED BY <3>1, <3>2 DEF LimitInv, Stretches
  <2>3. \A r : Others(r) = {q.key : q \in {q \in Before(r) : q.at > r.at - WindowMs - Cleanup}} \ {r.key}
    BY DEF Others
  <2>4. \A r : Early(r) = Passed(Within(r.key, r.at - WindowMs + 1, r.at + 1) \cap Before(r))
    BY DEF Early
  <2> QED BY <2>1, <2>2, <2>3, <2>4 DEF LimitInv, Refusals, ThrottleHolds
<1> QED BY <1>1, LimitBegins, LimitStep, PTL DEF LimitSpec

-----------------------------------------------------------------------------

(* Rounding, of what is divided by a number.                                  *)
LEMMA RoundIs ==
    ASSUME NEW a \in Int, NEW b \in Nat \ {0}
    PROVE  /\ Round(a, b) \in Int
           /\ (2 * b) * Round(a, b) <= 2 * a + b /\ 2 * a + b < (2 * b) * Round(a, b) + 2 * b
<1> DEFINE x == 2 * a + b
           e == 2 * b
<1>1. x \in Int /\ e \in Nat \ {0}
  OBVIOUS
<1> HIDE DEF x, e
<1>2. x \div e \in Int /\ e * (x \div e) <= x /\ x < e * (x \div e) + e
  BY <1>1, Quotient
<1> QED BY <1>2 DEF Round, x, e

(* The days of a month, and the first or last of two numbers.                 *)
LEMMA TwoNumbers ==
    ASSUME NEW a \in Int, NEW b \in Int
    PROVE  /\ Min({a, b}) \in {a, b} /\ Min({a, b}) <= a /\ Min({a, b}) <= b
           /\ Max({a, b}) \in {a, b} /\ a <= Max({a, b}) /\ b <= Max({a, b})
<1>1. {a, b} = {a} \cup {b} /\ IsFiniteSet({a})
  BY FS_Singleton
<1>2. IsFiniteSet({a} \cup {b})
  BY <1>1, FS_AddElement
<1>3. {a, b} \in SUBSET Int /\ {a, b} # {} /\ IsFiniteSet({a, b})
  BY <1>1, <1>2
<1> QED BY <1>3, MinIs, MaxIs

LEMMA DaysOfMonths ==
    ASSUME NEW m \in Int, NEW d \in Int
    PROVE  /\ MonthDays[MonthOfYear(m)] \in Int
           /\ Clamped(d, m) \in Int /\ Clamped(d, m) <= MonthDays[MonthOfYear(m)]
<1>1. Len(MonthDays) \in Nat \ {0} /\ \A i \in 1..Len(MonthDays) : MonthDays[i] \in Int
  BY PlansAssumption
<1>2. MonthOfYear(m) \in 1..Len(MonthDays)
  <2> DEFINE n == Len(MonthDays)
  <2>1. n \in Nat \ {0}
    BY <1>1
  <2> HIDE DEF n
  <2>2. (m - 1) % n \in 0..(n - 1)
    BY <2>1
  <2> QED BY <2>1, <2>2 DEF MonthOfYear, n
<1> QED BY <1>1, <1>2, TwoNumbers DEF Clamped

-----------------------------------------------------------------------------
(* What is there: payments numbered apart, expenses of payments or of none,   *)
(* subscriptions and goals with their sums, and a loan with a balance.        *)
Recurrent == [name : {p.name : p \in Payments}, amount : Int, every : {"monthly", "yearly"},
              month : Int, day : Int, detected : BOOLEAN]
PaymentsTyped ==
    /\ nextId \in Nat \ {0}
    /\ payments \in SUBSET [id : Nat \ {0}, of : Recurrent]
    /\ \A p \in payments : p.id < nextId
    /\ \A p, q \in payments : p.id = q.id => p = q
Repeated == [of : Nat, run : Nat, edited : BOOLEAN, name : {p.name : p \in Payments}, amount : Int, month : Int, day : Int, recurring : {TRUE}]
ExpensesTyped ==
    /\ expenses \in SUBSET Repeated
    /\ \A e \in expenses : e.day <= MonthDays[MonthOfYear(e.month)]
    /\ \A e, f \in Made : e.of = f.of /\ e.month = f.month /\ Key(e) = Key(f) => e = f
Subscribed == [id : Nat, name : {c.name : c \in Charges \cup Typed}, amount : Int, every : {"monthly", "yearly"},
               status : {"active", "inactive"}]
SubscriptionsTyped ==
    /\ IsFiniteSet(subscriptions)
    /\ subscriptions \in SUBSET Subscribed
Saved == [id : Nat, type : {g.type : g \in Goals}, target : Nat \ {0}, current : Nat]
GoalsTyped ==
    /\ IsFiniteSet(goals)
    /\ goals \in SUBSET Saved
    /\ loan \in [balance : Nat, status : {"active", "finished"}, kept : BOOLEAN]
JustGenerated ==
    last.did = "generated" =>
       /\ Missing(last.month) = {}
       /\ \A p \in Due(last.month) : \E e \in expenses : e.month = last.month /\ Key(e) = Key(p.of)
JustTyped ==
    last.did = "typed" =>
       last.text \in Sentences /\ last.amount = AmountOf(last.text) /\ last.category = Categorize(NameOf(last.text))
EditsCounted == edits \in Nat
PlansInv == EditsCounted /\ PaymentsTyped /\ ExpensesTyped /\ SubscriptionsTyped /\ GoalsTyped /\ JustGenerated /\ JustTyped

-----------------------------------------------------------------------------
(* The cost of a year is that of twelve months.                               *)
LEMMA YearlyCost == SubscriptionsTyped => 12 * MonthlyTotal - AnnualTotal \in -6..6
<1> SUFFICES ASSUME SubscriptionsTyped PROVE 12 * MonthlyTotal - AnnualTotal \in -6..6
  OBVIOUS
<1>1. ASSUME NEW S \in SUBSET subscriptions PROVE TotalOf(S) \in Int
  <2>1. IsFiniteSet(S) /\ Weights(AmountsOf(S), S)
    BY FS_Subset DEF SubscriptionsTyped, Subscribed, Weights, AmountsOf
  <2>2. SumAt(AmountsOf(S), S) \in Int
    BY <2>1, SumInt
  <2> QED BY <2>1, <2>2, TotalOfIs
<1> DEFINE a == TotalOf(Monthly)
           b == TotalOf(Yearly)
<1>2. a \in Int /\ b \in Int
  BY <1>1 DEF Monthly, Yearly, Active
<1>3. SumOf(Monthly, LAMBDA s : s.amount) = a /\ SumOf(Yearly, LAMBDA s : s.amount) = b
  BY DEF SumOf, TotalOf
<1>4. MonthlyTotal = Round(12 * a + b, 12) /\ AnnualTotal = 12 * a + b
  BY <1>3 DEF MonthlyTotal, AnnualTotal
<1> HIDE DEF a, b
<1> DEFINE x == 12 * a + b
           q == Round(x, 12)
<1>5. x \in Int
  BY <1>2
<1>6. q \in Int /\ 24 * q <= 2 * x + 12 /\ 2 * x + 12 < 24 * q + 24
  <2> HIDE DEF x
  <2>1. q \in Int /\ (2 * 12) * q <= 2 * x + 12 /\ 2 * x + 12 < (2 * 12) * q + 2 * 12
    BY <1>5, RoundIs
  <2> QED BY <1>5, <2>1
<1> HIDE DEF x, q
<1>7. 12 * q - x \in -6..6
  BY <1>5, <1>6
<1> QED BY <1>4, <1>7 DEF x, q

(* The last of the charges of a name, and the month after it.                 *)
LEMMA LastIs ==
    ASSUME NEW cs \in SUBSET Charges, cs # {}
    PROVE  LastCharge(cs) \in cs /\ LastCharge(cs).month = Max(MonthsOf(cs))
<1>1. IsFiniteSet(cs) /\ \A c \in cs : c.month \in Int /\ c.day \in Int
  BY FS_Subset, PlansAssumption
<1>2. IsFiniteSet(MonthsOf(cs)) /\ MonthsOf(cs) \in SUBSET Int /\ MonthsOf(cs) # {}
  <2> DEFINE f == [c \in cs |-> c.month]
  <2>1. MonthsOf(cs) = {f[c] : c \in cs}
    BY DEF MonthsOf
  <2>2. IsFiniteSet({f[c] : c \in cs})
    <3> HIDE DEF f
    <3> QED BY <1>1, ImageFinite
  <2> QED BY <1>1, <2>1, <2>2 DEF MonthsOf
<1> DEFINE m == Max(MonthsOf(cs))
           of == {c \in cs : c.month = m}
           days == {c.day : c \in of}
<1>3. m \in MonthsOf(cs) /\ \A c \in cs : c.month <= m
  <2>1. m \in MonthsOf(cs) /\ \A n \in MonthsOf(cs) : n <= m
    BY <1>2, MaxIs
  <2> QED BY <2>1 DEF MonthsOf
<1>4. of # {} /\ IsFiniteSet(of)
  BY <1>1, <1>3, FS_Subset DEF MonthsOf
<1>5. days # {} /\ days \in SUBSET Int /\ IsFiniteSet(days)
  <2> DEFINE f == [c \in of |-> c.day]
  <2>1. days = {f[c] : c \in of}
    OBVIOUS
  <2>2. IsFiniteSet({f[c] : c \in of})
    <3> HIDE DEF f, of
    <3> QED BY <1>4, ImageFinite
  <2>3. days # {} /\ days \in SUBSET Int
    BY <1>1, <1>4
  <2> QED BY <2>1, <2>2, <2>3
<1>6. Max(days) \in days /\ \A d \in days : d <= Max(days)
  <2> HIDE DEF days
  <2> QED BY <1>5, MaxIs
<1>7. PICK c \in of : c.day = Max(days)
  BY <1>6
<1>8. m \in Int
  BY <1>2, <1>3
<1> DEFINE latest(x) == \A d \in cs : <<d.month, d.day>> = <<x.month, x.day>> \/ d.month < x.month \/ (d.month = x.month /\ d.day <= x.day)
<1>9. c \in cs /\ latest(c)
  <2>1. c \in cs /\ c.month = m
    BY <1>7
  <2>2. ASSUME NEW d \in cs PROVE d.month < m \/ (d.month = m /\ d.day <= c.day)
    <3>1. CASE d.month = m
      BY <1>6, <1>7, <3>1
    <3>2. CASE d.month # m
      BY <1>1, <1>3, <1>8, <3>2
    <3> QED BY <3>1, <3>2
  <2> QED BY <2>1, <2>2
<1>10. LastCharge(cs) \in cs /\ latest(LastCharge(cs))
  BY <1>9 DEF LastCharge
<1>11. LastCharge(cs).month >= m
  <2>1. c \in cs /\ c.month = m
    BY <1>7
  <2> HIDE DEF m
  <2> QED BY <1>1, <1>8, <1>10, <2>1
<1>12. LastCharge(cs).month <= m /\ LastCharge(cs).month \in Int
  BY <1>1, <1>3, <1>10
<1> HIDE DEF m
<1>13. LastCharge(cs).month = m
  BY <1>8, <1>11, <1>12
<1> QED BY <1>10, <1>13 DEF m

LEMMA Suggested ==
    /\ \A s \in subscriptions : \A c \in Candidates :
          s.name # c.name /\ <<s.name, c.name>> \notin Alike /\ <<c.name, s.name>> \notin Alike
    /\ NextIsAMonthOn
<1>1. ASSUME NEW c \in Candidates, NEW s \in subscriptions
      PROVE  s.name # c.name /\ <<s.name, c.name>> \notin Alike /\ <<c.name, s.name>> \notin Alike
  <2>1. PICK n \in Recurring : ~Kept(n) /\ c = Suggestions[n]
    BY DEF Candidates
  <2>2. c.name = n
    BY <2>1 DEF Suggestions
  <2> QED BY <2>1, <2>2 DEF Kept
<1>2. ASSUME NEW n \in Recurring
      PROVE  /\ Suggestions[n].next.month = Max(MonthsOf(Of(n))) + 1
             /\ Suggestions[n].next.day <= MonthDays[MonthOfYear(Suggestions[n].next.month)]
  <2>1. PICK next : next = Suggestions[n].next
    OBVIOUS
  <2>2. next = NextMonthly(LastCharge(Of(n)))
    BY <2>1 DEF Suggestions
  <2>3. Of(n) \in SUBSET Charges /\ Of(n) # {}
    BY DEF Recurring, Of
  <2> DEFINE l == LastCharge(Of(n))
             m == l.month + 1
             d == l.day
  <2>4. l \in Charges /\ l.month = Max(MonthsOf(Of(n))) /\ l.month \in Int /\ l.day \in Int
    BY <2>3, LastIs, PlansAssumption
  <2>5. next.month = m /\ next.day = Clamped(d, m) /\ m \in Int /\ d \in Int
    BY <2>2, <2>4 DEF NextMonthly
  <2>6. m = Max(MonthsOf(Of(n))) + 1
    BY <2>4
  <2> HIDE DEF m, d
  <2>7. Clamped(d, m) <= MonthDays[MonthOfYear(m)]
    BY <2>5, DaysOfMonths
  <2> QED BY <2>1, <2>5, <2>6, <2>7
<1> QED BY <1>1, <1>2 DEF NextIsAMonthOn

(* How much of a goal is reached.                                             *)
LEMMA PercentIs ==
    ASSUME NEW c \in Nat, NEW t \in Nat \ {0}
    PROVE  Percent(c, t) \in 0..100 /\ (c >= t => Percent(c, t) = 100)
<1> DEFINE q == Round(100 * c, t)
           e == 2 * t
           x == 2 * (100 * c) + t
<1>1. e \in Nat \ {0} /\ x \in Nat /\ q = x \div e
  BY DEF Round
<1>2. c >= t => x >= 100 * e
  OBVIOUS
<1> HIDE DEF e, x
<1>3. x \div e \in Int /\ e * (x \div e) <= x /\ x < e * (x \div e) + e
  BY <1>1, Quotient
<1>4. q \in Int /\ x < e * q + e
  BY <1>1, <1>3
<1> HIDE DEF q
<1>5. ASSUME NEW k \in Nat, x >= e * k PROVE q >= k
  <2> SUFFICES ASSUME q < k PROVE FALSE
    BY <1>4
  <2>1. q + 1 <= k /\ q + 1 \in Int
    BY <1>4
  <2>2. e * (q + 1) <= e * k
    BY <1>1, <2>1, Scaled
  <2>3. e * (q + 1) = e * q + e /\ e * q \in Int /\ e * k \in Int
    BY <1>1, <1>4
  <2> QED BY <1>1, <1>4, <1>5, <2>2, <2>3
<1>6. q >= 0
  <2>1. x >= e * 0
    BY <1>1
  <2> QED BY <1>5, <2>1
<1>7. c >= t => q >= 100
  <2>1. e * 100 = 100 * e
    BY <1>1
  <2> QED BY <1>1, <1>2, <1>5, <2>1
<1>8. Percent(c, t) = Min({100, q})
  BY DEF Percent, q
<1>9. Min({100, q}) \in {100, q} /\ Min({100, q}) <= 100 /\ Min({100, q}) <= q
  BY <1>4, TwoNumbers
<1> QED BY <1>4, <1>6, <1>7, <1>8, <1>9

LEMMA NotNegative ==
    ASSUME NEW n \in Int
    PROVE  Floor0(n) = IF n > 0 THEN n ELSE 0
<1>1. Max({0, n}) \in {0, n} /\ 0 <= Max({0, n}) /\ n <= Max({0, n})
  BY TwoNumbers
<1> QED BY <1>1 DEF Floor0

(* What is set aside is what was typed, and the goals add up.                 *)
LEMMA SavedIs ==
    ASSUME \A g \in SetAside : GoalProgress(g).current = g.current
    PROVE  SavedTotal = SumOf({g \in goals : g.type # "debt_payoff"}, LAMBDA g : g.current)
<1> DEFINE of(x) == GoalProgress(x).current
           byProgress(S, g) == [s \in SUBSET S |-> IF s = {} THEN 0 ELSE g[s \ {Some(s)}] + of(Some(s))]
           byAmount(S, g) == [s \in SUBSET S |-> IF s = {} THEN 0 ELSE g[s \ {Some(s)}] + Some(s).current]
<1>1. PICK S : S = SetAside
  OBVIOUS
<1>2. \A s \in SUBSET S : s # {} => of(Some(s)) = Some(s).current
  <2>1. \A s \in SUBSET S : s # {} => Some(s) \in S
    BY DEF Some
  <2> QED BY <1>1, <2>1
<1>3. SavedTotal = (CHOOSE g : g = byProgress(S, g))[S]
  BY <1>1 DEF SavedTotal, SumOf, FoldSet, MapThenFoldSet, Some
<1>4. SumOf(S, LAMBDA g : g.current) = (CHOOSE g : g = byAmount(S, g))[S]
  BY DEF SumOf, FoldSet, MapThenFoldSet, Some
<1>5. S = {g \in goals : g.type # "debt_payoff"}
  BY <1>1 DEF SetAside
<1> HIDE DEF of
<1>6. ASSUME NEW g PROVE byProgress(S, g) = byAmount(S, g)
  BY <1>2
<1>7. (CHOOSE g : g = byProgress(S, g)) = (CHOOSE g : g = byAmount(S, g))
  <2> HIDE DEF byProgress, byAmount
  <2>1. \A g : g = byProgress(S, g) <=> g = byAmount(S, g)
    BY <1>6
  <2> QED BY <2>1
<1> QED BY <1>3, <1>4, <1>5, <1>7

Attained(p, goal) ==
    /\ p.current + p.remaining >= goal
    /\ p.current <= goal => (p.remaining <= goal => p.current + p.remaining = goal)
    /\ p.complete <=> p.remaining = 0
    /\ p.percent \in 0..100 /\ (p.complete => p.percent = 100)
LEMMA GoalsReach == GoalsTyped => GoalsAddUp
<1> SUFFICES ASSUME GoalsTyped PROVE GoalsAddUp
  OBVIOUS
<1>1. Owed \in Nat /\ loan.balance \in Nat /\ (loan.status = "finished" => Owed = 0)
  BY DEF GoalsTyped, Owed
<1>2. ASSUME NEW g \in goals
      PROVE  /\ Attained(GoalProgress(g), g.target)
             /\ g.type = "debt_payoff" /\ loan.kept /\ loan.status = "finished" => GoalProgress(g).complete
  <2>1. PICK t \in Nat \ {0}, c \in Nat : t = g.target /\ c = g.current
    BY DEF GoalsTyped, Saved
  <2>2. PICK p : p = GoalProgress(g)
    OBVIOUS
  <2>3. CASE g.type # "debt_payoff"
    <3> DEFINE n == Percent(c, t)
               r == Floor0(t - c)
               done == c >= t
    <3>1. p = [current |-> c, remaining |-> r, percent |-> n, complete |-> done]
      BY <2>1, <2>2, <2>3 DEF GoalProgress
    <3>2. r = IF t - c > 0 THEN t - c ELSE 0
      BY <2>1, NotNegative
    <3>3. Percent(c, t) \in 0..100 /\ (c >= t => Percent(c, t) = 100)
      BY PercentIs
    <3>4. n \in 0..100 /\ (done => n = 100) /\ (done <=> r = 0) /\ c + r >= t /\ (c <= t /\ r <= t => c + r = t)
      BY <3>2, <3>3
    <3> HIDE DEF n, r, done
    <3>5. p.current = c /\ p.remaining = r /\ p.percent = n /\ p.complete = done
      BY <3>1
    <3>6. Attained(p, t)
      BY <3>4, <3>5 DEF Attained
    <3> QED BY <2>1, <2>2, <2>3, <3>6
  <2>4. CASE g.type = "debt_payoff" /\ ~loan.kept
    <3>1. p = [current |-> 0, remaining |-> t, percent |-> 0, complete |-> FALSE]
      BY <2>1, <2>2, <2>4 DEF GoalProgress
    <3>2. Attained(p, t)
      BY <3>1 DEF Attained
    <3> QED BY <2>1, <2>2, <2>4, <3>2
  <2>5. CASE g.type = "debt_payoff" /\ loan.kept
    <3>0. PICK o \in Nat : o = Owed
      BY <1>1
    <3> DEFINE saved == Floor0(t - o)
               n == Percent(saved, t)
               done == o <= 0
    <3>1. p = [current |-> saved, remaining |-> o, percent |-> n, complete |-> done]
      BY <2>1, <2>2, <2>5, <3>0 DEF GoalProgress
    <3>2. saved = (IF t - o > 0 THEN t - o ELSE 0) /\ saved \in Nat
      BY <2>1, <3>0, NotNegative
    <3> HIDE DEF saved
    <3>3. Percent(saved, t) \in 0..100 /\ (saved >= t => Percent(saved, t) = 100)
      BY <3>2, PercentIs
    <3>4. /\ n \in 0..100 /\ (done => n = 100) /\ (done <=> o = 0) /\ saved + o >= t /\ (saved <= t /\ o <= t => saved + o = t)
          /\ loan.status = "finished" => done
      BY <1>1, <3>0, <3>2, <3>3
    <3> HIDE DEF n, done
    <3>5. p.current = saved /\ p.remaining = o /\ p.percent = n /\ p.complete = done
      BY <3>1
    <3>6. Attained(p, t) /\ (loan.status = "finished" => p.complete)
      BY <3>4, <3>5 DEF Attained
    <3> QED BY <2>1, <2>2, <2>5, <3>6
  <2> QED BY <2>3, <2>4, <2>5
<1>3. \A g \in SetAside : GoalProgress(g).current = g.current
  BY DEF SetAside, GoalProgress
<1>4. SavedTotal = SumOf({g \in goals : g.type # "debt_payoff"}, LAMBDA g : g.current)
  BY <1>3, SavedIs
<1> QED BY <1>2, <1>4 DEF GoalsAddUp, Attained

(* The amount read is no later than the first price and, where no other      *)
(* number has a currency word near, that price; and a rule of the household's *)
(* own comes before the others.                                               *)
LEMMA Typing ==
    ASSUME NEW s \in Sentences, NEW i \in Price(s)
    PROVE  /\ \E k \in Word(s, "number") : k <= i /\ AmountOf(s) = s[k].value
           /\ (\A k \in Word(s, "number") \ {i} : Far(s, k)) => AmountOf(s) = s[i].value
<1>1. DOMAIN s = 1..Len(s) /\ Len(s) \in Nat
  BY PlansAssumption
<1>2. \A j \in Word(s, "number") \cup Word(s, "currency") : s[j].from \in Nat /\ s[j].to \in Nat /\ s[j].from <= s[j].to
  BY PlansAssumption DEF Word
<1>3. \A j \in Word(s, "currency") : s[j].to - s[j].from <= 3
  BY PlansAssumption DEF Word
<1> DEFINE near == NearCurrency(s)
<1>4. i \in near
  <2>1. PICK j \in Word(s, "currency") : s[j].from - s[i].to \in 0..1
    BY DEF Price
  <2>2. i \in Word(s, "number")
    BY DEF Price
  <2>3. s[j].from >= s[i].from - 5 /\ s[j].to <= s[i].to + 7
    BY <1>2, <1>3, <2>1, <2>2
  <2> QED BY <2>2, <2>3 DEF NearCurrency
<1>5. near \in SUBSET Word(s, "number") /\ near \in SUBSET (1..Len(s)) /\ near # {}
  BY <1>1, <1>4 DEF NearCurrency, Word
<1>6. near \in SUBSET Int /\ IsFiniteSet(near)
  <2>1. IsFiniteSet(1..Len(s))
    BY <1>1, FS_Interval
  <2>2. near \in SUBSET Word(s, "number") /\ near \in SUBSET (1..Len(s))
    BY <1>5
  <2> HIDE DEF near
  <2>3. IsFiniteSet(near)
    BY <2>1, <2>2, FS_Subset
  <2> QED BY <1>1, <2>2, <2>3
<1>7. AmountOf(s) = s[Min(near)].value
  BY <1>5 DEF AmountOf
<1>8. \A k \in Word(s, "number") : Far(s, k) => k \notin near
  <2> SUFFICES ASSUME NEW k \in Word(s, "number"), Far(s, k), k \in near PROVE FALSE
    OBVIOUS
  <2>1. PICK j \in Word(s, "currency") : s[j].from >= s[k].from - 5 /\ s[j].to <= s[k].to + 7
    BY DEF NearCurrency
  <2>2. s[j].from - s[k].to > 7 \/ s[k].from - s[j].from > 5
    BY DEF Far
  <2> QED BY <1>2, <2>1, <2>2
<1> HIDE DEF near
<1>9. Min(near) \in near /\ Min(near) <= i
  BY <1>4, <1>5, <1>6, MinIs
<1>10. ASSUME \A k \in Word(s, "number") \ {i} : Far(s, k) PROVE Min(near) = i
  BY <1>5, <1>8, <1>9, <1>10
<1> QED BY <1>5, <1>7, <1>9, <1>10

LEMMA OwnFirst ==
    ASSUME NEW name, Ruled(OwnRules, name) # {}
    PROVE  Categorize(name) \in {OwnRules[i].category : i \in Ruled(OwnRules, name)}
<1> DEFINE all == OwnRules \o DefaultRules
           T == Range(OwnRules) \cup Range(DefaultRules)
<1>1. OwnRules \in Seq(T) /\ DefaultRules \in Seq(T)
  BY PlansAssumption
<1> HIDE DEF T
<1>2. /\ all \in Seq(T) /\ Len(all) \in Nat /\ DOMAIN all = 1..Len(all)
      /\ Len(OwnRules) \in Nat /\ DOMAIN OwnRules = 1..Len(OwnRules) /\ Len(OwnRules) <= Len(all)
      /\ \A i \in 1..Len(OwnRules) : all[i] = OwnRules[i]
  <2>1. /\ Len(OwnRules) \in Nat /\ DOMAIN OwnRules = 1..Len(OwnRules)
        /\ Len(DefaultRules) \in Nat
    BY <1>1
  <2>2. all \in Seq(T) /\ Len(all) = Len(OwnRules) + Len(DefaultRules)
    BY <1>1
  <2>3. \A i \in 1..Len(OwnRules) : all[i] = OwnRules[i]
    BY <1>1, <2>1
  <2> HIDE DEF all
  <2>4. DOMAIN all = 1..Len(all)
    BY <2>2
  <2>5. Len(all) \in Nat /\ Len(OwnRules) <= Len(all)
    BY <2>1, <2>2
  <2> QED BY <2>1, <2>2, <2>3, <2>4, <2>5
<1> HIDE DEF all
<1> DEFINE R == Ruled(all, name)
<1>3. Ruled(OwnRules, name) \in SUBSET R
  BY <1>2 DEF Ruled
<1>4. R \in SUBSET (1..Len(all)) /\ R \in SUBSET Int /\ R # {} /\ IsFiniteSet(R)
  <2>1. R \in SUBSET (1..Len(all))
    BY <1>2 DEF Ruled
  <2>2. IsFiniteSet(1..Len(all))
    BY <1>2, FS_Interval
  <2> HIDE DEF R
  <2>3. IsFiniteSet(R)
    BY <2>1, <2>2, FS_Subset
  <2>4. R # {} /\ R \in SUBSET Int
    BY <1>2, <1>3, <2>1
  <2> QED BY <2>1, <2>3, <2>4
<1>5. Min(R) \in R /\ \A y \in R : Min(R) <= y
  <2> HIDE DEF R
  <2> QED BY <1>4, MinIs
<1>6. PICK i \in Ruled(OwnRules, name) : Min(R) <= i
  BY <1>3, <1>5
<1>7. Min(R) \in 1..Len(OwnRules)
  <2>1. i \in 1..Len(OwnRules)
    BY <1>2 DEF Ruled
  <2>2. Min(R) \in 1..Len(all)
    BY <1>4, <1>5
  <2> HIDE DEF R
  <2> QED BY <1>2, <1>6, <2>1, <2>2
<1>8. Min(R) \in Ruled(OwnRules, name)
  BY <1>2, <1>5, <1>7 DEF Ruled
<1>9. Categorize(name) = OwnRules[Min(R)].category
  <2>1. Categorize(name) = all[Min(R)].category
    BY <1>4 DEF Categorize, CategoryByRules, all
  <2> QED BY <1>2, <1>7, <2>1
<1> HIDE DEF R
<1> QED BY <1>8, <1>9

(* What holds follows from what is kept.                                      *)
LEMMA PlansInvHolds == PlansInv => PlansHold
<1> SUFFICES ASSUME PlansInv PROVE PlansHold
  OBVIOUS
<1>1. GeneratedOnce
  BY DEF PlansInv, ExpensesTyped, JustGenerated, GeneratedOnce
<1>2. SubscriptionsAgree
  BY YearlyCost, Suggested DEF PlansInv, SubscriptionsAgree
<1>3. GoalsAddUp
  BY GoalsReach DEF PlansInv
<1>4. QuickAddReads
  BY Typing, OwnFirst DEF PlansInv, JustTyped, QuickAddReads
<1> QED BY <1>1, <1>2, <1>3, <1>4 DEF PlansHold

-----------------------------------------------------------------------------
LEMMA PlansStart == PlansInit => PlansInv
<1> SUFFICES ASSUME PlansInit PROVE PlansInv
  OBVIOUS
<1>1. EditsCounted /\ PaymentsTyped /\ ExpensesTyped /\ JustGenerated /\ JustTyped
  BY DEF PlansInit, EditsCounted, PaymentsTyped, ExpensesTyped, Made, JustGenerated, JustTyped, Quiet
<1>2. SubscriptionsTyped
  BY FS_EmptySet DEF PlansInit, SubscriptionsTyped
<1>3. GoalsTyped
  <2>1. PICK b \in LoanBalances : loan = [balance |-> b, status |-> "active", kept |-> TRUE]
    BY DEF PlansInit
  <2>2. b \in Nat
    BY PlansAssumption
  <2> QED BY <2>1, <2>2, FS_EmptySet DEF PlansInit, GoalsTyped
<1> QED BY <1>1, <1>2, <1>3 DEF PlansInv

LEMMA Quieted == last' = Quiet => JustGenerated' /\ JustTyped'
<1> SUFFICES ASSUME last' = Quiet PROVE JustGenerated' /\ JustTyped'
  OBVIOUS
<1>1. last'.did # "generated" /\ last'.did # "typed"
  BY DEF Quiet
<1> QED BY <1>1 DEF JustGenerated, JustTyped

LEMMA EditsRevised == EditsCounted /\ (Revised \/ UNCHANGED edits) => EditsCounted'
  BY DEF EditsCounted, Revised
LEMMA PaymentsKept == PaymentsTyped /\ UNCHANGED <<payments, nextId>> => PaymentsTyped'
  BY DEF PaymentsTyped
LEMMA PaymentsCounted == PaymentsTyped /\ UNCHANGED payments /\ Count => PaymentsTyped'
  BY DEF PaymentsTyped, Count
LEMMA ExpensesKept == ExpensesTyped /\ UNCHANGED expenses => ExpensesTyped'
  BY DEF ExpensesTyped, Made, Key
LEMMA SubscriptionsKept == SubscriptionsTyped /\ UNCHANGED subscriptions => SubscriptionsTyped'
  BY DEF SubscriptionsTyped
LEMMA GoalsKept == GoalsTyped /\ UNCHANGED <<goals, loan>> => GoalsTyped'
  BY DEF GoalsTyped

(* Payments that repeat: a month's run adds what the month lacks.             *)
LEMMA GenerateKeeps ==
    ASSUME EditsCounted, PaymentsTyped, ExpensesTyped, NEW m \in Months, Generate(m)
    PROVE  ExpensesTyped' /\ JustGenerated' /\ JustTyped'
<1> DEFINE line(p) == [of |-> p.id, run |-> edits, edited |-> FALSE, name |-> p.of.name, amount |-> p.of.amount, month |-> m,
                       day |-> Clamped(p.of.day, m), recurring |-> TRUE]
           added == {line(p) : p \in Missing(m)}
<1>1. m \in Int
  BY PlansAssumption
<1>2. ASSUME NEW p \in Due(m)
      PROVE  p \in payments /\ p.id \in Nat \ {0} /\ p.of \in Recurrent /\ p.of.name \in {q.name : q \in Payments}
               /\ p.of.amount \in Int /\ p.of.day \in Int
  BY DEF Due, PaymentsTyped, Recurrent
<1>3. ASSUME NEW p \in Missing(m)
      PROVE  line(p) \in Repeated /\ line(p).day <= MonthDays[MonthOfYear(m)] /\ Key(line(p)) = Key(p.of)
  <2>1. p \in Due(m)
    BY DEF Missing
  <2>2. Clamped(p.of.day, m) \in Int /\ Clamped(p.of.day, m) <= MonthDays[MonthOfYear(m)]
    BY <1>1, <1>2, <2>1, DaysOfMonths
  <2>3. p.id \in Nat /\ p.of.name \in {q.name : q \in Payments} /\ p.of.amount \in Int
    BY <1>2, <2>1
  <2>4. line(p) \in Repeated
    BY <1>1, <2>2, <2>3 DEF Repeated, EditsCounted
  <2>5. line(p).day = Clamped(p.of.day, m) /\ Key(line(p)) = Key(p.of)
    BY DEF Key
  <2> QED BY <2>2, <2>4, <2>5
<1>4. expenses' = expenses \cup added /\ UNCHANGED payments /\ last' = [did |-> "generated", month |-> m]
  BY DEF Generate
<1>5. ASSUME NEW e \in Made', NEW f \in Made', e.of = f.of, e.month = f.month, Key(e) = Key(f)
      PROVE  e = f
  <2>1. ASSUME NEW x \in expenses, NEW p \in Missing(m), x.month = m, Key(x) = Key(line(p)) PROVE FALSE
    <3>1. Key(x) \in ExistingKeys(m)
      BY <2>1 DEF ExistingKeys, ExpensesTyped, Repeated
    <3> QED BY <1>3, <2>1, <3>1 DEF Missing
  <2>2. CASE e \in expenses /\ f \in expenses
    BY <1>5, <2>2 DEF ExpensesTyped, Made
  <2>3. CASE e \in expenses /\ f \in added
    BY <1>5, <2>1, <2>3
  <2>4. CASE e \in added /\ f \in expenses
    BY <1>5, <2>1, <2>4
  <2>5. CASE e \in added /\ f \in added
    <3>1. PICK p \in Missing(m), q \in Missing(m) : e = line(p) /\ f = line(q)
      BY <2>5
    <3>2. p.id = q.id /\ p \in payments /\ q \in payments
      BY <1>5, <3>1 DEF Missing, Due
    <3>3. p = q
      BY <3>2 DEF PaymentsTyped
    <3> QED BY <3>1, <3>3
  <2> QED BY <1>4, <1>5, <2>2, <2>3, <2>4, <2>5 DEF Made
<1>6. expenses' \in SUBSET Repeated /\ \A e \in expenses' : e.day <= MonthDays[MonthOfYear(e.month)]
  <2>1. \A e \in added : e \in Repeated /\ e.day <= MonthDays[MonthOfYear(e.month)]
    BY <1>3
  <2> HIDE DEF added
  <2> QED BY <1>4, <2>1 DEF ExpensesTyped
<1>7. ExpensesTyped'
  BY <1>5, <1>6 DEF ExpensesTyped, Made, Key
<1>8. \A p \in Due(m) : \E e \in expenses' : e.recurring /\ e.month = m /\ Key(e) = Key(p.of)
  <2> SUFFICES ASSUME NEW p \in Due(m) PROVE \E e \in expenses' : e.recurring /\ e.month = m /\ Key(e) = Key(p.of)
    OBVIOUS
  <2>1. CASE p \in Missing(m)
    <3>1. line(p) \in expenses' /\ line(p).recurring /\ line(p).month = m /\ Key(line(p)) = Key(p.of)
      BY <1>3, <1>4, <2>1
    <3> QED BY <3>1
  <2>2. CASE p \notin Missing(m)
    BY <1>4, <2>2 DEF Missing, ExistingKeys
  <2> QED BY <2>1, <2>2
<1>9. last'.did = "generated" /\ last'.month = m
  BY <1>4
<1>10. Due(m)' = Due(m)
  BY <1>4 DEF Due
<1>11. Missing(m)' = {}
  BY <1>8, <1>10 DEF Missing, ExistingKeys, Key
<1>12. JustGenerated'
  BY <1>8, <1>9, <1>10, <1>11 DEF JustGenerated, Key, Missing, Due, ExistingKeys
<1> QED BY <1>7, <1>9, <1>12 DEF JustTyped

LEMMA RepeatKeeps == PlansInv /\ RepeatNext => PlansInv'
<1> SUFFICES ASSUME PlansInv, RepeatNext PROVE PlansInv'
  OBVIOUS
<1> USE DEF PlansInv
<1>1. ASSUME NEW p \in Payments, Create(p) PROVE PlansInv'
  <2>1. PaymentsTyped'
    <3>1. p \in Recurrent
      BY PlansAssumption DEF Recurrent
    <3>2. payments' = payments \cup {[id |-> nextId, of |-> p]} /\ nextId' = nextId + 1
      BY <1>1 DEF Create, Count
    <3> HIDE DEF PlansInv
    <3>3. PaymentsTyped
      BY DEF PlansInv
    <3> QED BY <3>1, <3>2, <3>3 DEF PaymentsTyped
  <2> QED BY <1>1, <2>1, EditsRevised, ExpensesKept, SubscriptionsKept, GoalsKept, Quieted DEF Create
<1>2. ASSUME NEW p \in payments, Remove(p) PROVE PlansInv'
  <2>1. PaymentsTyped'
    BY <1>2 DEF PaymentsTyped, Remove
  <2> QED BY <1>2, <2>1, EditsRevised, ExpensesKept, SubscriptionsKept, GoalsKept, Quieted DEF Remove
<1>3. ASSUME NEW p \in payments, NEW by \in Raises, Update(p, by) PROVE PlansInv'
  <2>1. PaymentsTyped'
    <3>1. by \in Int
      BY PlansAssumption
    <3>2. p.id \in Nat \ {0} /\ p.of \in Recurrent /\ p \in [id : Nat \ {0}, of : Recurrent]
      BY DEF PaymentsTyped
    <3> DEFINE q == [p EXCEPT !.of.amount = @ + by]
    <3>3. q \in [id : Nat \ {0}, of : Recurrent] /\ q.id = p.id
      BY <3>1, <3>2 DEF Recurrent
    <3>4. payments' = (payments \ {p}) \cup {q} /\ nextId' = nextId
      BY <1>3 DEF Update
    <3> HIDE DEF q
    <3> QED BY <3>3, <3>4 DEF PaymentsTyped
  <2> QED BY <1>3, <2>1, EditsRevised, ExpensesKept, SubscriptionsKept, GoalsKept, Quieted DEF Update
<1>4. ASSUME NEW m \in Months, Generate(m) PROVE PlansInv'
  <2>1. ExpensesTyped' /\ JustGenerated' /\ JustTyped'
    BY <1>4, GenerateKeeps
  <2> QED BY <1>4, <2>1, EditsRevised, PaymentsKept, SubscriptionsKept, GoalsKept DEF Generate
<1>5. ASSUME NEW e \in expenses, EditExpense(e) PROVE PlansInv'
  <2>1. ExpensesTyped'
    <3> DEFINE f == [e EXCEPT !.edited = TRUE, !.amount = @ + 1]
    <3>1. e \in Repeated /\ e.day <= MonthDays[MonthOfYear(e.month)]
      BY DEF ExpensesTyped
    <3> DEFINE n == e.amount + 1
    <3>2. f = [e EXCEPT !.edited = TRUE, !.amount = n] /\ n \in Int
      BY <3>1 DEF Repeated
    <3> HIDE DEF n, f
    <3>3. f \in Repeated /\ f.edited /\ f.month = e.month /\ f.day = e.day
      BY <3>1, <3>2 DEF Repeated
    <3>4. expenses' = expenses \ {e} \/ expenses' = (expenses \ {e}) \cup {f}
      BY <1>5 DEF EditExpense, f
    <3>5. expenses' \in SUBSET Repeated /\ \A x \in expenses' : x.day <= MonthDays[MonthOfYear(x.month)]
      BY <3>1, <3>3, <3>4 DEF ExpensesTyped
    <3>6. Made' \subseteq Made
      BY <3>3, <3>4 DEF Made
    <3> HIDE DEF PlansInv
    <3>7. ExpensesTyped
      BY DEF PlansInv
    <3> QED BY <3>5, <3>6, <3>7 DEF ExpensesTyped, Made, Key
  <2> QED BY <1>5, <2>1, EditsRevised, PaymentsKept, SubscriptionsKept, GoalsKept, Quieted DEF EditExpense
<1> QED BY <1>1, <1>2, <1>3, <1>4, <1>5 DEF RepeatNext

(* Subscriptions, and what is typed in a hurry.                               *)
LEMMA SuggestedAmount == \A c \in Candidates : c.amount \in Int /\ c.name \in {d.name : d \in Charges}
<1> SUFFICES ASSUME NEW c \in Candidates PROVE c.amount \in Int /\ c.name \in {d.name : d \in Charges}
  OBVIOUS
<1>1. PICK n \in Recurring : c = Suggestions[n]
  BY DEF Candidates
<1>2. n \in {d.name : d \in Charges} /\ c.name = n /\ c.amount = Average(Of(n))
  BY <1>1 DEF Suggestions, Recurring
<1> DEFINE S == Of(n)
<1>3. S \in SUBSET Charges /\ S # {}
  BY <1>2 DEF Of
<1>4. Average(S) = Round(TotalOf(S), Cardinality(S))
  BY DEF Average, SumOf, TotalOf
<1> HIDE DEF S
<1>5. IsFiniteSet(S) /\ Weights(AmountsOf(S), S)
  BY <1>3, PlansAssumption, FS_Subset DEF Weights, AmountsOf
<1>6. SumAt(AmountsOf(S), S) \in Int
  BY <1>5, SumInt
<1>7. TotalOf(S) \in Int
  BY <1>5, <1>6, TotalOfIs
<1>8. Cardinality(S) \in Nat \ {0}
  BY <1>3, <1>5, FS_CardinalityType, FS_EmptySet
<1>9. Round(TotalOf(S), Cardinality(S)) \in Int
  BY <1>7, <1>8, RoundIs
<1> QED BY <1>2, <1>4, <1>9 DEF S

LEMMA KeepKeeps == PlansInv /\ KeepNext => PlansInv'
<1> SUFFICES ASSUME PlansInv, KeepNext PROVE PlansInv'
  OBVIOUS
<1>0. EditsCounted /\ PaymentsTyped /\ ExpensesTyped /\ SubscriptionsTyped /\ GoalsTyped
  BY DEF PlansInv
<1>1. ASSUME NEW c \in Candidates \cup Typed, NEW every \in {"monthly", "yearly"}, Subscribe(c, every) PROVE PlansInv'
  <2>1. c.amount \in Int /\ c.name \in {d.name : d \in Charges \cup Typed}
    BY SuggestedAmount, PlansAssumption
  <2> DEFINE s == [id |-> nextId, name |-> c.name, amount |-> c.amount, every |-> every, status |-> "active"]
  <2>2. s \in Subscribed
    BY <1>0, <2>1 DEF Subscribed, PaymentsTyped
  <2>3. subscriptions' = subscriptions \cup {s}
    BY <1>1 DEF Subscribe
  <2> HIDE DEF s
  <2>4. SubscriptionsTyped'
    BY <1>0, <2>2, <2>3, FS_AddElement DEF SubscriptionsTyped
  <2> QED BY <1>0, <1>1, <2>4, EditsRevised, PaymentsCounted, ExpensesKept, GoalsKept, Quieted DEF PlansInv, Subscribe
<1>2. ASSUME NEW s \in subscriptions, Suspend(s) PROVE PlansInv'
  <2> DEFINE r == [s EXCEPT !.status = IF @ = "active" THEN "inactive" ELSE "active"]
  <2>1. r \in Subscribed
    BY <1>0 DEF SubscriptionsTyped, Subscribed
  <2>2. subscriptions' = (subscriptions \ {s}) \cup {r}
    BY <1>2 DEF Suspend
  <2> HIDE DEF r
  <2>3. SubscriptionsTyped'
    BY <1>0, <2>1, <2>2, FS_AddElement, FS_RemoveElement DEF SubscriptionsTyped
  <2> QED BY <1>0, <1>2, <2>3, EditsRevised, PaymentsKept, ExpensesKept, GoalsKept, Quieted DEF PlansInv, Suspend
<1>3. ASSUME NEW s \in subscriptions, Unsubscribe(s) PROVE PlansInv'
  <2>1. SubscriptionsTyped'
    BY <1>0, <1>3, FS_RemoveElement DEF SubscriptionsTyped, Unsubscribe
  <2> QED BY <1>0, <1>3, <2>1, EditsRevised, PaymentsKept, ExpensesKept, GoalsKept, Quieted DEF PlansInv, Unsubscribe
<1>4. ASSUME NEW s \in Sentences, QuickAdd(s) PROVE PlansInv'
  <2>1. last' = [did |-> "typed", text |-> s, amount |-> AmountOf(s), back |-> DaysBack(s), category |-> Categorize(NameOf(s))]
    BY <1>4 DEF QuickAdd
  <2>2. last'.did = "typed" /\ last'.text = s /\ last'.amount = AmountOf(s) /\ last'.category = Categorize(NameOf(s))
    BY <2>1
  <2>3. JustGenerated' /\ JustTyped'
    BY <2>2 DEF JustGenerated, JustTyped
  <2> QED BY <1>0, <1>4, <2>3, EditsRevised, PaymentsKept, ExpensesKept, SubscriptionsKept, GoalsKept DEF PlansInv, QuickAdd
<1> QED BY <1>1, <1>2, <1>3, <1>4 DEF KeepNext

(* Goals and the loan they may pay off.                                       *)
LEMMA SaveKeeps == PlansInv /\ SaveNext => PlansInv'
<1> SUFFICES ASSUME PlansInv, SaveNext PROVE PlansInv'
  OBVIOUS
<1>0. EditsCounted /\ PaymentsTyped /\ ExpensesTyped /\ SubscriptionsTyped /\ GoalsTyped
  BY DEF PlansInv
<1>1. ASSUME NEW g \in Goals, CreateGoal(g) PROVE PlansInv'
  <2>1. Goal(g) \in Saved
    <3>1. nextId \in Nat /\ loan.balance \in Nat
      BY <1>0 DEF PaymentsTyped, GoalsTyped
    <3>2. CASE g.type = "debt_payoff"
      <4>1. loan.balance \in Nat \ {0}
        BY <1>1, <3>1, <3>2 DEF CreateGoal
      <4> QED BY <3>1, <3>2, <4>1 DEF Goal, Saved
    <3>3. CASE g.type # "debt_payoff"
      <4>1. g.target \in Nat \ {0} /\ g.current \in Nat
        BY <3>3, PlansAssumption
      <4> QED BY <3>1, <3>3, <4>1 DEF Goal, Saved
    <3> QED BY <3>2, <3>3
  <2>2. goals' = goals \cup {Goal(g)} /\ UNCHANGED loan
    BY <1>1 DEF CreateGoal
  <2>3. GoalsTyped'
    BY <1>0, <2>1, <2>2, FS_AddElement DEF GoalsTyped
  <2> QED BY <1>0, <1>1, <2>3, EditsRevised, PaymentsCounted, ExpensesKept, SubscriptionsKept, Quieted DEF PlansInv, CreateGoal
<1>2. ASSUME NEW g \in goals, RemoveGoal(g) PROVE PlansInv'
  <2>1. GoalsTyped'
    BY <1>0, <1>2, FS_RemoveElement DEF GoalsTyped, RemoveGoal
  <2> QED BY <1>0, <1>2, <2>1, EditsRevised, PaymentsKept, ExpensesKept, SubscriptionsKept, Quieted DEF PlansInv, RemoveGoal
<1>3. ASSUME NEW g \in goals, NEW d \in Deposits, Deposit(g, d) PROVE PlansInv'
  <2>1. g \in Saved /\ g.current \in Int /\ d \in Int
    BY <1>0, PlansAssumption DEF GoalsTyped, Saved
  <2> DEFINE n == Floor0(g.current + d)
             h == [g EXCEPT !.current = n]
  <2>2. n \in Nat
    <3>1. g.current + d \in Int
      BY <2>1
    <3> QED BY <3>1, NotNegative
  <2>3. goals' = (goals \ {g}) \cup {h} /\ UNCHANGED loan
    BY <1>3 DEF Deposit
  <2> HIDE DEF n
  <2>4. h \in Saved
    BY <2>1, <2>2 DEF Saved
  <2> HIDE DEF h
  <2>5. GoalsTyped'
    BY <1>0, <2>3, <2>4, FS_AddElement, FS_RemoveElement DEF GoalsTyped
  <2> QED BY <1>0, <1>3, <2>5, EditsRevised, PaymentsKept, ExpensesKept, SubscriptionsKept, Quieted DEF PlansInv, Deposit
<1>4. ASSUME NEW g \in goals, NEW with \in Goals, EditGoal(g, with) PROVE PlansInv'
  <2> DEFINE h == [g EXCEPT !.target = with.target, !.current = with.current]
  <2>1. g \in Saved /\ with.target \in Nat \ {0} /\ with.current \in Nat
    BY <1>0, <1>4, PlansAssumption DEF GoalsTyped, EditGoal
  <2>2. h \in Saved
    BY <2>1 DEF Saved
  <2>3. goals' = (goals \ {g}) \cup {h} /\ UNCHANGED loan
    BY <1>4 DEF EditGoal
  <2> HIDE DEF h
  <2>4. GoalsTyped'
    BY <1>0, <2>2, <2>3, FS_AddElement, FS_RemoveElement DEF GoalsTyped
  <2> QED BY <1>0, <1>4, <2>4, EditsRevised, PaymentsKept, ExpensesKept, SubscriptionsKept, Quieted DEF PlansInv, EditGoal
<1>5. ASSUME LoanMoves PROVE PlansInv'
  <2>1. GoalsTyped'
    <3>1. loan \in [balance : Nat, status : {"active", "finished"}, kept : BOOLEAN] /\ LoanBalances \subseteq Nat
      BY <1>0, PlansAssumption DEF GoalsTyped
    <3>2. loan' \in [balance : Nat, status : {"active", "finished"}, kept : BOOLEAN]
      <4>1. CASE EditLoan
        <5>1. PICK b \in LoanBalances, s \in {"active", "finished"} : loan' = [loan EXCEPT !.balance = b, !.status = s]
          BY <4>1 DEF EditLoan
        <5>2. b \in Nat
          BY <3>1
        <5> QED BY <3>1, <5>1, <5>2
      <4>2. CASE CloseLoan
        BY <3>1, <4>2 DEF CloseLoan
      <4>3. CASE RemoveLoan
        BY <3>1, <4>3 DEF RemoveLoan
      <4> QED BY <1>5, <4>1, <4>2, <4>3 DEF LoanMoves
    <3> QED BY <1>0, <1>5, <3>2 DEF GoalsTyped, LoanMoves
  <2> QED BY <1>0, <1>5, <2>1, EditsRevised, PaymentsKept, ExpensesKept, SubscriptionsKept, Quieted DEF PlansInv, LoanMoves
<1> QED BY <1>1, <1>2, <1>3, <1>4, <1>5 DEF SaveNext

LEMMA PlansIdle == PlansInv /\ UNCHANGED planVars => PlansInv'
<1> SUFFICES ASSUME PlansInv, UNCHANGED planVars PROVE PlansInv'
  OBVIOUS
<1>0. EditsCounted /\ PaymentsTyped /\ ExpensesTyped /\ SubscriptionsTyped /\ GoalsTyped /\ JustGenerated /\ JustTyped
  BY DEF PlansInv
<1>1. UNCHANGED <<payments, expenses, nextId, subscriptions, goals, loan, edits, last>>
  BY DEF planVars
<1>2. EditsCounted' /\ PaymentsTyped' /\ ExpensesTyped' /\ SubscriptionsTyped' /\ GoalsTyped'
  BY <1>0, <1>1, EditsRevised, PaymentsKept, ExpensesKept, SubscriptionsKept, GoalsKept
<1>3. JustGenerated'
  BY <1>0, <1>1 DEF JustGenerated, Missing, Due, ExistingKeys, Key
<1>4. JustTyped'
  BY <1>0, <1>1 DEF JustTyped
<1> QED BY <1>2, <1>3, <1>4 DEF PlansInv

(* Plans are kept: a payment has one expense of its name and amount in a     *)
(* month at most, and a month run again adds none; the cost of a year is     *)
(* that of twelve months and nothing that is kept is suggested; what is done *)
(* of a goal and what is left make its target; the amount recorded is none   *)
(* typed behind the first price, and that price where no other number has a  *)
(* currency word near; and the household's own rule decides before the       *)
(* others.                                                                   *)
THEOREM PlansAreKept == PlansSpec => []PlansHold
<1>1. PlansInit => PlansInv
  BY PlansStart
<1>2. PlansInv /\ [PlansNext]_planVars => PlansInv'
  BY RepeatKeeps, KeepKeeps, SaveKeeps, PlansIdle DEF PlansNext
<1>3. PlansInv => PlansHold
  BY PlansInvHolds
<1> QED BY <1>1, <1>2, <1>3, PTL DEF PlansSpec

-----------------------------------------------------------------------------
(* The pages of the site.                                                    *)
PageNames ==
    {"Loan", "Report", "Card", "Funding", "Document", "Connection", "Import", "Customer", "Alert", "Settings", "Agenda",
     "CheckIn", "Setup", "Schedule", "Double", "Expense", "Income", "Account", "Movement", "Reconcile", "Subscription",
     "Recurring", "Budget", "Saving", "Asset", "Category", "Method", "Family"}

(* What the ways to start an operation leave as it is.                        *)
HasFields(o) == {"call", "by", "guard", "reloads", "patches", "hopeful", "doubtful"} \subseteq DOMAIN o
LEMMA OperationsHaveFields ==
    /\ \A c : HasFields(Press(c))
    /\ \A c : HasFields(Form(c)) /\ HasFields(Confirm(c))
    /\ \A o, g : HasFields(o) => HasFields(Guarded(o, g)) /\ HasFields(Patching(o)) /\ HasFields(Unread(o)) /\ HasFields(Hopeful(o))
    /\ \A o : HasFields(o) => HasFields(Doubtful(o)) /\ Doubtful(o).doubtful
<1>1. \A c : HasFields(Press(c))
  BY DEF HasFields, Press
<1>2. \A o, g : HasFields(o) => HasFields(Guarded(o, g)) /\ HasFields(Patching(o)) /\ HasFields(Unread(o)) /\ HasFields(Hopeful(o))
  BY DEF HasFields, Guarded, Patching, Unread, Hopeful
<1>3. \A o : HasFields(o) => HasFields(Doubtful(o)) /\ Doubtful(o).doubtful
  BY DEF HasFields, Doubtful
<1>4. \A c : HasFields(Form(c)) /\ HasFields(Confirm(c))
  BY <1>1 DEF HasFields, Form, Confirm
<1> QED BY <1>1, <1>2, <1>3, <1>4

(* What a form or a button makes of a row: there is always an outcome.        *)
LEMMA FormsMakeRows ==
    ASSUME NEW fields, NEW saw, NEW stored
    PROVE  Sent(fields, saw, stored) # {} /\ (stored # Gone => Edited(fields, saw, stored) # {})
BY DEF Sent, Edited
LEMMA RowsAreMade ==
    /\ \A fields, saw, stored : Sent(fields, saw, stored) # {}
    /\ \A fields, saw, stored : stored # Gone => \E becomes : becomes \in Edited(fields, saw, stored)
    /\ \A stored, rows : rows # {} => Created(stored, rows) # {}
    /\ \A stored : stored # Gone => Removed(stored) # {}
<1>1. \A fields, saw, stored : stored # Gone => \E becomes : becomes \in Edited(fields, saw, stored)
  <2> SUFFICES ASSUME NEW fields, NEW saw, NEW stored, stored # Gone PROVE \E becomes : becomes \in Edited(fields, saw, stored)
    OBVIOUS
  <2>1. Edited(fields, saw, stored) # {}
    BY FormsMakeRows
  <2> QED BY <2>1
<1> QED BY <1>1, FormsMakeRows DEF Created, Removed

(* What a page offers for a row as it stands, the server takes; but for what  *)
(* is offered not knowing (and what other pages do).                          *)
Met(p, op, row) == DoesOn(p, op, row, row) # {} \/ OpsOf(p)[op].doubtful \/ OpsOf(p)[op].by = "elsewhere"
LEMMA OffersMet ==
    ASSUME NEW p \in PageNames, p # "Customer", NEW row, NEW op \in OfferedOn(p, row)
    PROVE  Met(p, op, row)
<1>1. CASE p = "Loan"
  <2>1. op \in LoanOffers(row)
    BY <1>1 DEF OfferedOn
  <2>2. [status : {"active"}, source : {"manual"}, opening : {"contract"}] # {}
    <3>1. [status |-> "active", source |-> "manual", opening |-> "contract"] \in [status : {"active"}, source : {"manual"}, opening : {"contract"}]
      OBVIOUS
    <3> QED BY <3>1
  <2>3. CASE op = "edit"
    <3>1. PICK becomes : becomes \in Edited(LoanForm, row, row)
      BY <2>1, <2>3, RowsAreMade DEF LoanOffers
    <3>2. [becomes EXCEPT !.opening = "contract"] \in LoanDoes(op, row, row)
      BY <2>3, <3>1 DEF LoanDoes
    <3> QED BY <1>1, <3>2 DEF Met, DoesOn
  <2>4. CASE op # "edit"
    <3>1. LoanDoes(op, row, row) # {}
      BY <2>1, <2>2, <2>4, RowsAreMade DEF LoanOffers, LoanDoes
    <3> QED BY <1>1, <3>1 DEF Met, DoesOn
  <2> QED BY <2>3, <2>4
<1>2. CASE p = "Report"
  <2>1. op \in ReportOffers(row)
    BY <1>2 DEF OfferedOn
  <2>2. ReportDoes(op, row, row) # {}
    BY <2>1, RowsAreMade DEF ReportOffers, ReportDoes
  <2> QED BY <1>2, <2>2 DEF Met, DoesOn, OpsOf
<1>3. CASE p = "Card"
  <2>1. op \in CardOffers(row)
    BY <1>3 DEF OfferedOn
  <2>2. [billingDay : CardForm.billingDay, rows : {"none"}] # {}
    <3>1. [billingDay |-> 1, rows |-> "none"] \in [billingDay : CardForm.billingDay, rows : {"none"}]
      BY DEF CardForm
    <3> QED BY <3>1
  <2>3. CardDoes(op, row, row) # {}
    BY <2>1, <2>2, RowsAreMade DEF CardOffers, CardDoes
  <2> QED BY <1>3, <2>3 DEF Met, DoesOn, OpsOf
<1>4. CASE p = "Funding"
  <2>1. op \in FundingOffers(row)
    BY <1>4 DEF OfferedOn
  <2>2. FundingDoes(op, row, row) # {}
    BY <2>1, RowsAreMade DEF FundingOffers, FundingDoes
  <2> QED BY <1>4, <2>2 DEF Met, DoesOn, OpsOf
<1>5. CASE p = "Document"
  <2>1. op \in DocumentOffers(row)
    BY <1>5 DEF OfferedOn
  <2>2. op \in {"remove", "rollback"} => DocumentOps[op].doubtful
    BY OperationsHaveFields DEF DocumentOps
  <2>3. op \notin {"remove", "rollback"} => DocumentDoes(op, row, row) # {}
    BY <2>1, RowsAreMade DEF DocumentOffers, DocumentDoes
  <2> QED BY <1>5, <2>2, <2>3 DEF Met, DoesOn, OpsOf
<1>6. CASE p = "Connection"
  <2>1. op \in ConnectionOffers(row)
    BY <1>6 DEF OfferedOn
  <2>2. [sync : {"none"}, verified : {FALSE}] # {}
    <3>1. [sync |-> "none", verified |-> FALSE] \in [sync : {"none"}, verified : {FALSE}]
      OBVIOUS
    <3> QED BY <3>1
  <2>3. ConnectionDoes(op, row, row) # {}
    BY <2>1, <2>2, RowsAreMade DEF ConnectionOffers, ConnectionDoes, IsActive
  <2> QED BY <1>6, <2>3 DEF Met, DoesOn, OpsOf
<1>7. CASE p = "Import"
  <2>1. op \in ImportOffers(row)
    BY <1>7 DEF OfferedOn
  <2>2. op \in {"save", "commit", "complete"} => ImportOps[op].doubtful
    BY OperationsHaveFields DEF ImportOps
  <2>3. op \notin {"save", "commit", "complete"} => ImportDoes(op, row, row) # {}
    BY <2>1, RowsAreMade DEF ImportOffers, ImportDoes, Editable
  <2> QED BY <1>7, <2>2, <2>3 DEF Met, DoesOn, OpsOf
<1>8. CASE p = "Alert"
  <2>1. op \in AlertOffers(row)
    BY <1>8 DEF OfferedOn
  <2>2. op \in {"scan"} => AlertOps[op].by = "elsewhere"
    BY DEF AlertOps, Press, Form, Confirm, Guarded, Patching, Unread, Doubtful, Elsewhere
  <2>3. op \notin {"scan"} => AlertDoes(op, row, row) # {}
    BY <2>1, RowsAreMade DEF AlertOffers, AlertDoes
  <2> QED BY <1>8, <2>2, <2>3 DEF Met, DoesOn, OpsOf
<1>9. CASE p = "Settings"
  <2>1. op \in SettingsOffers(row)
    BY <1>9 DEF OfferedOn
  <2>2. SettingsDoes(op, row, row) # {}
    BY <2>1, RowsAreMade DEF SettingsOffers, SettingsDoes
  <2> QED BY <1>9, <2>2 DEF Met, DoesOn, OpsOf
<1>10. CASE p = "Agenda"
  <2>1. op \in AgendaOffers(row)
    BY <1>10 DEF OfferedOn
  <2>2. op \in {"fold"} => AgendaOps[op].doubtful
    BY OperationsHaveFields DEF AgendaOps
  <2>3. op \in {"moves"} => AgendaOps[op].by = "elsewhere"
    BY DEF AgendaOps, Press, Form, Confirm, Guarded, Patching, Unread, Doubtful, Elsewhere
  <2>4. op \notin {"fold", "moves"} => AgendaDoes(op, row, row) # {}
    BY <2>1, RowsAreMade DEF AgendaOffers, AgendaDoes
  <2> QED BY <1>10, <2>2, <2>3, <2>4 DEF Met, DoesOn, OpsOf
<1>11. CASE p = "CheckIn"
  <2>1. op \in CheckInOffers(row)
    BY <1>11 DEF OfferedOn
  <2>2. op \in {"toAction"} => CheckInOps[op].doubtful
    BY OperationsHaveFields DEF CheckInOps
  <2>3. op \in {"changes"} => CheckInOps[op].by = "elsewhere"
    BY DEF CheckInOps, Press, Form, Confirm, Guarded, Patching, Unread, Doubtful, Elsewhere
  <2>4. op = "start" => CheckInDoes(op, row, row) # {}
    BY DEF CheckInDoes
  <2>5. op = "advance" => CheckInDoes(op, row, row) # {}
    <3>1. op = "advance" => row.step = 0 \/ (row.step = 1 /\ ~row.blocked)
      BY <2>1 DEF CheckInOffers
    <3>2. op = "advance" => ~(row.step # row.step \/ (row.step >= 1 /\ row.blocked))
      <4>1. CASE row.step = 0
        BY <4>1
      <4>2. CASE row.step = 1 /\ ~row.blocked
        BY <4>2
      <4> QED BY <3>1, <4>1, <4>2
    <3>3. op = "advance" => [row EXCEPT !.step = row.step + 1] \in CheckInDoes(op, row, row)
      BY <3>2 DEF CheckInDoes
    <3> QED BY <3>3
  <2>6. op = "complete" => CheckInDoes(op, row, row) # {}
    <3>1. op = "complete" => row.step = 3 /\ ~row.blocked
      BY <2>1 DEF CheckInOffers
    <3> QED BY <3>1 DEF CheckInDoes
  <2>7. op \in {"start", "advance", "toAction", "complete", "changes"}
    BY <2>1 DEF CheckInOffers
  <2> QED BY <1>11, <2>2, <2>3, <2>4, <2>5, <2>6, <2>7 DEF Met, DoesOn, OpsOf
<1>12. CASE p = "Setup"
  <2>1. op \in SetupOffers(row)
    BY <1>12 DEF OfferedOn
  <2>2. op \in {"finish"} => SetupOps[op].doubtful
    BY OperationsHaveFields DEF SetupOps
  <2>3. op \notin {"finish"} => SetupDoes(op, row, row) # {}
    BY <2>1, RowsAreMade DEF SetupOffers, SetupDoes, Sufficient
  <2> QED BY <1>12, <2>2, <2>3 DEF Met, DoesOn, OpsOf
<1>13. CASE p = "Schedule"
  <2>1. op \in ScheduleOffers(row)
    BY <1>13 DEF OfferedOn
  <2>2. [kind : {"reminder"}, month : ScheduleViews, monthly : {FALSE}, active : {TRUE}] # {}
    <3>1. [kind |-> "reminder", month |-> "first", monthly |-> FALSE, active |-> TRUE] \in [kind : {"reminder"}, month : ScheduleViews, monthly : {FALSE}, active : {TRUE}]
      BY DEF ScheduleViews
    <3> QED BY <3>1
  <2>3. op \in {"moves"} => ScheduleOps[op].by = "elsewhere"
    BY DEF ScheduleOps, Press, Form, Confirm, Guarded, Patching, Unread, Doubtful, Elsewhere
  <2>4. op \notin {"moves"} => ScheduleDoes(op, row, row) # {}
    BY <2>1, <2>2, RowsAreMade DEF ScheduleOffers, ScheduleDoes
  <2> QED BY <1>13, <2>3, <2>4 DEF Met, DoesOn, OpsOf
<1>14. CASE p = "Double"
  <2>1. op \in DoubleOffers(row)
    BY <1>14 DEF OfferedOn
  <2>2. op \in {"edited"} => DoubleOps[op].by = "elsewhere"
    BY DEF DoubleOps, Press, Form, Confirm, Guarded, Patching, Unread, Doubtful, Elsewhere
  <2>3. op \notin {"edited"} => DoubleDoes(op, row, row) # {}
    BY <2>1, RowsAreMade DEF DoubleOffers, DoubleDoes
  <2> QED BY <1>14, <2>2, <2>3 DEF Met, DoesOn, OpsOf
<1>15. CASE p = "Expense"
  <2>1. op \in ExpenseOffers(row)
    BY <1>15 DEF OfferedOn
  <2>2. [source : {"manual"}, category : ExpenseForm.category] # {}
    <3>1. [source |-> "manual", category |-> "food"] \in [source : {"manual"}, category : ExpenseForm.category]
      BY DEF ExpenseForm
    <3> QED BY <3>1
  <2>3. ExpenseDoes(op, row, row) # {}
    BY <2>1, <2>2, RowsAreMade DEF ExpenseOffers, ExpenseDoes
  <2> QED BY <1>15, <2>3 DEF Met, DoesOn, OpsOf
<1>16. CASE p = "Income"
  <2>1. op \in IncomeOffers(row)
    BY <1>16 DEF OfferedOn
  <2>2. IncomeStates # {}
    <3>1. [type |-> "salary", recurring |-> FALSE] \in IncomeStates
      BY DEF IncomeStates
    <3> QED BY <3>1
  <2>3. IncomeDoes(op, row, row) # {}
    BY <2>1, <2>2, RowsAreMade DEF IncomeOffers, IncomeDoes
  <2> QED BY <1>16, <2>3 DEF Met, DoesOn, OpsOf
<1>17. CASE p = "Account"
  <2>1. op \in AccountOffers(row)
    BY <1>17 DEF OfferedOn
  <2>2. [basis : {"accumulated"}, anchored : {FALSE}] # {}
    <3>1. [basis |-> "accumulated", anchored |-> FALSE] \in [basis : {"accumulated"}, anchored : {FALSE}]
      OBVIOUS
    <3> QED BY <3>1
  <2>3. AccountDoes(op, row, row) # {}
    BY <2>1, <2>2, RowsAreMade DEF AccountOffers, AccountDoes
  <2> QED BY <1>17, <2>3 DEF Met, DoesOn, OpsOf
<1>18. CASE p = "Movement"
  <2>1. op \in MovementOffers(row)
    BY <1>18 DEF OfferedOn
  <2>2. MovementStates # {}
    <3>1. [type |-> "deposit"] \in MovementStates
      BY DEF MovementStates
    <3> QED BY <3>1
  <2>3. MovementDoes(op, row, row) # {}
    BY <2>1, <2>2, RowsAreMade DEF MovementOffers, MovementDoes
  <2> QED BY <1>18, <2>3 DEF Met, DoesOn, OpsOf
<1>19. CASE p = "Reconcile"
  <2>1. op \in ReconcileOffers(row)
    BY <1>19 DEF OfferedOn
  <2>2. ReconcileDoes(op, row, row) # {}
    BY <2>1, RowsAreMade DEF ReconcileOffers, ReconcileDoes, IncomeRow, SpendRow, LoanGroupCard, ReviewRow, DoneRow
  <2> QED BY <1>19, <2>2 DEF Met, DoesOn, OpsOf
<1>20. CASE p = "Subscription"
  <2>1. op \in SubscriptionOffers(row)
    BY <1>20 DEF OfferedOn
  <2>2. [status : {"active"}, frequency : SubscriptionForm.frequency, copies : {1}] # {}
    <3>1. [status |-> "active", frequency |-> "monthly", copies |-> 1] \in [status : {"active"}, frequency : SubscriptionForm.frequency, copies : {1}]
      BY DEF SubscriptionForm
    <3> QED BY <3>1
  <2>3. SubscriptionDoes(op, row, row) # {}
    BY <2>1, <2>2, RowsAreMade DEF SubscriptionOffers, SubscriptionDoes
  <2> QED BY <1>20, <2>3 DEF Met, DoesOn, OpsOf
<1>21. CASE p = "Recurring"
  <2>1. op \in RecurringOffers(row)
    BY <1>21 DEF OfferedOn
  <2>2. [frequency : RecurringForm.frequency, detected : {FALSE}, generated : {FALSE}] # {}
    <3>1. [frequency |-> "monthly", detected |-> FALSE, generated |-> FALSE] \in [frequency : RecurringForm.frequency, detected : {FALSE}, generated : {FALSE}]
      BY DEF RecurringForm
    <3> QED BY <3>1
  <2>3. RecurringDoes(op, row, row) # {}
    BY <2>1, <2>2, RowsAreMade DEF RecurringOffers, RecurringDoes
  <2> QED BY <1>21, <2>3 DEF Met, DoesOn, OpsOf
<1>22. CASE p = "Budget"
  <2>1. op \in BudgetOffers(row)
    BY <1>22 DEF OfferedOn
  <2>2. BudgetStates # {}
    <3>1. [spent |-> 1, amount |-> 1] \in BudgetStates
      BY DEF BudgetStates
    <3> QED BY <3>1
  <2>3. BudgetDoes(op, row, row) # {}
    BY <2>1, <2>2, RowsAreMade DEF BudgetOffers, BudgetDoes
  <2> QED BY <1>22, <2>3 DEF Met, DoesOn, OpsOf
<1>23. CASE p = "Saving"
  <2>1. op \in SavingOffers(row)
    BY <1>23 DEF OfferedOn
  <2>2. [goalType : {"savings", "debt_payoff"}, saved : {0}, monthlyTarget : {0, 1}] # {}
    <3>1. [goalType |-> "savings", saved |-> 0, monthlyTarget |-> 0] \in [goalType : {"savings", "debt_payoff"}, saved : {0}, monthlyTarget : {0, 1}]
      OBVIOUS
    <3> QED BY <3>1
  <2>3. SavingDoes(op, row, row) # {}
    BY <2>1, <2>2, RowsAreMade DEF SavingOffers, SavingDoes, SavingForm
  <2> QED BY <1>23, <2>3 DEF Met, DoesOn, OpsOf
<1>24. CASE p = "Asset"
  <2>1. op \in AssetOffers(row)
    BY <1>24 DEF OfferedOn
  <2>2. AssetStates # {}
    <3>1. [assetType |-> "pension", currentValue |-> 1] \in AssetStates
      BY DEF AssetStates
    <3> QED BY <3>1
  <2>3. AssetDoes(op, row, row) # {}
    BY <2>1, <2>2, RowsAreMade DEF AssetOffers, AssetDoes
  <2> QED BY <1>24, <2>3 DEF Met, DoesOn, OpsOf
<1>25. CASE p = "Category"
  <2>1. op \in CategoryOffers(row)
    BY <1>25 DEF OfferedOn
  <2>2. CategoryDoes(op, row, row) # {}
    BY <2>1, RowsAreMade DEF CategoryOffers, CategoryDoes
  <2> QED BY <1>25, <2>2 DEF Met, DoesOn, OpsOf
<1>26. CASE p = "Method"
  <2>1. op \in MethodOffers(row)
    BY <1>26 DEF OfferedOn
  <2>2. [type : MethodForm.type, owned : {TRUE}] # {}
    <3>1. [type |-> "cash", owned |-> TRUE] \in [type : MethodForm.type, owned : {TRUE}]
      BY DEF MethodForm
    <3> QED BY <3>1
  <2>3. MethodDoes(op, row, row) # {}
    BY <2>1, <2>2, RowsAreMade DEF MethodOffers, MethodDoes
  <2> QED BY <1>26, <2>3 DEF Met, DoesOn, OpsOf
<1>27. CASE p = "Family"
  <2>1. op \in FamilyOffers(row)
    BY <1>27 DEF OfferedOn
  <2>2. [relation : FamilyForm.relation, copies : {1}] # {}
    <3>1. [relation |-> "none", copies |-> 1] \in [relation : FamilyForm.relation, copies : {1}]
      BY DEF FamilyForm
    <3> QED BY <3>1
  <2>3. CASE op = "edit"
    <3>1. PICK becomes : becomes \in Edited(FamilyForm, row, row)
      BY <2>1, <2>3, RowsAreMade DEF FamilyOffers
    <3>2. (IF becomes # Gone /\ becomes.relation = "none" THEN row ELSE becomes) \in FamilyDoes(op, row, row)
      BY <2>3, <3>1 DEF FamilyDoes
    <3> QED BY <1>27, <3>2 DEF Met, DoesOn
  <2>4. CASE op # "edit"
    <3>1. FamilyDoes(op, row, row) # {}
      BY <2>1, <2>2, <2>4, RowsAreMade DEF FamilyOffers, FamilyDoes
    <3> QED BY <1>27, <3>1 DEF Met, DoesOn
  <2> QED BY <2>3, <2>4
<1> QED BY <1>1, <1>2, <1>3, <1>4, <1>5, <1>6, <1>7, <1>8, <1>9, <1>10, <1>11, <1>12, <1>13, <1>14, <1>15, <1>16, <1>17, <1>18, <1>19, <1>20, <1>21, <1>22, <1>23, <1>24, <1>25, <1>26, <1>27 DEF PageNames

(* An administrator is shown others while she is one; what another one makes  *)
(* of her meanwhile she learns from a refusal of something shown before.      *)
CustomerRows == [role : {"ADMIN", "USER"}, status : {"active", "inactive"}, self : BOOLEAN]
LEMMA CustomersMet ==
    ASSUME NEW row, row = Gone \/ (row \in CustomerRows /\ MayAct(row)), NEW op \in CustomerOffers(row)
    PROVE  Met("Customer", op, row)
<1>1. CASE op = "create"
  <2>1. CustomerOps[op].doubtful
    BY <1>1, OperationsHaveFields DEF CustomerOps
  <2> QED BY <2>1 DEF Met, OpsOf
<1>2. CASE op = "colleague"
  <2>1. CustomerOps[op].by = "elsewhere"
    BY <1>2 DEF CustomerOps, Press, Elsewhere
  <2> QED BY <2>1 DEF Met, OpsOf
<1>3. CASE op = "edit"
  <2>1. row # Gone /\ row \in CustomerRows /\ MayAct(row)
    BY <1>3 DEF CustomerOffers
  <2> DEFINE fields == CustomerForm(row)
             same == [f \in DOMAIN row |-> IF f \in DOMAIN fields THEN row[f] ELSE row[f]]
  <2>2. same \in Edited(fields, row, row)
    BY <2>1 DEF Edited, Sent
  <2>3. same = row
    BY <2>1 DEF CustomerRows
  <2>4. row.self => row.role = "ADMIN"
    BY <2>1 DEF MayAct
  <2>5. row \in CustomerDoes(op, row, row)
    BY <1>3, <2>1, <2>2, <2>3, <2>4 DEF CustomerDoes
  <2> QED BY <2>5 DEF Met, DoesOn
<1>4. CASE op = "toggle"
  <2>1. row # Gone /\ row \in CustomerRows /\ MayAct(row) /\ ~row.self
    BY <1>4 DEF CustomerOffers
  <2> DEFINE other == [row EXCEPT !.status = IF row.status = "active" THEN "inactive" ELSE "active"]
  <2>2. MayAct(other)
    BY <2>1 DEF MayAct, CustomerRows
  <2>3. other \in CustomerDoes(op, row, row)
    BY <1>4, <2>1, <2>2 DEF CustomerDoes
  <2> QED BY <2>3 DEF Met, DoesOn
<1> QED BY <1>1, <1>2, <1>3, <1>4 DEF CustomerOffers

LEMMA CustomersStay ==
    ASSUME NEW stored \in CustomerRows \cup {Gone}, NEW saw \in CustomerRows \cup {Gone}, NEW op \in CustomerOffers(saw),
           NEW becomes \in CustomerDoes(op, saw, stored)
    PROVE  becomes \in CustomerRows \cup {Gone}
<1>1. CASE op = "create"
  <2> DEFINE new == [role : {"ADMIN", "USER"}, status : {"active"}, self : {FALSE}]
  <2>1. new \subseteq CustomerRows
    BY DEF CustomerRows
  <2> HIDE DEF new
  <2>2. CustomerDoes(op, saw, stored) = Created(stored, new)
    BY <1>1 DEF CustomerDoes, new
  <2>3. becomes \in {stored} \cup new
    BY <2>2 DEF Created
  <2> QED BY <2>1, <2>3
<1>2. CASE op = "colleague"
  <2>1. stored \in CustomerRows /\ \E r \in {"ADMIN", "USER"}, s \in {"active", "inactive"} : becomes = [stored EXCEPT !.role = r, !.status = s]
    BY <1>2 DEF CustomerDoes
  <2> QED BY <2>1 DEF CustomerRows
<1>3. CASE op = "edit"
  <2>1. saw \in CustomerRows /\ stored \in CustomerRows /\ stored # Gone /\ becomes \in Edited(CustomerForm(saw), saw, stored)
    BY <1>3 DEF CustomerOffers, CustomerDoes
  <2> DEFINE fields == CustomerForm(saw)
             sends(values) == [f \in DOMAIN stored |-> IF f \in DOMAIN fields THEN values[f] ELSE stored[f]]
  <2>2. becomes = sends(saw) \/ \E f \in DOMAIN fields : \E v \in fields[f] : becomes = sends([saw EXCEPT ![f] = v])
    BY <2>1 DEF Edited, Sent
  <2>3. DOMAIN fields = {"role"} /\ fields["role"] \subseteq {"ADMIN", "USER"}
    BY DEF CustomerForm
  <2>4. \A values \in CustomerRows : sends(values) \in CustomerRows
    BY <2>1, <2>3 DEF CustomerRows
  <2>5. \A v \in {"ADMIN", "USER"} : [saw EXCEPT !["role"] = v] \in CustomerRows
    BY <2>1 DEF CustomerRows
  <2> HIDE DEF sends, fields
  <2> QED BY <2>1, <2>2, <2>3, <2>4, <2>5
<1>4. CASE op = "toggle"
  <2>1. stored \in CustomerRows /\ \E s \in {"active", "inactive"} : becomes = [stored EXCEPT !.status = s]
    BY <1>4 DEF CustomerDoes
  <2> QED BY <2>1 DEF CustomerRows
<1> QED BY <1>1, <1>2, <1>3, <1>4 DEF CustomerOffers

(* What was changed is put on the screen at once, or the page hears of it and *)
(* reads again; but for a session of an import, which is replaced by every    *)
(* answer.                                                                    *)
Heard(pl, op) ==
    LET o == OpsOf(pl[1])[op]
    IN o.reloads \/ Domain(o.call) \in pl[2] \/ ("financial" \in pl[2] /\ Domain(o.call) \notin Page!Apart)
Reloading == PageNames \ {"Loan", "Report", "Funding", "Document", "Connection", "Import", "Settings", "Account", "Recurring"}
LEMMA Reloads ==
    /\ \A c : Press(c).reloads /\ Form(c).reloads /\ Confirm(c).reloads
    /\ \A o, g : HasFields(o) => Guarded(o, g).reloads = o.reloads
    /\ \A o : HasFields(o) => Doubtful(o).reloads = o.reloads
    /\ Elsewhere.reloads
<1>1. \A c : Press(c).reloads
  BY DEF Press
<1>2. \A c : Form(c).reloads /\ Confirm(c).reloads /\ Elsewhere.reloads
  BY DEF Press, Form, Confirm, Elsewhere
<1>3. \A o, g : HasFields(o) => Guarded(o, g).reloads = o.reloads
  BY DEF Guarded, HasFields
<1>4. \A o : HasFields(o) => Doubtful(o).reloads = o.reloads
  BY DEF Doubtful, HasFields
<1> QED BY <1>1, <1>2, <1>3, <1>4
LEMMA PagesReload == \A p \in Reloading : \A op \in DOMAIN OpsOf(p) : OpsOf(p)[op].reloads
<1> SUFFICES ASSUME NEW p \in Reloading, NEW op \in DOMAIN OpsOf(p) PROVE OpsOf(p)[op].reloads
  OBVIOUS
<1>1. CASE p = "Card"
  <2>1. OpsOf(p) = CardOps
    BY <1>1 DEF OpsOf
  <2> QED BY <2>1, Reloads, OperationsHaveFields DEF CardOps
<1>2. CASE p = "Customer"
  <2>1. OpsOf(p) = CustomerOps
    BY <1>2 DEF OpsOf
  <2> QED BY <2>1, Reloads, OperationsHaveFields DEF CustomerOps
<1>3. CASE p = "Alert"
  <2>1. OpsOf(p) = AlertOps
    BY <1>3 DEF OpsOf
  <2> QED BY <2>1, Reloads, OperationsHaveFields DEF AlertOps
<1>4. CASE p = "Agenda"
  <2>1. OpsOf(p) = AgendaOps
    BY <1>4 DEF OpsOf
  <2> QED BY <2>1, Reloads, OperationsHaveFields DEF AgendaOps
<1>5. CASE p = "CheckIn"
  <2>1. OpsOf(p) = CheckInOps
    BY <1>5 DEF OpsOf
  <2> QED BY <2>1, Reloads, OperationsHaveFields DEF CheckInOps
<1>6. CASE p = "Setup"
  <2>1. OpsOf(p) = SetupOps
    BY <1>6 DEF OpsOf
  <2> QED BY <2>1, Reloads, OperationsHaveFields DEF SetupOps
<1>7. CASE p = "Schedule"
  <2>1. OpsOf(p) = ScheduleOps
    BY <1>7 DEF OpsOf
  <2> QED BY <2>1, Reloads, OperationsHaveFields DEF ScheduleOps
<1>8. CASE p = "Double"
  <2>1. OpsOf(p) = DoubleOps
    BY <1>8 DEF OpsOf
  <2> QED BY <2>1, Reloads, OperationsHaveFields DEF DoubleOps
<1>9. CASE p = "Expense"
  <2>1. OpsOf(p) = ExpenseOps
    BY <1>9 DEF OpsOf
  <2> QED BY <2>1, Reloads, OperationsHaveFields DEF ExpenseOps
<1>10. CASE p = "Income"
  <2>1. OpsOf(p) = IncomeOps
    BY <1>10 DEF OpsOf
  <2> QED BY <2>1, Reloads, OperationsHaveFields DEF IncomeOps
<1>11. CASE p = "Movement"
  <2>1. OpsOf(p) = MovementOps
    BY <1>11 DEF OpsOf
  <2> QED BY <2>1, Reloads, OperationsHaveFields DEF MovementOps
<1>12. CASE p = "Reconcile"
  <2>1. OpsOf(p) = ReconcileOps
    BY <1>12 DEF OpsOf
  <2> QED BY <2>1, Reloads, OperationsHaveFields DEF ReconcileOps
<1>13. CASE p = "Subscription"
  <2>1. OpsOf(p) = SubscriptionOps
    BY <1>13 DEF OpsOf
  <2> QED BY <2>1, Reloads, OperationsHaveFields DEF SubscriptionOps
<1>14. CASE p = "Budget"
  <2>1. OpsOf(p) = BudgetOps
    BY <1>14 DEF OpsOf
  <2> QED BY <2>1, Reloads, OperationsHaveFields DEF BudgetOps
<1>15. CASE p = "Saving"
  <2>1. OpsOf(p) = SavingOps
    BY <1>15 DEF OpsOf
  <2> QED BY <2>1, Reloads, OperationsHaveFields DEF SavingOps
<1>16. CASE p = "Asset"
  <2>1. OpsOf(p) = AssetOps
    BY <1>16 DEF OpsOf
  <2> QED BY <2>1, Reloads, OperationsHaveFields DEF AssetOps
<1>17. CASE p = "Category"
  <2>1. OpsOf(p) = CategoryOps
    BY <1>17 DEF OpsOf
  <2> QED BY <2>1, Reloads, OperationsHaveFields DEF CategoryOps
<1>18. CASE p = "Method"
  <2>1. OpsOf(p) = MethodOps
    BY <1>18 DEF OpsOf
  <2> QED BY <2>1, Reloads, OperationsHaveFields DEF MethodOps
<1>19. CASE p = "Family"
  <2>1. OpsOf(p) = FamilyOps
    BY <1>19 DEF OpsOf
  <2> QED BY <2>1, Reloads, OperationsHaveFields DEF FamilyOps
<1> QED BY <1>1, <1>2, <1>3, <1>4, <1>5, <1>6, <1>7, <1>8, <1>9, <1>10, <1>11, <1>12, <1>13, <1>14, <1>15, <1>16, <1>17, <1>18, <1>19 DEF Reloading, PageNames

LEMMA Domains ==
    /\ Domain("uploadSession") = "imports" /\ Domain("saveFunding") = "journey" /\ Domain("updateLooks") = "appearance"
    /\ \A c \in ConnectionCalls : Domain(c) = "connections"
    /\ Domain("generateRecurring") = "recurring"
<1> USE DEF Domain, CategoryCalls, PaymentMethodCalls, RecurringCalls, SubscriptionCalls, SavingCalls, AssetCalls,
        FamilyCalls, AlertCalls, SettingCalls, LookCalls, ExpenseCalls, IncomeCalls, BudgetCalls, ReminderCalls, BankCalls,
        ReconcileCalls, LoanCalls, CreditCalls, CardCalls, ImportCalls, DocumentCalls, ConnectionCalls, CustomerCalls,
        AssistantCalls, JourneyCalls
<1>1. Domain("uploadSession") = "imports"
  OBVIOUS
<1>2. Domain("saveFunding") = "journey"
  OBVIOUS
<1>3. Domain("updateLooks") = "appearance"
  OBVIOUS
<1>4. \A c \in ConnectionCalls : Domain(c) = "connections"
  OBVIOUS
<1>5. Domain("generateRecurring") = "recurring"
  OBVIOUS
<1> QED BY <1>1, <1>2, <1>3, <1>4, <1>5

LEMMA Calls ==
    /\ \A c : Press(c).call = c /\ Form(c).call = c /\ Confirm(c).call = c
    /\ \A o, g : HasFields(o) => Guarded(o, g).call = o.call
    /\ \A o : HasFields(o) => Unread(o).call = o.call /\ Patching(o).call = o.call /\ Hopeful(o).call = o.call
    /\ \A o : HasFields(o) => Doubtful(o).call = o.call
<1>1. \A c : Press(c).call = c
  BY DEF Press
<1>2. \A c : Form(c).call = c /\ Confirm(c).call = c
  BY DEF Press, Form, Confirm
<1>3. \A o, g : HasFields(o) => Guarded(o, g).call = o.call
  BY DEF Guarded, HasFields
<1>4. \A o : HasFields(o) => Unread(o).call = o.call /\ Patching(o).call = o.call /\ Hopeful(o).call = o.call /\ Doubtful(o).call = o.call
  BY DEF Unread, Patching, Hopeful, Doubtful, HasFields
<1> QED BY <1>1, <1>2, <1>3, <1>4

LEMMA PagesRead ==
    ASSUME NEW pl \in Pages
    PROVE  /\ pl[1] \in PageNames
           /\ pl[1] = "Loan" => pl[2] = LoanReads.loans
           /\ pl[1] = "Funding" => pl[2] = FundingReads.funding
           /\ pl[1] = "Document" => pl[2] = DocumentReads.documents
           /\ pl[1] = "Connection" => pl[2] = ConnectionReads.connections
           /\ pl[1] = "Settings" => pl[2] = SettingsReads.settings
           /\ pl[1] = "Import" => pl[2] = {}
           /\ pl[1] \in {"Report", "Account", "Recurring"} => pl[2] = {"financial"}
<1>1. pl[1] \in PageNames
  BY DEF Pages, PageNames
<1>0. pl[1] = "Import" => pl[2] = {}
  <2>1. pl[1] = "Import" => \E r \in DOMAIN ImportReads : pl[2] = ImportReads[r]
    BY DEF Pages
  <2> QED BY <2>1 DEF ImportReads
<1>2. pl[1] = "Loan" => pl[2] = LoanReads.loans
  <2>1. pl[1] = "Loan" => \E r \in DOMAIN LoanReads : pl[2] = LoanReads[r]
    BY DEF Pages
  <2> QED BY <2>1 DEF LoanReads
<1>3. pl[1] = "Funding" => pl[2] = FundingReads.funding
  <2>1. pl[1] = "Funding" => \E r \in DOMAIN FundingReads : pl[2] = FundingReads[r]
    BY DEF Pages
  <2> QED BY <2>1 DEF FundingReads
<1>4. pl[1] = "Document" => pl[2] = DocumentReads.documents
  <2>1. pl[1] = "Document" => \E r \in DOMAIN DocumentReads : pl[2] = DocumentReads[r]
    BY DEF Pages
  <2> QED BY <2>1 DEF DocumentReads
<1>5. pl[1] = "Connection" => pl[2] = ConnectionReads.connections
  <2>1. pl[1] = "Connection" => \E r \in DOMAIN ConnectionReads : pl[2] = ConnectionReads[r]
    BY DEF Pages
  <2> QED BY <2>1 DEF ConnectionReads
<1>6. pl[1] = "Settings" => pl[2] = SettingsReads.settings
  <2>1. pl[1] = "Settings" => \E r \in DOMAIN SettingsReads : pl[2] = SettingsReads[r]
    BY DEF Pages
  <2> QED BY <2>1 DEF SettingsReads
<1>7. pl[1] = "Report" => pl[2] = {"financial"}
  <2>1. pl[1] = "Report" => \E r \in DOMAIN ReportReads : pl[2] = ReportReads[r]
    BY DEF Pages
  <2> QED BY <2>1 DEF ReportReads
<1>8. pl[1] = "Account" => pl[2] = {"financial"}
  <2>1. pl[1] = "Account" => \E r \in DOMAIN AccountReads : pl[2] = AccountReads[r]
    BY DEF Pages
  <2> QED BY <2>1 DEF AccountReads
<1>9. pl[1] = "Recurring" => pl[2] = {"financial"}
  <2>1. pl[1] = "Recurring" => \E r \in DOMAIN RecurringReads : pl[2] = RecurringReads[r]
    BY DEF Pages
  <2> QED BY <2>1 DEF RecurringReads
<1> QED BY <1>0, <1>1, <1>2, <1>3, <1>4, <1>5, <1>6, <1>7, <1>8, <1>9

LEMMA OpsHeard ==
    ASSUME NEW pl \in Pages, pl[1] # "Import", NEW op \in DOMAIN OpsOf(pl[1])
    PROVE  Heard(pl, op)
<1>1. pl[1] \in PageNames
  BY PagesRead
<1>2. CASE pl[1] \in Reloading
  BY <1>2, PagesReload DEF Heard
<1>3. CASE pl[1] = "Loan"
  <2>1. OpsOf(pl[1]) = LoanOps
    BY <1>3 DEF OpsOf
  <2>2. CASE op = "upload"
    <3>1. Domain(LoanOps[op].call) = "imports"
      BY <2>2, Calls, Domains, OperationsHaveFields DEF LoanOps
    <3> QED BY <1>3, <2>1, <3>1, PagesRead DEF Heard, LoanReads, Page!Apart
  <2>3. CASE op # "upload"
    <3>1. LoanOps[op].reloads
      BY <2>1, <2>3, Reloads, OperationsHaveFields DEF LoanOps
    <3> QED BY <2>1, <3>1 DEF Heard
  <2> QED BY <2>2, <2>3
<1>4. CASE pl[1] = "Report"
  <2>1. OpsOf(pl[1]) = ReportOps
    BY <1>4 DEF OpsOf
  <2>2. CASE op = "upload"
    <3>1. Domain(ReportOps[op].call) = "imports"
      BY <2>2, Calls, Domains, OperationsHaveFields DEF ReportOps
    <3> QED BY <1>4, <2>1, <3>1, PagesRead DEF Heard, ReportReads, Page!Apart
  <2>3. CASE op # "upload"
    <3>1. ReportOps[op].reloads
      BY <2>1, <2>3, Reloads, OperationsHaveFields DEF ReportOps
    <3> QED BY <2>1, <3>1 DEF Heard
  <2> QED BY <2>2, <2>3
<1>5. CASE pl[1] = "Funding"
  <2>1. OpsOf(pl[1]) = FundingOps
    BY <1>5 DEF OpsOf
  <2>2. CASE op = "save"
    <3>0. FundingOps.save.call = "saveFunding"
      <4>1. HasFields(Press("saveFunding")) /\ Press("saveFunding").call = "saveFunding"
        BY Calls, OperationsHaveFields
      <4>2. HasFields(Patching(Press("saveFunding"))) /\ Patching(Press("saveFunding")).call = "saveFunding"
        BY <4>1, Calls, OperationsHaveFields
      <4> QED BY <4>2, Calls DEF FundingOps
    <3>1. Domain(FundingOps[op].call) = "journey"
      BY <2>2, <3>0, Domains
    <3> QED BY <1>5, <2>1, <3>1, PagesRead DEF Heard, FundingReads, Page!Apart
  <2>3. CASE op # "save"
    <3>1. FundingOps[op].reloads
      BY <2>1, <2>3, Reloads, OperationsHaveFields DEF FundingOps
    <3> QED BY <2>1, <3>1 DEF Heard
  <2> QED BY <2>2, <2>3
<1>6. CASE pl[1] = "Document"
  <2>1. OpsOf(pl[1]) = DocumentOps
    BY <1>6 DEF OpsOf
  <2>2. CASE op = "upload"
    <3>1. Domain(DocumentOps[op].call) = "imports"
      BY <2>2, Calls, Domains, OperationsHaveFields DEF DocumentOps
    <3> QED BY <1>6, <2>1, <3>1, PagesRead DEF Heard, DocumentReads, Page!Apart
  <2>3. CASE op # "upload"
    <3>1. DocumentOps[op].reloads
      BY <2>1, <2>3, Reloads, OperationsHaveFields DEF DocumentOps
    <3> QED BY <2>1, <3>1 DEF Heard
  <2> QED BY <2>2, <2>3
<1>7. CASE pl[1] = "Connection"
  <2>1. OpsOf(pl[1]) = ConnectionOps
    BY <1>7 DEF OpsOf
  <2>2. ConnectionOps[op].call \in ConnectionCalls
    <3>1. ConnectionOps.create.call = "createConnection"
      <4>1. HasFields(Form("createConnection")) /\ Form("createConnection").call = "createConnection"
        BY Calls, OperationsHaveFields
      <4>2. HasFields(Patching(Form("createConnection"))) /\ Patching(Form("createConnection")).call = "createConnection"
        BY <4>1, Calls, OperationsHaveFields
      <4> QED BY <4>2, Calls DEF ConnectionOps
    <3>2. ConnectionOps.sync.call = "syncConnection" /\ ConnectionOps.credentials.call = "updateCredentials"
      BY Calls, OperationsHaveFields DEF ConnectionOps
    <3>3. ConnectionOps.remove.call = "deleteConnection"
      BY Calls, OperationsHaveFields DEF ConnectionOps
    <3>4. op \in {"create", "sync", "credentials", "remove"}
      BY <2>1 DEF ConnectionOps
    <3> QED BY <3>1, <3>2, <3>3, <3>4 DEF ConnectionCalls
  <2>3. Domain(ConnectionOps[op].call) = "connections"
    BY <2>2, Domains
  <2> QED BY <1>7, <2>1, <2>3, PagesRead DEF Heard, ConnectionReads
<1>8. CASE pl[1] = "Settings"
  <2>1. OpsOf(pl[1]) = SettingsOps
    BY <1>8 DEF OpsOf
  <2>2. Domain(SettingsOps[op].call) = "appearance"
    BY <2>1, Calls, Domains, OperationsHaveFields DEF SettingsOps
  <2> QED BY <1>8, <2>1, <2>2, PagesRead DEF Heard, SettingsReads
<1>9. CASE pl[1] = "Account"
  <2>1. OpsOf(pl[1]) = AccountOps
    BY <1>9 DEF OpsOf
  <2>2. CASE op = "upload"
    <3>1. Domain(AccountOps[op].call) = "imports"
      BY <2>2, Calls, Domains, OperationsHaveFields DEF AccountOps
    <3> QED BY <1>9, <2>1, <3>1, PagesRead DEF Heard, AccountReads, Page!Apart
  <2>3. CASE op # "upload"
    <3>1. AccountOps[op].reloads
      BY <2>1, <2>3, Reloads, OperationsHaveFields DEF AccountOps
    <3> QED BY <2>1, <3>1 DEF Heard
  <2> QED BY <2>2, <2>3
<1>10. CASE pl[1] = "Recurring"
  <2>1. OpsOf(pl[1]) = RecurringOps
    BY <1>10 DEF OpsOf
  <2>2. CASE op = "generate"
    <3>1. Domain(RecurringOps[op].call) = "recurring"
      BY <2>2, Calls, Domains, OperationsHaveFields DEF RecurringOps
    <3> QED BY <1>10, <2>1, <3>1, PagesRead DEF Heard, RecurringReads, Page!Apart
  <2>3. CASE op # "generate"
    <3>1. RecurringOps[op].reloads
      BY <2>1, <2>3, Reloads, OperationsHaveFields DEF RecurringOps
    <3> QED BY <2>1, <3>1 DEF Heard
  <2> QED BY <2>2, <2>3
<1> QED BY <1>1, <1>2, <1>3, <1>4, <1>5, <1>6, <1>7, <1>8, <1>9, <1>10 DEF Reloading, PageNames

(* The session of an import: one step at a time, each answered by what it     *)
(* made of the session.  Customers are neither patched nor hoped for.         *)
Stepwise(o) == o.guard = "page" /\ o.patches /\ ~o.reloads /\ ~o.hopeful
LEMMA StepsOfAnImport ==
    /\ \A op \in DOMAIN ImportOps : Stepwise(ImportOps[op])
    /\ ImportOffers(Gone) = {}
<1>1. \A c : Stepwise(Guarded(Patching(Press(c)), "page")) /\ Stepwise(Guarded(Patching(Form(c)), "page"))
  BY DEF Stepwise, Guarded, Patching, Press, Form
<1>2. \A o : Stepwise(o) /\ HasFields(o) => Stepwise(Doubtful(o))
  BY DEF Stepwise, Doubtful, HasFields
<1>3. \A c : HasFields(Guarded(Patching(Press(c)), "page")) /\ HasFields(Guarded(Patching(Form(c)), "page"))
  BY DEF HasFields, Guarded, Patching, Press, Form
<1>4. Stepwise(ImportOps.answer) /\ Stepwise(ImportOps.cancel)
  BY <1>1 DEF ImportOps
<1>5. Stepwise(ImportOps.save)
  BY <1>1, <1>2, <1>3 DEF ImportOps
<1>6. Stepwise(ImportOps.commit) /\ Stepwise(ImportOps.complete)
  BY <1>1, <1>2, <1>3 DEF ImportOps
<1>7. DOMAIN ImportOps = {"answer", "save", "commit", "complete", "cancel"}
  BY DEF ImportOps
<1> QED BY <1>4, <1>5, <1>6, <1>7 DEF ImportOffers
LEMMA CustomersNotPatched == \A op \in DOMAIN CustomerOps : ~CustomerOps[op].patches /\ ~CustomerOps[op].hopeful
<1>1. ~CustomerOps.create.patches /\ ~CustomerOps.create.hopeful
  BY DEF CustomerOps, Doubtful, Guarded, Form, Press
<1>2. ~CustomerOps.edit.patches /\ ~CustomerOps.edit.hopeful
  BY DEF CustomerOps, Guarded, Form, Press
<1>3. ~CustomerOps.toggle.patches /\ ~CustomerOps.toggle.hopeful /\ ~CustomerOps.colleague.patches /\ ~CustomerOps.colleague.hopeful
  BY DEF CustomerOps, Confirm, Elsewhere, Press
<1> QED BY <1>1, <1>2, <1>3 DEF CustomerOps

(* What a page knows: a whole answer, of rows an administrator may be shown;  *)
(* one that is of the filters chosen and not of before what the user was told; *)
(* an operation that was offered for the row it is about.                     *)
Acting(row) == row = Gone \/ (row \in CustomerRows /\ MayAct(row))
Whole(p, a) == /\ a = [view |-> a.view, row |-> a.row, version |-> a.version] /\ a.version \in Nat
               /\ p = "Customer" => Acting(a.row)
MonthOf(p, v) == IF v \in KeyedBy(p) THEN v ELSE "first"
Recent(p, v, t, d, a) == Whole(p, a) /\ a.view = MonthOf(p, v) /\ (d \/ a.version >= t)
Chosen(p, op, saw) == /\ op \in DOMAIN OpsOf(p) /\ op \in OfferedOn(p, saw) /\ OpsOf(p)[op].by # "elsewhere"
                      /\ p = "Customer" => Acting(saw)
Request(p, n, r) == /\ r = [no |-> r.no, op |-> r.op, saw |-> r.saw, phase |-> r.phase, row |-> r.row, version |-> r.version]
                    /\ r.version \in Nat /\ r.version <= n /\ Chosen(p, r.op, r.saw)

WritesCounted == version \in Nat /\ told \in Nat /\ told <= version
CustomersHeld == place[1] = "Customer" => server \in CustomerRows \cup {Gone}
RequestsMade == \A r \in out : Request(place[1], version, r)
QuestionPut == question # Page!Absent =>
    /\ question = [op |-> question.op, saw |-> question.saw, sent |-> question.sent]
    /\ Chosen(place[1], question.op, question.saw)
ShownWhole == shown # Page!Absent => Whole(place[1], shown)
LoadRecent == live # Page!Absent =>
    /\ live = [view |-> MonthOf(place[1], view), got |-> live.got]
    /\ live.got # Page!Absent => Recent(place[1], view, told, due, live.got)
ShownRecent == live = Page!Absent /\ ~error => Recent(place[1], view, told, due, shown)
OneStepAtATime == place[1] = "Import" =>
    /\ ~due /\ view = "first"
    /\ shown # Page!Absent => live = Page!Absent /\ ~error
    /\ shown = Page!Absent => out = {} /\ question = Page!Absent
    /\ \A r, s \in out : r = s
    /\ \A r \in out : r.phase = "done" => r.version >= told
ScreenInv == /\ place \in Pages /\ ~wronged
             /\ WritesCounted /\ CustomersHeld /\ RequestsMade /\ QuestionPut
             /\ ShownWhole /\ LoadRecent /\ ShownRecent /\ OneStepAtATime

LEMMA ScreenStarts == SiteInit => ScreenInv
<1> SUFFICES ASSUME SiteInit PROVE ScreenInv
  OBVIOUS
<1> USE DEF SiteInit, Page!ScreenInit, Page!First
<1>1. place[1] = "Customer" => server \in CustomerRows
  <2>1. place[1] = "Customer" => server \in CustomerStates
    BY DEF BeginsOf
  <2> QED BY <2>1 DEF CustomerStates, CustomerRows
<1>2. LoadRecent
  BY DEF LoadRecent, MonthOf, Page!Absent
<1>3. live # Page!Absent
  BY DEF Page!Absent
<1>4. ShownWhole /\ ShownRecent /\ QuestionPut /\ RequestsMade
  BY <1>3 DEF ShownWhole, ShownRecent, QuestionPut, RequestsMade
<1> QED BY <1>1, <1>2, <1>3, <1>4 DEF ScreenInv, WritesCounted, CustomersHeld, OneStepAtATime
LEMMA ScreenTells == ScreenInv => SiteHolds
<1> SUFFICES ASSUME ScreenInv PROVE SiteHolds
  OBVIOUS
<1>1. ~wronged
  BY DEF ScreenInv
<1>2. Page!AtRest => shown.view = Page!Month(view) /\ shown.version >= told
  BY DEF ScreenInv, ShownRecent, Recent, MonthOf, Page!AtRest, Page!Month, Page!Name, Page!First
<1> QED BY <1>1, <1>2 DEF SiteHolds, Page!ScreenHolds, Page!ShowsWhatWasSaved, Page!OffersAreTaken

(* What a load reads is recent, whatever it is of.                            *)
LEMMA SnapshotsRecent ==
    ASSUME ScreenInv, NEW v
    PROVE  /\ Whole(place[1], Page!Snapshot(v)) /\ Page!Snapshot(v).view = v /\ Page!Snapshot(v).version = version
           /\ version >= told
<1> DEFINE row == IF server # Gone /\ ListedOn(place[1], v, server) THEN server ELSE Gone
<1>1. place[1] = "Customer" => Acting(row)
  BY DEF ScreenInv, CustomersHeld, Acting, ListedOn, CustomerListed
<1> HIDE DEF row
<1>2. Page!Snapshot(v) = [view |-> v, row |-> row, version |-> version]
  BY DEF row, Page!Snapshot, Page!Name, Page!IsThere, Page!Gone, Gone
<1>3. version \in Nat /\ told \in Nat /\ told <= version
  BY DEF ScreenInv, WritesCounted
<1> QED BY <1>1, <1>2, <1>3 DEF Whole
(* What is on the screen.                                                      *)
LEMMA SeenActing ==
    ASSUME ScreenInv
    PROVE  /\ place[1] = "Customer" => Acting(Page!Seen)
           /\ Page!Seen # Gone => shown # Page!Absent
<1>1. shown # Page!Absent => Whole(place[1], shown)
  BY DEF ScreenInv, ShownWhole
<1> QED BY <1>1 DEF Page!Seen, Whole, Acting, Page!Gone, Gone

LEMMA AnswersShown ==
    ASSUME ScreenInv, Page!ReadLive \/ Page!Settle \/ Page!Fails \/ Page!Late \/ Page!Retry \/ Page!Reload
    PROVE  ScreenInv'
<1> USE DEF ScreenInv, Page!page, Page!rest
<1>1. CASE Page!ReadLive
  <2> USE <1>1 DEF Page!ReadLive
  <2>1. LoadRecent'
    <3>1. live' = [view |-> MonthOf(place[1], view), got |-> Page!Snapshot(live.view)] /\ live.view = MonthOf(place[1], view)
      BY DEF LoadRecent
    <3>2. Recent(place[1], view, told, due, Page!Snapshot(live.view))
      BY <3>1, SnapshotsRecent DEF Recent
    <3> QED BY <3>1, <3>2 DEF LoadRecent
  <2>2. live' # Page!Absent
    BY DEF LoadRecent, Page!Absent
  <2>3. ShownRecent' /\ OneStepAtATime'
    BY <2>2 DEF ShownRecent, OneStepAtATime
  <2> QED BY <2>1, <2>3 DEF WritesCounted, CustomersHeld, RequestsMade, QuestionPut, ShownWhole
<1>2. CASE Page!Settle
  <2> USE <1>2 DEF Page!Settle
  <2>1. Recent(place[1], view, told, due, live.got)
    BY DEF LoadRecent
  <2>2. ShownRecent' /\ ShownWhole' /\ LoadRecent'
    BY <2>1 DEF ShownRecent, ShownWhole, LoadRecent, Recent
  <2>3. OneStepAtATime'
    BY DEF OneStepAtATime
  <2> QED BY <2>2, <2>3 DEF WritesCounted, CustomersHeld, RequestsMade, QuestionPut
<1>3. CASE Page!Fails
  <2> USE <1>3 DEF Page!Fails
  <2>1. OneStepAtATime'
    BY DEF OneStepAtATime
  <2>2. LoadRecent' /\ ShownRecent'
    BY DEF LoadRecent, ShownRecent
  <2> QED BY <2>1, <2>2 DEF WritesCounted, CustomersHeld, RequestsMade, QuestionPut, ShownWhole
<1>4. CASE Page!Late
  <2> USE <1>4 DEF Page!Late, Page!Alive
  <2> QED BY DEF WritesCounted, CustomersHeld, RequestsMade, QuestionPut, ShownWhole, LoadRecent, ShownRecent, OneStepAtATime
<1>5. CASE Page!Retry
  <2> USE <1>5 DEF Page!Retry, Page!Load
  <2>1. live' = [view |-> MonthOf(place[1], view), got |-> Page!Absent]
    BY DEF MonthOf, Page!Month, Page!Name, Page!First
  <2>2. live' # Page!Absent
    BY <2>1 DEF Page!Absent
  <2>3. LoadRecent' /\ ShownRecent'
    BY <2>1, <2>2 DEF LoadRecent, ShownRecent
  <2>4. OneStepAtATime'
    BY DEF OneStepAtATime
  <2> QED BY <2>3, <2>4 DEF WritesCounted, CustomersHeld, RequestsMade, QuestionPut, ShownWhole
<1>6. CASE Page!Reload
  <2> USE <1>6 DEF Page!Reload, Page!Load
  <2>1. live' = [view |-> MonthOf(place[1], view), got |-> Page!Absent]
    BY DEF MonthOf, Page!Month, Page!Name, Page!First
  <2>2. live' # Page!Absent
    BY <2>1 DEF Page!Absent
  <2>3. LoadRecent' /\ ShownRecent'
    BY <2>1, <2>2 DEF LoadRecent, ShownRecent
  <2>4. OneStepAtATime'
    BY DEF OneStepAtATime
  <2> QED BY <2>3, <2>4 DEF WritesCounted, CustomersHeld, RequestsMade, QuestionPut, ShownWhole
<1> QED BY <1>1, <1>2, <1>3, <1>4, <1>5, <1>6

(* A change sent is one that was offered, and the only one an import has      *)
(* under way.                                                                 *)
LEMMA ChangeSent ==
    ASSUME ScreenInv, NEW op, NEW saw, Chosen(place[1], op, saw), Page!Send(op, saw)
    PROVE  /\ RequestsMade'
           /\ place[1] = "Import" => (\A r, s \in out' : r = s) /\ \A r \in out' : r.phase # "done"
<1> DEFINE new == [no |-> happened + 1, op |-> op, saw |-> saw, phase |-> "sent", row |-> Gone, version |-> 0]
<1>1. out' = out \cup {new} /\ version' = version /\ place' = place
  BY DEF Page!Send, Page!Gone, Gone
<1>2. Request(place[1], version, new)
  BY DEF Request, ScreenInv, WritesCounted
<1>3. new.phase = "sent"
  OBVIOUS
<1>4. ASSUME place[1] = "Import" PROVE out = {}
  <2>1. OpsOf(place[1]) = ImportOps
    BY <1>4 DEF OpsOf
  <2>2. ImportOps[op].guard = "page"
    BY <2>1, StepsOfAnImport DEF Chosen, Stepwise
  <2>3. ~\E r \in out : ImportOps[r.op].guard \in {"page", "still"}
    BY <2>1, <2>2 DEF Page!Send, Page!Free, Page!Name
  <2>4. \A r \in out : r.op \in DOMAIN ImportOps
    BY <2>1 DEF ScreenInv, RequestsMade, Request, Chosen
  <2> QED BY <2>3, <2>4, StepsOfAnImport DEF Stepwise
<1> HIDE DEF new
<1>5. RequestsMade'
  BY <1>1, <1>2 DEF ScreenInv, RequestsMade
<1>6. place[1] = "Import" => out' = {new}
  BY <1>1, <1>4
<1> QED BY <1>3, <1>5, <1>6

LEMMA ChoicesMade ==
    ASSUME ScreenInv,
           (\E v \in ViewsOf(place[1]) : Page!Look(v)) \/ Page!Submit \/ Page!Dismiss
             \/ \E op \in DOMAIN OpsOf(place[1]) : Page!Direct(op) \/ Page!Ask(op)
    PROVE  ScreenInv'
<1> USE DEF ScreenInv, Page!page, Page!rest
<1>1. ASSUME NEW v \in ViewsOf(place[1]), Page!Look(v) PROVE ScreenInv'
  <2> USE <1>1 DEF Page!Look
  <2>1. Page!Month(v) = MonthOf(place[1], v) /\ Page!Month(view) = MonthOf(place[1], view)
    BY DEF MonthOf, Page!Month, Page!Name, Page!First
  <2>2. place[1] = "Import" => v = "first"
    BY DEF ViewsOf
  <2>3. OneStepAtATime'
    BY <2>2 DEF OneStepAtATime, Page!Happens
  <2>4. LoadRecent' /\ ShownRecent'
    <3>1. CASE MonthOf(place[1], v) # MonthOf(place[1], view)
      <4>1. live' = [view |-> MonthOf(place[1], v), got |-> Page!Absent]
        BY <2>1, <3>1 DEF Page!Load
      <4>2. live' # Page!Absent
        BY <4>1 DEF Page!Absent
      <4> QED BY <4>1, <4>2 DEF LoadRecent, ShownRecent
    <3>2. CASE MonthOf(place[1], v) = MonthOf(place[1], view)
      <4>1. live' = live
        BY <2>1, <3>2 DEF Page!NoLoad
      <4> QED BY <3>2, <4>1 DEF LoadRecent, ShownRecent, Recent
    <3> QED BY <3>1, <3>2
  <2> QED BY <2>3, <2>4 DEF WritesCounted, CustomersHeld, RequestsMade, QuestionPut, ShownWhole
<1>2. CASE Page!Submit
  <2> USE <1>2 DEF Page!Submit
  <2>1. Chosen(place[1], question.op, question.saw)
    BY DEF QuestionPut
  <2>2. Page!Send(question.op, question.saw)
    OBVIOUS
  <2>3. UNCHANGED <<place, view, error, live, superseded, due, server, version, told, wronged, shown>>
    BY DEF Page!Send
  <2>4. /\ RequestsMade'
        /\ place[1] = "Import" => (\A r, s \in out' : r = s) /\ \A r \in out' : r.phase # "done"
    BY <2>1, <2>2, ChangeSent
  <2>5. QuestionPut'
    BY <2>1, <2>3 DEF QuestionPut
  <2>6. OneStepAtATime'
    BY <2>3, <2>4 DEF OneStepAtATime
  <2> QED BY <2>3, <2>4, <2>5, <2>6 DEF WritesCounted, CustomersHeld, ShownWhole, LoadRecent, ShownRecent
<1>3. CASE Page!Dismiss
  BY <1>3 DEF Page!Dismiss, WritesCounted, CustomersHeld, RequestsMade, QuestionPut, ShownWhole, LoadRecent, ShownRecent, OneStepAtATime
<1>4. ASSUME NEW op \in DOMAIN OpsOf(place[1]), Page!Direct(op) PROVE ScreenInv'
  <2> USE <1>4 DEF Page!Direct
  <2>1. Chosen(place[1], op, Page!Seen)
    BY SeenActing DEF Chosen, Page!Choices, Page!Name
  <2>2. UNCHANGED <<place, view, error, live, superseded, due, server, version, told, wronged, question>>
    BY DEF Page!Send
  <2>3. /\ RequestsMade'
        /\ place[1] = "Import" => (\A r, s \in out' : r = s) /\ \A r \in out' : r.phase # "done"
    BY <2>1, ChangeSent
  <2>4. place[1] = "Import" => shown # Page!Absent /\ UNCHANGED shown
    <3> SUFFICES ASSUME place[1] = "Import" PROVE shown # Page!Absent /\ UNCHANGED shown
      OBVIOUS
    <3>1. OpsOf(place[1]) = ImportOps /\ OfferedOn(place[1], Page!Seen) = ImportOffers(Page!Seen)
      BY DEF OpsOf, OfferedOn
    <3>2. Page!Seen # Gone
      BY <2>1, <3>1, StepsOfAnImport DEF Chosen
    <3> QED BY <3>1, <3>2, SeenActing, StepsOfAnImport DEF Stepwise, Page!Name
  <2>5. place[1] = "Customer" => UNCHANGED shown
    <3>1. place[1] = "Customer" => OpsOf(place[1]) = CustomerOps
      BY DEF OpsOf
    <3> QED BY <3>1, CustomersNotPatched DEF Page!Name
  <2>6. UNCHANGED shown \/ \E hoped : shown' = [shown EXCEPT !.row = hoped]
    OBVIOUS
  <2>7. CASE UNCHANGED shown
    BY <2>2, <2>3, <2>4, <2>7 DEF WritesCounted, CustomersHeld, QuestionPut, ShownWhole, LoadRecent, ShownRecent, OneStepAtATime
  <2>8. ASSUME NEW hoped, shown' = [shown EXCEPT !.row = hoped], place[1] \notin {"Import", "Customer"} PROVE ScreenInv'
    <3>1. CASE shown = Page!Absent
      <4>1. shown' = shown
        BY <2>8, <3>1 DEF Page!Absent
      <4> QED BY <2>7, <4>1
    <3>2. CASE shown # Page!Absent
      <4>1. Whole(place[1], shown)
        BY <3>2 DEF ShownWhole
      <4>2. shown' = [view |-> shown.view, row |-> hoped, version |-> shown.version]
        BY <2>8, <4>1 DEF Whole
      <4>3. Whole(place[1], shown')
        BY <2>8, <4>1, <4>2 DEF Whole
      <4>4. ShownWhole' /\ ShownRecent'
        BY <2>2, <4>2, <4>3 DEF ShownWhole, ShownRecent, Recent
      <4> QED BY <2>2, <2>3, <2>8, <4>4 DEF WritesCounted, CustomersHeld, QuestionPut, LoadRecent, OneStepAtATime
    <3> QED BY <3>1, <3>2
  <2> QED BY <2>4, <2>5, <2>6, <2>7, <2>8
<1>5. ASSUME NEW op \in DOMAIN OpsOf(place[1]), Page!Ask(op) PROVE ScreenInv'
  <2> USE <1>5 DEF Page!Ask
  <2>1. Chosen(place[1], op, Page!Seen)
    BY SeenActing DEF Chosen, Page!Choices, Page!Name
  <2>2. QuestionPut'
    BY <2>1 DEF QuestionPut
  <2>3. place[1] = "Import" => shown # Page!Absent
    <3> SUFFICES ASSUME place[1] = "Import" PROVE shown # Page!Absent
      OBVIOUS
    <3>1. OfferedOn(place[1], Page!Seen) = ImportOffers(Page!Seen)
      BY DEF OfferedOn
    <3> QED BY <2>1, <3>1, SeenActing, StepsOfAnImport DEF Chosen
  <2>4. OneStepAtATime'
    BY <2>3 DEF OneStepAtATime
  <2> QED BY <2>2, <2>4 DEF WritesCounted, CustomersHeld, RequestsMade, ShownWhole, LoadRecent, ShownRecent
<1> QED BY <1>1, <1>2, <1>3, <1>4, <1>5

TakenAs(r, stored, n) == [no |-> r.no, op |-> r.op, saw |-> r.saw, phase |-> "done", row |-> stored, version |-> n]
LEMMA RequestsTaken ==
    ASSUME NEW p, NEW m, NEW r, Request(p, m, r), NEW stored, NEW n
    PROVE  [r EXCEPT !.phase = "done", !.row = stored, !.version = n] = TakenAs(r, stored, n)
<1>0. r = [no |-> r.no, op |-> r.op, saw |-> r.saw, phase |-> r.phase, row |-> r.row, version |-> r.version]
  BY DEF Request
<1>1. DOMAIN r = {"no", "op", "saw", "phase", "row", "version"}
  BY <1>0
<1> DEFINE becomes == [r EXCEPT !.phase = "done", !.row = stored, !.version = n]
<1>2. becomes = [k \in DOMAIN r |-> IF k = "version" THEN n ELSE IF k = "row" THEN stored ELSE IF k = "phase" THEN "done" ELSE r[k]]
  BY <1>1
<1>3. DOMAIN becomes = {"no", "op", "saw", "phase", "row", "version"}
  BY <1>1, <1>2
<1>4. becomes.no = r.no /\ becomes.op = r.op /\ becomes.saw = r.saw /\ becomes.phase = "done" /\ becomes.row = stored /\ becomes.version = n
  BY <1>1, <1>2
<1> QED BY <1>2, <1>3, <1>4 DEF TakenAs
(* A request that moves on is still the one that was sent.                    *)
Moved(r, stage) == [r EXCEPT !.phase = stage]
LEMMA RequestsMove ==
    ASSUME NEW p, NEW n, NEW r, Request(p, n, r), NEW stage
    PROVE  Request(p, n, Moved(r, stage)) /\ Moved(r, stage).phase = stage
<1>1. Moved(r, stage) = [no |-> r.no, op |-> r.op, saw |-> r.saw, phase |-> stage, row |-> r.row, version |-> r.version]
  BY DEF Request, Moved
<1> QED BY <1>1 DEF Request

(* A customer remains one, whatever is made of her.                           *)
LEMMA CustomersRemain ==
    ASSUME ScreenInv, NEW op, NEW saw, op \in CustomerOffers(saw), saw \in CustomerRows \cup {Gone},
           NEW becomes \in DoesOn(place[1], op, saw, server), place[1] = "Customer"
    PROVE  becomes \in CustomerRows \cup {Gone}
<1>1. becomes \in CustomerDoes(op, saw, server)
  BY DEF DoesOn
<1>2. server \in CustomerRows \cup {Gone}
  BY DEF ScreenInv, CustomersHeld
<1> QED BY <1>1, <1>2, CustomersStay

LEMMA ServerAnswers ==
    ASSUME ScreenInv,
           (\E r \in out : Page!Take(r) \/ Page!Refuse(r) \/ Page!Lose(r)) \/ \E op \in DOMAIN OpsOf(place[1]) : Page!OtherTab(op)
    PROVE  ScreenInv'
<1> USE DEF ScreenInv, Page!page, Page!rest, Page!Name
<1>1. ASSUME NEW r \in out, Page!Take(r) PROVE ScreenInv'
  <2>1. Request(place[1], version, r) /\ version \in Nat /\ told \in Nat /\ told <= version
    BY DEF RequestsMade, WritesCounted
  <2> DEFINE n == version + 1
  <2>0. n \in Nat /\ version <= n /\ told <= n
    BY <2>1
  <2> HIDE DEF n
  <2>2. PICK stored \in DoesOn(place[1], r.op, r.saw, server) :
           server' = stored /\ out' = (out \ {r}) \cup {[r EXCEPT !.phase = "done", !.row = stored, !.version = n]}
    BY <1>1 DEF Page!Take, n
  <2>3. /\ version' = n
        /\ UNCHANGED <<place, view, shown, error, live, superseded, due, question, told, wronged>>
    BY <1>1 DEF Page!Take, n
  <2> DEFINE taken == TakenAs(r, stored, n)
  <2>4. out' = (out \ {r}) \cup {taken}
    <3>1. [r EXCEPT !.phase = "done", !.row = stored, !.version = n] = taken
      BY <2>1, RequestsTaken
    <3> QED BY <2>2, <3>1
  <2>5. Request(place[1], n, taken)
    <3>1. Chosen(place[1], r.op, r.saw) /\ n \in Nat
      BY <2>0, <2>1 DEF Request
    <3> QED BY <2>0, <3>1 DEF Request, TakenAs
  <2>6. taken.version = n
    BY DEF TakenAs
  <2> HIDE DEF taken
  <2>7. \A q \in out : Request(place[1], n, q)
    <3> SUFFICES ASSUME NEW q \in out PROVE Request(place[1], n, q)
      OBVIOUS
    <3>1. Request(place[1], version, q)
      BY DEF RequestsMade
    <3> QED BY <2>0, <2>1, <3>1 DEF Request
  <2>8. RequestsMade'
    BY <2>3, <2>4, <2>5, <2>7 DEF RequestsMade
  <2>9. CustomersHeld'
    <3>1. ASSUME place[1] = "Customer" PROVE stored \in CustomerRows \cup {Gone}
      <4>1. r.op \in CustomerOffers(r.saw) /\ r.saw \in CustomerRows \cup {Gone}
        BY <2>1, <3>1 DEF Request, Chosen, OfferedOn, Acting
      <4> QED BY <2>2, <3>1, <4>1, CustomersRemain
    <3> QED BY <2>2, <2>3, <3>1 DEF CustomersHeld
  <2>10. OneStepAtATime'
    <3> SUFFICES ASSUME place[1] = "Import" PROVE OneStepAtATime'
      BY <2>3 DEF OneStepAtATime
    <3>1. out' = {taken}
      BY <2>4 DEF OneStepAtATime
    <3>2. shown # Page!Absent /\ live = Page!Absent /\ ~error /\ ~due /\ view = "first"
      BY DEF OneStepAtATime
    <3>3. \A q \in out' : q.version >= told
      BY <2>0, <2>6, <3>1
    <3>4. \A q, s \in out' : q = s
      BY <3>1
    <3> QED BY <2>3, <3>2, <3>3, <3>4 DEF OneStepAtATime
  <2>11. WritesCounted' /\ QuestionPut' /\ ShownWhole' /\ LoadRecent' /\ ShownRecent'
    BY <2>0, <2>1, <2>3 DEF WritesCounted, QuestionPut, ShownWhole, LoadRecent, ShownRecent
  <2> QED BY <2>3, <2>8, <2>9, <2>10, <2>11
<1>2. ASSUME NEW r \in out, NEW stage, stage # "done", Page!Phase(r, stage), ~wronged',
             UNCHANGED <<place, view, shown, error, live, superseded, due, question, server, version, told>>
      PROVE  ScreenInv'
  <2>1. out' = (out \ {r}) \cup {Moved(r, stage)}
    BY <1>2 DEF Page!Phase, Moved
  <2>2. \A q \in out : Request(place[1], version, q)
    BY DEF RequestsMade
  <2>3. Request(place[1], version, Moved(r, stage)) /\ Moved(r, stage).phase = stage
    BY <2>2, RequestsMove
  <2>4. RequestsMade'
    BY <1>2, <2>1, <2>2, <2>3 DEF RequestsMade
  <2>5. OneStepAtATime'
    <3> SUFFICES ASSUME place[1] = "Import" PROVE OneStepAtATime'
      BY <1>2 DEF OneStepAtATime
    <3>1. \A q, s \in out : q = s
      BY DEF OneStepAtATime
    <3>2. out' = {Moved(r, stage)}
      BY <2>1, <3>1
    <3>3. shown # Page!Absent
      BY <1>2 DEF OneStepAtATime
    <3> QED BY <1>2, <2>3, <3>2, <3>3 DEF OneStepAtATime
  <2> QED BY <1>2, <2>4, <2>5 DEF WritesCounted, CustomersHeld, QuestionPut, ShownWhole, LoadRecent, ShownRecent
<1>3. ASSUME NEW r \in out, Page!Refuse(r) PROVE ScreenInv'
  <2>1. Chosen(place[1], r.op, r.saw) /\ place[1] \in PageNames
    BY <1>3, PagesRead DEF RequestsMade, Request
  <2>2. ASSUME server = r.saw PROVE OpsOf(place[1])[r.op].doubtful
    <3>1. DoesOn(place[1], r.op, r.saw, r.saw) = {}
      BY <1>3, <2>2 DEF Page!Refuse
    <3>2. Met(place[1], r.op, r.saw)
      <4>1. CASE place[1] # "Customer"
        BY <2>1, <4>1, OffersMet DEF Chosen
      <4>2. CASE place[1] = "Customer"
        <5>1. r.op \in CustomerOffers(r.saw) /\ Acting(r.saw)
          BY <2>1, <4>2 DEF Chosen, OfferedOn
        <5> QED BY <4>2, <5>1, CustomersMet DEF Acting
      <4> QED BY <4>1, <4>2
    <3> QED BY <2>1, <3>1, <3>2 DEF Met, Chosen
  <2>3. ~wronged'
    BY <1>3, <2>2 DEF Page!Refuse
  <2> QED BY <1>2, <1>3, <2>3 DEF Page!Refuse
<1>4. ASSUME NEW r \in out, Page!Lose(r) PROVE ScreenInv'
  BY <1>2, <1>4 DEF Page!Lose
<1>5. ASSUME NEW op \in DOMAIN OpsOf(place[1]), Page!OtherTab(op) PROVE ScreenInv'
  <2>0. /\ version' = version + 1 /\ op \in OfferedOn(place[1], server)
        /\ \E row \in DoesOn(place[1], op, server, server) : server' = row
        /\ UNCHANGED <<place, view, shown, error, live, superseded, due, question, out, told, wronged>>
    BY <1>5 DEF Page!OtherTab
  <2>1. version \in Nat /\ told \in Nat /\ told <= version
    BY DEF WritesCounted
  <2>2. CustomersHeld'
    <3> SUFFICES ASSUME place[1] = "Customer" PROVE server' \in CustomerRows \cup {Gone}
      BY <2>0 DEF CustomersHeld
    <3>1. op \in CustomerOffers(server) /\ server \in CustomerRows \cup {Gone}
      BY <2>0 DEF OfferedOn, CustomersHeld
    <3> QED BY <2>0, <3>1, CustomersRemain
  <2>3. RequestsMade'
    <3> DEFINE n == version + 1
    <3>0. n \in Nat /\ version <= n /\ version' = n
      BY <2>0, <2>1
    <3> HIDE DEF n
    <3>1. ASSUME NEW q \in out PROVE Request(place[1], n, q)
      <4>1. Request(place[1], version, q)
        BY DEF RequestsMade
      <4> QED BY <2>1, <3>0, <4>1 DEF Request
    <3> QED BY <2>0, <3>0, <3>1 DEF RequestsMade
  <2> QED BY <2>0, <2>1, <2>2, <2>3 DEF WritesCounted, QuestionPut, ShownWhole, LoadRecent, ShownRecent, OneStepAtATime
<1> QED BY <1>1, <1>3, <1>4, <1>5

(* An answered row put in the place of the one on the screen.                 *)
Patched(a, r) == [a EXCEPT !.row = r.row, !.version = r.version]
LEMMA RowsPatched ==
    ASSUME NEW p, p # "Customer", NEW a, Whole(p, a), NEW n, NEW r, Request(p, n, r)
    PROVE  Whole(p, Patched(a, r)) /\ Patched(a, r).view = a.view /\ Patched(a, r).version = r.version
<1>1. DOMAIN a = {"view", "row", "version"}
  BY DEF Whole
<1>2. Patched(a, r) = [k \in DOMAIN a |-> IF k = "version" THEN r.version ELSE IF k = "row" THEN r.row ELSE a[k]]
  BY <1>1 DEF Patched
<1>3. DOMAIN Patched(a, r) = {"view", "row", "version"}
  BY <1>1, <1>2
<1>4. Patched(a, r).view = a.view /\ Patched(a, r).row = r.row /\ Patched(a, r).version = r.version
  BY <1>1, <1>2
<1>5. Patched(a, r) = [view |-> Patched(a, r).view, row |-> Patched(a, r).row, version |-> Patched(a, r).version]
  BY <1>2, <1>3, <1>4
<1> QED BY <1>4, <1>5 DEF Whole, Request

LEMMA PagesKnowDomains == \A c : Page!Domain(c) = Domain(c)
BY DEF Domain, Page!Domain, CategoryCalls, Page!CategoryCalls, PaymentMethodCalls, Page!PaymentMethodCalls,
      RecurringCalls, Page!RecurringCalls, SubscriptionCalls, Page!SubscriptionCalls, SavingCalls, Page!SavingCalls,
      AssetCalls, Page!AssetCalls, FamilyCalls, Page!FamilyCalls, AlertCalls, Page!AlertCalls, SettingCalls,
      Page!SettingCalls, LookCalls, Page!LookCalls, ExpenseCalls, Page!ExpenseCalls, IncomeCalls, Page!IncomeCalls,
      BudgetCalls, Page!BudgetCalls, ReminderCalls, Page!ReminderCalls, BankCalls, Page!BankCalls, ReconcileCalls,
      Page!ReconcileCalls, LoanCalls, Page!LoanCalls, CreditCalls, Page!CreditCalls, CardCalls, Page!CardCalls,
      ImportCalls, Page!ImportCalls, DocumentCalls, Page!DocumentCalls, ConnectionCalls, Page!ConnectionCalls,
      CustomerCalls, Page!CustomerCalls, AssistantCalls, Page!AssistantCalls, JourneyCalls, Page!JourneyCalls

LEMMA ChangesTold ==
    ASSUME ScreenInv, NEW r \in out, Page!Answered(r)
    PROVE  ScreenInv'
<1> DEFINE p == place[1]
           op == OpsOf(p)[r.op]
<1>1. /\ r.phase = "done" /\ told' = (IF r.version > told THEN r.version ELSE told)
      /\ question' = Page!Absent \/ question' = question
      /\ due' <=> (due \/ Page!Notices(Domain(op.call)))
      /\ IF op.reloads THEN Page!Load(Page!Month(view)) ELSE live' = live
      /\ shown' = (IF op.patches /\ shown # Page!Absent THEN Patched(shown, r) ELSE shown)
      /\ out' = out \ {r}
      /\ UNCHANGED <<place, view, error, server, version, happened, wronged>>
  <2>1. /\ r.phase = "done" /\ told' = (IF r.version > told THEN r.version ELSE told) /\ out' = out \ {r}
        /\ question' = Page!Absent \/ question' = question
        /\ UNCHANGED <<place, view, error, server, version, happened, wronged>>
    BY DEF Page!Answered
  <2>2. due' <=> (due \/ Page!Notices(Domain(op.call)))
    BY PagesKnowDomains DEF Page!Answered, Page!Name
  <2>3. IF op.reloads THEN Page!Load(Page!Month(view)) ELSE live' = live
    BY DEF Page!Answered, Page!Name, Page!NoLoad
  <2>4. shown' = (IF op.patches /\ shown # Page!Absent THEN Patched(shown, r) ELSE shown)
    BY DEF Page!Answered, Page!Name, Patched
  <2> HIDE DEF op
  <2> QED BY <2>1, <2>2, <2>3, <2>4
<1>2. /\ \A q \in out : Request(p, version, q)
      /\ version \in Nat /\ told \in Nat /\ told <= version /\ r.version \in Nat /\ r.version <= version
      /\ r.op \in DOMAIN OpsOf(p)
  BY DEF ScreenInv, RequestsMade, WritesCounted, Request, Chosen
<1>3. told' \in Nat /\ told' <= version /\ told' >= told /\ told' >= r.version
  BY <1>1, <1>2
<1>4. p = "Customer" => ~op.patches
  <2>1. p = "Customer" => OpsOf(p) = CustomerOps
    BY DEF OpsOf
  <2> QED BY <1>2, <2>1, CustomersNotPatched
<1>5. p = "Import" => ~op.reloads /\ op.patches /\ ~Page!Notices(Domain(op.call))
  <2>1. p = "Import" => OpsOf(p) = ImportOps
    BY DEF OpsOf
  <2>2. p = "Import" => place[2] = {}
    BY PagesRead DEF ScreenInv
  <2> QED BY <1>2, <2>1, <2>2, StepsOfAnImport DEF Stepwise, Page!Notices
<1>6. p # "Import" => op.reloads \/ Page!Notices(Domain(op.call))
  BY <1>2, OpsHeard DEF ScreenInv, Heard, Page!Notices
<1>7. op.reloads => live' = [view |-> MonthOf(p, view), got |-> Page!Absent] /\ live' # Page!Absent
  <2>1. op.reloads => live' = [view |-> MonthOf(p, view), got |-> Page!Absent]
    BY <1>1 DEF Page!Load, MonthOf, Page!Month, Page!Name, Page!First
  <2> QED BY <2>1 DEF Page!Absent
<1>8. ASSUME shown # Page!Absent PROVE Whole(p, shown') /\ shown'.view = shown.view
  <2>1. Whole(p, shown)
    BY <1>8 DEF ScreenInv, ShownWhole
  <2>2. CASE op.patches
    <3>1. shown' = Patched(shown, r)
      BY <1>1, <1>8, <2>2
    <3> HIDE DEF p
    <3> QED BY <1>2, <1>4, <2>1, <2>2, <3>1, RowsPatched
  <2>3. CASE ~op.patches
    BY <1>1, <2>1, <2>3
  <2> QED BY <2>2, <2>3
<1>9. shown = Page!Absent => shown' = shown
  BY <1>1
<1> HIDE DEF op
<1>10. WritesCounted' /\ CustomersHeld' /\ RequestsMade' /\ QuestionPut' /\ ShownWhole'
  <2>1. WritesCounted' /\ CustomersHeld' /\ RequestsMade'
    BY <1>1, <1>2, <1>3 DEF ScreenInv, WritesCounted, CustomersHeld, RequestsMade
  <2>2. QuestionPut'
    BY <1>1 DEF ScreenInv, QuestionPut
  <2>3. ShownWhole'
    BY <1>1, <1>8, <1>9 DEF ShownWhole
  <2> QED BY <2>1, <2>2, <2>3
<1>11. CASE p = "Import"
  <2>1. out = {r} /\ view = "first" /\ live = Page!Absent /\ ~error /\ ~due /\ shown # Page!Absent
    BY <1>11 DEF ScreenInv, OneStepAtATime
  <2>2. live' = Page!Absent /\ ~due' /\ shown' = Patched(shown, r) /\ out' = {}
    BY <1>1, <1>5, <1>11, <2>1
  <2>3. Recent(p, view, told, due, shown) /\ Whole(p, shown)
    BY <2>1 DEF ScreenInv, ShownRecent, ShownWhole
  <2>4. Whole(p, Patched(shown, r)) /\ Patched(shown, r).view = shown.view /\ Patched(shown, r).version = r.version
    <3> HIDE DEF p
    <3> QED BY <1>2, <1>11, <2>3, RowsPatched
  <2>5. r.version >= told
    BY <1>1, <1>11 DEF ScreenInv, OneStepAtATime
  <2>6. told' = r.version
    BY <1>1, <1>2, <2>5
  <2>7. Recent(p, view, told', due', shown')
    BY <1>2, <2>2, <2>3, <2>4, <2>6 DEF Recent
  <2>8. ShownRecent' /\ LoadRecent'
    BY <1>1, <2>2, <2>7 DEF ShownRecent, LoadRecent
  <2>9. OneStepAtATime'
    <3>1. shown' # Page!Absent
      BY <2>2, <2>4 DEF Whole, Page!Absent
    <3> QED BY <1>1, <2>1, <2>2, <3>1 DEF OneStepAtATime
  <2> QED BY <1>1, <1>10, <2>8, <2>9 DEF ScreenInv
<1>12. CASE p # "Import" /\ op.reloads
  <2>1. LoadRecent' /\ ShownRecent' /\ OneStepAtATime'
    BY <1>1, <1>7, <1>12 DEF LoadRecent, ShownRecent, OneStepAtATime
  <2> QED BY <1>1, <1>10, <2>1 DEF ScreenInv
<1>13. CASE p # "Import" /\ ~op.reloads
  <2>1. due' /\ live' = live
    BY <1>1, <1>6, <1>13
  <2>2. LoadRecent'
    BY <1>1, <2>1 DEF ScreenInv, LoadRecent, Recent
  <2>3. ShownRecent'
    <3> SUFFICES ASSUME live = Page!Absent, ~error PROVE Recent(p, view, told', due', shown')
      BY <1>1, <2>1 DEF ShownRecent
    <3>1. Recent(p, view, told, due, shown)
      BY DEF ScreenInv, ShownRecent
    <3>2. Whole(p, shown') /\ shown'.view = shown.view
      BY <1>8, <1>9, <3>1 DEF Recent
    <3> QED BY <2>1, <3>1, <3>2 DEF Recent
  <2>4. OneStepAtATime'
    BY <1>1, <1>13 DEF OneStepAtATime
  <2> QED BY <1>1, <1>10, <2>2, <2>3, <2>4 DEF ScreenInv
<1> QED BY <1>11, <1>12, <1>13

LEMMA FailuresTold ==
    ASSUME ScreenInv, NEW r \in out, Page!Failed(r)
    PROVE  ScreenInv'
<1>1. /\ out' = out \ {r}
      /\ question' = Page!Absent \/ question' = question \/ (question # Page!Absent /\ question' = [question EXCEPT !.sent = 0])
      /\ UNCHANGED <<place, view, shown, error, live, superseded, due, server, version, happened, told, wronged>>
  BY DEF Page!Failed
<1>2. RequestsMade'
  BY <1>1 DEF ScreenInv, RequestsMade
<1>3. QuestionPut'
  BY <1>1 DEF ScreenInv, QuestionPut
<1>4. OneStepAtATime'
  BY <1>1 DEF ScreenInv, OneStepAtATime
<1> QED BY <1>1, <1>2, <1>3, <1>4 DEF ScreenInv, WritesCounted, CustomersHeld, ShownWhole, LoadRecent, ShownRecent

(* Whatever page, and however often one presses, asks, looks, loses an answer *)
(* or has another tab: a page at rest shows what its filters ask for and what *)
(* its own changes made, and no offer that still stood is refused             *)
(* (hooks/useAsync.ts, services/api.ts, the pages' conditions on a row).      *)
THEOREM PagesKeepUp == SiteSpec => []SiteHolds
<1>1. ScreenInv /\ [SiteNext]_siteVars => ScreenInv'
  <2> SUFFICES ASSUME ScreenInv, [SiteNext]_siteVars PROVE ScreenInv'
    OBVIOUS
  <2>1. CASE SiteNext
    BY <2>1, AnswersShown, ChoicesMade, ServerAnswers, ChangesTold, FailuresTold DEF SiteNext, Page!ScreenNext, Page!Name
  <2>2. CASE UNCHANGED siteVars
    BY <2>2 DEF siteVars, ScreenInv, WritesCounted, CustomersHeld, RequestsMade, QuestionPut, ShownWhole, LoadRecent, ShownRecent, OneStepAtATime
  <2> QED BY <2>1, <2>2
<1>2. SiteSpec => []ScreenInv
  BY <1>1, ScreenStarts, PTL DEF SiteSpec
<1> QED BY <1>2, ScreenTells, PTL
=============================================================================
