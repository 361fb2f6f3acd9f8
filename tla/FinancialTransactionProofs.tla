--------------------- MODULE FinancialTransactionProofs ---------------------
(***************************************************************************)
(* The invariants of FinancialTransaction for any number of requests and   *)
(* owners, and that it implements AtomicLedger.                            *)
(***************************************************************************)
EXTENDS FinancialTransaction, TLAPS

(* An open transaction is the holder of its owner's lock, and no one else  *)
(* is.                                                                     *)
LockHolderIsOpen ==
    /\ \A r \in Requests : phase[r] = "open" => lock[OwnerOf[r]] = r
    /\ \A o \in Owners : lock[o] # NoRequest => OwnerOf[lock[o]] = o /\ phase[lock[o]] = "open"

(* While a transaction is open nothing is committed under it: what it sees *)
(* is what is in the books, and its own changes.                           *)
ViewIsCurrent == \A r \in Requests : phase[r] = "open" => view[r] = ledger[OwnerOf[r]] \cup Own(r)

(* A request that has not reached the database has done nothing.           *)
FreshRequest ==
    \A r \in Requests : phase[r] \in {"new", "queued"} => writes[r] = 0 /\ effect[r] = "none" /\ answer[r] = "none"

(* Where a request is when its effect has been tried and its answer sent.  *)
AnswerMatchesPhase ==
    \A r \in Requests :
        /\ effect[r] = "ran" => phase[r] \in {"committed", "done", "unanswered"}
        /\ effect[r] = "broke" => phase[r] = "failed"
        /\ answer[r] = "ok" => phase[r] = "done" /\ effect[r] # "deferred"

Inv ==
    /\ TypeOK
    /\ LockHolderIsOpen
    /\ ViewIsCurrent
    /\ FreshRequest
    /\ AnswerMatchesPhase
    /\ BooksAreCommittedRequests

USE OwnerOfAssumption, MutationsAssumption, NoRequestAssumption, MaxWritesAssumption, MaxCrashesAssumption

(* The variables start in their types.                                     *)
LEMMA InitTypeOK == Init => TypeOK
BY DEF Init, TypeOK, Phases

(* Every action of FinancialTransaction keeps the variables in their       *)
(* types.                                                                  *)
LEMMA NextTypeOK == TypeOK /\ [Next]_vars => TypeOK'
<1> SUFFICES ASSUME TypeOK, [Next]_vars PROVE TypeOK'
    OBVIOUS
<1>1. ASSUME NEW r \in Requests, Progress(r) PROVE TypeOK'
  <2> USE <1>1 DEF TypeOK, Phases
  <2>1. CASE Arrive(r) BY <2>1 DEF Arrive
  <2>2. CASE Lock(r) BY <2>2 DEF Lock
  <2>3. CASE Change(r)
    <3>1. writes[r] + 1 \in 1..MaxWrites BY <2>3 DEF Change
    <3>2. <<r, writes[r] + 1>> \in Changes BY <3>1 DEF Changes
    <3> QED BY <2>3, <3>1, <3>2 DEF Change
  <2>4. CASE Defer(r) BY <2>4 DEF Defer
  <2>5. CASE Respond(r) BY <2>5 DEF Respond
  <2>6. CASE Commit(r) BY <2>6 DEF Commit
  <2>7. CASE RunEffect(r) BY <2>7 DEF RunEffect
  <2>8. CASE Flush(r) BY <2>8 DEF Flush
  <2> QED BY <1>1, <2>1, <2>2, <2>3, <2>4, <2>5, <2>6, <2>7, <2>8 DEF Progress
<1>2. ASSUME NEW r \in Requests, Abort(r) PROVE TypeOK'
  BY <1>2 DEF TypeOK, Phases, Abort
<1>3. ASSUME NEW r \in Requests, BreakEffect(r) PROVE TypeOK'
  BY <1>3 DEF TypeOK, Phases, BreakEffect
<1>4. CASE Crash
  BY <1>4 DEF TypeOK, Phases, Crash
<1>5. CASE UNCHANGED vars
  BY <1>5 DEF TypeOK, vars
<1> QED BY <1>1, <1>2, <1>3, <1>4, <1>5 DEF Next, AllEnded

(* The variables always have their types.                                  *)
THEOREM TypeCorrect == Spec => []TypeOK
BY InitTypeOK, NextTypeOK, PTL DEF Spec
-----------------------------------------------------------------------------
(* Committing adds a request's own changes to the books; nothing else      *)
(* changes them or the set of committed requests.                          *)
LEMMA InitInv == Init => Inv
<1> SUFFICES ASSUME Init PROVE Inv
    OBVIOUS
<1>1. TypeOK BY InitTypeOK
<1>2. LockHolderIsOpen BY DEF Init, LockHolderIsOpen
<1>3. ViewIsCurrent BY DEF Init, ViewIsCurrent
<1>4. FreshRequest BY DEF Init, FreshRequest
<1>5. AnswerMatchesPhase BY DEF Init, AnswerMatchesPhase
<1>6. \A r \in Requests : ~Committed(r) BY DEF Init, Committed
<1>7. BooksAreCommittedRequests BY <1>6 DEF Init, BooksAreCommittedRequests
<1> QED BY <1>1, <1>2, <1>3, <1>4, <1>5, <1>7 DEF Inv

(* A step that leaves the books, the counts of writes and the committed    *)
(* requests alone keeps the books equal to the committed requests.         *)
LEMMA BooksUntouched ==
    ASSUME BooksAreCommittedRequests, ledger' = ledger,
           \A r \in Requests : Committed(r)' <=> Committed(r),
           \A r \in Requests : Committed(r) => writes'[r] = writes[r]
    PROVE  BooksAreCommittedRequests'
<1> SUFFICES ASSUME NEW o \in Owners
             PROVE ledger'[o] = UNION {Own(r)' : r \in {q \in Requests : OwnerOf[q] = o /\ Committed(q)'}}
    BY DEF BooksAreCommittedRequests
<1> DEFINE mine == {q \in Requests : OwnerOf[q] = o /\ Committed(q)}
<1>1. mine = {q \in Requests : OwnerOf[q] = o /\ Committed(q)'} OBVIOUS
<1>2. \A r \in mine : Own(r)' = Own(r) BY DEF Own
<1>3. {Own(r)' : r \in mine} = {Own(r) : r \in mine} BY <1>2
<1>4. ledger[o] = UNION {Own(r) : r \in mine} BY DEF BooksAreCommittedRequests
<1> QED BY <1>1, <1>3, <1>4

(* The holder of an owner's lock stays the one open transaction.           *)
LEMMA LockStep == Inv /\ [Next]_vars => LockHolderIsOpen'
<1> SUFFICES ASSUME Inv, [Next]_vars PROVE LockHolderIsOpen'
    OBVIOUS
<1> USE DEF Inv, LockHolderIsOpen, TypeOK
<1>1. ASSUME NEW r \in Requests, Progress(r) PROVE LockHolderIsOpen'
  <2>1. CASE Arrive(r) BY <2>1 DEF Arrive
  <2>2. CASE Lock(r) BY <2>2 DEF Lock
  <2>3. CASE Change(r) BY <2>3 DEF Change
  <2>4. CASE Defer(r) BY <2>4 DEF Defer
  <2>5. CASE Respond(r) BY <2>5 DEF Respond
  <2>6. CASE Commit(r) BY <2>6 DEF Commit
  <2>7. CASE RunEffect(r) BY <2>7 DEF RunEffect
  <2>8. CASE Flush(r) BY <2>8 DEF Flush
  <2> QED BY <1>1, <2>1, <2>2, <2>3, <2>4, <2>5, <2>6, <2>7, <2>8 DEF Progress
<1>2. ASSUME NEW r \in Requests, Abort(r) PROVE LockHolderIsOpen'
  BY <1>2 DEF Abort
<1>3. ASSUME NEW r \in Requests, BreakEffect(r) PROVE LockHolderIsOpen'
  BY <1>3 DEF BreakEffect
<1>4. CASE Crash BY <1>4 DEF Crash
<1>5. CASE UNCHANGED vars BY <1>5 DEF vars
<1> QED BY <1>1, <1>2, <1>3, <1>4, <1>5 DEF Next, AllEnded

(* Only the holder of the lock commits, so an open transaction's view      *)
(* stays current.                                                          *)
LEMMA ViewStep == Inv /\ [Next]_vars => ViewIsCurrent'
<1> SUFFICES ASSUME Inv, [Next]_vars, NEW q \in Requests, phase'[q] = "open"
             PROVE  view'[q] = ledger'[OwnerOf[q]] \cup Own(q)'
    BY DEF ViewIsCurrent
<1> USE DEF Inv, TypeOK
<1>1. ASSUME NEW r \in Requests, Progress(r) PROVE view'[q] = ledger'[OwnerOf[q]] \cup Own(q)'
  <2>1. CASE Arrive(r) BY <2>1 DEF Arrive, ViewIsCurrent, Own
  <2>2. CASE Lock(r)
    <3>1. CASE q = r
      <4>1. writes'[q] = 0 BY <2>2, <3>1 DEF Lock, FreshRequest
      <4>2. Own(q)' = {} BY <4>1 DEF Own
      <4> QED BY <2>2, <3>1, <4>2 DEF Lock
    <3>2. CASE q # r BY <2>2, <3>2 DEF Lock, ViewIsCurrent, Own
    <3> QED BY <3>1, <3>2
  <2>3. CASE Change(r)
    <3>1. CASE q = r
      <4>1. writes[r] \in Nat /\ writes'[r] = writes[r] + 1 BY <2>3 DEF Change
      <4>2. 1..(writes[r] + 1) = (1..writes[r]) \cup {writes[r] + 1} BY <4>1
      <4>3. Own(r)' = Own(r) \cup {<<r, writes[r] + 1>>} BY <4>1, <4>2 DEF Own
      <4>4. view[r] = ledger[OwnerOf[r]] \cup Own(r) BY <2>3 DEF Change, ViewIsCurrent
      <4> QED BY <2>3, <3>1, <4>3, <4>4 DEF Change
    <3>2. CASE q # r BY <2>3, <3>2 DEF Change, ViewIsCurrent, Own
    <3> QED BY <3>1, <3>2
  <2>4. CASE Defer(r) BY <2>4 DEF Defer, ViewIsCurrent, Own
  <2>5. CASE Respond(r) BY <2>5 DEF Respond, ViewIsCurrent, Own
  <2>6. CASE Commit(r)
    <3>1. q # r /\ phase[q] = "open" BY <2>6 DEF Commit
    <3>2. OwnerOf[q] # OwnerOf[r] BY <2>6, <3>1 DEF Commit, LockHolderIsOpen
    <3> QED BY <2>6, <3>1, <3>2 DEF Commit, ViewIsCurrent, Own
  <2>7. CASE RunEffect(r) BY <2>7 DEF RunEffect, ViewIsCurrent, Own
  <2>8. CASE Flush(r) BY <2>8 DEF Flush, ViewIsCurrent, Own
  <2> QED BY <1>1, <2>1, <2>2, <2>3, <2>4, <2>5, <2>6, <2>7, <2>8 DEF Progress
<1>2. ASSUME NEW r \in Requests, Abort(r) PROVE view'[q] = ledger'[OwnerOf[q]] \cup Own(q)'
  BY <1>2 DEF Abort, ViewIsCurrent, Own
<1>3. ASSUME NEW r \in Requests, BreakEffect(r) PROVE view'[q] = ledger'[OwnerOf[q]] \cup Own(q)'
  BY <1>3 DEF BreakEffect, ViewIsCurrent, Own
<1>4. CASE Crash BY <1>4 DEF Crash
<1>5. CASE UNCHANGED vars BY <1>5 DEF vars, ViewIsCurrent, Own
<1> QED BY <1>1, <1>2, <1>3, <1>4, <1>5 DEF Next, AllEnded

(* Where a request is decides what it can have done and been told.         *)
LEMMA PhaseStep == Inv /\ [Next]_vars => FreshRequest' /\ AnswerMatchesPhase'
<1> SUFFICES ASSUME Inv, [Next]_vars PROVE FreshRequest' /\ AnswerMatchesPhase'
    OBVIOUS
<1> USE DEF Inv, TypeOK, FreshRequest, AnswerMatchesPhase
<1>1. ASSUME NEW r \in Requests, Progress(r) PROVE FreshRequest' /\ AnswerMatchesPhase'
  <2>1. CASE Arrive(r) BY <2>1 DEF Arrive
  <2>2. CASE Lock(r) BY <2>2 DEF Lock
  <2>3. CASE Change(r) BY <2>3 DEF Change
  <2>4. CASE Defer(r) BY <2>4 DEF Defer
  <2>5. CASE Respond(r) BY <2>5 DEF Respond
  <2>6. CASE Commit(r) BY <2>6 DEF Commit
  <2>7. CASE RunEffect(r) BY <2>7 DEF RunEffect
  <2>8. CASE Flush(r) BY <2>8 DEF Flush
  <2> QED BY <1>1, <2>1, <2>2, <2>3, <2>4, <2>5, <2>6, <2>7, <2>8 DEF Progress
<1>2. ASSUME NEW r \in Requests, Abort(r) PROVE FreshRequest' /\ AnswerMatchesPhase'
  BY <1>2 DEF Abort
<1>3. ASSUME NEW r \in Requests, BreakEffect(r) PROVE FreshRequest' /\ AnswerMatchesPhase'
  BY <1>3 DEF BreakEffect
<1>4. CASE Crash BY <1>4 DEF Crash
<1>5. CASE UNCHANGED vars BY <1>5 DEF vars
<1> QED BY <1>1, <1>2, <1>3, <1>4, <1>5 DEF Next, AllEnded

(* Committing adds exactly the request's own changes to its owner's books. *)
LEMMA CommitAddsOwn ==
    ASSUME Inv, NEW r \in Requests, Commit(r)
    PROVE  /\ ledger' = [ledger EXCEPT ![OwnerOf[r]] = @ \cup Own(r)]
           /\ ~Committed(r) /\ Committed(r)'
           /\ \A q \in Requests : q # r => (Committed(q)' <=> Committed(q))
           /\ UNCHANGED writes
<1>1. view[r] = ledger[OwnerOf[r]] \cup Own(r) BY DEF Inv, ViewIsCurrent, Commit
<1>2. effect[r] # "broke" BY DEF Inv, AnswerMatchesPhase, Commit
<1> QED BY <1>1, <1>2 DEF Inv, TypeOK, Commit, Committed

(* The books stay equal to the committed requests.                         *)
LEMMA BooksStep == Inv /\ [Next]_vars => BooksAreCommittedRequests'
<1> SUFFICES ASSUME Inv, [Next]_vars PROVE BooksAreCommittedRequests'
    OBVIOUS
<1> DEFINE Untouched == /\ ledger' = ledger
                        /\ \A q \in Requests : Committed(q)' <=> Committed(q)
                        /\ \A q \in Requests : Committed(q) => writes'[q] = writes[q]
<1>0. ASSUME Untouched PROVE BooksAreCommittedRequests'
  BY <1>0, BooksUntouched DEF Inv
<1> USE DEF Inv, TypeOK
<1>1. ASSUME NEW r \in Requests, Progress(r) PROVE BooksAreCommittedRequests'
  <2>1. CASE Arrive(r)
    <3> Untouched BY <2>1 DEF Arrive, Committed
    <3> QED BY <1>0
  <2>2. CASE Lock(r)
    <3> Untouched BY <2>2 DEF Lock, Committed
    <3> QED BY <1>0
  <2>3. CASE Change(r)
    <3>1. ~Committed(r) BY <2>3 DEF Change, Committed, AnswerMatchesPhase
    <3> Untouched BY <2>3, <3>1 DEF Change, Committed
    <3> QED BY <1>0
  <2>4. CASE Defer(r)
    <3> Untouched BY <2>4 DEF Defer, Committed
    <3> QED BY <1>0
  <2>5. CASE Respond(r)
    <3> Untouched BY <2>5 DEF Respond, Committed
    <3> QED BY <1>0
  <2>6. CASE Commit(r)
    <3> DEFINE before(o) == {p \in Requests : OwnerOf[p] = o /\ Committed(p)}
               after(o) == {p \in Requests : OwnerOf[p] = o /\ Committed(p)'}
    <3>1. ASSUME NEW o \in Owners, o # OwnerOf[r]
          PROVE  ledger'[o] = UNION {Own(q)' : q \in after(o)}
      <4>1. after(o) = before(o) BY <2>6, <3>1, CommitAddsOwn
      <4>2. \A q \in before(o) : Own(q)' = Own(q) BY <2>6, CommitAddsOwn DEF Own
      <4>3. ledger'[o] = ledger[o] BY <2>6, <3>1, CommitAddsOwn
      <4>4. ledger[o] = UNION {Own(q) : q \in before(o)} BY DEF BooksAreCommittedRequests
      <4> HIDE DEF before, after
      <4> QED BY <4>1, <4>2, <4>3, <4>4
    <3>2. ASSUME NEW o \in Owners, o = OwnerOf[r]
          PROVE  ledger'[o] = UNION {Own(q)' : q \in after(o)}
      <4>1. after(o) = before(o) \cup {r} BY <2>6, <3>2, CommitAddsOwn
      <4>2. \A q \in before(o) \cup {r} : Own(q)' = Own(q) BY <2>6, CommitAddsOwn DEF Own
      <4>3. ledger'[o] = ledger[o] \cup Own(r) BY <2>6, <3>2, CommitAddsOwn
      <4>4. ledger[o] = UNION {Own(q) : q \in before(o)} BY DEF BooksAreCommittedRequests
      <4> HIDE DEF before, after
      <4>5. \A x : x \in UNION {Own(q)' : q \in after(o)} <=> \E q \in after(o) : x \in Own(q)'
        OBVIOUS
      <4>6. \A x : x \in UNION {Own(q) : q \in before(o)} <=> \E q \in before(o) : x \in Own(q)
        OBVIOUS
      <4>7. \A x : (\E q \in after(o) : x \in Own(q)') <=> (x \in Own(r) \/ \E q \in before(o) : x \in Own(q))
        BY <4>1, <4>2
      <4> QED BY <4>3, <4>4, <4>5, <4>6, <4>7
    <3> QED BY <3>1, <3>2 DEF BooksAreCommittedRequests
  <2>7. CASE RunEffect(r)
    <3> Untouched BY <2>7 DEF RunEffect, Committed
    <3> QED BY <1>0
  <2>8. CASE Flush(r)
    <3> Untouched BY <2>8 DEF Flush, Committed
    <3> QED BY <1>0
  <2> QED BY <1>1, <2>1, <2>2, <2>3, <2>4, <2>5, <2>6, <2>7, <2>8 DEF Progress
<1>2. ASSUME NEW r \in Requests, Abort(r) PROVE BooksAreCommittedRequests'
  <2> Untouched BY <1>2 DEF Abort, Committed
  <2> QED BY <1>0
<1>3. ASSUME NEW r \in Requests, BreakEffect(r) PROVE BooksAreCommittedRequests'
  <2> Untouched BY <1>3 DEF BreakEffect, Committed
  <2> QED BY <1>0
<1>4. CASE Crash
  <2> Untouched BY <1>4 DEF Crash, Committed
  <2> QED BY <1>0
<1>5. CASE UNCHANGED vars
  <2> Untouched BY <1>5 DEF vars, Committed
  <2> QED BY <1>0
<1> QED BY <1>1, <1>2, <1>3, <1>4, <1>5 DEF Next, AllEnded

(* The inductive invariant holds throughout.                               *)
THEOREM Invariance == Spec => []Inv
<1>1. Inv /\ [Next]_vars => Inv'
  BY NextTypeOK, LockStep, ViewStep, PhaseStep, BooksStep DEF Inv
<1> QED BY <1>1, InitInv, PTL DEF Spec

(* The books of every owner hold exactly the changes of the owner's        *)
(* committed requests, for any number of requests and owners.              *)
THEOREM BooksCorrect == Spec => []BooksAreCommittedRequests
<1>1. Inv => BooksAreCommittedRequests BY DEF Inv
<1> QED BY <1>1, Invariance, PTL

(* What was acknowledged is in the books.                                  *)
THEOREM AcknowledgedDurable == Spec => []AcknowledgedIsDurable
<1>1. Inv => AcknowledgedIsDurable
  <2> SUFFICES ASSUME Inv, NEW r \in Requests, answer[r] = "ok"
               PROVE  Own(r) \subseteq ledger[OwnerOf[r]]
      BY DEF AcknowledgedIsDurable
  <2>1. Committed(r) BY DEF Inv, AnswerMatchesPhase, Committed
  <2> QED BY <2>1 DEF Inv, BooksAreCommittedRequests
<1> QED BY <1>1, Invariance, PTL

(* A deferred effect runs only for a committed transaction, and before its *)
(* success is answered.                                                    *)
THEOREM EffectsOrdered == Spec => []EffectsFollowCommit
<1>1. Inv => EffectsFollowCommit BY DEF Inv, AnswerMatchesPhase, EffectsFollowCommit, Committed
<1> QED BY <1>1, Invariance, PTL
-----------------------------------------------------------------------------
(* Every step of the machinery is a step of AtomicLedger or none: Commit   *)
(* applies the request, Flush answers it.                                  *)
LEMMA StepIsAbstractStep ==
    Inv /\ Inv' /\ [Next]_vars => [Promise!AbstractNext]_(Promise!abstractVars)
<1> SUFFICES ASSUME Inv, Inv', [Next]_vars
             PROVE  Promise!AbstractNext \/ UNCHANGED Promise!abstractVars
    OBVIOUS
<1> DEFINE appliedNow == [r \in Requests |-> IF Committed(r) THEN writes[r] ELSE MaxWrites + 1]
           answeredNow == {r \in Requests : answer[r] = "ok"}
           Silent == /\ ledger' = ledger
                     /\ \A q \in Requests : Committed(q)' <=> Committed(q)
                     /\ \A q \in Requests : Committed(q) => writes'[q] = writes[q]
                     /\ \A q \in Requests : answer'[q] = "ok" <=> answer[q] = "ok"
<1>0. ASSUME Silent PROVE UNCHANGED Promise!abstractVars
  <2>1. appliedNow' = appliedNow BY <1>0
  <2>2. answeredNow' = answeredNow BY <1>0
  <2> QED BY <1>0, <2>1, <2>2 DEF Promise!abstractVars
<1> USE DEF Inv, TypeOK
<1>1. ASSUME NEW r \in Requests, Progress(r) PROVE Promise!AbstractNext \/ UNCHANGED Promise!abstractVars
  <2>1. CASE Arrive(r)
    <3> Silent BY <2>1 DEF Arrive, Committed
    <3> QED BY <1>0
  <2>2. CASE Lock(r)
    <3> Silent BY <2>2 DEF Lock, Committed
    <3> QED BY <1>0
  <2>3. CASE Change(r)
    <3> Silent BY <2>3 DEF Change, Committed, AnswerMatchesPhase
    <3> QED BY <1>0
  <2>4. CASE Defer(r)
    <3> Silent BY <2>4 DEF Defer, Committed
    <3> QED BY <1>0
  <2>5. CASE Respond(r)
    <3> Silent BY <2>5 DEF Respond, Committed
    <3> QED BY <1>0
  <2>6. CASE Commit(r)
    <3>1. appliedNow[r] = MaxWrites + 1 BY <2>6, CommitAddsOwn
    <3>2. appliedNow' = [appliedNow EXCEPT ![r] = writes[r]] BY <2>6, CommitAddsOwn
    <3>3. ledger' = [ledger EXCEPT ![OwnerOf[r]] = @ \cup ({r} \X (1..writes[r]))]
      BY <2>6, CommitAddsOwn DEF Own
    <3>4. answeredNow' = answeredNow BY <2>6 DEF Commit
    <3>5. writes[r] \in 0..MaxWrites OBVIOUS
    <3>6. Promise!Apply(r) BY <3>1, <3>2, <3>3, <3>4, <3>5 DEF Promise!Apply, Promise!Pending
    <3> QED BY <3>6 DEF Promise!AbstractNext
  <2>7. CASE RunEffect(r)
    <3> Silent BY <2>7 DEF RunEffect, Committed
    <3> QED BY <1>0
  <2>8. CASE Flush(r)
    <3>1. Committed(r) BY <2>8 DEF Flush, Committed
    <3>2. appliedNow[r] # MaxWrites + 1 BY <3>1
    <3>3. answeredNow' = answeredNow \cup {r} BY <2>8 DEF Flush
    <3>4. appliedNow' = appliedNow /\ ledger' = ledger BY <2>8 DEF Flush, Committed
    <3>5. Promise!Answer(r) BY <3>2, <3>3, <3>4 DEF Promise!Answer, Promise!Pending
    <3> QED BY <3>5 DEF Promise!AbstractNext
  <2> QED BY <1>1, <2>1, <2>2, <2>3, <2>4, <2>5, <2>6, <2>7, <2>8 DEF Progress
<1>2. ASSUME NEW r \in Requests, Abort(r) PROVE UNCHANGED Promise!abstractVars
  <2> Silent BY <1>2 DEF Abort, Committed, AnswerMatchesPhase
  <2> QED BY <1>0
<1>3. ASSUME NEW r \in Requests, BreakEffect(r) PROVE UNCHANGED Promise!abstractVars
  <2> Silent BY <1>3 DEF BreakEffect, Committed, AnswerMatchesPhase
  <2> QED BY <1>0
<1>4. CASE Crash
  <2> Silent BY <1>4 DEF Crash, Committed
  <2> QED BY <1>0
<1>5. CASE UNCHANGED vars
  <2> Silent BY <1>5 DEF vars, Committed
  <2> QED BY <1>0
<1> QED BY <1>1, <1>2, <1>3, <1>4, <1>5 DEF Next, AllEnded

(* The locked, buffered transactions implement atomic, acknowledged ones.  *)
THEOREM ImplementsAtomicLedger == Spec => TakesEffectAtomically
<1>1. Init => Promise!AbstractInit
  BY DEF Init, Committed, Promise!AbstractInit, Promise!Pending
<1>2. Inv /\ Inv' /\ [Next]_vars => [Promise!AbstractNext]_(Promise!abstractVars)
  BY StepIsAbstractStep
<1> QED BY <1>1, <1>2, Invariance, PTL DEF Spec, TakesEffectAtomically, Promise!AbstractSpec
=============================================================================
