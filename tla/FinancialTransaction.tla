------------------------ MODULE FinancialTransaction ------------------------
(***************************************************************************)
(* How a financial HTTP request reaches the database:                      *)
(* config/database.ts (withFinancialTransaction, afterFinancialCommit, the *)
(* prisma proxy) and utils/asyncHandler.ts (the response is held until the *)
(* transaction has committed).  A change is a pair <<request, k>>; reading *)
(* everything the owner has and writing back a value derived from it (a    *)
(* balance, a resolution pass) is a view that keeps what it read and adds  *)
(* its own changes.                                                        *)
(***************************************************************************)
EXTENDS Naturals, FiniteSets

CONSTANTS Requests,    \* requests handled by asyncHandler
          Owners,      \* authenticated users
          OwnerOf,     \* req.userId of a request
          Mutations,   \* requests that are not GET and not under /api/journey
          NoRequest,   \* no holder of a lock
          MaxWrites,   \* bound: changes one request makes
          MaxCrashes   \* bound: server crashes in a behaviour

ASSUME OwnerOfAssumption == OwnerOf \in [Requests -> Owners]
ASSUME MutationsAssumption == Mutations \subseteq Requests
ASSUME NoRequestAssumption == NoRequest \notin Requests
ASSUME MaxWritesAssumption == MaxWrites \in Nat
ASSUME MaxCrashesAssumption == MaxCrashes \in Nat

VARIABLES ledger,    \* committed changes of each owner
          revision,  \* FinancialProfile.revision of each owner
          lock,      \* holder of the owner's users row (FOR UPDATE)
          phase,     \* where a request is
          view,      \* the transaction's snapshot with its own changes
          writes,    \* changes the transaction has made
          effect,    \* the deferred effect: none, deferred, ran or broke
          answer,    \* what the client has: none, held, ok or error
          crashes

vars == <<ledger, revision, lock, phase, view, writes, effect, answer, crashes>>

Phases == {"new", "queued", "open", "committed", "done", "failed", "lost", "unanswered"}
Ended == {"done", "failed", "lost", "unanswered"}
Changes == Requests \X (1..MaxWrites)

TypeOK ==
    /\ ledger \in [Owners -> SUBSET Changes]
    /\ revision \in [Owners -> Nat]
    /\ lock \in [Owners -> Requests \cup {NoRequest}]
    /\ phase \in [Requests -> Phases]
    /\ view \in [Requests -> SUBSET Changes]
    /\ writes \in [Requests -> 0..MaxWrites]
    /\ effect \in [Requests -> {"none", "deferred", "ran", "broke"}]
    /\ answer \in [Requests -> {"none", "held", "ok", "error"}]
    /\ crashes \in 0..MaxCrashes

Init ==
    /\ ledger = [o \in Owners |-> {}]
    /\ revision = [o \in Owners |-> 0]
    /\ lock = [o \in Owners |-> NoRequest]
    /\ phase = [r \in Requests |-> "new"]
    /\ view = [r \in Requests |-> {}]
    /\ writes = [r \in Requests |-> 0]
    /\ effect = [r \in Requests |-> "none"]
    /\ answer = [r \in Requests |-> "none"]
    /\ crashes = 0
-----------------------------------------------------------------------------
(* asyncHandler replaces res.send and res.end and asks for a transaction.  *)
Arrive(r) ==
    /\ phase[r] = "new"
    /\ phase' = [phase EXCEPT ![r] = "queued"]
    /\ UNCHANGED <<ledger, revision, lock, view, writes, effect, answer, crashes>>

(* SELECT ... FOR UPDATE on the owner's row returns.  The read view of the *)
(* transaction is opened by the first plain read after it, so it holds     *)
(* everything committed by earlier holders of the lock.                    *)
Lock(r) ==
    /\ phase[r] = "queued"
    /\ lock[OwnerOf[r]] = NoRequest
    /\ lock' = [lock EXCEPT ![OwnerOf[r]] = r]
    /\ view' = [view EXCEPT ![r] = ledger[OwnerOf[r]]]
    /\ phase' = [phase EXCEPT ![r] = "open"]
    /\ UNCHANGED <<ledger, revision, writes, effect, answer, crashes>>

(* Mutant: a nested transaction commits on its own. *)
ChangeCommitsNested(r) ==
    /\ phase[r] = "open" /\ answer[r] = "none" /\ writes[r] < MaxWrites
    /\ writes' = [writes EXCEPT ![r] = @ + 1]
    /\ view' = [view EXCEPT ![r] = @ \cup {<<r, writes[r] + 1>>}]
    /\ ledger' = [ledger EXCEPT ![OwnerOf[r]] = view'[r]]
    /\ UNCHANGED <<revision, lock, phase, effect, answer, crashes>>

(* A domain service writes through the prisma proxy.  Its own              *)
(* withFinancialTransaction or $transaction reuses the open one and does   *)
(* not commit.                                                             *)
Change(r) ==
    /\ phase[r] = "open"
    /\ answer[r] = "none"
    /\ writes[r] < MaxWrites
    /\ writes' = [writes EXCEPT ![r] = @ + 1]
    /\ view' = [view EXCEPT ![r] = @ \cup {<<r, writes[r] + 1>>}]
    /\ UNCHANGED <<ledger, revision, lock, phase, effect, answer, crashes>>

(* afterFinancialCommit pushes an effect on the transaction's list.        *)
Defer(r) ==
    /\ phase[r] = "open"
    /\ answer[r] = "none"
    /\ effect[r] = "none"
    /\ effect' = [effect EXCEPT ![r] = "deferred"]
    /\ UNCHANGED <<ledger, revision, lock, phase, view, writes, answer, crashes>>

(* Mutant: the response is sent when the handler calls res.json. *)
RespondAtOnce(r) ==
    /\ phase[r] = "open" /\ answer[r] = "none"
    /\ answer' = [answer EXCEPT ![r] = "ok"]
    /\ UNCHANGED <<ledger, revision, lock, phase, view, writes, effect, crashes>>

(* The handler calls res.json: the body is kept in flush, nothing is sent. *)
Respond(r) ==
    /\ phase[r] = "open"
    /\ answer[r] = "none"
    /\ answer' = [answer EXCEPT ![r] = "held"]
    /\ UNCHANGED <<ledger, revision, lock, phase, view, writes, effect, crashes>>

(* The handler has returned; a mutation bumps the revision in the same     *)
(* transaction, which then commits and gives the lock back.                *)
Commit(r) ==
    /\ phase[r] = "open"
    /\ answer[r] = "held"
    /\ ledger' = [ledger EXCEPT ![OwnerOf[r]] = view[r]]
    /\ revision' = [revision EXCEPT ![OwnerOf[r]] = IF r \in Mutations THEN @ + 1 ELSE @]
    /\ lock' = [lock EXCEPT ![OwnerOf[r]] = NoRequest]
    /\ phase' = [phase EXCEPT ![r] = "committed"]
    /\ UNCHANGED <<view, writes, effect, answer, crashes>>

(* Mutant: a failed transaction keeps the owner's row locked. *)
AbortKeepsLock(r) ==
    /\ phase[r] \in {"queued", "open"}
    /\ phase' = [phase EXCEPT ![r] = "failed"]
    /\ answer' = [answer EXCEPT ![r] = "error"]
    /\ UNCHANGED <<ledger, revision, lock, view, writes, effect, crashes>>

(* The handler throws, a nested call names another owner, or a timeout     *)
(* ends the wait or the transaction: everything is rolled back, deferred   *)
(* effects are dropped and the error is answered.                          *)
Abort(r) ==
    /\ phase[r] \in {"queued", "open"}
    /\ lock' = IF phase[r] = "open" THEN [lock EXCEPT ![OwnerOf[r]] = NoRequest] ELSE lock
    /\ phase' = [phase EXCEPT ![r] = "failed"]
    /\ answer' = [answer EXCEPT ![r] = "error"]
    /\ UNCHANGED <<ledger, revision, view, writes, effect, crashes>>

(* A deferred effect runs after the commit, in a transaction of its own    *)
(* that needs the owner's lock again.                                      *)
RunEffect(r) ==
    /\ phase[r] = "committed"
    /\ effect[r] = "deferred"
    /\ lock[OwnerOf[r]] = NoRequest
    /\ effect' = [effect EXCEPT ![r] = "ran"]
    /\ UNCHANGED <<ledger, revision, lock, phase, view, writes, answer, crashes>>

(* It throws: the request is answered with an error although its           *)
(* transaction has committed.                                              *)
BreakEffect(r) ==
    /\ phase[r] = "committed"
    /\ effect[r] = "deferred"
    /\ effect' = [effect EXCEPT ![r] = "broke"]
    /\ phase' = [phase EXCEPT ![r] = "failed"]
    /\ answer' = [answer EXCEPT ![r] = "error"]
    /\ UNCHANGED <<ledger, revision, lock, view, writes, crashes>>

(* Mutant: effects are not awaited before the answer. *)
FlushBeforeEffects(r) ==
    /\ phase[r] = "committed"
    /\ phase' = [phase EXCEPT ![r] = "done"]
    /\ answer' = [answer EXCEPT ![r] = "ok"]
    /\ UNCHANGED <<ledger, revision, lock, view, writes, effect, crashes>>

(* The transaction and its effects are over: the held response is sent.    *)
Flush(r) ==
    /\ phase[r] = "committed"
    /\ effect[r] # "deferred"
    /\ phase' = [phase EXCEPT ![r] = "done"]
    /\ answer' = [answer EXCEPT ![r] = "ok"]
    /\ UNCHANGED <<ledger, revision, lock, view, writes, effect, crashes>>

(* The process dies: the database rolls open transactions back; held       *)
(* responses and the list of deferred effects were in memory.              *)
Crash ==
    /\ crashes < MaxCrashes
    /\ crashes' = crashes + 1
    /\ phase' = [r \in Requests |-> IF phase[r] \in {"queued", "open"} THEN "lost"
                               ELSE IF phase[r] = "committed" THEN "unanswered"
                               ELSE phase[r]]
    /\ answer' = [r \in Requests |-> IF answer[r] = "held" THEN "none" ELSE answer[r]]
    /\ lock' = [o \in Owners |-> NoRequest]
    /\ UNCHANGED <<ledger, revision, view, writes, effect>>

Progress(r) ==
    \/ Arrive(r) \/ Lock(r) \/ Change(r) \/ Defer(r) \/ Respond(r)
    \/ Commit(r) \/ RunEffect(r) \/ Flush(r)

(* Nothing is left to do once every request has ended. *)
AllEnded == (\A r \in Requests : phase[r] \in Ended) /\ UNCHANGED vars

Next ==
    \/ \E r \in Requests : Progress(r) \/ Abort(r) \/ BreakEffect(r)
    \/ Crash
    \/ AllEnded

Spec == Init /\ [][Next]_vars

(* A handler runs on, and the database grants a free row lock to a request *)
(* that waits for it.  Nothing has to fail, time out or crash.             *)
Fairness == \A r \in Requests : WF_vars(Progress(r))
FairSpec == Spec /\ Fairness
-----------------------------------------------------------------------------
Committed(r) == phase[r] \in {"committed", "done", "unanswered"} \/ effect[r] = "broke"
Own(r) == {r} \X (1..writes[r])

(* A request the client was told succeeded has all its changes in its      *)
(* owner's books, whatever other requests of the owner read and wrote back *)
(* in the meantime and whether or not the server crashed since:            *)
(* "Do not acknowledge a write until its database transaction has          *)
(* committed" (utils/asyncHandler.ts).                                     *)
AcknowledgedIsDurable ==
    \A r \in Requests : answer[r] = "ok" => Own(r) \subseteq ledger[OwnerOf[r]]

(* The books of an owner hold exactly the changes of the owner's committed *)
(* requests: none of a request that failed, crashed or still runs (a       *)
(* service that commits on its own inside the request's transaction), none *)
(* of another owner's, and none lost to a later read-modify-write.         *)
BooksAreCommittedRequests ==
    \A o \in Owners :
        ledger[o] = UNION {Own(r) : r \in {q \in Requests : OwnerOf[q] = o /\ Committed(q)}}

(* What a deferred effect does outside the database (removing a file) is   *)
(* done only for a transaction that has committed, and the client is told  *)
(* of success only after it was done.                                      *)
EffectsFollowCommit ==
    \A r \in Requests :
        /\ effect[r] = "ran" => Committed(r)
        /\ answer[r] = "ok" => effect[r] # "deferred"

(* The requests of an owner take effect one after the other, atomically.   *)
Promise == INSTANCE AtomicLedger WITH
    books <- ledger,
    applied <- [r \in Requests |-> IF Committed(r) THEN writes[r] ELSE MaxWrites + 1],
    answered <- {r \in Requests : answer[r] = "ok"}

TakesEffectAtomically == Promise!AbstractSpec

(* Every request is answered, or the server crashed while it ran: no       *)
(* request waits for a lock that is never released.                        *)
EveryRequestEnds == \A r \in Requests : phase[r] = "queued" ~> phase[r] \in Ended
=============================================================================
