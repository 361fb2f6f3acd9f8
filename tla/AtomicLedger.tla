---------------------------- MODULE AtomicLedger ----------------------------
(***************************************************************************)
(* What a financial request is promised: its changes to its owner's books  *)
(* appear all at once or never, and an answer that reports success is      *)
(* given only when they are there.  There are no locks, snapshots,         *)
(* buffered responses or deferred effects here; FinancialTransaction is    *)
(* the machinery that provides this.                                       *)
(***************************************************************************)
EXTENDS Naturals

CONSTANTS Requests, Owners, OwnerOf, MaxWrites

VARIABLES books,     \* the committed changes of each owner
          applied,   \* how many changes a request made, or Pending
          answered   \* the requests whose success the client has been told

abstractVars == <<books, applied, answered>>

Pending == MaxWrites + 1

AbstractInit ==
    /\ books = [o \in Owners |-> {}]
    /\ applied = [r \in Requests |-> Pending]
    /\ answered = {}

(* Every change of one request, in one step, on top of everything that was *)
(* there before.                                                           *)
Apply(r) ==
    /\ applied[r] = Pending
    /\ \E n \in 0..MaxWrites :
          /\ applied' = [applied EXCEPT ![r] = n]
          /\ books' = [books EXCEPT ![OwnerOf[r]] = @ \cup ({r} \X (1..n))]
    /\ UNCHANGED answered

Answer(r) ==
    /\ applied[r] # Pending
    /\ answered' = answered \cup {r}
    /\ UNCHANGED <<books, applied>>

AbstractNext == \E r \in Requests : Apply(r) \/ Answer(r)

AbstractSpec == AbstractInit /\ [][AbstractNext]_abstractVars
=============================================================================
