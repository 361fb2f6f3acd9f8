------------------------------- MODULE Throttle -------------------------------
(* The limiter of requests: a bucket for each caller, counting the requests  *)
(* of a window that begins with the first of them, in a table of bounded     *)
(* size that is cleaned once in a while.  A request is handled in one step.  *)
EXTENDS Integers, FiniteSets

CONSTANTS Keys,             \* callers
          WindowMs, Maximum, \* requests of a caller in a window
          Capacity, Cleanup, \* of the table; time between two cleanings
          NoBucket, LastMs, MaxRequests

VARIABLES buckets, nextCleanup, clock, requests
limitVars == <<buckets, nextCleanup, clock, requests>>

ASSUME LimitAssumption ==
    /\ IsFiniteSet(Keys) /\ WindowMs \in Nat \ {0} /\ Cleanup \in Nat /\ Maximum \in Nat /\ Capacity \in Nat
    /\ NoBucket \notin [count : Nat, resetAt : Int]
LimitInit == buckets = [k \in Keys |-> NoBucket] /\ nextCleanup = 0 /\ clock = 1 /\ requests = {}

Size(table) == Cardinality({k \in Keys : table[k] # NoBucket})
Alive(bucket) == bucket # NoBucket /\ bucket.resetAt > clock
Cleaned == IF clock >= nextCleanup THEN [k \in Keys |-> IF Alive(buckets[k]) THEN buckets[k] ELSE NoBucket] ELSE buckets
Opened == [count |-> 1, resetAt |-> clock + WindowMs]
Counted(bucket) == [bucket EXCEPT !.count = @ + 1]
Prolonged(bucket) == [bucket EXCEPT !.count = @ + 1, !.resetAt = clock + WindowMs]   \* mutant: each request begins the window anew
Hit(bucket) == Counted(bucket)

Full(table, k) == ~Alive(table[k]) /\ table[k] = NoBucket /\ Size(table) >= Capacity
After(table, k) ==
    IF Alive(table[k]) THEN [table EXCEPT ![k] = Hit(@)]
    ELSE IF Full(table, k) THEN table
    ELSE [table EXCEPT ![k] = Opened]
Passes(table, k) == ~Full(table, k) /\ After(table, k)[k].count <= Maximum
RateLimit(k) ==
    /\ Cardinality(requests) < MaxRequests
    /\ buckets' = After(Cleaned, k)
    /\ nextCleanup' = IF clock >= nextCleanup THEN clock + Cleanup ELSE nextCleanup
    /\ requests' = requests \cup {[n |-> Cardinality(requests) + 1, key |-> k, at |-> clock, passed |-> Passes(Cleaned, k), full |-> Full(Cleaned, k)]}
    /\ UNCHANGED clock
ClockTick == clock < LastMs /\ clock' = clock + 1 /\ UNCHANGED <<buckets, nextCleanup, requests>>
LimitNext == (\E k \in Keys : RateLimit(k)) \/ ClockTick
LimitSpec == LimitInit /\ [][LimitNext]_limitVars
-----------------------------------------------------------------------------
Within(k, from, to) == {r \in requests : r.key = k /\ r.at >= from /\ r.at < to}
Passed(rs) == {r \in rs : r.passed}
Before(r) == {q \in requests : q.n < r.n}

(* rateLimit.middleware.ts.  No stretch of a window's length, from any       *)
(* request on, lets its caller through more often than two windows may; one  *)
(* is refused only after it was let through as often as it may within the    *)
(* last window, or because as many others as the table holds came within a   *)
(* window and the time between two cleanings; and the table never grows past *)
(* its size.                                                                 *)
ThrottleHolds ==
    /\ Size(buckets) <= Capacity
    /\ \A q \in requests : Cardinality(Passed(Within(q.key, q.at, q.at + WindowMs))) <= 2 * Maximum
    /\ \A r \in {r \in requests : ~r.passed} :
          IF r.full THEN Cardinality({q.key : q \in {q \in Before(r) : q.at > r.at - WindowMs - Cleanup}} \ {r.key}) >= Capacity
          ELSE Cardinality(Passed(Within(r.key, r.at - WindowMs + 1, r.at + 1) \cap Before(r))) >= Maximum
=============================================================================
