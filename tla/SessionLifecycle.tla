-------------------------- MODULE SessionLifecycle --------------------------
(* What the owner is promised about an import: nothing reaches the books   *)
(* before she approves it, it reaches them in one step, and undoing it     *)
(* takes all its entries out in one step, for good.                        *)
EXTENDS Naturals

CONSTANT Sessions

VARIABLES life,     \* absent, offered, withdrawn, booked or undone
          entries   \* entries in the books that name the session as their source

AbstractInit ==
    /\ life = [s \in Sessions |-> "absent"]
    /\ entries = [s \in Sessions |-> {}]

Becomes(s, from, to) == life[s] = from /\ life' = [life EXCEPT ![s] = to]

Offer(s) == Becomes(s, "absent", "offered") /\ UNCHANGED entries
Withdraw(s) == Becomes(s, "offered", "withdrawn") /\ UNCHANGED entries

Book(s) ==
    /\ Becomes(s, "offered", "booked")
    /\ \A r \in Sessions \ {s} : entries'[r] = entries[r]
    /\ DOMAIN entries' = Sessions

Undo(s) ==
    /\ Becomes(s, "booked", "undone")
    /\ entries' = [entries EXCEPT ![s] = {}]

(* Entries of booked sessions are removed one by one, or with their account. *)
Correct ==
    /\ UNCHANGED life
    /\ DOMAIN entries' = Sessions
    /\ \A s \in Sessions : entries'[s] \subseteq entries[s]

AbstractNext ==
    \/ \E s \in Sessions : Offer(s) \/ Withdraw(s) \/ Book(s) \/ Undo(s)
    \/ Correct

AbstractSpec == AbstractInit /\ [][AbstractNext]_<<life, entries>>
=============================================================================
