------------------------------- MODULE CheckIn -------------------------------
(***************************************************************************)
(* The weekly check-in (modules/journey/checkin.service.ts): a draft taken *)
(* through its steps and completed for the data its owner was shown, and   *)
(* the comparison with the last completed one.  A snapshot keeps the rows  *)
(* of three months, as many as fit; older rows and those that did not fit  *)
(* are only hashed.  A date stands for its month; a row is named by its    *)
(* place in the order in which the three tables are read.                  *)
(***************************************************************************)
EXTENDS Integers, FiniteSets

CONSTANTS Rows,            \* places of rows in the order they are read
          LastMonth, Cap,  \* bound; rows a snapshot keeps
          Nothing, MaxMoves   \* bound

VARIABLES month, entered, blocked, draft, shown, previous, before, moves

weekVars == <<month, entered, blocked, draft, shown, previous, before, moves>>

Record == [date : Nat, version : Nat]
ASSUME CheckInAssumption ==
    IsFiniteSet(Rows) /\ Rows \subseteq Nat /\ LastMonth \in Nat /\ MaxMoves \in Nat /\ Nothing \notin Record

CheckInInit ==
    /\ month = 3 /\ blocked = FALSE /\ draft = Nothing /\ shown = Nothing /\ moves = 0
    /\ previous = Nothing /\ before = <<>>
    /\ \E S \in SUBSET Rows : entered \in [S -> [date : 1..month, version : {0}]]
-----------------------------------------------------------------------------
WindowStart == month - 2
InWindow == {r \in DOMAIN entered : entered[r].date >= WindowStart}
Kept == {r \in InWindow : Cardinality({q \in InWindow : q <= r}) <= Cap}
Restricted(places) == [r \in places |-> entered[r]]
NeverTruncated == FALSE   \* mutant: rows that did not fit are not reported
Truncated == InWindow # Kept

Snapshot ==
    [month |-> month, start |-> WindowStart, rows |-> Restricted(Kept), historical |-> Restricted(DOMAIN entered \ Kept),
     truncated |-> Truncated, incomplete |-> blocked]

(* The comparison of two snapshots from the later of their windows on.       *)
LaterOf(a, b) == IF a > b THEN a ELSE b
From(s, start) == {r \in DOMAIN s.rows : s.rows[r].date >= start}
Comparison(old, new) ==
    LET start == LaterOf(old.start, new.start)
        added == From(new, start) \ From(old, start)
    IN [limited |-> old.truncated \/ new.truncated,
        added |-> Cardinality(added), late |-> Cardinality({r \in added : new.rows[r].date < old.month}),
        changed |-> Cardinality({r \in From(new, start) \cap From(old, start) : new.rows[r] # old.rows[r]}),
        removed |-> Cardinality(From(old, start) \ From(new, start)),
        historyChanged |-> old.start = new.start /\ old.historical # new.historical]
-----------------------------------------------------------------------------
Start ==
    /\ draft = Nothing /\ draft' = 0
    /\ UNCHANGED <<month, entered, blocked, shown, previous, before, moves>>
Advance ==
    /\ draft # Nothing /\ draft < 3 /\ (draft + 1 >= 2 => ~blocked) /\ draft' = draft + 1
    /\ UNCHANGED <<month, entered, blocked, shown, previous, before, moves>>
Current ==
    /\ shown # Snapshot /\ shown' = Snapshot
    /\ UNCHANGED <<month, entered, blocked, draft, previous, before, moves>>
Complete ==
    /\ draft = 3 /\ shown = Snapshot /\ ~blocked
    /\ draft' = Nothing /\ previous' = Snapshot /\ before' = entered
    /\ UNCHANGED <<month, entered, blocked, shown, moves>>

(* Rows entered, edited, moved to another date and removed; an issue that    *)
(* blocks, raised and settled; a month that passes.                          *)
Moves == moves < MaxMoves /\ moves' = moves + 1 /\ UNCHANGED <<draft, shown, previous, before>>
EnterRow(r, d) ==
    /\ Moves /\ r \notin DOMAIN entered /\ d <= month
    /\ entered' = [q \in DOMAIN entered \cup {r} |-> IF q = r THEN [date |-> d, version |-> moves + 1] ELSE entered[q]]
    /\ UNCHANGED <<month, blocked>>
EditRow(r, d) ==
    /\ Moves /\ r \in DOMAIN entered /\ d <= month /\ entered' = [entered EXCEPT ![r] = [date |-> d, version |-> moves + 1]]
    /\ UNCHANGED <<month, blocked>>
DeleteRow(r) ==
    /\ Moves /\ r \in DOMAIN entered /\ entered' = [q \in DOMAIN entered \ {r} |-> entered[q]]
    /\ UNCHANGED <<month, blocked>>
Issue == Moves /\ blocked' = ~blocked /\ UNCHANGED <<month, entered>>
NextMonth == Moves /\ month < LastMonth /\ month' = month + 1 /\ UNCHANGED <<entered, blocked>>

CheckInNext ==
    \/ Start \/ Advance \/ Current \/ Complete \/ Issue \/ NextMonth
    \/ \E r \in Rows : DeleteRow(r) \/ \E d \in 1..LastMonth : EnterRow(r, d) \/ EditRow(r, d)

CheckInSpec == CheckInInit /\ [][CheckInNext]_weekVars
-----------------------------------------------------------------------------
(* A check-in tells what changed since the last: as long as it does not say  *)
(* that its comparison is limited, the rows it counts as added, changed and  *)
(* removed are exactly those that differ from the last one's within both     *)
(* windows, and while the window is the same a difference in older rows is   *)
(* told as well (checkin.service.ts:13-40).                                  *)
At(table, r, since) == IF r \in DOMAIN table /\ table[r].date >= since THEN table[r] ELSE Nothing
ChangesNoticed ==
    previous # Nothing =>
        LET c == Comparison(previous, Snapshot)
            since == LaterOf(previous.start, WindowStart)
        IN ~c.limited =>
            /\ c.added + c.changed + c.removed = Cardinality({r \in Rows : At(entered, r, since) # At(before, r, since)})
            /\ previous.start = WindowStart /\ entered # before
                 => c.added + c.changed + c.removed > 0 \/ c.historyChanged
=============================================================================
