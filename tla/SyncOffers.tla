----------------------------- MODULE SyncOffers -----------------------------
(***************************************************************************)
(* What the syncs of one connection offer for approval                     *)
(* (modules/connections/connectionSync.service.ts, scrapeWorkbook.ts): the *)
(* watermarks and pending rows a run reads when it starts, the window they *)
(* open on the website, and the import sessions it cancels and creates for *)
(* each target while the owner approves sessions and imports files.  Syncs *)
(* of a connection never overlap (ConnectionSync).  A day is a number, 0   *)
(* the day before the first sync's window; of a card's two windows only    *)
(* the one by purchase date is kept.                                       *)
(***************************************************************************)
EXTENDS Naturals, FiniteSets, FiniteSetsExt

CONSTANTS Rows,       \* transactions the website will come to show
          Targets,    \* the bank account or cards of the connection
          TargetOf, DayOf,
          Overlap,    \* OVERLAP_DAYS of a target's kind
          NoTarget,
          Imported,   \* rows stored from files before the connection was made
          MaxSyncs,   \* bound: syncs of the connection
          MaxFiles    \* bound: statement files the owner imports

ASSUME TargetOfAssumption == TargetOf \in [Rows -> Targets]
ASSUME DayOfAssumption == DayOf \in [Rows -> Nat \ {0}]
ASSUME OverlapAssumption == Overlap \in [Targets -> Nat]
ASSUME ImportedAssumption == Imported \subseteq Rows
ASSUME NoTargetAssumption == NoTarget \notin Targets
ASSUME BoundsAssumption == {MaxSyncs, MaxFiles} \subseteq Nat

Syncs == 1..MaxSyncs
Offers == Syncs \X Targets     \* an import session, by the sync and target that made it

VARIABLES site,     \* what the website shows of each row
          filed,    \* rows stored from a file
          files,    \* files imported
          made,     \* syncs started; the last one is the one that runs
          status,   \* status of each sync
          listed,   \* targets in a sync's recorded outcome
          pending,  \* the outcome's pending rows, by target
          link,     \* the outcome's importSessionId: the sync that made it, or 0
          session,  \* status of each import session
          rowsOf,   \* rows of each import session's file
          after,    \* windowFor each target, from what the run read at its start
          fileMark, \* filesThrough of each target, as read then
          got,      \* the scraped rows still to import, by target
          phase,    \* idle, started, scraped
          target    \* target between its cancel and its create

syncs == <<made, status>>
outcome == <<listed, pending, link>>
sessions == <<session, rowsOf>>
read == <<after, fileMark>>
world == <<site, filed, files>>
vars == <<site, filed, files, made, status, listed, pending, link, session, rowsOf, after,
          fileMark, got, phase, target>>

Shown == {"unseen", "pending", "settled", "gone"}
Result == [here : BOOLEAN, settled : SUBSET Rows, pending : SUBSET Rows]
Nothing == [here |-> FALSE, settled |-> {}, pending |-> {}]

TypeOK ==
    /\ site \in [Rows -> Shown]
    /\ filed \subseteq Rows /\ files \in 0..MaxFiles /\ made \in 0..MaxSyncs
    /\ status \in [Syncs -> {"none", "running", "succeeded", "failed"}]
    /\ listed \in [Syncs -> SUBSET Targets]
    /\ pending \in [Offers -> SUBSET Rows]
    /\ link \in [Offers -> 0..MaxSyncs]
    /\ session \in [Offers -> {"none", "open", "approved", "cancelled"}]
    /\ rowsOf \in [Offers -> SUBSET Rows]
    /\ after \in [Targets -> Nat] /\ fileMark \in [Targets -> Nat]
    /\ got \in [Targets -> Result]
    /\ phase \in {"idle", "started", "scraped"}
    /\ target \in Targets \cup {NoTarget}

Init ==
    /\ site = [r \in Rows |-> IF r \in Imported THEN "settled" ELSE "unseen"]
    /\ filed = Imported /\ files = 0 /\ made = 0
    /\ status = [s \in Syncs |-> "none"]
    /\ listed = [s \in Syncs |-> {}]
    /\ pending = [o \in Offers |-> {}]
    /\ link = [o \in Offers |-> 0]
    /\ session = [o \in Offers |-> "none"]
    /\ rowsOf = [o \in Offers |-> {}]
    /\ after = [t \in Targets |-> 0] /\ fileMark = [t \in Targets |-> 0]
    /\ got = [t \in Targets |-> Nothing]
    /\ phase = "idle" /\ target = NoTarget
-----------------------------------------------------------------------------
OfTarget(t) == {r \in Rows : TargetOf[r] = t}
LastDay(rows) == IF rows = {} THEN 0 ELSE Max({DayOf[r] : r \in rows})
FirstDay(rows) == Min({DayOf[r] : r \in rows})
Later(a, b) == IF a > b THEN a ELSE b
Earlier(a, b) == IF a < b THEN a ELSE b
Back(day, days) == IF day > days THEN day - days ELSE 0

(* Rows stored by approved sync sessions of a target, and its watermarks.    *)
Synced(t) == UNION {rowsOf[<<s, t>>] : s \in {s \in Syncs : session[<<s, t>>] = "approved"}}
FilesThrough(t) == LastDay(filed \cap OfTarget(t))
StoredThrough(t) == Later(Back(LastDay(Synced(t)), Overlap[t]), FilesThrough(t))

(* The outcome a sync carries on from: the last one that succeeded.          *)
Succeeded == {s \in Syncs : status[s] = "succeeded"}

CarriedOfAnyRun(t) ==   \* mutant: a failed sync's empty outcome counts as the last one
    IF made = 0 THEN {} ELSE pending[<<made, t>>]

Carried(t) == IF Succeeded = {} THEN {} ELSE pending[<<Max(Succeeded), t>>]

WindowBelowFiles(t) ==   \* mutant: a pending row reopens days a file has covered
    IF Carried(t) = {} THEN StoredThrough(t)
    ELSE Earlier(FirstDay(Carried(t)) - 1, StoredThrough(t))

Window(t) ==
    LET floor == IF Carried(t) = {} THEN StoredThrough(t) ELSE FirstDay(Carried(t)) - 1
    IN Later(Earlier(floor, StoredThrough(t)), FilesThrough(t))

(* One scrape for the whole login, from the oldest day any target needs.     *)
ScrapeFrom == Min({after[t] : t \in Targets})

-----------------------------------------------------------------------------
(* The website: a row appears, settles, or goes before it ever settled.      *)
Appear(r, as) ==
    /\ site[r] = "unseen" /\ site' = [site EXCEPT ![r] = as]
    /\ UNCHANGED <<filed, files, syncs, outcome, sessions, read, got, phase, target>>

Settle(r, as) ==
    /\ site[r] = "pending" /\ site' = [site EXCEPT ![r] = as]
    /\ UNCHANGED <<filed, files, syncs, outcome, sessions, read, got, phase, target>>

(* The owner imports a statement of a target up to a day.                    *)
ImportFile(t, day) ==
    /\ files < MaxFiles /\ files' = files + 1
    /\ filed' = filed \cup {r \in OfTarget(t) : site[r] = "settled" /\ DayOf[r] <= day}
    /\ UNCHANGED <<site, syncs, outcome, sessions, read, got, phase, target>>

(* The owner approves a session; its rows are stored.                        *)
Approve(o) ==
    /\ session[o] = "open" /\ session' = [session EXCEPT ![o] = "approved"]
    /\ UNCHANGED <<world, syncs, outcome, rowsOf, read, got, phase, target>>
-----------------------------------------------------------------------------
Start ==
    /\ phase = "idle" /\ made < MaxSyncs /\ made' = made + 1
    /\ status' = [status EXCEPT ![made + 1] = "running"]
    /\ after' = [t \in Targets |-> Window(t)]
    /\ fileMark' = [t \in Targets |-> FilesThrough(t)]
    /\ phase' = "started"
    /\ UNCHANGED <<world, outcome, sessions, got, target>>

(* The website answers with the rows it shows from the first day on.         *)
Scrape(here) ==
    /\ phase = "started" /\ phase' = "scraped"
    /\ got' = [t \in Targets |->
                 [here |-> t \in here,
                  settled |-> {r \in OfTarget(t) : /\ t \in here /\ site[r] = "settled"
                                                   /\ DayOf[r] >= ScrapeFrom},
                  pending |-> {r \in OfTarget(t) : /\ t \in here /\ site[r] = "pending"
                                                   /\ DayOf[r] >= ScrapeFrom}]]
    /\ UNCHANGED <<world, syncs, outcome, sessions, read, target>>

NamedButLast(t) ==   \* mutant: the newest outcome is passed over
    {link[<<s, t>>] : s \in {s \in Succeeded : \E later \in Succeeded : later > s}} \ {0}

(* cancelUnapproved: the open sessions of the target that a succeeded sync's *)
(* outcome names.                                                            *)
Named(t) == {link[<<s, t>>] : s \in Succeeded} \ {0}

CancelUnapproved(t) ==
    /\ phase = "scraped" /\ target = NoTarget /\ got[t].here
    /\ session' = [o \in Offers |->
                     IF o[2] = t /\ o[1] \in Named(t) /\ session[o] = "open"
                     THEN "cancelled" ELSE session[o]]
    /\ target' = t
    /\ UNCHANGED <<world, syncs, outcome, rowsOf, read, got, phase>>

Fresh(t) == {r \in got[t].settled : DayOf[r] > after[t]}

(* importSessions.create: an identical file returns its earlier session.     *)
SameFile(t) == {s \in Syncs : session[<<s, t>>] \in {"open", "approved"} /\ rowsOf[<<s, t>>] = Fresh(t)}

Offer(t) ==
    LET me == <<made, t>> IN
    /\ target = t
    /\ \/ /\ Fresh(t) = {}
          /\ link' = [link EXCEPT ![me] = 0]
          /\ UNCHANGED sessions
       \/ /\ Fresh(t) # {}
          /\ \E s \in SameFile(t) :
                link' = [link EXCEPT ![me] = IF session[<<s, t>>] = "open" THEN s ELSE 0]
          /\ UNCHANGED sessions
       \/ /\ Fresh(t) # {} /\ SameFile(t) = {}
          /\ session' = [session EXCEPT ![me] = "open"]
          /\ rowsOf' = [rowsOf EXCEPT ![me] = Fresh(t)]
          /\ link' = [link EXCEPT ![me] = made]
    /\ pending' = [pending EXCEPT ![me] = got[t].pending]
    /\ listed' = [listed EXCEPT ![made] = @ \cup {t}]
    /\ got' = [got EXCEPT ![t] = Nothing]
    /\ target' = NoTarget
    /\ UNCHANGED <<world, syncs, read, phase>>

Reset ==
    /\ phase' = "idle" /\ target' = NoTarget
    /\ got' = [t \in Targets |-> Nothing]
    /\ after' = [t \in Targets |-> 0] /\ fileMark' = [t \in Targets |-> 0]

Succeed ==
    /\ phase = "scraped" /\ target = NoTarget /\ \A t \in Targets : ~got[t].here
    /\ status' = [status EXCEPT ![made] = "succeeded"]
    /\ Reset
    /\ UNCHANGED <<world, made, outcome, sessions>>

(* finish with its default outcome, or failInterrupted: nothing recorded.    *)
Fail ==
    /\ phase # "idle"
    /\ status' = [status EXCEPT ![made] = "failed"]
    /\ listed' = [listed EXCEPT ![made] = {}]
    /\ pending' = [o \in Offers |-> IF o[1] = made THEN {} ELSE pending[o]]
    /\ link' = [o \in Offers |-> IF o[1] = made THEN 0 ELSE link[o]]
    /\ Reset
    /\ UNCHANGED <<world, made, sessions>>

Next ==
    \/ \E r \in Rows : \/ \E as \in {"pending", "settled"} : Appear(r, as)
                       \/ \E as \in {"settled", "gone"} : Settle(r, as)
    \/ \E t \in Targets, r \in Rows : ImportFile(t, DayOf[r])
    \/ \E o \in Offers : Approve(o)
    \/ Start
    \/ \E here \in SUBSET Targets : Scrape(here)
    \/ \E t \in Targets : CancelUnapproved(t) \/ Offer(t)
    \/ Succeed \/ Fail

Spec == Init /\ [][Next]_vars
-----------------------------------------------------------------------------
OnOffer(t) == UNION {rowsOf[<<s, t>>] : s \in {s \in Syncs : session[<<s, t>>] = "open"}}
Taken(t) == Synced(t) \cup filed

NoFailure == \A s \in Syncs : status[s] # "failed"

(* connectionSync.service.ts:129, "two open sessions with the same rows could *)
(* both be approved": as long as no run failed, no row is on offer twice.    *)
(* (A run that fails after it made a session leaves it out of every outcome, *)
(* and the next sync offers its rows again beside it.)                       *)
OneOpenOffer ==
    NoFailure =>
        \A t \in Targets, s1, s2 \in Syncs :
            session[<<s1, t>>] = "open" /\ session[<<s2, t>>] = "open" /\ s1 # s2
                => rowsOf[<<s1, t>>] \cap rowsOf[<<s2, t>>] = {}

(* connectionSync.service.ts:50-51, "Rows imported from a file get none - the *)
(* website words them differently, so an overlap would add them twice": a    *)
(* new session offers no row that a file has stored, unless the file was     *)
(* imported after the sync read the watermarks.                              *)
NoFileRowOffered ==
    [][\A o \in Offers :
         session[o] = "none" /\ session'[o] = "open" /\ FilesThrough(o[2]) = fileMark[o[2]]
            => rowsOf'[o] \cap filed = {}]_vars

(* scrapeWorkbook.ts:15, "carried so the next sync takes them even if older   *)
(* than its window": a row the last succeeded sync saw pending is pending    *)
(* again in the next one's outcome, or gone, or offered, or taken, whatever  *)
(* failed in between.  The exceptions are the code's: days a file had        *)
(* covered when the sync read its marks, and a target the website did not    *)
(* list this time.                                                           *)
CarriedUntilOffered ==
    [][\A s \in Syncs :
         status[s] = "running" /\ status'[s] = "succeeded" /\ Succeeded # {} =>
           \A t \in listed[s] : \A r \in pending[<<Max(Succeeded), t>>] :
              \/ DayOf[r] <= fileMark[t]
              \/ site[r] = "gone"
              \/ r \in pending[<<s, t>>] \cup OnOffer(t) \cup Taken(t)]_vars
=============================================================================
