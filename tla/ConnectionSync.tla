--------------------------- MODULE ConnectionSync ---------------------------
(***************************************************************************)
(* The life of a connection's syncs: start requests, the background run of *)
(* each sync, the owner changing or removing the connection meanwhile, and *)
(* the server going down and coming back                                   *)
(* (modules/connections/connectionSync.service.ts, connections.service.ts  *)
(* and the listen callback of server.ts).  None of it runs inside the      *)
(* owner's lock, so each step is what happens between two awaits.  What a   *)
(* run imports is the subject of SyncOffers; here it may work or throw.    *)
(***************************************************************************)
EXTENDS Naturals, Sequences, FiniteSets

CONSTANTS Connections,
          Requests,      \* POST /connections/:id/sync in flight at once
          None,          \* no connection
          Approved,      \* connections whose provider has an approvalHint
          MaxSyncs,      \* bound: sync rows ever made
          MaxVersion,    \* bound: credentials a connection is given
          MaxCrashes,    \* bound: times the server goes down
          MaxFaults      \* bound: writes of a sync row the database rejects

ASSUME NoneAssumption == None \notin Connections
ASSUME ApprovedAssumption == Approved \subseteq Connections
ASSUME BoundsAssumption == {MaxSyncs, MaxVersion, MaxCrashes, MaxFaults} \subseteq Nat

VARIABLES server,    \* down, starting (failInterrupted still to come) or up
          stored,    \* FinancialConnection rows: exists, version, verified
          row,       \* status of each ConnectionSync row, or absent
          of,        \* the connection of each sync
          active,    \* the in-memory set of connections with a run
          request,   \* start requests
          worker,    \* the background run of each sync
          progress,  \* progress writes a run has chained and not yet made
          loggedIn,  \* credentials the website has accepted
          made, crashes, faults

vars == <<server, stored, row, of, active, request, worker, progress, loggedIn,
          made, crashes, faults>>
run == <<worker, progress, loggedIn>>
bounds == <<made, crashes, faults>>

Syncs == 1..MaxSyncs
Versions == 0..MaxVersion
Alive == {"running", "awaiting_approval"}
Ended == {"succeeded", "failed"}
Statuses == Alive \cup Ended \cup {"absent"}
Phases == {"none", "reading", "scraping", "scraped", "verifying", "importing",
           "throwing", "failing", "succeeding", "releasing"}

Connection == [exists : BOOLEAN, version : Versions, verified : BOOLEAN]
Request == [pc : {"idle", "read", "checked", "creating"}, connection : Connections \cup {None},
            free : BOOLEAN, version : Versions]
Worker == [phase : Phases, version : Versions, success : BOOLEAN]

TypeOK ==
    /\ server \in {"down", "starting", "up"}
    /\ stored \in [Connections -> Connection]
    /\ row \in [Syncs -> Statuses]
    /\ of \in [Syncs -> Connections \cup {None}]
    /\ active \subseteq Connections
    /\ request \in [Requests -> Request]
    /\ worker \in [Syncs -> Worker]
    /\ progress \in [Syncs -> Seq(Alive)]
    /\ loggedIn \in [Connections -> SUBSET Versions]
    /\ made \in 0..MaxSyncs /\ crashes \in 0..MaxCrashes /\ faults \in 0..MaxFaults

NoRequest == [pc |-> "idle", connection |-> None, free |-> FALSE, version |-> 0]
NoWorker == [phase |-> "none", version |-> 0, success |-> FALSE]

Init ==
    /\ server = "up"
    /\ stored = [c \in Connections |-> [exists |-> TRUE, version |-> 0, verified |-> FALSE]]
    /\ row = [s \in Syncs |-> "absent"]
    /\ of = [s \in Syncs |-> None]
    /\ active = {}
    /\ request = [q \in Requests |-> NoRequest]
    /\ worker = [s \in Syncs |-> NoWorker]
    /\ progress = [s \in Syncs |-> <<>>]
    /\ loggedIn = [c \in Connections |-> {}]
    /\ made = 0 /\ crashes = 0 /\ faults = 0

Live(s) == worker[s].phase # "none"
AliveRows(c) == {s \in Syncs : of[s] = c /\ row[s] \in Alive}

(* A write with `updateMany`, or one whose rejection is caught, does        *)
(* nothing once the row went with its connection.                           *)
Written(s, status) == IF row[s] = "absent" THEN row ELSE [row EXCEPT ![s] = status]
-----------------------------------------------------------------------------
(* connectionSync.start: two reads, then the check and the claim without an *)
(* await between them, then the row.                                        *)
ReadConnection(q, c) ==
    /\ server # "down" /\ request[q].pc = "idle"
    /\ stored[c].exists
    /\ made + Cardinality({p \in Requests : request[p].pc # "idle"}) < MaxSyncs
    /\ request' = [request EXCEPT ![q] = [pc |-> "read", connection |-> c, free |-> FALSE,
                                          version |-> stored[c].version]]
    /\ UNCHANGED <<server, stored, row, of, active, run, bounds>>

ReadRunning(q) ==
    /\ request[q].pc = "read"
    /\ request' = [request EXCEPT ![q].pc = "checked",
                                  ![q].free = AliveRows(request[q].connection) = {}]
    /\ UNCHANGED <<server, stored, row, of, active, run, bounds>>

ClaimByRowsAlone(q) ==   \* mutant: no in-memory claim is looked at
    LET c == request[q].connection IN
    /\ request[q].pc = "checked" /\ request[q].free
    /\ active' = active \cup {c}
    /\ request' = [request EXCEPT ![q].pc = "creating"]
    /\ UNCHANGED <<server, stored, row, of, run, bounds>>

Claim(q) ==
    LET c == request[q].connection IN
    /\ request[q].pc = "checked" /\ request[q].free /\ c \notin active
    /\ active' = active \cup {c}
    /\ request' = [request EXCEPT ![q].pc = "creating"]
    /\ UNCHANGED <<server, stored, row, of, run, bounds>>

Conflict(q) ==
    /\ request[q].pc = "checked" /\ (~request[q].free \/ request[q].connection \in active)
    /\ request' = [request EXCEPT ![q] = NoRequest]
    /\ UNCHANGED <<server, stored, row, of, active, run, bounds>>

(* The row and the run that starts as soon as the insert answers.  The run  *)
(* keeps the connection the request read.                                   *)
CreateRow(q) ==
    LET s == made + 1
        c == request[q].connection
    IN
    /\ request[q].pc = "creating" /\ stored[c].exists /\ s \in Syncs
    /\ row' = [row EXCEPT ![s] = "running"]
    /\ of' = [of EXCEPT ![s] = c]
    /\ worker' = [worker EXCEPT ![s] = [phase |-> "reading", version |-> request[q].version,
                                        success |-> FALSE]]
    /\ request' = [request EXCEPT ![q] = NoRequest]
    /\ made' = s
    /\ UNCHANGED <<server, stored, active, progress, loggedIn, crashes, faults>>

(* The insert is rejected, by the foreign key of a removed connection or by *)
(* a fault: start throws, and nothing takes the claim back.                 *)
CreateRefused(q) ==
    LET gone == ~stored[request[q].connection].exists IN
    /\ request[q].pc = "creating"
    /\ gone \/ faults < MaxFaults
    /\ faults' = IF gone THEN faults ELSE faults + 1
    /\ request' = [request EXCEPT ![q] = NoRequest]
    /\ UNCHANGED <<server, stored, row, of, active, run, made, crashes>>
-----------------------------------------------------------------------------
(* run: the background worker.  Every await of its try block may throw.     *)
At(s, phase) == worker[s].phase = phase
Go(s, phase) == worker' = [worker EXCEPT ![s].phase = phase]

ReadTargets(s) ==
    /\ At(s, "reading") /\ Go(s, "scraping")
    /\ UNCHANGED <<server, stored, row, of, active, request, progress, loggedIn, bounds>>

(* The website's login form was submitted (awaiting_approval, when the      *)
(* provider asks on the phone) or accepted (running).                       *)
Report(s, status) ==
    /\ At(s, "scraping") /\ Len(progress[s]) < 2
    /\ status = "awaiting_approval" => of[s] \in Approved
    /\ progress' = [progress EXCEPT ![s] = Append(@, status)]
    /\ UNCHANGED <<server, stored, row, of, active, request, worker, loggedIn, bounds>>

WriteProgress(s) ==
    /\ progress[s] # <<>>
    /\ row' = Written(s, Head(progress[s]))
    /\ progress' = [progress EXCEPT ![s] = Tail(@)]
    /\ UNCHANGED <<server, stored, of, active, request, worker, loggedIn, bounds>>

ScrapeEnds(s, success) ==
    /\ At(s, "scraping")
    /\ worker' = [worker EXCEPT ![s].phase = "scraped", ![s].success = success]
    /\ loggedIn' = IF success
                     THEN [loggedIn EXCEPT ![of[s]] = @ \cup {worker[s].version}]
                     ELSE loggedIn
    /\ UNCHANGED <<server, stored, row, of, active, request, progress, bounds>>

AfterScrape(s) == IF At(s, "scraped") /\ worker[s].success THEN "verifying" ELSE "failing"

AwaitProgressUnchained(s) ==   \* mutant: the progress writes are not awaited
    /\ worker[s].phase \in {"scraped", "throwing"}
    /\ Go(s, AfterScrape(s))
    /\ UNCHANGED <<server, stored, row, of, active, request, progress, loggedIn, bounds>>

AwaitProgress(s) ==
    /\ worker[s].phase \in {"scraped", "throwing"} /\ progress[s] = <<>>
    /\ Go(s, AfterScrape(s))
    /\ UNCHANGED <<server, stored, row, of, active, request, progress, loggedIn, bounds>>

(* verifiedAt comes from the connection the request read, or from the clock. *)
Verify(s) ==
    /\ At(s, "verifying") /\ stored[of[s]].exists
    /\ stored' = [stored EXCEPT ![of[s]].verified = TRUE]
    /\ Go(s, "importing")
    /\ UNCHANGED <<server, row, of, active, request, progress, loggedIn, bounds>>

(* Every target imported and lastSyncAt stamped. *)
Import(s) ==
    /\ At(s, "importing") /\ stored[of[s]].exists /\ Go(s, "succeeding")
    /\ UNCHANGED <<server, stored, row, of, active, request, progress, loggedIn, bounds>>

Throw(s) ==
    /\ \/ worker[s].phase \in {"reading", "scraping", "importing"}
       \/ At(s, "verifying") /\ ~stored[of[s]].exists
    /\ Go(s, "throwing")
    /\ UNCHANGED <<server, stored, row, of, active, request, progress, loggedIn, bounds>>

Finish(s) ==
    /\ worker[s].phase \in {"succeeding", "failing"}
    /\ row' = Written(s, IF At(s, "succeeding") THEN "succeeded" ELSE "failed")
    /\ Go(s, "releasing")
    /\ UNCHANGED <<server, stored, of, active, request, progress, loggedIn, bounds>>

(* The success is written inside the try block, the failure outside it. *)
FinishRefused(s) ==
    /\ worker[s].phase \in {"succeeding", "failing"} /\ faults < MaxFaults
    /\ faults' = faults + 1
    /\ Go(s, IF At(s, "succeeding") THEN "throwing" ELSE "releasing")
    /\ UNCHANGED <<server, stored, row, of, active, request, progress, loggedIn, made, crashes>>

ReleaseForgotten(s) ==   \* mutant: a failed run keeps the in-memory claim
    /\ At(s, "releasing")
    /\ active' = IF row[s] = "failed" THEN active ELSE active \ {of[s]}
    /\ worker' = [worker EXCEPT ![s] = NoWorker]
    /\ UNCHANGED <<server, stored, row, of, request, progress, loggedIn, bounds>>

Release(s) ==
    /\ At(s, "releasing")
    /\ active' = active \ {of[s]}
    /\ worker' = [worker EXCEPT ![s] = NoWorker]
    /\ UNCHANGED <<server, stored, row, of, request, progress, loggedIn, bounds>>
-----------------------------------------------------------------------------
(* connectionsService.update with new credentials, and remove, whose delete *)
(* takes the sync rows along (onDelete: Cascade).                           *)
UpdateCredentials(c) ==
    /\ server # "down" /\ stored[c].exists /\ stored[c].version < MaxVersion
    /\ stored' = [stored EXCEPT ![c] = [exists |-> TRUE, version |-> @.version + 1,
                                        verified |-> FALSE]]
    /\ UNCHANGED <<server, row, of, active, request, run, bounds>>

RemoveConnection(c) ==
    /\ server # "down" /\ stored[c].exists
    /\ stored' = [stored EXCEPT ![c].exists = FALSE]
    /\ row' = [s \in Syncs |-> IF of[s] = c THEN "absent" ELSE row[s]]
    /\ UNCHANGED <<server, of, active, request, run, bounds>>

(* The process ends, with everything it held in memory. *)
Crash ==
    /\ server # "down" /\ crashes < MaxCrashes
    /\ server' = "down" /\ crashes' = crashes + 1
    /\ active' = {}
    /\ request' = [q \in Requests |-> NoRequest]
    /\ worker' = [s \in Syncs |-> NoWorker]
    /\ progress' = [s \in Syncs |-> <<>>]
    /\ UNCHANGED <<stored, row, of, loggedIn, made, faults>>

(* The server listens; failInterrupted is called then and not awaited. *)
Restart ==
    /\ server = "down" /\ server' = "starting"
    /\ UNCHANGED <<stored, row, of, active, request, run, bounds>>

FailInterrupted ==
    /\ server = "starting" /\ server' = "up"
    /\ row' = [s \in Syncs |-> IF row[s] \in Alive THEN "failed" ELSE row[s]]
    /\ UNCHANGED <<stored, of, active, request, run, bounds>>

FailInterruptedRefused ==
    /\ server = "starting" /\ server' = "up"
    /\ faults < MaxFaults /\ faults' = faults + 1
    /\ UNCHANGED <<stored, row, of, active, request, run, made, crashes>>
-----------------------------------------------------------------------------
RunStep(s) ==
    \/ ReadTargets(s) \/ AwaitProgress(s) \/ Verify(s) \/ Import(s) \/ Throw(s)
    \/ Finish(s) \/ FinishRefused(s) \/ Release(s)

RequestStep(q) ==
    \/ ReadRunning(q) \/ Claim(q) \/ Conflict(q) \/ CreateRow(q) \/ CreateRefused(q)

Next ==
    \/ \E q \in Requests, c \in Connections : ReadConnection(q, c)
    \/ \E q \in Requests : RequestStep(q)
    \/ \E s \in Syncs : RunStep(s) \/ WriteProgress(s)
    \/ \E s \in Syncs, status \in Alive : Report(s, status)
    \/ \E s \in Syncs, success \in BOOLEAN : ScrapeEnds(s, success)
    \/ \E c \in Connections : UpdateCredentials(c) \/ RemoveConnection(c)
    \/ Crash \/ Restart \/ FailInterrupted \/ FailInterruptedRefused

Spec == Init /\ [][Next]_vars

(* What goes on by itself: a request and a run continue when their await     *)
(* answers, the browser's waits time out (defaultTimeout), a chained write   *)
(* is made, and a server that went down is started again.                    *)
Fairness ==
    /\ \A q \in Requests : WF_vars(RequestStep(q))
    /\ \A s \in Syncs : WF_vars(RunStep(s))
    /\ \A s \in Syncs : WF_vars(WriteProgress(s))
    /\ \A s \in Syncs : WF_vars(\E success \in BOOLEAN : ScrapeEnds(s, success))
    /\ WF_vars(Restart) /\ WF_vars(FailInterrupted)

FairSpec == Spec /\ Fairness
-----------------------------------------------------------------------------
(* Two start requests that both found no running row never get a run each:   *)
(* the claim is taken between their reads and their inserts.                 *)
OneRunPerConnection ==
    \A s, t \in Syncs : Live(s) /\ Live(t) /\ of[s] = of[t] => s = t

(* Once failInterrupted has been through, a row that still looks alive has   *)
(* its run, whatever the server went through: nobody waits for a sync that   *)
(* died with its browser (unless the database rejected a write of its row).  *)
AliveHasRun == server = "up" /\ faults = 0 => \A s \in Syncs : row[s] \in Alive => Live(s)

(* A sync that succeeded, or that failed and has no run left, keeps that     *)
(* status: no late progress write, no other run and no restart changes it.   *)
EndedStaysEnded ==
    [][\A s \in Syncs : row[s] = "succeeded" \/ (row[s] = "failed" /\ ~Live(s))
                         => row'[s] \in {row[s], "absent"}]_vars

(* Every sync ends, or goes with its connection, however often the server    *)
(* goes down under it (connectionSync.service.ts:247).  A rejected write may *)
(* leave a row that looks alive until the next restart.                      *)
SyncEnds == \A s \in Syncs : row[s] \in Alive ~> row[s] \notin Alive \/ faults > 0

(* A connection that refuses to sync will accept a sync again, unless the    *)
(* insert of a row was rejected: then nothing takes its claim back.          *)
ClaimReleased == \A c \in Connections : c \in active /\ stored[c].exists
                    ~> c \notin active \/ ~stored[c].exists \/ faults > 0

(* The two together: whatever fails, neither a sync nor a claim is forever.  *)
SyncsAndClaimsEnd == SyncEnds /\ ClaimReleased

(* connections.service.ts:55, "New credentials make the connection           *)
(* unverified again until a login succeeds": a verified connection's         *)
(* credentials are ones the website has accepted.                            *)
VerifiedByItsLogin ==
    \A c \in Connections : stored[c].verified => stored[c].version \in loggedIn[c]
=============================================================================
